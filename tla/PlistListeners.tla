--------------------------- MODULE PlistListeners ---------------------------
(***************************************************************************)
(* The services of src/lib that listen to their plist decoder themselves:  *)
(* house-arrest waits for one response with a once listener and then gives *)
(* the socket to AFC; notification-proxy keeps one listener per name.  A   *)
(* client has a socket to one of them.                                     *)
(*                                                                         *)
(* An action is what runs between two awaits.  The device is external: it  *)
(* reads what was written in order and answers late or never.  Several of  *)
(* its messages may come in one chunk of the socket: the decoder has them  *)
(* all before the promises settle that the first one resolved.             *)
(***************************************************************************)
EXTENDS Naturals, Sequences, SequencesExt

CONSTANTS MaxMade,   \* bound: calls made in one behaviour
          MaxNews,   \* bound: messages the device sends unasked
          Names      \* of notifications

ASSUME PlistListenersAssumption == MaxMade \in Nat /\ MaxNews \in Nat

Numbers == 1 .. MaxMade
Nobody == 0

VARIABLES
  listening,   \* which service the socket leads to
  asked,       \* calls made so far
  outgoing,    \* what was written and the device has not read
  fromDevice,  \* what the device sent and the client has not received
  peer,        \* the container it is in, the names it observes, whether it was shut down
  vends,       \* house arrest: the phase of each call
  once,        \* house arrest: calls whose once('data') listener is on the decoder
  piped,       \* house arrest: the socket goes to the splitter and the decoder
  afcs,        \* house arrest: calls whose AfcService is on the socket
  crowded,     \* history: a call was made while there was something under way
  swallowed,   \* history: the splitter was given what was for AFC
  listeners,   \* notification proxy: _listeners, the registration for each name
  told,        \* notification proxy: registrations that were told of their death
  observers,   \* history: registrations that were made before any shutdown()
  connection,  \* "open", "ending" after close(), "gone"
  crashed,     \* history: _handleData threw
  news         \* messages sent unasked so far

house == <<vends, once, piped, afcs, crowded, swallowed>>
proxy == <<listeners, told, observers, crashed>>
listenersVars == <<listening, asked, outgoing, fromDevice, peer, house, proxy, connection, news>>

ListenersInit ==
  /\ listening \in {"house_arrest", "notification_proxy"}
  /\ asked = 0 /\ news = 0
  /\ outgoing = <<>> /\ fromDevice = <<>>
  /\ peer = [container |-> Nobody, observed |-> {}, down |-> FALSE]
  /\ vends = [c \in Numbers |-> "none"]
  /\ once = {} /\ piped = TRUE /\ afcs = {}
  /\ crowded = FALSE /\ swallowed = FALSE
  /\ listeners = [n \in Names |-> Nobody]
  /\ told = {} /\ observers = {} /\ crashed = FALSE
  /\ connection = "open"

Writes(m) == outgoing' = IF connection = "open" THEN Append(outgoing, m) ELSE outgoing

\* A call of the client's program.
Calling == asked < MaxMade /\ asked' = asked + 1 /\ ~crashed

---------------------------------------------------------------------------
(* House arrest.                                                           *)

\* Something that was written or sent before has not arrived yet, or AFC has the socket.
UnderWay == outgoing # <<>> \/ fromDevice # <<>> \/ peer.container # Nobody
            \/ \E c \in Numbers : vends[c] = "waiting"

\* vendContainer or vendDocuments: _receivePlistPromise, then the request.
Vend ==
  /\ listening = "house_arrest" /\ Calling
  /\ vends' = [vends EXCEPT ![asked + 1] = "waiting"]
  /\ once' = once \cup {asked + 1}
  /\ Writes([kind |-> "vend", call |-> asked + 1])
  /\ crowded' = (crowded \/ UnderWay)
  /\ UNCHANGED <<listening, fromDevice, peer, piped, afcs, swallowed, proxy, connection, news>>

\* The timer of _receivePlistPromise: the listener stays.
VendTimedOut(c) ==
  /\ vends[c] = "waiting"
  /\ vends' = [vends EXCEPT ![c] = "timedOut"]
  /\ UNCHANGED <<listening, asked, outgoing, fromDevice, peer, once, piped, afcs,
                 crowded, swallowed, proxy, connection, news>>

\* Mutant: any response will do.
AcceptsAny(m) == TRUE

Accepts(m) == m.kind = "response" /\ m.status = "Complete"

Waiting == {c \in once : vends[c] = "waiting"}

\* Mutant: the socket stays piped to the splitter.
HandOverStillPiped(m) ==
  /\ afcs' = IF Accepts(m) THEN afcs \cup Waiting ELSE afcs
  /\ piped' = piped

\* What every call that m settles then does: the socket is unpiped and is AFC's.
HandOver(m) ==
  /\ afcs' = IF Accepts(m) THEN afcs \cup Waiting ELSE afcs
  /\ piped' = (piped /\ ~(Accepts(m) /\ Waiting # {}))

\* A chunk of n messages for the decoder.  The first one resolves every promise there
\* is; the others find no listener and are gone.
DecoderReceives(n) ==
  LET first == Head(fromDevice)
  IN  /\ listening = "house_arrest" /\ piped
      /\ n \in 1 .. Len(fromDevice)
      /\ fromDevice' = SubSeq(fromDevice, n + 1, Len(fromDevice))
      /\ vends' = [c \in Numbers |-> IF c \notin Waiting THEN vends[c]
                                   ELSE IF Accepts(first) THEN "returned" ELSE "threw"]
      /\ once' = {}
      /\ HandOver(first)
      /\ swallowed' = (swallowed \/ \E i \in 1 .. n : fromDevice[i].kind = "afc")
      /\ UNCHANGED <<listening, asked, outgoing, peer, crowded, proxy, connection, news>>

\* An AfcService writes a request.
AfcRequest(c) ==
  /\ c \in afcs /\ Calling
  /\ Writes([kind |-> "afc", call |-> c])
  /\ UNCHANGED <<listening, fromDevice, peer, house, proxy, connection, news>>

\* What arrives is for AFC (module Afc).
AfcReceives ==
  /\ listening = "house_arrest" /\ ~piped /\ fromDevice # <<>>
  /\ fromDevice' = Tail(fromDevice)
  /\ UNCHANGED <<listening, asked, outgoing, peer, house, proxy, connection, news>>

\* The device reads a request.  Once it is in a container it speaks AFC there, and
\* has no answer to a plist.
DeviceReadsHouse(status) ==
  LET m == Head(outgoing)
      inside == peer.container # Nobody
  IN  /\ listening = "house_arrest" /\ outgoing # <<>>
      /\ outgoing' = Tail(outgoing)
      /\ IF m.kind = "vend" /\ ~inside
         THEN /\ fromDevice' = Append(fromDevice, [kind |-> "response", call |-> m.call,
                                                   status |-> status])
              /\ peer' = IF status = "Complete" THEN [peer EXCEPT !.container = m.call]
                           ELSE peer
         ELSE /\ fromDevice' = IF m.kind = "afc" /\ inside THEN Append(fromDevice, m)
                               ELSE fromDevice
              /\ UNCHANGED peer
      /\ UNCHANGED <<listening, asked, house, proxy, connection, news>>

---------------------------------------------------------------------------
(* The notification proxy.                                                 *)

\* Mutant: a listener that is there already is replaced.
ObservableAlways(n) == TRUE

Observable(n) == listeners[n] = Nobody

ShutDown == connection # "open" \/ peer.down
            \/ \E i \in DOMAIN outgoing : outgoing[i].kind = "shutdown"

\* observeNotification; it throws and does nothing where the name has a listener.
ObserveNotification(n) ==
  /\ listening = "notification_proxy" /\ Calling
  /\ IF Observable(n)
     THEN /\ listeners' = [listeners EXCEPT ![n] = asked + 1]
          /\ observers' = IF ShutDown THEN observers ELSE observers \cup {asked + 1}
          /\ Writes([kind |-> "observe", name |-> n])
     ELSE UNCHANGED <<listeners, observers, outgoing>>
  /\ UNCHANGED <<listening, fromDevice, peer, house, told, crashed, connection, news>>

PostNotification ==
  /\ listening = "notification_proxy" /\ Calling
  /\ Writes([kind |-> "post"])
  /\ UNCHANGED <<listening, fromDevice, peer, house, proxy, connection, news>>

\* Shutdown() or close(), which also ends the socket.
Shutdown(closing) ==
  /\ listening = "notification_proxy" /\ Calling
  /\ Writes([kind |-> "shutdown"])
  /\ connection' = IF closing /\ connection = "open" THEN "ending" ELSE connection
  /\ UNCHANGED <<listening, fromDevice, peer, house, proxy, news>>

\* _handleData.  A listener is still registered while it is told of its death: one
\* that observes the name again right then throws, out of the data handler and
\* past the delete.
HandleData(again) ==
  LET m == Head(fromDevice)
      r == IF "name" \in DOMAIN m THEN listeners[m.name] ELSE Nobody
      dies == m.kind = "ProxyDeath" /\ r # Nobody
      throws == m.kind = "unknown" \/ (dies /\ again)
  IN  /\ listening = "notification_proxy" /\ fromDevice # <<>> /\ ~crashed
      /\ dies \/ ~again
      /\ fromDevice' = Tail(fromDevice)
      /\ told' = IF dies THEN told \cup {r} ELSE told
      /\ IF dies /\ ~throws THEN listeners' = [listeners EXCEPT ![m.name] = Nobody]
         ELSE UNCHANGED listeners
      /\ crashed' = throws
      /\ UNCHANGED <<listening, asked, outgoing, peer, house, observers, connection, news>>

\* The proxy on the device reads a request.  One that is shut down tells all observers.
DeviceReadsProxy ==
  LET m == Head(outgoing)
      death(n) == [kind |-> "ProxyDeath", name |-> n]
  IN  /\ listening = "notification_proxy" /\ outgoing # <<>>
      /\ outgoing' = Tail(outgoing)
      /\ \/ /\ peer.down \/ m.kind = "post"
            /\ UNCHANGED <<peer, fromDevice>>
         \/ /\ m.kind = "observe" /\ ~peer.down
            /\ peer' = [peer EXCEPT !.observed = @ \cup {m.name}]
            /\ UNCHANGED fromDevice
         \/ /\ m.kind = "shutdown" /\ ~peer.down
            /\ peer' = [peer EXCEPT !.observed = {}, !.down = TRUE]
            /\ \E order \in SetToSeqs(peer.observed) :
                 fromDevice' = fromDevice \o [i \in DOMAIN order |-> death(order[i])]
      /\ UNCHANGED <<listening, asked, house, proxy, connection, news>>

\* It has news for an observer: a notification, or the end of who posts it.
DeviceTells(n, kind) ==
  /\ listening = "notification_proxy" /\ n \in peer.observed /\ connection # "gone"
  /\ news < MaxNews /\ news' = news + 1
  /\ kind \in {"RelayNotification", "ProxyDeath"}
  /\ fromDevice' = Append(fromDevice, [kind |-> kind, name |-> n])
  /\ peer' = IF kind = "ProxyDeath" THEN [peer EXCEPT !.observed = @ \ {n}] ELSE peer
  /\ UNCHANGED <<listening, asked, outgoing, house, proxy, connection>>

\* It sends something that is neither.
DeviceSaysOther ==
  /\ listening = "notification_proxy" /\ connection # "gone"
  /\ news < MaxNews /\ news' = news + 1
  /\ fromDevice' = Append(fromDevice, [kind |-> "unknown"])
  /\ UNCHANGED <<listening, asked, outgoing, peer, house, proxy, connection>>

\* The device closes its side, or the connection breaks: what was under way is lost.
Gone ==
  /\ connection # "gone"
  /\ connection' = "gone"
  /\ outgoing' = <<>> /\ fromDevice' = <<>>
  /\ UNCHANGED <<listening, asked, peer, house, proxy, news>>

ListenersNext ==
  \/ Vend
  \/ \E c \in Numbers : VendTimedOut(c) \/ AfcRequest(c)
  \/ \E n \in 1 .. Len(fromDevice) : DecoderReceives(n)
  \/ AfcReceives
  \/ \E status \in {"Complete", "Error"} : DeviceReadsHouse(status)
  \/ \E n \in Names : ObserveNotification(n)
  \/ PostNotification
  \/ \E b \in BOOLEAN : Shutdown(b) \/ HandleData(b)
  \/ DeviceReadsProxy
  \/ \E n \in Names, kind \in {"RelayNotification", "ProxyDeath"} : DeviceTells(n, kind)
  \/ DeviceSaysOther
  \/ Gone

---------------------------------------------------------------------------
(* Properties.                                                             *)

\* Where no vend was made with something under way, an AfcService is the only one on
\* its socket, the device is in the container of the very call that returned it, and
\* no plist comes after it (vendContainer, vendDocuments).  Nor is anything that is for
\* AFC given to the splitter of house arrest, which is unpiped a microtask later than
\* its decoder had the response, and which keeps what came in the same chunk.
AfcIsAlone ==
  ~crowded =>
    /\ ~swallowed
    /\ \A c \in afcs :
         /\ afcs = {c} /\ peer.container = c
         /\ \A i \in DOMAIN fromDevice : fromDevice[i].kind = "afc"

\* Who observes a notification is told of its death, unless the connection goes or
\* the client crashes first: until then the request is under way, the device
\* observes the name, or its death is under way.  Only who observes after shutdown()
\* is forgotten (observeNotification, _handleData, shutdown, close).
ObservedUntilTold ==
  connection # "gone" /\ ~crashed =>
    \A r \in observers \ told : \E n \in Names :
      /\ listeners[n] = r
      /\ \/ \E i \in DOMAIN outgoing : outgoing[i] = [kind |-> "observe", name |-> n]
         \/ n \in peer.observed
         \/ \E i \in DOMAIN fromDevice : fromDevice[i] = [kind |-> "ProxyDeath", name |-> n]
===========================================================================
