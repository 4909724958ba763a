------------------------------ MODULE Services ------------------------------
(***************************************************************************)
(* The functions of src/lib/utilities.js and src/lib/services.js that a    *)
(* user of the package calls, as sequences of steps over sockets to        *)
(* usbmuxd: which step opens, retunes, hands over and closes which socket, *)
(* whatever step fails.                                                    *)
(*                                                                         *)
(* A socket first speaks to usbmuxd ("mux"), is a tunnel to a port of the  *)
(* device after a Connect ("tunnel"), and a TLS connection once it was     *)
(* upgraded ("tls").  A step is what happens from one await to the next:   *)
(* an answer arrives, the function goes on, closes what its finally or     *)
(* catch closes, and begins its next request.  The answers are those of    *)
(* usbmuxd and the device, which are external; modules Usbmux and Lockdown *)
(* model how requests and answers are matched.                             *)
(***************************************************************************)
EXTENDS Naturals, Sequences, SequencesExt

CONSTANTS Calls,        \* the calls the user makes
          Kinds         \* the functions the user calls

NoSocket == 0
Passed == 1

SessionKinds == {"startLockdownSession", "getDeviceTime"}
ServiceKinds == {"startService", "startInstrumentService", "startWebInspectorService"}
UsbmuxKinds == {"getConnectedDevices", "getOSVersion", "connectPort", "connectPortSSL"}

ASSUME ServicesAssumption ==
  Kinds \subseteq SessionKinds \cup ServiceKinds \cup UsbmuxKinds

VARIABLES
  passes,  \* the user passes a socket, the same one to every call
  calls,   \* the calls with the steps that are left to them and what they hold
  sockets  \* the sockets opened so far

vars == <<passes, calls, sockets>>

---------------------------------------------------------------------------
(* The functions as sequences of requests.  A fresh one is the first of a  *)
(* new Usbmux, whose socket is opened for it; one that closes ends that    *)
(* socket with its answer.                                                 *)

Asks(what) == [asks |-> what, fresh |-> FALSE, closes |-> FALSE]
Fresh(what) == [Asks(what) EXCEPT !.fresh = TRUE]
Closing(step) == [step EXCEPT !.closes = TRUE]

\* getOSVersion, getDeviceName and getDeviceInfo.
Value == <<Fresh("list"), Asks("connect"), Closing(Asks("getValue"))>>

\* startLockdownSession.
Session == <<Fresh("pair"), Asks("list"), Asks("connect"), Asks("session")>>

\* connectPort and connectPortSSL; old is handshakeOnly.
Connection(ssl, old) ==
  IF ~ssl THEN <<Fresh("list"), Asks("connect")>>
  ELSE IF old THEN <<Fresh("list"), Asks("pair"), Asks("connect"), Asks("handshake")>>
  ELSE <<Fresh("list"), Asks("pair"), Asks("connectSSL")>>

Script(kind, old) ==
  CASE kind = "getConnectedDevices" -> <<Closing(Fresh("list"))>>
    [] kind = "getOSVersion" -> Value
    [] kind = "startLockdownSession" -> Session
    [] kind = "getDeviceTime" -> Session \o <<Asks("getValue"), Asks("getValue"), Asks("getValue")>>
    [] kind = "connectPort" -> Connection(FALSE, old)
    [] kind = "connectPortSSL" -> Connection(TRUE, old)
    [] kind = "startService" -> Session \o <<Asks("service")>>
    [] kind = "startInstrumentService" -> Value \o Session \o <<Asks("service")>>
    [] kind = "startWebInspectorService" ->
         IF passes THEN Value ELSE Value \o Session \o <<Asks("service")>>

\* The layer of a socket on which a request is understood.
Speaks(asks) ==
  CASE asks \in {"list", "pair", "connect", "connectSSL"} -> {"mux"}
    [] asks = "getValue" -> {"tunnel", "tls"}
    [] asks \in {"session", "handshake"} -> {"tunnel"}
    [] asks = "service" -> {"tls"}

---------------------------------------------------------------------------
(* Calls and sockets.                                                      *)

Idle == [kind |-> "none", old |-> FALSE, ssl |-> FALSE, phase |-> "idle", todo |-> <<>>,
         usbmux |-> NoSocket, lockdown |-> NoSocket, opened |-> {}, returned |-> NoSocket,
         layer |-> "none", ended |-> FALSE]

Init ==
  /\ passes \in BOOLEAN
  /\ calls = [c \in Calls |-> Idle]
  /\ sockets = IF passes THEN <<[layer |-> "mux", state |-> "open"]>> ELSE <<>>

\* Mutant: a call goes on using the socket of its Lockdown client.
UsesLockdown(call) == IF call.lockdown # NoSocket THEN call.lockdown ELSE call.usbmux

\* The socket a call uses: that of its Usbmux, or of its Lockdown client when it has no other.
Uses(call) == IF call.usbmux # NoSocket THEN call.usbmux ELSE call.lockdown

\* close() of whatever is on socket k.
Ended(socks, k) ==
  IF k # NoSocket /\ socks[k].state = "open" THEN [socks EXCEPT ![k].state = "ended"] ELSE socks

\* Mutant: the socket is closed together with the Lockdown client.
ReturnsClosed(call, socks) ==
  [call |-> [call EXCEPT !.phase = "returned", !.usbmux = NoSocket, !.lockdown = NoSocket,
                         !.returned = IF call.kind \in {"getConnectedDevices", "getOSVersion", "getDeviceTime"}
                                      THEN NoSocket ELSE Uses(call)],
   sockets |-> Ended(Ended(socks, call.usbmux), call.lockdown)]

\* What a function returns: its Lockdown client, the socket it was passed, that of its
\* Usbmux, or no socket.
Result(call) ==
  CASE call.kind = "startLockdownSession" -> call.lockdown
    [] call.kind = "startWebInspectorService" -> IF passes THEN Passed ELSE call.usbmux
    [] call.kind \in {"startService", "startInstrumentService", "connectPort", "connectPortSSL"} -> call.usbmux
    [] OTHER -> NoSocket

\* The function returns, and closes its Lockdown client unless that is what it returns.
Returns(call, socks) ==
  [call |-> [call EXCEPT !.phase = "returned", !.usbmux = NoSocket, !.lockdown = NoSocket, !.returned = Result(call)],
   sockets |-> IF call.kind = "startLockdownSession" THEN socks ELSE Ended(socks, call.lockdown)]

\* A request is written.
Writes(call, socks) ==
  [call |-> [call EXCEPT !.phase = "waiting", !.layer = socks[Uses(call)].layer,
                         !.ended = (socks[Uses(call)].state = "ended")],
   sockets |-> socks]

\* What a call does next: it returns, opens a socket, takes the one that was
\* passed, or makes its next request.
GoesOn(call, socks) ==
  IF call.todo = <<>> THEN Returns(call, socks)
  ELSE IF ~Head(call.todo).fresh THEN Writes(call, socks)
  ELSE IF passes THEN Writes([call EXCEPT !.usbmux = Passed], socks)
  ELSE [call |-> [call EXCEPT !.phase = "connecting", !.usbmux = Len(socks) + 1,
                              !.opened = @ \cup {Len(socks) + 1}],
        sockets |-> Append(socks, [layer |-> "mux", state |-> "connecting"])]

Becomes(c, next) ==
  calls' = [calls EXCEPT ![c] = next.call] /\ sockets' = next.sockets /\ UNCHANGED passes

---------------------------------------------------------------------------
(* Actions.                                                                *)

\* The user calls a function; old is what the version of the device, passed or
\* asked for, makes of handshakeOnly.
Call(c) ==
  /\ calls[c].phase = "idle"
  /\ \E kind \in Kinds, old \in BOOLEAN :
       /\ old => kind \in {"startService", "startInstrumentService", "connectPortSSL"}
       /\ Becomes(c, GoesOn([Idle EXCEPT !.kind = kind, !.old = old, !.todo = Script(kind, old)], sockets))

\* getDefaultSocket: the 'connect' event.
Connected(c) ==
  /\ calls[c].phase = "connecting"
  /\ Becomes(c, Writes(calls[c], [sockets EXCEPT ![calls[c].usbmux].state = "open"]))

\* What a call is left with when it throws.
Thrown(call) == [call EXCEPT !.phase = "failed", !.usbmux = NoSocket, !.lockdown = NoSocket]

\* getDefaultSocket: the 'error' event or the timer.  The socket is destroyed and the
\* function that asked for it throws; getConnectedDevices returns the empty list.
ConnectFails(c) ==
  /\ calls[c].phase = "connecting"
  /\ LET call == calls[c]
         destroyed == [sockets EXCEPT ![call.usbmux].state = "destroyed"]
     IN  Becomes(c, [call |-> IF call.kind = "getConnectedDevices"
                              THEN [Thrown(call) EXCEPT !.phase = "returned"] ELSE Thrown(call),
                     sockets |-> Ended(destroyed, call.lockdown)])

\* What an answer makes of the layer of the socket: connect hands the tunnel over,
\* enableSessionSSL and upgradeToSSL put TLS on it, and a handshake alone leaves it as it was.
Retuned(asks, layer) ==
  CASE asks = "connect" -> "tunnel"
    [] asks \in {"connectSSL", "session"} -> "tls"
    [] OTHER -> layer

\* A good answer to the request of a call, and what the function goes on to do.
Answered(c) ==
  /\ calls[c].phase = "waiting"
  /\ LET call == calls[c]
         step == Head(call.todo)
         k == Uses(call)
         retuned == [sockets EXCEPT ![k].layer = Retuned(step.asks, @)]
         socks == IF step.closes THEN Ended(retuned, k) ELSE retuned
     IN  /\ call.layer \in Speaks(step.asks) /\ ~call.ended
         /\ sockets[k].state = "open" /\ sockets[k].layer = call.layer
         /\ \E ssl \in IF step.asks = "service" THEN BOOLEAN ELSE {call.ssl} :
              Becomes(c, GoesOn(
                [call EXCEPT
                   !.todo = Tail(@) \o (IF step.asks = "service" THEN Connection(ssl, call.old) ELSE <<>>),
                   !.ssl = ssl,
                   !.lockdown = IF step.asks = "session" THEN k ELSE @,
                   !.usbmux = IF step.closes \/ step.asks = "session" THEN NoSocket ELSE @], socks))

\* Mutant: the finally of the function that holds a Lockdown client is forgotten.
StepFailsHalfway(c) ==
  /\ calls[c].phase = "waiting"
  /\ Becomes(c, [call |-> Thrown(calls[c]), sockets |-> Ended(sockets, calls[c].usbmux)])

\* Mutant: there is no timer on the handshake.
StepFailsButHandshake(c) ==
  /\ calls[c].phase = "waiting" /\ Head(calls[c].todo).asks # "handshake"
  /\ Becomes(c, [call |-> Thrown(calls[c]),
                 sockets |-> Ended(Ended(sockets, calls[c].usbmux), calls[c].lockdown)])

\* A step throws: it was refused, its answer was not as expected, there is no such
\* device or pair record, the certificate is no good, or its timer fired.  The catch
\* or finally of every function it is in closes the socket it holds.
StepFails(c) ==
  /\ calls[c].phase = "waiting"
  /\ Becomes(c, [call |-> Thrown(calls[c]),
                 sockets |-> Ended(Ended(sockets, calls[c].usbmux), calls[c].lockdown)])

\* usbmuxd or the device closes a socket.
SocketLost(k) ==
  /\ sockets[k].state \in {"open", "ended"}
  /\ sockets' = [sockets EXCEPT ![k].state = "destroyed"]
  /\ UNCHANGED <<passes, calls>>

Next ==
  \/ \E c \in Calls : Call(c) \/ Connected(c) \/ ConnectFails(c) \/ Answered(c) \/ StepFails(c)
  \/ \E k \in DOMAIN sockets : SocketLost(k)

Spec == Init /\ [][Next]_vars

\* Every wait has a timer: that of getDefaultSocket, of a request, or of the handshake.
FairSpec == Spec /\ \A c \in Calls : WF_vars(ConnectFails(c)) /\ WF_vars(StepFails(c))

---------------------------------------------------------------------------
(* Properties.                                                             *)

\* A socket that a call has opened and nobody has closed is one it works with, or the
\* one it has returned: whichever step fails, and however late a socket connects, none
\* is left behind (the catch and finally clauses of utilities.js and services.js, and
\* the destroy() in getDefaultSocket).
NothingLeaks ==
  \A c \in Calls : \A k \in calls[c].opened :
    sockets[k].state \in {"connecting", "open"} =>
      k \in {calls[c].usbmux, calls[c].lockdown, calls[c].returned}

\* Unless its user passed a socket (which the code may end before it returns it): the
\* socket or Lockdown client that a call returns was not closed by the call, and
\* carries TLS exactly if the device asked for it and not only for its handshake.
ReturnedIsUsable == ~passes =>
  \A c \in Calls :
    LET call == calls[c]
        k == call.returned
    IN  call.phase = "returned" /\ k # NoSocket =>
          /\ sockets[k].state # "ended"
          /\ sockets[k].layer = "tls" <=> \/ call.kind = "startLockdownSession"
                                          \/ call.kind = "connectPortSSL" /\ ~call.old
                                          \/ call.kind \in ServiceKinds /\ call.ssl /\ ~call.old

\* Unless its user passed a socket (which the code goes on using as one to usbmuxd
\* when it no longer is): a request is written where it is understood.  What is meant
\* for usbmuxd is not written to a socket that is a tunnel by then or that was ended,
\* and what is meant for the device not to usbmuxd.
SpokenTo == ~passes =>
  \A c \in Calls : calls[c].phase = "waiting" =>
    calls[c].layer \in Speaks(Head(calls[c].todo).asks) /\ ~calls[c].ended

\* Every call returns or throws, whether or not anybody answers.
EveryCallEnds ==
  \A c \in Calls : calls[c].phase \in {"connecting", "waiting"} ~> calls[c].phase \in {"returned", "failed"}
=============================================================================
