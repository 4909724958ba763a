------------------------------ MODULE Usbmux ------------------------------
(***************************************************************************)
(* The usbmux client of src/lib/usbmux on one socket to usbmuxd: requests  *)
(* correlated with replies by tag, their timeouts, and the switch of the   *)
(* socket from usbmux frames to a tunnel when a Connect is accepted.       *)
(*                                                                         *)
(* JavaScript runs one callback at a time, so a callback is one action: a  *)
(* caller's call, a timer, a read of the socket, a process.nextTick.       *)
(* Frames are atomic here (module LengthBasedSplitter models their bytes): *)
(* a read of the socket hands the splitter one or more whole frames, or    *)
(* pieces of tunnel data, in the order they were sent.                     *)
(*                                                                         *)
(* usbmuxd and the device are external: usbmuxd answers the requests it    *)
(* has received at most once, in any order, late or never, and forwards    *)
(* everything both ways from the moment it accepts a Connect.              *)
(***************************************************************************)
EXTENDS Naturals, Sequences, FiniteSets

CONSTANTS Operations,    \* the operations that callers use besides connectLockdown
          MaxRequests,   \* bound: requests made on the client in one behaviour
          MaxTunnel      \* bound: pieces of data the device sends in the tunnel

Kind == {"ReadBUID", "ReadPairRecord", "ListDevices", "Connect"}

ASSUME UsbmuxAssumption == Operations \subseteq Kind /\ MaxRequests \in Nat /\ MaxTunnel \in Nat

VARIABLES
  tag,                \* _tag: the tag of the next request
  kind,               \* kind[t]: the operation that request t was made by
  promise,            \* promise[t]: what the caller of request t holds
  responseCallbacks,  \* _responseCallbacks: the tags with a callback
  isShutdown,         \* _splitter.isShutdown
  pipes,              \* what the socket is piped to: the splitter, the tunnel's owner
  encoderPiped,       \* whether _encoder is piped to the socket
  leftover,           \* what _pushBack will unshift on the next tick
  misframed,          \* the splitter was fed tunnel data as if it were frames
  closing,            \* close() was called: the socket's write side has ended
  lockdownCall,       \* a call of connectLockdown: how far it is, the tag it awaits
  got,                \* what the owner of the tunnel has read
  toMux,              \* requests written to the socket and not yet read by usbmuxd
  inbox,              \* what was sent to the client and it has not yet read
  server,             \* usbmuxd on this socket: "mux", "tunnel" or "gone"
  asked,              \* requests usbmuxd has read and not answered
  said,               \* said[t]: usbmuxd's answer to request t, or "nothing"
  sent                \* how many pieces of data the device has sent

clientVars == <<tag, kind, promise, responseCallbacks, lockdownCall>>
streamVars == <<isShutdown, pipes, encoderPiped, leftover, misframed, closing, got>>
daemonVars == <<server, asked, said, sent>>
vars == <<clientVars, streamVars, toMux, inbox, daemonVars>>

Tags == 0 .. MaxRequests - 1
Body == {"value", "lacking", "refused", "malformed"}
Rejected == {"refused", "unexpected", "timedOut"}
Settled == {"value", "null", "socket"} \cup Rejected
Phase == {"idle", "listing", "connecting", "attached", "failed"}

Reply(t, body) == [type |-> "reply", tag |-> t, body |-> body]
Data(n) == [type |-> "data", n |-> n]
Item == {Reply(t, body) : t \in Tags, body \in Body} \cup {Data(n) : n \in 1 .. MaxTunnel}

TypeOK ==
  /\ tag \in 0 .. MaxRequests
  /\ kind \in [Tags -> Kind \cup {"unmade"}]
  /\ promise \in [Tags -> {"unmade", "pending"} \cup Settled]
  /\ responseCallbacks \subseteq Tags
  /\ isShutdown \in BOOLEAN
  /\ pipes \subseteq {"splitter", "owner"}
  /\ encoderPiped \in BOOLEAN
  /\ leftover \in Seq(Item)
  /\ misframed \in BOOLEAN
  /\ closing \in BOOLEAN
  /\ lockdownCall \in [phase : {"idle"}, tag : {0}] \cup [phase : Phase \ {"idle"}, tag : Tags]
  /\ got \in Seq(Item)
  /\ toMux \in Seq(Tags)
  /\ inbox \in Seq(Item)
  /\ server \in {"mux", "tunnel", "gone"}
  /\ asked \subseteq Tags
  /\ said \in [Tags -> Body \cup {"nothing"}]
  /\ sent \in 0 .. MaxTunnel

---------------------------------------------------------------------------
(* What each operation makes of the payload of its reply: "value" carries  *)
(* what was asked for (for Connect, a Result with number OK), "lacking"    *)
(* does not, "refused" is a Result with number CONNREFUSED, "malformed" is *)
(* a pair record that does not parse or a Result with another number.      *)
(* usbmuxd reports a request it cannot serve with a Result: for the calls  *)
(* other than connect that is a payload lacking what they ask for.         *)

ReadBUIDOutcome(body) == IF body = "value" THEN "value" ELSE "unexpected"

ReadPairRecordOutcome(body) ==
  CASE body = "value"     -> "value"
    [] body = "malformed" -> "unexpected"
    [] OTHER              -> "null"

ListDevicesOutcome(body) == IF body = "value" THEN "value" ELSE "unexpected"

ConnectOutcome(body) ==
  CASE body = "value"   -> "socket"
    [] body = "refused" -> "refused"
    [] OTHER            -> "unexpected"

Outcome(k, body) ==
  CASE k = "ReadBUID"       -> ReadBUIDOutcome(body)
    [] k = "ReadPairRecord" -> ReadPairRecordOutcome(body)
    [] k = "ListDevices"    -> ListDevicesOutcome(body)
    [] k = "Connect"        -> ConnectOutcome(body)
    [] OTHER                -> "unexpected"

Init ==
  /\ tag = 0
  /\ kind = [t \in Tags |-> "unmade"]
  /\ promise = [t \in Tags |-> "unmade"]
  /\ responseCallbacks = {}
  /\ isShutdown = FALSE
  /\ pipes = {"splitter"}
  /\ encoderPiped = TRUE
  /\ leftover = <<>>
  /\ misframed = FALSE
  /\ closing = FALSE
  /\ lockdownCall = [phase |-> "idle", tag |-> 0]
  /\ got = <<>>
  /\ toMux = <<>>
  /\ inbox = <<>>
  /\ server = "mux"
  /\ asked = {}
  /\ said = [t \in Tags |-> "nothing"]
  /\ sent = 0

---------------------------------------------------------------------------
(* Requests.                                                               *)

\* Mutant: the callback is registered under the tag after the increment.
ReceivePlistPromiseNextTag(k) ==
  /\ tag < MaxRequests
  /\ tag' = tag + 1
  /\ kind' = [kind EXCEPT ![tag] = k]
  /\ promise' = [promise EXCEPT ![tag] = "pending"]
  /\ responseCallbacks' = responseCallbacks \cup {tag'}

\* _receivePlistPromise: a fresh tag, a pending promise, its callback and timer.
ReceivePlistPromise(k) ==
  /\ tag < MaxRequests
  /\ tag' = tag + 1
  /\ kind' = [kind EXCEPT ![tag] = k]
  /\ promise' = [promise EXCEPT ![tag] = "pending"]
  /\ responseCallbacks' = responseCallbacks \cup {tag}

\* _sendPlist: the encoder writes to the socket for as long as it is piped to
\* it, whatever the socket is now used for.
SendPlist(t) == toMux' = IF encoderPiped THEN Append(toMux, t) ELSE toMux

\* readBUID, readPairRecord, listDevices and connect.  No caller uses a client
\* it has closed.
Request(k) ==
  /\ ~closing
  /\ ReceivePlistPromise(k)
  /\ SendPlist(tag)
  /\ UNCHANGED <<lockdownCall, streamVars, inbox, daemonVars>>

\* Mutant: the callback outlives the timeout.
TimedOutKeepsCallback(t) ==
  /\ promise[t] = "pending"
  /\ promise' = [promise EXCEPT ![t] = "timedOut"]
  /\ UNCHANGED <<tag, kind, responseCallbacks, lockdownCall, streamVars, toMux, inbox, daemonVars>>

\* The timer of request t fires before its reply was handled.
TimedOut(t) ==
  /\ promise[t] = "pending"
  /\ promise' = [promise EXCEPT ![t] = "timedOut"]
  /\ responseCallbacks' = responseCallbacks \ {t}
  /\ UNCHANGED <<tag, kind, lockdownCall, streamVars, toMux, inbox, daemonVars>>

---------------------------------------------------------------------------
(* Reading the socket.                                                     *)

\* The reply whose callback hands the socket over.
Switches(item) ==
  /\ item.type = "reply"
  /\ item.tag \in responseCallbacks
  /\ Outcome(kind[item.tag], item.body) = "socket"

\* Mutant: _transform does not look at isShutdown.
DecodesToTheEnd(n, k) == k = n

\* _transform decodes the first k items of a chunk of n: it stops after the one
\* whose callback shut the splitter down, and at once if it already was.
Decodes(n, k) ==
  IF isShutdown THEN k = 0
  ELSE /\ \A j \in 1 .. k - 1 : ~Switches(inbox[j])
       /\ k = n \/ (k > 0 /\ Switches(inbox[k]))

\* Mutant: replies go to the oldest callback instead of the one of their tag.
HandleDataInOrder(frames) ==
  LET oldest == CHOOSE t \in responseCallbacks : \A u \in responseCallbacks : t <= u
      reply == CHOOSE f \in frames : f.type = "reply"
  IN  IF responseCallbacks # {} /\ \E f \in frames : f.type = "reply"
      THEN /\ responseCallbacks' = responseCallbacks \ {oldest}
           /\ promise' = [promise EXCEPT ![oldest] = Outcome(kind[oldest], reply.body)]
      ELSE UNCHANGED <<responseCallbacks, promise>>

\* Mutant: a reply is given to every call of the operation it answers.
HandleDataByKind(frames) ==
  LET answers(f, t) == f.type = "reply" /\ kind[f.tag] = kind[t]
      answered == {t \in responseCallbacks : \E f \in frames : answers(f, t)}
  IN  /\ responseCallbacks' = responseCallbacks \ answered
      /\ promise' = [t \in Tags |-> IF t \in answered
                                    THEN Outcome(kind[t], (CHOOSE f \in frames : answers(f, t)).body)
                                    ELSE promise[t]]

\* _handleData, for all the frames of a chunk: a reply is given to the callback
\* of its tag and the callback is deleted; without one it is dropped.
HandleData(frames) ==
  LET answer(t) == CHOOSE f \in frames : f.type = "reply" /\ f.tag = t
      answered == {t \in responseCallbacks : \E f \in frames : f.type = "reply" /\ f.tag = t}
  IN  /\ responseCallbacks' = responseCallbacks \ answered
      /\ promise' = [t \in Tags |-> IF t \in answered
                                    THEN Outcome(kind[t], answer(t).body)
                                    ELSE promise[t]]

\* Mutant: the splitter stays piped to the socket.
HandOverKeepsSplitter(frames) ==
  /\ isShutdown' = (isShutdown \/ \E f \in frames : Switches(f))
  /\ UNCHANGED pipes

\* The body of connect's callback that runs on a Result OK.
HandOver(frames) ==
  IF \E f \in frames : Switches(f)
  THEN isShutdown' = TRUE /\ pipes' = pipes \ {"splitter"}
  ELSE UNCHANGED <<isShutdown, pipes>>

\* Mutant: the rest of the chunk is forgotten.
PushBackNothing(rest) == UNCHANGED leftover

\* _pushBack of what the splitter did not decode, for the next tick (the last
\* one's has been unshifted: ticks run before the next read).
PushBack(rest) == leftover' = rest

\* The socket reads: its 'data' event hands a chunk, the first n items it has, to
\* what it is piped to.  Ticks run before the next read.  Tunnel data taken for a
\* frame has a length nobody wrote: the splitter waits for the rest of it from
\* then on (or throws, and the program ends).
SocketData(n, k) ==
  LET frames == {inbox[i] : i \in 1 .. k}
  IN  /\ leftover = <<>>
      /\ pipes # {}
      /\ IF "splitter" \in pipes
         THEN Decodes(n, k) /\ PushBack(SubSeq(inbox, k + 1, n))
         ELSE k = 0 /\ UNCHANGED leftover
      /\ inbox' = SubSeq(inbox, n + 1, Len(inbox))
      /\ HandleData(frames)
      /\ HandOver(frames)
      /\ misframed' = (misframed \/ \E f \in frames : f.type = "data")
      /\ got' = IF "owner" \in pipes THEN got \o SubSeq(inbox, 1, n) ELSE got
      /\ UNCHANGED <<tag, kind, lockdownCall, encoderPiped, closing, toMux, daemonVars>>

\* Mutant: the leftover goes behind what arrived meanwhile.
UnshiftAtTheEnd ==
  /\ leftover # <<>>
  /\ inbox' = inbox \o leftover
  /\ leftover' = <<>>
  /\ UNCHANGED <<clientVars, isShutdown, pipes, encoderPiped, misframed, closing, got,
                 toMux, daemonVars>>

\* The tick scheduled by _pushBack.
Unshift ==
  /\ leftover # <<>>
  /\ inbox' = leftover \o inbox
  /\ leftover' = <<>>
  /\ UNCHANGED <<clientVars, isShutdown, pipes, encoderPiped, misframed, closing, got,
                 toMux, daemonVars>>

\* Whoever connect returned the socket to starts reading it.
OwnerAttaches ==
  /\ \E t \in Tags : promise[t] = "socket" /\ lockdownCall # [phase |-> "connecting", tag |-> t]
  /\ "owner" \notin pipes
  /\ encoderPiped
  /\ pipes' = pipes \cup {"owner"}
  /\ UNCHANGED <<clientVars, isShutdown, encoderPiped, leftover, misframed, closing, got,
                 toMux, inbox, daemonVars>>

\* 'end' of the socket: everything sent before usbmuxd closed it has been read.
SocketEnd ==
  /\ server = "gone" /\ inbox = <<>> /\ leftover = <<>>
  /\ pipes # {} /\ encoderPiped
  /\ pipes' = {}
  /\ encoderPiped' = FALSE
  /\ UNCHANGED <<clientVars, isShutdown, leftover, misframed, closing, got, toMux, inbox,
                 daemonVars>>

\* close(): ends the write side; what is under way can still be answered.  Nobody
\* closes a client that connectLockdown has yet to send a request on.
Close ==
  /\ ~closing /\ encoderPiped /\ lockdownCall.phase # "listing"
  /\ closing' = TRUE
  /\ UNCHANGED <<clientVars, isShutdown, pipes, encoderPiped, leftover, misframed, got,
                 toMux, inbox, daemonVars>>

---------------------------------------------------------------------------
(* connectLockdown: findDevice, connect, then a PlistService on the socket. *)

ConnectLockdown ==
  /\ lockdownCall.phase = "idle" /\ ~closing
  /\ ReceivePlistPromise("ListDevices")
  /\ SendPlist(tag)
  /\ lockdownCall' = [phase |-> "listing", tag |-> tag]
  /\ UNCHANGED <<streamVars, inbox, daemonVars>>

\* findDevice has listed the devices and the wanted one is among them.
FindDevice ==
  /\ lockdownCall.phase = "listing" /\ promise[lockdownCall.tag] = "value"
  /\ ReceivePlistPromise("Connect")
  /\ SendPlist(tag)
  /\ lockdownCall' = [phase |-> "connecting", tag |-> tag]
  /\ UNCHANGED <<streamVars, inbox, daemonVars>>

\* The promise it awaits was rejected, or the device is not listed.
ConnectLockdownFails ==
  /\ lockdownCall.phase \in {"listing", "connecting"}
  /\ \/ promise[lockdownCall.tag] \in Rejected
     \/ lockdownCall.phase = "listing" /\ promise[lockdownCall.tag] = "value"
  /\ lockdownCall' = [lockdownCall EXCEPT !.phase = "failed"]
  /\ UNCHANGED <<tag, kind, promise, responseCallbacks, streamVars, toMux, inbox, daemonVars>>

\* new Lockdown(new PlistService(socket)) pipes the socket to its own splitter.
LockdownAttaches ==
  /\ lockdownCall.phase = "connecting" /\ promise[lockdownCall.tag] = "socket"
  /\ pipes' = IF encoderPiped THEN pipes \cup {"owner"} ELSE pipes
  /\ lockdownCall' = [lockdownCall EXCEPT !.phase = "attached"]
  /\ UNCHANGED <<tag, kind, promise, responseCallbacks, isShutdown, encoderPiped, leftover,
                 misframed, closing, got, toMux, inbox, daemonVars>>

---------------------------------------------------------------------------
(* usbmuxd and the device.                                                 *)

\* In a tunnel what the client writes goes to the device, requests included.
MuxReads ==
  /\ toMux # <<>> /\ server # "gone"
  /\ toMux' = Tail(toMux)
  /\ asked' = IF server = "mux" THEN asked \cup {Head(toMux)} ELSE asked
  /\ UNCHANGED <<clientVars, streamVars, inbox, server, said, sent>>

MuxAnswers(t, body) ==
  /\ server = "mux" /\ t \in asked
  /\ inbox' = Append(inbox, Reply(t, body))
  /\ asked' = asked \ {t}
  /\ said' = [said EXCEPT ![t] = body]
  /\ server' = IF Outcome(kind[t], body) = "socket" THEN "tunnel" ELSE server
  /\ UNCHANGED <<clientVars, streamVars, toMux, sent>>

DeviceSends ==
  /\ server = "tunnel" /\ sent < MaxTunnel
  /\ sent' = sent + 1
  /\ inbox' = Append(inbox, Data(sent + 1))
  /\ UNCHANGED <<clientVars, streamVars, toMux, server, asked, said>>

MuxCloses ==
  /\ server # "gone"
  /\ server' = "gone"
  /\ UNCHANGED <<clientVars, streamVars, toMux, inbox, asked, said, sent>>

---------------------------------------------------------------------------
Next ==
  \/ \E k \in Operations : Request(k)
  \/ \E t \in Tags : TimedOut(t)
  \/ \E n \in 1 .. Len(inbox) : \E k \in 0 .. n : SocketData(n, k)
  \/ Unshift
  \/ OwnerAttaches
  \/ SocketEnd
  \/ Close
  \/ ConnectLockdown
  \/ FindDevice
  \/ ConnectLockdownFails
  \/ LockdownAttaches
  \/ MuxReads
  \/ \E t \in Tags, body \in Body : MuxAnswers(t, body)
  \/ DeviceSends
  \/ MuxCloses

Spec == Init /\ [][Next]_vars

\* A readable socket is read, ticks and continuations run, and the caller that was
\* given the socket reads it.  Nothing is assumed of usbmuxd, nor of timers.
Fairness ==
  /\ WF_vars(\E n \in 1 .. Len(inbox) : \E k \in 0 .. n : SocketData(n, k))
  /\ WF_vars(Unshift)
  /\ WF_vars(OwnerAttaches)
  /\ WF_vars(LockdownAttaches)

FairSpec == Spec /\ Fairness
==========================================================================
