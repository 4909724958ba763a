------------------------------ MODULE Lockdown ------------------------------
(***************************************************************************)
(* The lockdown client of src/lib/lockdown on a PlistService of            *)
(* src/lib/plist-service: requests and replies on one socket to lockdownd, *)
(* with nothing in them to tell which reply is whose.  Replies go to a     *)
(* queue; a call takes the first one it finds there, at once or in one of  *)
(* its polls, until its timer fires.  A session that was started moves the *)
(* socket to TLS.                                                          *)
(*                                                                         *)
(* JavaScript runs one callback at a time: a call up to its first await, a *)
(* poll, a timer and a read of the socket are one action each.  Plists are *)
(* atomic (module LengthBasedSplitter models their bytes).  lockdownd is   *)
(* external: it answers requests in the order they came, late or never,    *)
(* and speaks TLS from its answer to StartSession on.                      *)
(***************************************************************************)
EXTENDS Naturals, Sequences

CONSTANTS Operations,    \* the operations that callers use
          MaxRequests    \* bound: requests made in one behaviour

Kind == {"QueryType", "StartSession", "GetValue", "StartService"}
Tags == 1 .. MaxRequests

ASSUME LockdownAssumption == Operations \subseteq Kind /\ MaxRequests \in Nat

VARIABLES
  calls,         \* calls[t]: the operation of the t-th call
  promise,       \* promise[t]: what its caller holds
  taken,         \* taken[t]: the call whose reply it took from the queue, 0 for none
  replyQueue,    \* replyQueue, as the numbers of the calls they answer
  decoderPipes,  \* how many times the splitter is piped to the decoder
  secure,        \* whether _socketClient is a TLS socket
  upgradedAt,    \* how many calls had been made when it became one
  encoderPiped,  \* whether _encoder is piped to the socket
  closing,       \* close() was called
  overlapped,    \* history: a call was made before the one before it was through
  toDevice,      \* requests on their way to lockdownd, and how they were written
  wire,          \* replies on their way to the client, and how they were written
  said,          \* said[t]: lockdownd's answer to call t
  device         \* lockdownd: "plain", "tls", "confused" by a request, or "gone"

callVars == <<calls, promise, taken, overlapped>>
streamVars == <<decoderPipes, secure, upgradedAt, encoderPiped, closing>>
deviceVars == <<said, device>>
vars == <<callVars, replyQueue, streamVars, toDevice, wire, deviceVars>>

Pending == {t \in Tags : promise[t] = "pending"}

\* startSession has returned and its caller has yet to enable TLS.
UpgradeDue == ~secure /\ \E t \in 1 .. Len(calls) : calls[t] = "StartSession" /\ promise[t] = "value"

---------------------------------------------------------------------------
(* What a call makes of the reply it took, the one to call r.              *)

\* queryType and startSession want the reply to name their request.
SameRequest(k, r) == calls[r] = k /\ said[r] = "value"

\* getValue wants a value and the name of its request.
GetValueOutcome(r) == IF SameRequest("GetValue", r) THEN "value" ELSE "unexpected"

\* startService wants only that the reply is not an error.
StartServiceOutcome(r) == IF said[r] # "error" THEN "value" ELSE "unexpected"

Outcome(k, r) ==
  CASE k = "GetValue"     -> GetValueOutcome(r)
    [] k = "StartService" -> StartServiceOutcome(r)
    [] OTHER              -> IF SameRequest(k, r) THEN "value" ELSE "unexpected"

---------------------------------------------------------------------------
Init ==
  /\ calls = <<>>
  /\ promise = [t \in Tags |-> "unmade"]
  /\ taken = [t \in Tags |-> 0]
  /\ replyQueue = <<>>
  /\ decoderPipes = 1
  /\ secure = FALSE
  /\ upgradedAt = 0
  /\ encoderPiped = TRUE
  /\ closing = FALSE
  /\ overlapped = FALSE
  /\ toDevice = <<>>
  /\ wire = <<>>
  /\ said = [t \in Tags |-> "nothing"]
  /\ device = "plain"

\* Mutant: the reply taken is left in the queue.
TakePeeks(t, k) ==
  /\ taken' = [taken EXCEPT ![t] = Head(replyQueue)]
  /\ promise' = [promise EXCEPT ![t] = Outcome(k, Head(replyQueue))]
  /\ UNCHANGED replyQueue

\* queue.shift() has found a reply: the promise of receivePlist is resolved.
Take(t, k) ==
  /\ taken' = [taken EXCEPT ![t] = Head(replyQueue)]
  /\ promise' = [promise EXCEPT ![t] = Outcome(k, Head(replyQueue))]
  /\ replyQueue' = Tail(replyQueue)

\* sendPlist: once the encoder is unpiped, it keeps what is written to it.
SendPlist(t) ==
  toDevice' = IF encoderPiped THEN Append(toDevice, [tag |-> t, secure |-> secure]) ELSE toDevice

\* sendPlistAndReceive up to its first await.
Request(k) ==
  LET t == Len(calls) + 1
  IN  /\ t <= MaxRequests /\ ~closing
      /\ calls' = Append(calls, k)
      /\ SendPlist(t)
      /\ IF replyQueue # <<>>
         THEN Take(t, k)
         ELSE /\ promise' = [promise EXCEPT ![t] = "pending"]
              /\ UNCHANGED <<taken, replyQueue>>
      /\ overlapped' = (overlapped \/ Pending # {} \/ UpgradeDue)
      /\ UNCHANGED <<streamVars, wire, deviceVars>>

\* A poll of receivePlist finds the queue not empty.  Which of several receivers
\* polls first is up to their intervals.
Poll(t) ==
  /\ promise[t] = "pending" /\ replyQueue # <<>>
  /\ Take(t, calls[t])
  /\ UNCHANGED <<calls, overlapped, streamVars, toDevice, wire, deviceVars>>

\* The timer of receivePlist: the call gives up, its reply may still come.
TimedOut(t) ==
  /\ promise[t] = "pending"
  /\ promise' = [promise EXCEPT ![t] = "timedOut"]
  /\ UNCHANGED <<calls, taken, overlapped, replyQueue, streamVars, toDevice, wire, deviceVars>>

\* The decoder is given each of the n first replies once by each pipe.
Decoded(n) ==
  IF decoderPipes = 1
  THEN [i \in 1 .. n |-> wire[i].tag]
  ELSE [i \in 1 .. 2 * n |-> wire[(i + 1) \div 2].tag]

\* A read of the socket hands the splitter n replies, the decoder queues them.
SocketData(n) ==
  /\ replyQueue' = replyQueue \o Decoded(n)
  /\ wire' = SubSeq(wire, n + 1, Len(wire))
  /\ UNCHANGED <<callVars, streamVars, toDevice, deviceVars>>

\* Mutant: the socket is moved to TLS before startSession has its answer.
EnableSessionSSLEarly ==
  /\ ~secure /\ ~closing /\ \E t \in 1 .. Len(calls) : calls[t] = "StartSession"
  /\ secure' = TRUE /\ upgradedAt' = Len(calls) /\ decoderPipes' = 2
  /\ UNCHANGED <<callVars, replyQueue, encoderPiped, closing, toDevice, wire, deviceVars>>

\* enableSessionSSL: the raw socket is unpiped and a TLS socket takes its place,
\* piped to the splitter, and the splitter to the decoder once more.  Node writes
\* to a destination as often as it was piped to.
EnableSessionSSL ==
  /\ UpgradeDue /\ ~closing
  /\ secure' = TRUE
  /\ upgradedAt' = Len(calls)
  /\ decoderPipes' = decoderPipes + 1
  /\ UNCHANGED <<callVars, replyQueue, encoderPiped, closing, toDevice, wire, deviceVars>>

\* close(): ends the write side; nobody uses a client it has closed.
Close ==
  /\ ~closing /\ encoderPiped
  /\ closing' = TRUE
  /\ UNCHANGED <<callVars, replyQueue, decoderPipes, secure, upgradedAt, encoderPiped,
                 toDevice, wire, deviceVars>>

\* 'end' of the socket: everything lockdownd had sent has been read.
SocketEnd ==
  /\ device = "gone" /\ wire = <<>> /\ encoderPiped
  /\ encoderPiped' = FALSE
  /\ UNCHANGED <<callVars, replyQueue, decoderPipes, secure, upgradedAt, closing,
                 toDevice, wire, deviceVars>>

---------------------------------------------------------------------------
(* lockdownd.                                                              *)

\* It reads a request written the way it expects and answers it.
DeviceAnswers(body) ==
  LET request == Head(toDevice)
  IN  /\ toDevice # <<>> /\ device = IF request.secure THEN "tls" ELSE "plain"
      /\ toDevice' = Tail(toDevice)
      /\ wire' = Append(wire, request)
      /\ said' = [said EXCEPT ![request.tag] = body]
      /\ device' = IF calls[request.tag] = "StartSession" /\ body = "value" THEN "tls" ELSE device
      /\ UNCHANGED <<callVars, replyQueue, streamVars>>

\* A request in the clear where it expects TLS, or the reverse.
DeviceConfused ==
  /\ toDevice # <<>> /\ device = IF Head(toDevice).secure THEN "plain" ELSE "tls"
  /\ device' = "confused"
  /\ UNCHANGED <<callVars, replyQueue, streamVars, toDevice, wire, said>>

DeviceCloses ==
  /\ device # "gone"
  /\ device' = "gone"
  /\ UNCHANGED <<callVars, replyQueue, streamVars, toDevice, wire, said>>

---------------------------------------------------------------------------
Next ==
  \/ \E k \in Operations : Request(k)
  \/ \E t \in Tags : Poll(t) \/ TimedOut(t)
  \/ \E n \in 1 .. Len(wire) : SocketData(n)
  \/ EnableSessionSSL
  \/ Close
  \/ SocketEnd
  \/ \E body \in {"value", "error"} : DeviceAnswers(body)
  \/ DeviceConfused
  \/ DeviceCloses

Spec == Init /\ [][Next]_vars

---------------------------------------------------------------------------
(* Properties.                                                             *)

Undisturbed == ~overlapped /\ \A t \in Tags : promise[t] # "timedOut"

\* Called one after the other, and while no call times out, each call is given the
\* reply to its own request: before TLS, and the first one after it, which is how
\* services.js uses a session for startService.  And before TLS no two calls are given
\* the same reply, not even when several poll the queue at the same time (replyQueue,
\* receivePlist, queue.shift).
OwnReply ==
  /\ Undisturbed => \A t \in Tags : taken[t] # 0 /\ (secure => t <= upgradedAt + 1) => taken[t] = t
  /\ \A t, u \in Tags : t # u /\ taken[t] # 0 /\ taken[t] = taken[u] => secure

\* Both sides read what the other wrote.  Every reply is read from the socket the
\* way lockdownd wrote it: none in the clear is left for the TLS socket, and none in
\* TLS comes before it.  And lockdownd is sent a request it cannot read only by
\* callers that did not wait for startSession, or gave up on it (enableSessionSSL
\* swaps the socket under way).
LayersAgree ==
  /\ \A i \in DOMAIN wire : wire[i].secure = secure
  /\ device = "confused" => ~Undisturbed

\* "Gets values from the device according to the query passed": the value returned
\* by getValue is the answer to its query, in a session on TLS too (getDeviceTime
\* makes three such calls, one after the other).
SessionValues ==
  Undisturbed =>
    \A t \in 1 .. Len(calls) : calls[t] = "GetValue" /\ promise[t] = "value" => taken[t] = t
==============================================================================
