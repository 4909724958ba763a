--------------------------- MODULE UsbmuxProofs ---------------------------
(***************************************************************************)
(* Theorems about module Usbmux, for any set of operations and any bounds. *)
(***************************************************************************)
EXTENDS UsbmuxProperties, SequenceTheorems, TLAPS

\* What a callback makes of a payload is a settled promise, never a timeout.
LEMMA OutcomeType == \A k, body : Outcome(k, body) \in Settled \ {"timedOut"}
<1> SUFFICES ASSUME NEW k, NEW body
             PROVE  Outcome(k, body) \in Settled \ {"timedOut"}
  OBVIOUS
<1>1. ReadBUIDOutcome(body) \in {"value", "unexpected"}
  BY DEF ReadBUIDOutcome
<1>2. ReadPairRecordOutcome(body) \in {"value", "null", "unexpected"}
  BY DEF ReadPairRecordOutcome
<1>3. ListDevicesOutcome(body) \in {"value", "unexpected"}
  BY DEF ListDevicesOutcome
<1>4. ConnectOutcome(body) \in {"socket", "refused", "unexpected"}
  BY DEF ConnectOutcome
<1>5. QED
  BY <1>1, <1>2, <1>3, <1>4 DEF Outcome, Settled, Rejected

---------------------------------------------------------------------------
(* Sequences: where the elements of a longer sequence come from.           *)

\* What is in a sequence after push(): what was in it, and the pushed element.
\* Used wherever the code queues a message, a buffer or a packet.
LEMMA AppendElements ==
  ASSUME NEW S, NEW s \in Seq(S), NEW e \in S
  PROVE  \A i \in DOMAIN Append(s, e) : \/ i \in DOMAIN s /\ Append(s, e)[i] = s[i]
                                        \/ i = Len(s) + 1 /\ Append(s, e)[i] = e
<1>1. DOMAIN Append(s, e) = 1 .. Len(s) + 1 /\ DOMAIN s = 1 .. Len(s) /\ Len(s) \in Nat
  OBVIOUS
<1>2. QED
  BY <1>1, AppendProperties

\* An element of a concatenation comes from one of its two parts: the kept
\* remainder of a chunk and the chunk that follows it.
LEMMA ConcatElements ==
  ASSUME NEW S, NEW s \in Seq(S), NEW t \in Seq(S)
  PROVE  \A i \in DOMAIN (s \o t) : \/ \E j \in DOMAIN s : (s \o t)[i] = s[j]
                                    \/ \E j \in DOMAIN t : (s \o t)[i] = t[j]
<1>1. s \o t \in Seq(S) /\ Len(s \o t) = Len(s) + Len(t) /\ Len(s) \in Nat /\ Len(t) \in Nat
  BY ConcatProperties
<1>2. ASSUME NEW i \in DOMAIN (s \o t), i <= Len(s) PROVE i \in DOMAIN s /\ (s \o t)[i] = s[i]
  BY <1>1, <1>2, ConcatProperties
<1>3. ASSUME NEW i \in DOMAIN (s \o t), ~(i <= Len(s))
      PROVE  i - Len(s) \in DOMAIN t /\ (s \o t)[i] = t[i - Len(s)]
  BY <1>1, <1>3, ConcatProperties
<1>4. QED
  BY <1>2, <1>3

\* Byte streams concatenate associatively: what was delivered, what is in the
\* socket and what is on its way is one stream however it is cut.
LEMMA ItemsAssociative ==
  \A s, t, u \in Seq(Item) : (s \o t) \o u = s \o (t \o u)
  BY ConcatAssociative

\* Cutting a chunk at k loses nothing: the two pieces make up the whole. This is
\* what unshift() relies on when the splitter hands the rest back.
LEMMA ItemsAdjacent ==
  ASSUME NEW s \in Seq(Item), NEW k \in 0 .. Len(s), NEW n \in k .. Len(s)
  PROVE  SubSeq(s, k + 1, n) \o SubSeq(s, n + 1, Len(s)) = SubSeq(s, k + 1, Len(s))
<1>1. /\ k + 1 \in 1 .. Len(s) + 1
      /\ n \in (k + 1) - 1 .. Len(s)
      /\ Len(s) \in n .. Len(s)
  OBVIOUS
<1>2. QED
  BY <1>1, ConcatAdjacentSubSeq

\* An element of a slice of a buffer is an element of the buffer.
LEMMA SubSeqElements ==
  ASSUME NEW S, NEW s \in Seq(S), NEW m \in 0 .. Len(s), NEW n \in 0 .. Len(s)
  PROVE  \A i \in DOMAIN SubSeq(s, m + 1, n) :
            i + m \in DOMAIN s /\ SubSeq(s, m + 1, n)[i] = s[i + m]
<1>1. \A i \in m + 1 .. n : s[i] \in S
  OBVIOUS
<1>2. /\ SubSeq(s, m + 1, n) \in Seq(S)
      /\ Len(SubSeq(s, m + 1, n)) = IF m + 1 <= n THEN n - m ELSE 0
      /\ \A i \in 1 .. n - m : SubSeq(s, m + 1, n)[i] = s[m + i]
  BY <1>1, SubSeqProperties
<1>3. DOMAIN SubSeq(s, m + 1, n) = 1 .. Len(SubSeq(s, m + 1, n))
  BY <1>2
<1>4. QED
  BY <1>2, <1>3

---------------------------------------------------------------------------
(* Type correctness.                                                       *)

\* A request keeps the types of what it changes.
LEMMA RequestType ==
  ASSUME TypeOK, NEW k \in Kind, ReceivePlistPromise(k), SendPlist(tag)
  PROVE  /\ tag \in Tags
         /\ tag' \in 0 .. MaxRequests
         /\ kind' \in [Tags -> Kind \cup {"unmade"}]
         /\ promise' \in [Tags -> {"unmade", "pending"} \cup Settled]
         /\ responseCallbacks' \subseteq Tags
         /\ toMux' \in Seq(Tags)
<1> USE UsbmuxAssumption DEF TypeOK, ReceivePlistPromise
<1>1. tag \in Tags /\ tag' \in 0 .. MaxRequests
  BY DEF Tags
<1>2. kind' \in [Tags -> Kind \cup {"unmade"}]
  BY <1>1
<1>3. promise' \in [Tags -> {"unmade", "pending"} \cup Settled]
  BY <1>1
<1>4. responseCallbacks' \subseteq Tags
  BY <1>1
<1>5. toMux' \in Seq(Tags)
  BY <1>1 DEF SendPlist
<1>6. QED
  BY <1>1, <1>2, <1>3, <1>4, <1>5

\* A read of the socket only shortens the inbox, and hands its items over.
LEMMA SocketDataType ==
  ASSUME TypeOK, NEW n \in 1 .. Len(inbox), NEW k \in 0 .. n, SocketData(n, k)
  PROVE  TypeOK'
<1> DEFINE frames == {inbox[i] : i \in 1 .. k}
<1>1. SubSeq(inbox, 1, n) \in Seq(Item) /\ SubSeq(inbox, k + 1, n) \in Seq(Item)
  BY DEF TypeOK
<1>2. leftover' \in Seq(Item) /\ inbox' \in Seq(Item) /\ got' \in Seq(Item)
  <2>1. inbox' \in Seq(Item)
    BY DEF TypeOK, SocketData
  <2>2. got' \in Seq(Item)
    BY <1>1 DEF TypeOK, SocketData
  <2>3. leftover' \in Seq(Item)
    <3>1. CASE "splitter" \in pipes
      BY <3>1, <1>1 DEF SocketData, PushBack
    <3>2. CASE "splitter" \notin pipes
      BY <3>2 DEF TypeOK, SocketData
    <3>3. QED
      BY <3>1, <3>2
  <2>4. QED
    BY <2>1, <2>2, <2>3
<1>3. HandleData(frames) /\ HandOver(frames)
  BY DEF SocketData
<1>4. promise' \in [Tags -> {"unmade", "pending"} \cup Settled] /\ responseCallbacks' \subseteq Tags
  BY <1>3, OutcomeType DEF TypeOK, HandleData
<1>5. isShutdown' \in BOOLEAN /\ pipes' \subseteq {"splitter", "owner"}
  BY <1>3 DEF TypeOK, HandOver
<1>6. misframed' \in BOOLEAN
  BY DEF SocketData
<1>7. QED
  BY <1>2, <1>4, <1>5, <1>6 DEF TypeOK, SocketData, daemonVars

\* Every step keeps every variable in its type.
LEMMA TypeStep == TypeOK /\ [Next]_vars => TypeOK'
<1> SUFFICES ASSUME TypeOK, [Next]_vars PROVE TypeOK'
  OBVIOUS
<1> USE UsbmuxAssumption
<1>1. ASSUME NEW k \in Operations, Request(k) PROVE TypeOK'
  BY <1>1, RequestType DEF TypeOK, Request, streamVars, daemonVars
<1>2. ASSUME NEW t \in Tags, TimedOut(t) PROVE TypeOK'
  BY <1>2 DEF TypeOK, TimedOut, Settled, Rejected, streamVars, daemonVars
<1>3. ASSUME NEW n \in 1 .. Len(inbox), NEW k \in 0 .. n, SocketData(n, k) PROVE TypeOK'
  BY <1>3, SocketDataType
<1>4. CASE Unshift
  BY <1>4 DEF TypeOK, Unshift, clientVars, daemonVars
<1>5. CASE OwnerAttaches
  BY <1>5 DEF TypeOK, OwnerAttaches, clientVars, daemonVars
<1>6. CASE SocketEnd
  BY <1>6 DEF TypeOK, SocketEnd, clientVars, daemonVars
<1>7. CASE Close
  BY <1>7 DEF TypeOK, Close, clientVars, daemonVars
<1>8. CASE ConnectLockdown
  BY <1>8, RequestType DEF TypeOK, ConnectLockdown, Kind, Phase, streamVars, daemonVars
<1>9. CASE FindDevice
  BY <1>9, RequestType DEF TypeOK, FindDevice, Kind, Phase, streamVars, daemonVars
<1>10. CASE ConnectLockdownFails
  BY <1>10 DEF TypeOK, ConnectLockdownFails, Phase, streamVars, daemonVars
<1>11. CASE LockdownAttaches
  BY <1>11 DEF TypeOK, LockdownAttaches, Phase, daemonVars
<1>12. CASE MuxReads
  BY <1>12 DEF TypeOK, MuxReads, clientVars, streamVars
<1>13. ASSUME NEW t \in Tags, NEW body \in Body, MuxAnswers(t, body) PROVE TypeOK'
  BY <1>13 DEF TypeOK, MuxAnswers, Item, clientVars, streamVars
<1>14. CASE DeviceSends
  <2>1. sent' \in 0 .. MaxTunnel /\ sent + 1 \in 1 .. MaxTunnel
    BY <1>14 DEF TypeOK, DeviceSends
  <2>2. Data(sent + 1) \in Item
    BY <2>1 DEF Item
  <2>3. inbox' \in Seq(Item)
    BY <1>14, <2>2 DEF TypeOK, DeviceSends
  <2>4. QED
    BY <1>14, <2>1, <2>3 DEF TypeOK, DeviceSends, clientVars, streamVars
<1>15. CASE MuxCloses
  BY <1>15 DEF TypeOK, MuxCloses, clientVars, streamVars
<1>16. CASE UNCHANGED vars
  BY <1>16 DEF TypeOK, vars, clientVars, streamVars, daemonVars
<1>17. QED
  BY <1>1, <1>2, <1>3, <1>4, <1>5, <1>6, <1>7, <1>8, <1>9, <1>10, <1>11, <1>12, <1>13,
     <1>14, <1>15, <1>16 DEF Next

---------------------------------------------------------------------------
(* The inductive invariant.                                                *)

\* usbmuxd accepted the Connect of request t.
Accepted(t) == Outcome(kind[t], said[t]) = "socket"

\* Tags are handed out in order; nothing is known of those not handed out.
Fresh ==
  \A t \in Tags : IF t < tag THEN kind[t] # "unmade" /\ promise[t] # "unmade"
                   ELSE kind[t] = "unmade" /\ promise[t] = "unmade" /\ said[t] = "nothing"

\* A request is on its way, or read, or answered: one of them.
InFlight ==
  /\ \A t \in asked : t < tag /\ said[t] = "nothing"
  /\ \A i \in DOMAIN toMux : toMux[i] < tag /\ said[toMux[i]] = "nothing" /\ toMux[i] \notin asked
  /\ \A i, j \in DOMAIN toMux : toMux[i] = toMux[j] => i = j

\* The replies under way say what usbmuxd said.
Truthful ==
  /\ \A i \in DOMAIN inbox : inbox[i].type = "reply" => said[inbox[i].tag] = inbox[i].body
  /\ \A i \in DOMAIN leftover : leftover[i].type = "reply" => said[leftover[i].tag] = leftover[i].body

AnswerInv == Fresh /\ InFlight /\ Truthful /\ CallbacksArePending /\ OwnAnswer

\* usbmuxd accepts one Connect, and is no longer a multiplexer from then on.
OneAccepted ==
  /\ \A t, u \in Tags : Accepted(t) /\ Accepted(u) => t = u
  /\ \A t \in Tags : Accepted(t) => server # "mux"
  /\ server = "tunnel" => \E t \in Tags : Accepted(t)

\* Who reads the socket, and what has been read, before and after the handover.
Readers ==
  IF isShutdown THEN "splitter" \notin pipes
                ELSE "owner" \notin pipes /\ got = <<>> /\ leftover = <<>>

\* The answer to an accepted Connect that is still awaited is in the inbox, after
\* other replies and before everything the device has sent.
AnswerAt(t, i) ==
  /\ inbox[i] = Reply(t, said[t])
  /\ \A j \in 1 .. i - 1 : inbox[j].type = "reply" /\ inbox[j].tag # t
  /\ Len(inbox) = i + sent
  /\ \A m \in 1 .. sent : inbox[i + m] = Data(m)

StreamOrder ==
  /\ (\A t \in Tags : ~Accepted(t)) => sent = 0 /\ \A i \in DOMAIN inbox : inbox[i].type = "reply"
  /\ \A t \in Tags : Accepted(t) /\ promise[t] = "pending" => \E i \in DOMAIN inbox : AnswerAt(t, i)

TunnelInv ==
  /\ OneAccepted /\ Readers /\ StreamOrder
  /\ ShutdownIffHandedOver /\ TunnelIntact /\ MisframedOnlyAfterTimeout

IInv == TypeOK /\ AnswerInv /\ TunnelInv

---------------------------------------------------------------------------
(* AnswerInv is inductive.                                                 *)

\* A new request has a tag nothing is known of.
LEMMA RequestAnswer ==
  ASSUME TypeOK, AnswerInv, NEW k \in Kind, ReceivePlistPromise(k), SendPlist(tag),
         UNCHANGED <<inbox, leftover, asked, said>>
  PROVE  AnswerInv'
<1>1. tag \in Tags
  BY RequestType
<1>2. k # "unmade"
  BY DEF Kind
<1>3. Fresh'
  BY <1>1, <1>2 DEF TypeOK, AnswerInv, Fresh, ReceivePlistPromise, Tags
<1>4. InFlight'
  <2>1. CASE ~encoderPiped
    <3>1. toMux' = toMux /\ tag' = tag + 1
      BY <2>1 DEF SendPlist, ReceivePlistPromise
    <3>2. \A t \in asked : t \in Tags
      BY DEF TypeOK
    <3>3. \A i \in DOMAIN toMux : toMux[i] \in Tags
      BY DEF TypeOK
    <3>4. QED
      BY <3>1, <3>2, <3>3 DEF TypeOK, AnswerInv, InFlight, Tags
  <2>2. CASE encoderPiped
    <3>1. toMux' = Append(toMux, tag) /\ tag' = tag + 1
      BY <2>2 DEF SendPlist, ReceivePlistPromise
    <3>2. said[tag] = "nothing" /\ tag \notin asked
      BY <1>1 DEF TypeOK, AnswerInv, Fresh, InFlight
    <3>3. \A i \in DOMAIN toMux' : \/ i \in DOMAIN toMux /\ toMux'[i] = toMux[i]
                                   \/ i = Len(toMux) + 1 /\ toMux'[i] = tag
      <4>1. toMux \in Seq(Tags)
        BY DEF TypeOK
      <4>2. \A i \in DOMAIN Append(toMux, tag) :
               \/ i \in DOMAIN toMux /\ Append(toMux, tag)[i] = toMux[i]
               \/ i = Len(toMux) + 1 /\ Append(toMux, tag)[i] = tag
        BY <1>1, <4>1, AppendElements
      <4>3. QED
        BY <3>1, <4>2
    <3>4. \A i \in DOMAIN toMux : toMux[i] < tag /\ toMux[i] \in Tags
      BY DEF TypeOK, AnswerInv, InFlight
    <3>5. \A t \in asked : t \in Tags
      BY DEF TypeOK
    <3>6. \A t \in asked' : t < tag' /\ said'[t] = "nothing"
      BY <3>1, <3>5 DEF TypeOK, AnswerInv, InFlight, Tags
    <3>7. \A i \in DOMAIN toMux' :
             toMux'[i] < tag' /\ said'[toMux'[i]] = "nothing" /\ toMux'[i] \notin asked'
      BY <3>1, <3>2, <3>3, <3>4 DEF TypeOK, AnswerInv, InFlight, Tags
    <3>8. \A i, j \in DOMAIN toMux' : toMux'[i] = toMux'[j] => i = j
      <4>1. \A i \in DOMAIN toMux : toMux[i] # tag
        BY <3>4, <1>1 DEF Tags
      <4>2. \A i, j \in DOMAIN toMux : toMux[i] = toMux[j] => i = j
        BY DEF AnswerInv, InFlight
      <4>3. QED
        BY <3>3, <4>1, <4>2
    <3>9. QED
      BY <3>6, <3>7, <3>8 DEF InFlight
  <2>3. QED
    BY <2>1, <2>2
<1>5. Truthful'
  BY DEF AnswerInv, Truthful
<1>6. CallbacksArePending'
  BY <1>1 DEF TypeOK, AnswerInv, CallbacksArePending, ReceivePlistPromise
<1>7. OwnAnswer'
  BY <1>1 DEF TypeOK, AnswerInv, OwnAnswer, ReceivePlistPromise, Settled, Rejected
<1>8. QED
  BY <1>3, <1>4, <1>5, <1>6, <1>7 DEF AnswerInv

\* A read settles the pending calls it has a reply for, each with usbmuxd's answer.
LEMMA SocketDataEffect ==
  ASSUME TypeOK, AnswerInv, NEW n \in 1 .. Len(inbox), NEW k \in 0 .. n, SocketData(n, k)
  PROVE  \A t \in Tags :
           IF t \in responseCallbacks /\ \E i \in 1 .. k : inbox[i].type = "reply" /\ inbox[i].tag = t
           THEN said[t] # "nothing" /\ promise'[t] = Outcome(kind[t], said[t]) /\ t \notin responseCallbacks'
           ELSE promise'[t] = promise[t] /\ (t \in responseCallbacks' <=> t \in responseCallbacks)
<1> DEFINE frames == {inbox[i] : i \in 1 .. k}
           answered == {t \in responseCallbacks : \E f \in frames : f.type = "reply" /\ f.tag = t}
<1>1. \A f \in frames : f \in Item /\ (f.type = "reply" => said[f.tag] = f.body)
  BY DEF TypeOK, AnswerInv, Truthful
<1>2. \A f \in Item : f.type = "reply" => f.body \in Body
  BY DEF Item, Reply, Data
<1>3. "nothing" \notin Body
  BY DEF Body
<1>4. responseCallbacks' = responseCallbacks \ answered
  BY DEF SocketData, HandleData
<1>5. ASSUME NEW t \in answered
      PROVE  said[t] # "nothing" /\ promise'[t] = Outcome(kind[t], said[t])
  <2> DEFINE answer == CHOOSE f \in frames : f.type = "reply" /\ f.tag = t
  <2>1. t \in Tags
    BY DEF TypeOK
  <2>2. promise'[t] = Outcome(kind[t], answer.body)
    BY <2>1 DEF SocketData, HandleData
  <2>3. answer \in frames /\ answer.type = "reply" /\ answer.tag = t
    <3> HIDE DEF frames
    <3>1. \E f \in frames : f.type = "reply" /\ f.tag = t
      OBVIOUS
    <3>2. QED
      BY <3>1
  <2>4. QED
    BY <1>1, <1>2, <1>3, <2>2, <2>3
<1>6. \A t \in Tags \ answered : promise'[t] = promise[t]
  BY DEF SocketData, HandleData
<1>7. \A t \in responseCallbacks : t \in answered <=>
          \E i \in 1 .. k : inbox[i].type = "reply" /\ inbox[i].tag = t
  OBVIOUS
<1>8. answered \subseteq responseCallbacks
  OBVIOUS
<1> HIDE DEF answered
<1>9. QED
  BY <1>4, <1>5, <1>6, <1>7, <1>8

\* One chunk read by the mux splitter (a 'data' event) keeps AnswerInv: each
\* message in it settles the call its tag names or is dropped.
LEMMA SocketDataAnswer ==
  ASSUME TypeOK, AnswerInv, NEW n \in 1 .. Len(inbox), NEW k \in 0 .. n, SocketData(n, k)
  PROVE  AnswerInv'
<1>1. UNCHANGED <<tag, kind, said, asked, toMux>>
  BY DEF SocketData, daemonVars
<1>2. ASSUME NEW t \in Tags
      PROVE  \/ /\ said[t] # "nothing" /\ promise'[t] = Outcome(kind[t], said[t])
                /\ promise[t] = "pending" /\ t \notin responseCallbacks'
             \/ promise'[t] = promise[t] /\ (t \in responseCallbacks' <=> t \in responseCallbacks)
  BY SocketDataEffect DEF AnswerInv, CallbacksArePending
<1>3. \A k1, body : Outcome(k1, body) \notin {"pending", "unmade"}
  BY OutcomeType DEF Settled, Rejected
<1>4. responseCallbacks' \subseteq Tags
  BY SocketDataType DEF TypeOK
<1>5. Fresh'
  BY <1>1, <1>2, <1>3 DEF AnswerInv, Fresh
<1>6. InFlight'
  BY <1>1 DEF AnswerInv, InFlight
<1>7. Truthful'
  <2>1. \A i \in DOMAIN inbox' : i + n \in DOMAIN inbox /\ inbox'[i] = inbox[i + n]
    <3>1. inbox \in Seq(Item) /\ inbox' = SubSeq(inbox, n + 1, Len(inbox))
      BY DEF TypeOK, SocketData
    <3>2. n \in 0 .. Len(inbox) /\ Len(inbox) \in 0 .. Len(inbox)
      BY <3>1
    <3>3. QED
      BY <3>1, <3>2, SubSeqElements
  <2>2. \A i \in DOMAIN leftover' : \E j \in DOMAIN inbox : leftover'[i] = inbox[j]
    <3>1. CASE "splitter" \in pipes
      <4>1. leftover' = SubSeq(inbox, k + 1, n) /\ inbox \in Seq(Item) /\ k \in 0 .. Len(inbox)
        BY <3>1 DEF TypeOK, SocketData, PushBack
      <4>2. QED
        BY <4>1, SubSeqElements
    <3>2. CASE "splitter" \notin pipes
      BY <3>2 DEF SocketData
    <3>3. QED
      BY <3>1, <3>2
  <2>3. QED
    BY <1>1, <2>1, <2>2 DEF AnswerInv, Truthful
<1>8. CallbacksArePending'
  BY <1>2, <1>3, <1>4 DEF AnswerInv, CallbacksArePending
<1>9. OwnAnswer'
  BY <1>1, <1>2 DEF AnswerInv, OwnAnswer
<1>10. QED
  BY <1>5, <1>6, <1>7, <1>8, <1>9 DEF AnswerInv

\* Every step of the system keeps AnswerInv: a call settles with the answer to
\* its own request, and the callbacks are those of the calls still waiting.
LEMMA AnswerStep == TypeOK /\ AnswerInv /\ [Next]_vars => AnswerInv'
<1> SUFFICES ASSUME TypeOK, AnswerInv, [Next]_vars PROVE AnswerInv'
  OBVIOUS
<1> USE UsbmuxAssumption
<1>1. ASSUME NEW k \in Operations, Request(k) PROVE AnswerInv'
  BY <1>1, RequestAnswer DEF Request, streamVars, daemonVars
<1>2. ASSUME NEW t \in Tags, TimedOut(t) PROVE AnswerInv'
  <2> USE <1>2 DEF TypeOK, TimedOut, AnswerInv, streamVars, daemonVars
  <2>1. Fresh'
    BY DEF Fresh
  <2>2. InFlight' /\ Truthful'
    BY DEF InFlight, Truthful
  <2>3. CallbacksArePending' /\ OwnAnswer'
    BY DEF CallbacksArePending, OwnAnswer
  <2>4. QED
    BY <2>1, <2>2, <2>3
<1>3. ASSUME NEW n \in 1 .. Len(inbox), NEW k \in 0 .. n, SocketData(n, k) PROVE AnswerInv'
  BY <1>3, SocketDataAnswer
<1>4. CASE Unshift
  <2>1. Truthful'
    <3>1. inbox' = leftover \o inbox /\ leftover' = <<>> /\ UNCHANGED said
      BY <1>4 DEF Unshift, daemonVars
    <3>2. \A i \in DOMAIN inbox' : \/ \E j \in DOMAIN leftover : inbox'[i] = leftover[j]
                                   \/ \E j \in DOMAIN inbox : inbox'[i] = inbox[j]
      <4>1. leftover \in Seq(Item) /\ inbox \in Seq(Item)
        BY DEF TypeOK
      <4>2. \A i \in DOMAIN (leftover \o inbox) :
               \/ \E j \in DOMAIN leftover : (leftover \o inbox)[i] = leftover[j]
               \/ \E j \in DOMAIN inbox : (leftover \o inbox)[i] = inbox[j]
        BY <4>1, ConcatElements
      <4>3. QED
        BY <3>1, <4>2
    <3>3. QED
      BY <3>1, <3>2 DEF AnswerInv, Truthful
  <2>2. QED
    BY <1>4, <2>1 DEF Unshift, AnswerInv, Fresh, InFlight, CallbacksArePending, OwnAnswer,
                      clientVars, daemonVars
<1> DEFINE Same == UNCHANGED <<tag, kind, promise, responseCallbacks, toMux, asked, said,
                               inbox, leftover>>
<1>5. Same => AnswerInv'
  BY DEF AnswerInv, Fresh, InFlight, Truthful, CallbacksArePending, OwnAnswer
<1>6. OwnerAttaches \/ SocketEnd \/ Close \/ ConnectLockdownFails \/ LockdownAttaches \/ MuxCloses
        \/ UNCHANGED vars => Same
  BY DEF OwnerAttaches, SocketEnd, Close, ConnectLockdownFails, LockdownAttaches, MuxCloses,
         vars, clientVars, streamVars, daemonVars
<1>7. CASE ConnectLockdown
  BY <1>7, RequestAnswer DEF ConnectLockdown, Kind, streamVars, daemonVars
<1>8. CASE FindDevice
  BY <1>8, RequestAnswer DEF FindDevice, Kind, streamVars, daemonVars
<1>9. CASE MuxReads
  <2>1. toMux' = Tail(toMux) /\ UNCHANGED <<tag, kind, promise, responseCallbacks, said, inbox, leftover>>
    BY <1>9 DEF MuxReads, clientVars, streamVars
  <2>2. asked' \subseteq asked \cup {Head(toMux)}
    BY <1>9 DEF MuxReads
  <2>3. toMux # <<>> /\ Head(toMux) = toMux[1] /\ 1 \in DOMAIN toMux
    BY <1>9 DEF MuxReads, TypeOK
  <2>4. \A i \in DOMAIN toMux' : i + 1 \in DOMAIN toMux /\ toMux'[i] = toMux[i + 1] /\ i + 1 # 1
    BY <2>1, <2>3 DEF TypeOK
  <2>5. InFlight'
    <3>1. \A t \in asked' : t < tag' /\ said'[t] = "nothing"
      BY <2>1, <2>2, <2>3 DEF AnswerInv, InFlight
    <3>2. \A i \in DOMAIN toMux' :
             toMux'[i] < tag' /\ said'[toMux'[i]] = "nothing" /\ toMux'[i] \notin asked'
      BY <2>1, <2>2, <2>3, <2>4 DEF AnswerInv, InFlight
    <3>3. \A i, j \in DOMAIN toMux' : toMux'[i] = toMux'[j] => i = j
      <4>1. SUFFICES ASSUME NEW i \in DOMAIN toMux', NEW j \in DOMAIN toMux', toMux'[i] = toMux'[j]
                     PROVE  i = j
        OBVIOUS
      <4>2. i + 1 = j + 1
        BY <2>4, <4>1 DEF AnswerInv, InFlight
      <4>3. i \in Int /\ j \in Int
        BY <2>1 DEF TypeOK
      <4>4. QED
        BY <4>2, <4>3
    <3>4. QED
      BY <3>1, <3>2, <3>3 DEF InFlight
  <2>6. QED
    BY <2>1, <2>5 DEF AnswerInv, Fresh, Truthful, CallbacksArePending, OwnAnswer
<1>10. ASSUME NEW t \in Tags, NEW body \in Body, MuxAnswers(t, body) PROVE AnswerInv'
  <2>1. /\ t \in asked /\ asked' = asked \ {t}
        /\ said' = [said EXCEPT ![t] = body]
        /\ inbox' = Append(inbox, Reply(t, body))
        /\ UNCHANGED <<tag, kind, promise, responseCallbacks, toMux, leftover>>
    BY <1>10 DEF MuxAnswers, clientVars, streamVars
  <2>2. said[t] = "nothing" /\ t < tag
    BY <2>1 DEF AnswerInv, InFlight
  <2>3. Fresh'
    BY <2>1, <2>2 DEF TypeOK, AnswerInv, Fresh
  <2>4. InFlight'
    BY <2>1, <2>2 DEF TypeOK, AnswerInv, InFlight
  <2>5. Truthful'
    <3>1. \A f \in Item : f.type = "reply" => f.body # "nothing" /\ f.tag \in Tags
      BY DEF Item, Reply, Data, Body
    <3>2. \A i \in DOMAIN inbox : inbox[i] \in Item
      BY DEF TypeOK
    <3>3. \A i \in DOMAIN leftover : leftover[i] \in Item
      BY DEF TypeOK
    <3>4. \A i \in DOMAIN inbox' : \/ i \in DOMAIN inbox /\ inbox'[i] = inbox[i]
                                   \/ inbox'[i] = Reply(t, body)
      <4>1. inbox \in Seq(Item) /\ Reply(t, body) \in Item
        BY DEF TypeOK, Item
      <4>2. QED
        BY <2>1, <4>1, AppendElements
    <3>5. said' = [u \in Tags |-> IF u = t THEN body ELSE said[u]]
      BY <2>1 DEF TypeOK
    <3>6. Reply(t, body).tag = t /\ Reply(t, body).body = body
      BY DEF Reply
    <3>7. QED
      BY <2>1, <2>2, <3>1, <3>2, <3>3, <3>4, <3>5, <3>6 DEF AnswerInv, Truthful
  <2>6. CallbacksArePending'
    BY <2>1 DEF AnswerInv, CallbacksArePending
  <2>7. OwnAnswer'
    BY <2>1, <2>2 DEF TypeOK, AnswerInv, OwnAnswer
  <2>8. QED
    BY <2>3, <2>4, <2>5, <2>6, <2>7 DEF AnswerInv
<1>11. CASE DeviceSends
  <2>1. /\ inbox' = Append(inbox, Data(sent + 1))
        /\ UNCHANGED <<tag, kind, promise, responseCallbacks, toMux, asked, said, leftover>>
    BY <1>11 DEF DeviceSends, clientVars, streamVars
  <2>2. Data(sent + 1).type # "reply"
    BY DEF Data
  <2>3. \A i \in DOMAIN inbox' : \/ i \in DOMAIN inbox /\ inbox'[i] = inbox[i]
                                 \/ inbox'[i] = Data(sent + 1)
    BY <2>1 DEF TypeOK
  <2>4. Truthful'
    BY <2>1, <2>2, <2>3 DEF AnswerInv, Truthful
  <2>5. QED
    BY <2>1, <2>4 DEF AnswerInv, Fresh, InFlight, CallbacksArePending, OwnAnswer
<1>12. QED
  BY <1>1, <1>2, <1>3, <1>4, <1>5, <1>6, <1>7, <1>8, <1>9, <1>10, <1>11 DEF Next
---------------------------------------------------------------------------
(* TunnelInv is inductive.                                                 *)

\* Which requests were accepted changes only with usbmuxd's answers.
LEMMA RequestTunnel ==
  ASSUME TypeOK, AnswerInv, TunnelInv, NEW k \in Kind, ReceivePlistPromise(k),
         UNCHANGED <<streamVars, inbox, daemonVars>>
  PROVE  TunnelInv'
<1>1. tag \in Tags
  BY UsbmuxAssumption DEF TypeOK, ReceivePlistPromise, Tags
<1>2. Outcome("unmade", "nothing") # "socket" /\ Outcome(k, "nothing") # "socket"
  BY DEF Outcome, ReadBUIDOutcome, ReadPairRecordOutcome, ListDevicesOutcome, ConnectOutcome, Kind
<1>3. /\ kind[tag] = "unmade" /\ said[tag] = "nothing" /\ promise[tag] = "unmade"
      /\ kind' = [kind EXCEPT ![tag] = k] /\ promise' = [promise EXCEPT ![tag] = "pending"]
      /\ UNCHANGED <<isShutdown, pipes, leftover, misframed, got, inbox, server, said, sent>>
  <2>1. ~(tag < tag)
    BY DEF TypeOK
  <2>2. kind[tag] = "unmade" /\ said[tag] = "nothing" /\ promise[tag] = "unmade"
    BY <1>1, <2>1 DEF AnswerInv, Fresh
  <2>3. QED
    BY <2>2 DEF ReceivePlistPromise, streamVars, daemonVars
<1>4. \A t \in Tags : Accepted(t)' = Accepted(t) /\ (Accepted(t) => t # tag)
  BY <1>1, <1>2, <1>3 DEF TypeOK, Accepted
<1>5. \A t \in Tags : t # tag => promise'[t] = promise[t]
  BY <1>1, <1>3 DEF TypeOK
<1>6. promise'[tag] = "pending"
  BY <1>1, <1>3 DEF TypeOK
<1>7. OneAccepted'
  BY <1>3, <1>4 DEF TunnelInv, OneAccepted
<1>8. Readers' /\ TunnelIntact'
  BY <1>3 DEF TunnelInv, Readers, TunnelIntact
<1>9. ShutdownIffHandedOver'
  BY <1>1, <1>3, <1>5, <1>6 DEF TunnelInv, ShutdownIffHandedOver
<1>10. StreamOrder'
  BY <1>3, <1>4, <1>5 DEF TunnelInv, StreamOrder, AnswerAt
<1>11. MisframedOnlyAfterTimeout'
  BY <1>3, <1>4, <1>5 DEF TunnelInv, MisframedOnlyAfterTimeout, Accepted
<1>12. QED
  BY <1>7, <1>8, <1>9, <1>10, <1>11 DEF TunnelInv

\* An accepted Connect is still awaited, or timed out, or handed the socket over.
LEMMA AcceptedPromise ==
  ASSUME TypeOK, AnswerInv, NEW t \in Tags, Accepted(t)
  PROVE  promise[t] \in {"pending", "timedOut", "socket"}
<1>1. Outcome("unmade", "nothing") # "socket"
  BY DEF Outcome
<1>2. promise[t] # "unmade"
  BY <1>1 DEF AnswerInv, Fresh, Accepted
<1>3. promise[t] \in Settled \ {"timedOut"} => promise[t] = "socket"
  BY DEF AnswerInv, OwnAnswer, Accepted
<1>4. QED
  BY <1>2, <1>3 DEF TypeOK

\* After the handover the accepted Connect is not awaited any more.
LEMMA NothingAwaited ==
  ASSUME TypeOK, AnswerInv, TunnelInv, isShutdown
  PROVE  /\ \E t \in Tags : Accepted(t)
         /\ \A t \in Tags : Accepted(t) => promise[t] = "socket"
<1>1. PICK t \in Tags : promise[t] = "socket"
  BY DEF TunnelInv, ShutdownIffHandedOver
<1>2. Accepted(t)
  BY <1>1 DEF AnswerInv, OwnAnswer, Accepted, Settled
<1>3. QED
  BY <1>1, <1>2 DEF TunnelInv, OneAccepted

\* The frame that switches the socket is the answer to an accepted Connect that
\* is awaited.
LEMMA SwitchesAccepted ==
  ASSUME TypeOK, AnswerInv, NEW i \in 1 .. Len(inbox), Switches(inbox[i])
  PROVE  /\ inbox[i].type = "reply" /\ inbox[i].tag \in Tags
         /\ inbox[i].tag \in responseCallbacks
         /\ promise[inbox[i].tag] = "pending" /\ Accepted(inbox[i].tag)
<1>1. inbox[i].type = "reply" /\ inbox[i].tag \in responseCallbacks
  BY DEF Switches
<1>2. inbox[i].body = said[inbox[i].tag]
  BY <1>1 DEF TypeOK, AnswerInv, Truthful
<1>3. QED
  BY <1>1, <1>2 DEF TypeOK, AnswerInv, CallbacksArePending, Switches, Accepted

\* And where that answer is, the socket switches.
LEMMA AcceptedSwitches ==
  ASSUME TypeOK, AnswerInv, NEW t \in Tags, Accepted(t), promise[t] = "pending",
         NEW i \in 1 .. Len(inbox), inbox[i] = Reply(t, said[t])
  PROVE  Switches(inbox[i])
  BY DEF AnswerInv, CallbacksArePending, Switches, Accepted, Reply

\* A read by the owner of the socket takes tunnel data off the inbox.
LEMMA OwnerReadsTunnel ==
  ASSUME TypeOK, AnswerInv, TunnelInv, NEW n \in 1 .. Len(inbox), NEW k \in 0 .. n,
         SocketData(n, k), "splitter" \notin pipes
  PROVE  TunnelInv'
<1>1. k = 0 /\ leftover = <<>> /\ leftover' = <<>>
  BY DEF SocketData
<1>2. UNCHANGED <<kind, said, server, sent, isShutdown, pipes, misframed>>
  <2>1. {inbox[i] : i \in 1 .. k} = {}
    BY <1>1
  <2>2. UNCHANGED <<isShutdown, pipes, misframed>>
    BY <2>1 DEF TypeOK, SocketData, HandOver
  <2>3. QED
    BY <2>2 DEF SocketData, daemonVars
<1>3. \A t \in Tags : promise'[t] = promise[t]
  BY <1>1, SocketDataEffect
<1>4. "owner" \in pipes /\ isShutdown
  BY DEF TypeOK, SocketData, TunnelInv, Readers
<1>5. OneAccepted' /\ Readers' /\ ShutdownIffHandedOver' /\ MisframedOnlyAfterTimeout'
  BY <1>2, <1>3, <1>4 DEF TunnelInv, OneAccepted, Readers, ShutdownIffHandedOver,
                          MisframedOnlyAfterTimeout, Accepted
<1>6. StreamOrder'
  BY <1>2, <1>3, <1>4, NothingAwaited DEF StreamOrder, Accepted
<1>7. TunnelIntact'
  <2>1. got \in Seq(Item) /\ inbox \in Seq(Item)
    BY DEF TypeOK
  <2>2. got' = got \o SubSeq(inbox, 1, n) /\ inbox' = SubSeq(inbox, n + 1, Len(inbox))
    BY <1>4 DEF SocketData
  <2>3. SubSeq(inbox, 1, n) \o SubSeq(inbox, n + 1, Len(inbox)) = inbox
    <3>1. SubSeq(inbox, 1, n) \o SubSeq(inbox, n + 1, Len(inbox)) = SubSeq(inbox, 1, Len(inbox))
      BY <2>1, ConcatAdjacentSubSeq
    <3>2. QED
      BY <2>1, <3>1, SubSeqFull
  <2>4. SubSeq(inbox, 1, n) \in Seq(Item) /\ SubSeq(inbox, n + 1, Len(inbox)) \in Seq(Item)
    BY <2>1
  <2>5. got \o leftover \o inbox = [i \in 1 .. sent |-> Data(i)]
    BY <1>4 DEF TunnelInv, TunnelIntact
  <2>6. got \o leftover = got /\ got' \o leftover' = got' /\ got' \in Seq(Item)
    BY <1>1, <2>1, <2>2, <2>4, ConcatEmptySeq, ConcatProperties
  <2>7. got' \o leftover' \o inbox' = got \o inbox
    <3> DEFINE front == SubSeq(inbox, 1, n)
               back == SubSeq(inbox, n + 1, Len(inbox))
    <3>1. front \in Seq(Item) /\ back \in Seq(Item)
      BY <2>4
    <3>2. got' \o leftover' \o inbox' = (got \o front) \o back /\ front \o back = inbox
      BY <2>2, <2>3, <2>6
    <3> HIDE DEF front, back
    <3>3. (got \o front) \o back = got \o (front \o back)
      BY <2>1, <3>1, ItemsAssociative, Zenon
    <3>4. QED
      BY <3>2, <3>3
  <2>8. QED
    BY <1>2, <2>5, <2>6, <2>7 DEF TunnelIntact
<1>8. QED
  BY <1>5, <1>6, <1>7 DEF TunnelInv

\* A read by the splitter that does not hand the socket over decodes the whole
\* chunk, and tunnel data only after an accepted Connect timed out.
LEMMA SplitterReadsTunnel ==
  ASSUME TypeOK, AnswerInv, TunnelInv, NEW n \in 1 .. Len(inbox), NEW k \in 0 .. n,
         SocketData(n, k), "splitter" \in pipes, \A i \in 1 .. k : ~Switches(inbox[i])
  PROVE  TunnelInv'
<1>1. ~isShutdown /\ got = <<>> /\ leftover = <<>> /\ "owner" \notin pipes
  BY DEF TunnelInv, Readers
<1>2. k = n
  BY <1>1 DEF SocketData, Decodes
<1>3. UNCHANGED <<kind, said, server, sent, isShutdown, pipes, got>>
  <2>1. UNCHANGED <<isShutdown, pipes>>
    BY DEF SocketData, HandOver
  <2>2. QED
    BY <1>1, <2>1 DEF SocketData, daemonVars
<1>4. leftover' = <<>>
  <2>1. leftover' = SubSeq(inbox, n + 1, n)
    BY <1>2 DEF SocketData, PushBack
  <2>2. QED
    BY <2>1, SubSeqEmpty DEF TypeOK
<1>5. inbox \in Seq(Item) /\ Len(inbox) \in Nat /\ inbox' \in Seq(Item) /\ inbox' = SubSeq(inbox, n + 1, Len(inbox))
  <2>1. inbox \in Seq(Item) /\ inbox' = SubSeq(inbox, n + 1, Len(inbox))
    BY DEF TypeOK, SocketData
  <2>2. TypeOK'
    BY SocketDataType
  <2>3. QED
    BY <2>1, <2>2 DEF TypeOK
<1>6. /\ Len(inbox') = Len(inbox) - n
      /\ \A i \in 1 .. Len(inbox) - n : inbox'[i] = inbox[i + n]
  <2>1. \A i \in n + 1 .. Len(inbox) : inbox[i] \in Item
    BY <1>5
  <2>2. QED
    BY <1>5, <2>1, SubSeqProperties
<1>7. ASSUME NEW t \in Tags PROVE promise'[t] = promise[t] \/ (promise[t] = "pending" /\ promise'[t] # "pending"
                                                               /\ promise'[t] # "socket")
  <2>1. CASE t \in responseCallbacks /\ \E i \in 1 .. k : inbox[i].type = "reply" /\ inbox[i].tag = t
    <3>1. PICK i \in 1 .. k : inbox[i].type = "reply" /\ inbox[i].tag = t
      BY <2>1
    <3>2. promise'[t] = Outcome(kind[t], said[t]) /\ promise[t] = "pending"
      BY <2>1, SocketDataEffect DEF AnswerInv, CallbacksArePending
    <3>3. said[t] = inbox[i].body
      BY <1>5, <3>1 DEF AnswerInv, Truthful
    <3>4. Outcome(kind[t], said[t]) # "socket"
      BY <2>1, <3>1, <3>3 DEF Switches
    <3>5. Outcome(kind[t], said[t]) # "pending"
      BY OutcomeType DEF Settled, Rejected
    <3>6. QED
      BY <3>2, <3>4, <3>5
  <2>2. QED
    BY <2>1, SocketDataEffect
<1>8. ASSUME NEW t \in Tags, Accepted(t), promise[t] = "pending", NEW i \in DOMAIN inbox, AnswerAt(t, i)
      PROVE  i > n
  <2>1. inbox[i] = Reply(t, said[t]) /\ i \in 1 .. Len(inbox)
    BY <1>5, <1>8 DEF AnswerAt
  <2>2. Switches(inbox[i])
    BY <1>8, <2>1, AcceptedSwitches
  <2>3. QED
    BY <1>2, <2>1, <2>2
<1>9. OneAccepted' /\ Readers' /\ TunnelIntact'
  BY <1>1, <1>3, <1>4 DEF TunnelInv, OneAccepted, Readers, TunnelIntact, Accepted
<1>10. ShutdownIffHandedOver'
  BY <1>1, <1>3, <1>7 DEF TunnelInv, ShutdownIffHandedOver
<1>11. StreamOrder'
  <2>1. ASSUME \A t \in Tags : ~Accepted(t)'
        PROVE  sent' = 0 /\ \A i \in DOMAIN inbox' : inbox'[i].type = "reply"
    BY <1>3, <1>5, <1>6, <2>1 DEF TunnelInv, StreamOrder, Accepted
  <2>2. ASSUME NEW t \in Tags, Accepted(t)', promise'[t] = "pending"
        PROVE  \E i \in DOMAIN inbox' : AnswerAt(t, i)'
    <3>1. Accepted(t) /\ promise[t] = "pending"
      BY <1>3, <1>7, <2>2 DEF Accepted
    <3>2. PICK i \in DOMAIN inbox : AnswerAt(t, i)
      BY <3>1 DEF TunnelInv, StreamOrder
    <3>3. i > n /\ i \in 1 .. Len(inbox) /\ sent \in Nat
      BY <1>5, <1>8, <3>1, <3>2 DEF TypeOK
    <3>4. i - n \in DOMAIN inbox' /\ inbox'[i - n] = inbox[i]
      <4>1. PICK l \in Nat : l = Len(inbox)
        BY <1>5
      <4>2. i - n \in 1 .. l - n /\ (i - n) + n = i
        BY <3>3, <4>1
      <4>3. DOMAIN inbox' = 1 .. l - n
        BY <1>5, <1>6, <4>1
      <4>4. QED
        BY <1>6, <4>1, <4>2, <4>3
    <3>5. \A j \in 1 .. i - n - 1 : inbox'[j] = inbox[j + n] /\ j + n \in 1 .. i - 1
      BY <1>6, <3>3
    <3>6. \A m \in 1 .. sent : inbox'[i - n + m] = inbox[i + m]
      <4>1. ASSUME NEW m \in 1 .. sent PROVE inbox'[i - n + m] = inbox[i + m]
        <5>1. Len(inbox) = i + sent
          BY <3>2 DEF AnswerAt
        <5>2. i - n + m \in 1 .. Len(inbox) - n /\ i - n + m + n = i + m
          BY <3>3, <5>1
        <5>3. QED
          BY <1>6, <5>2
      <4>2. QED
        BY <4>1
    <3>7. Len(inbox') = (i - n) + sent
      BY <1>6, <3>2, <3>3 DEF AnswerAt
    <3>8. AnswerAt(t, i - n)'
      BY <1>3, <3>2, <3>4, <3>5, <3>6, <3>7 DEF AnswerAt
    <3>9. QED
      BY <3>4, <3>8
  <2>3. QED
    BY <2>1, <2>2 DEF StreamOrder
<1>12. MisframedOnlyAfterTimeout'
  <2>1. CASE misframed
    <3>1. PICK t \in Tags : promise[t] = "timedOut" /\ Accepted(t)
      BY <2>1 DEF TunnelInv, MisframedOnlyAfterTimeout, Accepted
    <3>2. QED
      BY <1>3, <1>7, <3>1 DEF MisframedOnlyAfterTimeout, Accepted
  <2>2. CASE ~misframed /\ \E j \in 1 .. k : inbox[j].type = "data"
    <3>1. PICK j \in 1 .. n : inbox[j].type = "data"
      BY <1>2, <2>2
    <3>2. PICK t \in Tags : Accepted(t)
      BY <1>5, <3>1 DEF TunnelInv, StreamOrder
    <3>3. promise[t] # "pending"
      <4>1. SUFFICES ASSUME promise[t] = "pending" PROVE FALSE
        OBVIOUS
      <4>2. PICK i \in DOMAIN inbox : AnswerAt(t, i)
        BY <3>2, <4>1 DEF TunnelInv, StreamOrder
      <4>3. i > n /\ i \in Nat
        BY <1>5, <1>8, <3>2, <4>1, <4>2
      <4>4. inbox[j].type = "reply"
        BY <4>2, <4>3 DEF AnswerAt
      <4>5. QED
        BY <3>1, <4>4
    <3>4. promise[t] # "socket"
      BY <1>1 DEF TunnelInv, ShutdownIffHandedOver
    <3>5. promise[t] = "timedOut"
      BY <3>2, <3>3, <3>4, AcceptedPromise
    <3>6. QED
      BY <1>3, <1>7, <3>2, <3>5 DEF MisframedOnlyAfterTimeout, Accepted
  <2>3. CASE ~misframed /\ ~\E j \in 1 .. k : inbox[j].type = "data"
    <3>1. misframed' = FALSE
      BY <2>3 DEF SocketData
    <3>2. QED
      BY <3>1 DEF MisframedOnlyAfterTimeout
  <2>4. QED
    BY <2>1, <2>2, <2>3
<1>13. QED
  BY <1>9, <1>10, <1>11, <1>12 DEF TunnelInv

\* A read by the splitter up to the answer of the awaited Connect hands the socket
\* over, and pushes back what came after it: everything the device has sent so far.
LEMMA SplitterHandsOver ==
  ASSUME TypeOK, AnswerInv, TunnelInv, NEW n \in 1 .. Len(inbox), NEW k \in 0 .. n,
         SocketData(n, k), "splitter" \in pipes, NEW i \in 1 .. k, Switches(inbox[i])
  PROVE  TunnelInv'
<1> DEFINE t == inbox[i].tag
<1>1. ~isShutdown /\ got = <<>> /\ leftover = <<>> /\ "owner" \notin pipes
  BY DEF TunnelInv, Readers
<1>2. inbox \in Seq(Item) /\ Len(inbox) \in Nat /\ sent \in Nat
  BY DEF TypeOK
<1>3. t \in Tags /\ t \in responseCallbacks /\ promise[t] = "pending" /\ Accepted(t) /\ inbox[i].type = "reply"
  BY SwitchesAccepted
<1> HIDE DEF t
<1>4. PICK a \in 1 .. Len(inbox) : AnswerAt(t, a)
  BY <1>2, <1>3 DEF TunnelInv, StreamOrder
<1>5. Switches(inbox[a])
  BY <1>3, <1>4, AcceptedSwitches DEF AnswerAt
<1>6. i = k /\ a = k
  <2>1. \A j \in 1 .. k - 1 : ~Switches(inbox[j])
    BY <1>1 DEF SocketData, Decodes
  <2>2. i = k
    BY <2>1
  <2>3. a <= i
    BY <1>2, <1>4 DEF AnswerAt, t
  <2>4. QED
    BY <1>5, <2>1, <2>2, <2>3
<1>7. isShutdown' = TRUE /\ pipes' = pipes \ {"splitter"}
  BY DEF SocketData, HandOver
<1>8. UNCHANGED <<kind, said, server, sent, got>>
  BY <1>1 DEF SocketData, daemonVars
<1>9. leftover' = SubSeq(inbox, k + 1, n) /\ inbox' = SubSeq(inbox, n + 1, Len(inbox))
  BY DEF SocketData, PushBack
<1>10. promise'[t] = "socket"
  BY <1>3, SocketDataEffect DEF Accepted, t
<1>11. \A u \in Tags : promise[u] = "timedOut" => promise'[u] = "timedOut"
  BY SocketDataEffect DEF AnswerInv, CallbacksArePending
<1>12. OneAccepted' /\ Readers' /\ ShutdownIffHandedOver'
  BY <1>3, <1>7, <1>8, <1>10 DEF TunnelInv, OneAccepted, Readers, ShutdownIffHandedOver, Accepted
<1>13. StreamOrder'
  <2>1. \A u \in Tags : Accepted(u)' <=> Accepted(u)
    BY <1>8 DEF Accepted
  <2>2. \A u \in Tags : Accepted(u)' => promise'[u] # "pending"
    BY <1>3, <1>10, <2>1 DEF TunnelInv, OneAccepted
  <2>3. QED
    BY <1>3, <2>1, <2>2 DEF StreamOrder
<1>14. TunnelIntact'
  <2> DEFINE rest == SubSeq(inbox, k + 1, Len(inbox))
             all == [m \in 1 .. sent |-> Data(m)]
  <2>1. leftover' \in Seq(Item) /\ inbox' \in Seq(Item) /\ rest \in Seq(Item)
    BY <1>2, <1>9
  <2>2. leftover' \o inbox' = rest
    <3>1. k \in 0 .. Len(inbox) /\ n \in k .. Len(inbox)
      BY <1>2
    <3>2. SubSeq(inbox, k + 1, n) \o SubSeq(inbox, n + 1, Len(inbox)) = rest
      BY <1>2, <3>1, ItemsAdjacent
    <3>3. QED
      BY <1>9, <3>2
  <2>3. got' \o leftover' \o inbox' = rest
    BY <1>1, <1>8, <2>1, <2>2, ConcatEmptySeq
  <2>4. Len(rest) = sent /\ \A m \in 1 .. sent : rest[m] = inbox[k + m]
    <3>1. \A m \in k + 1 .. Len(inbox) : inbox[m] \in Item
      BY <1>2
    <3>2. Len(inbox) = k + sent
      BY <1>4, <1>6 DEF AnswerAt
    <3>3. QED
      BY <1>2, <3>1, <3>2, SubSeqProperties
  <2>5. \A m \in 1 .. sent : inbox[k + m] = Data(m)
    BY <1>4, <1>6 DEF AnswerAt
  <2>6. DOMAIN rest = 1 .. sent /\ rest = [m \in DOMAIN rest |-> rest[m]]
    <3> HIDE DEF rest
    <3>1. QED
      BY <2>1, <2>4
  <2>7. rest = all
    BY <2>4, <2>5, <2>6
  <2>8. QED
    BY <1>8, <2>3, <2>7 DEF TunnelIntact
<1>15. MisframedOnlyAfterTimeout'
  <2>1. \A j \in 1 .. k : inbox[j].type # "data"
    BY <1>3, <1>4, <1>6 DEF AnswerAt
  <2>2. misframed' = misframed
    BY <2>1 DEF TypeOK, SocketData
  <2>3. QED
    BY <1>8, <1>11, <2>2 DEF TunnelInv, MisframedOnlyAfterTimeout
<1>16. QED
  BY <1>12, <1>13, <1>14, <1>15 DEF TunnelInv

\* Every step keeps TunnelInv: the bytes delivered, queued and under way form the
\* device's stream unless a timed-out Connect was answered after all.
LEMMA TunnelStep == TypeOK /\ AnswerInv /\ TunnelInv /\ [Next]_vars => TunnelInv'
<1> SUFFICES ASSUME TypeOK, AnswerInv, TunnelInv, [Next]_vars PROVE TunnelInv'
  OBVIOUS
<1> USE UsbmuxAssumption
<1>1. ASSUME NEW k \in Operations, Request(k) PROVE TunnelInv'
  BY <1>1, RequestTunnel DEF Request
<1>2. ASSUME NEW t \in Tags, TimedOut(t) PROVE TunnelInv'
  <2>1. UNCHANGED <<kind, said, isShutdown, pipes, leftover, misframed, got, inbox, server, sent>>
    BY <1>2 DEF TimedOut, streamVars, daemonVars
  <2>2. promise[t] = "pending" /\ promise'[t] = "timedOut" /\ \A u \in Tags : u # t => promise'[u] = promise[u]
    BY <1>2 DEF TypeOK, TimedOut
  <2>3. OneAccepted' /\ Readers' /\ TunnelIntact'
    BY <2>1 DEF TunnelInv, OneAccepted, Readers, TunnelIntact, Accepted
  <2>4. ShutdownIffHandedOver' /\ MisframedOnlyAfterTimeout'
    BY <2>1, <2>2 DEF TunnelInv, ShutdownIffHandedOver, MisframedOnlyAfterTimeout
  <2>5. StreamOrder'
    BY <2>1, <2>2 DEF TunnelInv, StreamOrder, Accepted, AnswerAt
  <2>6. QED
    BY <2>3, <2>4, <2>5 DEF TunnelInv
<1>3. ASSUME NEW n \in 1 .. Len(inbox), NEW k \in 0 .. n, SocketData(n, k) PROVE TunnelInv'
  BY <1>3, OwnerReadsTunnel, SplitterReadsTunnel, SplitterHandsOver
<1>4. CASE Unshift
  <2>1. /\ leftover # <<>> /\ inbox' = leftover \o inbox /\ leftover' = <<>>
        /\ UNCHANGED <<kind, said, promise, isShutdown, pipes, misframed, got, server, sent>>
    BY <1>4 DEF Unshift, clientVars, daemonVars
  <2>2. isShutdown
    BY <2>1 DEF TunnelInv, Readers
  <2>3. OneAccepted' /\ Readers' /\ ShutdownIffHandedOver' /\ MisframedOnlyAfterTimeout'
    BY <2>1, <2>2 DEF TunnelInv, OneAccepted, Readers, ShutdownIffHandedOver,
                      MisframedOnlyAfterTimeout, Accepted
  <2>4. StreamOrder'
    BY <2>1, <2>2, NothingAwaited DEF StreamOrder, Accepted
  <2>5. TunnelIntact'
    <3>1. got \in Seq(Item) /\ leftover \in Seq(Item) /\ inbox \in Seq(Item)
      BY DEF TypeOK
    <3>2. got \o <<>> = got
      BY <3>1, ConcatEmptySeq
    <3>3. got \o (leftover \o inbox) = (got \o leftover) \o inbox
      BY <3>1, ItemsAssociative, Zenon
    <3>4. (got \o leftover) \o inbox = [i \in 1 .. sent |-> Data(i)]
      BY <2>2 DEF TunnelInv, TunnelIntact
    <3>5. got' \o leftover' \o inbox' = got \o (leftover \o inbox)
      BY <2>1, <3>2
    <3>6. got' \o leftover' \o inbox' = [i \in 1 .. sent |-> Data(i)]
      BY <3>3, <3>4, <3>5
    <3>7. QED
      BY <2>1, <3>6 DEF TunnelIntact
  <2>6. QED
    BY <2>3, <2>4, <2>5 DEF TunnelInv
<1> DEFINE Same == UNCHANGED <<kind, said, promise, isShutdown, leftover, misframed, got, inbox,
                               server, sent>>
<1>5. ASSUME Same, Readers' PROVE TunnelInv'
  BY <1>5 DEF TunnelInv, OneAccepted, StreamOrder, AnswerAt, ShutdownIffHandedOver, TunnelIntact,
              MisframedOnlyAfterTimeout, Accepted
<1>6. CASE OwnerAttaches
  BY <1>5, <1>6 DEF OwnerAttaches, clientVars, daemonVars, TunnelInv, Readers, ShutdownIffHandedOver
<1>7. CASE SocketEnd
  BY <1>5, <1>7 DEF SocketEnd, clientVars, daemonVars, TunnelInv, Readers
<1>8. CASE Close \/ ConnectLockdownFails \/ MuxReads \/ UNCHANGED vars
  BY <1>5, <1>8 DEF Close, ConnectLockdownFails, MuxReads, vars, clientVars, streamVars, daemonVars,
                    TunnelInv, Readers
<1>9. CASE ConnectLockdown
  BY <1>9, RequestTunnel DEF ConnectLockdown, Kind
<1>10. CASE FindDevice
  BY <1>10, RequestTunnel DEF FindDevice, Kind
<1>11. CASE LockdownAttaches
  <2>1. lockdownCall.tag \in Tags /\ promise[lockdownCall.tag] = "socket"
    BY <1>11 DEF TypeOK, LockdownAttaches
  <2>2. isShutdown
    BY <2>1 DEF TunnelInv, ShutdownIffHandedOver
  <2>3. Same /\ Readers'
    BY <1>11, <2>2 DEF LockdownAttaches, daemonVars, TunnelInv, Readers
  <2>4. QED
    BY <1>5, <2>3
<1>12. ASSUME NEW t \in Tags, NEW body \in Body, MuxAnswers(t, body) PROVE TunnelInv'
  <2>1. /\ server = "mux" /\ t \in asked /\ inbox' = Append(inbox, Reply(t, body))
        /\ said' = [said EXCEPT ![t] = body]
        /\ server' = IF Outcome(kind[t], body) = "socket" THEN "tunnel" ELSE server
        /\ UNCHANGED <<kind, promise, isShutdown, pipes, leftover, misframed, got, sent>>
    BY <1>12 DEF MuxAnswers, clientVars, streamVars
  <2>2. \A u \in Tags : ~Accepted(u)
    BY <2>1 DEF TunnelInv, OneAccepted
  <2>3. ~isShutdown /\ ~misframed /\ sent = 0 /\ \A j \in DOMAIN inbox : inbox[j].type = "reply"
    BY <2>2, NothingAwaited DEF TypeOK, TunnelInv, MisframedOnlyAfterTimeout, StreamOrder, Accepted
  <2>4. \A u \in Tags : u # t => said'[u] = said[u]
    BY <2>1 DEF TypeOK
  <2>5. said'[t] = body /\ said[t] = "nothing"
    BY <2>1 DEF TypeOK, AnswerInv, InFlight
  <2>6. \A u \in Tags : Accepted(u)' <=> u = t /\ server' = "tunnel"
    BY <2>1, <2>2, <2>4, <2>5 DEF Accepted
  <2>7. OneAccepted'
    BY <2>1, <2>6 DEF OneAccepted
  <2>8. Readers' /\ ShutdownIffHandedOver' /\ TunnelIntact' /\ MisframedOnlyAfterTimeout'
    BY <2>1, <2>3 DEF TunnelInv, Readers, ShutdownIffHandedOver, TunnelIntact,
                      MisframedOnlyAfterTimeout
  <2>9. StreamOrder'
    <3>1. inbox \in Seq(Item) /\ Reply(t, body) \in Item /\ Len(inbox) \in Nat
      BY DEF TypeOK, Item
    <3>2. /\ DOMAIN inbox' = 1 .. Len(inbox) + 1 /\ Len(inbox') = Len(inbox) + 1
          /\ \A j \in 1 .. Len(inbox) : inbox'[j] = inbox[j]
          /\ inbox'[Len(inbox) + 1] = Reply(t, body)
      BY <2>1, <3>1, AppendProperties
    <3>3. \A j \in DOMAIN inbox' : inbox'[j].type = "reply"
      BY <2>3, <3>1, <3>2 DEF Reply
    <3>4. \A f \in Item : f.type = "reply" => f.body # "nothing"
      BY DEF Item, Reply, Data, Body
    <3>5. \A j \in 1 .. Len(inbox) : inbox[j].tag # t
      BY <2>3, <2>5, <3>1, <3>4 DEF AnswerInv, Truthful
    <3>6. PICK i \in Nat : i = Len(inbox) + 1
      BY <3>1
    <3>7. i \in DOMAIN inbox' /\ AnswerAt(t, i)'
      <4>1. inbox'[i] = Reply(t, said'[t])
        BY <2>5, <3>2, <3>6
      <4>2. \A j \in 1 .. i - 1 : inbox'[j].type = "reply" /\ inbox'[j].tag # t
        BY <2>3, <3>1, <3>2, <3>5, <3>6
      <4>3. Len(inbox') = i + sent' /\ sent' = 0
        BY <2>1, <2>3, <3>1, <3>2, <3>6
      <4>4. \A m \in 1 .. sent' : inbox'[i + m] = Data(m)
        BY <4>3
      <4>5. i \in DOMAIN inbox'
        BY <3>1, <3>2, <3>6
      <4>6. QED
        BY <4>1, <4>2, <4>3, <4>4, <4>5 DEF AnswerAt
    <3>8. sent' = 0
      BY <2>1, <2>3
    <3>9. QED
      BY <2>6, <3>3, <3>7, <3>8 DEF StreamOrder
  <2>10. QED
    BY <2>7, <2>8, <2>9 DEF TunnelInv
<1>13. CASE DeviceSends
  <2>1. /\ server = "tunnel" /\ sent' = sent + 1 /\ inbox' = Append(inbox, Data(sent + 1))
        /\ UNCHANGED <<kind, said, promise, isShutdown, pipes, leftover, misframed, got, server>>
    BY <1>13 DEF DeviceSends, clientVars, streamVars
  <2>2. PICK t \in Tags : Accepted(t)
    BY <2>1 DEF TunnelInv, OneAccepted
  <2>3. got \in Seq(Item) /\ leftover \in Seq(Item) /\ inbox \in Seq(Item) /\ Len(inbox) \in Nat
          /\ Data(sent + 1) \in Item /\ sent \in Nat
    <3>1. sent \in Nat /\ sent + 1 \in 1 .. MaxTunnel
      BY <1>13 DEF TypeOK, DeviceSends
    <3>2. QED
      BY <3>1 DEF TypeOK, Item
  <2>4. OneAccepted' /\ Readers' /\ ShutdownIffHandedOver' /\ MisframedOnlyAfterTimeout'
    BY <2>1 DEF TunnelInv, OneAccepted, Readers, ShutdownIffHandedOver, MisframedOnlyAfterTimeout, Accepted
  <2>5. /\ DOMAIN inbox' = 1 .. Len(inbox) + 1 /\ Len(inbox') = Len(inbox) + 1
        /\ \A j \in 1 .. Len(inbox) : inbox'[j] = inbox[j]
        /\ inbox'[Len(inbox) + 1] = Data(sent + 1)
    BY <2>1, <2>3, AppendProperties
  <2>6. StreamOrder'
    <3>1. ASSUME NEW u \in Tags, Accepted(u), promise[u] = "pending", NEW i \in DOMAIN inbox, AnswerAt(u, i)
          PROVE  i \in DOMAIN inbox' /\ AnswerAt(u, i)'
      <4>1. i \in 1 .. Len(inbox) /\ Len(inbox) = i + sent
        BY <2>3, <3>1 DEF AnswerAt
      <4>2. inbox'[i] = Reply(u, said[u])
        BY <2>5, <3>1, <4>1 DEF AnswerAt
      <4>3. \A j \in 1 .. i - 1 : inbox'[j].type = "reply" /\ inbox'[j].tag # u
        BY <2>5, <3>1, <4>1 DEF AnswerAt
      <4>4. Len(inbox') = i + sent'
        BY <2>1, <2>3, <2>5, <4>1
      <4>5. \A m \in 1 .. sent' : inbox'[i + m] = Data(m)
        <5>1. ASSUME NEW m \in 1 .. sent PROVE inbox'[i + m] = Data(m)
          <6>1. i + m \in 1 .. Len(inbox)
            BY <2>3, <4>1
          <6>2. inbox'[i + m] = inbox[i + m]
            BY <2>5, <6>1
          <6>3. QED
            BY <3>1, <6>2 DEF AnswerAt
        <5>2. inbox'[i + (sent + 1)] = Data(sent + 1)
          BY <2>3, <2>5, <4>1
        <5>3. \A m \in 1 .. sent' : m \in 1 .. sent \/ m = sent + 1
          BY <2>1, <2>3
        <5>4. QED
          BY <5>1, <5>2, <5>3
      <4>6. i \in DOMAIN inbox'
        BY <2>3, <2>5, <4>1
      <4>7. said' = said
        BY <2>1
      <4>8. QED
        BY <4>2, <4>3, <4>4, <4>5, <4>6, <4>7 DEF AnswerAt
    <3>2. \A u \in Tags : Accepted(u)' = Accepted(u)
      BY <2>1 DEF Accepted
    <3>3. QED
      BY <2>1, <2>2, <3>1, <3>2 DEF TunnelInv, StreamOrder
  <2>7. TunnelIntact'
    <3>1. SUFFICES ASSUME isShutdown
                   PROVE  got \o leftover \o inbox' = [m \in 1 .. sent + 1 |-> Data(m)]
      BY <2>1 DEF TunnelIntact
    <3> DEFINE read == got \o leftover
               all == [m \in 1 .. sent |-> Data(m)]
    <3>2. read \in Seq(Item) /\ read \o inbox = all
      BY <2>3, <3>1, ConcatProperties DEF TunnelInv, TunnelIntact
    <3>3. read \o inbox' = Append(all, Data(sent + 1))
      <4>1. inbox' = inbox \o <<Data(sent + 1)>> /\ <<Data(sent + 1)>> \in Seq(Item)
        BY <2>1, <2>3, AppendIsConcat
      <4>2. read \o inbox' = (read \o inbox) \o <<Data(sent + 1)>>
        <5> DEFINE new == <<Data(sent + 1)>>
        <5>1. new \in Seq(Item) /\ inbox' = inbox \o new
          BY <4>1
        <5> HIDE DEF new, read
        <5>2. read \o (inbox \o new) = (read \o inbox) \o new
          BY <2>3, <3>2, <5>1, ItemsAssociative, Zenon
        <5>3. read \o inbox' = (read \o inbox) \o new
          BY <5>1, <5>2
        <5>4. QED
          BY <5>3 DEF new
      <4>3. read \o inbox \in Seq(Item)
        BY <2>3, <3>2, ConcatProperties
      <4>4. QED
        BY <2>3, <3>2, <4>2, <4>3, AppendIsConcat
    <3>4. Append(all, Data(sent + 1)) = [m \in 1 .. sent + 1 |-> Data(m)]
      BY <2>3
    <3>5. QED
      BY <3>3, <3>4
  <2>8. QED
    BY <2>4, <2>6, <2>7 DEF TunnelInv
<1>14. CASE MuxCloses
  <2>1. server' = "gone" /\ UNCHANGED <<kind, said, promise, isShutdown, pipes, leftover, misframed, got,
                                       inbox, sent>>
    BY <1>14 DEF MuxCloses, clientVars, streamVars
  <2>2. QED
    BY <2>1 DEF TunnelInv, OneAccepted, Readers, StreamOrder, AnswerAt, ShutdownIffHandedOver,
                TunnelIntact, MisframedOnlyAfterTimeout, Accepted
<1>15. QED
  BY <1>1, <1>2, <1>3, <1>4, <1>6, <1>7, <1>8, <1>9, <1>10, <1>11, <1>12, <1>13, <1>14 DEF Next

---------------------------------------------------------------------------
(* The theorems.                                                           *)

\* A freshly constructed Usbmux satisfies the inductive invariant.
LEMMA InitInv == Init => IInv
<1> SUFFICES ASSUME Init PROVE IInv
  OBVIOUS
<1> USE UsbmuxAssumption DEF Init
<1>1. TypeOK
  <2>1. tag \in 0 .. MaxRequests /\ sent \in 0 .. MaxTunnel
    OBVIOUS
  <2>2. /\ kind \in [Tags -> Kind \cup {"unmade"}]
        /\ promise \in [Tags -> {"unmade", "pending"} \cup Settled]
        /\ said \in [Tags -> Body \cup {"nothing"}]
    OBVIOUS
  <2>3. leftover \in Seq(Item) /\ got \in Seq(Item) /\ inbox \in Seq(Item) /\ toMux \in Seq(Tags)
    OBVIOUS
  <2>4. lockdownCall \in [phase : {"idle"}, tag : {0}]
    OBVIOUS
  <2>5. QED
    BY <2>1, <2>2, <2>3, <2>4 DEF TypeOK
<1>2. AnswerInv
  BY DEF AnswerInv, Fresh, InFlight, Truthful, CallbacksArePending, OwnAnswer, Tags, Settled, Rejected
<1>3. \A t \in Tags : ~Accepted(t)
  BY DEF Accepted, Outcome
<1>4. TunnelInv
  BY <1>3 DEF TunnelInv, OneAccepted, Readers, StreamOrder, ShutdownIffHandedOver, TunnelIntact,
              MisframedOnlyAfterTimeout
<1>5. QED
  BY <1>1, <1>2, <1>4 DEF IInv

\* The inductive invariant holds in every state a Usbmux object can reach; the
\* named properties below are its consequences.
THEOREM Invariance == Spec => []IInv
<1>1. IInv /\ [Next]_vars => IInv'
  BY TypeStep, AnswerStep, TunnelStep DEF IInv
<1>2. QED
  BY InitInv, <1>1, PTL DEF Spec

\* Every variable keeps its type.
THEOREM TypeCorrect == Spec => []TypeOK
  BY Invariance, PTL DEF IInv

\* A call settled by a reply got usbmuxd's answer to that very call.
THEOREM AnswersAreOwn == Spec => []OwnAnswer
  BY Invariance, PTL DEF IInv, AnswerInv

\* The callback table is exactly the set of pending calls.
THEOREM CallbacksExact == Spec => []CallbacksArePending
  BY Invariance, PTL DEF IInv, AnswerInv

\* The splitter stops exactly when a connect has resolved.
THEOREM ShutdownExact == Spec => []ShutdownIffHandedOver
  BY Invariance, PTL DEF IInv, TunnelInv

\* The owner of the tunnel is given all that the device sends, in order.
THEOREM TunnelCorrect == Spec => []TunnelIntact
  BY Invariance, PTL DEF IInv, TunnelInv

\* Tunnel data is misframed only when an accepted connect had timed out.
THEOREM MisframingNeedsTimeout == Spec => []MisframedOnlyAfterTimeout
  BY Invariance, PTL DEF IInv, TunnelInv

\* At most one caller is handed the socket.
THEOREM SocketHasOneOwner == Spec => []OneOwner
<1>1. IInv => OneOwner
  BY DEF IInv, AnswerInv, TunnelInv, OwnAnswer, OneAccepted, Accepted, OneOwner, Settled
<1>2. QED
  BY Invariance, <1>1, PTL

\* A settled call stays as it is.
THEOREM SettlingIsFinal == Spec => SettledOnce
<1>1. ASSUME TypeOK, AnswerInv, [Next]_vars, NEW t \in Tags, promise[t] \in Settled
      PROVE  promise'[t] = promise[t]
  <2>1. promise[t] # "pending" /\ promise[t] # "unmade"
    BY <1>1 DEF Settled, Rejected
  <2>2. t < tag
    BY <1>1, <2>1 DEF AnswerInv, Fresh
  <2>3. ASSUME NEW k, ReceivePlistPromise(k) PROVE promise'[t] = promise[t]
    BY <1>1, <2>2, <2>3 DEF TypeOK, ReceivePlistPromise, Tags
  <2>4. CASE \E k \in Operations : Request(k)
    BY <2>3, <2>4 DEF Request
  <2>5. CASE ConnectLockdown \/ FindDevice
    BY <2>3, <2>5 DEF ConnectLockdown, FindDevice
  <2>6. CASE \E u \in Tags : TimedOut(u)
    BY <1>1, <2>1, <2>6 DEF TypeOK, TimedOut
  <2>7. CASE \E n \in 1 .. Len(inbox) : \E k \in 0 .. n : SocketData(n, k)
    BY <1>1, <2>1, <2>7, SocketDataEffect DEF AnswerInv, CallbacksArePending
  <2>8. CASE Unshift \/ OwnerAttaches \/ SocketEnd \/ Close \/ ConnectLockdownFails \/ LockdownAttaches
    BY <2>8 DEF Unshift, OwnerAttaches, SocketEnd, Close, ConnectLockdownFails, LockdownAttaches,
                clientVars
  <2>9. CASE MuxReads \/ (\E u \in Tags, body \in Body : MuxAnswers(u, body)) \/ DeviceSends \/ MuxCloses
    BY <2>9 DEF MuxReads, MuxAnswers, DeviceSends, MuxCloses, clientVars
  <2>10. CASE UNCHANGED vars
    BY <2>10 DEF vars, clientVars
  <2>11. QED
    BY <1>1, <2>4, <2>5, <2>6, <2>7, <2>8, <2>9, <2>10 DEF Next
<1>2. IInv /\ [Next]_vars => [\A t \in Tags : promise[t] \in Settled => promise'[t] = promise[t]]_vars
  BY <1>1 DEF IInv
<1>3. QED
  BY Invariance, <1>2, PTL DEF Spec, SettledOnce


---------------------------------------------------------------------------
(* The refinement of MuxExchange: Exchange!kind is kind, and so are said,  *)
(* promise and sent; what the owner has got are the numbers of the pieces. *)

\* The client before any request is the abstract exchange before any request.
LEMMA InitImplements == Init => Exchange!Init
  BY DEF Init, Exchange!Init, Tunnelled

\* A request is a call of the specification, by the tag that it is given.
LEMMA RequestImplements ==
  ASSUME TypeOK, AnswerInv, NEW k \in Kind, ReceivePlistPromise(k), UNCHANGED <<said, sent, got>>
  PROVE  Exchange!Next
<1>1. tag \in Tags
  BY UsbmuxAssumption DEF TypeOK, ReceivePlistPromise, Tags
<1>2. kind[tag] = "unmade"
  <2>1. ~(tag < tag)
    BY DEF TypeOK
  <2>2. QED
    BY <1>1, <2>1 DEF AnswerInv, Fresh
<1>3. Exchange!Call(tag, k)
  BY <1>2 DEF ReceivePlistPromise, Exchange!Call, Kind
<1>4. QED
  BY <1>1, <1>3 DEF Exchange!Next, Kind

\* A read by the splitter settles the calls it has the answers of.
LEMMA SplitterImplements ==
  ASSUME TypeOK, AnswerInv, TunnelInv, NEW n \in 1 .. Len(inbox), NEW k \in 0 .. n, SocketData(n, k),
         "splitter" \in pipes
  PROVE  Exchange!Next \/ UNCHANGED Exchange!vars
<1> DEFINE C == {t \in responseCallbacks : \E i \in 1 .. k : inbox[i].type = "reply" /\ inbox[i].tag = t}
<1>1. "owner" \notin pipes
  BY DEF TunnelInv, Readers
<1>2. UNCHANGED <<kind, said, sent, got>>
  BY <1>1 DEF SocketData, daemonVars
<1>3. C \subseteq Tags
  BY DEF TypeOK
<1>4. \A t \in C : said[t] # "nothing" /\ promise'[t] = Outcome(kind[t], said[t]) /\ promise[t] = "pending"
  BY SocketDataEffect DEF AnswerInv, CallbacksArePending
<1>5. \A t \in Tags \ C : promise'[t] = promise[t]
  BY SocketDataEffect
<1>6. promise \in [Tags -> {"unmade", "pending"} \cup Settled] /\ promise' \in [Tags -> {"unmade", "pending"} \cup Settled]
  BY SocketDataType DEF TypeOK
<1> HIDE DEF C
<1>7. CASE C = {}
  <2>1. promise' = promise
    BY <1>5, <1>6, <1>7
  <2>2. QED
    BY <1>2, <2>1 DEF Exchange!vars
<1>8. CASE C # {}
  <2>1. promise' = [t \in Tags |-> IF t \in C THEN Outcome(kind[t], said[t]) ELSE promise[t]]
    BY <1>4, <1>5, <1>6
  <2>2. Exchange!Settle(C)
    BY <1>2, <1>4, <1>8, <2>1 DEF Exchange!Settle
  <2>3. QED
    BY <1>3, <2>2 DEF Exchange!Next
<1>9. QED
  BY <1>7, <1>8

\* A function on 1 .. n is a sequence of length n.
LEMMA FunctionIsSeq ==
  ASSUME NEW S, NEW n \in Nat, NEW f \in [1 .. n -> S]
  PROVE  f \in Seq(S) /\ Len(f) = n
<1>1. f \in Seq(S)
  OBVIOUS
<1>2. Len(f) \in Nat /\ DOMAIN f = 1 .. Len(f)
  BY <1>1, LenProperties
<1>3. 1 .. Len(f) = 1 .. n
  BY <1>2
<1> QED
  BY <1>1, <1>2, <1>3

\* A read by the owner of the socket gives it the next pieces.
LEMMA OwnerImplements ==
  ASSUME TypeOK, AnswerInv, TunnelInv, NEW n \in 1 .. Len(inbox), NEW k \in 0 .. n, SocketData(n, k),
         "splitter" \notin pipes
  PROVE  Exchange!Next
<1>1. k = 0 /\ leftover = <<>>
  BY DEF SocketData
<1>2. "owner" \in pipes /\ isShutdown
  BY DEF TypeOK, SocketData, TunnelInv, Readers
<1>3. promise \in [Tags -> {"unmade", "pending"} \cup Settled] /\ promise' \in [Tags -> {"unmade", "pending"} \cup Settled]
  BY SocketDataType DEF TypeOK
<1>4. UNCHANGED <<kind, said, sent, promise>>
  <2>1. \A t \in Tags : promise'[t] = promise[t]
    BY <1>1, SocketDataEffect
  <2>2. QED
    BY <1>3, <2>1 DEF SocketData, daemonVars
<1>5. got \in Seq(Item) /\ inbox \in Seq(Item) /\ sent \in Nat /\ Len(got) \in Nat /\ Len(inbox) \in Nat
  BY DEF TypeOK
<1>6. got \o inbox = [i \in 1 .. sent |-> Data(i)]
  <2>1. got \o leftover = got
    BY <1>1, <1>5, ConcatEmptySeq
  <2>2. QED
    BY <1>2, <2>1 DEF TunnelInv, TunnelIntact
<1>7. /\ Len(got) + Len(inbox) = sent
      /\ \A i \in 1 .. Len(got) : got[i] = Data(i)
      /\ \A i \in 1 .. Len(inbox) : inbox[i] = Data(Len(got) + i)
  <2>1. /\ Len(got \o inbox) = Len(got) + Len(inbox)
        /\ \A i \in 1 .. Len(got) + Len(inbox) :
              (got \o inbox)[i] = IF i <= Len(got) THEN got[i] ELSE inbox[i - Len(got)]
    BY <1>5, ConcatProperties
  <2>2. Len(got) + Len(inbox) = sent
    <3>1. [i \in 1 .. sent |-> Data(i)] \in [1 .. sent -> {Data(i) : i \in 1 .. sent}]
      OBVIOUS
    <3>2. Len(got \o inbox) = sent
      BY <1>5, <1>6, <3>1, FunctionIsSeq
    <3>3. QED
      BY <2>1, <3>2
  <2>3. \A i \in 1 .. sent : (got \o inbox)[i] = Data(i)
    BY <1>6
  <2>4. ASSUME NEW i \in 1 .. Len(got) PROVE got[i] = Data(i)
    BY <1>5, <2>1, <2>2, <2>3
  <2>5. ASSUME NEW i \in 1 .. Len(inbox) PROVE inbox[i] = Data(Len(got) + i)
    <3>1. Len(got) + i \in 1 .. sent /\ ~(Len(got) + i <= Len(got)) /\ Len(got) + i - Len(got) = i
      BY <1>5, <2>2
    <3>2. QED
      BY <2>1, <2>2, <2>3, <3>1
  <2>6. QED
    BY <2>2, <2>4, <2>5
<1>8. /\ got' = got \o SubSeq(inbox, 1, n)
      /\ Len(got') = Len(got) + n /\ got' \in Seq(Item)
      /\ \A i \in 1 .. Len(got) + n : got'[i] = Data(i)
  <2> DEFINE front == SubSeq(inbox, 1, n)
  <2>1. got' = got \o front
    BY <1>2 DEF SocketData
  <2>2. front \in Seq(Item) /\ Len(front) = n /\ \A i \in 1 .. n : front[i] = inbox[i]
    BY <1>5
  <2> HIDE DEF front
  <2>3. /\ got' \in Seq(Item) /\ Len(got') = Len(got) + n
        /\ \A i \in 1 .. Len(got) + n : got'[i] = IF i <= Len(got) THEN got[i] ELSE front[i - Len(got)]
    BY <1>5, <2>1, <2>2, ConcatProperties
  <2>4. ASSUME NEW i \in 1 .. Len(got) + n PROVE got'[i] = Data(i)
    <3>1. CASE i <= Len(got)
      BY <1>5, <1>7, <2>3, <3>1
    <3>2. CASE ~(i <= Len(got))
      <4>1. i - Len(got) \in 1 .. n /\ i - Len(got) \in 1 .. Len(inbox) /\ Len(got) + (i - Len(got)) = i
        BY <1>5, <3>2
      <4>2. QED
        BY <1>7, <2>2, <2>3, <3>2, <4>1
    <3>3. QED
      BY <3>1, <3>2
  <2>5. QED
    BY <2>1, <2>3, <2>4 DEF front
<1>9. \A i : Data(i).type = "data" /\ Data(i).n = i
  BY DEF Data
<1>10. Tunnelled(got') = [i \in 1 .. Len(got) + n |-> i]
  <2>1. DOMAIN got' = 1 .. Len(got) + n
    BY <1>8
  <2>2. QED
    BY <1>8, <1>9, <2>1 DEF Tunnelled
<1>11. Len(Tunnelled(got)) = Len(got)
  <2>1. DOMAIN got = 1 .. Len(got)
    BY <1>5
  <2>2. \A i \in 1 .. Len(got) : got[i].type = "data" /\ got[i].n = i
    BY <1>7, <1>9
  <2>3. Tunnelled(got) = [i \in 1 .. Len(got) |-> i]
    BY <2>1, <2>2 DEF Tunnelled
  <2>4. [i \in 1 .. Len(got) |-> i] \in [1 .. Len(got) -> Nat]
    OBVIOUS
  <2>5. QED
    BY <1>5, <2>3, <2>4, FunctionIsSeq
<1>12. Exchange!HandedOver
  BY <1>2 DEF TunnelInv, ShutdownIffHandedOver, Exchange!HandedOver
<1>13. Exchange!OwnerReads(n) /\ n \in 1 .. sent
  BY <1>4, <1>5, <1>7, <1>10, <1>11, <1>12 DEF Exchange!OwnerReads
<1>14. QED
  BY <1>13 DEF Exchange!Next

\* Every step is one of the specification, or changes nothing that it speaks of.
LEMMA StepImplements ==
  ASSUME IInv, [Next]_vars
  PROVE  [Exchange!Next]_Exchange!vars
<1> USE DEF clientVars, streamVars, daemonVars
<1>0. TypeOK /\ AnswerInv /\ TunnelInv
  BY DEF IInv
<1>1. ASSUME NEW k \in Operations, Request(k) PROVE Exchange!Next
  BY <1>0, <1>1, UsbmuxAssumption, RequestImplements DEF Request
<1>2. CASE ConnectLockdown
  BY <1>0, <1>2, RequestImplements DEF ConnectLockdown, Kind
<1>3. CASE FindDevice
  BY <1>0, <1>3, RequestImplements DEF FindDevice, Kind
<1>4. ASSUME NEW t \in Tags, TimedOut(t) PROVE Exchange!Next
  <2>1. Exchange!GiveUp(t)
    BY <1>4 DEF TimedOut, Exchange!GiveUp
  <2>2. QED
    BY <2>1 DEF Exchange!Next
<1>5. ASSUME NEW n \in 1 .. Len(inbox), NEW k \in 0 .. n, SocketData(n, k) PROVE [Exchange!Next]_Exchange!vars
  BY <1>0, <1>5, SplitterImplements, OwnerImplements
<1>6. ASSUME NEW t \in Tags, NEW body \in Body, MuxAnswers(t, body) PROVE Exchange!Next
  <2>1. kind[t] # "unmade" /\ said[t] = "nothing"
    BY <1>0, <1>6 DEF MuxAnswers, AnswerInv, InFlight, Fresh
  <2>2. Exchange!Answer(t, body)
    BY <1>6, <2>1 DEF MuxAnswers, Exchange!Answer
  <2>3. QED
    BY <2>2 DEF Exchange!Next, Body
<1>7. CASE DeviceSends
  <2>1. \E t \in Tags : Outcome(kind[t], said[t]) = "socket"
    BY <1>0, <1>7 DEF DeviceSends, TunnelInv, OneAccepted, Accepted
  <2>2. Exchange!DeviceSends
    BY <1>7, <2>1 DEF DeviceSends, Exchange!DeviceSends
  <2>3. QED
    BY <2>2 DEF Exchange!Next
<1>8. CASE \/ Unshift \/ OwnerAttaches \/ SocketEnd \/ Close \/ ConnectLockdownFails \/ LockdownAttaches
           \/ MuxReads \/ MuxCloses \/ UNCHANGED vars
  <2>1. UNCHANGED <<kind, said, promise, sent, got>>
    BY <1>8 DEF Unshift, OwnerAttaches, SocketEnd, Close, ConnectLockdownFails, LockdownAttaches, MuxReads,
                MuxCloses, vars
  <2>2. QED
    BY <2>1 DEF Exchange!vars
<1>9. QED
  BY <1>1, <1>2, <1>3, <1>4, <1>5, <1>6, <1>7, <1>8 DEF Next

\* The client does what MuxExchange promises: whatever chunks, tags, timers and callbacks
\* it works with, a caller sees an exchange of calls and answers and then a tunnel.
THEOREM ExchangeImplemented == Spec => ImplementsExchange
<1>1. IInv /\ [Next]_vars => [Exchange!Next]_Exchange!vars
  BY StepImplements
<1>2. QED
  BY InitImplements, Invariance, <1>1, PTL DEF Spec, Exchange!Spec, ImplementsExchange
==========================================================================
