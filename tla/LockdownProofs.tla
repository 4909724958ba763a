--------------------------- MODULE LockdownProofs ---------------------------
(***************************************************************************)
(* Theorems about module Lockdown, for any operations and any number of    *)
(* requests.                                                               *)
(***************************************************************************)
EXTENDS Lockdown, SequenceTheorems, TLAPS

---------------------------------------------------------------------------
(* The inductive invariant.                                                *)

Note == [tag : Tags, secure : BOOLEAN]

TypeOK ==
  /\ calls \in Seq(Kind) /\ Len(calls) <= MaxRequests
  /\ promise \in [Tags -> {"unmade", "pending", "value", "unexpected", "timedOut"}]
  /\ taken \in [Tags -> Tags \cup {0}]
  /\ replyQueue \in Seq(Tags)
  /\ secure \in BOOLEAN /\ decoderPipes = (IF secure THEN 2 ELSE 1)
  /\ upgradedAt \in 0 .. Len(calls)
  /\ encoderPiped \in BOOLEAN /\ closing \in BOOLEAN /\ overlapped \in BOOLEAN
  /\ toDevice \in Seq(Note) /\ wire \in Seq(Note)
  /\ said \in [Tags -> {"nothing", "value", "error"}]
  /\ device \in {"plain", "tls", "confused", "gone"}

\* What a call has to show for the state it is in.
CallsAccounted ==
  \A t \in Tags :
    /\ promise[t] = "unmade" <=> t > Len(calls)
    /\ promise[t] \in {"unmade", "pending"} => taken[t] = 0
    /\ promise[t] \in {"value", "unexpected"} => taken[t] # 0

\* Requests and replies are on their way in the order of the calls, and lockdownd has
\* said nothing to what it has not read.
InOrder ==
  /\ \A i, j \in DOMAIN toDevice : i < j => toDevice[i].tag < toDevice[j].tag
  /\ \A i, j \in DOMAIN wire : i < j => wire[i].tag < wire[j].tag
  /\ \A i \in DOMAIN wire, j \in DOMAIN toDevice : wire[i].tag < toDevice[j].tag
  /\ \A i \in DOMAIN wire : wire[i].tag <= Len(calls)
  /\ \A j \in DOMAIN toDevice : toDevice[j].tag <= Len(calls) /\ said[toDevice[j].tag] = "nothing"
  /\ \A t \in Tags : t > Len(calls) => said[t] = "nothing"

\* Before TLS the decoder queues every reply once, so that the queue goes on in that
\* order, and what was taken comes before it.
QueuedInOrder ==
  ~secure =>
    /\ \A i, j \in DOMAIN replyQueue : i < j => replyQueue[i] < replyQueue[j]
    /\ \A i \in DOMAIN replyQueue :
         /\ \A j \in DOMAIN wire : replyQueue[i] < wire[j].tag
         /\ \A j \in DOMAIN toDevice : replyQueue[i] < toDevice[j].tag
         /\ replyQueue[i] <= Len(calls)
    /\ \A t \in Tags :
         /\ \A i \in DOMAIN replyQueue : taken[t] < replyQueue[i]
         /\ \A j \in DOMAIN wire : taken[t] < wire[j].tag
         /\ \A j \in DOMAIN toDevice : taken[t] < toDevice[j].tag
         /\ taken[t] <= Len(calls)
    /\ \A t, u \in Tags : t # u /\ taken[t] # 0 => taken[t] # taken[u]

\* The call whose answer takes lockdownd to TLS.
Switches(r) == r <= Len(calls) /\ calls[r] = "StartSession" /\ said[r] = "value"

\* From that answer on lockdownd speaks TLS, so that it is the last one in the clear;
\* the client follows it when it has taken that answer, and writes in TLS from then on.
SwitchKnown ==
  /\ \A r \in Tags : Switches(r) => device # "plain"
  /\ device = "tls" => \E r \in Tags : Switches(r)
  /\ secure => device # "plain"
  /\ ~secure =>
       /\ \A i \in DOMAIN toDevice : ~toDevice[i].secure
       /\ \A r \in Tags : Switches(r) =>
            \A i \in DOMAIN wire : wire[i].tag <= r
       /\ \A t \in Tags : t <= Len(calls) /\ calls[t] = "StartSession" /\ taken[t] # 0 =>
            (promise[t] = "value" <=> Switches(taken[t]))

\* What is on its way, wherever it is, answers call t.
AllFor(t) ==
  /\ \A i \in DOMAIN replyQueue : replyQueue[i] = t
  /\ \A i \in DOMAIN wire : wire[i].tag = t
  /\ \A i \in DOMAIN toDevice : toDevice[i].tag = t

NothingUnderWay == replyQueue = <<>> /\ wire = <<>> /\ toDevice = <<>>

\* Calls made one after the other: only the last one waits, what is on its way is for
\* it, and nothing is left when it is through; with the first call after the upgrade
\* come the replies that are decoded twice.
OneAfterTheOther ==
  Undisturbed =>
    /\ \A t \in Tags : promise[t] = "pending" => t = Len(calls)
    /\ \A t \in Tags : taken[t] # 0 /\ (secure => t <= upgradedAt + 1) => taken[t] = t
    /\ ~secure =>
         /\ AllFor(Len(calls))
         /\ NothingUnderWay \/ promise[Len(calls)] = "pending"
         /\ \A r \in Tags : Switches(r) => r = Len(calls) /\ toDevice = <<>>
    /\ secure =>
         /\ \A i \in DOMAIN toDevice : toDevice[i].secure
         /\ Len(calls) = upgradedAt => NothingUnderWay /\ Pending = {}
         /\ Len(calls) = upgradedAt + 1 => AllFor(Len(calls))

IInv ==
  /\ TypeOK /\ CallsAccounted /\ InOrder /\ QueuedInOrder /\ SwitchKnown /\ LayersAgree
  /\ OneAfterTheOther

---------------------------------------------------------------------------
(* Queues and outcomes.                                                    *)

\* What is left of a non-empty sequence after its head.
LEMMA TailElements ==
  ASSUME NEW S, NEW s \in Seq(S), s # <<>>
  PROVE  /\ Head(s) = s[1] /\ Head(s) \in S /\ 1 \in DOMAIN s
         /\ Tail(s) \in Seq(S) /\ DOMAIN Tail(s) = 1 .. Len(s) - 1
         /\ \A i \in DOMAIN Tail(s) : i \in Nat \ {0} /\ i + 1 \in DOMAIN s /\ Tail(s)[i] = s[i + 1]
  BY HeadTailProperties

\* What a sequence holds after one element is appended.
LEMMA AppendElements ==
  ASSUME NEW S, NEW s \in Seq(S), NEW e \in S
  PROVE  /\ Append(s, e) \in Seq(S) /\ Append(s, e) # <<>>
         /\ \A i \in DOMAIN s : i \in DOMAIN Append(s, e) /\ Append(s, e)[i] = s[i] /\ i < Len(s) + 1
         /\ Append(s, e)[Len(s) + 1] = e /\ Len(s) + 1 \in DOMAIN Append(s, e)
         /\ \A i \in DOMAIN Append(s, e) : i \in DOMAIN s \/ i = Len(s) + 1
  BY AppendProperties

\* A call ends with a value or an error, and startSession with a value only by the
\* answer to one that let lockdownd go to TLS.
LEMMA OutcomeOf ==
  ASSUME NEW k \in Kind, NEW r \in Tags
  PROVE  /\ Outcome(k, r) \in {"value", "unexpected"}
         /\ k = "StartSession" =>
              (Outcome(k, r) = "value" <=> calls[r] = "StartSession" /\ said[r] = "value")
<1>1. Outcome("StartSession", r) = IF SameRequest("StartSession", r) THEN "value" ELSE "unexpected"
  BY DEF Outcome
<1>2. Outcome("QueryType", r) = IF SameRequest("QueryType", r) THEN "value" ELSE "unexpected"
  BY DEF Outcome
<1>3. Outcome("GetValue", r) = GetValueOutcome(r) /\ Outcome("StartService", r) = StartServiceOutcome(r)
  BY DEF Outcome
<1>4. QED
  BY <1>1, <1>2, <1>3 DEF Kind, GetValueOutcome, StartServiceOutcome, SameRequest

\* A read queues the replies it has read, before TLS each of them once.
LEMMA DecodedElements ==
  ASSUME TypeOK, NEW n \in 1 .. Len(wire)
  PROVE  /\ Decoded(n) \in Seq(Tags)
         /\ \A i \in DOMAIN Decoded(n) : \E k \in 1 .. n : Decoded(n)[i] = wire[k].tag
         /\ ~secure => Len(Decoded(n)) = n /\ \A i \in 1 .. n : Decoded(n)[i] = wire[i].tag
<1>1. n \in Nat /\ \A k \in 1 .. n : k \in DOMAIN wire /\ wire[k].tag \in Tags
  <2>1. wire \in Seq(Note)
    BY DEF TypeOK
  <2>2. \A k \in DOMAIN wire : wire[k] \in Note
    BY <2>1
  <2>3. n \in Nat /\ \A k \in 1 .. n : k \in DOMAIN wire
    BY <2>1
  <2>4. QED
    BY <2>2, <2>3 DEF Note
<1>2. CASE ~secure
  <2>1. Decoded(n) = [i \in 1 .. n |-> wire[i].tag]
    BY <1>2 DEF Decoded, TypeOK
  <2>2. Decoded(n) \in Seq(Tags)
    BY <1>1, <2>1
  <2>3. QED
    BY <1>1, <2>1, <2>2
<1>3. CASE secure
  <2>1. Decoded(n) = [i \in 1 .. 2 * n |-> wire[(i + 1) \div 2].tag]
    BY <1>3 DEF Decoded, TypeOK
  <2>2. \A i \in 1 .. 2 * n : (i + 1) \div 2 \in 1 .. n
    BY <1>1
  <2>3. \A i \in 1 .. 2 * n : wire[(i + 1) \div 2].tag \in Tags
    BY <1>1, <2>2
  <2>4. Decoded(n) \in Seq(Tags) /\ DOMAIN Decoded(n) = 1 .. 2 * n
    BY <1>1, <2>1, <2>3
  <2>5. QED
    BY <1>3, <2>1, <2>2, <2>4
<1>4. QED
  BY <1>2, <1>3

\* What the steps do to the replies: SocketData moves some, Take takes the first.
LEMMA ReadElements ==
  ASSUME TypeOK, NEW n \in 1 .. Len(wire), SocketData(n)
  PROVE  /\ replyQueue' \in Seq(Tags) /\ wire' \in Seq(Note)
         /\ \A i \in DOMAIN wire' : i \in Nat \ {0} /\ n + i \in DOMAIN wire /\ wire'[i] = wire[n + i]
         /\ \A i \in DOMAIN replyQueue' :
              \/ i \in DOMAIN replyQueue /\ replyQueue'[i] = replyQueue[i]
              \/ \E k \in 1 .. n :
                   /\ k \in DOMAIN wire /\ replyQueue'[i] = wire[k].tag
                   /\ ~secure => i = Len(replyQueue) + k
<1>1. replyQueue \in Seq(Tags) /\ wire \in Seq(Note) /\ Decoded(n) \in Seq(Tags)
  BY DecodedElements DEF TypeOK
<1>2. replyQueue' = replyQueue \o Decoded(n) /\ wire' = SubSeq(wire, n + 1, Len(wire))
  BY DEF SocketData
<1>3. /\ replyQueue' \in Seq(Tags)
      /\ Len(replyQueue') = Len(replyQueue) + Len(Decoded(n))
      /\ \A i \in 1 .. Len(replyQueue) + Len(Decoded(n)) :
           replyQueue'[i] = IF i <= Len(replyQueue) THEN replyQueue[i] ELSE Decoded(n)[i - Len(replyQueue)]
  BY <1>1, <1>2, ConcatProperties
<1>4. /\ wire' \in Seq(Note)
      /\ \A i \in DOMAIN wire' : i \in Nat \ {0} /\ n + i \in DOMAIN wire /\ wire'[i] = wire[n + i]
  BY <1>1, <1>2, SubSeqProperties
<1>5. ASSUME NEW i \in DOMAIN replyQueue', i \notin DOMAIN replyQueue
      PROVE  \E k \in 1 .. n :
               /\ k \in DOMAIN wire /\ replyQueue'[i] = wire[k].tag
               /\ ~secure => i = Len(replyQueue) + k
  <2> DEFINE j == i - Len(replyQueue)
  <2>1. /\ j \in DOMAIN Decoded(n) /\ replyQueue'[i] = Decoded(n)[j] /\ i = Len(replyQueue) + j
        /\ j \in 1 .. Len(Decoded(n))
    BY <1>1, <1>3, <1>5
  <2>2. \A k \in 1 .. n : k \in DOMAIN wire
    BY <1>1
  <2> HIDE DEF j
  <2>3. CASE secure
    BY <2>1, <2>2, <2>3, DecodedElements
  <2>4. CASE ~secure
    <3>1. j \in 1 .. n /\ Decoded(n)[j] = wire[j].tag
      BY <2>1, <2>4, DecodedElements
    <3>2. QED
      BY <2>1, <2>2, <3>1
  <2>5. QED
    BY <2>3, <2>4
<1>6. \A i \in DOMAIN replyQueue' : i \in DOMAIN replyQueue => replyQueue'[i] = replyQueue[i]
  BY <1>1, <1>3
<1>7. QED
  BY <1>3, <1>4, <1>5, <1>6

\* A call that takes a reply takes the head of the queue.
LEMMA TakeEffect ==
  ASSUME TypeOK, NEW t \in Tags, NEW k \in Kind, replyQueue # <<>>, Take(t, k)
  PROVE  /\ taken' \in [Tags -> Tags \cup {0}] /\ taken'[t] = replyQueue[1]
         /\ 1 \in DOMAIN replyQueue /\ replyQueue[1] \in Tags
         /\ promise' \in [Tags -> {"unmade", "pending", "value", "unexpected", "timedOut"}]
         /\ promise'[t] \in {"value", "unexpected"}
         /\ k = "StartSession" =>
              (promise'[t] = "value" <=> calls[replyQueue[1]] = "StartSession" /\ said[replyQueue[1]] = "value")
         /\ \A u \in Tags \ {t} : taken'[u] = taken[u] /\ promise'[u] = promise[u]
         /\ replyQueue' \in Seq(Tags)
         /\ \A i \in DOMAIN replyQueue' : i \in Nat \ {0} /\ i + 1 \in DOMAIN replyQueue /\ replyQueue'[i] = replyQueue[i + 1]
<1>1. replyQueue \in Seq(Tags)
  BY DEF TypeOK
<1>2. /\ Head(replyQueue) = replyQueue[1] /\ 1 \in DOMAIN replyQueue /\ replyQueue[1] \in Tags
      /\ replyQueue' \in Seq(Tags)
      /\ \A i \in DOMAIN replyQueue' : i \in Nat \ {0} /\ i + 1 \in DOMAIN replyQueue /\ replyQueue'[i] = replyQueue[i + 1]
  BY <1>1, TailElements DEF Take
<1>3. Outcome(k, replyQueue[1]) \in {"value", "unexpected"}
  BY <1>2, OutcomeOf
<1>4. k = "StartSession" =>
        (Outcome(k, replyQueue[1]) = "value" <=> calls[replyQueue[1]] = "StartSession" /\ said[replyQueue[1]] = "value")
  BY <1>2, OutcomeOf
<1>5. /\ taken' = [taken EXCEPT ![t] = replyQueue[1]]
      /\ promise' = [promise EXCEPT ![t] = Outcome(k, replyQueue[1])]
  BY <1>2 DEF Take
<1>6. QED
  BY <1>2, <1>3, <1>4, <1>5 DEF TypeOK

\* What a call does up to its first await.
LEMMA RequestEffect ==
  ASSUME TypeOK, NEW k \in Operations, Request(k)
  PROVE  LET t == Len(calls) + 1
         IN  /\ t \in Tags /\ k \in Kind
             /\ calls' \in Seq(Kind) /\ Len(calls') = t /\ calls'[t] = k
             /\ \A u \in 1 .. Len(calls) : calls'[u] = calls[u]
             /\ toDevice' \in Seq(Note)
             /\ \/ toDevice' = toDevice
                \/ /\ \A i \in DOMAIN toDevice' :
                        \/ i \in DOMAIN toDevice /\ toDevice'[i] = toDevice[i] /\ i < Len(toDevice) + 1
                        \/ i = Len(toDevice) + 1 /\ toDevice'[i] = [tag |-> t, secure |-> secure]
             /\ \/ replyQueue # <<>> /\ Take(t, k)
                \/ /\ replyQueue = <<>>
                   /\ promise' = [promise EXCEPT ![t] = "pending"]
                   /\ UNCHANGED <<taken, replyQueue>>
             /\ overlapped' = (overlapped \/ Pending # {} \/ UpgradeDue)
             /\ UNCHANGED <<streamVars, wire, deviceVars>>
<1> DEFINE t == Len(calls) + 1
           m == [tag |-> t, secure |-> secure]
<1>1. calls \in Seq(Kind) /\ toDevice \in Seq(Note) /\ Len(calls) \in Nat /\ secure \in BOOLEAN
  BY DEF TypeOK
<1>2. t \in Tags /\ k \in Kind /\ m \in Note
  BY <1>1, LockdownAssumption DEF Request, Tags, Note
<1>3. /\ calls' \in Seq(Kind) /\ Len(calls') = t /\ calls'[t] = k
      /\ \A u \in 1 .. Len(calls) : calls'[u] = calls[u]
  BY <1>1, <1>2, AppendProperties DEF Request
<1>4. \/ toDevice' = toDevice
      \/ toDevice' = Append(toDevice, m)
  BY DEF Request, SendPlist
<1>5. /\ Append(toDevice, m) \in Seq(Note)
      /\ \A i \in DOMAIN Append(toDevice, m) :
           \/ i \in DOMAIN toDevice /\ Append(toDevice, m)[i] = toDevice[i] /\ i < Len(toDevice) + 1
           \/ i = Len(toDevice) + 1 /\ Append(toDevice, m)[i] = m
  BY <1>1, <1>2, AppendElements
<1>6. /\ \/ replyQueue # <<>> /\ Take(t, k)
         \/ /\ replyQueue = <<>>
            /\ promise' = [promise EXCEPT ![t] = "pending"]
            /\ UNCHANGED <<taken, replyQueue>>
      /\ overlapped' = (overlapped \/ Pending # {} \/ UpgradeDue)
      /\ UNCHANGED <<streamVars, wire, deviceVars>>
  BY DEF Request
<1> HIDE DEF m, t
<1>7. /\ toDevice' \in Seq(Note)
      /\ \/ toDevice' = toDevice
         \/ \A i \in DOMAIN toDevice' :
              \/ i \in DOMAIN toDevice /\ toDevice'[i] = toDevice[i] /\ i < Len(toDevice) + 1
              \/ i = Len(toDevice) + 1 /\ toDevice'[i] = m
  BY <1>1, <1>4, <1>5
<1>8. QED
  BY <1>2, <1>3, <1>6, <1>7 DEF t, m

\* What lockdownd's answer does.
LEMMA AnswerEffect ==
  ASSUME TypeOK, NEW body \in {"value", "error"}, DeviceAnswers(body)
  PROVE  /\ 1 \in DOMAIN toDevice /\ toDevice[1] \in Note
         /\ device = IF toDevice[1].secure THEN "tls" ELSE "plain"
         /\ toDevice' \in Seq(Note) /\ wire' \in Seq(Note)
         /\ \A i \in DOMAIN toDevice' : i \in Nat \ {0} /\ i + 1 \in DOMAIN toDevice /\ toDevice'[i] = toDevice[i + 1]
         /\ \A i \in DOMAIN wire' :
              \/ i \in DOMAIN wire /\ wire'[i] = wire[i] /\ i < Len(wire) + 1
              \/ i = Len(wire) + 1 /\ wire'[i] = toDevice[1]
         /\ said' \in [Tags -> {"nothing", "value", "error"}] /\ said'[toDevice[1].tag] = body
         /\ \A u \in Tags \ {toDevice[1].tag} : said'[u] = said[u]
         /\ device' = IF calls[toDevice[1].tag] = "StartSession" /\ body = "value" THEN "tls" ELSE device
         /\ UNCHANGED <<callVars, replyQueue, streamVars>>
<1>1. toDevice \in Seq(Note) /\ wire \in Seq(Note) /\ said \in [Tags -> {"nothing", "value", "error"}]
  BY DEF TypeOK
<1>2. toDevice # <<>>
  BY DEF DeviceAnswers
<1>3. /\ Head(toDevice) = toDevice[1] /\ 1 \in DOMAIN toDevice /\ toDevice[1] \in Note
      /\ toDevice' \in Seq(Note)
      /\ \A i \in DOMAIN toDevice' : i \in Nat \ {0} /\ i + 1 \in DOMAIN toDevice /\ toDevice'[i] = toDevice[i + 1]
  BY <1>1, <1>2, TailElements DEF DeviceAnswers
<1>4. wire' = Append(wire, toDevice[1])
  BY <1>3 DEF DeviceAnswers
<1>5. /\ wire' \in Seq(Note)
      /\ \A i \in DOMAIN wire' :
              \/ i \in DOMAIN wire /\ wire'[i] = wire[i] /\ i < Len(wire) + 1
              \/ i = Len(wire) + 1 /\ wire'[i] = toDevice[1]
  BY <1>1, <1>3, <1>4, AppendElements
<1>6. said' = [said EXCEPT ![toDevice[1].tag] = body] /\ toDevice[1].tag \in Tags
  BY <1>3 DEF DeviceAnswers, Note
<1>7. /\ device = IF toDevice[1].secure THEN "tls" ELSE "plain"
      /\ device' = IF calls[toDevice[1].tag] = "StartSession" /\ body = "value" THEN "tls" ELSE device
      /\ UNCHANGED <<callVars, replyQueue, streamVars>>
  BY <1>3 DEF DeviceAnswers
<1>8. QED
  BY <1>1, <1>3, <1>5, <1>6, <1>7

\* A call that waits, or was answered, was made.
LEMMA MadeCalls ==
  ASSUME TypeOK, CallsAccounted, NEW t \in Tags, promise[t] # "unmade"
  PROVE  t \in 1 .. Len(calls) /\ calls[t] \in Kind
<1>1. t <= Len(calls) /\ Len(calls) \in Nat /\ calls \in Seq(Kind) /\ t \in Nat /\ t >= 1
  BY DEF CallsAccounted, TypeOK, Tags
<1>2. QED
  BY <1>1

---------------------------------------------------------------------------
(* Type correctness, and what calls account for.                           *)

\* Each step of lockdown preserves the types.
LEMMA TypeStep == TypeOK /\ CallsAccounted /\ [Next]_vars => TypeOK'
<1> SUFFICES ASSUME TypeOK, CallsAccounted, [Next]_vars
             PROVE  TypeOK'
  OBVIOUS
<1>1. ASSUME NEW k \in Operations, Request(k) PROVE TypeOK'
  <2>1. /\ Len(calls) + 1 \in Tags /\ k \in Kind /\ calls' \in Seq(Kind) /\ Len(calls') = Len(calls) + 1
        /\ toDevice' \in Seq(Note) /\ overlapped' = (overlapped \/ Pending # {} \/ UpgradeDue)
        /\ UNCHANGED <<streamVars, wire, deviceVars>>
    BY <1>1, RequestEffect
  <2>2. /\ promise' \in [Tags -> {"unmade", "pending", "value", "unexpected", "timedOut"}]
        /\ taken' \in [Tags -> Tags \cup {0}] /\ replyQueue' \in Seq(Tags)
    <3>1. CASE replyQueue # <<>> /\ Take(Len(calls) + 1, k)
      BY <2>1, <3>1, TakeEffect
    <3>2. CASE /\ promise' = [promise EXCEPT ![Len(calls) + 1] = "pending"]
               /\ UNCHANGED <<taken, replyQueue>>
      BY <2>1, <3>2 DEF TypeOK
    <3>3. QED
      BY <1>1, <3>1, <3>2, RequestEffect
  <2>3. Len(calls) \in Nat /\ Len(calls') <= MaxRequests
    BY <2>1, LockdownAssumption DEF Tags, TypeOK
  <2>4. QED
    BY <2>1, <2>2, <2>3 DEF TypeOK, streamVars, deviceVars
<1>2. ASSUME NEW t \in Tags, Poll(t) PROVE TypeOK'
  <2>1. calls[t] \in Kind
    BY <1>2, MadeCalls DEF Poll
  <2>2. replyQueue # <<>> /\ Take(t, calls[t])
    BY <1>2 DEF Poll
  <2>3. /\ promise' \in [Tags -> {"unmade", "pending", "value", "unexpected", "timedOut"}]
        /\ taken' \in [Tags -> Tags \cup {0}] /\ replyQueue' \in Seq(Tags)
    BY <2>1, <2>2, TakeEffect
  <2>4. UNCHANGED <<calls, overlapped, streamVars, toDevice, wire, deviceVars>>
    BY <1>2 DEF Poll
  <2>5. QED
    BY <2>3, <2>4 DEF TypeOK, streamVars, deviceVars
<1>3. ASSUME NEW t \in Tags, TimedOut(t) PROVE TypeOK'
  BY <1>3 DEF TimedOut, TypeOK, streamVars, deviceVars
<1>4. ASSUME NEW n \in 1 .. Len(wire), SocketData(n) PROVE TypeOK'
  BY <1>4, ReadElements DEF SocketData, TypeOK, callVars, streamVars, deviceVars
<1>5. CASE EnableSessionSSL
  BY <1>5 DEF EnableSessionSSL, UpgradeDue, TypeOK, callVars, deviceVars
<1>6. CASE Close
  BY <1>6 DEF Close, TypeOK, callVars, deviceVars
<1>10. CASE SocketEnd
  BY <1>10 DEF SocketEnd, TypeOK, callVars, deviceVars
<1>7. ASSUME NEW body \in {"value", "error"}, DeviceAnswers(body) PROVE TypeOK'
  BY <1>7, AnswerEffect DEF TypeOK, callVars, streamVars
<1>8. CASE DeviceConfused \/ DeviceCloses
  BY <1>8 DEF DeviceConfused, DeviceCloses, TypeOK, callVars, streamVars
<1>9. CASE UNCHANGED vars
  BY <1>9 DEF vars, TypeOK, callVars, streamVars, deviceVars
<1>11. QED
  BY <1>1, <1>2, <1>3, <1>4, <1>5, <1>6, <1>7, <1>8, <1>9, <1>10 DEF Next


\* A promise is made with its call, and holds an answer just when it was fulfilled.
LEMMA CallsAccountedStep == TypeOK /\ CallsAccounted /\ [Next]_vars => CallsAccounted'
<1> SUFFICES ASSUME TypeOK, CallsAccounted, [Next]_vars
             PROVE  CallsAccounted'
  OBVIOUS
<1>0. Len(calls) \in Nat
  BY DEF TypeOK
<1>1. ASSUME NEW k \in Operations, Request(k) PROVE CallsAccounted'
  <2> DEFINE t == Len(calls) + 1
  <2>1. t \in Tags /\ k \in Kind /\ Len(calls') = t
    BY <1>1, RequestEffect
  <2>2. promise[t] = "unmade" /\ taken[t] = 0
    BY <1>0, <2>1 DEF CallsAccounted
  <2>3. /\ \A u \in Tags \ {t} : promise'[u] = promise[u] /\ taken'[u] = taken[u]
        /\ promise'[t] # "unmade"
        /\ promise'[t] = "pending" => taken'[t] = 0
        /\ promise'[t] \in {"value", "unexpected"} => taken'[t] # 0
    <3>1. CASE replyQueue # <<>> /\ Take(t, k)
      <4>1. 0 \notin Tags
        BY DEF Tags
      <4>2. QED
        BY <2>1, <3>1, <4>1, TakeEffect
    <3>2. CASE /\ promise' = [promise EXCEPT ![t] = "pending"]
               /\ UNCHANGED <<taken, replyQueue>>
      BY <2>1, <2>2, <3>2 DEF TypeOK
    <3>3. QED
      BY <1>1, <3>1, <3>2, RequestEffect
  <2>4. \A u \in Tags \ {t} : u > Len(calls') <=> u > Len(calls)
    BY <1>0, <2>1 DEF Tags
  <2> HIDE DEF t
  <2>5. ~(t > Len(calls'))
    BY <1>0, <2>1 DEF t
  <2>6. QED
    BY <2>2, <2>3, <2>4, <2>5 DEF CallsAccounted
<1>2. ASSUME NEW t \in Tags, Poll(t) PROVE CallsAccounted'
  <2>1. calls[t] \in Kind /\ replyQueue # <<>> /\ Take(t, calls[t]) /\ promise[t] = "pending" /\ UNCHANGED calls
    BY <1>2, MadeCalls DEF Poll
  <2>2. 0 \notin Tags
    BY DEF Tags
  <2>3. /\ \A u \in Tags \ {t} : promise'[u] = promise[u] /\ taken'[u] = taken[u]
        /\ promise'[t] \in {"value", "unexpected"} /\ taken'[t] # 0
    BY <2>1, <2>2, TakeEffect
  <2>4. QED
    BY <2>1, <2>3 DEF CallsAccounted
<1>3. ASSUME NEW t \in Tags, TimedOut(t) PROVE CallsAccounted'
  <2>1. \A u \in Tags \ {t} : promise'[u] = promise[u]
    BY <1>3 DEF TimedOut, TypeOK
  <2>2. promise[t] = "pending" /\ promise'[t] = "timedOut" /\ UNCHANGED <<calls, taken>>
    BY <1>3 DEF TimedOut, TypeOK
  <2>3. QED
    BY <2>1, <2>2 DEF CallsAccounted
<1>4. CASE UNCHANGED <<calls, promise, taken>>
  BY <1>4 DEF CallsAccounted
<1>5. QED
  BY <1>1, <1>2, <1>3, <1>4 DEF Next, SocketData, EnableSessionSSL, Close, SocketEnd, DeviceAnswers,
     DeviceConfused, DeviceCloses, vars, callVars

---------------------------------------------------------------------------
(* The order of the replies.                                               *)

\* The replies stay in the order of the requests.
LEMMA InOrderStep == TypeOK /\ CallsAccounted /\ InOrder /\ [Next]_vars => InOrder'
<1> SUFFICES ASSUME TypeOK, CallsAccounted, InOrder, [Next]_vars
             PROVE  InOrder'
  OBVIOUS
<1>0. /\ Len(calls) \in Nat
      /\ toDevice \in Seq(Note) /\ wire \in Seq(Note)
      /\ \A i \in DOMAIN toDevice : toDevice[i] \in Note /\ toDevice[i].tag \in Tags /\ i \in Nat
      /\ \A i \in DOMAIN wire : wire[i] \in Note /\ wire[i].tag \in Tags /\ i \in Nat
      /\ \A u \in Tags : u \in Nat \ {0}
  <2>1. toDevice \in Seq(Note) /\ wire \in Seq(Note) /\ Len(calls) \in Nat
    BY DEF TypeOK
  <2>2. /\ \A i \in DOMAIN toDevice : toDevice[i] \in Note /\ i \in Nat
        /\ \A i \in DOMAIN wire : wire[i] \in Note /\ i \in Nat
    BY <2>1
  <2>3. QED
    BY <2>1, <2>2 DEF Note, Tags
<1>1. ASSUME NEW k \in Operations, Request(k) PROVE InOrder'
  <2> DEFINE t == Len(calls) + 1
             m == [tag |-> t, secure |-> secure]
  <2>1. /\ t \in Tags /\ Len(calls') = t /\ wire' = wire /\ said' = said
        /\ \/ toDevice' = toDevice
           \/ \A i \in DOMAIN toDevice' :
                \/ i \in DOMAIN toDevice /\ toDevice'[i] = toDevice[i] /\ i < Len(toDevice) + 1
                \/ i = Len(toDevice) + 1 /\ toDevice'[i] = m
    BY <1>1, RequestEffect DEF deviceVars
  <2>2. /\ \A i \in DOMAIN toDevice : toDevice[i].tag < t
        /\ \A i \in DOMAIN wire : wire[i].tag < t
        /\ said[t] = "nothing" /\ m.tag = t
        /\ \A i \in DOMAIN toDevice : i < Len(toDevice) + 1
    <3>1. \A u \in Nat : u <= Len(calls) => u < t
      BY <1>0
    <3>2. t > Len(calls) /\ m.tag = t
      BY <1>0
    <3> HIDE DEF t, m
    <3>3. \A i \in DOMAIN toDevice : i < Len(toDevice) + 1
      BY <1>0
    <3>4. QED
      BY <1>0, <2>1, <3>1, <3>2, <3>3 DEF InOrder
  <2>3. \A u \in Tags : u > Len(calls') => u > Len(calls)
    BY <1>0, <2>1 DEF Tags
  <2>7. \A u \in Nat : u <= Len(calls) => u <= t
    BY <1>0
  <2>8. t \in Nat /\ t <= t
    BY <1>0
  <2> HIDE DEF m, t
  <2>4. CASE toDevice' = toDevice
    BY <1>0, <2>1, <2>2, <2>3, <2>4, <2>7 DEF InOrder
  <2>5. CASE \A i \in DOMAIN toDevice' :
                \/ i \in DOMAIN toDevice /\ toDevice'[i] = toDevice[i] /\ i < Len(toDevice) + 1
                \/ i = Len(toDevice) + 1 /\ toDevice'[i] = m
    <3>1. \A i, j \in DOMAIN toDevice' : i < j => i \in DOMAIN toDevice /\ toDevice'[i] = toDevice[i]
      BY <1>0, <2>5
    <3>2. \A i, j \in DOMAIN toDevice' : i < j => toDevice'[i].tag < toDevice'[j].tag
      BY <2>2, <2>5, <3>1 DEF InOrder
    <3>3. \A i \in DOMAIN wire', j \in DOMAIN toDevice' : wire'[i].tag < toDevice'[j].tag
      BY <2>1, <2>2, <2>5 DEF InOrder
    <3>4. \A i \in DOMAIN wire' : wire'[i].tag <= Len(calls')
      BY <1>0, <2>1, <2>7 DEF InOrder
    <3>5. \A j \in DOMAIN toDevice' : toDevice'[j].tag <= Len(calls') /\ said'[toDevice'[j].tag] = "nothing"
      BY <1>0, <2>1, <2>2, <2>5, <2>7, <2>8 DEF InOrder
    <3>6. \A u \in Tags : u > Len(calls') => said'[u] = "nothing"
      BY <2>1, <2>3 DEF InOrder
    <3>7. QED
      BY <2>1, <3>2, <3>3, <3>4, <3>5, <3>6 DEF InOrder
  <2>6. QED
    BY <2>1, <2>4, <2>5
<1>4. ASSUME NEW n \in 1 .. Len(wire), SocketData(n) PROVE InOrder'
  <2>1. /\ \A i \in DOMAIN wire' : i \in Nat \ {0} /\ n + i \in DOMAIN wire /\ wire'[i] = wire[n + i]
        /\ UNCHANGED <<calls, toDevice, said>> /\ n \in Nat
    BY <1>4, <1>0, ReadElements DEF SocketData, callVars, deviceVars
  <2>2. \A i, j \in DOMAIN wire' : i < j => n + i < n + j
    BY <2>1
  <2>3. QED
    BY <2>1, <2>2 DEF InOrder
<1>5. ASSUME NEW body \in {"value", "error"}, DeviceAnswers(body) PROVE InOrder'
  <2>1. /\ 1 \in DOMAIN toDevice
        /\ \A i \in DOMAIN toDevice' : i \in Nat \ {0} /\ i + 1 \in DOMAIN toDevice /\ toDevice'[i] = toDevice[i + 1]
        /\ \A i \in DOMAIN wire' :
              \/ i \in DOMAIN wire /\ wire'[i] = wire[i] /\ i < Len(wire) + 1
              \/ i = Len(wire) + 1 /\ wire'[i] = toDevice[1]
        /\ \A u \in Tags \ {toDevice[1].tag} : said'[u] = said[u]
        /\ UNCHANGED calls
    BY <1>5, AnswerEffect DEF callVars
  <2>2. \A i \in DOMAIN toDevice' : toDevice[1].tag < toDevice'[i].tag /\ toDevice'[i].tag # toDevice[1].tag
    <3>1. \A i \in DOMAIN toDevice' : 1 < i + 1
      BY <2>1
    <3>2. QED
      BY <1>0, <2>1, <3>1 DEF InOrder
  <2>3. \A i, j \in DOMAIN toDevice' : i < j => i + 1 < j + 1
    BY <2>1
  <2>4. \A i, j \in DOMAIN wire' : i < j => i \in DOMAIN wire /\ wire'[i] = wire[i]
    BY <1>0, <2>1
  <2>5. \A i, j \in DOMAIN toDevice' : i < j => toDevice'[i].tag < toDevice'[j].tag
    BY <2>1, <2>3 DEF InOrder
  <2>6. \A i, j \in DOMAIN wire' : i < j => wire'[i].tag < wire'[j].tag
    BY <2>1, <2>4 DEF InOrder
  <2>7. \A i \in DOMAIN wire', j \in DOMAIN toDevice' : wire'[i].tag < toDevice'[j].tag
    BY <2>1, <2>2 DEF InOrder
  <2>8. \A j \in DOMAIN toDevice' : toDevice'[j].tag <= Len(calls) /\ said'[toDevice'[j].tag] = "nothing"
    BY <1>0, <2>1, <2>2 DEF InOrder
  <2>9. \A u \in Tags : u > Len(calls) => u # toDevice[1].tag /\ said'[u] = "nothing"
    BY <1>0, <2>1 DEF InOrder
  <2>10. QED
    BY <2>1, <2>5, <2>6, <2>7, <2>8, <2>9 DEF InOrder
<1>6. CASE UNCHANGED <<calls, toDevice, wire, said>>
  BY <1>6 DEF InOrder
<1>7. QED
  BY <1>1, <1>4, <1>5, <1>6 DEF Next, Poll, TimedOut, EnableSessionSSL, Close, SocketEnd,
     DeviceConfused, DeviceCloses, vars, callVars, deviceVars


\* Taking the first reply of a queue in order leaves the rest in order behind it.
LEMMA TakeInOrder ==
  ASSUME TypeOK, QueuedInOrder, ~secure,
         NEW t \in Tags, NEW k \in Kind, replyQueue # <<>>, Take(t, k)
  PROVE  /\ \A i, j \in DOMAIN replyQueue' : i < j => replyQueue'[i] < replyQueue'[j]
         /\ \A i \in DOMAIN replyQueue' :
              /\ \A j \in DOMAIN wire : replyQueue'[i] < wire[j].tag
              /\ \A j \in DOMAIN toDevice : replyQueue'[i] < toDevice[j].tag
              /\ replyQueue'[i] <= Len(calls)
         /\ \A u \in Tags :
              /\ \A i \in DOMAIN replyQueue' : taken'[u] < replyQueue'[i]
              /\ \A j \in DOMAIN wire : taken'[u] < wire[j].tag
              /\ \A j \in DOMAIN toDevice : taken'[u] < toDevice[j].tag
              /\ taken'[u] <= Len(calls)
         /\ \A u, v \in Tags : u # v /\ taken'[u] # 0 => taken'[u] # taken'[v]
<1>1. /\ taken'[t] = replyQueue[1] /\ 1 \in DOMAIN replyQueue /\ replyQueue[1] \in Tags
      /\ \A u \in Tags \ {t} : taken'[u] = taken[u]
      /\ \A i \in DOMAIN replyQueue' : i \in Nat \ {0} /\ i + 1 \in DOMAIN replyQueue /\ replyQueue'[i] = replyQueue[i + 1]
  BY TakeEffect
<1>2. /\ \A i \in DOMAIN replyQueue' : 1 < i + 1
      /\ \A i, j \in DOMAIN replyQueue' : i < j => i + 1 < j + 1
  BY <1>1
<1>3. \A i, j \in DOMAIN replyQueue' : i < j => replyQueue'[i] < replyQueue'[j]
  BY <1>1, <1>2 DEF QueuedInOrder
<1>4. \A i \in DOMAIN replyQueue' :
        /\ \A j \in DOMAIN wire : replyQueue'[i] < wire[j].tag
        /\ \A j \in DOMAIN toDevice : replyQueue'[i] < toDevice[j].tag
        /\ replyQueue'[i] <= Len(calls)
  BY <1>1 DEF QueuedInOrder
<1>5. \A i \in DOMAIN replyQueue' : taken'[t] < replyQueue'[i]
  BY <1>1, <1>2 DEF QueuedInOrder
<1>6. /\ \A j \in DOMAIN wire : taken'[t] < wire[j].tag
      /\ \A j \in DOMAIN toDevice : taken'[t] < toDevice[j].tag
      /\ taken'[t] <= Len(calls)
  BY <1>1 DEF QueuedInOrder
<1>7. \A u \in Tags \ {t} :
        /\ \A i \in DOMAIN replyQueue' : taken'[u] < replyQueue'[i]
        /\ \A j \in DOMAIN wire : taken'[u] < wire[j].tag
        /\ \A j \in DOMAIN toDevice : taken'[u] < toDevice[j].tag
        /\ taken'[u] <= Len(calls)
        /\ taken'[u] < taken'[t]
  BY <1>1 DEF QueuedInOrder
<1>8. \A u \in Tags : taken'[u] \in Nat
  <2>1. \A u \in Tags : taken'[u] \in Tags \cup {0}
    BY TakeEffect
  <2>2. QED
    BY <2>1 DEF Tags
<1>9. \A u, v \in Tags : u # v /\ taken'[u] # 0 => taken'[u] # taken'[v]
  <2>1. \A u \in Tags \ {t} : taken'[u] # taken'[t]
    BY <1>7, <1>8
  <2>2. \A u, v \in Tags \ {t} : u # v /\ taken'[u] # 0 => taken'[u] # taken'[v]
    BY <1>1 DEF QueuedInOrder
  <2>3. QED
    BY <2>1, <2>2
<1>10. QED
  BY <1>3, <1>4, <1>5, <1>6, <1>7, <1>9

\* The replies queued stay in the order of the requests.
LEMMA QueuedInOrderStep ==
  TypeOK /\ CallsAccounted /\ InOrder /\ QueuedInOrder /\ [Next]_vars => QueuedInOrder'
<1> SUFFICES ASSUME TypeOK, CallsAccounted, InOrder, QueuedInOrder, [Next]_vars, ~secure'
             PROVE  QueuedInOrder'
  BY DEF QueuedInOrder
<1>0. /\ Len(calls) \in Nat
      /\ \A i \in DOMAIN toDevice : toDevice[i].tag \in Nat /\ i \in Nat
      /\ \A i \in DOMAIN wire : wire[i].tag \in Nat /\ i \in Nat
      /\ \A i \in DOMAIN replyQueue : replyQueue[i] \in Nat /\ i \in Nat
      /\ \A t \in Tags : taken[t] \in Nat /\ t \in Nat
  <2>1. toDevice \in Seq(Note) /\ wire \in Seq(Note) /\ Len(calls) \in Nat /\ replyQueue \in Seq(Tags)
    BY DEF TypeOK
  <2>2. /\ \A i \in DOMAIN toDevice : toDevice[i] \in Note /\ i \in Nat
        /\ \A i \in DOMAIN wire : wire[i] \in Note /\ i \in Nat
        /\ \A i \in DOMAIN replyQueue : replyQueue[i] \in Tags /\ i \in Nat
    BY <2>1
  <2>3. /\ \A i \in DOMAIN toDevice : toDevice[i].tag \in Tags
        /\ \A i \in DOMAIN wire : wire[i].tag \in Tags
    BY <2>2 DEF Note
  <2>4. /\ \A t \in Tags : t \in Nat
        /\ \A t \in Tags : taken[t] \in Tags \cup {0}
    <3>1. \A t \in Tags : t \in Nat
      BY DEF Tags
    <3>2. taken \in [Tags -> Tags \cup {0}]
      BY DEF TypeOK
    <3>3. QED
      BY <3>1, <3>2
  <2>5. /\ \A i \in DOMAIN toDevice : toDevice[i].tag \in Nat
        /\ \A i \in DOMAIN wire : wire[i].tag \in Nat
        /\ \A i \in DOMAIN replyQueue : replyQueue[i] \in Nat
    BY <2>2, <2>3, <2>4
  <2>6. \A t \in Tags : taken[t] \in Nat
    BY <2>4
  <2>7. QED
    BY <2>1, <2>2, <2>4, <2>5, <2>6
<1>1. ASSUME NEW k \in Operations, Request(k) PROVE QueuedInOrder'
  <2> DEFINE t == Len(calls) + 1
             m == [tag |-> t, secure |-> secure]
  <2>1. /\ t \in Tags /\ k \in Kind /\ Len(calls') = t /\ wire' = wire /\ secure' = secure
        /\ \/ toDevice' = toDevice
           \/ \A i \in DOMAIN toDevice' :
                \/ i \in DOMAIN toDevice /\ toDevice'[i] = toDevice[i] /\ i < Len(toDevice) + 1
                \/ i = Len(toDevice) + 1 /\ toDevice'[i] = m
    BY <1>1, RequestEffect DEF streamVars
  <2>2. /\ \A x \in Nat : x <= Len(calls) => x < t /\ x <= t
        /\ m.tag = t /\ t \in Nat
    BY <1>0
  <2> HIDE DEF t, m
  <2>3. ~secure
    BY <2>1
  <2>4. \A j \in DOMAIN toDevice' :
          \/ j \in DOMAIN toDevice /\ toDevice'[j] = toDevice[j]
          \/ toDevice'[j].tag = t
    BY <2>1, <2>2
  <2>5. CASE replyQueue # <<>> /\ Take(t, k)
    <3>1. /\ \A i, j \in DOMAIN replyQueue' : i < j => replyQueue'[i] < replyQueue'[j]
          /\ \A i \in DOMAIN replyQueue' :
               /\ \A j \in DOMAIN wire : replyQueue'[i] < wire[j].tag
               /\ \A j \in DOMAIN toDevice : replyQueue'[i] < toDevice[j].tag
               /\ replyQueue'[i] <= Len(calls)
          /\ \A u \in Tags :
               /\ \A i \in DOMAIN replyQueue' : taken'[u] < replyQueue'[i]
               /\ \A j \in DOMAIN wire : taken'[u] < wire[j].tag
               /\ \A j \in DOMAIN toDevice : taken'[u] < toDevice[j].tag
               /\ taken'[u] <= Len(calls)
          /\ \A u, v \in Tags : u # v /\ taken'[u] # 0 => taken'[u] # taken'[v]
      BY <2>1, <2>3, <2>5, TakeInOrder
    <3>2. /\ \A i \in DOMAIN replyQueue' : replyQueue'[i] \in Nat
          /\ \A u \in Tags : taken'[u] \in Nat
      <4>1. replyQueue' \in Seq(Tags) /\ taken' \in [Tags -> Tags \cup {0}]
        BY <2>1, <2>5, TakeEffect
      <4>2. /\ \A i \in DOMAIN replyQueue' : replyQueue'[i] \in Tags
            /\ \A u \in Tags : taken'[u] \in Tags \cup {0}
        BY <4>1
      <4>3. QED
        BY <4>2 DEF Tags
    <3>3. \A i \in DOMAIN replyQueue' :
             /\ \A j \in DOMAIN toDevice' : replyQueue'[i] < toDevice'[j].tag
             /\ replyQueue'[i] <= Len(calls')
      BY <2>1, <2>2, <2>4, <3>1, <3>2
    <3>4. \A u \in Tags :
             /\ \A j \in DOMAIN toDevice' : taken'[u] < toDevice'[j].tag
             /\ taken'[u] <= Len(calls')
      BY <2>1, <2>2, <2>4, <3>1, <3>2
    <3>5. QED
      BY <2>1, <3>1, <3>3, <3>4 DEF QueuedInOrder
  <2>6. CASE UNCHANGED <<taken, replyQueue>>
    <3>1. \A i \in DOMAIN replyQueue :
             /\ \A j \in DOMAIN toDevice' : replyQueue[i] < toDevice'[j].tag
             /\ replyQueue[i] <= Len(calls')
      BY <1>0, <2>1, <2>2, <2>3, <2>4 DEF QueuedInOrder
    <3>2. \A u \in Tags :
             /\ \A j \in DOMAIN toDevice' : taken[u] < toDevice'[j].tag
             /\ taken[u] <= Len(calls')
      BY <1>0, <2>1, <2>2, <2>3, <2>4 DEF QueuedInOrder
    <3>3. QED
      BY <2>1, <2>3, <2>6, <3>1, <3>2 DEF QueuedInOrder
  <2>7. QED
    BY <1>1, <2>5, <2>6, RequestEffect DEF t
<1>2. ASSUME NEW t \in Tags, Poll(t) PROVE QueuedInOrder'
  <2>1. /\ calls[t] \in Kind /\ replyQueue # <<>> /\ Take(t, calls[t])
        /\ UNCHANGED <<calls, secure, wire, toDevice>>
    BY <1>2, MadeCalls DEF Poll, streamVars
  <2>2. QED
    BY <2>1, TakeInOrder DEF QueuedInOrder
<1>4. ASSUME NEW n \in 1 .. Len(wire), SocketData(n) PROVE QueuedInOrder'
  <2>1. /\ \A i \in DOMAIN wire' : i \in Nat \ {0} /\ n + i \in DOMAIN wire /\ wire'[i] = wire[n + i]
        /\ \A i \in DOMAIN replyQueue' :
              \/ i \in DOMAIN replyQueue /\ replyQueue'[i] = replyQueue[i]
              \/ \E k \in 1 .. n :
                   /\ k \in DOMAIN wire /\ replyQueue'[i] = wire[k].tag
                   /\ i = Len(replyQueue) + k
        /\ UNCHANGED <<calls, toDevice, taken, secure>> /\ n \in Nat
        /\ replyQueue \in Seq(Tags)
    <3>1. UNCHANGED <<calls, toDevice, taken, secure>> /\ n \in Nat /\ replyQueue \in Seq(Tags)
      BY <1>4 DEF SocketData, callVars, streamVars, TypeOK
    <3>2. QED
      BY <1>4, <3>1, ReadElements
  <2>2. \A i \in DOMAIN wire', k \in 1 .. n : k < n + i
    BY <2>1
  <2>3. \A i, j \in DOMAIN replyQueue' : i < j => replyQueue'[i] < replyQueue'[j]
    <3> SUFFICES ASSUME NEW i \in DOMAIN replyQueue', NEW j \in DOMAIN replyQueue', i < j
                 PROVE  replyQueue'[i] < replyQueue'[j]
      OBVIOUS
    <3>1. CASE i \in DOMAIN replyQueue /\ replyQueue'[i] = replyQueue[i]
      BY <2>1, <3>1 DEF QueuedInOrder
    <3>2. CASE \E k \in 1 .. n : k \in DOMAIN wire /\ replyQueue'[i] = wire[k].tag /\ i = Len(replyQueue) + k
      <4>1. PICK k \in 1 .. n : k \in DOMAIN wire /\ replyQueue'[i] = wire[k].tag /\ i = Len(replyQueue) + k
        BY <3>2
      <4>2. j \notin DOMAIN replyQueue
        BY <2>1, <4>1
      <4>3. PICK l \in 1 .. n : l \in DOMAIN wire /\ replyQueue'[j] = wire[l].tag /\ j = Len(replyQueue) + l
        BY <2>1, <4>2
      <4>4. k < l
        BY <2>1, <4>1, <4>3
      <4>5. QED
        BY <4>1, <4>3, <4>4 DEF InOrder
    <3>3. QED
      BY <2>1, <3>1, <3>2
  <2>4. \A i \in DOMAIN replyQueue' : \A j \in DOMAIN wire' : replyQueue'[i] < wire'[j].tag
    <3>1. \A k \in 1 .. n : k \in DOMAIN wire => \A j \in DOMAIN wire' : wire[k].tag < wire'[j].tag
      BY <2>1, <2>2 DEF InOrder
    <3>2. QED
      BY <2>1, <3>1 DEF QueuedInOrder
  <2>5. \A i \in DOMAIN replyQueue' :
           /\ \A j \in DOMAIN toDevice : replyQueue'[i] < toDevice[j].tag
           /\ replyQueue'[i] <= Len(calls)
           /\ \A t \in Tags : taken[t] < replyQueue'[i]
    BY <2>1 DEF QueuedInOrder, InOrder
  <2>6. \A t \in Tags : \A j \in DOMAIN wire' : taken[t] < wire'[j].tag
    BY <2>1 DEF QueuedInOrder
  <2>7. QED
    BY <2>1, <2>3, <2>4, <2>5, <2>6 DEF QueuedInOrder
<1>5. ASSUME NEW body \in {"value", "error"}, DeviceAnswers(body) PROVE QueuedInOrder'
  <2>1. /\ 1 \in DOMAIN toDevice
        /\ \A i \in DOMAIN toDevice' : i \in Nat \ {0} /\ i + 1 \in DOMAIN toDevice /\ toDevice'[i] = toDevice[i + 1]
        /\ \A i \in DOMAIN wire' :
              \/ i \in DOMAIN wire /\ wire'[i] = wire[i] /\ i < Len(wire) + 1
              \/ i = Len(wire) + 1 /\ wire'[i] = toDevice[1]
        /\ UNCHANGED <<calls, replyQueue, taken, secure>>
    BY <1>5, AnswerEffect DEF callVars, streamVars
  <2>2. \A x \in Nat : /\ (\A j \in DOMAIN toDevice : x < toDevice[j].tag) => \A j \in DOMAIN toDevice' : x < toDevice'[j].tag
                       /\ (\A j \in DOMAIN toDevice : x < toDevice[j].tag) /\ (\A j \in DOMAIN wire : x < wire[j].tag)
                            => \A j \in DOMAIN wire' : x < wire'[j].tag
    BY <2>1
  <2>3. QED
    BY <1>0, <2>1, <2>2 DEF QueuedInOrder
<1>6. CASE UNCHANGED <<calls, toDevice, wire, replyQueue, taken, secure>>
  BY <1>6 DEF QueuedInOrder
<1>7. QED
  BY <1>1, <1>2, <1>4, <1>5, <1>6 DEF Next, TimedOut, EnableSessionSSL, Close, SocketEnd,
     DeviceConfused, DeviceCloses, vars, callVars, deviceVars, streamVars


---------------------------------------------------------------------------
(* Which way both sides write.                                             *)

\* A call that is made has no answer yet.
LEMMA RequestSwitchesNothing ==
  ASSUME TypeOK, InOrder, NEW k \in Operations, Request(k)
  PROVE  \A r \in Tags : Switches(r)' <=> Switches(r)
<1>1. /\ Len(calls) + 1 \in Tags /\ Len(calls') = Len(calls) + 1 /\ said' = said /\ Len(calls) \in Nat
      /\ \A u \in 1 .. Len(calls) : calls'[u] = calls[u]
  BY RequestEffect DEF TypeOK, deviceVars
<1>2. said[Len(calls) + 1] = "nothing"
  BY <1>1 DEF InOrder
<1>3. ASSUME NEW r \in Tags PROVE Switches(r)' <=> Switches(r)
  <2>1. CASE r <= Len(calls)
    <3>1. r \in 1 .. Len(calls) /\ r <= Len(calls')
      BY <1>1, <2>1 DEF Tags
    <3>2. QED
      BY <1>1, <2>1, <3>1 DEF Switches
  <2>2. CASE ~(r <= Len(calls))
    <3>1. r <= Len(calls') => r = Len(calls) + 1
      BY <1>1, <2>2 DEF Tags
    <3>2. QED
      BY <1>1, <1>2, <2>2, <3>1 DEF Switches
  <2>3. QED
    BY <2>1, <2>2
<1>4. QED
  BY <1>3

\* The answer lockdownd gives may be the one that takes it to TLS.
LEMMA AnswerSwitches ==
  ASSUME TypeOK, InOrder, NEW body \in {"value", "error"}, DeviceAnswers(body)
  PROVE  /\ 1 \in DOMAIN toDevice
         /\ \E q \in Tags :
              /\ q = toDevice[1].tag /\ q <= Len(calls) /\ ~Switches(q)
              /\ \A r \in Tags \ {q} : Switches(r)' <=> Switches(r)
              /\ Switches(q)' => device' = "tls"
              /\ ~Switches(q)' => device' = device
<1>1. /\ 1 \in DOMAIN toDevice /\ toDevice[1] \in Note /\ UNCHANGED calls
      /\ said'[toDevice[1].tag] = body
      /\ \A u \in Tags \ {toDevice[1].tag} : said'[u] = said[u]
      /\ device' = IF calls[toDevice[1].tag] = "StartSession" /\ body = "value" THEN "tls" ELSE device
  BY AnswerEffect DEF callVars
<1>2. PICK q \in Tags : q = toDevice[1].tag
  BY <1>1 DEF Note
<1>3. said[q] = "nothing" /\ q <= Len(calls)
  BY <1>1, <1>2 DEF InOrder
<1>4. ~Switches(q) /\ \A r \in Tags \ {q} : Switches(r)' <=> Switches(r)
  BY <1>1, <1>2, <1>3 DEF Switches
<1>5. (Switches(q)' => device' = "tls") /\ (~Switches(q)' => device' = device)
  BY <1>1, <1>2, <1>3 DEF Switches
<1>6. QED
  BY <1>1, <1>2, <1>3, <1>4, <1>5

\* The client follows lockdownd to TLS when nothing is on its way to it any more.
LEMMA UpgradeFollows ==
  ASSUME TypeOK, CallsAccounted, QueuedInOrder, SwitchKnown, UpgradeDue
  PROVE  /\ ~secure /\ wire = <<>> /\ device # "plain"
         /\ \E t \in Tags : t <= Len(calls) /\ promise[t] = "value" /\ taken[t] \in Tags /\ Switches(taken[t])
<1>1. PICK t \in 1 .. Len(calls) : calls[t] = "StartSession" /\ promise[t] = "value"
  BY DEF UpgradeDue
<1>2. t \in Tags /\ t <= Len(calls)
  BY LockdownAssumption DEF Tags, TypeOK
<1>3. ~secure /\ taken[t] \in Tags /\ Switches(taken[t])
  BY <1>1, <1>2 DEF UpgradeDue, CallsAccounted, SwitchKnown, TypeOK
<1>4. device # "plain"
  BY <1>3 DEF SwitchKnown
<1>5. \A i \in DOMAIN wire : FALSE
  <2>1. \A i \in DOMAIN wire : wire[i].tag <= taken[t] /\ taken[t] < wire[i].tag
    BY <1>2, <1>3 DEF SwitchKnown, QueuedInOrder
  <2>2. \A i \in DOMAIN wire : wire[i].tag \in Nat
    <3>1. \A i \in DOMAIN wire : wire[i] \in Note
      BY DEF TypeOK
    <3>2. QED
      BY <3>1 DEF Note, Tags
  <2>3. taken[t] \in Nat
    BY <1>3 DEF Tags
  <2>4. QED
    BY <2>1, <2>2, <2>3
<1>6. wire = <<>>
  <2>1. wire \in Seq(Note)
    BY DEF TypeOK
  <2>2. wire # <<>> => 1 \in DOMAIN wire
    BY <2>1, EmptySeq
  <2>3. QED
    BY <1>5, <2>2
<1>7. QED
  BY <1>1, <1>2, <1>3, <1>4, <1>6

\* lockdownd speaks TLS only from an answer that takes it there, and the client follows it.
LEMMA SwitchKnownStep ==
  ASSUME TypeOK, CallsAccounted, InOrder, QueuedInOrder, SwitchKnown, [Next]_vars
  PROVE  SwitchKnown'
<1>0. /\ Len(calls) \in Nat
      /\ \A i \in DOMAIN toDevice : toDevice[i].tag \in Nat /\ i \in Nat
      /\ \A i \in DOMAIN wire : wire[i].tag \in Nat /\ i \in Nat
      /\ \A i \in DOMAIN replyQueue : replyQueue[i] \in Tags
      /\ \A t \in Tags : taken[t] \in Tags \cup {0} /\ t \in Nat
  <2>1. toDevice \in Seq(Note) /\ wire \in Seq(Note) /\ Len(calls) \in Nat /\ replyQueue \in Seq(Tags)
    BY DEF TypeOK
  <2>2. /\ \A i \in DOMAIN toDevice : toDevice[i] \in Note /\ i \in Nat
        /\ \A i \in DOMAIN wire : wire[i] \in Note /\ i \in Nat
        /\ \A i \in DOMAIN replyQueue : replyQueue[i] \in Tags /\ i \in Nat
    BY <2>1
  <2>3. \A t \in Tags : taken[t] \in Tags \cup {0}
    BY DEF TypeOK
  <2>4. QED
    BY <2>1, <2>2, <2>3 DEF Note, Tags
<1>1. ASSUME NEW k \in Operations, Request(k) PROVE SwitchKnown'
  <2> DEFINE t == Len(calls) + 1
             m == [tag |-> t, secure |-> secure]
  <2>1. /\ t \in Tags /\ k \in Kind /\ Len(calls') = t /\ calls'[t] = k
        /\ UNCHANGED <<wire, secure, said, device>>
        /\ \A u \in 1 .. Len(calls) : calls'[u] = calls[u]
        /\ \/ toDevice' = toDevice
           \/ \A i \in DOMAIN toDevice' :
                \/ i \in DOMAIN toDevice /\ toDevice'[i] = toDevice[i] /\ i < Len(toDevice) + 1
                \/ i = Len(toDevice) + 1 /\ toDevice'[i] = m
    BY <1>1, RequestEffect DEF streamVars, deviceVars
  <2>2. \A r \in Tags : Switches(r)' <=> Switches(r)
    BY <1>1, RequestSwitchesNothing
  <2>3. /\ \A u \in Tags : u <= t => u = t \/ u \in 1 .. Len(calls)
        /\ \A u \in 1 .. Len(calls) : u # t /\ u <= Len(calls)
        /\ m.secure = secure
    <3>1. \A u \in Tags : u \in Nat \ {0}
      BY DEF Tags
    <3>2. QED
      BY <1>0, <3>1
  <2>4. ~secure => \A u \in Tags : u <= t /\ calls'[u] = "StartSession" /\ taken'[u] # 0 =>
                     (promise'[u] = "value" <=> Switches(taken'[u]))
    <3> SUFFICES ASSUME ~secure, NEW u \in Tags, u <= t, calls'[u] = "StartSession", taken'[u] # 0
                 PROVE  promise'[u] = "value" <=> Switches(taken'[u])
      OBVIOUS
    <3>1. CASE replyQueue # <<>> /\ Take(t, k)
      <4>1. /\ taken'[t] = replyQueue[1] /\ 1 \in DOMAIN replyQueue
            /\ k = "StartSession" =>
                 (promise'[t] = "value" <=> calls[replyQueue[1]] = "StartSession" /\ said[replyQueue[1]] = "value")
            /\ \A v \in Tags \ {t} : taken'[v] = taken[v] /\ promise'[v] = promise[v]
        BY <2>1, <3>1, TakeEffect
      <4>2. replyQueue[1] <= Len(calls)
        BY <4>1 DEF QueuedInOrder
      <4> HIDE DEF t
      <4>3. CASE u = t
        BY <2>1, <4>1, <4>2, <4>3 DEF Switches
      <4>4. CASE u # t
        BY <2>1, <2>3, <4>1, <4>4 DEF SwitchKnown
      <4>5. QED
        BY <4>3, <4>4
    <3>2. CASE promise' = [promise EXCEPT ![t] = "pending"] /\ UNCHANGED <<taken, replyQueue>>
      <4>1. taken[t] = 0
        BY <1>0, <2>1 DEF CallsAccounted
      <4> HIDE DEF t
      <4>2. QED
        BY <2>1, <2>3, <3>2, <4>1 DEF SwitchKnown, TypeOK
    <3>3. QED
      BY <1>1, <3>1, <3>2, RequestEffect
  <2>5. taken' \in [Tags -> Tags \cup {0}]
    <3>1. TypeOK'
      BY <1>1, TypeStep DEF Next
    <3>2. QED
      BY <3>1 DEF TypeOK
  <2> HIDE DEF t, m
  <2>6. ~secure => \A i \in DOMAIN toDevice' : ~toDevice'[i].secure
    BY <2>1, <2>3 DEF SwitchKnown
  <2>7. \A r \in Tags : (r <= Len(calls') /\ calls'[r] = "StartSession" /\ said'[r] = "value") <=> Switches(r)
    BY <2>2 DEF Switches
  <2>8. \A u \in Tags : taken'[u] # 0 => taken'[u] \in Tags
    BY <2>5
  <2>9. /\ \A r \in Tags : Switches(r)' => device' # "plain"
        /\ device' = "tls" => \E r \in Tags : Switches(r)'
        /\ secure' => device' # "plain"
    BY <2>1, <2>2 DEF SwitchKnown
  <2>10. ~secure => \A r \in Tags : Switches(r)' => \A i \in DOMAIN wire' : wire'[i].tag <= r
    BY <2>1, <2>2 DEF SwitchKnown
  <2>11. ~secure => \A u \in Tags : u <= Len(calls') /\ calls'[u] = "StartSession" /\ taken'[u] # 0 =>
           (promise'[u] = "value" <=>
              taken'[u] <= Len(calls') /\ calls'[taken'[u]] = "StartSession" /\ said'[taken'[u]] = "value")
    BY <2>1, <2>4, <2>7, <2>8
  <2>12. QED
    BY <2>1, <2>6, <2>9, <2>10, <2>11 DEF SwitchKnown, Switches
<1>2. ASSUME NEW t \in Tags, Poll(t) PROVE SwitchKnown'
  <2>1. /\ t \in 1 .. Len(calls) /\ calls[t] \in Kind /\ replyQueue # <<>> /\ Take(t, calls[t])
        /\ UNCHANGED <<calls, secure, wire, toDevice, said, device>>
    BY <1>2, MadeCalls DEF Poll, streamVars, deviceVars
  <2>2. /\ taken'[t] = replyQueue[1] /\ 1 \in DOMAIN replyQueue
        /\ calls[t] = "StartSession" =>
             (promise'[t] = "value" <=> calls[replyQueue[1]] = "StartSession" /\ said[replyQueue[1]] = "value")
        /\ \A v \in Tags \ {t} : taken'[v] = taken[v] /\ promise'[v] = promise[v]
    BY <2>1, TakeEffect
  <2>3. ~secure => replyQueue[1] <= Len(calls)
    BY <2>2 DEF QueuedInOrder
  <2>4. QED
    BY <2>1, <2>2, <2>3 DEF SwitchKnown, Switches
<1>3. ASSUME NEW t \in Tags, TimedOut(t) PROVE SwitchKnown'
  <2>1. /\ \A u \in Tags \ {t} : promise'[u] = promise[u]
        /\ promise[t] = "pending" /\ promise'[t] = "timedOut"
        /\ UNCHANGED <<calls, secure, wire, toDevice, said, device, taken>>
    BY <1>3 DEF TimedOut, TypeOK, streamVars, deviceVars
  <2>2. taken[t] = 0
    BY <2>1 DEF CallsAccounted
  <2>3. QED
    BY <2>1, <2>2 DEF SwitchKnown, Switches
<1>4. ASSUME NEW n \in 1 .. Len(wire), SocketData(n) PROVE SwitchKnown'
  <2>1. /\ \A i \in DOMAIN wire' : n + i \in DOMAIN wire /\ wire'[i] = wire[n + i]
        /\ UNCHANGED <<calls, secure, toDevice, said, device, taken, promise>>
    BY <1>4, ReadElements DEF SocketData, callVars, streamVars, deviceVars
  <2>2. QED
    BY <2>1 DEF SwitchKnown, Switches
<1>5. CASE EnableSessionSSL
  <2>1. secure' /\ UNCHANGED <<calls, said, device, taken, promise>>
    BY <1>5 DEF EnableSessionSSL, callVars, deviceVars
  <2>2. UpgradeDue
    BY <1>5 DEF EnableSessionSSL
  <2>4. device # "plain"
    BY <2>2, UpgradeFollows
  <2>3. QED
    BY <2>1, <2>4 DEF SwitchKnown, Switches
<1>6. ASSUME NEW body \in {"value", "error"}, DeviceAnswers(body) PROVE SwitchKnown'
  <2>1. PICK q \in Tags :
        /\ q = toDevice[1].tag /\ ~Switches(q)
        /\ \A r \in Tags \ {q} : Switches(r)' <=> Switches(r)
        /\ Switches(q)' => device' = "tls"
        /\ ~Switches(q)' => device' = device
    BY <1>6, AnswerSwitches
  <2>0. 1 \in DOMAIN toDevice
    BY <1>6, AnswerSwitches
  <2>2. /\ device = IF toDevice[1].secure THEN "tls" ELSE "plain"
        /\ device' \in {"tls", device}
        /\ \A i \in DOMAIN toDevice' : i + 1 \in DOMAIN toDevice /\ toDevice'[i] = toDevice[i + 1]
        /\ \A i \in DOMAIN wire' :
              \/ i \in DOMAIN wire /\ wire'[i] = wire[i]
              \/ wire'[i] = toDevice[1]
        /\ UNCHANGED <<calls, secure, taken, promise>>
    BY <1>6, AnswerEffect DEF callVars, streamVars
  <2>3. /\ \A r \in Tags : Switches(r)' => device' # "plain"
        /\ device' = "tls" => \E r \in Tags : Switches(r)'
        /\ secure' => device' # "plain"
    BY <2>1, <2>2 DEF SwitchKnown
  <2>4. ~secure => \A r \in Tags : Switches(r)' => r = q
    <3>1. ~secure => device = "plain"
      BY <2>0, <2>2 DEF SwitchKnown
    <3>2. ~secure => \A r \in Tags : ~Switches(r)
      BY <3>1 DEF SwitchKnown
    <3>3. QED
      BY <2>1, <3>2
  <2>5. \A i \in DOMAIN wire' : wire'[i].tag <= q
    BY <1>0, <2>0, <2>1, <2>2 DEF InOrder
  <2>6. ~secure => \A u \in Tags : taken[u] < q
    BY <2>0, <2>1 DEF QueuedInOrder
  <2>7. ~secure => \A u \in Tags : taken[u] # 0 => taken[u] \in Tags \ {q}
    BY <1>0, <2>1, <2>6
  <2>8. \A r \in Tags \ {q} : (r <= Len(calls') /\ calls'[r] = "StartSession" /\ said'[r] = "value") <=> Switches(r)
    BY <2>1 DEF Switches
  <2>9. ~secure => \A u \in Tags : u <= Len(calls') /\ calls'[u] = "StartSession" /\ taken'[u] # 0 =>
           (promise'[u] = "value" <=>
              taken'[u] <= Len(calls') /\ calls'[taken'[u]] = "StartSession" /\ said'[taken'[u]] = "value")
    BY <2>2, <2>7, <2>8 DEF SwitchKnown
  <2>10. ~secure => \A i \in DOMAIN toDevice' : ~toDevice'[i].secure
    BY <2>2 DEF SwitchKnown
  <2>11. ~secure => \A r \in Tags : Switches(r)' => \A i \in DOMAIN wire' : wire'[i].tag <= r
    BY <2>4, <2>5
  <2>12. QED
    BY <2>2, <2>3, <2>9, <2>10, <2>11 DEF SwitchKnown, Switches
<1>7. CASE DeviceConfused \/ DeviceCloses
  <2>1. device' \notin {"plain", "tls"} /\ UNCHANGED <<calls, secure, taken, promise, toDevice, wire, said>>
    BY <1>7 DEF DeviceConfused, DeviceCloses, callVars, streamVars
  <2>2. QED
    BY <2>1 DEF SwitchKnown, Switches
<1>8. CASE UNCHANGED <<calls, secure, taken, promise, toDevice, wire, said, device>>
  BY <1>8 DEF SwitchKnown, Switches
<1>9. QED
  BY <1>1, <1>2, <1>3, <1>4, <1>5, <1>6, <1>7, <1>8 DEF Next, Close, SocketEnd,
     vars, callVars, deviceVars, streamVars


\* What is written stays in the layer the client is in.
LEMMA WrittenAlikeStep ==
  ASSUME TypeOK, CallsAccounted, InOrder, QueuedInOrder, SwitchKnown, LayersAgree, [Next]_vars
  PROVE  \A i \in DOMAIN wire' : wire'[i].secure = secure'
<1>1. CASE wire' = wire /\ secure' = secure
  BY <1>1 DEF LayersAgree
<1>2. ASSUME NEW n \in 1 .. Len(wire), SocketData(n) PROVE \A i \in DOMAIN wire' : wire'[i].secure = secure'
  <2>1. secure' = secure /\ \A i \in DOMAIN wire' : n + i \in DOMAIN wire /\ wire'[i] = wire[n + i]
    BY <1>2, ReadElements DEF SocketData, streamVars
  <2>2. QED
    BY <2>1 DEF LayersAgree
<1>3. CASE EnableSessionSSL
  <2>1. wire' = wire /\ UpgradeDue
    BY <1>3 DEF EnableSessionSSL
  <2>2. wire = <<>>
    BY <2>1, UpgradeFollows
  <2>3. QED
    BY <2>1, <2>2
<1>4. ASSUME NEW body \in {"value", "error"}, DeviceAnswers(body) PROVE \A i \in DOMAIN wire' : wire'[i].secure = secure'
  <2>1. /\ 1 \in DOMAIN toDevice /\ toDevice[1].secure \in BOOLEAN
        /\ device = IF toDevice[1].secure THEN "tls" ELSE "plain"
        /\ \A i \in DOMAIN wire' : (i \in DOMAIN wire /\ wire'[i] = wire[i]) \/ wire'[i] = toDevice[1]
        /\ secure' = secure /\ secure \in BOOLEAN
    BY <1>4, AnswerEffect DEF streamVars, Note, TypeOK
  <2>2. toDevice[1].secure = secure
    BY <2>1 DEF SwitchKnown
  <2>3. QED
    BY <2>1, <2>2 DEF LayersAgree
<1>5. QED
  BY <1>1, <1>2, <1>3, <1>4 DEF Next, Request, Poll, TimedOut, Close, SocketEnd, DeviceConfused, DeviceCloses,
     vars, streamVars

---------------------------------------------------------------------------
(* Calls made one after the other.                                         *)

\* What was disturbed stays so.
LEMMA UndisturbedBefore ==
  ASSUME TypeOK, CallsAccounted, [Next]_vars, Undisturbed'
  PROVE  Undisturbed /\ ~overlapped'
<1>1. ~overlapped' /\ \A t \in Tags : promise'[t] # "timedOut"
  BY DEF Undisturbed
<1>2. overlapped => overlapped'
  BY DEF Next, Request, Poll, TimedOut, SocketData, EnableSessionSSL, Close, SocketEnd, DeviceAnswers,
     DeviceConfused, DeviceCloses, vars, callVars
<1>3. ASSUME NEW u \in Tags, promise[u] = "timedOut" PROVE promise'[u] = "timedOut"
  <2>1. ASSUME NEW k \in Operations, Request(k) PROVE promise'[u] = "timedOut"
    <3>1. Len(calls) + 1 \in Tags /\ k \in Kind /\ Len(calls) \in Nat
      BY <2>1, RequestEffect DEF TypeOK
    <3>2. u # Len(calls) + 1
      BY <1>3, <3>1 DEF CallsAccounted
    <3>3. CASE replyQueue # <<>> /\ Take(Len(calls) + 1, k)
      BY <1>3, <3>1, <3>2, <3>3, TakeEffect
    <3>4. CASE promise' = [promise EXCEPT ![Len(calls) + 1] = "pending"]
      BY <1>3, <3>2, <3>4 DEF TypeOK
    <3>5. QED
      BY <2>1, <3>3, <3>4, RequestEffect
  <2>2. ASSUME NEW t \in Tags, Poll(t) \/ TimedOut(t) PROVE promise'[u] = "timedOut"
    BY <1>3, <2>2 DEF Poll, Take, TimedOut, TypeOK
  <2>3. QED
    BY <1>3, <2>1, <2>2 DEF Next, SocketData, EnableSessionSSL, Close, SocketEnd, DeviceAnswers,
     DeviceConfused, DeviceCloses, vars, callVars
<1>4. QED
  BY <1>1, <1>2, <1>3 DEF Undisturbed

\* What is on its way: elements of the queues.
LEMMA UnderWay ==
  ASSUME TypeOK
  PROVE  /\ Len(calls) \in Nat /\ upgradedAt \in Nat /\ upgradedAt <= Len(calls)
         /\ \A i \in DOMAIN toDevice : toDevice[i].tag \in Tags /\ i \in Nat
         /\ \A i \in DOMAIN wire : wire[i].tag \in Tags /\ i \in Nat
         /\ \A i \in DOMAIN replyQueue : replyQueue[i] \in Tags /\ i \in Nat
         /\ \A t \in Tags : t \in Nat \ {0}
         /\ toDevice # <<>> => 1 \in DOMAIN toDevice
         /\ wire # <<>> => 1 \in DOMAIN wire
         /\ replyQueue # <<>> => 1 \in DOMAIN replyQueue
<1>1. /\ toDevice \in Seq(Note) /\ wire \in Seq(Note) /\ Len(calls) \in Nat /\ replyQueue \in Seq(Tags)
      /\ upgradedAt \in Nat /\ upgradedAt <= Len(calls)
  BY DEF TypeOK
<1>2. /\ \A i \in DOMAIN toDevice : toDevice[i] \in Note /\ i \in Nat
      /\ \A i \in DOMAIN wire : wire[i] \in Note /\ i \in Nat
      /\ \A i \in DOMAIN replyQueue : replyQueue[i] \in Tags /\ i \in Nat
  BY <1>1
<1>3. /\ toDevice # <<>> => 1 \in DOMAIN toDevice
      /\ wire # <<>> => 1 \in DOMAIN wire
      /\ replyQueue # <<>> => 1 \in DOMAIN replyQueue
  BY <1>1, EmptySeq
<1>4. QED
  BY <1>1, <1>2, <1>3 DEF Note, Tags

\* Who asks once all is quiet asks with nothing under way, and no upgrade is due.
LEMMA QuietBeforeRequest ==
  ASSUME TypeOK, CallsAccounted, SwitchKnown, OneAfterTheOther, Undisturbed, Pending = {}, ~UpgradeDue, ~secure
  PROVE  NothingUnderWay /\ \A r \in Tags : ~Switches(r)
<1>1. NothingUnderWay
  <2>1. CASE Len(calls) \in Tags
    BY <2>1 DEF OneAfterTheOther, Pending
  <2>2. CASE Len(calls) \notin Tags
    BY <2>2, UnderWay DEF OneAfterTheOther, AllFor, NothingUnderWay
  <2>3. QED
    BY <2>1, <2>2
<1>2. ASSUME NEW r \in Tags, Switches(r) PROVE FALSE
  <2>1. r = Len(calls) /\ calls[r] = "StartSession" /\ r \in 1 .. Len(calls)
    BY <1>2, UnderWay DEF OneAfterTheOther, Switches
  <2>2. ~(r > Len(calls))
    BY <2>1, UnderWay
  <2>3. promise[r] \notin {"pending", "timedOut", "unmade"}
    BY <2>2 DEF Undisturbed, Pending, CallsAccounted
  <2>4. taken[r] # 0 /\ taken[r] = r
    BY <2>3 DEF CallsAccounted, TypeOK, OneAfterTheOther
  <2>5. promise[r] = "value"
    BY <1>2, <2>1, <2>4 DEF SwitchKnown, Switches
  <2>6. QED
    BY <2>1, <2>5 DEF UpgradeDue
<1>3. QED
  BY <1>1, <1>2


\* A call is made.
LEMMA RequestInTurn ==
  ASSUME TypeOK, CallsAccounted, InOrder, QueuedInOrder, SwitchKnown, OneAfterTheOther,
         Undisturbed, ~overlapped', NEW k \in Operations, Request(k)
  PROVE  OneAfterTheOther'
<1> DEFINE t == Len(calls) + 1
           m == [tag |-> t, secure |-> secure]
<1>1. /\ t \in Tags /\ k \in Kind /\ Len(calls') = t /\ UNCHANGED <<wire, secure, upgradedAt, said, device>>
      /\ \/ toDevice' = toDevice
         \/ \A i \in DOMAIN toDevice' :
              \/ i \in DOMAIN toDevice /\ toDevice'[i] = toDevice[i] /\ i < Len(toDevice) + 1
              \/ i = Len(toDevice) + 1 /\ toDevice'[i] = m
      /\ overlapped' = (overlapped \/ Pending # {} \/ UpgradeDue)
  BY RequestEffect DEF streamVars, deviceVars
<1>2. Pending = {} /\ ~UpgradeDue
  BY <1>1
<1>3. /\ \A i \in DOMAIN toDevice' :
            \/ i \in DOMAIN toDevice /\ toDevice'[i] = toDevice[i]
            \/ toDevice'[i].tag = t /\ toDevice'[i].secure = secure
      /\ Len(calls) \in Nat /\ upgradedAt \in Nat /\ upgradedAt <= Len(calls) /\ t = Len(calls) + 1
  BY <1>1, UnderWay
<1>4. taken[t] = 0
  BY <1>1, <1>3 DEF CallsAccounted
<1> HIDE DEF t, m
<1>5. \/ /\ replyQueue # <<>>
         /\ taken' = [taken EXCEPT ![t] = taken'[t]] /\ promise'[t] # "pending"
         /\ \A u \in Tags \ {t} : taken'[u] = taken[u] /\ promise'[u] = promise[u]
      \/ /\ replyQueue = <<>> /\ UNCHANGED <<taken, replyQueue>>
         /\ promise'[t] = "pending" /\ \A u \in Tags \ {t} : promise'[u] = promise[u]
  <2>1. CASE replyQueue # <<>> /\ Take(t, k)
    <3>1. /\ promise'[t] \in {"value", "unexpected"}
          /\ \A u \in Tags \ {t} : taken'[u] = taken[u] /\ promise'[u] = promise[u]
          /\ taken' \in [Tags -> Tags \cup {0}] /\ taken \in [Tags -> Tags \cup {0}]
      BY <1>1, <2>1, TakeEffect DEF TypeOK
    <3>2. QED
      BY <1>1, <2>1, <3>1
  <2>2. CASE replyQueue = <<>> /\ promise' = [promise EXCEPT ![t] = "pending"] /\ UNCHANGED <<taken, replyQueue>>
    BY <1>1, <2>2 DEF TypeOK
  <2>3. QED
    BY <2>1, <2>2, RequestEffect DEF t
<1>6. \A u \in Tags : promise'[u] = "pending" => u = Len(calls')
  BY <1>1, <1>2, <1>5 DEF Pending
<1>7. \A u \in Tags : taken'[u] # 0 /\ (secure' => u <= upgradedAt' + 1) => taken'[u] = u
  <2>1. CASE UNCHANGED taken
    BY <1>1, <2>1 DEF OneAfterTheOther
  <2>2. CASE replyQueue # <<>>
    <3>1. secure /\ ~(Len(calls) = upgradedAt)
      BY <1>2, <2>2, QuietBeforeRequest DEF OneAfterTheOther, NothingUnderWay, TypeOK
    <3>2. ~(t <= upgradedAt + 1)
      BY <1>3, <3>1
    <3>3. QED
      BY <1>1, <1>5, <2>2, <3>1, <3>2 DEF OneAfterTheOther
  <2>3. QED
    BY <1>5, <2>1, <2>2
<1>8. NothingUnderWay => AllFor(Len(calls))'
  BY <1>1, <1>3, <1>5 DEF NothingUnderWay, AllFor
<1>9. ~secure' => /\ AllFor(Len(calls))'
                  /\ promise'[Len(calls')] = "pending"
                  /\ \A r \in Tags : ~Switches(r)'
  <2> SUFFICES ASSUME ~secure
               PROVE  /\ AllFor(Len(calls))' /\ promise'[Len(calls')] = "pending"
                      /\ \A r \in Tags : ~Switches(r)'
    BY <1>1
  <2>1. NothingUnderWay /\ \A r \in Tags : ~Switches(r)
    BY <1>2, QuietBeforeRequest
  <2>2. promise'[Len(calls')] = "pending"
    BY <1>1, <1>5, <2>1 DEF NothingUnderWay
  <2>3. QED
    BY <1>8, <2>1, <2>2, RequestSwitchesNothing
<1>10. secure' => /\ \A i \in DOMAIN toDevice' : toDevice'[i].secure
                  /\ Len(calls') # upgradedAt'
                  /\ Len(calls') = upgradedAt' + 1 => AllFor(Len(calls))'
  <2> SUFFICES ASSUME secure
               PROVE  /\ \A i \in DOMAIN toDevice' : toDevice'[i].secure
                      /\ Len(calls') # upgradedAt'
                      /\ Len(calls') = upgradedAt' + 1 => AllFor(Len(calls))'
    BY <1>1
  <2>1. \A i \in DOMAIN toDevice' : toDevice'[i].secure
    BY <1>3 DEF OneAfterTheOther
  <2>2. Len(calls') # upgradedAt' /\ (Len(calls') = upgradedAt' + 1 => Len(calls) = upgradedAt)
    BY <1>1, <1>3
  <2>3. Len(calls) = upgradedAt => NothingUnderWay
    BY DEF OneAfterTheOther
  <2>4. QED
    BY <1>8, <2>1, <2>2, <2>3
<1>11. QED
  BY <1>6, <1>7, <1>9, <1>10 DEF OneAfterTheOther

\* A call takes its reply.
LEMMA PollInTurn ==
  ASSUME TypeOK, CallsAccounted, InOrder, QueuedInOrder, SwitchKnown, OneAfterTheOther,
         Undisturbed, NEW t \in Tags, Poll(t)
  PROVE  OneAfterTheOther'
<1>1. /\ calls[t] \in Kind /\ promise[t] = "pending" /\ replyQueue # <<>> /\ Take(t, calls[t])
      /\ UNCHANGED <<calls, secure, upgradedAt, wire, toDevice, said, device>>
  BY MadeCalls DEF Poll, streamVars, deviceVars
<1>2. /\ taken'[t] = replyQueue[1] /\ 1 \in DOMAIN replyQueue /\ promise'[t] # "pending"
      /\ \A u \in Tags \ {t} : taken'[u] = taken[u] /\ promise'[u] = promise[u]
      /\ \A i \in DOMAIN replyQueue' : i \in Nat \ {0} /\ i + 1 \in DOMAIN replyQueue /\ replyQueue'[i] = replyQueue[i + 1]
      /\ replyQueue' \in Seq(Tags)
  BY <1>1, TakeEffect
<1>3. t = Len(calls)
  BY <1>1 DEF OneAfterTheOther
<1>4. secure => Len(calls) # upgradedAt
  BY <1>1 DEF OneAfterTheOther, NothingUnderWay
<1>5. secure /\ t <= upgradedAt + 1 => Len(calls) = upgradedAt + 1
  BY <1>3, <1>4, UnderWay
<1>6. (secure => t <= upgradedAt + 1) => AllFor(Len(calls)) /\ taken'[t] = t
  BY <1>2, <1>3, <1>5 DEF OneAfterTheOther, AllFor
<1>7. \A u \in Tags : taken'[u] # 0 /\ (secure' => u <= upgradedAt' + 1) => taken'[u] = u
  BY <1>1, <1>2, <1>6 DEF OneAfterTheOther
<1>8. AllFor(Len(calls)) => AllFor(Len(calls))'
  BY <1>1, <1>2 DEF AllFor
<1>9. ASSUME ~secure PROVE NothingUnderWay'
  <2>1. /\ \A j \in DOMAIN wire : FALSE
        /\ \A j \in DOMAIN toDevice : FALSE
        /\ \A i \in DOMAIN replyQueue' : FALSE
    <3>1. AllFor(Len(calls))
      BY <1>9 DEF OneAfterTheOther
    <3>2. \A i \in DOMAIN replyQueue' : 1 < i + 1
      BY <1>2
    <3>3. ~(Len(calls) < Len(calls))
      BY UnderWay
    <3>4. QED
      BY <1>2, <1>9, <3>1, <3>2, <3>3 DEF QueuedInOrder, AllFor
  <2>2. wire = <<>> /\ toDevice = <<>>
    BY <2>1, UnderWay
  <2>3. replyQueue' = <<>>
    <3>1. replyQueue' # <<>> => 1 \in DOMAIN replyQueue'
      BY <1>2, EmptySeq
    <3>2. QED
      BY <2>1, <3>1
  <2>4. QED
    BY <1>1, <2>2, <2>3 DEF NothingUnderWay
<1>10. \A r \in Tags : Switches(r)' <=> Switches(r)
  BY <1>1 DEF Switches
<1>11. \A u \in Tags : promise'[u] = "pending" => u = Len(calls')
  BY <1>1, <1>2 DEF OneAfterTheOther
<1>12. ~secure' => /\ AllFor(Len(calls))' /\ NothingUnderWay'
                   /\ \A r \in Tags : Switches(r)' => r = Len(calls') /\ toDevice' = <<>>
  BY <1>1, <1>6, <1>8, <1>9, <1>10 DEF OneAfterTheOther
<1>13. secure' => /\ \A i \in DOMAIN toDevice' : toDevice'[i].secure
                  /\ Len(calls') # upgradedAt'
                  /\ Len(calls') = upgradedAt' + 1 => AllFor(Len(calls))'
  BY <1>1, <1>4, <1>8 DEF OneAfterTheOther
<1>14. QED
  BY <1>7, <1>11, <1>12, <1>13 DEF OneAfterTheOther

\* Replies are read.
LEMMA ReadInTurn ==
  ASSUME TypeOK, CallsAccounted, OneAfterTheOther, Undisturbed, NEW n \in 1 .. Len(wire), SocketData(n)
  PROVE  OneAfterTheOther'
<1>1. /\ UNCHANGED <<calls, promise, taken, secure, upgradedAt, toDevice, said, device>>
      /\ wire # <<>>
  <2>1. wire # <<>>
    BY DEF TypeOK
  <2>2. QED
    BY <2>1 DEF SocketData, callVars, streamVars, deviceVars
<1>2. /\ \A i \in DOMAIN wire' : n + i \in DOMAIN wire /\ wire'[i] = wire[n + i]
      /\ \A i \in DOMAIN replyQueue' :
           \/ i \in DOMAIN replyQueue /\ replyQueue'[i] = replyQueue[i]
           \/ \E k \in DOMAIN wire : replyQueue'[i] = wire[k].tag
  BY ReadElements
<1>3. AllFor(Len(calls)) => AllFor(Len(calls))'
  BY <1>1, <1>2 DEF AllFor
<1>4. \A r \in Tags : Switches(r)' <=> Switches(r)
  BY <1>1 DEF Switches
<1>5. ~secure' => /\ AllFor(Len(calls))' /\ promise'[Len(calls')] = "pending"
                  /\ \A r \in Tags : Switches(r)' => r = Len(calls') /\ toDevice' = <<>>
  BY <1>1, <1>3, <1>4 DEF OneAfterTheOther, NothingUnderWay
<1>6. secure' => /\ \A i \in DOMAIN toDevice' : toDevice'[i].secure
                 /\ Len(calls') # upgradedAt'
                 /\ Len(calls') = upgradedAt' + 1 => AllFor(Len(calls))'
  BY <1>1, <1>3 DEF OneAfterTheOther, NothingUnderWay
<1>7. /\ \A u \in Tags : promise'[u] = "pending" => u = Len(calls')
      /\ \A u \in Tags : taken'[u] # 0 /\ (secure' => u <= upgradedAt' + 1) => taken'[u] = u
  BY <1>1 DEF OneAfterTheOther
<1>8. QED
  BY <1>5, <1>6, <1>7 DEF OneAfterTheOther

\* The client moves to TLS.
LEMMA UpgradeInTurn ==
  ASSUME TypeOK, CallsAccounted, QueuedInOrder, SwitchKnown, OneAfterTheOther, Undisturbed, EnableSessionSSL
  PROVE  OneAfterTheOther'
<1>1. /\ UNCHANGED <<calls, promise, taken, wire, replyQueue, toDevice>> /\ secure' = TRUE /\ upgradedAt' = Len(calls)
      /\ UpgradeDue
  BY DEF EnableSessionSSL, callVars
<1>2. PICK t \in Tags : t <= Len(calls) /\ promise[t] = "value" /\ taken[t] \in Tags /\ Switches(taken[t])
  BY <1>1, UpgradeFollows
<1>3. ~secure
  BY <1>1 DEF UpgradeDue
<1>4. taken[t] # 0
  BY <1>2, UnderWay
<1>5. taken[t] = t
  BY <1>3, <1>4 DEF OneAfterTheOther
<1>6. t = Len(calls)
  BY <1>2, <1>3, <1>5 DEF OneAfterTheOther
<1>7. NothingUnderWay /\ Pending = {}
  BY <1>2, <1>3, <1>6 DEF OneAfterTheOther, Pending
<1>8. NothingUnderWay' /\ Pending' = {}
  BY <1>1, <1>7 DEF NothingUnderWay, Pending
<1>9. \A i \in DOMAIN toDevice' : FALSE
  BY <1>8 DEF NothingUnderWay
<1>10. Len(calls') # upgradedAt' + 1
  BY <1>1, UnderWay
<1>11. /\ \A u \in Tags : promise'[u] = "pending" => u = Len(calls')
       /\ \A u \in Tags : taken'[u] # 0 => taken'[u] = u
  BY <1>1, <1>3 DEF OneAfterTheOther
<1>12. QED
  BY <1>1, <1>8, <1>9, <1>10, <1>11 DEF OneAfterTheOther

\* lockdownd answers.
LEMMA AnswerInTurn ==
  ASSUME TypeOK, CallsAccounted, InOrder, SwitchKnown, OneAfterTheOther, Undisturbed,
         NEW body \in {"value", "error"}, DeviceAnswers(body)
  PROVE  OneAfterTheOther'
<1>1. /\ 1 \in DOMAIN toDevice /\ toDevice # <<>>
      /\ \A i \in DOMAIN toDevice' : i \in Nat \ {0} /\ i + 1 \in DOMAIN toDevice /\ toDevice'[i] = toDevice[i + 1]
      /\ \A i \in DOMAIN wire' : (i \in DOMAIN wire /\ wire'[i] = wire[i]) \/ wire'[i] = toDevice[1]
      /\ toDevice' \in Seq(Note)
      /\ UNCHANGED <<calls, promise, taken, replyQueue, secure, upgradedAt>>
  <2>1. toDevice # <<>>
    BY DEF DeviceAnswers
  <2>2. QED
    BY <2>1, AnswerEffect DEF callVars, streamVars
<1>2. AllFor(Len(calls)) => AllFor(Len(calls))'
  BY <1>1 DEF AllFor
<1>3. PICK q \in Tags : q = toDevice[1].tag /\ \A r \in Tags \ {q} : Switches(r)' <=> Switches(r)
  BY AnswerSwitches
<1>4. ASSUME ~secure PROVE toDevice' = <<>>
  <2>1. AllFor(Len(calls))
    BY <1>4 DEF OneAfterTheOther
  <2>2. \A i \in DOMAIN toDevice' : 1 < i + 1
    BY <1>1
  <2>3. ~(Len(calls) < Len(calls))
    BY UnderWay
  <2>4. ASSUME NEW i \in DOMAIN toDevice' PROVE FALSE
    <3>1. i + 1 \in DOMAIN toDevice /\ 1 \in DOMAIN toDevice /\ 1 < i + 1
      BY <1>1, <2>2
    <3>2. toDevice[1].tag < toDevice[i + 1].tag
      BY <3>1 DEF InOrder
    <3>3. toDevice[1].tag = Len(calls) /\ toDevice[i + 1].tag = Len(calls)
      BY <2>1, <3>1 DEF AllFor
    <3>4. QED
      BY <2>3, <3>2, <3>3
  <2>5. toDevice' # <<>> => 1 \in DOMAIN toDevice'
    BY <1>1, EmptySeq
  <2>6. QED
    BY <2>4, <2>5
<1>5. ~secure' => /\ AllFor(Len(calls))' /\ promise'[Len(calls')] = "pending"
                  /\ \A r \in Tags : Switches(r)' => r = Len(calls') /\ toDevice' = <<>>
  <2>1. ~secure => AllFor(Len(calls)) /\ promise[Len(calls)] = "pending" /\ \A r \in Tags : ~Switches(r)
    BY <1>1 DEF OneAfterTheOther, NothingUnderWay
  <2>2. ~secure => q = Len(calls)
    BY <1>1, <1>3, <2>1 DEF AllFor
  <2>3. QED
    BY <1>1, <1>2, <1>3, <1>4, <2>1, <2>2
<1>6. secure' => /\ \A i \in DOMAIN toDevice' : toDevice'[i].secure
                 /\ Len(calls') # upgradedAt'
                 /\ Len(calls') = upgradedAt' + 1 => AllFor(Len(calls))'
  BY <1>1, <1>2 DEF OneAfterTheOther, NothingUnderWay
<1>7. /\ \A u \in Tags : promise'[u] = "pending" => u = Len(calls')
      /\ \A u \in Tags : taken'[u] # 0 /\ (secure' => u <= upgradedAt' + 1) => taken'[u] = u
  BY <1>1 DEF OneAfterTheOther
<1>8. QED
  BY <1>5, <1>6, <1>7 DEF OneAfterTheOther


\* Calls made one after the other, while none times out, take their own answers.
LEMMA OneAfterTheOtherStep ==
  ASSUME TypeOK, CallsAccounted, InOrder, QueuedInOrder, SwitchKnown, OneAfterTheOther, [Next]_vars
  PROVE  OneAfterTheOther'
<1> SUFFICES ASSUME Undisturbed'
             PROVE  OneAfterTheOther'
  BY DEF OneAfterTheOther
<1>1. Undisturbed /\ ~overlapped'
  BY UndisturbedBefore
<1>2. ASSUME NEW t \in Tags, TimedOut(t) PROVE FALSE
  <2>1. promise'[t] = "timedOut"
    BY <1>2 DEF TimedOut, TypeOK
  <2>2. QED
    BY <2>1 DEF Undisturbed
<1>3. CASE UNCHANGED <<calls, promise, taken, replyQueue, secure, upgradedAt, toDevice, wire, said>>
  BY <1>1, <1>3 DEF OneAfterTheOther, AllFor, NothingUnderWay, Switches, Pending
<1>4. CASE Close \/ SocketEnd \/ DeviceConfused \/ DeviceCloses \/ UNCHANGED vars
  <2>1. UNCHANGED <<calls, promise, taken, replyQueue, secure, upgradedAt, toDevice, wire, said>>
    BY <1>4 DEF Close, SocketEnd, DeviceConfused, DeviceCloses, vars, callVars, streamVars, deviceVars
  <2>2. QED
    BY <1>3, <2>1
<1>5. QED
  BY <1>1, <1>2, <1>4, RequestInTurn, PollInTurn, ReadInTurn, UpgradeInTurn, AnswerInTurn DEF Next

\* A request is written as lockdownd expects it while callers wait for each other.
LEMMA ConfusedStep ==
  ASSUME TypeOK, CallsAccounted, InOrder, QueuedInOrder, SwitchKnown, LayersAgree, OneAfterTheOther, [Next]_vars
  PROVE  device' = "confused" => ~Undisturbed'
<1> SUFFICES ASSUME Undisturbed', device' = "confused"
             PROVE  FALSE
  OBVIOUS
<1>1. Undisturbed
  BY UndisturbedBefore
<1>2. CASE device = "confused"
  BY <1>1, <1>2 DEF LayersAgree
<1>3. CASE DeviceConfused
  <2>1. toDevice # <<>> /\ device = IF Head(toDevice).secure THEN "plain" ELSE "tls"
    BY <1>3 DEF DeviceConfused
  <2>2. 1 \in DOMAIN toDevice /\ Head(toDevice) = toDevice[1]
    BY <2>1, TailElements DEF TypeOK
  <2>3. CASE secure
    BY <1>1, <2>1, <2>2, <2>3 DEF OneAfterTheOther, SwitchKnown
  <2>4. CASE ~secure
    BY <1>1, <2>1, <2>2, <2>4 DEF OneAfterTheOther, SwitchKnown
  <2>5. QED
    BY <2>3, <2>4
<1>4. ASSUME NEW body \in {"value", "error"}, DeviceAnswers(body) PROVE device' \in {"tls", device}
  BY <1>4, AnswerEffect
<1>5. device' = device \/ DeviceConfused \/ device' \in {"tls", "gone"}
  BY <1>4 DEF Next, Request, Poll, TimedOut, SocketData, EnableSessionSSL, Close, SocketEnd,
     DeviceCloses, vars, deviceVars
<1>6. QED
  BY <1>2, <1>3, <1>5

---------------------------------------------------------------------------
(* The theorems.                                                           *)

\* The invariant holds on a connection just made.
LEMMA InitInvariant == Init => IInv
<1> SUFFICES ASSUME Init
             PROVE  IInv
  OBVIOUS
<1>1. /\ MaxRequests \in Nat /\ calls = <<>> /\ Len(calls) = 0 /\ secure = FALSE
      /\ replyQueue = <<>> /\ toDevice = <<>> /\ wire = <<>> /\ device = "plain"
      /\ \A t \in Tags : t \in Nat \ {0} /\ promise[t] = "unmade" /\ taken[t] = 0 /\ said[t] = "nothing"
  BY LockdownAssumption DEF Init, Tags
<1>2. TypeOK
  <2>1. calls \in Seq(Kind) /\ replyQueue \in Seq(Tags) /\ toDevice \in Seq(Note) /\ wire \in Seq(Note)
    BY <1>1, EmptySeq
  <2>2. /\ promise \in [Tags -> {"unmade", "pending", "value", "unexpected", "timedOut"}]
        /\ taken \in [Tags -> Tags \cup {0}]
        /\ said \in [Tags -> {"nothing", "value", "error"}]
    BY DEF Init
  <2>3. /\ decoderPipes = 1 /\ upgradedAt = 0 /\ encoderPiped = TRUE
        /\ closing = FALSE /\ overlapped = FALSE
    BY DEF Init
  <2>4. decoderPipes = (IF secure THEN 2 ELSE 1) /\ secure \in BOOLEAN
    <3>1. ~secure /\ secure \in BOOLEAN
      BY <1>1
    <3>2. QED
      BY <2>3, <3>1
  <2>5. upgradedAt \in 0 .. Len(calls) /\ Len(calls) <= MaxRequests
    BY <1>1, <2>3
  <2>6. encoderPiped \in BOOLEAN /\ closing \in BOOLEAN /\ overlapped \in BOOLEAN
    BY <2>3
  <2>7. QED
    BY <1>1, <2>1, <2>2, <2>4, <2>5, <2>6 DEF TypeOK
<1>3. \A i : i \notin DOMAIN replyQueue /\ i \notin DOMAIN wire /\ i \notin DOMAIN toDevice
  BY <1>1
<1>4. CallsAccounted /\ InOrder
  BY <1>1, <1>3 DEF CallsAccounted, InOrder
<1>5. QueuedInOrder
  BY <1>1, <1>3 DEF QueuedInOrder
<1>6. \A r \in Tags : ~Switches(r)
  BY <1>1 DEF Switches
<1>7. SwitchKnown /\ LayersAgree
  BY <1>1, <1>3, <1>6 DEF SwitchKnown, LayersAgree
<1>8. OneAfterTheOther
  BY <1>1, <1>3, <1>6 DEF OneAfterTheOther, AllFor, NothingUnderWay, Pending
<1>9. QED
  BY <1>2, <1>4, <1>5, <1>7, <1>8 DEF IInv

\* The inductive invariant holds, for any operations, any number of requests and whatever
\* order callers, timers, socket and lockdownd act in.
THEOREM LockdownInvariant == Spec => []IInv
<1>1. Init => IInv
  BY InitInvariant
<1>2. IInv /\ [Next]_vars => IInv'
  <2> SUFFICES ASSUME IInv, [Next]_vars
               PROVE  IInv'
    OBVIOUS
  <2>1. TypeOK /\ CallsAccounted /\ InOrder /\ QueuedInOrder /\ SwitchKnown /\ LayersAgree /\ OneAfterTheOther
    BY DEF IInv
  <2>2. TypeOK' /\ CallsAccounted' /\ InOrder' /\ QueuedInOrder'
    BY <2>1, TypeStep, CallsAccountedStep, InOrderStep, QueuedInOrderStep
  <2>3. SwitchKnown' /\ OneAfterTheOther'
    BY <2>1, SwitchKnownStep, OneAfterTheOtherStep
  <2>4. LayersAgree'
    BY <2>1, WrittenAlikeStep, ConfusedStep DEF LayersAgree
  <2>5. QED
    BY <2>2, <2>3, <2>4 DEF IInv
<1>3. QED
  BY <1>1, <1>2, PTL DEF Spec

\* Called one after the other, with no timer fired, each call takes the reply to its own
\* request, and before TLS no two calls ever take the same one (replyQueue, queue.shift in
\* receivePlist).
THEOREM RepliesAreOwn == Spec => []OwnReply
<1>1. IInv => OwnReply
  BY DEF IInv, TypeOK, QueuedInOrder, OneAfterTheOther, OwnReply
<1>2. QED
  BY <1>1, LockdownInvariant, PTL

\* Every reply is read in the layer it was written in, and lockdownd can read every request
\* of callers that wait for each other (enableSessionSSL).
THEOREM LayersMatch == Spec => []LayersAgree
<1>1. IInv => LayersAgree
  BY DEF IInv
<1>2. QED
  BY <1>1, LockdownInvariant, PTL
=============================================================================
