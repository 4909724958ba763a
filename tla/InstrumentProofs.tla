-------------------------- MODULE InstrumentProofs --------------------------
(***************************************************************************)
(* Theorems about module Instrument, for any callers, channels and         *)
(* numbers of messages, and about the parsing of one message (DTXMessage). *)
(***************************************************************************)
EXTENDS Instrument, DTXMessage, SequenceTheorems, FiniteSetTheorems, WellFoundedInduction, TLAPS

---------------------------------------------------------------------------
(* The inductive invariant.                                                *)

Openings == [opens : {TRUE}, id : Ids, code : Nat, channel : Channels]
Callings == [opens : {FALSE}, id : Ids, code : Nat]
Acks == [acks : Nat]
Replies == [type : {"reply"}, id : Ids]
Pushes == [type : {"push"}, from : Channels, code : Nat, number : Nat, cancels : BOOLEAN, expects : BOOLEAN]
Makers == [phase : {"making"}, op : Operations, channel : Channels, code : Nat, id : Ids]
Askers == [phase : {"calling"}, channel : Channels, id : Ids]

TypeOK ==
  /\ DOMAIN channels \subseteq Channels /\ \A x \in DOMAIN channels : channels[x] \in Nat
  /\ nextIdentifier \in Nat \ {0}
  /\ replyQueues \subseteq Ids
  /\ channelCallbacks \subseteq [code : Nat, channel : Channels]
  /\ caller \in [Callers -> {Idle, Failed} \cup Makers \cup Askers]
  /\ closing \in BOOLEAN /\ piped \in BOOLEAN /\ released \in BOOLEAN /\ disposed \in BOOLEAN
  /\ raced \in BOOLEAN /\ gone \in BOOLEAN
  /\ delivered \subseteq [from : Channels, to : Channels]
  /\ unheard \subseteq Nat /\ acked \subseteq Nat /\ pushed \in Nat
  /\ asked \in [Ids -> Channels \cup {"none"}]
  /\ served \in [Ids -> Channels \cup {"none"}]
  /\ toDevice \in Seq(Openings \cup Callings \cup Acks)
  /\ inbox \in Seq(Replies \cup Pushes)
  /\ DOMAIN services \subseteq Nat /\ \A code \in DOMAIN services : services[code] \in Channels

Making(c) == caller[c] \in Makers

\* A reply with this identifier is in its queue, on its way, or still to be given.
Expected(id) ==
  \/ id \in replyQueues
  \/ \E i \in DOMAIN inbox : inbox[i] \in Replies /\ inbox[i].id = id
  \/ \E i \in DOMAIN toDevice : toDevice[i] \in Openings \cup Callings /\ toDevice[i].id = id

\* Identifiers that were not given out are in no message, and nothing runs under them.
Fresh ==
  /\ \A id \in Ids : id >= nextIdentifier => ~Expected(id) /\ served[id] = "none"
  /\ \A c \in Callers : caller[c] \in Makers \cup Askers => caller[c].id < nextIdentifier

\* What the device sends on a channel, it sends on one that it has.
PushedOnChannels ==
  \A i \in DOMAIN inbox : inbox[i] \in Pushes =>
    inbox[i].code \in DOMAIN services /\ services[inbox[i].code] = inbox[i].from

\* Channel x has asked for this code, or has it at the device, and rightly so: the code
\* is its own if it is the one of an open channel; and if it is the next one, x is the
\* channel that is being made, unless that one has failed and nothing is written any
\* more, so that no other channel can have a reply under the same code.
Rightful(code, x) ==
  /\ code <= NextCode
  /\ \A y \in DOMAIN channels : channels[y] = code => x = y
  /\ code = NextCode =>
       /\ ~closing => \E c \in Callers : Making(c) /\ caller[c].channel = x
       /\ \A c \in Callers : Making(c) /\ Expected(caller[c].id) => caller[c].channel = x

\* One channel is made at a time, under the next code.
OneIsMade ==
  ~raced =>
    /\ \A c, d \in Callers : Making(c) /\ Making(d) => c = d
    /\ \A c \in Callers : Making(c) => caller[c].channel \notin DOMAIN channels /\ caller[c].code = NextCode
    /\ \A x \in DOMAIN channels : channels[x] < NextCode
    /\ IsInjective(channels)

CodesRightful ==
  ~raced =>
    /\ \A code \in DOMAIN services : Rightful(code, services[code])
    /\ \A i \in DOMAIN toDevice : toDevice[i] \in Openings => Rightful(toDevice[i].code, toDevice[i].channel)

\* Calls and listeners go by the code of their channel.
UsedAsOpened ==
  ~raced =>
    /\ \A i \in DOMAIN toDevice : toDevice[i] \in Callings =>
         asked[toDevice[i].id] \in DOMAIN channels /\ channels[asked[toDevice[i].id]] = toDevice[i].code
    /\ \A l \in channelCallbacks : l.channel \in DOMAIN channels /\ channels[l.channel] = l.code

\* Acks under way are for unheard messages, and while the client writes none is missing.
AcksUnderWay ==
  /\ acked \subseteq unheard
  /\ \A i \in DOMAIN toDevice : toDevice[i] \in Acks => toDevice[i].acks \in unheard
  /\ ~closing => \A n \in unheard : n \in acked \/ \E i \in DOMAIN toDevice : toDevice[i] = Ack(n)

IInv ==
  /\ TypeOK /\ Fresh /\ PushedOnChannels /\ OneIsMade /\ CodesRightful /\ UsedAsOpened
  /\ AcksUnderWay /\ ChannelsApart

---------------------------------------------------------------------------
(* Messages, callers and queues.                                           *)

\* The kinds of message, and how each is told from the others.
LEMMA MessageKinds ==
  /\ \A m \in Openings : "opens" \in DOMAIN m /\ m.opens /\ m \notin Callings /\ m \notin Acks /\ m.id \in Ids
                         /\ m.code \in Nat /\ m.channel \in Channels
  /\ \A m \in Callings : "opens" \in DOMAIN m /\ ~m.opens /\ m \notin Openings /\ m \notin Acks /\ m.id \in Ids
                         /\ m.code \in Nat
  /\ \A m \in Acks : "acks" \in DOMAIN m /\ "opens" \notin DOMAIN m /\ m \notin Openings /\ m \notin Callings
                     /\ m.acks \in Nat /\ m = Ack(m.acks)
  /\ \A m \in Replies : m.type = "reply" /\ m \notin Pushes /\ m.id \in Ids
  /\ \A m \in Pushes : m.type = "push" /\ m \notin Replies /\ m.from \in Channels /\ m.code \in Nat /\ m.number \in Nat
                       /\ m.cancels \in BOOLEAN /\ m.expects \in BOOLEAN
<1>1. \A m \in Openings : DOMAIN m = {"opens", "id", "code", "channel"} /\ m.opens = TRUE
  BY DEF Openings
<1>2. \A m \in Callings : DOMAIN m = {"opens", "id", "code"} /\ m.opens = FALSE
  BY DEF Callings
<1>3. \A m \in Acks : DOMAIN m = {"acks"} /\ m.acks \in Nat /\ m = Ack(m.acks)
  BY DEF Acks, Ack
<1>4. /\ \A m \in Openings : m.id \in Ids /\ m.code \in Nat /\ m.channel \in Channels
      /\ \A m \in Callings : m.id \in Ids /\ m.code \in Nat
  BY DEF Openings, Callings
<1>5. \A m \in Replies : m.type = "reply" /\ m.id \in Ids
  BY DEF Replies
<1>6. \A m \in Pushes : m.type = "push" /\ m.from \in Channels /\ m.code \in Nat /\ m.number \in Nat
                       /\ m.cancels \in BOOLEAN /\ m.expects \in BOOLEAN
  BY DEF Pushes
<1>7. "opens" \notin {"acks"} /\ "acks" \notin {"opens", "id", "code"} /\ "acks" \notin {"opens", "id", "code", "channel"}
  OBVIOUS
<1>8. QED
  BY <1>1, <1>2, <1>3, <1>4, <1>5, <1>6, <1>7

\* The states of a caller, and how each is told from the others.
LEMMA CallerKinds ==
  /\ \A s \in Makers : s.phase = "making" /\ s \notin Askers /\ s # Idle /\ s # Failed
                       /\ s.id \in Ids /\ s.code \in Nat /\ s.channel \in Channels /\ s.op \in Operations
  /\ \A s \in Askers : s.phase = "calling" /\ s \notin Makers /\ s # Idle /\ s # Failed
                       /\ s.id \in Ids /\ s.channel \in Channels
  /\ Idle \notin Makers \cup Askers /\ Failed \notin Makers \cup Askers
  /\ Idle.phase \notin {"making", "calling"} /\ Failed.phase \notin {"making", "calling"}
<1>1. \A s \in Makers : s.phase = "making"
                       /\ s.id \in Ids /\ s.code \in Nat /\ s.channel \in Channels /\ s.op \in Operations
  BY DEF Makers
<1>2. \A s \in Askers : s.phase = "calling" /\ s.id \in Ids /\ s.channel \in Channels
  BY DEF Askers
<1>3. Idle.phase = "idle" /\ Failed.phase = "failed"
  BY DEF Idle, Failed
<1>4. QED
  BY <1>1, <1>2, <1>3

\* The messages and states the operators build are of the kind they are built as.
LEMMA Built ==
  /\ \A id \in Ids, code \in Nat, x \in Channels :
       /\ Opening(id, code, x) \in Openings /\ Opening(id, code, x).id = id
       /\ Opening(id, code, x).code = code /\ Opening(id, code, x).channel = x
  /\ \A id \in Ids, code \in Nat :
       Calling(id, code) \in Callings /\ Calling(id, code).id = id /\ Calling(id, code).code = code
  /\ \A n \in Nat : Ack(n) \in Acks /\ Ack(n).acks = n
  /\ \A id \in Ids : Reply(id) \in Replies /\ Reply(id).id = id
  BY DEF Opening, Openings, Calling, Callings, Ack, Acks, Reply, Replies

\* What is left of a non-empty sequence after its head.
LEMMA TailElements ==
  ASSUME NEW S, NEW s \in Seq(S), s # <<>>
  PROVE  /\ Head(s) = s[1] /\ Head(s) \in S /\ 1 \in DOMAIN s
         /\ Tail(s) \in Seq(S)
         /\ \A i \in DOMAIN Tail(s) : i \in Nat \ {0} /\ i + 1 \in DOMAIN s /\ Tail(s)[i] = s[i + 1]
         /\ \A i \in DOMAIN s : i = 1 \/ (i - 1 \in DOMAIN Tail(s) /\ Tail(s)[i - 1] = s[i])
<1>1. Len(s) \in Nat /\ Len(s) # 0 /\ DOMAIN s = 1 .. Len(s) /\ Tail(s) \in Seq(S) /\ Len(Tail(s)) = Len(s) - 1
  BY HeadTailProperties, EmptySeq
<1>2. DOMAIN Tail(s) = 1 .. Len(s) - 1 /\ \A i \in 1 .. Len(s) - 1 : Tail(s)[i] = s[i + 1]
  BY HeadTailProperties
<1>3. QED
  BY <1>1, <1>2, HeadTailProperties

\* What a sequence holds after one element is appended.
LEMMA AppendElements ==
  ASSUME NEW S, NEW s \in Seq(S), NEW e \in S
  PROVE  /\ Append(s, e) \in Seq(S)
         /\ \A i \in DOMAIN s : i \in DOMAIN Append(s, e) /\ Append(s, e)[i] = s[i]
         /\ \A i \in DOMAIN Append(s, e) :
              \/ i \in DOMAIN s /\ Append(s, e)[i] = s[i]
              \/ Append(s, e)[i] = e
         /\ \E i \in DOMAIN Append(s, e) : Append(s, e)[i] = e
  BY AppendProperties

\* Channels are finite, so that codes count them.
LEMMA CodeCounts ==
  ASSUME TypeOK
  PROVE  /\ IsFiniteSet(DOMAIN channels) /\ NextCode \in Nat \ {0}
         /\ \A x : x \notin DOMAIN channels => Cardinality(DOMAIN channels \cup {x}) = Cardinality(DOMAIN channels) + 1
<1>1. IsFiniteSet(DOMAIN channels)
  BY InstrumentAssumption, FS_Subset DEF TypeOK
<1>2. Cardinality(DOMAIN channels) \in Nat
  BY <1>1, FS_CardinalityType
<1>3. QED
  BY <1>1, <1>2, FS_AddElement DEF NextCode

---------------------------------------------------------------------------
(* What the steps do.                                                      *)

\* The client writes message m if its socket is open, after all it has written.
Written(m) ==
  /\ \A i \in DOMAIN toDevice : i \in DOMAIN toDevice' /\ toDevice'[i] = toDevice[i]
  /\ \A i \in DOMAIN toDevice' :
       \/ i \in DOMAIN toDevice /\ toDevice'[i] = toDevice[i]
       \/ toDevice'[i] = m /\ ~closing

\* What _callChannel sends, it sends while the socket is open and under an identifier of
\* its own.
LEMMA SendEffect ==
  ASSUME TypeOK, NEW m \in Openings \cup Callings, NEW x \in Channels, Send(m, x)
  PROVE  /\ nextIdentifier \in Ids /\ nextIdentifier' = nextIdentifier + 1
         /\ asked' \in [Ids -> Channels \cup {"none"}] /\ asked'[nextIdentifier] = x
         /\ \A i \in Ids \ {nextIdentifier} : asked'[i] = asked[i]
         /\ toDevice' \in Seq(Openings \cup Callings \cup Acks)
         /\ Written(m)
<1>1. nextIdentifier \in Ids /\ nextIdentifier' = nextIdentifier + 1
  BY InstrumentAssumption DEF Send, TypeOK, Ids
<1>2. asked' = [asked EXCEPT ![nextIdentifier] = x] /\ asked \in [Ids -> Channels \cup {"none"}]
  BY DEF Send, TypeOK
<1>3. toDevice \in Seq(Openings \cup Callings \cup Acks) /\ m \in Openings \cup Callings \cup Acks
  BY DEF TypeOK
<1>4. toDevice' = toDevice \/ (toDevice' = Append(toDevice, m) /\ ~closing)
  BY DEF Send
<1> HIDE DEF Openings, Callings, Acks
<1>5. CASE toDevice' = toDevice
  BY <1>1, <1>2, <1>3, <1>5 DEF Written
<1>6. CASE toDevice' = Append(toDevice, m) /\ ~closing
  BY <1>1, <1>2, <1>3, <1>6, AppendElements DEF Written
<1>7. QED
  BY <1>4, <1>5, <1>6

\* A caller goes on with the code of its channel: it calls or it listens.
LEMMA ProceedEffect ==
  ASSUME TypeOK, NEW c \in Callers, NEW op \in Operations, NEW x \in Channels, NEW code \in Nat,
         Proceed(c, op, x, code)
  PROVE  /\ nextIdentifier' \in {nextIdentifier, nextIdentifier + 1}
         /\ asked' \in [Ids -> Channels \cup {"none"}]
         /\ \A i \in Ids \ {nextIdentifier} : asked'[i] = asked[i]
         /\ nextIdentifier' = nextIdentifier => asked' = asked
         /\ toDevice' \in Seq(Openings \cup Callings \cup Acks)
         /\ \/ UNCHANGED toDevice
            \/ /\ Written(Calling(nextIdentifier, code)) /\ asked'[nextIdentifier] = x
               /\ nextIdentifier \in Ids /\ nextIdentifier' = nextIdentifier + 1
         /\ channelCallbacks' \in {channelCallbacks, channelCallbacks \cup {[code |-> code, channel |-> x]}}
         /\ caller' = [caller EXCEPT ![c] = caller'[c]]
         /\ \/ caller'[c] = Idle
            \/ /\ caller'[c] = [phase |-> "calling", channel |-> x, id |-> nextIdentifier]
               /\ caller'[c] \in Askers /\ nextIdentifier' = nextIdentifier + 1
<1>1. caller \in [Callers -> {Idle, Failed} \cup Makers \cup Askers]
  BY DEF TypeOK
<1>2. CASE op = "call"
  <2>1. /\ Send(Calling(nextIdentifier, code), x)
        /\ caller' = [caller EXCEPT ![c] = [phase |-> "calling", channel |-> x, id |-> nextIdentifier]]
        /\ UNCHANGED channelCallbacks
    BY <1>2 DEF Proceed, Operations
  <2>2. nextIdentifier \in Ids
    BY <2>1, InstrumentAssumption DEF Send, TypeOK, Ids
  <2>3. Calling(nextIdentifier, code) \in Callings
    BY <2>2, Built
  <2>4. [phase |-> "calling", channel |-> x, id |-> nextIdentifier] \in Askers
    BY <2>2 DEF Askers
  <2>5. /\ nextIdentifier' = nextIdentifier + 1 /\ nextIdentifier \in Nat
        /\ asked' \in [Ids -> Channels \cup {"none"}] /\ asked'[nextIdentifier] = x
        /\ \A i \in Ids \ {nextIdentifier} : asked'[i] = asked[i]
        /\ toDevice' \in Seq(Openings \cup Callings \cup Acks)
        /\ Written(Calling(nextIdentifier, code))
    BY <2>1, <2>3, SendEffect DEF TypeOK
  <2>6. caller' = [caller EXCEPT ![c] = caller'[c]] /\ caller'[c] = [phase |-> "calling", channel |-> x, id |-> nextIdentifier]
    BY <1>1, <2>1
  <2>7. QED
    BY <2>1, <2>2, <2>4, <2>5, <2>6
<1>3. CASE op = "listen"
  <2>1. /\ channelCallbacks' = channelCallbacks \cup {[code |-> code, channel |-> x]}
        /\ caller' = [caller EXCEPT ![c] = Idle]
        /\ UNCHANGED <<nextIdentifier, asked, toDevice>>
    BY <1>3 DEF Proceed, Operations
  <2>2. caller' = [caller EXCEPT ![c] = caller'[c]] /\ caller'[c] = Idle
    BY <1>1, <2>1
  <2>3. QED
    BY <2>1, <2>2 DEF TypeOK
<1>4. QED
  BY <1>2, <1>3 DEF Operations


\* A channel is going to be made.
LEMMA MakeEffect ==
  ASSUME TypeOK, NEW c \in Callers, NEW op \in Operations, NEW x \in Channels,
         x \notin DOMAIN channels, Start(c, op, x)
  PROVE  LET m == Opening(nextIdentifier, NextCode, x)
         IN  /\ nextIdentifier \in Ids /\ nextIdentifier' = nextIdentifier + 1
             /\ m \in Openings /\ m.id = nextIdentifier /\ m.code = NextCode /\ m.channel = x
             /\ asked' \in [Ids -> Channels \cup {"none"}]
             /\ \A i \in Ids \ {nextIdentifier} : asked'[i] = asked[i]
             /\ toDevice' \in Seq(Openings \cup Callings \cup Acks)
             /\ Written(m)
             /\ caller' = [caller EXCEPT ![c] = caller'[c]]
             /\ caller'[c] \in Makers /\ caller'[c].channel = x /\ caller'[c].code = NextCode
             /\ caller'[c].id = nextIdentifier
             /\ raced' = (raced \/ \E d \in Callers : caller[d].phase = "making")
             /\ UNCHANGED <<channels, replyQueues, channelCallbacks, socketVars, delivered, unheard, inbox, deviceVars>>
<1> DEFINE m == Opening(nextIdentifier, NextCode, x)
           s == [phase |-> "making", op |-> op, channel |-> x, code |-> NextCode, id |-> nextIdentifier]
<1>1. /\ Send(m, x) /\ caller' = [caller EXCEPT ![c] = s]
      /\ raced' = (raced \/ \E d \in Callers : caller[d].phase = "making")
      /\ UNCHANGED channelCallbacks
      /\ UNCHANGED <<channels, replyQueues, socketVars, delivered, unheard, inbox, deviceVars>>
  BY DEF Start
<1>2. nextIdentifier \in Ids /\ NextCode \in Nat
  BY <1>1, CodeCounts, InstrumentAssumption DEF Send, TypeOK, Ids
<1>3. m \in Openings /\ m.id = nextIdentifier /\ m.code = NextCode /\ m.channel = x
  BY <1>2, Built
<1>4. s \in Makers /\ s.channel = x /\ s.code = NextCode /\ s.id = nextIdentifier
  BY <1>2 DEF Makers
<1>5. caller' = [caller EXCEPT ![c] = caller'[c]] /\ caller'[c] = s
  BY <1>1 DEF TypeOK
<1> HIDE DEF m, s
<1>6. /\ nextIdentifier \in Ids /\ nextIdentifier' = nextIdentifier + 1
      /\ asked' \in [Ids -> Channels \cup {"none"}]
      /\ \A i \in Ids \ {nextIdentifier} : asked'[i] = asked[i]
      /\ toDevice' \in Seq(Openings \cup Callings \cup Acks)
      /\ Written(m)
  BY <1>1, <1>3, SendEffect
<1>7. QED
  BY <1>1, <1>3, <1>4, <1>5, <1>6 DEF m

\* A channel was made, and is used.
LEMMA MadeEffect ==
  ASSUME TypeOK, NEW c \in Callers, ChannelMade(c)
  PROVE  /\ caller[c] \in Makers /\ caller[c].id \in replyQueues
         /\ replyQueues' = replyQueues \ {caller[c].id}
         /\ DOMAIN channels' = DOMAIN channels \cup {caller[c].channel}
         /\ channels'[caller[c].channel] = caller[c].code
         /\ \A y \in DOMAIN channels : y # caller[c].channel => channels'[y] = channels[y]
         /\ caller[c].op \in Operations /\ caller[c].channel \in Channels /\ caller[c].code \in Nat
         /\ Proceed(c, caller[c].op, caller[c].channel, caller[c].code)
         /\ UNCHANGED <<socketVars, raced, delivered, unheard, inbox, deviceVars>>
<1>1. caller[c] \in Makers
  BY CallerKinds DEF ChannelMade, TypeOK
<1>2. caller[c].op \in Operations /\ caller[c].channel \in Channels /\ caller[c].code \in Nat
  BY <1>1, CallerKinds
<1>3. QED
  BY <1>1, <1>2 DEF ChannelMade, HasReply

\* The first message of the inbox is handled.
LEMMA HandleEffect ==
  ASSUME TypeOK, HandleData
  PROVE  /\ 1 \in DOMAIN inbox /\ inbox[1] \in Replies \cup Pushes
         /\ inbox' \in Seq(Replies \cup Pushes)
         /\ \A i \in DOMAIN inbox' : i \in Nat \ {0} /\ i + 1 \in DOMAIN inbox /\ inbox'[i] = inbox[i + 1]
         /\ toDevice' \in Seq(Openings \cup Callings \cup Acks)
         /\ \A i \in DOMAIN toDevice : i \in DOMAIN toDevice' /\ toDevice'[i] = toDevice[i]
         /\ \A i \in DOMAIN toDevice' :
              \/ i \in DOMAIN toDevice /\ toDevice'[i] = toDevice[i]
              \/ /\ inbox[1] \in Pushes /\ toDevice'[i] = Ack(inbox[1].number) /\ toDevice'[i] \in Acks
                 /\ inbox[1].number \in unheard'
         /\ \/ /\ inbox[1] \in Replies
               /\ replyQueues' = replyQueues \cup {inbox[1].id}
               /\ UNCHANGED <<closing, delivered, unheard, toDevice>>
            \/ /\ inbox[1] \in Pushes
               /\ closing' = (closing \/ inbox[1].cancels)
               /\ delivered' \in {delivered, delivered \cup
                                   {[from |-> inbox[1].from, to |-> l.channel] : l \in Listeners(inbox[1])}}
               /\ unheard' \in {unheard, unheard \cup {inbox[1].number}}
               /\ ~closing' /\ unheard' # unheard =>
                    \E i \in DOMAIN toDevice' : toDevice'[i] = Ack(inbox[1].number)
               /\ UNCHANGED replyQueues
         /\ UNCHANGED <<channels, nextIdentifier, channelCallbacks, caller, piped, released, disposed,
                        raced, asked, deviceVars>>
<1>1. inbox \in Seq(Replies \cup Pushes) /\ inbox # <<>> /\ inbox' = Tail(inbox)
  BY DEF TypeOK, HandleData
<1>2. /\ Head(inbox) = inbox[1] /\ 1 \in DOMAIN inbox /\ inbox[1] \in Replies \cup Pushes
      /\ inbox' \in Seq(Replies \cup Pushes)
      /\ \A i \in DOMAIN inbox' : i \in Nat \ {0} /\ i + 1 \in DOMAIN inbox /\ inbox'[i] = inbox[i + 1]
  BY <1>1, TailElements
<1>3. toDevice \in Seq(Openings \cup Callings \cup Acks)
  BY DEF TypeOK
<1> DEFINE m == inbox[1]
           Framed == UNCHANGED <<channels, nextIdentifier, channelCallbacks, caller, piped, released, disposed,
                                 raced, asked, deviceVars>>
<1>4. Framed
  BY DEF HandleData
<1>5. \/ /\ m.type = "reply"
         /\ replyQueues' = replyQueues \cup {m.id}
         /\ UNCHANGED <<closing, delivered, unheard, toDevice>>
      \/ /\ m.type = "push"
         /\ closing' = (closing \/ m.cancels)
         /\ \/ /\ delivered' = delivered \cup {[from |-> m.from, to |-> l.channel] : l \in Listeners(m)}
               /\ UNCHANGED <<unheard, toDevice>>
            \/ /\ m.expects
               /\ unheard' = unheard \cup {m.number}
               /\ toDevice' = IF ~closing' THEN Append(toDevice, Ack(m.number)) ELSE toDevice
               /\ UNCHANGED delivered
            \/ UNCHANGED <<unheard, toDevice, delivered>>
         /\ UNCHANGED replyQueues
  BY <1>2 DEF HandleData, ReplyAck
<1> HIDE DEF m, Framed
<1>6. CASE m.type = "reply"
  <2>1. m \in Replies /\ m \notin Pushes
    BY <1>2, <1>6, MessageKinds DEF m
  <2>2. QED
    BY <1>2, <1>3, <1>4, <1>5, <1>6, <2>1 DEF m, Framed
<1>7. CASE m.type = "push"
  <2>1. m \in Pushes /\ m.number \in Nat
    BY <1>2, <1>7, MessageKinds DEF m
  <2>2. Ack(m.number) \in Acks
    BY <2>1, Built
  <2>3. Ack(m.number) \in Openings \cup Callings \cup Acks
    BY <2>2
  <2>4. CASE UNCHANGED toDevice /\ unheard' = unheard
    BY <1>2, <1>3, <1>4, <1>5, <1>7, <2>1, <2>4 DEF m, Framed
  <2>5. CASE /\ m.expects /\ unheard' = unheard \cup {m.number}
             /\ toDevice' = Append(toDevice, Ack(m.number)) /\ UNCHANGED delivered
    <3>1. /\ toDevice' \in Seq(Openings \cup Callings \cup Acks)
          /\ \A i \in DOMAIN toDevice : i \in DOMAIN toDevice' /\ toDevice'[i] = toDevice[i]
          /\ \A i \in DOMAIN toDevice' :
               \/ i \in DOMAIN toDevice /\ toDevice'[i] = toDevice[i]
               \/ toDevice'[i] = Ack(m.number)
          /\ \E i \in DOMAIN toDevice' : toDevice'[i] = Ack(m.number)
      BY <1>3, <2>3, <2>5, AppendElements
    <3>2. QED
      BY <1>2, <1>4, <1>5, <1>7, <2>1, <2>2, <2>5, <3>1 DEF m, Framed
  <2>6. CASE /\ m.expects /\ unheard' = unheard \cup {m.number}
             /\ closing' /\ toDevice' = toDevice /\ UNCHANGED delivered
    BY <1>2, <1>3, <1>4, <1>5, <1>7, <2>1, <2>6 DEF m, Framed
  <2>7. QED
    BY <1>5, <1>7, <2>4, <2>5, <2>6
<1>8. QED
  BY <1>2, <1>6, <1>7, MessageKinds DEF m

\* The device takes a request.
LEMMA AnswerEffect ==
  ASSUME TypeOK, DeviceAnswers
  PROVE  /\ 1 \in DOMAIN toDevice /\ toDevice[1] \in Openings \cup Callings
         /\ toDevice' \in Seq(Openings \cup Callings \cup Acks)
         /\ \A i \in DOMAIN toDevice' : i \in Nat \ {0} /\ i + 1 \in DOMAIN toDevice /\ toDevice'[i] = toDevice[i + 1]
         /\ \A i \in DOMAIN toDevice : i = 1 \/ (i - 1 \in DOMAIN toDevice' /\ toDevice'[i - 1] = toDevice[i])
         /\ inbox' \in Seq(Replies \cup Pushes)
         /\ \A i \in DOMAIN inbox' :
              \/ i \in DOMAIN inbox /\ inbox'[i] = inbox[i]
              \/ inbox'[i] = Reply(toDevice[1].id) /\ inbox'[i] \in Replies
         /\ \/ /\ toDevice[1] \in Openings /\ toDevice[1].code \notin DOMAIN services
               /\ DOMAIN services' = DOMAIN services \cup {toDevice[1].code}
               /\ services'[toDevice[1].code] = toDevice[1].channel
               /\ \A k \in DOMAIN services : services'[k] = services[k]
               /\ UNCHANGED served
            \/ UNCHANGED <<services, served>>
            \/ /\ toDevice[1] \in Callings
               /\ served' = [served EXCEPT ![toDevice[1].id] = served'[toDevice[1].id]]
               /\ \/ served'[toDevice[1].id] = "none"
                  \/ /\ toDevice[1].code \in DOMAIN services
                     /\ served'[toDevice[1].id] = services[toDevice[1].code]
               /\ UNCHANGED services
         /\ UNCHANGED <<clientVars, socketVars, historyVars, pushed, acked, gone>>
<1>1. toDevice \in Seq(Openings \cup Callings \cup Acks) /\ toDevice # <<>> /\ toDevice' = Tail(toDevice)
  BY DEF TypeOK, DeviceAnswers
<1>2. /\ Head(toDevice) = toDevice[1] /\ 1 \in DOMAIN toDevice /\ toDevice[1] \in Openings \cup Callings \cup Acks
      /\ toDevice' \in Seq(Openings \cup Callings \cup Acks)
      /\ \A i \in DOMAIN toDevice' : i \in Nat \ {0} /\ i + 1 \in DOMAIN toDevice /\ toDevice'[i] = toDevice[i + 1]
      /\ \A i \in DOMAIN toDevice : i = 1 \/ (i - 1 \in DOMAIN toDevice' /\ toDevice'[i - 1] = toDevice[i])
  BY <1>1, TailElements
<1> DEFINE m == toDevice[1]
<1>3. m \in Openings \cup Callings
  BY <1>2, MessageKinds DEF DeviceAnswers
<1>4. m.id \in Ids
  BY <1>3, MessageKinds
<1>5. Reply(m.id) \in Replies /\ Reply(m.id) \in Replies \cup Pushes /\ inbox \in Seq(Replies \cup Pushes)
  BY <1>4, Built DEF TypeOK
<1>6. inbox' = Append(inbox, Reply(m.id))
  BY <1>2 DEF DeviceAnswers
<1>7. /\ inbox' \in Seq(Replies \cup Pushes)
      /\ \A i \in DOMAIN inbox' :
           \/ i \in DOMAIN inbox /\ inbox'[i] = inbox[i]
           \/ inbox'[i] = Reply(m.id) /\ inbox'[i] \in Replies
  BY <1>5, <1>6, AppendElements
<1>8. \/ /\ m.opens /\ m.code \notin DOMAIN services
         /\ services' = [k \in DOMAIN services \cup {m.code} |-> IF k = m.code THEN m.channel ELSE services[k]]
         /\ UNCHANGED served
      \/ UNCHANGED <<services, served>>
      \/ /\ ~m.opens
         /\ served' = [served EXCEPT ![m.id] = IF m.code \in DOMAIN services THEN services[m.code] ELSE "none"]
         /\ UNCHANGED services
  BY <1>2 DEF DeviceAnswers
<1>9. UNCHANGED <<clientVars, socketVars, historyVars, pushed, acked, gone>>
  BY DEF DeviceAnswers
<1>10. /\ m.opens => m \in Openings
       /\ ~m.opens => m \in Callings
  BY <1>3, MessageKinds
<1> HIDE DEF m
<1>11. \/ /\ m \in Openings /\ m.code \notin DOMAIN services
          /\ DOMAIN services' = DOMAIN services \cup {m.code}
          /\ services'[m.code] = m.channel
          /\ \A k \in DOMAIN services : services'[k] = services[k]
          /\ UNCHANGED served
       \/ UNCHANGED <<services, served>>
       \/ /\ m \in Callings
          /\ served' = [served EXCEPT ![m.id] = served'[m.id]]
          /\ \/ served'[m.id] = "none"
             \/ m.code \in DOMAIN services /\ served'[m.id] = services[m.code]
          /\ UNCHANGED services
  <2>1. CASE /\ m.opens /\ m.code \notin DOMAIN services
             /\ services' = [k \in DOMAIN services \cup {m.code} |-> IF k = m.code THEN m.channel ELSE services[k]]
             /\ UNCHANGED served
    BY <1>10, <2>1
  <2>2. CASE /\ ~m.opens
             /\ served' = [served EXCEPT ![m.id] = IF m.code \in DOMAIN services THEN services[m.code] ELSE "none"]
             /\ UNCHANGED services
    BY <1>4, <1>10, <2>2 DEF TypeOK
  <2>3. QED
    BY <1>8, <2>1, <2>2
<1>12. QED
  BY <1>2, <1>3, <1>7, <1>9, <1>11 DEF m

\* The device takes an ack.
LEMMA ReadsAckEffect ==
  ASSUME TypeOK, DeviceReadsAck
  PROVE  /\ 1 \in DOMAIN toDevice /\ toDevice[1] \in Acks /\ acked' = acked \cup {toDevice[1].acks}
         /\ toDevice' \in Seq(Openings \cup Callings \cup Acks)
         /\ \A i \in DOMAIN toDevice' : i \in Nat \ {0} /\ i + 1 \in DOMAIN toDevice /\ toDevice'[i] = toDevice[i + 1]
         /\ \A i \in DOMAIN toDevice : i = 1 \/ (i - 1 \in DOMAIN toDevice' /\ toDevice'[i - 1] = toDevice[i])
         /\ UNCHANGED <<clientVars, socketVars, historyVars, inbox, services, served, pushed, gone>>
<1>1. toDevice \in Seq(Openings \cup Callings \cup Acks) /\ toDevice # <<>> /\ toDevice' = Tail(toDevice)
  BY DEF TypeOK, DeviceReadsAck
<1>2. /\ Head(toDevice) = toDevice[1] /\ 1 \in DOMAIN toDevice /\ toDevice[1] \in Openings \cup Callings \cup Acks
      /\ toDevice' \in Seq(Openings \cup Callings \cup Acks)
      /\ \A i \in DOMAIN toDevice' : i \in Nat \ {0} /\ i + 1 \in DOMAIN toDevice /\ toDevice'[i] = toDevice[i + 1]
      /\ \A i \in DOMAIN toDevice : i = 1 \/ (i - 1 \in DOMAIN toDevice' /\ toDevice'[i - 1] = toDevice[i])
  BY <1>1, TailElements
<1>3. "acks" \in DOMAIN toDevice[1]
  BY <1>2 DEF DeviceReadsAck
<1>4. \A m \in Openings \cup Callings : "acks" \notin DOMAIN m
  <2>1. \A m \in Openings : DOMAIN m = {"opens", "id", "code", "channel"}
    BY DEF Openings
  <2>2. \A m \in Callings : DOMAIN m = {"opens", "id", "code"}
    BY DEF Callings
  <2>3. QED
    BY <2>1, <2>2
<1>5. QED
  BY <1>2, <1>3, <1>4 DEF DeviceReadsAck

\* The device sends a message of its own.
LEMMA PushEffect ==
  ASSUME TypeOK, NEW code \in Codes, NEW cancels \in BOOLEAN, NEW expects \in BOOLEAN,
         DevicePushes(code, cancels, expects)
  PROVE  /\ inbox' \in Seq(Replies \cup Pushes) /\ code \in DOMAIN services /\ pushed' = pushed + 1
         /\ \A i \in DOMAIN inbox' :
              \/ i \in DOMAIN inbox /\ inbox'[i] = inbox[i]
              \/ inbox'[i] \in Pushes /\ inbox'[i].code = code /\ inbox'[i].from = services[code]
         /\ UNCHANGED <<clientVars, socketVars, historyVars, toDevice, services, served, acked, gone>>
<1> DEFINE m == [type |-> "push", from |-> services[code], code |-> code,
                 number |-> pushed', cancels |-> cancels, expects |-> expects]
<1>1. /\ code \in DOMAIN services /\ pushed' = pushed + 1 /\ inbox' = Append(inbox, m)
      /\ UNCHANGED <<clientVars, socketVars, historyVars, toDevice, services, served, acked, gone>>
  BY DEF DevicePushes
<1>2. code \in Nat /\ services[code] \in Channels /\ pushed' \in Nat
  BY <1>1 DEF TypeOK
<1>3. m \in Pushes /\ m.code = code /\ m.from = services[code]
  BY <1>2 DEF Pushes
<1>4. inbox \in Seq(Replies \cup Pushes)
  BY DEF TypeOK
<1> HIDE DEF m
<1>5. /\ inbox' \in Seq(Replies \cup Pushes)
      /\ \A i \in DOMAIN inbox' : (i \in DOMAIN inbox /\ inbox'[i] = inbox[i]) \/ inbox'[i] = m
  BY <1>1, <1>3, <1>4, AppendElements
<1>6. QED
  BY <1>1, <1>3, <1>5


---------------------------------------------------------------------------
(* Type correctness.                                                       *)

\* The part of TypeOK that Proceed changes.
TypedProceed ==
  /\ nextIdentifier \in Nat \ {0}
  /\ channelCallbacks \subseteq [code : Nat, channel : Channels]
  /\ caller \in [Callers -> {Idle, Failed} \cup Makers \cup Askers]
  /\ asked \in [Ids -> Channels \cup {"none"}]
  /\ toDevice \in Seq(Openings \cup Callings \cup Acks)

\* A caller that has its channel leaves what Proceed changes typed.
LEMMA ProceedTyped ==
  ASSUME TypeOK, NEW c \in Callers, NEW op \in Operations, NEW x \in Channels, NEW code \in Nat,
         Proceed(c, op, x, code)
  PROVE  TypedProceed'
<1>1. /\ nextIdentifier' \in {nextIdentifier, nextIdentifier + 1}
      /\ asked' \in [Ids -> Channels \cup {"none"}]
      /\ toDevice' \in Seq(Openings \cup Callings \cup Acks)
      /\ channelCallbacks' \in {channelCallbacks, channelCallbacks \cup {[code |-> code, channel |-> x]}}
      /\ caller' = [caller EXCEPT ![c] = caller'[c]]
      /\ caller'[c] \in {Idle} \cup Askers
  BY ProceedEffect
<1>2. caller' \in [Callers -> {Idle, Failed} \cup Makers \cup Askers]
  BY <1>1 DEF TypeOK
<1>3. channelCallbacks' \subseteq [code : Nat, channel : Channels] /\ nextIdentifier' \in Nat \ {0}
  BY <1>1 DEF TypeOK
<1>4. QED
  BY <1>1, <1>2, <1>3 DEF TypedProceed

\* Each step of the instrument service preserves the types.
LEMMA TypeStep == TypeOK /\ [Next]_vars => TypeOK'
<1> SUFFICES ASSUME TypeOK, [Next]_vars
             PROVE  TypeOK'
  OBVIOUS
<1> USE DEF clientVars, socketVars, historyVars, deviceVars
<1>a. nextIdentifier \in Nat \ {0} /\ caller \in [Callers -> {Idle, Failed} \cup Makers \cup Askers]
  BY DEF TypeOK
<1>1. ASSUME NEW c \in Callers, NEW op \in Operations, NEW x \in Channels, Start(c, op, x) PROVE TypeOK'
  <2>1. CASE x \notin DOMAIN channels
    <3>1. /\ nextIdentifier' = nextIdentifier + 1
          /\ asked' \in [Ids -> Channels \cup {"none"}]
          /\ toDevice' \in Seq(Openings \cup Callings \cup Acks)
          /\ caller' = [caller EXCEPT ![c] = caller'[c]] /\ caller'[c] \in Makers
          /\ raced' = (raced \/ \E d \in Callers : caller[d].phase = "making")
          /\ UNCHANGED <<channels, replyQueues, channelCallbacks, socketVars, delivered, unheard, inbox, deviceVars>>
      BY <1>1, <2>1, MakeEffect
    <3>2. caller' \in [Callers -> {Idle, Failed} \cup Makers \cup Askers] /\ nextIdentifier' \in Nat \ {0}
      BY <1>a, <3>1
    <3>3. raced' \in BOOLEAN
      BY <3>1 DEF TypeOK
    <3>4. QED
      BY <3>1, <3>2, <3>3 DEF TypeOK
  <2>2. CASE x \in DOMAIN channels
    <3>1. /\ Proceed(c, op, x, channels[x])
          /\ UNCHANGED <<channels, replyQueues, socketVars, raced, delivered, unheard, inbox, deviceVars>>
      BY <1>1, <2>2 DEF Start
    <3>2. channels[x] \in Nat
      BY <2>2 DEF TypeOK
    <3>3. TypedProceed'
      BY <3>1, <3>2, ProceedTyped
    <3>4. QED
      BY <3>1, <3>3 DEF TypeOK, TypedProceed
  <2>3. QED
    BY <2>1, <2>2
<1>2. ASSUME NEW c \in Callers, ChannelMade(c) PROVE TypeOK'
  <2>1. /\ replyQueues' = replyQueues \ {caller[c].id}
        /\ DOMAIN channels' = DOMAIN channels \cup {caller[c].channel}
        /\ channels'[caller[c].channel] = caller[c].code
        /\ \A y \in DOMAIN channels : y # caller[c].channel => channels'[y] = channels[y]
        /\ caller[c].op \in Operations /\ caller[c].channel \in Channels /\ caller[c].code \in Nat
        /\ Proceed(c, caller[c].op, caller[c].channel, caller[c].code)
        /\ UNCHANGED <<socketVars, raced, delivered, unheard, inbox, deviceVars>>
    BY <1>2, MadeEffect
  <2>2. TypedProceed'
    BY <2>1, ProceedTyped
  <2>3. DOMAIN channels' \subseteq Channels /\ \A y \in DOMAIN channels' : channels'[y] \in Nat
    BY <2>1 DEF TypeOK
  <2>4. QED
    BY <2>1, <2>2, <2>3 DEF TypeOK, TypedProceed
<1>3. ASSUME NEW c \in Callers, CallReturns(c) PROVE TypeOK'
  <2>1. caller' \in [Callers -> {Idle, Failed} \cup Makers \cup Askers] /\ replyQueues' \subseteq Ids
    BY <1>3 DEF CallReturns, TypeOK
  <2>2. QED
    BY <1>3, <2>1 DEF CallReturns, TypeOK
<1>4. ASSUME NEW c \in Callers, TimedOut(c) \/ Retry(c) PROVE TypeOK'
  <2>1. caller' \in [Callers -> {Idle, Failed} \cup Makers \cup Askers] /\ closing' \in BOOLEAN
    BY <1>4 DEF TimedOut, Retry, TypeOK
  <2>2. UNCHANGED <<channels, nextIdentifier, replyQueues, channelCallbacks, piped, released, disposed,
                    historyVars, toDevice, inbox, deviceVars>>
    BY <1>4 DEF TimedOut, Retry
  <2>3. QED
    BY <2>1, <2>2 DEF TypeOK
<1>5. CASE HandleData
  <2>1. /\ inbox[1] \in Replies \cup Pushes
        /\ inbox' \in Seq(Replies \cup Pushes)
        /\ toDevice' \in Seq(Openings \cup Callings \cup Acks)
        /\ \/ /\ inbox[1] \in Replies
              /\ replyQueues' = replyQueues \cup {inbox[1].id}
              /\ UNCHANGED <<closing, delivered, unheard, toDevice>>
           \/ /\ inbox[1] \in Pushes
              /\ closing' = (closing \/ inbox[1].cancels)
              /\ delivered' \in {delivered, delivered \cup
                                   {[from |-> inbox[1].from, to |-> l.channel] : l \in Listeners(inbox[1])}}
              /\ unheard' \in {unheard, unheard \cup {inbox[1].number}}
              /\ UNCHANGED replyQueues
        /\ UNCHANGED <<channels, nextIdentifier, channelCallbacks, caller, piped, released, disposed,
                       raced, asked, deviceVars>>
    BY <1>5, HandleEffect
  <2>2. /\ inbox[1] \in Replies => inbox[1].id \in Ids
        /\ inbox[1] \in Pushes => inbox[1].from \in Channels /\ inbox[1].number \in Nat /\ inbox[1].cancels \in BOOLEAN
    BY MessageKinds
  <2>3. inbox[1] \in Pushes =>
          {[from |-> inbox[1].from, to |-> l.channel] : l \in Listeners(inbox[1])} \subseteq [from : Channels, to : Channels]
    BY <2>2 DEF Listeners, TypeOK
  <2>4. replyQueues' \subseteq Ids /\ unheard' \subseteq Nat /\ delivered' \subseteq [from : Channels, to : Channels]
    BY <2>1, <2>2, <2>3 DEF TypeOK
  <2>5. closing' \in BOOLEAN
    BY <2>1, <2>2 DEF TypeOK
  <2>6. QED
    BY <2>1, <2>4, <2>5 DEF TypeOK
<1>6. CASE Close
  BY <1>6 DEF Close, TypeOK
<1>7. CASE Dispose
  BY <1>7 DEF Dispose, TypeOK
<1>8. CASE SocketEnd
  BY <1>8 DEF SocketEnd, TypeOK
<1>9. CASE DeviceAnswers
  <2>1. /\ toDevice[1] \in Openings \cup Callings
        /\ toDevice' \in Seq(Openings \cup Callings \cup Acks)
        /\ inbox' \in Seq(Replies \cup Pushes)
        /\ \/ /\ toDevice[1] \in Openings
              /\ DOMAIN services' = DOMAIN services \cup {toDevice[1].code}
              /\ services'[toDevice[1].code] = toDevice[1].channel
              /\ \A k \in DOMAIN services : services'[k] = services[k]
              /\ UNCHANGED served
           \/ UNCHANGED <<services, served>>
           \/ /\ served' = [served EXCEPT ![toDevice[1].id] = served'[toDevice[1].id]]
              /\ \/ served'[toDevice[1].id] = "none"
                 \/ /\ toDevice[1].code \in DOMAIN services
                    /\ served'[toDevice[1].id] = services[toDevice[1].code]
              /\ UNCHANGED services
        /\ UNCHANGED <<clientVars, socketVars, historyVars, pushed, acked, gone>>
    BY <1>9, AnswerEffect
  <2>2. /\ toDevice[1].id \in Ids /\ toDevice[1].code \in Nat
        /\ toDevice[1] \in Openings => toDevice[1].channel \in Channels
    BY <2>1, MessageKinds
  <2>3. /\ DOMAIN services' \subseteq Nat /\ \A k \in DOMAIN services' : services'[k] \in Channels
    BY <2>1, <2>2 DEF TypeOK
  <2>4. served' \in [Ids -> Channels \cup {"none"}]
    BY <2>1, <2>2 DEF TypeOK
  <2>5. QED
    BY <2>1, <2>3, <2>4 DEF TypeOK
<1>10. CASE DeviceReadsAck
  <2>1. /\ toDevice[1] \in Acks /\ acked' = acked \cup {toDevice[1].acks}
        /\ toDevice' \in Seq(Openings \cup Callings \cup Acks)
        /\ UNCHANGED <<clientVars, socketVars, historyVars, inbox, services, served, pushed, gone>>
    BY <1>10, ReadsAckEffect
  <2>2. toDevice[1].acks \in Nat
    BY <2>1, MessageKinds
  <2>3. QED
    BY <2>1, <2>2 DEF TypeOK
<1>11. ASSUME NEW code \in Codes, NEW cancels \in BOOLEAN, NEW expects \in BOOLEAN,
              DevicePushes(code, cancels, expects)
       PROVE TypeOK'
  <2>1. /\ inbox' \in Seq(Replies \cup Pushes) /\ pushed' = pushed + 1
        /\ UNCHANGED <<clientVars, socketVars, historyVars, toDevice, services, served, acked, gone>>
    BY <1>11, PushEffect
  <2>2. QED
    BY <2>1 DEF TypeOK
<1>12. CASE DeviceCloses
  BY <1>12 DEF DeviceCloses, TypeOK
<1>13. CASE UNCHANGED vars
  BY <1>13 DEF vars, TypeOK
<1>14. QED
  BY <1>1, <1>2, <1>3, <1>4, <1>5, <1>6, <1>7, <1>8, <1>9, <1>10, <1>11, <1>12, <1>13 DEF Next


---------------------------------------------------------------------------
(* Identifiers.                                                            *)

\* A reply comes to be expected only by sending a message under a new identifier.
LEMMA ExpectedStep ==
  ASSUME TypeOK, [Next]_vars, NEW id \in Ids
  PROVE  Expected(id)' => \/ Expected(id)
                          \/ id = nextIdentifier /\ nextIdentifier' = nextIdentifier + 1 /\ ~closing
<1> DEFINE Goal == Expected(id)' => \/ Expected(id)
                                    \/ id = nextIdentifier /\ nextIdentifier' = nextIdentifier + 1 /\ ~closing
<1> USE DEF clientVars, socketVars, historyVars, deviceVars
<1>a. \A m \in Openings \cup Callings : m \notin Acks
  BY MessageKinds
<1> SUFFICES Goal
  OBVIOUS
<1> HIDE DEF Goal
<1>0. ASSUME NEW m \in Openings \cup Callings, m.id = nextIdentifier, nextIdentifier' = nextIdentifier + 1,
             replyQueues' \subseteq replyQueues, inbox' = inbox,
             Written(m)
      PROVE  Goal
  BY <1>0 DEF Expected, Goal, Written
<1>1. ASSUME NEW c \in Callers, NEW op \in Operations, NEW x \in Channels, NEW code \in Nat, Proceed(c, op, x, code),
             replyQueues' \subseteq replyQueues, inbox' = inbox
      PROVE  Goal
  <2>1. \/ UNCHANGED toDevice
        \/ /\ Written(Calling(nextIdentifier, code))
           /\ nextIdentifier \in Ids /\ nextIdentifier' = nextIdentifier + 1
    BY <1>1, ProceedEffect
  <2>2. nextIdentifier \in Ids => Calling(nextIdentifier, code).id = nextIdentifier
    BY Built
  <2>3. QED
    BY <1>1, <2>1, <2>2 DEF Expected, Goal, Written
<1>2. ASSUME NEW c \in Callers, NEW op \in Operations, NEW x \in Channels, Start(c, op, x)
      PROVE  Goal
  <2>1. CASE x \notin DOMAIN channels
    <3> DEFINE m == Opening(nextIdentifier, NextCode, x)
    <3>1. /\ nextIdentifier' = nextIdentifier + 1 /\ m \in Openings /\ m.id = nextIdentifier
          /\ Written(m)
          /\ UNCHANGED <<replyQueues, inbox>>
      BY <1>2, <2>1, MakeEffect
    <3> HIDE DEF m
    <3>2. QED
      BY <1>0, <3>1
  <2>2. CASE x \in DOMAIN channels
    <3>1. Proceed(c, op, x, channels[x]) /\ UNCHANGED <<replyQueues, inbox>>
      BY <1>2, <2>2 DEF Start
    <3>2. channels[x] \in Nat
      BY <2>2 DEF TypeOK
    <3>3. QED
      BY <1>1, <3>1, <3>2
  <2>3. QED
    BY <2>1, <2>2
<1>3. ASSUME NEW c \in Callers, ChannelMade(c) PROVE Goal
  <2>1. /\ replyQueues' \subseteq replyQueues /\ inbox' = inbox
        /\ caller[c].op \in Operations /\ caller[c].channel \in Channels /\ caller[c].code \in Nat
        /\ Proceed(c, caller[c].op, caller[c].channel, caller[c].code)
    BY <1>3, MadeEffect
  <2>2. QED
    BY <1>1, <2>1
<1>4. ASSUME replyQueues' \subseteq replyQueues, UNCHANGED <<inbox, toDevice>> PROVE Goal
  BY <1>4 DEF Expected, Goal
<1>5. CASE HandleData
  <2>1. /\ 1 \in DOMAIN inbox /\ inbox[1] \in Replies \cup Pushes
        /\ \A i \in DOMAIN inbox' : i + 1 \in DOMAIN inbox /\ inbox'[i] = inbox[i + 1]
        /\ \A i \in DOMAIN toDevice' :
              \/ i \in DOMAIN toDevice /\ toDevice'[i] = toDevice[i]
              \/ toDevice'[i] \in Acks
        /\ \/ inbox[1] \in Replies /\ replyQueues' = replyQueues \cup {inbox[1].id}
           \/ UNCHANGED replyQueues
    BY <1>5, HandleEffect
  <2>2. QED
    BY <1>a, <2>1 DEF Expected, Goal
<1>6. CASE DeviceAnswers
  <2>1. /\ 1 \in DOMAIN toDevice /\ toDevice[1] \in Openings \cup Callings
        /\ \A i \in DOMAIN toDevice' : i + 1 \in DOMAIN toDevice /\ toDevice'[i] = toDevice[i + 1]
        /\ \A i \in DOMAIN inbox' :
              \/ i \in DOMAIN inbox /\ inbox'[i] = inbox[i]
              \/ inbox'[i] = Reply(toDevice[1].id)
        /\ UNCHANGED replyQueues
    BY <1>6, AnswerEffect
  <2>2. toDevice[1].id \in Ids
    BY <2>1, MessageKinds
  <2>3. Reply(toDevice[1].id).id = toDevice[1].id
    BY <2>2, Built
  <2>4. QED
    BY <2>1, <2>3 DEF Expected, Goal
<1>7. CASE DeviceReadsAck
  <2>1. /\ \A i \in DOMAIN toDevice' : i + 1 \in DOMAIN toDevice /\ toDevice'[i] = toDevice[i + 1]
        /\ UNCHANGED <<replyQueues, inbox>>
    BY <1>7, ReadsAckEffect
  <2>2. QED
    BY <2>1 DEF Expected, Goal
<1>8. ASSUME NEW code \in Codes, NEW cancels \in BOOLEAN, NEW expects \in BOOLEAN,
              DevicePushes(code, cancels, expects)
      PROVE Goal
  <2>1. /\ \A i \in DOMAIN inbox' :
              \/ i \in DOMAIN inbox /\ inbox'[i] = inbox[i]
              \/ inbox'[i] \in Pushes
        /\ UNCHANGED <<replyQueues, toDevice>>
    BY <1>8, PushEffect
  <2>2. \A m \in Pushes : m \notin Replies
    BY MessageKinds
  <2>3. QED
    BY <2>1, <2>2 DEF Expected, Goal
<1>9. ASSUME NEW c \in Callers, CallReturns(c) \/ TimedOut(c) \/ Retry(c) PROVE Goal
  BY <1>4, <1>9 DEF CallReturns, TimedOut, Retry
<1>10. CASE Close \/ Dispose \/ SocketEnd \/ DeviceCloses \/ UNCHANGED vars
  <2>1. UNCHANGED <<replyQueues, inbox, toDevice>>
    BY <1>10 DEF Close, Dispose, SocketEnd, DeviceCloses, vars
  <2>2. QED
    BY <1>4, <2>1
<1>11. QED
  BY <1>2, <1>3, <1>5, <1>6, <1>7, <1>8, <1>9, <1>10 DEF Next

\* Who waits, waits under an identifier that was given out: its state is the old one, or
\* the identifier is the next one.
LEMMA CallersStep ==
  ASSUME TypeOK, [Next]_vars, NEW c \in Callers, caller'[c] \in Makers \cup Askers
  PROVE  \/ caller'[c] = caller[c]
         \/ caller'[c].id = nextIdentifier /\ nextIdentifier' = nextIdentifier + 1
<1> DEFINE Goal == \/ caller'[c] = caller[c]
                   \/ caller'[c].id = nextIdentifier /\ nextIdentifier' = nextIdentifier + 1
<1> USE DEF clientVars, socketVars, historyVars, deviceVars
<1>1. ASSUME NEW d \in Callers, NEW op \in Operations, NEW x \in Channels, NEW code \in Nat, Proceed(d, op, x, code)
      PROVE  Goal
  <2>1. /\ caller' = [caller EXCEPT ![d] = caller'[d]]
        /\ \/ caller'[d] = Idle
           \/ /\ caller'[d] = [phase |-> "calling", channel |-> x, id |-> nextIdentifier]
              /\ nextIdentifier' = nextIdentifier + 1
    BY <1>1, ProceedEffect
  <2>2. caller'[d] # Idle => caller'[d].id = nextIdentifier
    BY <2>1
  <2>3. c # d => caller'[c] = caller[c]
    BY <2>1 DEF TypeOK
  <2>4. QED
    BY <2>1, <2>2, <2>3, CallerKinds
<1>2. ASSUME NEW d \in Callers, NEW op \in Operations, NEW x \in Channels, Start(d, op, x)
      PROVE  Goal
  <2>1. CASE x \notin DOMAIN channels
    <3>1. /\ nextIdentifier' = nextIdentifier + 1 /\ caller'[d].id = nextIdentifier
          /\ caller' = [caller EXCEPT ![d] = caller'[d]]
      BY <1>2, <2>1, MakeEffect
    <3>2. c # d => caller'[c] = caller[c]
      BY <3>1 DEF TypeOK
    <3>3. QED
      BY <3>1, <3>2
  <2>2. CASE x \in DOMAIN channels
    <3>1. Proceed(d, op, x, channels[x])
      BY <1>2, <2>2 DEF Start
    <3>2. channels[x] \in Nat
      BY <2>2 DEF TypeOK
    <3>3. QED
      BY <1>1, <3>1, <3>2
  <2>3. QED
    BY <2>1, <2>2
<1>3. ASSUME NEW d \in Callers, ChannelMade(d) PROVE Goal
  BY <1>1, <1>3, MadeEffect
<1>4. ASSUME NEW d \in Callers, CallReturns(d) \/ TimedOut(d) \/ Retry(d) PROVE Goal
  <2>1. caller' = [caller EXCEPT ![d] = Idle] \/ caller' = [caller EXCEPT ![d] = Failed]
    BY <1>4 DEF CallReturns, TimedOut, Retry
  <2>2. caller'[c] \in {Idle, Failed, caller[c]}
    BY <2>1 DEF TypeOK
  <2>3. QED
    BY <2>2, CallerKinds
<1>5. CASE UNCHANGED caller
  BY <1>5
<1>6. QED
  BY <1>2, <1>3, <1>4, <1>5 DEF Next, HandleData, Close, Dispose, SocketEnd, DeviceAnswers, DeviceReadsAck,
     DevicePushes, DeviceCloses, vars

\* The identifier of the next message only grows.
LEMMA IdentifierStep ==
  ASSUME TypeOK, [Next]_vars
  PROVE  nextIdentifier' \in {nextIdentifier, nextIdentifier + 1}
<1> USE DEF clientVars, socketVars, historyVars, deviceVars
<1>1. ASSUME NEW c \in Callers, NEW op \in Operations, NEW x \in Channels, NEW code, Proceed(c, op, x, code)
      PROVE  nextIdentifier' \in {nextIdentifier, nextIdentifier + 1}
  BY <1>1 DEF Proceed, Send
<1>2. ASSUME NEW c \in Callers, NEW op \in Operations, NEW x \in Channels, Start(c, op, x)
      PROVE  nextIdentifier' \in {nextIdentifier, nextIdentifier + 1}
  BY <1>1, <1>2 DEF Start, Send
<1>3. ASSUME NEW c \in Callers, ChannelMade(c)
      PROVE  nextIdentifier' \in {nextIdentifier, nextIdentifier + 1}
  BY <1>1, <1>3, MadeEffect
<1>4. QED
  BY <1>2, <1>3 DEF Next, CallReturns, TimedOut, Retry, HandleData, Close, Dispose, SocketEnd, DeviceAnswers,
     DeviceReadsAck, DevicePushes, DeviceCloses, vars

\* Identifiers not given out yet are expected and served by nobody.
LEMMA FreshStep == TypeOK /\ Fresh /\ [Next]_vars => Fresh'
<1> SUFFICES ASSUME TypeOK, Fresh, [Next]_vars
             PROVE  Fresh'
  OBVIOUS
<1>1. nextIdentifier \in Nat /\ nextIdentifier' \in {nextIdentifier, nextIdentifier + 1}
  BY IdentifierStep DEF TypeOK
<1>2. \A id \in Ids : id \in Nat /\ (id >= nextIdentifier' => id >= nextIdentifier)
  BY <1>1 DEF Ids
<1>3. ASSUME NEW id \in Ids, id >= nextIdentifier' PROVE ~Expected(id)'
  <2>1. ~Expected(id)
    BY <1>2, <1>3 DEF Fresh
  <2>2. ~(id = nextIdentifier /\ nextIdentifier' = nextIdentifier + 1)
    BY <1>1, <1>3
  <2>3. QED
    BY <2>1, <2>2, ExpectedStep
<1>4. ASSUME NEW id \in Ids, id >= nextIdentifier' PROVE served'[id] = "none"
  <2>1. served[id] = "none" /\ ~Expected(id)
    BY <1>2, <1>4 DEF Fresh
  <2>2. CASE DeviceAnswers
    <3>1. /\ 1 \in DOMAIN toDevice /\ toDevice[1] \in Openings \cup Callings
          /\ \/ UNCHANGED served
             \/ served' = [served EXCEPT ![toDevice[1].id] = served'[toDevice[1].id]]
      BY <2>2, AnswerEffect
    <3>2. id # toDevice[1].id
      BY <2>1, <3>1 DEF Expected
    <3>3. QED
      BY <2>1, <3>1, <3>2 DEF TypeOK
  <2>3. CASE UNCHANGED served
    BY <2>1, <2>3
  <2>4. QED
    BY <2>2, <2>3 DEF Next, Start, ChannelMade, CallReturns, TimedOut, Retry, HandleData, Close, Dispose,
       SocketEnd, DeviceReadsAck, DevicePushes, DeviceCloses, vars, deviceVars
<1>5. ASSUME NEW c \in Callers, caller'[c] \in Makers \cup Askers PROVE caller'[c].id < nextIdentifier'
  <2>1. CASE caller'[c] = caller[c]
    <3>1. caller[c].id < nextIdentifier /\ caller[c].id \in Nat
      BY <1>5, <2>1, <1>2, CallerKinds DEF Fresh
    <3>2. QED
      BY <1>1, <2>1, <3>1
  <2>2. CASE caller'[c].id = nextIdentifier /\ nextIdentifier' = nextIdentifier + 1
    BY <1>1, <2>2
  <2>3. QED
    BY <1>5, <2>1, <2>2, CallersStep
<1>6. QED
  BY <1>3, <1>4, <1>5 DEF Fresh


---------------------------------------------------------------------------
(* Messages of the device, and acks for them.                              *)

\* What the device sends on a channel, it sends on one that it has.
LEMMA PushedOnChannelsStep == TypeOK /\ PushedOnChannels /\ [Next]_vars => PushedOnChannels'
<1> SUFFICES ASSUME TypeOK, PushedOnChannels, [Next]_vars
             PROVE  PushedOnChannels'
  OBVIOUS
<1> USE DEF clientVars, socketVars, historyVars, deviceVars
<1>1. CASE HandleData
  <2>1. /\ \A i \in DOMAIN inbox' : i + 1 \in DOMAIN inbox /\ inbox'[i] = inbox[i + 1]
        /\ UNCHANGED services
    BY <1>1, HandleEffect
  <2>2. QED
    BY <2>1 DEF PushedOnChannels
<1>2. CASE DeviceAnswers
  <2>1. /\ \A i \in DOMAIN inbox' : (i \in DOMAIN inbox /\ inbox'[i] = inbox[i]) \/ inbox'[i] \in Replies
        /\ \A k \in DOMAIN services : k \in DOMAIN services' /\ services'[k] = services[k]
    BY <1>2, AnswerEffect
  <2>2. \A m \in Replies : m \notin Pushes
    BY MessageKinds
  <2>3. QED
    BY <2>1, <2>2 DEF PushedOnChannels
<1>3. ASSUME NEW code \in Codes, NEW cancels \in BOOLEAN, NEW expects \in BOOLEAN,
              DevicePushes(code, cancels, expects)
      PROVE PushedOnChannels'
  <2>1. /\ code \in DOMAIN services
        /\ \A i \in DOMAIN inbox' :
              \/ i \in DOMAIN inbox /\ inbox'[i] = inbox[i]
              \/ inbox'[i] \in Pushes /\ inbox'[i].code = code /\ inbox'[i].from = services[code]
        /\ UNCHANGED services
    BY <1>3, PushEffect
  <2>2. QED
    BY <2>1 DEF PushedOnChannels
<1>4. CASE UNCHANGED <<inbox, services>>
  BY <1>4 DEF PushedOnChannels
<1>5. QED
  BY <1>1, <1>2, <1>3, <1>4 DEF Next, Start, ChannelMade, CallReturns, TimedOut, Retry, Close, Dispose,
     SocketEnd, DeviceReadsAck, DeviceCloses, vars

\* What a caller writes is no ack, and takes none away.
LEMMA CallersWriteNoAck ==
  ASSUME TypeOK,
         \/ \E c \in Callers, op \in Operations, x \in Channels : Start(c, op, x)
         \/ \E c \in Callers : ChannelMade(c)
  PROVE  /\ \A i \in DOMAIN toDevice : i \in DOMAIN toDevice' /\ toDevice'[i] = toDevice[i]
         /\ \A i \in DOMAIN toDevice' :
              (i \in DOMAIN toDevice /\ toDevice'[i] = toDevice[i]) \/ toDevice'[i] \notin Acks
         /\ UNCHANGED <<acked, unheard, closing>>
<1> DEFINE Goal == /\ \A i \in DOMAIN toDevice : i \in DOMAIN toDevice' /\ toDevice'[i] = toDevice[i]
                   /\ \A i \in DOMAIN toDevice' :
                        (i \in DOMAIN toDevice /\ toDevice'[i] = toDevice[i]) \/ toDevice'[i] \notin Acks
                   /\ UNCHANGED <<acked, unheard, closing>>
<1> SUFFICES Goal
  OBVIOUS
<1> USE DEF clientVars, socketVars, historyVars, deviceVars
<1>1. ASSUME NEW m \in Openings \cup Callings, Written(m), UNCHANGED <<acked, unheard, closing>> PROVE Goal
  <2>1. m \notin Acks
    BY MessageKinds
  <2>2. QED
    BY <1>1, <2>1 DEF Written
<1>2. ASSUME UNCHANGED <<toDevice, acked, unheard, closing>> PROVE Goal
  BY <1>2
<1> HIDE DEF Goal
<1>3. ASSUME NEW c \in Callers, NEW op \in Operations, NEW x \in Channels, NEW code \in Nat, Proceed(c, op, x, code),
             UNCHANGED <<acked, unheard, closing>>
      PROVE  Goal
  <2>1. \/ UNCHANGED toDevice
        \/ Written(Calling(nextIdentifier, code)) /\ nextIdentifier \in Ids
    BY <1>3, ProceedEffect
  <2>2. nextIdentifier \in Ids => Calling(nextIdentifier, code) \in Callings
    BY Built
  <2>3. QED
    BY <1>1, <1>2, <1>3, <2>1, <2>2
<1>4. ASSUME NEW c \in Callers, NEW op \in Operations, NEW x \in Channels, Start(c, op, x) PROVE Goal
  <2>1. CASE x \notin DOMAIN channels
    <3>1. /\ Opening(nextIdentifier, NextCode, x) \in Openings /\ Written(Opening(nextIdentifier, NextCode, x))
          /\ UNCHANGED <<acked, unheard, closing>>
      BY <1>4, <2>1, MakeEffect
    <3>2. QED
      BY <1>1, <3>1
  <2>2. CASE x \in DOMAIN channels
    <3>1. Proceed(c, op, x, channels[x]) /\ UNCHANGED <<acked, unheard, closing>>
      BY <1>4, <2>2 DEF Start
    <3>2. channels[x] \in Nat
      BY <2>2 DEF TypeOK
    <3>3. QED
      BY <1>3, <3>1, <3>2
  <2>3. QED
    BY <2>1, <2>2
<1>5. ASSUME NEW c \in Callers, ChannelMade(c) PROVE Goal
  <2>1. /\ caller[c].op \in Operations /\ caller[c].channel \in Channels /\ caller[c].code \in Nat
        /\ Proceed(c, caller[c].op, caller[c].channel, caller[c].code)
        /\ UNCHANGED <<acked, unheard, closing>>
    BY <1>5, MadeEffect
  <2>2. QED
    BY <1>3, <2>1
<1>6. QED
  BY <1>4, <1>5

\* Acks under way are for unheard messages, and none is missing while the client writes.
LEMMA AcksUnderWayStep == TypeOK /\ AcksUnderWay /\ [Next]_vars => AcksUnderWay'
<1> SUFFICES ASSUME TypeOK, AcksUnderWay, [Next]_vars
             PROVE  AcksUnderWay'
  OBVIOUS
<1> USE DEF clientVars, socketVars, historyVars, deviceVars
<1>a. /\ \A n \in unheard : n \in Nat
      /\ \A n \in Nat : Ack(n) \in Acks
      /\ \A m \in Openings \cup Callings : m \notin Acks
  BY Built, MessageKinds DEF TypeOK
<1>1. CASE \/ \E c \in Callers, op \in Operations, x \in Channels : Start(c, op, x)
           \/ \E c \in Callers : ChannelMade(c)
  BY <1>1, CallersWriteNoAck DEF AcksUnderWay
<1>2. CASE HandleData
  <2>1. /\ \A i \in DOMAIN toDevice : i \in DOMAIN toDevice' /\ toDevice'[i] = toDevice[i]
        /\ \A i \in DOMAIN toDevice' :
              \/ i \in DOMAIN toDevice /\ toDevice'[i] = toDevice[i]
              \/ /\ inbox[1] \in Pushes /\ toDevice'[i] = Ack(inbox[1].number) /\ inbox[1].number \in unheard'
        /\ \/ UNCHANGED <<closing, unheard, toDevice>>
           \/ /\ inbox[1] \in Pushes
              /\ closing' = (closing \/ inbox[1].cancels)
              /\ unheard' \in {unheard, unheard \cup {inbox[1].number}}
              /\ ~closing' /\ unheard' # unheard =>
                   \E i \in DOMAIN toDevice' : toDevice'[i] = Ack(inbox[1].number)
        /\ UNCHANGED acked
    BY <1>2, HandleEffect
  <2>2. inbox[1] \in Pushes => inbox[1].number \in Nat
    BY MessageKinds
  <2>3. inbox[1] \in Pushes => Ack(inbox[1].number).acks = inbox[1].number
    BY <2>2, Built
  <2>4. (closing => closing') /\ unheard \subseteq unheard'
    <3>1. closing' = closing \/ closing' = (closing \/ inbox[1].cancels)
      BY <2>1
    <3>2. closing => closing'
      BY <3>1, Zenon
    <3>3. unheard \subseteq unheard'
      BY <2>1
    <3>4. QED
      BY <3>2, <3>3
  <2>5. \A i \in DOMAIN toDevice' : toDevice'[i] \in Acks => toDevice'[i].acks \in unheard'
    BY <2>1, <2>3, <2>4 DEF AcksUnderWay
  <2>6. ~closing' => \A n \in unheard : n \in acked \/ \E i \in DOMAIN toDevice' : toDevice'[i] = Ack(n)
    BY <2>1, <2>4 DEF AcksUnderWay
  <2>7. ~closing' => \A n \in unheard' : n \in acked \/ \E i \in DOMAIN toDevice' : toDevice'[i] = Ack(n)
    BY <2>1, <2>6
  <2>8. QED
    BY <2>1, <2>4, <2>5, <2>7 DEF AcksUnderWay
<1>3. CASE DeviceAnswers
  <2>1. /\ 1 \in DOMAIN toDevice /\ toDevice[1] \in Openings \cup Callings
        /\ \A i \in DOMAIN toDevice' : i + 1 \in DOMAIN toDevice /\ toDevice'[i] = toDevice[i + 1]
        /\ \A i \in DOMAIN toDevice : i = 1 \/ (i - 1 \in DOMAIN toDevice' /\ toDevice'[i - 1] = toDevice[i])
        /\ UNCHANGED <<acked, unheard, closing>>
    BY <1>3, AnswerEffect
  <2>2. \A n \in unheard : (\E i \in DOMAIN toDevice : toDevice[i] = Ack(n)) => \E i \in DOMAIN toDevice' : toDevice'[i] = Ack(n)
    BY <1>a, <2>1
  <2>3. QED
    BY <2>1, <2>2 DEF AcksUnderWay
<1>4. CASE DeviceReadsAck
  <2>1. /\ 1 \in DOMAIN toDevice /\ toDevice[1] \in Acks /\ acked' = acked \cup {toDevice[1].acks}
        /\ \A i \in DOMAIN toDevice' : i + 1 \in DOMAIN toDevice /\ toDevice'[i] = toDevice[i + 1]
        /\ \A i \in DOMAIN toDevice : i = 1 \/ (i - 1 \in DOMAIN toDevice' /\ toDevice'[i - 1] = toDevice[i])
        /\ UNCHANGED <<unheard, closing>>
    BY <1>4, ReadsAckEffect
  <2>2. \A n \in Nat : Ack(n).acks = n
    BY Built
  <2>3. \A n \in unheard : (\E i \in DOMAIN toDevice : toDevice[i] = Ack(n)) =>
                             n \in acked' \/ \E i \in DOMAIN toDevice' : toDevice'[i] = Ack(n)
    BY <1>a, <2>1, <2>2
  <2>4. acked' \subseteq unheard
    BY <2>1 DEF AcksUnderWay
  <2>5. QED
    BY <2>1, <2>3, <2>4 DEF AcksUnderWay
<1>5. ASSUME UNCHANGED <<acked, unheard, toDevice>>, closing => closing' PROVE AcksUnderWay'
  BY <1>5 DEF AcksUnderWay
<1>6. ASSUME NEW c \in Callers, CallReturns(c) \/ TimedOut(c) \/ Retry(c) PROVE AcksUnderWay'
  <2>1. UNCHANGED <<acked, unheard, toDevice>> /\ (closing => closing')
    BY <1>6 DEF CallReturns, TimedOut, Retry
  <2>2. QED
    BY <1>5, <2>1
<1>7. CASE Close \/ Dispose \/ SocketEnd \/ DeviceCloses \/ UNCHANGED vars
  <2>1. UNCHANGED <<acked, unheard, toDevice>> /\ (closing => closing')
    BY <1>7 DEF Close, Dispose, SocketEnd, DeviceCloses, vars
  <2>2. QED
    BY <1>5, <2>1
<1>8. ASSUME NEW code \in Codes, NEW cancels \in BOOLEAN, NEW expects \in BOOLEAN,
              DevicePushes(code, cancels, expects)
      PROVE  AcksUnderWay'
  BY <1>5, <1>8 DEF DevicePushes
<1>9. QED
  BY <1>1, <1>2, <1>3, <1>4, <1>6, <1>7, <1>8 DEF Next


---------------------------------------------------------------------------
(* The codes of channels.                                                  *)

\* A step that neither starts nor ends the making of a channel, but may let it fail.
MakersStay ==
  /\ UNCHANGED <<channels, raced>>
  /\ \A d \in Callers : caller'[d] \in Makers => caller'[d] = caller[d]
  /\ ~closing' => ~closing /\ \A d \in Callers : caller[d] \in Makers => caller'[d] = caller[d]

\* Only the start of a call and the end of makeChannel put a caller to work on a channel.
LEMMA MakingSteps ==
  ASSUME TypeOK, [Next]_vars
  PROVE  \/ MakersStay
         \/ \E c \in Callers, op \in Operations, x \in Channels : x \notin DOMAIN channels /\ Start(c, op, x)
         \/ \E c \in Callers : ChannelMade(c)
<1> USE DEF clientVars, socketVars, historyVars, deviceVars
<1>1. ASSUME NEW c \in Callers, NEW op \in Operations, NEW x \in Channels, x \in DOMAIN channels, Start(c, op, x)
      PROVE  MakersStay
  <2>1. Proceed(c, op, x, channels[x]) /\ UNCHANGED <<channels, raced, closing>> /\ caller[c] = Idle
    BY <1>1 DEF Start
  <2>2. channels[x] \in Nat
    BY <1>1 DEF TypeOK
  <2>3. caller' = [caller EXCEPT ![c] = caller'[c]] /\ caller'[c] \in {Idle} \cup Askers
    BY <2>1, <2>2, ProceedEffect
  <2>4. caller'[c] \notin Makers /\ caller[c] \notin Makers
    BY <2>1, <2>3, CallerKinds
  <2>5. \A d \in Callers : d # c => caller'[d] = caller[d]
    BY <2>3 DEF TypeOK
  <2>6. QED
    BY <2>1, <2>4, <2>5 DEF MakersStay
<1>2. ASSUME NEW c \in Callers, CallReturns(c) \/ Retry(c) PROVE MakersStay
  <2>1. caller' = [caller EXCEPT ![c] = Idle] /\ UNCHANGED <<channels, raced, closing>>
        /\ caller[c].phase # "making"
    BY <1>2, CallerKinds DEF CallReturns, Retry
  <2>2. caller'[c] = Idle /\ \A d \in Callers : d # c => caller'[d] = caller[d]
    BY <2>1 DEF TypeOK
  <2>3. caller'[c] \notin Makers /\ caller[c] \notin Makers
    BY <2>1, <2>2, CallerKinds
  <2>4. QED
    BY <2>1, <2>2, <2>3 DEF MakersStay
<1>3. ASSUME NEW c \in Callers, TimedOut(c) PROVE MakersStay
  <2>1. caller' = [caller EXCEPT ![c] = Failed] /\ UNCHANGED <<channels, raced>> /\ closing' = TRUE
    BY <1>3 DEF TimedOut
  <2>2. caller'[c] = Failed /\ \A d \in Callers : d # c => caller'[d] = caller[d]
    BY <2>1 DEF TypeOK
  <2>3. caller'[c] \notin Makers
    BY <2>2, CallerKinds
  <2>4. QED
    BY <2>1, <2>2, <2>3 DEF MakersStay
<1>4. ASSUME UNCHANGED <<channels, raced, caller>>, closing => closing' PROVE MakersStay
  BY <1>4 DEF MakersStay
<1>5. CASE HandleData
  <2>1. /\ UNCHANGED <<channels, raced, caller>>
        /\ UNCHANGED closing \/ closing' = (closing \/ inbox[1].cancels)
    BY <1>5, HandleEffect
  <2>2. closing => closing'
    BY <2>1, Zenon
  <2>3. QED
    BY <1>4, <2>1, <2>2
<1>6. ASSUME NEW code \in Codes, NEW cancels \in BOOLEAN, NEW expects \in BOOLEAN,
              DevicePushes(code, cancels, expects)
      PROVE  MakersStay
  BY <1>4, <1>6 DEF DevicePushes
<1>7. ASSUME Close \/ Dispose \/ SocketEnd \/ DeviceAnswers \/ DeviceReadsAck \/ DeviceCloses \/ UNCHANGED vars
      PROVE  MakersStay
  <2>1. UNCHANGED <<channels, raced, caller>> /\ (closing => closing')
    BY <1>7 DEF Close, Dispose, SocketEnd, DeviceAnswers, DeviceReadsAck, DeviceCloses, vars
  <2>2. QED
    BY <1>4, <2>1
<1>8. QED
  BY <1>1, <1>2, <1>3, <1>5, <1>6, <1>7 DEF Next

\* The making of a channel that did not race starts when none is made.
LEMMA MakesAlone ==
  ASSUME TypeOK, NEW c \in Callers, NEW op \in Operations, NEW x \in Channels,
         x \notin DOMAIN channels, Start(c, op, x), ~raced'
  PROVE  /\ ~raced /\ UNCHANGED <<channels, closing>>
         /\ \A d \in Callers : ~Making(d)
         /\ \A d \in Callers : Making(d)' => d = c
         /\ Making(c)' /\ caller'[c].channel = x /\ caller'[c].code = NextCode /\ caller'[c].id = nextIdentifier
<1>1. /\ caller' = [caller EXCEPT ![c] = caller'[c]]
      /\ caller'[c] \in Makers /\ caller'[c].channel = x /\ caller'[c].code = NextCode
      /\ caller'[c].id = nextIdentifier
      /\ raced' = (raced \/ \E d \in Callers : caller[d].phase = "making")
      /\ UNCHANGED <<channels, socketVars>>
  BY MakeEffect
<1>2. ~raced /\ \A d \in Callers : caller[d].phase # "making"
  BY <1>1, Zenon
<1>3. \A d \in Callers : caller[d] \notin Makers
  BY <1>2, CallerKinds
<1>4. \A d \in Callers : d # c => caller'[d] = caller[d]
  BY <1>1 DEF TypeOK
<1>5. QED
  BY <1>1, <1>2, <1>3, <1>4 DEF Making, socketVars

\* With its reply the channel that is made takes the next code.
LEMMA MadeAlone ==
  ASSUME TypeOK, OneIsMade, NEW c \in Callers, ChannelMade(c), ~raced'
  PROVE  /\ ~raced /\ UNCHANGED closing
         /\ Making(c) /\ caller[c].channel \notin DOMAIN channels /\ caller[c].code = NextCode
         /\ caller[c].id \in replyQueues
         /\ DOMAIN channels' = DOMAIN channels \cup {caller[c].channel}
         /\ channels'[caller[c].channel] = NextCode
         /\ \A y \in DOMAIN channels : channels'[y] = channels[y]
         /\ NextCode' = NextCode + 1
         /\ \A d \in Callers : ~Making(d)'
<1>1. /\ caller[c] \in Makers /\ caller[c].id \in replyQueues
      /\ DOMAIN channels' = DOMAIN channels \cup {caller[c].channel}
      /\ channels'[caller[c].channel] = caller[c].code
      /\ \A y \in DOMAIN channels : y # caller[c].channel => channels'[y] = channels[y]
      /\ caller[c].op \in Operations /\ caller[c].channel \in Channels /\ caller[c].code \in Nat
      /\ Proceed(c, caller[c].op, caller[c].channel, caller[c].code)
      /\ UNCHANGED <<socketVars, raced, delivered, unheard, inbox, deviceVars>>
  BY MadeEffect
<1>2. ~raced /\ Making(c) /\ caller[c].channel \notin DOMAIN channels /\ caller[c].code = NextCode
  BY <1>1 DEF OneIsMade, Making
<1>3. NextCode' = NextCode + 1
  BY <1>1, <1>2, CodeCounts DEF NextCode
<1>4. caller' = [caller EXCEPT ![c] = caller'[c]] /\ caller'[c] \in {Idle} \cup Askers
  BY <1>1, ProceedEffect
<1>5. caller'[c] \notin Makers /\ \A d \in Callers : d # c => caller'[d] = caller[d]
  BY <1>4, CallerKinds DEF TypeOK
<1>6. \A d \in Callers : d # c => ~Making(d)
  BY <1>2 DEF OneIsMade
<1>7. \A d \in Callers : ~Making(d)'
  BY <1>5, <1>6 DEF Making
<1>8. QED
  BY <1>1, <1>2, <1>3, <1>7 DEF socketVars

\* While makeChannel was not raced, at most one caller makes a channel, under the next code.
LEMMA OneIsMadeStep == TypeOK /\ OneIsMade /\ [Next]_vars => OneIsMade'
<1> SUFFICES ASSUME TypeOK, OneIsMade, [Next]_vars, ~raced'
             PROVE  OneIsMade'
  BY DEF OneIsMade
<1>1. CASE MakersStay
  <2>1. NextCode' = NextCode /\ ~raced /\ UNCHANGED channels
    BY <1>1 DEF MakersStay, NextCode
  <2>2. \A d \in Callers : Making(d)' => Making(d) /\ caller'[d] = caller[d]
    BY <1>1 DEF MakersStay, Making
  <2>3. QED
    BY <2>1, <2>2 DEF OneIsMade
<1>2. ASSUME NEW c \in Callers, NEW op \in Operations, NEW x \in Channels, x \notin DOMAIN channels, Start(c, op, x)
      PROVE  OneIsMade'
  <2>1. /\ ~raced /\ UNCHANGED channels
        /\ \A d \in Callers : Making(d)' => d = c
        /\ caller'[c].channel = x /\ caller'[c].code = NextCode
    BY <1>2, MakesAlone
  <2>2. NextCode' = NextCode
    BY <2>1 DEF NextCode
  <2>3. QED
    BY <1>2, <2>1, <2>2 DEF OneIsMade
<1>3. ASSUME NEW c \in Callers, ChannelMade(c) PROVE OneIsMade'
  <2>1. /\ ~raced
        /\ caller[c].channel \notin DOMAIN channels
        /\ DOMAIN channels' = DOMAIN channels \cup {caller[c].channel}
        /\ channels'[caller[c].channel] = NextCode
        /\ \A y \in DOMAIN channels : channels'[y] = channels[y]
        /\ NextCode' = NextCode + 1
        /\ \A d \in Callers : ~Making(d)'
    BY <1>3, MadeAlone
  <2>2. /\ \A y \in DOMAIN channels : channels[y] < NextCode /\ channels[y] \in Nat
        /\ NextCode \in Nat
    BY <2>1, CodeCounts DEF OneIsMade, TypeOK
  <2>3. \A y \in DOMAIN channels' : channels'[y] < NextCode'
    BY <2>1, <2>2
  <2>4. \A y \in DOMAIN channels : channels'[y] # NextCode
    BY <2>1, <2>2
  <2>5. IsInjective(channels')
    BY <2>1, <2>4 DEF OneIsMade, IsInjective
  <2>6. QED
    BY <2>1, <2>3, <2>5 DEF OneIsMade
<1>4. QED
  BY <1>1, <1>2, <1>3, MakingSteps


\* A channel that asked for a code, or has it, keeps its right to it.
LEMMA RightKept ==
  ASSUME TypeOK, Fresh, OneIsMade, [Next]_vars, ~raced', NEW k \in Nat, NEW y \in Channels, Rightful(k, y)
  PROVE  Rightful(k, y)'
<1>0. NextCode \in Nat
  BY CodeCounts
<1>1. CASE MakersStay
  <2>1. NextCode' = NextCode /\ UNCHANGED channels
    BY <1>1 DEF MakersStay, NextCode
  <2>2. \A d \in Callers : Making(d)' => Making(d) /\ caller'[d] = caller[d]
    BY <1>1 DEF MakersStay, Making
  <2>3. ASSUME NEW d \in Callers, Making(d)', Expected(caller[d].id)' PROVE Expected(caller[d].id)
    <3>1. Making(d) /\ caller'[d] = caller[d] /\ caller[d] \in Makers
      BY <2>2, <2>3 DEF Making
    <3>2. PICK id \in Ids : id = caller[d].id
      BY <3>1, CallerKinds
    <3>3. id < nextIdentifier /\ id \in Nat /\ nextIdentifier \in Nat
      BY <3>1, <3>2 DEF Fresh, Ids, TypeOK
    <3>4. id # nextIdentifier
      BY <3>3
    <3>5. caller'[d].id = id
      BY <3>1, <3>2
    <3>6. Expected(id)'
      BY <2>3, <3>5
    <3>7. QED
      BY <3>2, <3>4, <3>6, ExpectedStep
  <2>4. ~closing' => ~closing /\ \A d \in Callers : Making(d) => Making(d)' /\ caller'[d] = caller[d]
    BY <1>1 DEF MakersStay, Making
  <2>5. QED
    BY <2>1, <2>2, <2>3, <2>4 DEF Rightful
<1>2. ASSUME NEW c \in Callers, NEW op \in Operations, NEW x \in Channels, x \notin DOMAIN channels, Start(c, op, x)
      PROVE  Rightful(k, y)'
  <2>1. /\ ~raced /\ UNCHANGED <<channels, closing>>
        /\ \A d \in Callers : ~Making(d)
        /\ \A d \in Callers : Making(d)' => d = c
        /\ Making(c)' /\ caller'[c].channel = x /\ caller'[c].code = NextCode /\ caller'[c].id = nextIdentifier
    BY <1>2, MakesAlone
  <2>2. NextCode' = NextCode
    BY <2>1 DEF NextCode
  <2>3. k = NextCode => closing
    BY <2>1 DEF Rightful
  <2>4. ASSUME closing, Expected(caller[c].id)' PROVE FALSE
    <3>1. PICK id \in Ids : id = nextIdentifier
      BY <1>2, MakeEffect
    <3>2. ~Expected(id)
      BY <3>1 DEF Fresh, Ids
    <3>3. Expected(id)'
      BY <2>1, <2>4, <3>1
    <3>4. QED
      BY <2>4, <3>2, <3>3, ExpectedStep
  <2>5. QED
    BY <2>1, <2>2, <2>3, <2>4 DEF Rightful
<1>3. ASSUME NEW c \in Callers, ChannelMade(c) PROVE Rightful(k, y)'
  <2>1. /\ Making(c) /\ caller[c].id \in replyQueues
        /\ DOMAIN channels' = DOMAIN channels \cup {caller[c].channel}
        /\ channels'[caller[c].channel] = NextCode
        /\ \A z \in DOMAIN channels : channels'[z] = channels[z]
        /\ NextCode' = NextCode + 1
    BY <1>3, MadeAlone
  <2>2. k = NextCode => y = caller[c].channel
    BY <2>1 DEF Rightful, Expected
  <2>3. \A z \in DOMAIN channels' : channels'[z] = k => y = z
    BY <2>1, <2>2 DEF Rightful
  <2>4. k <= NextCode' /\ k # NextCode'
    BY <1>0, <2>1 DEF Rightful
  <2>5. QED
    BY <2>3, <2>4 DEF Rightful
<1>4. QED
  BY <1>1, <1>2, <1>3, MakingSteps

\* Codes are asked for by callers that make a channel, and given out to who asked.
LEMMA OpeningSteps ==
  ASSUME TypeOK, [Next]_vars
  PROVE  \/ \E c \in Callers, op \in Operations, x \in Channels :
              /\ x \notin DOMAIN channels /\ Start(c, op, x) /\ UNCHANGED services
              /\ Written(Opening(nextIdentifier, NextCode, x))
         \/ /\ \A i \in DOMAIN toDevice' : toDevice'[i] \in Openings =>
                 \E j \in DOMAIN toDevice : toDevice[j] = toDevice'[i]
            /\ \A k \in DOMAIN services' :
                 \/ k \in DOMAIN services /\ services'[k] = services[k]
                 \/ \E j \in DOMAIN toDevice :
                      toDevice[j] \in Openings /\ toDevice[j].code = k /\ toDevice[j].channel = services'[k]
<1> DEFINE Kept == /\ \A i \in DOMAIN toDevice' : toDevice'[i] \in Openings =>
                         \E j \in DOMAIN toDevice : toDevice[j] = toDevice'[i]
                   /\ \A k \in DOMAIN services' :
                         \/ k \in DOMAIN services /\ services'[k] = services[k]
                         \/ \E j \in DOMAIN toDevice :
                              toDevice[j] \in Openings /\ toDevice[j].code = k /\ toDevice[j].channel = services'[k]
<1> USE DEF clientVars, socketVars, historyVars, deviceVars
<1>1. ASSUME UNCHANGED services,
             \A i \in DOMAIN toDevice' :
               (\E j \in DOMAIN toDevice : toDevice[j] = toDevice'[i]) \/ toDevice'[i] \notin Openings
      PROVE  Kept
  BY <1>1
<1> HIDE DEF Kept
<1>2. ASSUME NEW c \in Callers, NEW op \in Operations, NEW x \in Channels, NEW code \in Nat, Proceed(c, op, x, code),
             UNCHANGED services
      PROVE  Kept
  <2>1. \/ UNCHANGED toDevice
        \/ Written(Calling(nextIdentifier, code)) /\ nextIdentifier \in Ids
    BY <1>2, ProceedEffect
  <2>2. nextIdentifier \in Ids => Calling(nextIdentifier, code) \notin Openings
    BY Built, MessageKinds
  <2>3. \A i \in DOMAIN toDevice' :
               (\E j \in DOMAIN toDevice : toDevice[j] = toDevice'[i]) \/ toDevice'[i] \notin Openings
    BY <2>1, <2>2 DEF Written
  <2>4. QED
    BY <1>1, <1>2, <2>3
<1>3. ASSUME NEW c \in Callers, NEW op \in Operations, NEW x \in Channels, x \in DOMAIN channels, Start(c, op, x)
      PROVE  Kept
  BY <1>2, <1>3 DEF Start, TypeOK
<1>4. ASSUME NEW c \in Callers, ChannelMade(c) PROVE Kept
  <2>1. /\ caller[c].op \in Operations /\ caller[c].channel \in Channels /\ caller[c].code \in Nat
        /\ Proceed(c, caller[c].op, caller[c].channel, caller[c].code) /\ UNCHANGED services
    BY <1>4, MadeEffect
  <2>2. QED
    BY <1>2, <2>1
<1>5. CASE HandleData
  <2>1. /\ \A i \in DOMAIN toDevice' : (i \in DOMAIN toDevice /\ toDevice'[i] = toDevice[i]) \/ toDevice'[i] \in Acks
        /\ UNCHANGED services
    BY <1>5, HandleEffect
  <2>2. \A m \in Acks : m \notin Openings
    BY MessageKinds
  <2>3. \A i \in DOMAIN toDevice' :
               (\E j \in DOMAIN toDevice : toDevice[j] = toDevice'[i]) \/ toDevice'[i] \notin Openings
    BY <2>1, <2>2
  <2>4. Kept
    BY <1>1, <2>1, <2>3
  <2>5. QED
    BY <2>4 DEF Kept
<1>6. CASE DeviceAnswers
  <2>1. /\ 1 \in DOMAIN toDevice
        /\ \A i \in DOMAIN toDevice' : i + 1 \in DOMAIN toDevice /\ toDevice'[i] = toDevice[i + 1]
        /\ \/ /\ toDevice[1] \in Openings
              /\ DOMAIN services' = DOMAIN services \cup {toDevice[1].code}
              /\ services'[toDevice[1].code] = toDevice[1].channel
              /\ \A k \in DOMAIN services : services'[k] = services[k]
           \/ UNCHANGED services
    BY <1>6, AnswerEffect
  <2>2. QED
    BY <2>1
<1>7. CASE DeviceReadsAck
  <2>1. /\ \A i \in DOMAIN toDevice' : i + 1 \in DOMAIN toDevice /\ toDevice'[i] = toDevice[i + 1]
        /\ UNCHANGED services
    BY <1>7, ReadsAckEffect
  <2>2. QED
    BY <2>1
<1>8. CASE UNCHANGED <<toDevice, services>>
  BY <1>8
<1>9. ASSUME NEW c \in Callers, NEW op \in Operations, NEW x \in Channels, x \notin DOMAIN channels, Start(c, op, x)
      PROVE  UNCHANGED services /\ Written(Opening(nextIdentifier, NextCode, x))
  BY <1>9, MakeEffect
<1>10. ASSUME NEW c \in Callers, CallReturns(c) \/ TimedOut(c) \/ Retry(c) PROVE UNCHANGED <<toDevice, services>>
  BY <1>10 DEF CallReturns, TimedOut, Retry
<1>11. CASE Close \/ Dispose \/ SocketEnd \/ DeviceCloses \/ UNCHANGED vars
            \/ \E code \in Codes, cancels, expects \in BOOLEAN : DevicePushes(code, cancels, expects)
  <2>1. UNCHANGED <<toDevice, services>>
    BY <1>11 DEF Close, Dispose, SocketEnd, DeviceCloses, DevicePushes, vars
  <2>2. QED
    BY <1>8, <2>1
<1>12. CASE \E c \in Callers, op \in Operations, x \in Channels : Start(c, op, x)
  <2>1. PICK c \in Callers, op \in Operations, x \in Channels : Start(c, op, x)
    BY <1>12
  <2>2. CASE x \in DOMAIN channels
    <3>1. Kept
      BY <1>3, <2>1, <2>2
    <3>2. QED
      BY <3>1 DEF Kept
  <2>3. CASE x \notin DOMAIN channels
    BY <1>9, <2>1, <2>3
  <2>4. QED
    BY <2>2, <2>3
<1>13. CASE \E c \in Callers : ChannelMade(c) \/ CallReturns(c) \/ TimedOut(c) \/ Retry(c)
  <2>1. Kept \/ UNCHANGED <<toDevice, services>>
    BY <1>4, <1>10, <1>13
  <2>2. QED
    BY <1>8, <2>1 DEF Kept
<1>14. QED
  BY <1>5, <1>6, <1>7, <1>11, <1>12, <1>13 DEF Next

\* While makeChannel was not raced, the device opens each code for its own channel.
LEMMA CodesRightfulStep == TypeOK /\ Fresh /\ OneIsMade /\ CodesRightful /\ [Next]_vars => CodesRightful'
<1> SUFFICES ASSUME TypeOK, Fresh, OneIsMade, CodesRightful, [Next]_vars, ~raced'
             PROVE  CodesRightful'
  BY DEF CodesRightful
<1>a. ~raced
  BY MakingSteps, MakesAlone, MadeAlone DEF MakersStay
<1>b. TypeOK'
  BY TypeStep
<1>c. \A m \in Openings : m.code \in Nat /\ m.channel \in Channels
  BY MessageKinds
<1>1. /\ \A code \in DOMAIN services : code \in Nat /\ services[code] \in Channels /\ Rightful(code, services[code])
      /\ \A i \in DOMAIN toDevice : toDevice[i] \in Openings => Rightful(toDevice[i].code, toDevice[i].channel)
  BY <1>a DEF CodesRightful, TypeOK
<1>2. \A k \in Nat, y \in Channels : Rightful(k, y) => Rightful(k, y)'
  BY RightKept
<1>3. \A k \in DOMAIN services' : k \in Nat /\ services'[k] \in Channels
  BY <1>b DEF TypeOK
<1>4. CASE /\ \A i \in DOMAIN toDevice' : toDevice'[i] \in Openings =>
                 \E j \in DOMAIN toDevice : toDevice[j] = toDevice'[i]
           /\ \A k \in DOMAIN services' :
                 \/ k \in DOMAIN services /\ services'[k] = services[k]
                 \/ \E j \in DOMAIN toDevice :
                      toDevice[j] \in Openings /\ toDevice[j].code = k /\ toDevice[j].channel = services'[k]
  <2>1. \A k \in DOMAIN services' : Rightful(k, services'[k])
    BY <1>1, <1>4
  <2>2. \A k \in DOMAIN services' : \E y \in Channels : y = services'[k] /\ Rightful(k, y)'
    BY <1>2, <1>3, <2>1
  <2>3. \A i \in DOMAIN toDevice' : toDevice'[i] \in Openings => Rightful(toDevice'[i].code, toDevice'[i].channel)
    BY <1>1, <1>4
  <2>4. \A i \in DOMAIN toDevice' : toDevice'[i] \in Openings =>
          \E k \in Nat, y \in Channels : k = toDevice'[i].code /\ y = toDevice'[i].channel /\ Rightful(k, y)'
    BY <1>2, <1>c, <2>3
  <2>5. QED
    BY <2>2, <2>4 DEF CodesRightful
<1>5. ASSUME NEW c \in Callers, NEW op \in Operations, NEW x \in Channels, x \notin DOMAIN channels, Start(c, op, x),
             UNCHANGED services, Written(Opening(nextIdentifier, NextCode, x))
      PROVE  CodesRightful'
  <2>1. /\ ~raced /\ UNCHANGED <<channels, closing>>
        /\ \A d \in Callers : Making(d)' => d = c
        /\ Making(c)' /\ caller'[c].channel = x
    BY <1>5, MakesAlone
  <2>2. NextCode' = NextCode /\ NextCode \in Nat
    BY <2>1, CodeCounts DEF NextCode
  <2>3. \A y \in DOMAIN channels : channels[y] # NextCode
    BY <2>1, <2>2 DEF OneIsMade, TypeOK
  <2>4. \A k \in Nat : k = NextCode => Rightful(k, x)'
    BY <2>1, <2>2, <2>3 DEF Rightful
  <2>5. /\ Opening(nextIdentifier, NextCode, x) \in Openings
        /\ Opening(nextIdentifier, NextCode, x).code = NextCode /\ Opening(nextIdentifier, NextCode, x).channel = x
    BY <1>5, MakeEffect
  <2>6. \A k \in DOMAIN services' : \E y \in Channels : y = services'[k] /\ Rightful(k, y)'
    BY <1>1, <1>2, <1>5
  <2>7. \A i \in DOMAIN toDevice' : toDevice'[i] \in Openings =>
          \E k \in Nat, y \in Channels : k = toDevice'[i].code /\ y = toDevice'[i].channel /\ Rightful(k, y)'
    <3> SUFFICES ASSUME NEW i \in DOMAIN toDevice', toDevice'[i] \in Openings
                 PROVE  \E k \in Nat, y \in Channels : k = toDevice'[i].code /\ y = toDevice'[i].channel /\ Rightful(k, y)'
      OBVIOUS
    <3>1. CASE i \in DOMAIN toDevice /\ toDevice'[i] = toDevice[i]
      <4>1. Rightful(toDevice[i].code, toDevice[i].channel)
        BY <1>1, <3>1
      <4>2. QED
        BY <1>2, <1>c, <3>1, <4>1
    <3>2. CASE toDevice'[i] = Opening(nextIdentifier, NextCode, x)
      BY <2>2, <2>4, <2>5, <3>2
    <3>3. QED
      BY <1>5, <3>1, <3>2 DEF Written
  <2>8. QED
    BY <2>6, <2>7 DEF CodesRightful
<1>6. QED
  BY <1>4, <1>5, OpeningSteps


---------------------------------------------------------------------------
(* Calls and listeners.                                                    *)

\* An open channel keeps its code.
LEMMA ChannelsGrow ==
  ASSUME TypeOK, OneIsMade, [Next]_vars, ~raced'
  PROVE  \A x \in DOMAIN channels : x \in DOMAIN channels' /\ channels'[x] = channels[x]
<1>1. ASSUME NEW c \in Callers, NEW op \in Operations, NEW x \in Channels, x \notin DOMAIN channels, Start(c, op, x)
      PROVE  UNCHANGED channels
  BY <1>1, MakesAlone
<1>2. ASSUME NEW c \in Callers, ChannelMade(c)
      PROVE  /\ DOMAIN channels' = DOMAIN channels \cup {caller[c].channel}
             /\ \A y \in DOMAIN channels : channels'[y] = channels[y]
  BY <1>2, MadeAlone
<1>3. MakersStay => UNCHANGED channels
  BY DEF MakersStay
<1>4. QED
  BY <1>1, <1>2, <1>3, MakingSteps

\* What a request was meant for does not change.
LEMMA AskedKept ==
  ASSUME TypeOK, [Next]_vars
  PROVE  /\ \A i \in Ids \ {nextIdentifier} : asked'[i] = asked[i]
         /\ nextIdentifier' = nextIdentifier => asked' = asked
<1> DEFINE Goal == /\ \A i \in Ids \ {nextIdentifier} : asked'[i] = asked[i]
                   /\ nextIdentifier' = nextIdentifier => asked' = asked
<1> SUFFICES Goal
  OBVIOUS
<1> USE DEF clientVars, socketVars, historyVars, deviceVars
<1>1. ASSUME NEW c \in Callers, NEW op \in Operations, NEW x \in Channels, NEW code \in Nat, Proceed(c, op, x, code)
      PROVE  Goal
  BY <1>1, ProceedEffect
<1>2. UNCHANGED asked => Goal
  OBVIOUS
<1>3. ASSUME NEW c \in Callers, NEW op \in Operations, NEW x \in Channels, x \notin DOMAIN channels, Start(c, op, x)
      PROVE  Goal
  <2>1. /\ nextIdentifier' = nextIdentifier + 1 /\ nextIdentifier \in Nat
        /\ \A i \in Ids \ {nextIdentifier} : asked'[i] = asked[i]
    BY <1>3, MakeEffect DEF TypeOK
  <2>2. QED
    BY <2>1
<1> HIDE DEF Goal
<1>4. ASSUME NEW c \in Callers, NEW op \in Operations, NEW x \in Channels, x \in DOMAIN channels, Start(c, op, x)
      PROVE  Goal
  BY <1>1, <1>4 DEF Start, TypeOK
<1>5. ASSUME NEW c \in Callers, ChannelMade(c) PROVE Goal
  <2>1. /\ caller[c].op \in Operations /\ caller[c].channel \in Channels /\ caller[c].code \in Nat
        /\ Proceed(c, caller[c].op, caller[c].channel, caller[c].code)
    BY <1>5, MadeEffect
  <2>2. QED
    BY <1>1, <2>1
<1>6. ASSUME NEW c \in Callers, CallReturns(c) \/ TimedOut(c) \/ Retry(c) PROVE UNCHANGED asked
  BY <1>6 DEF CallReturns, TimedOut, Retry
<1>7. ASSUME \/ HandleData \/ DeviceAnswers \/ DeviceReadsAck \/ Close \/ Dispose \/ SocketEnd \/ DeviceCloses
             \/ UNCHANGED vars \/ \E code \in Codes, cancels, expects \in BOOLEAN : DevicePushes(code, cancels, expects)
      PROVE  UNCHANGED asked
  BY <1>7 DEF HandleData, DeviceAnswers, DeviceReadsAck, Close, Dispose, SocketEnd, DeviceCloses, DevicePushes, vars
<1>8. QED
  BY <1>2, <1>3, <1>4, <1>5, <1>6, <1>7 DEF Next

\* A call or a listener is new only if a caller goes on, and then has the code of its channel.
LEMMA UsesStep ==
  ASSUME TypeOK, OneIsMade, [Next]_vars, ~raced'
  PROVE  /\ \A i \in DOMAIN toDevice' : toDevice'[i] \in Callings =>
              \/ \E j \in DOMAIN toDevice : toDevice[j] = toDevice'[i]
              \/ asked'[toDevice'[i].id] \in DOMAIN channels' /\ channels'[asked'[toDevice'[i].id]] = toDevice'[i].code
         /\ \A l \in channelCallbacks' :
              l \in channelCallbacks \/ (l.channel \in DOMAIN channels' /\ channels'[l.channel] = l.code)
<1> DEFINE Calls == \A i \in DOMAIN toDevice' : toDevice'[i] \in Callings =>
                      \/ \E j \in DOMAIN toDevice : toDevice[j] = toDevice'[i]
                      \/ asked'[toDevice'[i].id] \in DOMAIN channels' /\ channels'[asked'[toDevice'[i].id]] = toDevice'[i].code
           Hears == \A l \in channelCallbacks' :
                      l \in channelCallbacks \/ (l.channel \in DOMAIN channels' /\ channels'[l.channel] = l.code)
<1> SUFFICES Calls /\ Hears
  OBVIOUS
<1> USE DEF clientVars, socketVars, historyVars, deviceVars
<1>1. ASSUME \A i \in DOMAIN toDevice' :
               (\E j \in DOMAIN toDevice : toDevice[j] = toDevice'[i]) \/ toDevice'[i] \notin Callings
      PROVE  Calls
  BY <1>1
<1>2. channelCallbacks' \subseteq channelCallbacks => Hears
  OBVIOUS
<1>3. ASSUME NEW c \in Callers, NEW op \in Operations, NEW x \in Channels, NEW code \in Nat, Proceed(c, op, x, code),
             x \in DOMAIN channels', channels'[x] = code
      PROVE  Calls /\ Hears
  <2>1. /\ \/ UNCHANGED toDevice
           \/ /\ Written(Calling(nextIdentifier, code)) /\ asked'[nextIdentifier] = x
              /\ nextIdentifier \in Ids
        /\ channelCallbacks' \in {channelCallbacks, channelCallbacks \cup {[code |-> code, channel |-> x]}}
    BY <1>3, ProceedEffect
  <2>2. nextIdentifier \in Ids => Calling(nextIdentifier, code).id = nextIdentifier /\ Calling(nextIdentifier, code).code = code
    BY Built
  <2>3. Hears
    BY <1>3, <2>1
  <2>4. Calls
    BY <1>3, <2>1, <2>2 DEF Written
  <2>5. QED
    BY <2>3, <2>4
<1> HIDE DEF Calls, Hears
<1>4. ASSUME NEW c \in Callers, NEW op \in Operations, NEW x \in Channels, x \in DOMAIN channels, Start(c, op, x)
      PROVE  Calls /\ Hears
  BY <1>3, <1>4 DEF Start, TypeOK
<1>5. ASSUME NEW c \in Callers, NEW op \in Operations, NEW x \in Channels, x \notin DOMAIN channels, Start(c, op, x)
      PROVE  Calls /\ Hears
  <2>1. /\ Opening(nextIdentifier, NextCode, x) \in Openings /\ Written(Opening(nextIdentifier, NextCode, x))
        /\ UNCHANGED channelCallbacks
    BY <1>5, MakeEffect
  <2>2. \A m \in Openings : m \notin Callings
    BY MessageKinds
  <2>3. \A i \in DOMAIN toDevice' :
               (\E j \in DOMAIN toDevice : toDevice[j] = toDevice'[i]) \/ toDevice'[i] \notin Callings
    BY <2>1, <2>2 DEF Written
  <2>4. QED
    BY <1>1, <1>2, <2>1, <2>3
<1>6. ASSUME NEW c \in Callers, ChannelMade(c) PROVE Calls /\ Hears
  <2>1. /\ caller[c].op \in Operations /\ caller[c].channel \in Channels /\ caller[c].code \in Nat
        /\ DOMAIN channels' = DOMAIN channels \cup {caller[c].channel}
        /\ channels'[caller[c].channel] = caller[c].code
        /\ Proceed(c, caller[c].op, caller[c].channel, caller[c].code)
    BY <1>6, MadeEffect
  <2>2. QED
    BY <1>3, <1>6, <2>1
<1>7. CASE HandleData
  <2>1. /\ \A i \in DOMAIN toDevice' : (i \in DOMAIN toDevice /\ toDevice'[i] = toDevice[i]) \/ toDevice'[i] \in Acks
        /\ UNCHANGED channelCallbacks
    BY <1>7, HandleEffect
  <2>2. \A m \in Acks : m \notin Callings
    BY MessageKinds
  <2>3. \A i \in DOMAIN toDevice' :
               (\E j \in DOMAIN toDevice : toDevice[j] = toDevice'[i]) \/ toDevice'[i] \notin Callings
    BY <2>1, <2>2
  <2>4. QED
    BY <1>1, <1>2, <2>1, <2>3
<1>8. CASE DeviceAnswers \/ DeviceReadsAck
  <2>1. /\ \A i \in DOMAIN toDevice' : i + 1 \in DOMAIN toDevice /\ toDevice'[i] = toDevice[i + 1]
        /\ UNCHANGED channelCallbacks
    BY <1>8, AnswerEffect, ReadsAckEffect
  <2>2. QED
    BY <1>1, <1>2, <2>1
<1>9. ASSUME UNCHANGED toDevice, channelCallbacks' \subseteq channelCallbacks PROVE Calls /\ Hears
  BY <1>1, <1>2, <1>9
<1>10. ASSUME NEW c \in Callers, CallReturns(c) \/ TimedOut(c) \/ Retry(c) PROVE Calls /\ Hears
  <2>1. UNCHANGED <<toDevice, channelCallbacks>>
    BY <1>10 DEF CallReturns, TimedOut, Retry
  <2>2. QED
    BY <1>9, <2>1
<1>11. CASE Close \/ Dispose \/ SocketEnd \/ DeviceCloses \/ UNCHANGED vars
            \/ \E code \in Codes, cancels, expects \in BOOLEAN : DevicePushes(code, cancels, expects)
  <2>1. UNCHANGED toDevice /\ channelCallbacks' \subseteq channelCallbacks
    BY <1>11 DEF Close, Dispose, SocketEnd, DeviceCloses, DevicePushes, vars
  <2>2. QED
    BY <1>9, <2>1
<1>12. CASE \E c \in Callers, op \in Operations, x \in Channels : Start(c, op, x)
  BY <1>4, <1>5, <1>12
<1>13. QED
  BY <1>6, <1>7, <1>8, <1>10, <1>11, <1>12 DEF Next


\* Once raced, makeChannel stays raced.
LEMMA RacedStays == TypeOK /\ OneIsMade /\ [Next]_vars /\ ~raced' => ~raced
  BY MakingSteps, MakesAlone, MadeAlone DEF MakersStay

\* While makeChannel was not raced, calls and listeners go by the code of their channel.
LEMMA UsedAsOpenedStep == TypeOK /\ Fresh /\ OneIsMade /\ UsedAsOpened /\ [Next]_vars => UsedAsOpened'
<1> SUFFICES ASSUME TypeOK, Fresh, OneIsMade, UsedAsOpened, [Next]_vars, ~raced'
             PROVE  UsedAsOpened'
  BY DEF UsedAsOpened
<1>1. /\ \A i \in DOMAIN toDevice : toDevice[i] \in Callings =>
           asked[toDevice[i].id] \in DOMAIN channels /\ channels[asked[toDevice[i].id]] = toDevice[i].code
      /\ \A l \in channelCallbacks : l.channel \in DOMAIN channels /\ channels[l.channel] = l.code
  BY RacedStays DEF UsedAsOpened
<1>2. \A x \in DOMAIN channels : x \in DOMAIN channels' /\ channels'[x] = channels[x]
  BY ChannelsGrow
<1>3. \A m \in Callings : m.id \in Ids
  BY MessageKinds
<1>4. \A j \in DOMAIN toDevice : toDevice[j] \in Callings => asked'[toDevice[j].id] = asked[toDevice[j].id]
  <2> SUFFICES ASSUME NEW j \in DOMAIN toDevice, toDevice[j] \in Callings
               PROVE  asked'[toDevice[j].id] = asked[toDevice[j].id]
    OBVIOUS
  <2>1. PICK id \in Ids : id = toDevice[j].id
    BY <1>3
  <2>2. Expected(id)
    BY <2>1 DEF Expected
  <2>3. id # nextIdentifier
    BY <2>2 DEF Fresh, Ids
  <2>4. QED
    BY <2>1, <2>3, AskedKept
<1>5. \A i \in DOMAIN toDevice' : toDevice'[i] \in Callings =>
         asked'[toDevice'[i].id] \in DOMAIN channels' /\ channels'[asked'[toDevice'[i].id]] = toDevice'[i].code
  <2> SUFFICES ASSUME NEW i \in DOMAIN toDevice', toDevice'[i] \in Callings
               PROVE  asked'[toDevice'[i].id] \in DOMAIN channels' /\ channels'[asked'[toDevice'[i].id]] = toDevice'[i].code
    OBVIOUS
  <2>1. CASE \E j \in DOMAIN toDevice : toDevice[j] = toDevice'[i]
    BY <1>1, <1>2, <1>4, <2>1
  <2>2. QED
    BY <2>1, UsesStep
<1>6. \A l \in channelCallbacks' : l.channel \in DOMAIN channels' /\ channels'[l.channel] = l.code
  BY <1>1, <1>2, UsesStep
<1>7. QED
  BY <1>5, <1>6 DEF UsedAsOpened

\* The channel that has a code at the device is the one that is open under it.
LEMMA CodesAgree ==
  ASSUME TypeOK, CodesRightful, ~raced, NEW code \in DOMAIN services, NEW x \in DOMAIN channels, channels[x] = code
  PROVE  services[code] = x
  BY DEF CodesRightful, Rightful

\* While makeChannel was not raced, each call is served, and each message heard, on its channel.
LEMMA ChannelsApartStep ==
  ASSUME TypeOK, Fresh, PushedOnChannels, OneIsMade, CodesRightful, UsedAsOpened, ChannelsApart, [Next]_vars
  PROVE  ChannelsApart'
<1> SUFFICES ASSUME ~raced'
             PROVE  ChannelsApart'
  BY DEF ChannelsApart
<1> USE DEF clientVars, socketVars, historyVars, deviceVars
<1>1. /\ ~raced
      /\ \A i \in Ids : served[i] \in {asked[i], "none"}
      /\ \A d \in delivered : d.from = d.to
  BY RacedStays DEF ChannelsApart
<1>2. ASSUME UNCHANGED served PROVE \A i \in Ids : served'[i] \in {asked'[i], "none"}
  <2> SUFFICES ASSUME NEW i \in Ids PROVE served'[i] \in {asked'[i], "none"}
    OBVIOUS
  <2>1. CASE i = nextIdentifier
    BY <1>2, <2>1 DEF Fresh, Ids
  <2>2. CASE i # nextIdentifier
    BY <1>1, <1>2, <2>2, AskedKept
  <2>3. QED
    BY <2>1, <2>2
<1>3. CASE DeviceAnswers
  <2>1. /\ 1 \in DOMAIN toDevice
        /\ \/ UNCHANGED served
           \/ /\ toDevice[1] \in Callings
              /\ served' = [served EXCEPT ![toDevice[1].id] = served'[toDevice[1].id]]
              /\ \/ served'[toDevice[1].id] = "none"
                 \/ /\ toDevice[1].code \in DOMAIN services
                    /\ served'[toDevice[1].id] = services[toDevice[1].code]
        /\ UNCHANGED <<asked, delivered>>
    BY <1>3, AnswerEffect
  <2>2. ASSUME toDevice[1] \in Callings, toDevice[1].code \in DOMAIN services
        PROVE  services[toDevice[1].code] = asked[toDevice[1].id]
    <3>1. asked[toDevice[1].id] \in DOMAIN channels /\ channels[asked[toDevice[1].id]] = toDevice[1].code
      BY <1>1, <2>1, <2>2 DEF UsedAsOpened
    <3>2. QED
      BY <1>1, <2>2, <3>1, CodesAgree
  <2>3. served \in [Ids -> Channels \cup {"none"}]
    BY DEF TypeOK
  <2>4. \A i \in Ids : served'[i] \in {asked'[i], "none"}
    BY <1>1, <2>1, <2>2, <2>3
  <2>5. QED
    BY <1>1, <2>1, <2>4 DEF ChannelsApart
<1>4. CASE HandleData
  <2>1. /\ 1 \in DOMAIN inbox
        /\ \/ UNCHANGED delivered
           \/ /\ inbox[1] \in Pushes
              /\ delivered' \in {delivered, delivered \cup
                                   {[from |-> inbox[1].from, to |-> l.channel] : l \in Listeners(inbox[1])}}
        /\ UNCHANGED served
    BY <1>4, HandleEffect
  <2>2. ASSUME inbox[1] \in Pushes, NEW l \in Listeners(inbox[1]) PROVE l.channel = inbox[1].from
    <3>1. inbox[1].code \in DOMAIN services /\ services[inbox[1].code] = inbox[1].from
      BY <2>1, <2>2 DEF PushedOnChannels
    <3>2. l.channel \in DOMAIN channels /\ channels[l.channel] = inbox[1].code
      BY <1>1, <2>2 DEF UsedAsOpened, Listeners
    <3>3. QED
      BY <1>1, <3>1, <3>2, CodesAgree
  <2>3. \A d \in delivered' : d.from = d.to
    BY <1>1, <2>1, <2>2
  <2>4. QED
    BY <1>2, <2>1, <2>3 DEF ChannelsApart
<1>5. ASSUME UNCHANGED <<served, delivered>> PROVE ChannelsApart'
  BY <1>1, <1>2, <1>5 DEF ChannelsApart
<1>6. ASSUME NEW c \in Callers, NEW op \in Operations, NEW x \in Channels, Start(c, op, x) PROVE UNCHANGED <<served, delivered>>
  BY <1>6 DEF Start
<1>7. ASSUME NEW c \in Callers, ChannelMade(c) \/ CallReturns(c) \/ TimedOut(c) \/ Retry(c)
      PROVE  UNCHANGED <<served, delivered>>
  BY <1>7 DEF ChannelMade, CallReturns, TimedOut, Retry
<1>8. ASSUME \/ DeviceReadsAck \/ Close \/ Dispose \/ SocketEnd \/ DeviceCloses \/ UNCHANGED vars
             \/ \E code \in Codes, cancels, expects \in BOOLEAN : DevicePushes(code, cancels, expects)
      PROVE  UNCHANGED <<served, delivered>>
  BY <1>8 DEF DeviceReadsAck, Close, Dispose, SocketEnd, DeviceCloses, DevicePushes, vars
<1>9. QED
  BY <1>3, <1>4, <1>5, <1>6, <1>7, <1>8 DEF Next

---------------------------------------------------------------------------
(* Theorems.                                                               *)

\* The invariant holds before any call is made.
LEMMA InitInvariant == Init => IInv
<1> SUFFICES ASSUME Init PROVE IInv
  OBVIOUS
<1> USE DEF Init
<1>1. TypeOK
  <2>1. <<>> \in Seq(Openings \cup Callings \cup Acks) /\ <<>> \in Seq(Replies \cup Pushes)
    OBVIOUS
  <2>2. DOMAIN channels = {} /\ DOMAIN services = {}
    OBVIOUS
  <2>3. /\ DOMAIN channels \subseteq Channels /\ \A x \in DOMAIN channels : channels[x] \in Nat
        /\ DOMAIN services \subseteq Nat /\ \A code \in DOMAIN services : services[code] \in Channels
    BY <2>2
  <2>4. /\ caller \in [Callers -> {Idle, Failed} \cup Makers \cup Askers]
        /\ asked \in [Ids -> Channels \cup {"none"}]
        /\ served \in [Ids -> Channels \cup {"none"}]
    OBVIOUS
  <2>5. toDevice \in Seq(Openings \cup Callings \cup Acks) /\ inbox \in Seq(Replies \cup Pushes)
    BY <2>1
  <2>6. /\ nextIdentifier \in Nat \ {0}
        /\ replyQueues \subseteq Ids /\ channelCallbacks \subseteq [code : Nat, channel : Channels]
        /\ delivered \subseteq [from : Channels, to : Channels]
        /\ unheard \subseteq Nat /\ acked \subseteq Nat /\ pushed \in Nat
    OBVIOUS
  <2>7. /\ closing \in BOOLEAN /\ piped \in BOOLEAN /\ released \in BOOLEAN /\ disposed \in BOOLEAN
        /\ raced \in BOOLEAN /\ gone \in BOOLEAN
    BY Zenon
  <2> HIDE DEF Init
  <2>8. QED
    BY <2>3, <2>4, <2>5, <2>6, <2>7 DEF TypeOK
<1>2. DOMAIN toDevice = {} /\ DOMAIN inbox = {} /\ DOMAIN channels = {} /\ DOMAIN services = {}
  OBVIOUS
<1>3. \A c \in Callers : caller[c] \notin Makers \cup Askers
  BY CallerKinds
<1>4. Fresh
  BY <1>2, <1>3 DEF Fresh, Expected
<1>5. OneIsMade
  BY <1>2, <1>3 DEF OneIsMade, Making, IsInjective
<1>6. PushedOnChannels /\ CodesRightful /\ UsedAsOpened /\ AcksUnderWay
  BY <1>2 DEF PushedOnChannels, CodesRightful, UsedAsOpened, AcksUnderWay
<1>7. ChannelsApart
  BY DEF ChannelsApart
<1>8. QED
  BY <1>1, <1>4, <1>5, <1>6, <1>7 DEF IInv

\* The invariant that the others follow from: what has its type, which identifiers are
\* not in use, which channel has a right to which code, and what acks are under way.
THEOREM InstrumentInvariant == Spec => []IInv
<1>1. Init => IInv
  BY InitInvariant
<1>2. IInv /\ [Next]_vars => IInv'
  BY TypeStep, FreshStep, PushedOnChannelsStep, OneIsMadeStep, CodesRightfulStep, UsedAsOpenedStep, AcksUnderWayStep,
     ChannelsApartStep DEF IInv
<1>3. QED
  BY <1>1, <1>2, PTL DEF Spec

\* As long as makeChannel is not called while another call of it waits, every call runs on
\* its own channel or on none, and a listener hears only its own (callChannel, _handleData).
THEOREM ChannelsStayApart == Spec => []ChannelsApart
<1>1. IInv => ChannelsApart
  BY DEF IInv
<1>2. QED
  BY <1>1, InstrumentInvariant, PTL

\* The device has an ack for each message that found no listener and wanted one, when
\* everything written is read, and for no other (_handleData, _replyAck).
THEOREM UnheardAreAcked == Spec => []AckedUnlessHeard
<1>1. IInv => AckedUnlessHeard
  <2> SUFFICES ASSUME AcksUnderWay PROVE AckedUnlessHeard
    BY DEF IInv
  <2>1. toDevice = <<>> => DOMAIN toDevice = {}
    OBVIOUS
  <2>2. QED
    BY <2>1 DEF AcksUnderWay, AckedUnlessHeard
<1>2. QED
  BY <1>1, InstrumentInvariant, PTL

\* "Each service has a separate channel", if makeChannel is not called while another call
\* of it waits: the condition is what the code lacks, as the run of the channels shows.
THEOREM ChannelsSeparate == Spec => [](~raced => SeparateChannels)
<1>1. IInv => (~raced => SeparateChannels)
  BY DEF IInv, OneIsMade, SeparateChannels
<1>2. QED
  BY <1>1, InstrumentInvariant, PTL

---------------------------------------------------------------------------
(* DTXMessage: arguments are parsed.                                       *)

\* A set with 0 and the successor of each of its numbers has all numbers.
LEMMA Induction ==
  ASSUME NEW T, 0 \in T, \A n \in Nat : n \in T => n + 1 \in T
  PROVE  \A n \in Nat : n \in T
<1> DEFINE R == OpToRel(<, Nat)
<1> DEFINE U == Nat \ T
<1>1. IsWellFoundedOn(R, Nat)
  BY NatLessThanWellFounded
<1>2. \A x, y \in Nat : x < y => <<x, y>> \in R
  BY SMT DEF OpToRel
<1>3. ASSUME U # {} PROVE FALSE
  <2> HIDE DEF R, U
  <2>0. U \subseteq Nat
    BY DEF U
  <2>1. PICK x \in U : \A y \in U : ~ (<<y, x>> \in R)
    BY <1>1, <1>3, WFMin, <2>0
  <2>2. x \in Nat /\ x # 0 /\ x \notin T
    BY <2>0, <2>1 DEF U
  <2>3. x - 1 \in Nat /\ x - 1 < x /\ x = (x - 1) + 1
    BY <2>2
  <2>4. x - 1 \notin U
    BY <1>2, <2>1, <2>2, <2>3
  <2>5. x - 1 \in T
    BY <2>4, <2>3 DEF U
  <2> QED
    BY <2>2, <2>3, <2>5
<1> QED
  BY <1>3

\* How many bytes the first arguments of a message take, by how many those are.
FirstBytes(message, first) ==
  first = [i \in 0 .. Len(message.arguments) |->
            IF i = 0 THEN 0 ELSE first[i - 1] + ArgumentBytes(message.arguments[i], message.pushes)]
BytesOfFirst(message) == CHOOSE first : FirstBytes(message, first)

\* Arguments, and messages that have none where they do not say so.
Types == {"UInt32LE", "BigUInt64LE", "BigInt64LE", "NSKeyed", "Text"}
Arguments == [type : Types, length : Nat]
WellBuilt(message) ==
  /\ message.arguments \in Seq(Arguments)
  /\ (message.payload /\ message.aux) \/ message.arguments = <<>>

\* An argument takes eight bytes or more.
LEMMA ArgumentTakes ==
  ASSUME NEW argument \in Arguments, NEW pushes
  PROVE  ArgumentBytes(argument, pushes) \in Nat /\ ArgumentBytes(argument, pushes) >= 8
BY DEF Arguments, ArgumentBytes

\* There is a function of these.
LEMMA FirstBytesExist ==
  ASSUME NEW message, WellBuilt(message)
  PROVE  \E first : FirstBytes(message, first) /\ first \in [0 .. Len(message.arguments) -> Nat]
<1> DEFINE n == Len(message.arguments)
           Bytes(i) == ArgumentBytes(message.arguments[i], message.pushes)
           Fits(k, f) == f \in [0 .. k -> Nat] /\ \A i \in 0 .. k : f[i] = IF i = 0 THEN 0 ELSE f[i - 1] + Bytes(i)
           T == {k \in Nat : k <= n => \E f : Fits(k, f)}
<1>0. n \in Nat /\ \A i \in 1 .. n : Bytes(i) \in Nat
  <2>1. n \in Nat /\ \A i \in 1 .. n : message.arguments[i] \in Arguments
    BY DEF WellBuilt
  <2> QED
    BY <2>1, ArgumentTakes
<1> HIDE DEF n, Bytes
<1>1. 0 \in T
  <2>1. Fits(0, [i \in 0 .. 0 |-> 0])
    OBVIOUS
  <2> HIDE DEF Fits
  <2> QED
    BY <2>1
<1>2. ASSUME NEW k \in Nat, k \in T PROVE k + 1 \in T
  <2> SUFFICES ASSUME k + 1 <= n PROVE \E f : Fits(k + 1, f)
    <3> HIDE DEF Fits
    <3> QED
      OBVIOUS
  <2>1. PICK f : Fits(k, f)
    <3>1. k <= n
      BY <1>0
    <3> HIDE DEF Fits
    <3> QED
      BY <3>1, <1>2
  <2>2. PICK v \in Nat : v = f[k] + Bytes(k + 1)
    <3>1. f[k] \in Nat /\ k + 1 \in 1 .. n
      BY <1>0, <2>1
    <3> QED
      BY <3>1, <1>0
  <2>3. PICK g : g = [i \in 0 .. k + 1 |-> IF i = k + 1 THEN v ELSE f[i]]
    OBVIOUS
  <2>4. g \in [0 .. k + 1 -> Nat] /\ g[k + 1] = v /\ \A i \in 0 .. k : g[i] = f[i]
    BY <2>1, <2>2, <2>3
  <2>5. ASSUME NEW i \in 0 .. k + 1 PROVE g[i] = IF i = 0 THEN 0 ELSE g[i - 1] + Bytes(i)
    <3>1. CASE i = k + 1
      <4>1. i # 0 /\ i - 1 = k /\ k \in 0 .. k
        BY <3>1
      <4> QED
        BY <2>2, <2>4, <3>1, <4>1
    <3>2. CASE i # k + 1
      <4>1. i \in 0 .. k /\ (i # 0 => i - 1 \in 0 .. k)
        BY <3>2
      <4> QED
        BY <2>1, <2>4, <4>1
    <3> QED
      BY <3>1, <3>2
  <2>6. Fits(k + 1, g)
    BY <2>4, <2>5
  <2> HIDE DEF Fits
  <2> QED
    BY <2>6
<1>3. n \in T
  <2> HIDE DEF T
  <2> QED
    BY <1>0, <1>1, <1>2, Induction
<1>4. PICK f : Fits(n, f)
  <2> HIDE DEF Fits
  <2> QED
    BY <1>0, <1>3
<1>5. f = [i \in 0 .. n |-> IF i = 0 THEN 0 ELSE f[i - 1] + Bytes(i)]
  BY <1>4
<1> QED
  BY <1>4, <1>5 DEF FirstBytes, n, Bytes

\* What the first arguments take, and all of them.
LEMMA FirstBytesAdd ==
  ASSUME NEW message, WellBuilt(message), NEW f, f = BytesOfFirst(message), NEW n, n = Len(message.arguments)
  PROVE  /\ f \in [0 .. n -> Nat] /\ f[0] = 0 /\ f[n] = AuxLength(message)
         /\ \A i \in 1 .. n : f[i] = f[i - 1] + ArgumentBytes(message.arguments[i], message.pushes)
<1>0. n \in Nat
  BY DEF WellBuilt
<1>1. FirstBytes(message, f)
  BY FirstBytesExist DEF BytesOfFirst
<1>2. \A i \in 0 .. n : f[i] = IF i = 0 THEN 0 ELSE f[i - 1] + ArgumentBytes(message.arguments[i], message.pushes)
  BY <1>1 DEF FirstBytes
<1>3. PICK g : FirstBytes(message, g) /\ g \in [0 .. n -> Nat]
  BY FirstBytesExist
<1>4. \A i \in 0 .. n : g[i] = IF i = 0 THEN 0 ELSE g[i - 1] + ArgumentBytes(message.arguments[i], message.pushes)
  BY <1>3 DEF FirstBytes
<1> DEFINE T == {i \in Nat : i <= n => f[i] = g[i]}
<1>5. 0 \in T
  BY <1>0, <1>2, <1>4
<1>6. ASSUME NEW i \in Nat, i \in T PROVE i + 1 \in T
  <2> SUFFICES ASSUME i + 1 <= n PROVE f[i + 1] = g[i + 1]
    OBVIOUS
  <2>1. PICK j : j = i + 1 /\ j \in 0 .. n /\ j # 0 /\ j - 1 = i
    <3>1. i + 1 \in 0 .. n /\ i + 1 # 0 /\ (i + 1) - 1 = i
      BY <1>0
    <3> QED
      BY <3>1
  <2>2. f[i] = g[i]
    BY <1>0, <1>6
  <2> QED
    BY <1>2, <1>4, <2>1, <2>2
<1>7. \A i \in Nat : i \in T
  <2> HIDE DEF T
  <2> QED
    BY <1>5, <1>6, Induction
<1>8. \A i \in 0 .. n : f[i] = g[i]
  BY <1>0, <1>7
<1>9. f \in [0 .. n -> Nat]
  <2>1. f = [i \in 0 .. n |-> IF i = 0 THEN 0 ELSE f[i - 1] + ArgumentBytes(message.arguments[i], message.pushes)]
    BY <1>1 DEF FirstBytes
  <2>2. f = [i \in 0 .. n |-> f[i]]
    BY <2>1
  <2> QED
    BY <1>3, <1>8, <2>2
<1>10. f[n] = AuxLength(message)
  <2>1. AuxLength(message) = BytesOfFirst(message)[Len(message.arguments)]
    BY DEF AuxLength, BytesOfFirst, FirstBytes
  <2> QED
    BY <2>1
<1>11. 0 \in 0 .. n /\ \A i \in 1 .. n : i \in 0 .. n /\ i # 0
  BY <1>0
<1> QED
  BY <1>2, <1>9, <1>10, <1>11

\* The cursor is behind the header and the arguments taken.
MessageInv ==
  /\ WellBuilt(built)
  /\ data \in Seq(Arguments) /\ Len(data) <= Len(built.arguments)
  /\ \A i \in 1 .. Len(data) : data[i] = built.arguments[i]
  /\ auxCursor = AuxHeaderLength + BytesOfFirst(built)[Len(data)]
  /\ ArgumentsParsed

\* While there is more to parse, there is an argument; and where there is not, there
\* is at most one left.
LEMMA ArgumentsLeft ==
  ASSUME MessageInv
  PROVE  /\ MoreArguments => Len(data) < Len(built.arguments)
         /\ ~MoreArguments =>
              \/ Len(data) = Len(built.arguments)
              \/ /\ Len(data) + 1 = Len(built.arguments)
                 /\ ArgumentBytes(built.arguments[Len(built.arguments)], built.pushes) < AuxHeaderLength
<1>1. PICK f, n, k : f = BytesOfFirst(built) /\ n = Len(built.arguments) /\ k = Len(data)
  OBVIOUS
<1>2. n \in Nat /\ k \in Nat /\ k <= n /\ auxCursor = 16 + f[k]
  BY <1>1 DEF MessageInv, WellBuilt, AuxHeaderLength
<1>3. /\ f \in [0 .. n -> Nat] /\ f[n] = AuxLength(built)
      /\ \A i \in 1 .. n : f[i] = f[i - 1] + ArgumentBytes(built.arguments[i], built.pushes)
  BY <1>1, FirstBytesAdd DEF MessageInv
<1>4. \A i \in 1 .. n : /\ ArgumentBytes(built.arguments[i], built.pushes) \in Nat
                        /\ ArgumentBytes(built.arguments[i], built.pushes) >= 8
  <2>1. \A i \in 1 .. n : built.arguments[i] \in Arguments
    BY <1>1 DEF MessageInv, WellBuilt
  <2> QED
    BY <2>1, ArgumentTakes
<1>5. ASSUME MoreArguments PROVE k < n
  <2>1. ~(k = n)
    BY <1>2, <1>3, <1>5 DEF MoreArguments
  <2> QED
    BY <1>2, <2>1
<1>6. ASSUME ~MoreArguments, k # n
      PROVE  k + 1 = n /\ ArgumentBytes(built.arguments[n], built.pushes) < 16
  <2> DEFINE T == {m \in Nat : \A i \in 0 .. n : i + m = n => f[i] + 8 * m <= f[n]}
  <2>1. 0 \in T
    BY <1>2, <1>3
  <2>2. ASSUME NEW m \in Nat, m \in T PROVE m + 1 \in T
    <3> SUFFICES ASSUME NEW i \in 0 .. n, i + (m + 1) = n PROVE f[i] + 8 * (m + 1) <= f[n]
      OBVIOUS
    <3>1. PICK j : j = i + 1 /\ j \in 0 .. n /\ j \in 1 .. n /\ j - 1 = i /\ j + m = n
      <4>1. i + 1 \in 0 .. n /\ i + 1 \in 1 .. n /\ (i + 1) - 1 = i /\ (i + 1) + m = n
        BY <1>2
      <4> QED
        BY <4>1
    <3>2. f[j] + 8 * m <= f[n]
      BY <2>2, <3>1
    <3>3. PICK a \in Nat, b \in Nat, c \in Nat, d \in Nat :
             a = f[i] /\ b = f[j] /\ c = f[n] /\ d = ArgumentBytes(built.arguments[j], built.pushes)
      <4>1. n \in 0 .. n
        BY <1>2
      <4>2. f[i] \in Nat /\ f[j] \in Nat /\ f[n] \in Nat
        BY <1>3, <3>1, <4>1
      <4>3. ArgumentBytes(built.arguments[j], built.pushes) \in Nat
        BY <1>4, <3>1
      <4> QED
        BY <4>2, <4>3
    <3>4. b = a + d /\ d >= 8 /\ b + 8 * m <= c
      BY <1>3, <1>4, <3>1, <3>2, <3>3
    <3>5. a + 8 * (m + 1) <= c
      BY <3>4
    <3> QED
      BY <3>3, <3>5
  <2>3. \A m \in Nat : m \in T
    <3> HIDE DEF T
    <3> QED
      BY <2>1, <2>2, Induction
  <2>4. PICK m \in Nat : k + m = n /\ m # 0
    <3>1. n - k \in Nat /\ k + (n - k) = n /\ n - k # 0
      BY <1>2, <1>6
    <3> QED
      BY <3>1
  <2>5. PICK a \in Nat, c \in Nat : a = f[k] /\ c = f[n]
    BY <1>2, <1>3
  <2>6. a + 8 * m <= c
    <3>1. m \in T /\ k \in 0 .. n
      BY <1>2, <2>3
    <3> QED
      BY <2>4, <2>5, <3>1
  <2>7. c < 16 + a
    BY <1>2, <1>3, <1>6, <2>5 DEF MoreArguments
  <2>8. m = 1
    BY <2>4, <2>6, <2>7
  <2>9. k + 1 = n /\ n \in 1 .. n /\ n - 1 = k
    BY <1>2, <2>4, <2>8
  <2>10. PICK d \in Nat : d = ArgumentBytes(built.arguments[n], built.pushes) /\ c = a + d
    BY <1>3, <1>4, <2>5, <2>9
  <2> QED
    BY <2>7, <2>9, <2>10
<1> QED
  BY <1>1, <1>5, <1>6 DEF AuxHeaderLength

\* A message is parsed into the arguments it was built of, in order; all that may be
\* missing is the last one, and only if it takes less than sixteen bytes
\* (DTXMessageAux.parse).
THEOREM MessageIsParsed == MessageSpec => []ArgumentsParsed
<1>1. MessageInit => MessageInv
  <2> SUFFICES ASSUME MessageInit PROVE MessageInv
    OBVIOUS
  <2>1. WellBuilt(built)
    <3>1. Received \subseteq Arguments /\ Appended \subseteq Arguments
      <4>1. \A method \in DOMAIN AuxType : AuxType[method] \in Types
        BY DEF AuxType, Types
      <4>2. \A type \in Types, length \in Nat : Argument(type, length) \in Arguments
        BY DEF Arguments, Argument
      <4>3. 0 \in Nat /\ "NSKeyed" \in Types /\ "Text" \in Types /\ Lengths \subseteq Nat
        BY DTXMessageAssumption DEF Types
      <4>4. Appended \subseteq Arguments
        BY <4>1, <4>2, <4>3 DEF Appended
      <4> QED
        BY <4>2, <4>3, <4>4 DEF Received
    <3>2. \A a \in UpToMax(Received) : a \in Seq(Arguments)
      BY <3>1 DEF UpToMax
    <3>3. \A a \in UpToMax(Appended) : a \in Seq(Arguments)
      BY <3>1 DEF UpToMax
    <3> DEFINE sent == {Message(TRUE, pushes, TRUE, arguments, selector) :
                          pushes \in BOOLEAN, arguments \in UpToMax(Received),
                          selector \in {"none", "archive", "plist", "other"}}
               replies == {Build(arguments, selector) : arguments \in UpToMax(Appended), selector \in {"none", "archive"}}
               empty == {Message(payload, FALSE, FALSE, <<>>, selector) :
                           payload \in BOOLEAN, selector \in {"none", "archive", "plist", "other"}}
    <3>4. ASSUME NEW m \in replies PROVE WellBuilt(m)
      BY <3>3 DEF Build, Message, WellBuilt
    <3>5. ASSUME NEW m \in sent PROVE WellBuilt(m)
      BY <3>2 DEF Message, WellBuilt
    <3>6. ASSUME NEW m \in empty PROVE WellBuilt(m)
      <4>1. m.arguments = <<>>
        BY DEF Message
      <4>2. <<>> \in Seq(Arguments)
        OBVIOUS
      <4> HIDE DEF empty
      <4> QED
        BY <4>1, <4>2 DEF WellBuilt
    <3>7. Messages = replies \cup sent \cup empty
      BY DEF Messages
    <3>8. built \in Messages
      BY DEF MessageInit
    <3> HIDE DEF sent, replies, empty
    <3> QED
      BY <3>4, <3>5, <3>6, <3>7, <3>8
  <2>2. data = <<>> /\ Len(data) = 0 /\ auxCursor = AuxHeaderLength /\ parsed = Unparsed
    BY DEF MessageInit
  <2>3. BytesOfFirst(built)[0] = 0
    BY <2>1, FirstBytesAdd
  <2>4. 0 <= Len(built.arguments)
    BY <2>1 DEF WellBuilt
  <2>5. auxCursor = AuxHeaderLength + BytesOfFirst(built)[Len(data)]
    BY <2>2, <2>3 DEF AuxHeaderLength
  <2>6. ArgumentsParsed
    BY <2>2 DEF ArgumentsParsed
  <2> QED
    BY <2>1, <2>2, <2>4, <2>5, <2>6 DEF MessageInv
<1>2. MessageInv /\ [MessageNext]_messageVars => MessageInv'
  <2> SUFFICES ASSUME MessageInv, [MessageNext]_messageVars PROVE MessageInv'
    OBVIOUS
  <2>0. PICK k, n, b : /\ k = Len(data) /\ n = Len(built.arguments) /\ b = built
                       /\ k \in Nat /\ n \in Nat /\ k <= n /\ WellBuilt(b)
    BY DEF MessageInv, WellBuilt
  <2>1. CASE ParseArgument
    <3>1. k < n
      BY <2>0, <2>1, ArgumentsLeft DEF ParseArgument
    <3>2. PICK a : a = b.arguments[k + 1] /\ a \in Arguments
      <4>1. k + 1 \in 1 .. n
        BY <2>0, <3>1
      <4> QED
        BY <2>0, <4>1 DEF WellBuilt
    <3>3. data' = Append(data, a) /\ built' = b /\ parsed' = parsed /\ parsed = Unparsed
          /\ auxCursor' = auxCursor + ArgumentBytes(a, b.pushes)
      BY <2>0, <2>1, <3>2 DEF ParseArgument
    <3>4. data' \in Seq(Arguments) /\ Len(data') = k + 1 /\ k + 1 <= n /\ \A i \in 1 .. k + 1 : data'[i] = b.arguments[i]
      <4>1. data \in Seq(Arguments) /\ \A i \in 1 .. k : data[i] = b.arguments[i]
        BY <2>0 DEF MessageInv
      <4>2. /\ data' \in Seq(Arguments) /\ Len(data') = k + 1 /\ data'[k + 1] = a
            /\ \A i \in 1 .. k : data'[i] = data[i]
        BY <2>0, <3>2, <3>3, <4>1, AppendProperties
      <4>3. \A i \in 1 .. k + 1 : i \in 1 .. k \/ i = k + 1
        BY <2>0
      <4> QED
        BY <2>0, <3>1, <3>2, <4>1, <4>2, <4>3
    <3>5. auxCursor' = AuxHeaderLength + BytesOfFirst(b)[k + 1]
      <4>1. PICK f : f = BytesOfFirst(b)
        OBVIOUS
      <4>2. f \in [0 .. n -> Nat] /\ \A i \in 1 .. n : f[i] = f[i - 1] + ArgumentBytes(b.arguments[i], b.pushes)
        BY <2>0, <4>1, FirstBytesAdd
      <4>3. k + 1 \in 1 .. n /\ (k + 1) - 1 = k /\ k \in 0 .. n
        BY <2>0, <3>1
      <4>4. f[k + 1] = f[k] + ArgumentBytes(a, b.pushes) /\ f[k] \in Nat
        BY <3>2, <4>2, <4>3
      <4>5. ArgumentBytes(a, b.pushes) \in Nat
        BY <2>0, <3>2, ArgumentTakes
      <4>6. auxCursor = 16 + f[k]
        BY <2>0, <4>1 DEF MessageInv, AuxHeaderLength
      <4> QED
        BY <3>3, <4>1, <4>4, <4>5, <4>6 DEF AuxHeaderLength
    <3>6. ArgumentsParsed'
      BY <3>3 DEF ArgumentsParsed
    <3> QED
      BY <2>0, <3>3, <3>4, <3>5, <3>6 DEF MessageInv
  <2>2. CASE Parse
    <3>1. built' = b /\ data' = data /\ auxCursor' = auxCursor /\ parsed'.arguments = data
      BY <2>0, <2>2 DEF Parse
    <3>2. data \in Seq(Arguments) /\ \A i \in 1 .. k : data[i] = b.arguments[i]
      BY <2>0 DEF MessageInv
    <3>3. b.arguments \in Seq(Arguments)
      BY <2>0 DEF WellBuilt
    <3>4. \/ k = n
          \/ k + 1 = n /\ ArgumentBytes(b.arguments[n], b.pushes) < AuxHeaderLength
      <4>1. CASE b.payload /\ b.aux
        BY <2>0, <2>2, <4>1, ArgumentsLeft DEF Parse
      <4>2. CASE ~(b.payload /\ b.aux)
        <5>1. n = 0
          BY <2>0, <4>2 DEF WellBuilt
        <5> QED
          BY <2>0, <5>1
      <4> QED
        BY <4>1, <4>2
    <3>5. CASE k = n
      <4>1. data = b.arguments
        BY <2>0, <3>2, <3>3, <3>5, SeqEqual
      <4>2. ArgumentsParsed'
        BY <3>1, <4>1 DEF ArgumentsParsed
      <4> QED
        BY <2>0, <3>1, <3>2, <4>2 DEF MessageInv
    <3>6. CASE k + 1 = n /\ ArgumentBytes(b.arguments[n], b.pushes) < AuxHeaderLength
      <4>1. PICK w : w = Front(b.arguments)
        OBVIOUS
      <4>2. w \in Seq(Arguments) /\ Len(w) = k /\ \A i \in 1 .. k : w[i] = b.arguments[i]
        <5>1. w = SubSeq(b.arguments, 1, n - 1) /\ n - 1 = k
          BY <2>0, <3>6, <4>1 DEF Front
        <5> QED
          BY <2>0, <3>3, <3>6, <5>1
      <4>3. data = w
        BY <2>0, <3>2, <4>2, SeqEqual
      <4>4. Last(b.arguments) = b.arguments[n]
        BY <2>0 DEF Last
      <4>5. ArgumentsParsed'
        BY <3>1, <3>6, <4>1, <4>3, <4>4 DEF ArgumentsParsed
      <4> QED
        BY <2>0, <3>1, <3>2, <4>5 DEF MessageInv
    <3> QED
      BY <3>4, <3>5, <3>6
  <2>3. CASE UNCHANGED messageVars
    <3>1. built' = built /\ data' = data /\ auxCursor' = auxCursor /\ parsed' = parsed
      BY <2>3 DEF messageVars
    <3>2. ArgumentsParsed'
      BY <3>1 DEF MessageInv, ArgumentsParsed
    <3> QED
      BY <3>1, <3>2 DEF MessageInv
  <2> QED
    BY <2>1, <2>2, <2>3 DEF MessageNext
<1>3. MessageInv => ArgumentsParsed
  BY DEF MessageInv
<1> QED
  BY <1>1, <1>2, <1>3, PTL DEF MessageSpec

=============================================================================
