------------------------ MODULE DeviceServicesProofs ------------------------
(***************************************************************************)
(* Theorems about the modules PlistListeners, for any number of calls and  *)
(* any names of notifications, DeveloperImage, for any number of callers   *)
(* and of calls, and PlistClients, for any number of calls, any status     *)
(* messages and images of any size.                                        *)
(***************************************************************************)
EXTENDS PlistListeners, DeveloperImage, PlistClients, SequenceTheorems, FiniteSetTheorems, TLAPS

ListenersSpec == ListenersInit /\ [][ListenersNext]_listenersVars

---------------------------------------------------------------------------
(* Types.                                                                  *)

HouseRequest == [kind : {"vend", "afc"}, call : Numbers]
HouseMessage == [kind : {"response"}, call : Numbers, status : {"Complete", "Error"}]
                \cup [kind : {"afc"}, call : Numbers]
ProxyRequest == [kind : {"observe"}, name : Names] \cup [kind : {"post", "shutdown"}]
ProxyMessage == [kind : {"RelayNotification", "ProxyDeath"}, name : Names] \cup [kind : {"unknown"}]

ListenersTypeOK ==
  /\ listening \in {"house_arrest", "notification_proxy"}
  /\ asked \in Nat /\ news \in Nat
  /\ listening = "house_arrest" => outgoing \in Seq(HouseRequest) /\ fromDevice \in Seq(HouseMessage)
  /\ listening = "notification_proxy" => outgoing \in Seq(ProxyRequest) /\ fromDevice \in Seq(ProxyMessage)
  /\ peer \in [container : Numbers \cup {Nobody}, observed : SUBSET Names, down : BOOLEAN]
  /\ vends \in [Numbers -> {"none", "waiting", "timedOut", "returned", "threw"}]
  /\ once \subseteq Numbers /\ afcs \subseteq Numbers
  /\ piped \in BOOLEAN /\ crowded \in BOOLEAN /\ swallowed \in BOOLEAN
  /\ listeners \in [Names -> Numbers \cup {Nobody}]
  /\ told \subseteq Numbers /\ observers \subseteq Numbers
  /\ connection \in {"open", "ending", "gone"} /\ crashed \in BOOLEAN

---------------------------------------------------------------------------
(* House arrest: the inductive invariant.                                  *)

\* Who waits has a listener on the decoder, which is what m settles.
WaitersListen == \A c \in Numbers : vends[c] = "waiting" => c \in once

\* Once there is an AfcService the splitter is off the socket, and before there is
\* one nothing that is for AFC is under way.
SplitterOrAfc ==
  /\ afcs # {} => ~piped
  /\ piped => /\ \A i \in DOMAIN outgoing : outgoing[i].kind # "afc"
              /\ \A i \in DOMAIN fromDevice : fromDevice[i].kind # "afc"

\* Where no vend was made with something under way, the one that was made last is the
\* only one there is: it waits, its request or its response is under way, or the
\* device is in its container.
OneVend ==
  listening = "house_arrest" /\ ~crowded =>
    /\ \A c, d \in Numbers : vends[c] = "waiting" /\ vends[d] = "waiting" => c = d
    /\ \A i \in DOMAIN outgoing : outgoing[i].kind = "vend" =>
         /\ peer.container = Nobody
         /\ \A j \in DOMAIN outgoing : outgoing[j].kind = "vend" => j = i
         /\ \A j \in DOMAIN fromDevice : fromDevice[j].kind # "response"
         /\ \A c \in Numbers : vends[c] = "waiting" => c = outgoing[i].call
    /\ \A i \in DOMAIN fromDevice : fromDevice[i].kind = "response" =>
         /\ fromDevice[i].status = "Complete" => peer.container = fromDevice[i].call
         /\ \A j \in DOMAIN fromDevice : fromDevice[j].kind = "response" => j = i
         /\ \A c \in Numbers : vends[c] = "waiting" => c = fromDevice[i].call

\* And once there is an AfcService, no vend is left.
AfcAfterVend ==
  ~crowded /\ afcs # {} =>
    /\ afcs = {peer.container} /\ peer.container # Nobody
    /\ \A c \in Numbers : vends[c] # "waiting"
    /\ \A i \in DOMAIN fromDevice : fromDevice[i].kind = "afc"

---------------------------------------------------------------------------
(* The notification proxy: the inductive invariant.                        *)

\* The proxy on the device reads a request to observe before it reads a shutdown.
ReadBeforeShutdown(n) ==
  /\ ~peer.down
  /\ \E i \in DOMAIN outgoing :
       /\ outgoing[i].kind = "observe" /\ outgoing[i].name = n
       /\ \A j \in 1 .. i - 1 : outgoing[j].kind # "shutdown"

WillBeTold(n) ==
  \/ ReadBeforeShutdown(n)
  \/ n \in peer.observed
  \/ \E i \in DOMAIN fromDevice : fromDevice[i].kind = "ProxyDeath" /\ fromDevice[i].name = n

ObserversHeard ==
  connection # "gone" /\ ~crashed =>
    \A r \in observers \ told : \E n \in Names : listeners[n] = r /\ WillBeTold(n)

\* What only the other service has is as it was.
OneService ==
  /\ listening = "house_arrest" => observers = {}
  /\ listening = "notification_proxy" =>
       /\ afcs = {} /\ piped /\ ~swallowed
       /\ \A c \in Numbers : vends[c] = "none"
       /\ IsFiniteSet(peer.observed)

ListenersIInv ==
  /\ ListenersTypeOK /\ OneService
  /\ WaitersListen /\ SplitterOrAfc /\ ~swallowed /\ OneVend /\ AfcAfterVend
  /\ ObserversHeard

---------------------------------------------------------------------------
(* Queues.                                                                 *)

\* What is left of a non-empty sequence after its head.
LEMMA TailElements ==
  ASSUME NEW S, NEW s \in Seq(S), s # <<>>
  PROVE  /\ Head(s) = s[1] /\ Head(s) \in S /\ 1 \in DOMAIN s
         /\ Tail(s) \in Seq(S) /\ DOMAIN Tail(s) = 1 .. Len(s) - 1
         /\ \A i \in DOMAIN Tail(s) : i + 1 \in DOMAIN s /\ Tail(s)[i] = s[i + 1]
  BY HeadTailProperties

\* What a sequence holds after one element is appended.
LEMMA AppendElements ==
  ASSUME NEW S, NEW s \in Seq(S), NEW e \in S
  PROVE  /\ Append(s, e) \in Seq(S) /\ DOMAIN Append(s, e) = 1 .. Len(s) + 1
         /\ \A i \in DOMAIN s : i \in DOMAIN Append(s, e) /\ Append(s, e)[i] = s[i]
         /\ Append(s, e)[Len(s) + 1] = e
         /\ \A i \in DOMAIN Append(s, e) : i \in DOMAIN s \/ i = Len(s) + 1
  BY AppendProperties

\* What is left of a sequence after its first n elements.
LEMMA RestElements ==
  ASSUME NEW S, NEW s \in Seq(S), NEW n \in 1 .. Len(s)
  PROVE  /\ SubSeq(s, n + 1, Len(s)) \in Seq(S)
         /\ \A i \in DOMAIN SubSeq(s, n + 1, Len(s)) :
              n + i \in DOMAIN s /\ i \in Nat \ {0} /\ SubSeq(s, n + 1, Len(s))[i] = s[n + i]
  BY SubSeqProperties

\* A set is put in some order with all of its elements.
LEMMA OrderElements ==
  ASSUME NEW S, IsFiniteSet(S), NEW order \in SetToSeqs(S)
  PROVE  order \in Seq(S) /\ \A x \in S : \E i \in DOMAIN order : order[i] = x
<1>1. Cardinality(S) \in Nat /\ IsFiniteSet(1 .. Cardinality(S))
      /\ Cardinality(1 .. Cardinality(S)) = Cardinality(S)
  BY FS_CardinalityType, FS_Interval
<1>2. order \in Injection(1 .. Cardinality(S), S)
  BY DEF SetToSeqs, Injection, IsInjective
<1>3. order \in Surjection(1 .. Cardinality(S), S)
  BY <1>1, <1>2, FS_Injection
<1>4. QED
  BY <1>1, <1>3 DEF Surjection

---------------------------------------------------------------------------
(* Type correctness.                                                       *)

\* What is written of the right kind keeps what is on its way of that kind.
LEMMA WritesType ==
  ASSUME NEW S, outgoing \in Seq(S), NEW m \in S, Writes(m)
  PROVE  outgoing' \in Seq(S)
  BY AppendElements DEF Writes

\* How the queues are typed for the service that listens.
ListenerRequests == IF listening = "house_arrest" THEN HouseRequest ELSE ProxyRequest
ListenerMessages == IF listening = "house_arrest" THEN HouseMessage ELSE ProxyMessage

\* The queues between a listener and its device hold requests and messages.
LEMMA QueueTypes == ListenersTypeOK => outgoing \in Seq(ListenerRequests) /\ fromDevice \in Seq(ListenerMessages)
  BY DEF ListenersTypeOK, ListenerRequests, ListenerMessages

\* The queues are of the right type, and so is the rest.
LEMMA TypeByParts ==
  ASSUME ListenersTypeOK, listening' = listening,
         outgoing' \in Seq(ListenerRequests), fromDevice' \in Seq(ListenerMessages),
         asked' \in Nat, news' \in Nat,
         peer' \in [container : Numbers \cup {Nobody}, observed : SUBSET Names, down : BOOLEAN],
         vends' \in [Numbers -> {"none", "waiting", "timedOut", "returned", "threw"}],
         once' \subseteq Numbers, afcs' \subseteq Numbers,
         piped' \in BOOLEAN, crowded' \in BOOLEAN, swallowed' \in BOOLEAN,
         listeners' \in [Names -> Numbers \cup {Nobody}],
         told' \subseteq Numbers, observers' \subseteq Numbers,
         connection' \in {"open", "ending", "gone"}, crashed' \in BOOLEAN
  PROVE  ListenersTypeOK'
  BY DEF ListenersTypeOK, ListenerRequests, ListenerMessages

\* Each step of the listeners preserves the types.
LEMMA ListenersTypeStep == ListenersTypeOK /\ OneService /\ [ListenersNext]_listenersVars => ListenersTypeOK'
<1> SUFFICES ASSUME ListenersTypeOK, OneService, [ListenersNext]_listenersVars
             PROVE  ListenersTypeOK'
  OBVIOUS
<1>1. outgoing \in Seq(ListenerRequests) /\ fromDevice \in Seq(ListenerMessages)
  BY QueueTypes
<1> USE DEF ListenersTypeOK, house, proxy
<1>2. Calling => asked + 1 \in Numbers /\ asked' \in Nat
  BY PlistListenersAssumption DEF Calling, Numbers
<1>3. CASE Vend
  <2>1. [kind |-> "vend", call |-> asked + 1] \in ListenerRequests /\ listening' = listening
    BY <1>2, <1>3 DEF Vend, ListenerRequests, HouseRequest
  <2>2. outgoing' \in Seq(ListenerRequests)
    BY <1>1, <1>3, <2>1, WritesType DEF Vend
  <2>3. QED
    BY <1>1, <1>2, <1>3, <2>1, <2>2, TypeByParts DEF Vend, UnderWay
<1>4. ASSUME NEW c \in Numbers, VendTimedOut(c) PROVE ListenersTypeOK'
  BY <1>1, <1>4, TypeByParts DEF VendTimedOut
<1>5. ASSUME NEW c \in Numbers, AfcRequest(c) PROVE ListenersTypeOK'
  <2>1. listening = "house_arrest" /\ listening' = listening
    BY <1>5 DEF AfcRequest, OneService
  <2>2. [kind |-> "afc", call |-> c] \in ListenerRequests
    BY <2>1 DEF ListenerRequests, HouseRequest
  <2>3. outgoing' \in Seq(ListenerRequests)
    BY <1>1, <1>5, <2>2, WritesType DEF AfcRequest
  <2>4. QED
    BY <1>1, <1>2, <1>5, <2>1, <2>3, TypeByParts DEF AfcRequest
<1>6. ASSUME NEW n \in 1 .. Len(fromDevice), DecoderReceives(n) PROVE ListenersTypeOK'
  <2>1. fromDevice' \in Seq(ListenerMessages)
    BY <1>1, <1>6, RestElements DEF DecoderReceives
  <2>2. QED
    BY <1>1, <1>6, <2>1, TypeByParts DEF DecoderReceives, HandOver, Waiting
<1>7. CASE AfcReceives
  <2>1. fromDevice' \in Seq(ListenerMessages)
    BY <1>1, <1>7, TailElements DEF AfcReceives
  <2>2. QED
    BY <1>1, <1>7, <2>1, TypeByParts DEF AfcReceives
<1>8. ASSUME NEW status \in {"Complete", "Error"}, DeviceReadsHouse(status) PROVE ListenersTypeOK'
  <2> DEFINE m == Head(outgoing)
  <2>1. outgoing # <<>> /\ m \in HouseRequest /\ outgoing' \in Seq(ListenerRequests) /\ listening = "house_arrest"
    BY <1>1, <1>8, TailElements DEF DeviceReadsHouse, ListenerRequests
  <2>2. [kind |-> "response", call |-> m.call, status |-> status] \in HouseMessage
    BY <2>1 DEF HouseMessage, HouseRequest
  <2>3. m.kind = "afc" => m \in HouseMessage
    BY <2>1 DEF HouseMessage, HouseRequest
  <2>4. fromDevice' \in Seq(ListenerMessages)
    <3>1. fromDevice \in Seq(HouseMessage) /\ ListenerMessages = HouseMessage
      BY <1>1, <2>1 DEF ListenerMessages
    <3>2. \/ fromDevice' = Append(fromDevice, [kind |-> "response", call |-> m.call, status |-> status])
          \/ m.kind = "afc" /\ fromDevice' = Append(fromDevice, m)
          \/ fromDevice' = fromDevice
      BY <1>8 DEF DeviceReadsHouse
    <3>3. ASSUME NEW e \in HouseMessage, fromDevice' = Append(fromDevice, e)
          PROVE  fromDevice' \in Seq(HouseMessage)
      BY <3>1, <3>3, AppendElements
    <3> HIDE DEF m, HouseMessage, ListenersTypeOK
    <3>4. QED
      BY <2>2, <2>3, <3>1, <3>2, <3>3
  <2>5. peer' \in [container : Numbers \cup {Nobody}, observed : SUBSET Names, down : BOOLEAN]
    BY <1>8, <2>1 DEF DeviceReadsHouse, HouseRequest
  <2>6. QED
    BY <1>1, <1>8, <2>1, <2>4, <2>5, TypeByParts DEF DeviceReadsHouse
<1>9. ASSUME NEW n \in Names, ObserveNotification(n) PROVE ListenersTypeOK'
  <2>1. [kind |-> "observe", name |-> n] \in ListenerRequests
    BY <1>9 DEF ObserveNotification, ListenerRequests, ProxyRequest
  <2>2. outgoing' \in Seq(ListenerRequests)
    BY <1>1, <1>9, <2>1, WritesType DEF ObserveNotification
  <2>3. QED
    BY <1>1, <1>2, <1>9, <2>2, TypeByParts DEF ObserveNotification
<1>10. CASE PostNotification
  <2>1. [kind |-> "post"] \in ListenerRequests
    BY <1>10 DEF PostNotification, ListenerRequests, ProxyRequest
  <2>2. outgoing' \in Seq(ListenerRequests)
    BY <1>1, <1>10, <2>1, WritesType DEF PostNotification
  <2>3. QED
    BY <1>1, <1>2, <1>10, <2>2, TypeByParts DEF PostNotification
<1>11. ASSUME NEW b \in BOOLEAN, Shutdown(b) PROVE ListenersTypeOK'
  <2>1. [kind |-> "shutdown"] \in ListenerRequests
    BY <1>11 DEF Shutdown, ListenerRequests, ProxyRequest
  <2>2. outgoing' \in Seq(ListenerRequests)
    BY <1>1, <1>11, <2>1, WritesType DEF Shutdown
  <2>3. QED
    BY <1>1, <1>2, <1>11, <2>2, TypeByParts DEF Shutdown
<1>12. ASSUME NEW b \in BOOLEAN, HandleData(b) PROVE ListenersTypeOK'
  <2>1. fromDevice' \in Seq(ListenerMessages) /\ Head(fromDevice) \in ProxyMessage
    BY <1>1, <1>12, TailElements DEF HandleData, ListenerMessages
  <2>2. Head(fromDevice).kind = "ProxyDeath" => Head(fromDevice).name \in Names
    BY <2>1 DEF ProxyMessage
  <2>3. told' \subseteq Numbers /\ listeners' \in [Names -> Numbers \cup {Nobody}]
    BY <1>12, <2>2 DEF HandleData
  <2>4. crashed' \in BOOLEAN
    BY <1>12 DEF HandleData
  <2>5. QED
    BY <1>1, <1>12, <2>1, <2>3, <2>4, TypeByParts DEF HandleData
<1>13. CASE DeviceReadsProxy
  <2> DEFINE m == Head(outgoing)
  <2>1. outgoing # <<>> /\ m \in ProxyRequest /\ outgoing' \in Seq(ListenerRequests) /\ listening = "notification_proxy"
    BY <1>1, <1>13, TailElements DEF DeviceReadsProxy, ListenerRequests
  <2>2. peer' \in [container : Numbers \cup {Nobody}, observed : SUBSET Names, down : BOOLEAN]
    <3>1. m.kind = "observe" => m.name \in Names
      BY <2>1 DEF ProxyRequest
    <3> HIDE DEF m
    <3>2. \/ peer' = peer
          \/ m.kind = "observe" /\ peer' = [peer EXCEPT !.observed = @ \cup {m.name}]
          \/ peer' = [peer EXCEPT !.observed = {}, !.down = TRUE]
      BY <1>13 DEF DeviceReadsProxy, m
    <3>3. CASE m.kind = "observe" /\ peer' = [peer EXCEPT !.observed = @ \cup {m.name}]
      BY <3>1, <3>3
    <3>4. CASE peer' = [peer EXCEPT !.observed = {}, !.down = TRUE]
      BY <3>4
    <3>5. QED
      BY <3>2, <3>3, <3>4
  <2>3. ASSUME NEW order \in SetToSeqs(peer.observed),
               fromDevice' = fromDevice \o [i \in DOMAIN order |-> [kind |-> "ProxyDeath", name |-> order[i]]]
        PROVE  fromDevice' \in Seq(ListenerMessages)
    <3>1. order \in Seq(peer.observed)
      BY <2>1, OrderElements DEF OneService
    <3>2. [i \in DOMAIN order |-> [kind |-> "ProxyDeath", name |-> order[i]]] \in Seq(ListenerMessages)
      BY <2>1, <3>1 DEF ListenerMessages, ProxyMessage
    <3>3. QED
      BY <1>1, <2>3, <3>2, ConcatProperties
  <2>4. fromDevice' \in Seq(ListenerMessages)
    BY <1>1, <1>13, <2>3 DEF DeviceReadsProxy
  <2>5. QED
    BY <1>1, <1>13, <2>1, <2>2, <2>4, TypeByParts DEF DeviceReadsProxy
<1>14. ASSUME NEW n \in Names, NEW kind \in {"RelayNotification", "ProxyDeath"}, DeviceTells(n, kind)
       PROVE  ListenersTypeOK'
  <2>1. [kind |-> kind, name |-> n] \in ListenerMessages
    BY <1>14 DEF DeviceTells, ListenerMessages, ProxyMessage
  <2>2. fromDevice' \in Seq(ListenerMessages)
    BY <1>1, <1>14, <2>1, AppendElements DEF DeviceTells
  <2>3. peer' \in [container : Numbers \cup {Nobody}, observed : SUBSET Names, down : BOOLEAN]
    BY <1>14 DEF DeviceTells
  <2>4. QED
    BY <1>1, <1>14, <2>2, <2>3, TypeByParts DEF DeviceTells
<1>15. CASE DeviceSaysOther
  <2>1. [kind |-> "unknown"] \in ListenerMessages
    BY <1>15 DEF DeviceSaysOther, ListenerMessages, ProxyMessage
  <2>2. fromDevice' \in Seq(ListenerMessages)
    BY <1>1, <1>15, <2>1, AppendElements DEF DeviceSaysOther
  <2>3. QED
    BY <1>1, <1>15, <2>2, TypeByParts DEF DeviceSaysOther
<1>16. CASE Gone
  BY <1>16, EmptySeq, TypeByParts DEF Gone
<1>17. CASE UNCHANGED listenersVars
  BY <1>17 DEF listenersVars
<1>18. QED
  BY <1>3, <1>4, <1>5, <1>6, <1>7, <1>8, <1>9, <1>10, <1>11, <1>12, <1>13, <1>14, <1>15, <1>16, <1>17
     DEF ListenersNext

---------------------------------------------------------------------------
(* Each service has its steps.                                             *)

\* On a house arrest connection nothing of the notification proxy changes.
LEMMA HouseSteps ==
  ASSUME ListenersTypeOK, [ListenersNext]_listenersVars, listening = "house_arrest"
  PROVE  /\ listening' = listening /\ observers' = observers
         /\ \/ Vend
            \/ \E c \in Numbers : VendTimedOut(c) \/ AfcRequest(c)
            \/ \E n \in 1 .. Len(fromDevice) : DecoderReceives(n)
            \/ AfcReceives
            \/ \E status \in {"Complete", "Error"} : DeviceReadsHouse(status)
            \/ Gone
            \/ UNCHANGED listenersVars
<1>1. ASSUME NEW n, NEW kind, ObserveNotification(n) \/ DeviceTells(n, kind) PROVE FALSE
  BY <1>1 DEF ObserveNotification, DeviceTells
<1>2. ASSUME NEW b, Shutdown(b) \/ HandleData(b) PROVE FALSE
  BY <1>2 DEF Shutdown, HandleData
<1>3. ~PostNotification /\ ~DeviceReadsProxy /\ ~DeviceSaysOther
  BY DEF PostNotification, DeviceReadsProxy, DeviceSaysOther
<1>4. \/ Vend
      \/ \E c \in Numbers : VendTimedOut(c) \/ AfcRequest(c)
      \/ \E n \in 1 .. Len(fromDevice) : DecoderReceives(n)
      \/ AfcReceives
      \/ \E status \in {"Complete", "Error"} : DeviceReadsHouse(status)
      \/ Gone
      \/ UNCHANGED listenersVars
  BY <1>1, <1>2, <1>3 DEF ListenersNext
<1>5. listening' = listening /\ observers' = observers
  BY <1>4 DEF Vend, VendTimedOut, AfcRequest, DecoderReceives, AfcReceives, DeviceReadsHouse, Gone,
              listenersVars, proxy
<1>6. QED
  BY <1>4, <1>5

\* On a notification proxy connection nothing of house arrest changes.
LEMMA ProxySteps ==
  ASSUME ListenersTypeOK, OneService, [ListenersNext]_listenersVars, listening = "notification_proxy"
  PROVE  /\ listening' = listening /\ UNCHANGED <<vends, once, piped, afcs, crowded, swallowed>>
         /\ \/ \E n \in Names : ObserveNotification(n)
            \/ PostNotification
            \/ \E b \in BOOLEAN : Shutdown(b) \/ HandleData(b)
            \/ DeviceReadsProxy
            \/ \E n \in Names, kind \in {"RelayNotification", "ProxyDeath"} : DeviceTells(n, kind)
            \/ DeviceSaysOther
            \/ Gone
            \/ UNCHANGED listenersVars
<1>1. ASSUME NEW c \in Numbers, VendTimedOut(c) \/ AfcRequest(c) PROVE FALSE
  BY <1>1 DEF VendTimedOut, AfcRequest, OneService
<1>2. ASSUME NEW n, DecoderReceives(n) \/ DeviceReadsHouse(n) PROVE FALSE
  BY <1>2 DEF DecoderReceives, DeviceReadsHouse
<1>3. ~Vend /\ ~AfcReceives
  BY DEF Vend, AfcReceives
<1>4. \/ \E n \in Names : ObserveNotification(n)
      \/ PostNotification
      \/ \E b \in BOOLEAN : Shutdown(b) \/ HandleData(b)
      \/ DeviceReadsProxy
      \/ \E n \in Names, kind \in {"RelayNotification", "ProxyDeath"} : DeviceTells(n, kind)
      \/ DeviceSaysOther
      \/ Gone
      \/ UNCHANGED listenersVars
  BY <1>1, <1>2, <1>3 DEF ListenersNext
<1>5. listening' = listening /\ UNCHANGED <<vends, once, piped, afcs, crowded, swallowed>>
  BY <1>4 DEF ObserveNotification, PostNotification, Shutdown, HandleData, DeviceReadsProxy, DeviceTells,
              DeviceSaysOther, Gone, listenersVars, house
<1>6. QED
  BY <1>4, <1>5

\* What only the other service has stays as it was.
LEMMA OneServiceStep == ListenersTypeOK /\ OneService /\ [ListenersNext]_listenersVars => OneService'
<1> SUFFICES ASSUME ListenersTypeOK, OneService, [ListenersNext]_listenersVars
             PROVE  OneService'
  OBVIOUS
<1>1. CASE listening = "house_arrest"
  BY <1>1, HouseSteps DEF OneService
<1>2. CASE listening = "notification_proxy"
  <2>1. IsFiniteSet(peer.observed) /\ peer \in [container : Numbers \cup {Nobody}, observed : SUBSET Names, down : BOOLEAN]
    BY <1>2 DEF OneService, ListenersTypeOK
  <2>2. \/ peer' = peer
        \/ peer'.observed = {}
        \/ \E n : peer'.observed = peer.observed \cup {n}
        \/ \E n : peer'.observed = peer.observed \ {n}
    <3>1. CASE DeviceReadsProxy
      BY <2>1, <3>1 DEF DeviceReadsProxy
    <3>2. ASSUME NEW n, NEW kind, DeviceTells(n, kind) PROVE <2>2
      BY <2>1, <3>2 DEF DeviceTells
    <3>3. QED
      BY <1>2, <3>1, <3>2, ProxySteps DEF ObserveNotification, PostNotification, Shutdown, HandleData,
         DeviceSaysOther, Gone, listenersVars
  <2>3. IsFiniteSet(peer'.observed)
    <3>1. ASSUME NEW n PROVE IsFiniteSet(peer.observed \cup {n}) /\ IsFiniteSet(peer.observed \ {n})
      BY <2>1, FS_AddElement, FS_RemoveElement
    <3>2. IsFiniteSet({})
      BY FS_EmptySet
    <3>3. QED
      BY <2>1, <2>2, <3>1, <3>2
  <2>4. listening' = listening /\ UNCHANGED <<vends, once, piped, afcs, crowded, swallowed>>
    BY <1>2, ProxySteps
  <2>5. QED
    BY <1>2, <2>3, <2>4 DEF OneService
<1>3. QED
  BY <1>1, <1>2 DEF ListenersTypeOK

---------------------------------------------------------------------------
(* House arrest.                                                           *)

HouseInv == WaitersListen /\ SplitterOrAfc /\ ~swallowed /\ OneVend /\ AfcAfterVend

\* Each step of house arrest preserves its invariant.
LEMMA HouseStep ==
  ASSUME ListenersTypeOK, OneService, HouseInv, [ListenersNext]_listenersVars, listening = "house_arrest"
  PROVE  HouseInv'
<1>1. /\ outgoing \in Seq(HouseRequest) /\ fromDevice \in Seq(HouseMessage)
      /\ vends \in [Numbers -> {"none", "waiting", "timedOut", "returned", "threw"}]
      /\ once \subseteq Numbers /\ afcs \subseteq Numbers
      /\ peer \in [container : Numbers \cup {Nobody}, observed : SUBSET Names, down : BOOLEAN]
      /\ listening' = "house_arrest"
  BY HouseSteps DEF ListenersTypeOK
<1> USE DEF HouseInv
\* A call: what is on its way is nothing but its request.
<1>2. CASE Vend
  <2> DEFINE new == asked + 1
             m == [kind |-> "vend", call |-> new]
  <2>1. /\ new \in Numbers /\ vends' = [vends EXCEPT ![new] = "waiting"] /\ once' = once \cup {new}
        /\ outgoing' = outgoing \/ outgoing' = Append(outgoing, m)
        /\ UNCHANGED <<fromDevice, peer, piped, afcs, swallowed>>
        /\ crowded' = (crowded \/ UnderWay)
    BY <1>2, PlistListenersAssumption DEF Vend, Calling, Writes, Numbers, ListenersTypeOK
  <2>2. m \in HouseRequest
    BY <2>1 DEF HouseRequest
  <2>3. WaitersListen'
    BY <1>1, <2>1 DEF WaitersListen
  <2>4. SplitterOrAfc'
    BY <1>1, <2>1, <2>2, AppendElements DEF SplitterOrAfc
  <2>5. ASSUME ~crowded'
        PROVE  /\ outgoing = <<>> /\ fromDevice = <<>> /\ peer.container = Nobody
               /\ \A c \in Numbers : vends[c] # "waiting"
    BY <2>1, <2>5 DEF UnderWay
  <2>6. AfcAfterVend'
    BY <2>1, <2>5 DEF AfcAfterVend
  <2>7. OneVend'
    <3> SUFFICES ASSUME ~crowded' PROVE OneVend'
      BY DEF OneVend
    <3>1. \A c \in Numbers : vends'[c] = "waiting" => c = new
      BY <1>1, <2>1, <2>5
    <3>2. \A i \in DOMAIN outgoing' : i = 1 /\ outgoing'[i] = m
      BY <2>1, <2>5
    <3>3. fromDevice' = <<>> /\ peer'.container = Nobody
      BY <2>1, <2>5
    <3>4. QED
      BY <3>1, <3>2, <3>3 DEF OneVend
  <2>8. QED
    BY <2>1, <2>3, <2>4, <2>6, <2>7
\* A call that gives up.
<1>3. ASSUME NEW c \in Numbers, VendTimedOut(c) PROVE HouseInv'
  <2>1. /\ \A d \in Numbers : vends'[d] = "waiting" => vends[d] = "waiting"
        /\ UNCHANGED <<outgoing, fromDevice, peer, once, piped, afcs, crowded, swallowed>>
    BY <1>1, <1>3 DEF VendTimedOut
  <2>2. QED
    BY <1>1, <2>1 DEF WaitersListen, SplitterOrAfc, OneVend, AfcAfterVend
\* AFC writes.
<1>4. ASSUME NEW c \in Numbers, AfcRequest(c) PROVE HouseInv'
  <2> DEFINE m == [kind |-> "afc", call |-> c]
  <2>1. /\ afcs # {} /\ UNCHANGED <<fromDevice, peer, vends, once, piped, afcs, crowded, swallowed>>
        /\ outgoing' = outgoing \/ outgoing' = Append(outgoing, m)
    BY <1>4 DEF AfcRequest, Writes, house
  <2>2. \A i \in DOMAIN outgoing' : (i \in DOMAIN outgoing /\ outgoing'[i] = outgoing[i]) \/ outgoing'[i].kind = "afc"
    <3>1. m \in HouseRequest
      BY DEF HouseRequest
    <3>2. QED
      BY <1>1, <2>1, <3>1, AppendElements
  <2>3. WaitersListen' /\ SplitterOrAfc' /\ AfcAfterVend'
    BY <2>1 DEF WaitersListen, SplitterOrAfc, AfcAfterVend
  <2>4. OneVend'
    BY <1>1, <2>1, <2>2 DEF OneVend
  <2>5. QED
    BY <2>1, <2>3, <2>4
\* A chunk: its first message is a response, and no other one follows.
<1>5. ASSUME NEW n \in 1 .. Len(fromDevice), DecoderReceives(n) PROVE HouseInv'
  <2> DEFINE first == Head(fromDevice)
  <2>1. /\ piped /\ afcs = {} /\ UNCHANGED <<outgoing, peer, crowded>> /\ once' = {}
        /\ \A c \in Numbers : vends'[c] = "waiting" => vends[c] = "waiting" /\ c \notin once
        /\ afcs' = (IF Accepts(first) THEN afcs \cup Waiting ELSE afcs)
        /\ piped' = (piped /\ ~(Accepts(first) /\ Waiting # {}))
        /\ swallowed' = (swallowed \/ \E i \in 1 .. n : fromDevice[i].kind = "afc")
    BY <1>1, <1>5 DEF DecoderReceives, HandOver, SplitterOrAfc, Waiting
  <2>2. \A i \in DOMAIN fromDevice' : n + i \in DOMAIN fromDevice /\ n + i # 1 /\ fromDevice'[i] = fromDevice[n + i]
    <3>1. fromDevice' = SubSeq(fromDevice, n + 1, Len(fromDevice)) /\ fromDevice \in Seq(HouseMessage) /\ n \in Nat \ {0}
      BY <1>1, <1>5 DEF DecoderReceives
    <3>2. \A i \in DOMAIN fromDevice' :
            n + i \in DOMAIN fromDevice /\ i \in Nat \ {0} /\ fromDevice'[i] = fromDevice[n + i]
      BY <3>1, RestElements
    <3>3. \A i \in Nat \ {0} : n + i # 1
      BY <3>1
    <3>4. QED
      BY <3>2, <3>3
  <2>3. first = fromDevice[1] /\ 1 \in DOMAIN fromDevice /\ first \in HouseMessage /\ first.kind = "response"
    <3>1. fromDevice # <<>> /\ 1 \in DOMAIN fromDevice
      BY <1>1
    <3>2. first = fromDevice[1] /\ first \in HouseMessage
      BY <1>1, <3>1, TailElements
    <3>3. fromDevice[1].kind # "afc"
      BY <2>1, <3>1 DEF SplitterOrAfc
    <3>4. QED
      BY <3>1, <3>2, <3>3 DEF HouseMessage
  <2>4. \A c \in Numbers : vends'[c] # "waiting"
    BY <2>1 DEF WaitersListen
  <2>5. ~swallowed'
    <3>1. \A i \in 1 .. n : i \in DOMAIN fromDevice
      BY <1>1
    <3>2. \A i \in 1 .. n : fromDevice[i].kind # "afc"
      BY <2>1, <3>1 DEF SplitterOrAfc
    <3>3. QED
      BY <2>1, <3>2
  <2>6. SplitterOrAfc'
    BY <2>1, <2>2 DEF SplitterOrAfc
  <2>7. ASSUME ~crowded PROVE \A i \in DOMAIN fromDevice' : fromDevice'[i].kind # "response"
    BY <1>1, <2>2, <2>3, <2>7 DEF OneVend
  <2>8. OneVend'
    BY <1>1, <2>1, <2>4, <2>7 DEF OneVend
  <2>9. AfcAfterVend'
    <3> SUFFICES ASSUME ~crowded, Accepts(first), Waiting # {}
                 PROVE  /\ afcs' = {peer.container} /\ peer.container # Nobody
                        /\ \A i \in DOMAIN fromDevice' : fromDevice'[i].kind = "afc"
      BY <2>1, <2>4 DEF AfcAfterVend
    <3>1. peer.container = first.call
      BY <1>1, <2>3 DEF OneVend, Accepts
    <3>2. \A c \in Waiting : c = first.call
      BY <1>1, <2>3 DEF OneVend, Waiting
    <3>3. Waiting = {peer.container} /\ peer.container \in Numbers
      BY <1>1, <3>1, <3>2 DEF Waiting
    <3>4. \A i \in DOMAIN fromDevice' : fromDevice'[i] \in HouseMessage
      BY <1>1, <2>2
    <3>5. \A i \in DOMAIN fromDevice' : fromDevice'[i].kind = "afc"
      BY <2>7, <3>4 DEF HouseMessage
    <3>6. QED
      BY <2>1, <3>3, <3>5 DEF Numbers, Nobody
  <2>10. QED
    BY <2>4, <2>5, <2>6, <2>8, <2>9 DEF WaitersListen
\* AFC reads.
<1>6. CASE AfcReceives
  <2>1. /\ UNCHANGED <<outgoing, peer, vends, once, piped, afcs, crowded, swallowed>>
        /\ \A i \in DOMAIN fromDevice' : i + 1 \in DOMAIN fromDevice /\ fromDevice'[i] = fromDevice[i + 1]
        /\ DOMAIN fromDevice' \subseteq Int
    BY <1>1, <1>6, TailElements DEF AfcReceives, house
  <2>2. QED
    BY <1>1, <2>1 DEF WaitersListen, SplitterOrAfc, OneVend, AfcAfterVend
\* The device reads a request: its answer takes the place of the request.
<1>7. ASSUME NEW status \in {"Complete", "Error"}, DeviceReadsHouse(status) PROVE HouseInv'
  <2> DEFINE m == Head(outgoing)
             response == [kind |-> "response", call |-> m.call, status |-> status]
  <2>1. /\ UNCHANGED <<vends, once, piped, afcs, crowded, swallowed>>
        /\ m = outgoing[1] /\ m \in HouseRequest /\ 1 \in DOMAIN outgoing
        /\ \A i \in DOMAIN outgoing' : i + 1 \in DOMAIN outgoing /\ outgoing'[i] = outgoing[i + 1] /\ i + 1 # 1
        /\ DOMAIN outgoing' \subseteq Int
    BY <1>1, <1>7, TailElements DEF DeviceReadsHouse, house
  <2>2. CASE m.kind = "vend" /\ peer.container = Nobody
    <3>1. fromDevice' = Append(fromDevice, response) /\ response \in HouseMessage
      BY <1>7, <2>1, <2>2 DEF DeviceReadsHouse, HouseMessage, HouseRequest
    <3>2. peer'.container = IF status = "Complete" THEN m.call ELSE peer.container
      BY <1>1, <1>7, <2>1, <2>2 DEF DeviceReadsHouse
    <3>3. /\ \A i \in DOMAIN fromDevice : i \in DOMAIN fromDevice' /\ fromDevice'[i] = fromDevice[i]
          /\ fromDevice'[Len(fromDevice) + 1] = response
          /\ \A i \in DOMAIN fromDevice' : i \in DOMAIN fromDevice \/ i = Len(fromDevice) + 1
      BY <1>1, <3>1, AppendElements
    <3>4. SplitterOrAfc'
      BY <2>1, <3>3 DEF SplitterOrAfc
    <3>5. ASSUME ~crowded
          PROVE  /\ \A i \in DOMAIN outgoing' : outgoing'[i].kind # "vend"
                 /\ \A i \in DOMAIN fromDevice : fromDevice[i].kind # "response"
                 /\ \A c \in Numbers : vends[c] = "waiting" => c = m.call
      BY <1>1, <2>1, <2>2, <3>5 DEF OneVend
    <3>6. OneVend'
      <4> SUFFICES ASSUME ~crowded PROVE OneVend'
        BY <2>1 DEF OneVend
      <4>1. \A i \in DOMAIN fromDevice' : fromDevice'[i].kind = "response" =>
              i = Len(fromDevice) + 1 /\ fromDevice'[i] = response
        BY <3>3, <3>5
      <4>2. \A c, d \in Numbers : vends'[c] = "waiting" /\ vends'[d] = "waiting" => c = d
        BY <1>1, <2>1 DEF OneVend
      <4>3. QED
        BY <2>1, <3>2, <3>5, <4>1, <4>2 DEF OneVend
    <3>7. AfcAfterVend'
      BY <2>1, <2>2 DEF AfcAfterVend
    <3>8. QED
      BY <2>1, <3>4, <3>6, <3>7 DEF WaitersListen
  <2>3. CASE ~(m.kind = "vend" /\ peer.container = Nobody)
    <3>1. peer' = peer
      BY <1>7, <2>3 DEF DeviceReadsHouse
    <3>2. \A i \in DOMAIN fromDevice' :
            \/ i \in DOMAIN fromDevice /\ fromDevice'[i] = fromDevice[i]
            \/ m.kind = "afc" /\ fromDevice'[i] = m
      <4>1. fromDevice' = fromDevice \/ (m.kind = "afc" /\ fromDevice' = Append(fromDevice, m))
        BY <1>7, <2>3 DEF DeviceReadsHouse
      <4>2. m.kind = "afc" => m \in HouseMessage
        BY <2>1 DEF HouseMessage, HouseRequest
      <4>3. m.kind = "afc" => \A i \in DOMAIN Append(fromDevice, m) :
              \/ i \in DOMAIN fromDevice /\ Append(fromDevice, m)[i] = fromDevice[i]
              \/ Append(fromDevice, m)[i] = m
        BY <1>1, <4>2, AppendElements
      <4> HIDE DEF m
      <4>4. QED
        BY <4>1, <4>3
    <3>3. piped => m.kind # "afc"
      BY <2>1 DEF SplitterOrAfc
    <3>4. SplitterOrAfc' /\ AfcAfterVend'
      BY <2>1, <3>1, <3>2, <3>3 DEF SplitterOrAfc, AfcAfterVend
    <3>5. \A i \in DOMAIN fromDevice' : fromDevice'[i].kind = "response" =>
            i \in DOMAIN fromDevice /\ fromDevice'[i] = fromDevice[i]
      BY <3>2
    <3>6. OneVend'
      <4> SUFFICES ASSUME ~crowded PROVE OneVend'
        BY <2>1 DEF OneVend
      <4>1. \A i \in DOMAIN outgoing' : outgoing'[i].kind = "vend" =>
              /\ peer.container = Nobody
              /\ \A j \in DOMAIN outgoing' : outgoing'[j].kind = "vend" => j = i
              /\ \A j \in DOMAIN fromDevice : fromDevice[j].kind # "response"
              /\ \A c \in Numbers : vends[c] = "waiting" => c = outgoing'[i].call
        BY <1>1, <2>1 DEF OneVend
      <4>2. \A i \in DOMAIN fromDevice : fromDevice[i].kind = "response" =>
              /\ fromDevice[i].status = "Complete" => peer.container = fromDevice[i].call
              /\ \A j \in DOMAIN fromDevice : fromDevice[j].kind = "response" => j = i
              /\ \A c \in Numbers : vends[c] = "waiting" => c = fromDevice[i].call
        BY <1>1 DEF OneVend
      <4>3. \A c, d \in Numbers : vends[c] = "waiting" /\ vends[d] = "waiting" => c = d
        BY <1>1 DEF OneVend
      <4> HIDE DEF m
      <4>4. QED
        BY <2>1, <3>1, <3>5, <4>1, <4>2, <4>3 DEF OneVend
    <3>7. QED
      BY <2>1, <3>4, <3>6 DEF WaitersListen
  <2>4. QED
    BY <2>2, <2>3
<1>8. CASE Gone
  BY <1>1, <1>8 DEF Gone, house, WaitersListen, SplitterOrAfc, OneVend, AfcAfterVend
<1>9. CASE UNCHANGED listenersVars
  BY <1>1, <1>9 DEF listenersVars, house, WaitersListen, SplitterOrAfc, OneVend, AfcAfterVend
<1>10. QED
  BY <1>2, <1>3, <1>4, <1>5, <1>6, <1>7, <1>8, <1>9, HouseSteps

\* The notification proxy has no container and no AFC.
LEMMA HouseLeft ==
  ASSUME ListenersTypeOK, ListenersTypeOK', OneService, OneService', HouseInv, listening = "notification_proxy",
         [ListenersNext]_listenersVars
  PROVE  HouseInv'
<1>1. listening' = "notification_proxy" /\ UNCHANGED <<vends, once, piped, afcs, crowded, swallowed>>
  BY ProxySteps
<1>2. outgoing' \in Seq(ProxyRequest) /\ fromDevice' \in Seq(ProxyMessage)
  BY <1>1 DEF ListenersTypeOK
<1>3. /\ \A i \in DOMAIN outgoing' : outgoing'[i].kind # "afc"
      /\ \A i \in DOMAIN fromDevice' : fromDevice'[i].kind # "afc"
  BY <1>2 DEF ProxyRequest, ProxyMessage
<1>4. afcs' = {} /\ \A c \in Numbers : vends'[c] # "waiting"
  BY <1>1 DEF OneService
<1>5. QED
  BY <1>1, <1>3, <1>4 DEF HouseInv, WaitersListen, SplitterOrAfc, OneVend, AfcAfterVend

---------------------------------------------------------------------------
(* The notification proxy.                                                 *)

\* What is known of who observes, for one name: it stays so as long as the listener
\* of the name is not told.
LEMMA ObserversStep ==
  ASSUME ListenersTypeOK, OneService, ObserversHeard, [ListenersNext]_listenersVars, listening = "notification_proxy"
  PROVE  ObserversHeard'
<1>1. /\ outgoing \in Seq(ProxyRequest) /\ fromDevice \in Seq(ProxyMessage)
      /\ peer \in [container : Numbers \cup {Nobody}, observed : SUBSET Names, down : BOOLEAN]
      /\ listeners \in [Names -> Numbers \cup {Nobody}] /\ observers \subseteq Numbers
      /\ connection \in {"open", "ending", "gone"} /\ crashed \in BOOLEAN
  BY DEF ListenersTypeOK
<1>2. SUFFICES ASSUME connection' # "gone", ~crashed',
                      NEW r \in observers' \ told'
               PROVE  \E n \in Names : listeners'[n] = r /\ WillBeTold(n)'
  BY DEF ObserversHeard
\* A step that leaves the listeners, and what the name is known by.
<1>3. ASSUME connection # "gone", ~crashed, r \in observers \ told, listeners' = listeners,
             \A n \in Names : WillBeTold(n) => WillBeTold(n)'
      PROVE  \E n \in Names : listeners'[n] = r /\ WillBeTold(n)'
  BY <1>3 DEF ObserversHeard
\* Writing something after what is there.
<1>4. ASSUME NEW m \in ProxyRequest, outgoing' \in {outgoing, Append(outgoing, m)},
             UNCHANGED <<peer, fromDevice>>
      PROVE  \A n \in Names : WillBeTold(n) => WillBeTold(n)'
  <2>1. \A i \in DOMAIN outgoing : i \in DOMAIN outgoing' /\ outgoing'[i] = outgoing[i]
    BY <1>1, <1>4, AppendElements
  <2>2. \A i \in DOMAIN outgoing : \A j \in 1 .. i - 1 : j \in DOMAIN outgoing
    BY <1>1
  <2>3. QED
    BY <1>4, <2>1, <2>2 DEF WillBeTold, ReadBeforeShutdown
\* More from the device.
<1>5. ASSUME UNCHANGED <<outgoing, peer>>, NEW m \in ProxyMessage, fromDevice' = Append(fromDevice, m)
      PROVE  \A n \in Names : WillBeTold(n) => WillBeTold(n)'
  BY <1>1, <1>5, AppendElements DEF WillBeTold, ReadBeforeShutdown
<1>6. ASSUME NEW n \in Names, ObserveNotification(n)
      PROVE  \E k \in Names : listeners'[k] = r /\ WillBeTold(k)'
  <2> DEFINE new == asked + 1
             m == [kind |-> "observe", name |-> n]
  <2>1. m \in ProxyRequest
    BY DEF ProxyRequest
  <2>2. /\ UNCHANGED <<peer, fromDevice, told, crashed, connection>>
        /\ outgoing' \in {outgoing, Append(outgoing, m)}
    BY <1>6 DEF ObserveNotification, Writes, house
  <2>3. \A k \in Names : WillBeTold(k) => WillBeTold(k)'
    BY <1>4, <2>1, <2>2
  <2>4. CASE listeners' = listeners /\ observers' = observers
    BY <1>2, <1>3, <2>2, <2>3, <2>4
  <2>5. CASE Observable(n)
    <3>1. /\ listeners[n] = Nobody /\ listeners' = [listeners EXCEPT ![n] = new]
          /\ observers' = IF ShutDown THEN observers ELSE observers \cup {new}
          /\ Writes(m)
      BY <1>6, <2>5 DEF ObserveNotification, Observable
    <3>2. CASE r \in observers
      <4>1. PICK k \in Names : listeners[k] = r /\ WillBeTold(k)
        BY <1>2, <2>2, <3>2 DEF ObserversHeard
      <4>2. k # n
        BY <1>1, <3>1, <3>2, <4>1 DEF Numbers, Nobody
      <4>3. QED
        BY <1>1, <2>3, <3>1, <4>1, <4>2
    <3>3. CASE r \notin observers
      <4>1. r = new /\ ~ShutDown
        BY <1>2, <3>1, <3>3
      <4>2. outgoing' = Append(outgoing, m)
        BY <3>1, <4>1 DEF Writes, ShutDown
      <4>3. /\ Len(outgoing) + 1 \in DOMAIN outgoing' /\ outgoing'[Len(outgoing) + 1] = m
            /\ \A j \in 1 .. Len(outgoing) : outgoing'[j] = outgoing[j] /\ outgoing[j].kind # "shutdown"
        BY <1>1, <2>1, <4>1, <4>2, AppendElements DEF ShutDown
      <4>4. ~peer'.down
        BY <2>2, <4>1 DEF ShutDown
      <4>5. Len(outgoing) + 1 - 1 = Len(outgoing)
        BY <1>1
      <4>6. ReadBeforeShutdown(n)'
        BY <4>3, <4>4, <4>5 DEF ReadBeforeShutdown
      <4>7. QED
        BY <1>1, <3>1, <4>1, <4>6 DEF WillBeTold
    <3>4. QED
      BY <3>2, <3>3
  <2>6. QED
    BY <1>6, <2>4, <2>5 DEF ObserveNotification
<1>7. ASSUME NEW b \in BOOLEAN, PostNotification \/ Shutdown(b)
      PROVE  \E n \in Names : listeners'[n] = r /\ WillBeTold(n)'
  <2>1. [kind |-> "post"] \in ProxyRequest /\ [kind |-> "shutdown"] \in ProxyRequest
    BY DEF ProxyRequest
  <2>2. /\ UNCHANGED <<peer, fromDevice, listeners, told, observers, crashed>>
        /\ \E m \in ProxyRequest : outgoing' \in {outgoing, Append(outgoing, m)}
        /\ connection # "gone"
    BY <1>2, <1>7, <2>1 DEF PostNotification, Shutdown, Writes, house, proxy
  <2>3. QED
    BY <1>2, <1>3, <1>4, <2>2
\* A listener is told, or a name that has none is.
<1>8. ASSUME NEW b \in BOOLEAN, HandleData(b)
      PROVE  \E n \in Names : listeners'[n] = r /\ WillBeTold(n)'
  <2> DEFINE m == Head(fromDevice)
  <2>1. /\ m = fromDevice[1] /\ m \in ProxyMessage /\ 1 \in DOMAIN fromDevice
        /\ Len(fromDevice) \in Nat
        /\ fromDevice' = Tail(fromDevice) /\ DOMAIN fromDevice' = 1 .. Len(fromDevice) - 1
        /\ \A i \in DOMAIN fromDevice' : fromDevice'[i] = fromDevice[i + 1]
    BY <1>1, <1>8, TailElements DEF HandleData
  <2>2. UNCHANGED <<outgoing, peer, observers, connection>> /\ ~crashed
    BY <1>8 DEF HandleData
  <2>3. \A n \in Names : WillBeTold(n) => WillBeTold(n)' \/ (m.kind = "ProxyDeath" /\ m.name = n)
    <3> SUFFICES ASSUME NEW n \in Names, NEW i \in DOMAIN fromDevice,
                        fromDevice[i].kind = "ProxyDeath", fromDevice[i].name = n, i # 1
                 PROVE  WillBeTold(n)'
      BY <2>1, <2>2 DEF WillBeTold, ReadBeforeShutdown
    <3>1. i - 1 \in DOMAIN fromDevice' /\ fromDevice'[i - 1] = fromDevice[i]
      BY <1>1, <2>1
    <3>2. QED
      BY <3>1 DEF WillBeTold
  <2>4. m.kind = "ProxyDeath" => "name" \in DOMAIN m /\ m.name \in Names
    BY <2>1 DEF ProxyMessage
  <2> DEFINE dies == m.kind = "ProxyDeath" /\ listeners[m.name] # Nobody
  <2>5. /\ told' = IF dies THEN told \cup {listeners[m.name]} ELSE told
        /\ listeners' = IF dies THEN [listeners EXCEPT ![m.name] = Nobody] ELSE listeners
    <3> HIDE DEF m
    <3>1. ~b \/ ~dies
      BY <1>2, <1>8, <2>4 DEF HandleData, m
    <3>2. QED
      BY <1>2, <1>8, <2>4, <3>1 DEF HandleData, m
  <2>6. PICK k \in Names : listeners[k] = r /\ WillBeTold(k)
    <3>1. r \in observers \ told
      BY <1>2, <2>2, <2>5
    <3>2. QED
      BY <1>2, <2>2, <3>1 DEF ObserversHeard
  <2>7. CASE m.kind = "ProxyDeath" /\ m.name = k
    <3>1. r # Nobody
      BY <1>1, <1>2, <2>2 DEF Numbers, Nobody
    <3>2. r \in told'
      BY <2>5, <2>6, <2>7, <3>1
    <3>3. QED
      BY <1>2, <3>2
  <2>8. CASE ~(m.kind = "ProxyDeath" /\ m.name = k)
    <3>1. WillBeTold(k)'
      BY <2>3, <2>6, <2>8
    <3>2. listeners'[k] = r
      BY <1>1, <2>4, <2>5, <2>6, <2>8
    <3>3. QED
      BY <3>1, <3>2
  <2>9. QED
    BY <2>7, <2>8
\* The device reads: who asked to observe does, and who does is told of the shutdown.
<1>9. CASE DeviceReadsProxy
  <2> DEFINE m == Head(outgoing)
  <2>1. /\ m = outgoing[1] /\ m \in ProxyRequest /\ 1 \in DOMAIN outgoing
        /\ Len(outgoing) \in Nat
        /\ outgoing' = Tail(outgoing) /\ DOMAIN outgoing' = 1 .. Len(outgoing) - 1
        /\ \A i \in DOMAIN outgoing' : outgoing'[i] = outgoing[i + 1]
    BY <1>1, <1>9, TailElements DEF DeviceReadsProxy
  <2>2. UNCHANGED <<listeners, told, observers, crashed, connection>>
    BY <1>9 DEF DeviceReadsProxy, proxy
  <2>3. \A n \in Names : ReadBeforeShutdown(n) =>
          /\ ~peer.down /\ (m.kind # "shutdown" \/ (m.kind = "observe" /\ m.name = n))
          /\ \/ m.kind = "observe" /\ m.name = n
             \/ peer'.down \/ ReadBeforeShutdown(n)'
    <3> SUFFICES ASSUME NEW n \in Names, ~peer.down, NEW i \in DOMAIN outgoing,
                        outgoing[i].kind = "observe", outgoing[i].name = n,
                        \A j \in 1 .. i - 1 : outgoing[j].kind # "shutdown", i # 1
                 PROVE  m.kind # "shutdown" /\ (peer'.down \/ ReadBeforeShutdown(n)')
      BY <2>1 DEF ReadBeforeShutdown
    <3>1. i \in Nat /\ i > 1 /\ i - 1 \in DOMAIN outgoing' /\ outgoing'[i - 1] = outgoing[i]
      BY <1>1, <2>1
    <3>2. \A j \in 1 .. (i - 1) - 1 : j \in DOMAIN outgoing' /\ j + 1 \in 1 .. i - 1 /\ outgoing'[j] = outgoing[j + 1]
      <4>1. SUFFICES ASSUME NEW j \in 1 .. (i - 1) - 1
                     PROVE  j \in DOMAIN outgoing' /\ j + 1 \in 1 .. i - 1 /\ outgoing'[j] = outgoing[j + 1]
        OBVIOUS
      <4>2. i - 1 \in 1 .. Len(outgoing) - 1
        BY <2>1, <3>1
      <4>3. j \in 1 .. Len(outgoing) - 1 /\ j + 1 \in 1 .. i - 1
        BY <2>1, <3>1, <4>2
      <4>4. QED
        BY <2>1, <4>3
    <3>3. m.kind # "shutdown"
      BY <2>1, <3>1
    <3>4. QED
      BY <3>1, <3>2, <3>3 DEF ReadBeforeShutdown
  <2>4. CASE (peer.down \/ m.kind = "post") /\ UNCHANGED <<peer, fromDevice>>
    <3>1. \A n \in Names : WillBeTold(n) => WillBeTold(n)'
      BY <2>3, <2>4 DEF WillBeTold, ReadBeforeShutdown
    <3>2. QED
      BY <1>2, <1>3, <2>2, <3>1
  <2>5. CASE /\ m.kind = "observe" /\ ~peer.down
             /\ peer' = [peer EXCEPT !.observed = @ \cup {m.name}]
             /\ UNCHANGED fromDevice
    <3>1. peer'.observed = peer.observed \cup {m.name} /\ ~peer'.down
      BY <1>1, <2>5
    <3>2. \A n \in Names : WillBeTold(n) => WillBeTold(n)'
      BY <2>3, <2>5, <3>1 DEF WillBeTold
    <3>3. QED
      BY <1>2, <1>3, <2>2, <3>2
  <2>6. CASE /\ m.kind = "shutdown" /\ ~peer.down
             /\ peer' = [peer EXCEPT !.observed = {}, !.down = TRUE]
             /\ \E order \in SetToSeqs(peer.observed) :
                  fromDevice' = fromDevice \o [i \in DOMAIN order |-> [kind |-> "ProxyDeath", name |-> order[i]]]
    <3>1. PICK order \in SetToSeqs(peer.observed) :
                  fromDevice' = fromDevice \o [i \in DOMAIN order |-> [kind |-> "ProxyDeath", name |-> order[i]]]
      BY <2>6
    <3> DEFINE deaths == [i \in DOMAIN order |-> [kind |-> "ProxyDeath", name |-> order[i]]]
    <3>2. order \in Seq(peer.observed) /\ \A x \in peer.observed : \E i \in DOMAIN order : order[i] = x
      BY OrderElements DEF OneService
    <3>3. deaths \in Seq(ProxyMessage) /\ Len(deaths) = Len(order)
      <4>1. \A i \in DOMAIN order : order[i] \in Names
        BY <1>1, <3>2
      <4>2. \A i \in DOMAIN order : [kind |-> "ProxyDeath", name |-> order[i]] \in ProxyMessage
        BY <4>1 DEF ProxyMessage
      <4>3. DOMAIN order = 1 .. Len(order) /\ Len(order) \in Nat
        BY <3>2
      <4> HIDE DEF ProxyMessage
      <4>4. QED
        BY <4>2, <4>3
    <3>4. /\ \A i \in DOMAIN fromDevice : i \in DOMAIN fromDevice' /\ fromDevice'[i] = fromDevice[i]
          /\ \A i \in DOMAIN order : /\ Len(fromDevice) + i \in DOMAIN fromDevice'
                                     /\ fromDevice'[Len(fromDevice) + i] = deaths[i]
      BY <1>1, <3>1, <3>2, <3>3, ConcatProperties
    <3>5. \A n \in Names : n \in peer.observed => WillBeTold(n)'
      <4> SUFFICES ASSUME NEW n \in Names, n \in peer.observed PROVE WillBeTold(n)'
        OBVIOUS
      <4>1. PICK i \in DOMAIN order : order[i] = n
        BY <3>2
      <4>2. deaths[i].kind = "ProxyDeath" /\ deaths[i].name = n
        BY <4>1
      <4> HIDE DEF deaths
      <4>3. QED
        BY <3>4, <4>1, <4>2 DEF WillBeTold
    <3>6. \A n \in Names : ~ReadBeforeShutdown(n)
      BY <2>3, <2>6
    <3> HIDE DEF deaths
    <3>7. \A n \in Names : WillBeTold(n) => WillBeTold(n)'
      BY <3>4, <3>5, <3>6 DEF WillBeTold
    <3>8. QED
      BY <1>2, <1>3, <2>2, <3>7
  <2>7. QED
    BY <1>9, <2>4, <2>5, <2>6 DEF DeviceReadsProxy
<1>10. ASSUME NEW n \in Names, NEW kind \in {"RelayNotification", "ProxyDeath"}, DeviceTells(n, kind)
       PROVE  \E k \in Names : listeners'[k] = r /\ WillBeTold(k)'
  <2> DEFINE m == [kind |-> kind, name |-> n]
  <2>1. /\ m \in ProxyMessage /\ fromDevice' = Append(fromDevice, m)
        /\ UNCHANGED <<outgoing, listeners, told, observers, crashed, connection>>
    BY <1>10 DEF DeviceTells, ProxyMessage, proxy
  <2>2. /\ peer'.down = peer.down
        /\ \A k \in Names : k \in peer.observed => k \in peer'.observed \/ (kind = "ProxyDeath" /\ k = n)
    BY <1>1, <1>10 DEF DeviceTells
  <2>3. /\ \A i \in DOMAIN fromDevice : i \in DOMAIN fromDevice' /\ fromDevice'[i] = fromDevice[i]
        /\ Len(fromDevice) + 1 \in DOMAIN fromDevice' /\ fromDevice'[Len(fromDevice) + 1] = m
    BY <1>1, <2>1, AppendElements
  <2>4. \A k \in Names : WillBeTold(k) => WillBeTold(k)'
    BY <2>1, <2>2, <2>3 DEF WillBeTold, ReadBeforeShutdown
  <2>5. QED
    BY <1>2, <1>3, <2>1, <2>4
<1>11. CASE DeviceSaysOther
  <2>1. /\ [kind |-> "unknown"] \in ProxyMessage /\ fromDevice' = Append(fromDevice, [kind |-> "unknown"])
        /\ UNCHANGED <<outgoing, peer, listeners, told, observers, crashed, connection>>
    BY <1>11 DEF DeviceSaysOther, ProxyMessage, proxy
  <2>2. QED
    BY <1>2, <1>3, <1>5, <2>1
<1>12. CASE Gone
  BY <1>2, <1>12 DEF Gone
<1>13. CASE UNCHANGED listenersVars
  <2>1. \A n \in Names : WillBeTold(n) => WillBeTold(n)'
    BY <1>13 DEF listenersVars, WillBeTold, ReadBeforeShutdown
  <2>2. QED
    BY <1>2, <1>3, <1>13, <2>1 DEF listenersVars, proxy
<1>14. QED
  BY <1>6, <1>7, <1>8, <1>9, <1>10, <1>11, <1>12, <1>13, ProxySteps

---------------------------------------------------------------------------
(* The theorems.                                                           *)

\* Nobody has called, and nothing is on its way.
LEMMA InitListenersInvariant == ListenersInit => ListenersIInv
<1> SUFFICES ASSUME ListenersInit PROVE ListenersIInv
  OBVIOUS
<1>1. ListenersTypeOK
  BY EmptySeq DEF ListenersInit, ListenersTypeOK
<1>2. OneService
  BY FS_EmptySet DEF ListenersInit, OneService
<1>3. WaitersListen /\ SplitterOrAfc /\ ~swallowed /\ OneVend /\ AfcAfterVend
  BY DEF ListenersInit, WaitersListen, SplitterOrAfc, OneVend, AfcAfterVend
<1>4. ObserversHeard
  BY DEF ListenersInit, ObserversHeard
<1>5. QED
  BY <1>1, <1>2, <1>3, <1>4 DEF ListenersIInv

\* Whatever the client calls and the device sends, in chunks of any length.
THEOREM ListenersInvariant == ListenersSpec => []ListenersIInv
<1>1. ListenersIInv /\ [ListenersNext]_listenersVars => ListenersIInv'
  <2> SUFFICES ASSUME ListenersIInv, [ListenersNext]_listenersVars
               PROVE  ListenersIInv'
    OBVIOUS
  <2>1. ListenersTypeOK /\ OneService /\ HouseInv /\ ObserversHeard
    BY DEF ListenersIInv, HouseInv
  <2>2. ListenersTypeOK' /\ OneService'
    BY <2>1, ListenersTypeStep, OneServiceStep
  <2>3. HouseInv' /\ ObserversHeard'
    <3>1. CASE listening = "house_arrest"
      <4>1. listening' = "house_arrest"
        BY <2>1, <3>1, HouseSteps
      <4>2. ObserversHeard'
        BY <2>2, <4>1 DEF OneService, ObserversHeard
      <4>3. QED
        BY <2>1, <3>1, <4>2, HouseStep
    <3>2. CASE listening = "notification_proxy"
      BY <2>1, <2>2, <3>2, HouseLeft, ObserversStep
    <3>3. QED
      BY <2>1, <3>1, <3>2 DEF ListenersTypeOK
  <2>4. QED
    BY <2>2, <2>3 DEF ListenersIInv, HouseInv
<1>2. QED
  BY <1>1, InitListenersInvariant, PTL DEF ListenersSpec

\* vendContainer and vendDocuments hand the socket over to an AfcService that nobody
\* shares, in the container of its own call, and with nothing of AFC in the splitter.
THEOREM AfcAloneOnItsSocket == ListenersSpec => []AfcIsAlone
<1>1. ListenersIInv => AfcIsAlone
  BY DEF ListenersIInv, AfcAfterVend, AfcIsAlone
<1>2. QED
  BY <1>1, ListenersInvariant, PTL

\* observeNotification, _handleData, shutdown and close: who observes is told of the
\* death of the notification, unless the connection goes or the client crashes first.
THEOREM ObserversAreTold == ListenersSpec => []ObservedUntilTold
<1>1. ListenersIInv => ObservedUntilTold
  <2> SUFFICES ASSUME ListenersIInv, connection # "gone", ~crashed, NEW r \in observers \ told
               PROVE  \E n \in Names :
                        /\ listeners[n] = r
                        /\ \/ \E i \in DOMAIN outgoing : outgoing[i] = [kind |-> "observe", name |-> n]
                           \/ n \in peer.observed
                           \/ \E i \in DOMAIN fromDevice : fromDevice[i] = [kind |-> "ProxyDeath", name |-> n]
    BY DEF ObservedUntilTold
  <2>1. PICK n \in Names : listeners[n] = r /\ WillBeTold(n)
    BY DEF ListenersIInv, ObserversHeard
  <2>2. listening = "notification_proxy"
    BY DEF ListenersIInv, OneService, ListenersTypeOK
  <2>3. outgoing \in Seq(ProxyRequest) /\ fromDevice \in Seq(ProxyMessage)
    BY <2>2 DEF ListenersIInv, ListenersTypeOK
  <2>4. \A i \in DOMAIN outgoing : outgoing[i].kind = "observe" /\ outgoing[i].name = n =>
          outgoing[i] = [kind |-> "observe", name |-> n]
    BY <2>3 DEF ProxyRequest
  <2>5. \A i \in DOMAIN fromDevice : fromDevice[i].kind = "ProxyDeath" /\ fromDevice[i].name = n =>
          fromDevice[i] = [kind |-> "ProxyDeath", name |-> n]
    BY <2>3 DEF ProxyMessage
  <2>6. QED
    BY <2>1, <2>4, <2>5 DEF WillBeTold, ReadBeforeShutdown
<1>2. QED
  BY <1>1, ListenersInvariant, PTL

---------------------------------------------------------------------------
(* The developer image.                                                    *)

ImageSpec == ImageInit /\ [][ImageNext]_imageVars

---------------------------------------------------------------------------
(* The inductive invariant.                                                *)

Working == {"checking", "looking", "opening", "unpacking", "writing"}
Content == {"absent", "whole"} \cup Callers

ArchiveOK == archive \in {<<"image", "signature">>, <<"signature", "image">>, <<"signature">>}

ImageTypeOK ==
  /\ ArchiveOK
  /\ zip \in Content /\ folder \in [File -> Content]
  /\ phase \in [Callers -> Ended \cup ToDownload \cup Working]
  /\ source \in [Callers -> {"none", "path", "removedWhole", "removedTorn"}]
  /\ unpacked \in [Callers -> Nat] /\ searches \in Nat
  /\ raced \in BOOLEAN /\ abandoned \in BOOLEAN /\ cut \in BOOLEAN

\* Unless two calls raced, one of them is to download the zip, and none if it is whole.
OneDownload ==
  ~raced =>
    /\ \A c, d \in Callers : phase[c] \in ToDownload /\ phase[d] \in ToDownload => c = d
    /\ zip = "whole" => \A c \in Callers : phase[c] \notin ToDownload

\* A call has opened the entries of the archive in their order.
EntriesInOrder ==
  \A c \in Callers :
    /\ phase[c] = "writing" =>
         unpacked[c] < Len(archive) /\ folder[archive[unpacked[c] + 1]] # "absent"
    /\ phase[c] \in {"unpacking", "writing"} =>
         /\ unpacked[c] <= Len(archive)
         /\ \A k \in 1 .. unpacked[c] : folder[archive[k]] # "absent"

\* A torn file is the entry that a call is writing, or what a cut unpacking left.
TornEntryIsUnderWay ==
  \A f \in File :
    folder[f] \in Callers =>
      \/ phase[folder[f]] = "writing" /\ archive[unpacked[folder[f]] + 1] = f
      \/ cut

\* There is an image only if the archive has one, and who returned has found it.
ImageIsUnpacked == Len(archive) = 1 => ~HasImage
ReturnedFound == \A c \in Callers : phase[c] = "returned" => HasImage

\* With the image is its signature, unless a call is between the two or was cut there.
ImageHasSignature ==
  HasImage => (\A f \in File : folder[f] # "absent") \/ (\E d \in Callers : Halfway(d)) \/ cut

ImageIInv ==
  /\ ImageTypeOK /\ TornZipIsUnderWay /\ OneDownload
  /\ EntriesInOrder /\ TornEntryIsUnderWay
  /\ ImageIsUnpacked /\ ReturnedFound /\ ImageHasSignature

---------------------------------------------------------------------------
(* Lemmas on the actions, per conjunct.                                    *)

\* Each step of the image download preserves the types.
LEMMA ImageTypeStep == ImageTypeOK /\ [ImageNext]_imageVars => ImageTypeOK'
<1> SUFFICES ASSUME ImageTypeOK, [ImageNext]_imageVars
             PROVE  ImageTypeOK'
  OBVIOUS
<1> USE DEF ImageTypeOK, Goes, Ended, ToDownload, Working, Content, files, imageHistory
<1>1. ArchiveOK'
  BY DEF ArchiveOK, ImageNext, Start, CheckZip, Listed, ListFails, OpenDownload, Downloaded, DownloadFails,
         RemoveZip, Look, OpenZip, OpenEntry, EntryWritten, Unpacked, UnpackFails, Crash, imageVars
<1>2. ASSUME NEW c \in Callers, Start(c) \/ Listed(c) \/ ListFails(c) PROVE ImageTypeOK'
  BY <1>1, <1>2 DEF Start, Listed, ListFails
<1>3. ASSUME NEW c \in Callers, CheckZip(c) \/ Look(c) PROVE ImageTypeOK'
  BY <1>1, <1>3 DEF CheckZip, Look
<1>4. ASSUME NEW c \in Callers, OpenDownload(c) \/ Downloaded(c) \/ DownloadFails(c) PROVE ImageTypeOK'
  BY <1>1, <1>4 DEF OpenDownload, Downloaded, DownloadFails
<1>5. ASSUME NEW c \in Callers, RemoveZip(c) \/ OpenZip(c) PROVE ImageTypeOK'
  BY <1>1, <1>5 DEF RemoveZip, OpenZip
<1>6. ASSUME NEW c \in Callers, OpenEntry(c) PROVE ImageTypeOK'
  BY <1>1, <1>6 DEF OpenEntry
<1>7. ASSUME NEW c \in Callers, EntryWritten(c) PROVE ImageTypeOK'
  <2>1. folder' \in [File -> Content]
    BY <1>7 DEF EntryWritten
  <2>2. unpacked' \in [Callers -> Nat]
    BY <1>7 DEF EntryWritten
  <2>3. QED
    BY <1>1, <1>7, <2>1, <2>2 DEF EntryWritten
<1>8. ASSUME NEW c \in Callers, Unpacked(c) PROVE ImageTypeOK'
  BY <1>1, <1>8 DEF Unpacked
<1>9. ASSUME NEW c \in Callers, UnpackFails(c) \/ Crash(c) PROVE ImageTypeOK'
  BY <1>1, <1>9 DEF UnpackFails, Crash, Halfway
<1>10. CASE UNCHANGED imageVars
  BY <1>1, <1>10 DEF imageVars
<1>11. QED
  BY <1>2, <1>3, <1>4, <1>5, <1>6, <1>7, <1>8, <1>9, <1>10 DEF ImageNext

\* Who leaves the download has made its zip whole, removed it, or crashed.
LEMMA TornZipStep == ImageTypeOK /\ TornZipIsUnderWay /\ [ImageNext]_imageVars => TornZipIsUnderWay'
<1> SUFFICES ASSUME ImageTypeOK, TornZipIsUnderWay, [ImageNext]_imageVars
             PROVE  TornZipIsUnderWay'
  OBVIOUS
<1> USE DeveloperImageAssumption DEF ImageTypeOK, TornZipIsUnderWay, Goes, files, imageHistory, Ended
<1>1. ASSUME NEW c \in Callers, Start(c) \/ CheckZip(c) \/ Listed(c) \/ ListFails(c) PROVE TornZipIsUnderWay'
  BY <1>1 DEF Start, CheckZip, Listed, ListFails
<1>2. ASSUME NEW c \in Callers, OpenDownload(c) \/ Downloaded(c) \/ DownloadFails(c) \/ RemoveZip(c)
      PROVE  TornZipIsUnderWay'
  BY <1>2 DEF OpenDownload, Downloaded, DownloadFails, RemoveZip
<1>3. ASSUME NEW c \in Callers, Look(c) \/ OpenZip(c) \/ OpenEntry(c) \/ EntryWritten(c)
      PROVE  TornZipIsUnderWay'
  BY <1>3 DEF Look, OpenZip, OpenEntry, EntryWritten
<1>4. ASSUME NEW c \in Callers, Unpacked(c) \/ UnpackFails(c) \/ Crash(c) PROVE TornZipIsUnderWay'
  BY <1>4 DEF Unpacked, UnpackFails, Crash
<1>5. CASE UNCHANGED imageVars
  BY <1>5 DEF imageVars
<1>6. QED
  BY <1>1, <1>2, <1>3, <1>4, <1>5 DEF ImageNext

\* Who comes to download finds no zip, and if another one is at it, they race.
LEMMA OneDownloadStep == ImageTypeOK /\ OneDownload /\ [ImageNext]_imageVars => OneDownload'
<1> SUFFICES ASSUME ImageTypeOK, OneDownload, [ImageNext]_imageVars
             PROVE  OneDownload'
  OBVIOUS
<1> USE DEF ImageTypeOK, Goes, files, imageHistory, Ended, ToDownload
<1>1. ASSUME NEW c \in Callers, \A d \in Callers \ {c} : phase'[d] = phase[d],
             phase'[c] \in ToDownload => phase[c] \in ToDownload,
             zip' = "whole" => zip = "whole", raced' = raced
      PROVE  OneDownload'
  BY <1>1 DEF OneDownload
<1>2. ASSUME NEW c \in Callers, Start(c) \/ Listed(c) \/ ListFails(c) \/ Look(c) PROVE OneDownload'
  BY <1>1, <1>2 DEF Start, Listed, ListFails, Look
<1>3. ASSUME NEW c \in Callers, CheckZip(c) PROVE OneDownload'
  BY <1>3 DEF CheckZip, OneDownload
<1>4. ASSUME NEW c \in Callers, OpenDownload(c) \/ DownloadFails(c) \/ RemoveZip(c) PROVE OneDownload'
  BY <1>1, <1>4, DeveloperImageAssumption DEF OpenDownload, DownloadFails, RemoveZip
<1>5. ASSUME NEW c \in Callers, Downloaded(c) PROVE OneDownload'
  BY <1>5 DEF Downloaded, OneDownload
<1>6. ASSUME NEW c \in Callers, OpenZip(c) \/ OpenEntry(c) \/ EntryWritten(c) PROVE OneDownload'
  BY <1>1, <1>6 DEF OpenZip, OpenEntry, EntryWritten
<1>7. ASSUME NEW c \in Callers, Unpacked(c) \/ UnpackFails(c) \/ Crash(c) PROVE OneDownload'
  BY <1>1, <1>7 DEF Unpacked, UnpackFails, Crash
<1>8. CASE UNCHANGED imageVars
  BY <1>8 DEF imageVars, OneDownload
<1>9. QED
  BY <1>2, <1>3, <1>4, <1>5, <1>6, <1>7, <1>8 DEF ImageNext

---------------------------------------------------------------------------
(* The folder.                                                             *)

\* The archive has one entry, the signature, or both in either order.
LEMMA ArchiveEntries ==
  ASSUME ImageTypeOK
  PROVE  /\ Len(archive) \in 1 .. 2
         /\ \A k \in 1 .. Len(archive) : archive[k] \in File
         /\ Len(archive) = 1 => archive[1] # "image"
         /\ Len(archive) = 2 => \A f \in File : \E k \in 1 .. Len(archive) : archive[k] = f
  BY DEF ImageTypeOK, ArchiveOK, File

\* A file that is there stays: the steps only truncate and write it.
LEMMA FolderStep ==
  ASSUME ImageTypeOK, [ImageNext]_imageVars
  PROVE  archive' = archive /\ \A f \in File : folder[f] # "absent" => folder'[f] # "absent"
<1> USE DeveloperImageAssumption DEF ImageTypeOK, files, imageHistory
<1>1. ASSUME NEW c \in Callers, OpenEntry(c) PROVE folder' = [folder EXCEPT ![archive[unpacked[c] + 1]] = c]
  BY <1>1 DEF OpenEntry
<1>2. ASSUME NEW c \in Callers, EntryWritten(c)
      PROVE  folder' = [folder EXCEPT ![archive[unpacked[c] + 1]] = IF @ = c THEN "whole" ELSE @]
  BY <1>2 DEF EntryWritten
<1>3. archive' = archive
  BY DEF ImageNext, Start, CheckZip, Listed, ListFails, OpenDownload, Downloaded, DownloadFails, RemoveZip,
         Look, OpenZip, OpenEntry, EntryWritten, Unpacked, UnpackFails, Crash, imageVars
<1>4. \/ folder' = folder
      \/ \E c \in Callers : OpenEntry(c) \/ EntryWritten(c)
  BY DEF ImageNext, Start, CheckZip, Listed, ListFails, OpenDownload, Downloaded, DownloadFails, RemoveZip,
         Look, OpenZip, Unpacked, UnpackFails, Crash, imageVars
<1>5. QED
  BY <1>1, <1>2, <1>3, <1>4

\* Steps other than those of the unpacking leave the folder, and leave who unpacks there.
Elsewhere(c) ==
  \/ Start(c) \/ CheckZip(c) \/ Listed(c) \/ ListFails(c)
  \/ OpenDownload(c) \/ Downloaded(c) \/ DownloadFails(c) \/ RemoveZip(c) \/ Look(c)

\* A caller that neither unpacks nor writes leaves the folder alone.
LEMMA ElsewhereStep ==
  ASSUME ImageTypeOK, NEW c \in Callers, Elsewhere(c)
  PROVE  /\ UNCHANGED <<folder, unpacked, cut>>
         /\ phase[c] \notin {"unpacking", "writing"} /\ phase'[c] \notin {"unpacking", "writing"}
         /\ \A d \in Callers \ {c} : phase'[d] = phase[d]
         /\ phase'[c] = "returned" => HasImage
  BY DEF ImageTypeOK, Elsewhere, Start, CheckZip, Listed, ListFails, OpenDownload, Downloaded, DownloadFails,
         RemoveZip, Look, Goes, files, imageHistory, Ended

\* A call goes on opening the entries of the archive in their order.
LEMMA EntriesStep == ImageTypeOK /\ EntriesInOrder /\ [ImageNext]_imageVars => EntriesInOrder'
<1> SUFFICES ASSUME ImageTypeOK, EntriesInOrder, [ImageNext]_imageVars
             PROVE  EntriesInOrder'
  OBVIOUS
<1>1. archive' = archive /\ \A f \in File : folder[f] # "absent" => folder'[f] # "absent"
  BY FolderStep
<1>2. Len(archive) \in 1 .. 2 /\ \A k \in 1 .. Len(archive) : archive[k] \in File
  BY ArchiveEntries
<1>3. /\ phase \in [Callers -> Ended \cup ToDownload \cup Working]
      /\ unpacked \in [Callers -> Nat] /\ folder \in [File -> Content]
  BY DEF ImageTypeOK
<1>4. ASSUME NEW c \in Callers, \A d \in Callers \ {c} : phase'[d] = phase[d] /\ unpacked'[d] = unpacked[d],
             phase'[c] = "writing" =>
               unpacked'[c] < Len(archive) /\ folder'[archive[unpacked'[c] + 1]] # "absent",
             phase'[c] \in {"unpacking", "writing"} =>
               /\ unpacked'[c] <= Len(archive)
               /\ \A k \in 1 .. unpacked'[c] : folder'[archive[k]] # "absent"
      PROVE  EntriesInOrder'
  BY <1>1, <1>2, <1>3, <1>4 DEF EntriesInOrder
<1>5. ASSUME NEW c \in Callers, Elsewhere(c) PROVE EntriesInOrder'
  BY <1>4, <1>5, ElsewhereStep DEF ImageTypeOK
<1>6. ASSUME NEW c \in Callers, OpenZip(c) PROVE EntriesInOrder'
  BY <1>2, <1>3, <1>4, <1>6 DEF OpenZip, Goes
<1>7. ASSUME NEW c \in Callers, OpenEntry(c) PROVE EntriesInOrder'
  <2>1. unpacked[c] \in Nat /\ unpacked[c] + 1 \in 1 .. Len(archive) /\ archive[unpacked[c] + 1] \in File
    BY <1>2, <1>3, <1>7 DEF OpenEntry
  <2>2. folder'[archive[unpacked[c] + 1]] = c /\ unpacked' = unpacked /\ phase'[c] = "writing"
    BY <1>3, <1>7, <2>1 DEF OpenEntry, Goes, files
  <2>3. c # "absent"
    BY DeveloperImageAssumption
  <2>4. \A k \in 1 .. unpacked[c] : k \in 1 .. Len(archive) /\ folder[archive[k]] # "absent"
    BY <1>2, <1>3, <1>7, <2>1 DEF OpenEntry, Goes, EntriesInOrder
  <2>5. QED
    BY <1>1, <1>2, <1>3, <1>4, <1>7, <2>1, <2>2, <2>3, <2>4 DEF OpenEntry, Goes
<1>8. ASSUME NEW c \in Callers, EntryWritten(c) PROVE EntriesInOrder'
  <2>1. unpacked[c] < Len(archive) /\ folder[archive[unpacked[c] + 1]] # "absent"
    BY <1>8 DEF EntryWritten, Goes, EntriesInOrder
  <2>2. unpacked'[c] = unpacked[c] + 1 /\ phase'[c] = "unpacking"
    BY <1>3, <1>8 DEF EntryWritten, Goes
  <2>3. \A k \in 1 .. unpacked'[c] : archive[k] \in File /\ folder[archive[k]] # "absent"
    BY <1>2, <1>3, <1>8, <2>1, <2>2 DEF EntryWritten, Goes, EntriesInOrder
  <2>4. QED
    BY <1>1, <1>2, <1>3, <1>4, <1>8, <2>1, <2>2, <2>3 DEF EntryWritten, Goes
<1>9. ASSUME NEW c \in Callers, Unpacked(c) \/ UnpackFails(c) \/ Crash(c) PROVE EntriesInOrder'
  BY <1>3, <1>4, <1>9 DEF Unpacked, UnpackFails, Crash, Goes
<1>10. CASE UNCHANGED imageVars
  BY <1>10 DEF imageVars, EntriesInOrder
<1>11. QED
  BY <1>5, <1>6, <1>7, <1>8, <1>9, <1>10 DEF ImageNext, Elsewhere

\* Who stops writing an entry has made it whole, unless another one has opened it
\* since, or was cut.
LEMMA TornEntryStep ==
  ImageTypeOK /\ EntriesInOrder /\ TornEntryIsUnderWay /\ [ImageNext]_imageVars => TornEntryIsUnderWay'
<1> SUFFICES ASSUME ImageTypeOK, EntriesInOrder, TornEntryIsUnderWay, [ImageNext]_imageVars
             PROVE  TornEntryIsUnderWay'
  OBVIOUS
<1>1. archive' = archive
  BY FolderStep
<1>2. /\ phase \in [Callers -> Ended \cup ToDownload \cup Working]
      /\ unpacked \in [Callers -> Nat] /\ folder \in [File -> Content] /\ cut \in BOOLEAN
  BY DEF ImageTypeOK
<1>3. ASSUME NEW c \in Callers, folder' = folder, cut => cut',
             \A d \in Callers \ {c} : phase'[d] = phase[d] /\ unpacked'[d] = unpacked[d],
             phase[c] = "writing" => cut'
      PROVE  TornEntryIsUnderWay'
  BY <1>1, <1>2, <1>3 DEF TornEntryIsUnderWay
<1>4. ASSUME NEW c \in Callers, Elsewhere(c) PROVE TornEntryIsUnderWay'
  BY <1>2, <1>3, <1>4, ElsewhereStep
<1>5. ASSUME NEW c \in Callers, OpenZip(c) PROVE TornEntryIsUnderWay'
  BY <1>2, <1>3, <1>5 DEF OpenZip, Goes, files, imageHistory
<1>6. ASSUME NEW c \in Callers, OpenEntry(c) \/ EntryWritten(c) PROVE TornEntryIsUnderWay'
  <2> DEFINE f == archive[unpacked[c] + 1]
  <2>1. f \in File
    BY <1>2, <1>6, ArchiveEntries DEF OpenEntry, EntryWritten, EntriesInOrder, Goes
  <2>2. CASE OpenEntry(c)
    <3>1. folder' = [folder EXCEPT ![f] = c] /\ unpacked' = unpacked /\ cut' = cut
      BY <2>2 DEF OpenEntry, imageHistory
    <3>2. phase[c] = "unpacking" /\ phase' = [phase EXCEPT ![c] = "writing"]
      BY <2>2 DEF OpenEntry, Goes
    <3>3. QED
      BY <1>1, <1>2, <2>1, <3>1, <3>2 DEF TornEntryIsUnderWay
  <2>3. CASE EntryWritten(c)
    <3>1. folder' = [folder EXCEPT ![f] = IF folder[f] = c THEN "whole" ELSE folder[f]] /\ cut' = cut
      BY <1>2, <2>1, <2>3 DEF EntryWritten, imageHistory
    <3>2. \A d \in Callers \ {c} : phase'[d] = phase[d] /\ unpacked'[d] = unpacked[d]
      BY <1>2, <2>3 DEF EntryWritten, Goes
    <3>3. phase[c] = "writing"
      BY <2>3 DEF EntryWritten, Goes
    <3> HIDE DEF f
    <3>4. \A g \in File : folder'[g] \in Callers => folder'[g] = folder[g] /\ (g = f => folder[g] # c)
      BY <1>2, <2>1, <3>1, DeveloperImageAssumption
    <3>5. \A g \in File : folder[g] = c => g = f \/ cut
      BY <3>3 DEF TornEntryIsUnderWay, f
    <3>6. QED
      BY <1>1, <1>2, <3>1, <3>2, <3>4, <3>5 DEF TornEntryIsUnderWay
  <2>4. QED
    BY <1>6, <2>2, <2>3
<1>7. ASSUME NEW c \in Callers, Unpacked(c) PROVE TornEntryIsUnderWay'
  BY <1>2, <1>3, <1>7 DEF Unpacked, Goes, files, imageHistory
<1>8. ASSUME NEW c \in Callers, UnpackFails(c) \/ Crash(c) PROVE TornEntryIsUnderWay'
  BY <1>2, <1>3, <1>8 DEF UnpackFails, Crash, Halfway, files
<1>9. CASE UNCHANGED imageVars
  BY <1>9 DEF imageVars, TornEntryIsUnderWay
<1>10. QED
  BY <1>4, <1>5, <1>6, <1>7, <1>8, <1>9 DEF ImageNext, Elsewhere

\* Only an entry of the archive comes to be there, and a search returns what is.
LEMMA ImageStep ==
  ASSUME ImageTypeOK, ImageIsUnpacked, ReturnedFound, [ImageNext]_imageVars
  PROVE  ImageIsUnpacked' /\ ReturnedFound'
<1>1. archive' = archive /\ (HasImage => HasImage')
  BY FolderStep DEF HasImage, File
<1>2. /\ phase \in [Callers -> Ended \cup ToDownload \cup Working]
      /\ unpacked \in [Callers -> Nat] /\ folder \in [File -> Content]
  BY DEF ImageTypeOK
<1>3. ASSUME NEW c \in Callers, \A d \in Callers \ {c} : phase'[d] = phase[d],
             phase'[c] = "returned" => HasImage
      PROVE  ReturnedFound'
  BY <1>1, <1>3 DEF ReturnedFound
<1>4. ASSUME NEW c \in Callers, Elsewhere(c) PROVE ImageIsUnpacked' /\ ReturnedFound'
  BY <1>1, <1>3, <1>4, ElsewhereStep DEF ImageIsUnpacked, HasImage
<1>5. ASSUME NEW c \in Callers, OpenZip(c) \/ Unpacked(c) \/ UnpackFails(c) \/ Crash(c)
      PROVE  ImageIsUnpacked' /\ ReturnedFound'
  <2>1. folder' = folder /\ \A d \in Callers \ {c} : phase'[d] = phase[d]
    BY <1>2, <1>5 DEF OpenZip, Unpacked, UnpackFails, Crash, Goes, files
  <2>2. phase'[c] = "returned" => HasImage
    BY <1>2, <1>5 DEF OpenZip, Unpacked, UnpackFails, Crash, Goes
  <2>3. QED
    BY <1>1, <1>3, <2>1, <2>2 DEF ImageIsUnpacked, HasImage
<1>6. ASSUME NEW c \in Callers, OpenEntry(c) PROVE ImageIsUnpacked' /\ ReturnedFound'
  <2>1. Len(archive) = 1 => folder'["image"] = folder["image"]
    BY <1>2, <1>6, ArchiveEntries DEF OpenEntry, File
  <2>2. phase'[c] = "writing" /\ \A d \in Callers \ {c} : phase'[d] = phase[d]
    BY <1>2, <1>6 DEF OpenEntry, Goes
  <2>3. QED
    BY <1>1, <1>3, <2>1, <2>2 DEF ImageIsUnpacked, HasImage
<1>7. ASSUME NEW c \in Callers, EntryWritten(c) PROVE ImageIsUnpacked' /\ ReturnedFound'
  <2>1. folder["image"] = "absent" => folder'["image"] = "absent"
    BY <1>2, <1>7, DeveloperImageAssumption DEF EntryWritten, File
  <2>2. phase'[c] = "unpacking" /\ \A d \in Callers \ {c} : phase'[d] = phase[d]
    BY <1>2, <1>7 DEF EntryWritten, Goes
  <2>3. QED
    BY <1>1, <1>3, <2>1, <2>2 DEF ImageIsUnpacked, HasImage
<1>8. CASE UNCHANGED imageVars
  BY <1>8 DEF imageVars, ImageIsUnpacked, ReturnedFound, HasImage
<1>9. QED
  BY <1>4, <1>5, <1>6, <1>7, <1>8 DEF ImageNext, Elsewhere

\* A call that has put the image there puts the signature there too, or is cut.
LEMMA SignatureStep ==
  ImageTypeOK /\ EntriesInOrder /\ ImageIsUnpacked /\ ImageHasSignature /\ [ImageNext]_imageVars
    => ImageHasSignature'
<1> SUFFICES ASSUME ImageTypeOK, EntriesInOrder, ImageIsUnpacked, ImageHasSignature, [ImageNext]_imageVars
             PROVE  ImageHasSignature'
  OBVIOUS
<1>1. archive' = archive /\ \A f \in File : folder[f] # "absent" => folder'[f] # "absent"
  BY FolderStep
<1>2. /\ phase \in [Callers -> Ended \cup ToDownload \cup Working]
      /\ unpacked \in [Callers -> Nat] /\ folder \in [File -> Content]
      /\ cut \in BOOLEAN
  BY DEF ImageTypeOK
<1>3. Len(archive) \in 1 .. 2
  BY ArchiveEntries
<1>4. ASSUME NEW c \in Callers, folder' = folder, cut => cut',
             \A d \in Callers \ {c} : phase'[d] = phase[d] /\ unpacked'[d] = unpacked[d],
             Halfway(c) => cut' \/ \A f \in File : folder[f] # "absent"
      PROVE  ImageHasSignature'
  <2>1. \A d \in Callers \ {c} : Halfway(d) => Halfway(d)'
    BY <1>1, <1>2, <1>4 DEF Halfway
  <2> QED
    BY <1>4, <2>1 DEF ImageHasSignature, HasImage
<1>5. ASSUME NEW c \in Callers, Elsewhere(c) PROVE ImageHasSignature'
  BY <1>2, <1>4, <1>5, ElsewhereStep DEF Halfway
<1>6. ASSUME NEW c \in Callers, OpenZip(c) \/ Unpacked(c) PROVE ImageHasSignature'
  <2>1. ~Halfway(c)
    BY <1>2, <1>3, <1>6 DEF OpenZip, Unpacked, Goes, Halfway
  <2>2. folder' = folder /\ cut' = cut /\ \A d \in Callers \ {c} : phase'[d] = phase[d] /\ unpacked'[d] = unpacked[d]
    BY <1>2, <1>6 DEF OpenZip, Unpacked, Goes, files, imageHistory
  <2>3. QED
    BY <1>4, <2>1, <2>2
<1>7. ASSUME NEW c \in Callers, UnpackFails(c) \/ Crash(c) PROVE ImageHasSignature'
  BY <1>2, <1>4, <1>7 DEF UnpackFails, Crash, files
<1>8. ASSUME NEW c \in Callers, OpenEntry(c) PROVE ImageHasSignature'
  <2>1. phase'[c] = "writing"
    BY <1>2, <1>8 DEF OpenEntry, Goes
  <2>2. QED
    BY <2>1 DEF ImageHasSignature, Halfway
<1>9. ASSUME NEW c \in Callers, EntryWritten(c) PROVE ImageHasSignature'
  <2>1. /\ unpacked'[c] = unpacked[c] + 1 /\ phase'[c] = "unpacking" /\ phase[c] = "writing"
        /\ cut' = cut
        /\ \A d \in Callers \ {c} : phase'[d] = phase[d] /\ unpacked'[d] = unpacked[d]
    BY <1>2, <1>9 DEF EntryWritten, Goes, imageHistory
  <2>2. unpacked[c] < Len(archive) /\ folder[archive[unpacked[c] + 1]] # "absent"
        /\ \A k \in 1 .. unpacked[c] : folder[archive[k]] # "absent"
    BY <2>1 DEF EntriesInOrder
  <2>3. CASE unpacked'[c] < Len(archive)
    <3>1. Halfway(c)'
      BY <1>1, <1>2, <1>3, <2>1, <2>3 DEF Halfway
    <3>2. QED
      BY <3>1 DEF ImageHasSignature
  <2>4. CASE unpacked'[c] = Len(archive)
    <3>1. \A k \in 1 .. Len(archive) : archive[k] \in File /\ folder'[archive[k]] # "absent"
      BY <1>1, <1>2, <1>3, <2>1, <2>2, <2>4, ArchiveEntries
    <3>2. Len(archive) = 2 => \A f \in File : folder'[f] # "absent"
      BY <3>1, ArchiveEntries
    <3>3. Len(archive) = 1 => ~HasImage'
      BY ImageStep, <1>1, <1>2, <1>9, DeveloperImageAssumption DEF ImageIsUnpacked, HasImage, EntryWritten, File
    <3>4. QED
      BY <1>3, <3>2, <3>3 DEF ImageHasSignature
  <2>5. QED
    BY <1>2, <1>3, <2>1, <2>2, <2>3, <2>4
<1>10. CASE UNCHANGED imageVars
  BY <1>10 DEF imageVars, ImageHasSignature, HasImage, Halfway
<1>11. QED
  BY <1>5, <1>6, <1>7, <1>8, <1>9, <1>10 DEF ImageNext, Elsewhere

---------------------------------------------------------------------------
(* The theorems.                                                           *)

\* Nothing is there yet, and nobody has called.
LEMMA InitImageInvariant == ImageInit => ImageIInv
<1> SUFFICES ASSUME ImageInit PROVE ImageIInv
  OBVIOUS
<1>1. ImageTypeOK
  BY DEF ImageInit, ImageTypeOK, ArchiveOK, Content, Ended
<1>2. TornZipIsUnderWay /\ OneDownload
  BY DeveloperImageAssumption DEF ImageInit, TornZipIsUnderWay, OneDownload, ToDownload
<1>3. EntriesInOrder /\ TornEntryIsUnderWay
  BY DeveloperImageAssumption DEF ImageInit, EntriesInOrder, TornEntryIsUnderWay
<1>4. ImageIsUnpacked /\ ReturnedFound /\ ImageHasSignature
  BY DEF ImageInit, ImageIsUnpacked, ReturnedFound, ImageHasSignature, HasImage, File
<1>5. QED
  BY <1>1, <1>2, <1>3, <1>4 DEF ImageIInv

\* However many callers and processes meet over the zip and the folder, and wherever
\* they end, the invariant stays.
THEOREM ImageInvariant == ImageSpec => []ImageIInv
<1>1. ImageIInv /\ [ImageNext]_imageVars => ImageIInv'
  BY ImageTypeStep, TornZipStep, OneDownloadStep, EntriesStep, TornEntryStep, ImageStep, SignatureStep DEF ImageIInv
<1>2. QED
  BY <1>1, InitImageInvariant, PTL DEF ImageSpec

\* findDeveloperImage takes a directory with an image as it is: both files are whole,
\* unless a call is unpacking just then or an unpacking was cut short once.
THEOREM ReturnedImageIsWhole == ImageSpec => []ReturnedIsWhole
<1>1. ImageIInv => ReturnedIsWhole
  <2> SUFFICES ASSUME ImageIInv, NEW c \in Callers, phase[c] = "returned", ~cut, \A d \in Callers : ~Halfway(d)
               PROVE  \A f \in File : folder[f] = "whole"
    BY DEF ReturnedIsWhole
  <2>1. \A f \in File : folder[f] # "absent"
    BY DEF ImageIInv, ReturnedFound, ImageHasSignature
  <2>2. \A f \in File : folder[f] \notin Callers
    BY DEF ImageIInv, TornEntryIsUnderWay, Halfway
  <2>3. QED
    BY <2>1, <2>2 DEF ImageIInv, ImageTypeOK, Content
<1>2. QED
  BY <1>1, ImageInvariant, PTL

\* searchAndDownloadDeveloperImageFromGithub removes what it has not downloaded in full.
THEOREM TornZipIsRemoved == ImageSpec => []TornZipIsUnderWay
<1>1. ImageIInv => TornZipIsUnderWay
  BY DEF ImageIInv
<1>2. QED
  BY <1>1, ImageInvariant, PTL

\* It never downloads over a zip it has found, so that only a second call that found
\* none either takes a whole zip away.
THEOREM WholeZipStays == ImageSpec => WholeZipKept
<1>1. ImageIInv /\ [ImageNext]_imageVars => (zip = "whole" /\ zip' # "whole" => raced) \/ UNCHANGED imageVars
  <2> SUFFICES ASSUME ImageIInv, ImageNext, zip = "whole", zip' # "whole"
               PROVE  raced
    BY DEF imageVars
  <2>1. PICK c \in Callers : OpenDownload(c) \/ Downloaded(c) \/ RemoveZip(c)
    BY DEF ImageNext, Start, CheckZip, Listed, ListFails, DownloadFails, Look, OpenZip,
           OpenEntry, EntryWritten, Unpacked, UnpackFails, Crash, files
  <2>2. phase[c] \in ToDownload
    BY <2>1 DEF OpenDownload, Downloaded, RemoveZip, Goes, ToDownload
  <2>3. QED
    BY <2>2 DEF ImageIInv, OneDownload
<1>2. QED
  BY <1>1, ImageInvariant, PTL DEF ImageSpec, WholeZipKept

---------------------------------------------------------------------------
(* The clients of installation-proxy, the image mounter and mcinstall.     *)

\* The specification of the clients alone.
ClientsSpec == ClientsInit /\ [][ClientsNext]_clientsVars

---------------------------------------------------------------------------
(* The inductive invariant.  It says nothing of a client that was          *)
(* disturbed: nothing tells it whose an answer is from then on.            *)

Services == {"installation_proxy", "image_mounter", "mc_install"}
Ops == {"Install", "Browse", "Lookup", "lookup", "mount", "getProfileList", "installProfile", "removeProfile"}
Words == {"Install", "Browse", "Lookup", "LookupImage", "ReceiveBytes", "image", "MountImage", "GetProfileList",
          "InstallProfile", "RemoveProfile", "LookupResult", "piece"}
Statuses == {"progress", "Complete", "Error", "ReceiveBytesAck", "alreadyMounted", "ok", "Acknowledged"}
Phases == {"receiving", "pushing", "returned", "threw", "timedOut"}
Named == Images \cup {NoImage}
Entries == Apps \cup {"profile"} \cup Named
Messages == [of : Nat, about : Words, status : Statuses, list : SUBSET Entries]
Written == [call : Nat, request : Words]
CommandStates == [op : Ops, image : Named, step : 1 .. 4, phase : Phases, took : Seq(Messages),
                  announced : Nat \ {0}, pushed : Nat]
Workers == [job : Nat, sent : Nat, rest : SUBSET Apps, expects : Nat, staged : Seq(Written), mounted : SUBSET Named,
            profile : BOOLEAN, done : SUBSET Nat, confused : {FALSE}]

Known ==
  /\ service \in Services
  /\ commands \in Seq(CommandStates) /\ Len(commands) <= MaxCalls
  /\ \A c \in DOMAIN commands : commands[c].op \in Offers[service]
  /\ replies \in Seq(Messages) /\ upstream \in Seq(Written)
  /\ size \in Nat \ {0} /\ worker \in Workers

\* What the list of a command is put together from.
Lists(messages) == UNION {messages[i].list : i \in DOMAIN messages}

\* The image of a call is mounted, or the one that its lookup found.
HasMounted(call, mounted) == mounted = IF Found(call) = {} THEN {call.image} ELSE Found(call)

\* A call on images that is past its lookup has found what is still mounted.
Looked(call, mounted) ==
  call.op \in {"lookup", "mount"} =>
    IF call.step = 1 THEN call.took = <<>> ELSE call.took # <<>> /\ Found(call) = mounted

\* What a call is to have had done when it returns.
Done(c, call) ==
  /\ call.op = "mount" => HasMounted(call, worker.mounted)
  /\ call.op = "lookup" => Found(call) \subseteq worker.mounted
  /\ call.op \notin {"mount", "lookup"} => c \in worker.done
  /\ call.op = "Browse" => Lists(call.took) = Apps

\* Every call has taken its own messages, and those that have returned had done what they asked for.
Kept ==
  \A c \in DOMAIN commands :
    /\ c < Len(commands) => commands[c].phase \notin {"receiving", "pushing"}
    /\ \A i \in DOMAIN commands[c].took : commands[c].took[i].of = c
    /\ commands[c].phase = "returned" => Done(c, commands[c])

Staged == worker.staged # <<>> => \E c \in DOMAIN commands : IsImage(worker.staged, c)

\* The last call is the only one at work, and where it is says what lies between the
\* client and the device.
AtRest ==
  /\ replies = <<>> /\ upstream = <<>> /\ worker.expects = 0
  /\ service = "installation_proxy" => worker.job = None

\* Its request has been written and not been read.
Asked(c, call) ==
  /\ call.phase = "receiving" /\ replies = <<>> /\ worker.expects = 0
  /\ call.step < 3 => call.pushed = 0
  /\ call.step \in 1 .. Len(Requests[call.op]) /\ call.step # 3
  /\ upstream = <<Plist(c, Requests[call.op][call.step])>>
  /\ service = "installation_proxy" => worker.job = None /\ call.took = <<>>
  /\ Looked(call, worker.mounted)

\* The device works on a command of installation-proxy.
InProgress(c, call) ==
  /\ call.phase = "receiving" /\ service = "installation_proxy" /\ upstream = <<>> /\ worker.expects = 0
  /\ worker.job = c
  /\ \A i \in DOMAIN replies : replies[i].of = c /\ replies[i].status = "progress"
  /\ call.op = "Browse" => Lists(call.took) \cup Lists(replies) \cup worker.rest = Apps

\* It has sent its last message about it.
Completed(c, call) ==
  /\ call.phase = "receiving" /\ service = "installation_proxy" /\ upstream = <<>> /\ worker.expects = 0
  /\ worker.job = None /\ replies # <<>>
  /\ \A i \in DOMAIN replies :
       /\ replies[i].of = c
       /\ i < Len(replies) => replies[i].status = "progress"
       /\ i = Len(replies) => replies[i].status \in {"Complete", "Error"}
       /\ replies[i].status = "Complete" =>
            /\ c \in worker.done
            /\ call.op = "Browse" => Lists(call.took) \cup Lists(replies) = Apps

\* The image mounter has answered a request.
ImageAnswered(c, call) ==
  /\ call.phase = "receiving" /\ service = "image_mounter" /\ upstream = <<>>
  /\ call.step < 3 => call.pushed = 0
  /\ call.step \in 1 .. Len(Requests[call.op]) /\ call.step # 3
  /\ Len(replies) = 1 /\ replies[1].of = c
  /\ call.step < 4 => Looked(call, worker.mounted)
  /\ call.step = 4 => call.took # <<>>
  /\ call.step = 1 /\ replies[1].status # "Error" => replies[1].list = worker.mounted
  /\ call.step = 4 /\ replies[1].status # "Error" => HasMounted(call, worker.mounted)
  /\ IF call.step = 2 /\ replies[1].status = "ReceiveBytesAck"
     THEN worker.expects = call.announced /\ worker.staged = <<>> /\ worker.job = c
     ELSE worker.expects = 0

\* An image is on its way: the device expects what is still to come of it, and answers
\* when it has it all.
ImageOnItsWay(c, call) ==
  /\ service = "image_mounter" /\ call.op = "mount"
  /\ \/ call.phase = "pushing" /\ call.step = 2
     \/ call.phase = "receiving" /\ call.step = 3 /\ call.pushed = call.announced
  /\ Looked(call, worker.mounted)
  /\ call.pushed <= call.announced
  /\ call.pushed = Len(worker.staged) + Len(upstream)
  /\ worker.expects = call.announced - Len(worker.staged)
  /\ \A i \in DOMAIN upstream : upstream[i] = [call |-> c, request |-> "piece"]
  /\ \A i \in DOMAIN worker.staged : worker.staged[i] = [call |-> c, request |-> "piece"]
  /\ worker.job = c
  /\ IF worker.expects > 0 THEN replies = <<>>
     ELSE Len(replies) = 1 /\ replies[1].of = c /\ replies[1].status = "Complete"

\* mcinstall has answered a request.
ProfileAnswered(c, call) ==
  /\ call.phase = "receiving" /\ service = "mc_install" /\ upstream = <<>> /\ worker.expects = 0
  /\ call.step < 3 => call.pushed = 0
  /\ call.step \in 1 .. Len(Requests[call.op])
  /\ Len(replies) = 1 /\ replies[1].of = c
  /\ replies[1].status = "Acknowledged" /\ call.step = Len(Requests[call.op]) => c \in worker.done

AtWork(c, call) ==
  \/ Asked(c, call) \/ InProgress(c, call) \/ Completed(c, call)
  \/ ImageAnswered(c, call) \/ ImageOnItsWay(c, call) \/ ProfileAnswered(c, call)

Course ==
  LET c == Len(commands)
  IN  IF c \in Active THEN AtWork(c, commands[c]) ELSE AtRest

Quiet == Known /\ Kept /\ Staged /\ Course

IInv == ~disturbed => Quiet

---------------------------------------------------------------------------

(* Lemmas about the operators.                                             *)

\* The requests of each operation and the operations of each service, read off the tables.
LEMMA Tables ==
  /\ DOMAIN Requests = Ops /\ DOMAIN Offers = Services
  /\ Requests["Install"] = <<"Install">> /\ Requests["Browse"] = <<"Browse">> /\ Requests["Lookup"] = <<"Lookup">>
  /\ Requests["lookup"] = <<"LookupImage">>
  /\ Requests["mount"] = <<"LookupImage", "ReceiveBytes", "image", "MountImage">>
  /\ Requests["getProfileList"] = <<"GetProfileList">> /\ Requests["installProfile"] = <<"InstallProfile">>
  /\ Requests["removeProfile"] = <<"GetProfileList", "RemoveProfile">>
  /\ Offers["installation_proxy"] = {"Install", "Browse", "Lookup"}
  /\ Offers["image_mounter"] = {"lookup", "mount"}
  /\ Offers["mc_install"] = {"getProfileList", "installProfile", "removeProfile"}
BY DEF Requests, Offers, Ops, Services

\* An operation sends one to four requests, and an image only as its third.
LEMMA RequestsOfOps ==
  ASSUME NEW op \in Ops
  PROVE  /\ Len(Requests[op]) \in 1 .. 4
         /\ \A i \in 1 .. Len(Requests[op]) : Requests[op][i] \in Words /\ Requests[op][i] # "piece"
         /\ \A i \in 1 .. Len(Requests[op]) : Requests[op][i] = "image" => i = 3
<1>1. ASSUME NEW word \in Words, Requests[op] = <<word>>, word \notin {"piece", "image"}
      PROVE  /\ Len(Requests[op]) \in 1 .. 4
             /\ \A i \in 1 .. Len(Requests[op]) : Requests[op][i] \in Words /\ Requests[op][i] # "piece"
             /\ \A i \in 1 .. Len(Requests[op]) : Requests[op][i] = "image" => i = 3
  BY <1>1
<1>2. CASE op = "mount"
  <2> DEFINE r == Requests[op]
  <2>1. r = <<"LookupImage", "ReceiveBytes", "image", "MountImage">>
    BY <1>2, Tables
  <2> HIDE DEF r
  <2>2. Len(r) = 4 /\ r[1] = "LookupImage" /\ r[2] = "ReceiveBytes" /\ r[3] = "image" /\ r[4] = "MountImage"
    BY <2>1
  <2>3. \A i \in 1 .. Len(r) : i = 1 \/ i = 2 \/ i = 3 \/ i = 4
    BY <2>2
  <2>4. QED
    BY <2>2, <2>3 DEF Words, r
<1>3. CASE op = "removeProfile"
  <2> DEFINE r == Requests[op]
  <2>1. r = <<"GetProfileList", "RemoveProfile">>
    BY <1>3, Tables
  <2> HIDE DEF r
  <2>2. Len(r) = 2 /\ r[1] = "GetProfileList" /\ r[2] = "RemoveProfile"
    BY <2>1
  <2>3. \A i \in 1 .. Len(r) : i = 1 \/ i = 2
    BY <2>2
  <2>4. QED
    BY <2>2, <2>3 DEF Words, r
<1>4. CASE op \notin {"mount", "removeProfile"}
  <2>1. \E word \in Words : Requests[op] = <<word>> /\ word \notin {"piece", "image"}
    BY <1>4, Tables DEF Ops, Words
  <2>2. QED
    BY <1>1, <2>1
<1>5. QED
  BY <1>2, <1>3, <1>4

\* The operations a service offers are those of its class.
LEMMA OffersOfServices ==
  ASSUME NEW op \in Ops, service \in Services, op \in Offers[service]
  PROVE  /\ service = "installation_proxy" => op \in {"Install", "Browse", "Lookup"}
         /\ service = "image_mounter" => op \in {"lookup", "mount"}
         /\ service = "mc_install" => op \in {"getProfileList", "installProfile", "removeProfile"}
BY Tables DEF Services

\* The entries in a queue after a message is appended.
LEMMA ListsOfAppend ==
  ASSUME NEW s \in Seq(Messages), NEW m \in Messages
  PROVE  Lists(Append(s, m)) = Lists(s) \cup m.list
<1> DEFINE t == Append(s, m)
<1>1. /\ Len(s) \in Nat /\ DOMAIN s = 1 .. Len(s) /\ DOMAIN t = 1 .. Len(s) + 1
      /\ t[Len(s) + 1] = m /\ \A i \in 1 .. Len(s) : t[i] = s[i]
  OBVIOUS
<1> HIDE DEF t
<1>2. ASSUME NEW x
      PROVE  (\E i \in DOMAIN t : x \in t[i].list) <=> (\E i \in DOMAIN s : x \in s[i].list) \/ x \in m.list
  <2>1. ASSUME NEW i \in DOMAIN t, x \in t[i].list
        PROVE  (\E j \in DOMAIN s : x \in s[j].list) \/ x \in m.list
    <3>1. CASE i = Len(s) + 1
      BY <1>1, <2>1, <3>1
    <3>2. CASE i # Len(s) + 1
      <4>1. i \in DOMAIN s /\ t[i] = s[i]
        BY <1>1, <3>2
      <4>2. QED
        BY <2>1, <4>1
    <3>3. QED
      BY <3>1, <3>2
  <2>2. ASSUME NEW j \in DOMAIN s, x \in s[j].list
        PROVE  \E i \in DOMAIN t : x \in t[i].list
    <3>1. j \in DOMAIN t /\ t[j] = s[j]
      BY <1>1
    <3>2. QED
      BY <2>2, <3>1
  <2>3. ASSUME x \in m.list
        PROVE  \E i \in DOMAIN t : x \in t[i].list
    <3>1. Len(s) + 1 \in DOMAIN t /\ t[Len(s) + 1] = m
      BY <1>1
    <3>2. QED
      BY <2>3, <3>1
  <2>4. QED
    BY <2>1, <2>2, <2>3
<1>3. QED
  BY <1>2 DEF Lists, t

\* The entries in a queue before its head is taken.
LEMMA ListsOfTail ==
  ASSUME NEW s \in Seq(Messages), s # <<>>
  PROVE  Lists(s) = Head(s).list \cup Lists(Tail(s))
<1> DEFINE t == Tail(s)
<1>1. /\ Len(s) \in Nat /\ DOMAIN s = 1 .. Len(s) /\ Len(s) >= 1 /\ DOMAIN t = 1 .. Len(s) - 1
      /\ s[1] = Head(s) /\ \A i \in 1 .. Len(s) - 1 : t[i] = s[i + 1]
  OBVIOUS
<1> HIDE DEF t
<1>2. ASSUME NEW x
      PROVE  (\E i \in DOMAIN s : x \in s[i].list) <=> (\E i \in DOMAIN t : x \in t[i].list) \/ x \in Head(s).list
  <2>1. ASSUME NEW i \in DOMAIN s, x \in s[i].list
        PROVE  (\E j \in DOMAIN t : x \in t[j].list) \/ x \in Head(s).list
    <3>1. CASE i = 1
      BY <1>1, <2>1, <3>1
    <3>2. CASE i # 1
      <4>1. i - 1 \in DOMAIN t /\ t[i - 1] = s[(i - 1) + 1] /\ (i - 1) + 1 = i
        BY <1>1, <3>2
      <4>2. QED
        BY <2>1, <4>1
    <3>3. QED
      BY <3>1, <3>2
  <2>2. ASSUME NEW j \in DOMAIN t, x \in t[j].list
        PROVE  \E i \in DOMAIN s : x \in s[i].list
    <3>1. j + 1 \in DOMAIN s /\ t[j] = s[j + 1]
      BY <1>1
    <3>2. QED
      BY <2>2, <3>1
  <2>3. 1 \in DOMAIN s /\ s[1] = Head(s)
    BY <1>1
  <2>4. QED
    BY <2>1, <2>2, <2>3
<1>3. QED
  BY <1>2 DEF Lists, t

\* What a call has found is the list of the first message that it took.
LEMMA FoundFirst ==
  ASSUME NEW before \in Seq(Messages), NEW m \in Messages, NEW call, call.took = Append(before, m)
  PROVE  /\ call.took # <<>>
         /\ before = <<>> => Found(call) = m.list
         /\ before # <<>> => Found(call) = before[1].list
<1> DEFINE t == Append(before, m)
<1>1. Len(t) = Len(before) + 1 /\ Len(before) \in Nat /\ t[Len(before) + 1] = m /\ \A i \in 1 .. Len(before) : t[i] = before[i]
  OBVIOUS
<1>2. before = <<>> => Len(before) = 0
  OBVIOUS
<1>3. before # <<>> => Len(before) # 0
  BY EmptySeq
<1> HIDE DEF t
<1>4. call.took = t
  BY DEF t
<1>5. t # <<>>
  BY <1>1
<1>6. QED
  BY <1>1, <1>2, <1>3, <1>4, <1>5 DEF Found

\* An empty queue holds no entry.
LEMMA ListsOfNone == Lists(<<>>) = {}
BY DEF Lists


---------------------------------------------------------------------------
(* Where the last call is.                                                 *)

\* A call that is at work is the last one.
LEMMA AtWorkIsLast ==
  ASSUME Quiet, NEW c \in DOMAIN commands, commands[c].phase \in {"receiving", "pushing"}
  PROVE  c = Len(commands) /\ AtWork(c, commands[c]) /\ commands[c] \in CommandStates
<1>1. commands \in Seq(CommandStates) /\ DOMAIN commands = 1 .. Len(commands) /\ Len(commands) \in Nat
  BY DEF Quiet, Known
<1>2. c = Len(commands)
  BY <1>1 DEF Quiet, Kept
<1>3. c \in Active
  BY DEF Active
<1>4. QED
  BY <1>1, <1>2, <1>3 DEF Quiet, Course

\* Something lies between the client and the device because the last call is at work.
LEMMA NotAtRest ==
  ASSUME Quiet, ~AtRest
  PROVE  LET c == Len(commands)
         IN  /\ c \in DOMAIN commands /\ commands[c].phase \in {"receiving", "pushing"}
             /\ AtWork(c, commands[c]) /\ commands[c] \in CommandStates /\ c \in Nat \ {0}
<1>1. commands \in Seq(CommandStates)
  BY DEF Quiet, Known
<1>2. Len(commands) \in Active /\ AtWork(Len(commands), commands[Len(commands)])
  BY DEF Quiet, Course
<1>3. Len(commands) \in DOMAIN commands /\ commands[Len(commands)].phase \in {"receiving", "pushing"}
  BY <1>2 DEF Active
<1>4. QED
  BY <1>1, <1>2, <1>3

\* A step after which the last call is at work leaves the calls on course.
LEMMA AtWorkThen ==
  ASSUME NEW c, NEW call, c = Len(commands'), call = commands'[c], AtWork(c, call)',
         c \in DOMAIN commands', call.phase \in {"receiving", "pushing"}
  PROVE  Course'
<1>1. (c \in Active)'
  BY DEF Active
<1>2. QED
  BY <1>1 DEF Course, AtWork, Asked, InProgress, Completed, ImageAnswered, ImageOnItsWay, ProfileAnswered

\* A step after which the last call is at rest leaves the calls on course.
LEMMA AtRestThen ==
  ASSUME NEW c, c = Len(commands'), AtRest', commands'[c].phase \notin {"receiving", "pushing"}
  PROVE  Course'
<1>1. ~(c \in Active)'
  BY DEF Active
<1>2. QED
  BY <1>1 DEF Course

\* What was done stays done.
LEMMA KeptThen ==
  ASSUME Kept, commands' = commands, worker.done \subseteq worker'.done, worker.mounted \in {{}, worker'.mounted}
  PROVE  Kept'
<1>1. \A call : HasMounted(call, {}) => FALSE
  BY DEF HasMounted
<1>0. \A c, call : Done(c, call) => Done(c, call)'
  BY <1>1 DEF Done
<1>2. ASSUME NEW c \in DOMAIN commands
      PROVE  /\ c < Len(commands) => commands[c].phase \notin {"receiving", "pushing"}
             /\ \A i \in DOMAIN commands[c].took : commands[c].took[i].of = c
             /\ commands[c].phase = "returned" => Done(c, commands[c])'
  <2>1. PICK call : call = commands[c]
    OBVIOUS
  <2>2. Done(c, call) => Done(c, call)'
    BY <1>0
  <2>3. QED
    BY <2>1, <2>2 DEF Kept, Done
<1>3. QED
  BY <1>2 DEF Kept, Done

\* The last call goes on.
LEMMA KeptAfter ==
  ASSUME Quiet, NEW c, c = Len(commands), c \in DOMAIN commands, NEW call \in CommandStates,
         commands' = [commands EXCEPT ![c] = call], worker' = worker,
         call.op = commands[c].op,
         \A i \in DOMAIN call.took : call.took[i].of = c,
         call.phase = "returned" => Done(c, call)
  PROVE  /\ Kept'
         /\ commands' \in Seq(CommandStates) /\ Len(commands') = Len(commands) /\ DOMAIN commands' = DOMAIN commands
         /\ \A d \in DOMAIN commands' : commands'[d].op \in Offers[service]
         /\ commands'[c] = call
<1>1. /\ commands \in Seq(CommandStates)
      /\ \A d \in DOMAIN commands : commands[d].op \in Offers[service]
      /\ Kept
  BY DEF Quiet, Known
<1>2. /\ commands' \in Seq(CommandStates) /\ Len(commands') = Len(commands) /\ DOMAIN commands' = DOMAIN commands
      /\ \A d \in DOMAIN commands : commands'[d] = IF d = c THEN call ELSE commands[d]
  BY <1>1, ExceptSeq
<1>3. \A d \in DOMAIN commands' : commands'[d].op \in Offers[service]
  BY <1>1, <1>2
<1>4. ASSUME NEW d \in DOMAIN commands'
      PROVE  /\ d < Len(commands') => commands'[d].phase \notin {"receiving", "pushing"}
             /\ \A i \in DOMAIN commands'[d].took : commands'[d].took[i].of = d
             /\ commands'[d].phase = "returned" => Done(d, commands[d])'
  <2>1. CASE d = c
    <3>1. commands'[d] = call /\ ~(d < Len(commands'))
      BY <1>1, <1>2, <2>1
    <3>2. call.phase = "returned" => Done(d, commands[d])'
      BY <2>1, <3>1 DEF Done
    <3>3. QED
      BY <2>1, <3>1, <3>2
  <2>2. CASE d # c
    <3>1. commands'[d] = commands[d] /\ d \in DOMAIN commands
      BY <1>2, <2>2
    <3>2. commands[d].phase = "returned" => Done(d, commands[d])
      BY <1>1, <3>1 DEF Kept
    <3>3. commands[d].phase = "returned" => Done(d, commands[d])'
      BY <3>1, <3>2 DEF Done
    <3>4. QED
      BY <1>1, <1>2, <3>1, <3>3 DEF Kept
  <2>3. QED
    BY <2>1, <2>2
<1>5. Kept'
  BY <1>4 DEF Kept
<1>6. QED
  BY <1>2, <1>3, <1>5


---------------------------------------------------------------------------
(* The steps of the service on the device.                                 *)

\* The device has taken a step, and the call waits where it was.
LEMMA DeviceStep ==
  ASSUME Quiet, NEW c, NEW call, c = Len(commands), c \in DOMAIN commands, call = commands[c],
         call.phase \in {"receiving", "pushing"},
         UNCHANGED <<service, commands, size>>,
         replies' \in Seq(Messages), upstream' \in Seq(Written), worker' \in Workers,
         worker.done \subseteq worker'.done, worker.mounted \in {{}, worker'.mounted},
         worker'.staged # <<>> => worker'.staged = worker.staged \/ IsImage(worker'.staged, c),
         AtWork(c, call)'
  PROVE  Quiet'
<1>1. Known'
  BY DEF Quiet, Known
<1>2. Kept'
  BY KeptThen DEF Quiet
<1>3. Staged'
  BY DEF Quiet, Staged, IsImage
<1>4. Course'
  BY AtWorkThen
<1>5. QED
  BY <1>1, <1>2, <1>3, <1>4 DEF Quiet

\* A message of the device about a call of the service.
LEMMA MessageTyped ==
  ASSUME NEW c \in Nat, NEW about \in Words, NEW status \in Statuses, NEW list \in SUBSET Entries
  PROVE  LET m == Message(c, about, status, list)
         IN  m \in Messages /\ m.of = c /\ m.about = about /\ m.status = status /\ m.list = list
BY DEF Message, Messages

\* What the device reads next, if it does not expect the bytes of an image.
LEMMA AskedFor ==
  ASSUME Quiet, upstream # <<>>, worker.expects = 0
  PROVE  LET c == Len(commands)
         IN  /\ Asked(c, commands[c]) /\ Tail(upstream) = <<>>
             /\ Head(upstream) = Plist(c, Requests[commands[c].op][commands[c].step])
             /\ Head(upstream).call = c /\ Head(upstream).request # "piece"
             /\ Head(upstream).request = Requests[commands[c].op][commands[c].step]
<1> DEFINE c == Len(commands)
<1> DEFINE call == commands[c]
<1>1. c \in DOMAIN commands /\ AtWork(c, call) /\ call \in CommandStates
  <2>1. ~AtRest
    BY DEF AtRest
  <2>2. QED
    BY <2>1, NotAtRest
<1> HIDE DEF call, c
<1>2. ~ImageOnItsWay(c, call)
  <2>1. SUFFICES ASSUME ImageOnItsWay(c, call)
                 PROVE  FALSE
    OBVIOUS
  <2>2. upstream \in Seq(Written) /\ worker.staged \in Seq(Written) /\ call.pushed \in Nat /\ call.announced \in Nat
    BY <1>1 DEF Quiet, Known, Workers, CommandStates
  <2>3. Len(upstream) \in Nat /\ Len(worker.staged) \in Nat /\ Len(upstream) # 0
    BY <2>2, EmptySeq
  <2>4. QED
    BY <2>1, <2>2, <2>3 DEF ImageOnItsWay
<1>3. Asked(c, call)
  BY <1>1, <1>2 DEF AtWork, InProgress, Completed, ImageAnswered, ProfileAnswered
<1>4. call.op \in Ops /\ call.step \in 1 .. Len(Requests[call.op])
  BY <1>1, <1>3 DEF CommandStates, Asked
<1>5. Requests[call.op][call.step] # "piece"
  BY <1>4, RequestsOfOps
<1>6. /\ Head(upstream) = Plist(c, Requests[call.op][call.step]) /\ Tail(upstream) = <<>>
      /\ Head(upstream).call = c /\ Head(upstream).request = Requests[call.op][call.step]
  BY <1>3 DEF Asked, Plist
<1>7. QED
  BY <1>3, <1>5, <1>6 DEF call, c

\* The device reading a piece of an image preserves the invariant.
LEMMA ReadsBytesKept ==
  ASSUME Quiet, ReadsBytes
  PROVE  Quiet'
<1>1. PICK c, call : c = Len(commands) /\ call = commands[c]
  OBVIOUS
<1>2. /\ c \in DOMAIN commands /\ call.phase \in {"receiving", "pushing"} /\ AtWork(c, call)
      /\ call \in CommandStates /\ c \in Nat
  <2>1. ~AtRest
    BY DEF AtRest, ReadsBytes
  <2>2. QED
    BY <1>1, <2>1, NotAtRest
<1>3. upstream # <<>> /\ worker.expects > 0 /\ worker.expects \in Nat
  BY DEF ReadsBytes, Quiet, Known, Workers
<1>4. ImageOnItsWay(c, call)
  BY <1>2, <1>3 DEF AtWork, Asked, InProgress, Completed, ImageAnswered, ProfileAnswered
<1> DEFINE piece == [call |-> c, request |-> "piece"]
<1>5. /\ upstream \in Seq(Written) /\ worker.staged \in Seq(Written) /\ worker \in Workers
      /\ call.pushed \in Nat /\ call.announced \in Nat /\ replies \in Seq(Messages)
      /\ upstream' = Tail(upstream) /\ Head(upstream) = piece /\ Head(upstream) \in Written
      /\ worker' = [worker EXCEPT !.expects = @ - 1, !.staged = Append(@, Head(upstream))]
  <2>1. /\ upstream \in Seq(Written) /\ worker.staged \in Seq(Written) /\ worker \in Workers
        /\ call.pushed \in Nat /\ call.announced \in Nat /\ replies \in Seq(Messages)
    BY <1>2 DEF Quiet, Known, Workers, CommandStates
  <2>2. upstream' = Tail(upstream) /\ worker' = [worker EXCEPT !.expects = @ - 1, !.staged = Append(@, Head(upstream))]
    BY DEF ReadsBytes
  <2>3. 1 \in DOMAIN upstream /\ Head(upstream) = upstream[1] /\ upstream[1] \in Written
    BY <1>3, <2>1
  <2>4. upstream[1] = piece
    BY <1>4, <2>3 DEF ImageOnItsWay
  <2>5. QED
    BY <2>1, <2>2, <2>3, <2>4
<1> HIDE DEF piece
<1>6. /\ upstream' \in Seq(Written) /\ Len(upstream') = Len(upstream) - 1 /\ Len(upstream) \in Nat
      /\ \A i \in DOMAIN upstream' : upstream'[i] = piece
  BY <1>3, <1>4, <1>5 DEF ImageOnItsWay, piece
<1>7. /\ worker'.expects = worker.expects - 1 /\ worker'.staged = Append(worker.staged, piece)
      /\ worker'.job = worker.job /\ worker'.done = worker.done /\ worker'.mounted = worker.mounted
      /\ worker' \in Workers
  <2>1. worker.expects - 1 \in Nat
    BY <1>3
  <2>2. Append(worker.staged, Head(upstream)) \in Seq(Written)
    BY <1>5
  <2>3. QED
    BY <1>5, <2>1, <2>2 DEF Workers
<1>8. /\ Len(worker'.staged) = Len(worker.staged) + 1 /\ Len(worker.staged) \in Nat /\ worker'.staged # <<>>
      /\ \A i \in DOMAIN worker'.staged : worker'.staged[i] = piece
  <2>1. \A i \in DOMAIN worker.staged : worker.staged[i] = piece
    BY <1>4 DEF ImageOnItsWay, piece
  <2>2. piece \in Written
    BY <1>5
  <2>3. ASSUME NEW s \in Seq(Written), \A i \in DOMAIN s : s[i] = piece
        PROVE  /\ Len(Append(s, piece)) = Len(s) + 1 /\ Len(s) \in Nat /\ Append(s, piece) # <<>>
               /\ \A i \in DOMAIN Append(s, piece) : Append(s, piece)[i] = piece
    BY <2>2, <2>3
  <2>4. QED
    BY <1>5, <1>7, <2>1, <2>3
<1>9. /\ replies' \in Seq(Messages)
      /\ IF worker'.expects > 0 THEN replies' = <<>>
         ELSE Len(replies') = 1 /\ replies'[1].of = c /\ replies'[1].status = "Complete"
  <2>1. replies = <<>> /\ worker.job = c
    BY <1>3, <1>4 DEF ImageOnItsWay
  <2>2. CASE worker.expects = 1
    <3>1. replies' = Append(replies, Message(c, "image", "Complete", {}))
      BY <2>1, <2>2 DEF ReadsBytes, Answer
    <3>2. /\ Message(c, "image", "Complete", {}) \in Messages
          /\ Message(c, "image", "Complete", {}).of = c /\ Message(c, "image", "Complete", {}).status = "Complete"
      BY <1>2, MessageTyped DEF Words, Statuses
    <3>3. QED
      BY <1>5, <1>7, <2>1, <2>2, <3>1, <3>2
  <2>3. CASE worker.expects # 1
    BY <1>3, <1>5, <1>7, <2>1, <2>3 DEF ReadsBytes
  <2>4. QED
    BY <2>2, <2>3
<1>10. UNCHANGED <<service, commands, size>>
  BY DEF ReadsBytes
<1>11. ImageOnItsWay(c, call)'
  <2>1. call.pushed = Len(worker'.staged) + Len(upstream') /\ worker'.expects = call.announced - Len(worker'.staged)
    <3>1. call.pushed = Len(worker.staged) + Len(upstream) /\ worker.expects = call.announced - Len(worker.staged)
      BY <1>4 DEF ImageOnItsWay
    <3>2. call.pushed \in Nat /\ call.announced \in Nat
      BY <1>5
    <3>3. Len(upstream') = Len(upstream) - 1 /\ Len(upstream) \in Nat
      BY <1>6
    <3>4. Len(worker'.staged) = Len(worker.staged) + 1 /\ Len(worker.staged) \in Nat
      BY <1>8
    <3>5. worker'.expects = worker.expects - 1
      BY <1>7
    <3>6. ASSUME NEW p, NEW a, NEW e, NEW m \in Nat, NEW n \in Nat, NEW e2, NEW m2, NEW n2, p \in Nat, a \in Nat,
                 p = m + n, e = a - m, n2 = n - 1, m2 = m + 1, e2 = e - 1
          PROVE  p = m2 + n2 /\ e2 = a - m2
      BY <3>6
    <3> QED
      BY <3>1, <3>2, <3>3, <3>4, <3>5, <3>6
  <2>2. worker'.job = c /\ service' = "image_mounter"
    BY <1>4, <1>7, <1>10 DEF ImageOnItsWay
  <2>3. Looked(call, worker'.mounted)
    BY <1>4, <1>7 DEF ImageOnItsWay
  <2>4. QED
    BY <1>4, <1>6, <1>8, <1>9, <2>1, <2>2, <2>3 DEF ImageOnItsWay, piece
<1>12. IsImage(worker'.staged, c)
  BY <1>8 DEF IsImage, piece
<1>13. AtWork(c, call)'
  BY <1>11 DEF AtWork
<1>14. QED
  BY <1>1, <1>2, <1>6, <1>7, <1>9, <1>10, <1>12, <1>13, DeviceStep

\* While calls are made one at a time, the device never reads bytes of an image where a plist is due.
LEMMA ReadsNonsenseNever ==
  ASSUME Quiet, ReadsNonsense
  PROVE  FALSE
BY AskedFor DEF ReadsNonsense

\* The device reading a command of the installation proxy preserves the invariant.
LEMMA ReadsCommandKept ==
  ASSUME Quiet, ReadsCommand
  PROVE  Quiet'
<1>1. PICK c, call : c = Len(commands) /\ call = commands[c]
  OBVIOUS
<1>2. /\ c \in DOMAIN commands /\ call.phase \in {"receiving", "pushing"} /\ AtWork(c, call)
      /\ call \in CommandStates /\ c \in Nat
  <2>1. ~AtRest
    BY DEF AtRest, ReadsCommand
  <2>2. QED
    BY <1>1, <2>1, NotAtRest
<1>3. worker.expects = 0 /\ service = "installation_proxy"
  BY <1>2 DEF ReadsCommand, AtWork, Asked, InProgress, Completed, ImageAnswered, ProfileAnswered, ImageOnItsWay
<1>4. Asked(c, call) /\ Tail(upstream) = <<>> /\ Head(upstream).call = c
  BY <1>1, <1>3, AskedFor DEF ReadsCommand
<1>5. /\ worker' = [worker EXCEPT !.job = c, !.sent = 0, !.rest = Apps]
      /\ upstream' = <<>> /\ UNCHANGED <<service, commands, replies, size>> /\ worker \in Workers
      /\ replies = <<>> /\ replies \in Seq(Messages)
  BY <1>4 DEF ReadsCommand, Quiet, Known, Asked
<1>6. /\ worker'.job = c /\ worker'.rest = Apps /\ worker'.expects = 0 /\ worker'.staged = worker.staged
      /\ worker'.done = worker.done /\ worker'.mounted = worker.mounted /\ worker' \in Workers
  BY <1>2, <1>3, <1>5 DEF Workers
<1>7. Lists(call.took) = {} /\ Lists(replies) = {}
  BY <1>3, <1>4, <1>5, ListsOfNone DEF Asked
<1>8. InProgress(c, call)'
  BY <1>3, <1>4, <1>5, <1>6, <1>7, ListsOfNone DEF InProgress, Asked
<1>9. AtWork(c, call)'
  BY <1>8 DEF AtWork
<1>10. upstream' \in Seq(Written)
  BY <1>5
<1>11. QED
  BY <1>1, <1>2, <1>5, <1>6, <1>9, <1>10, DeviceStep


\* The device works on the command of the last call.
LEMMA WorkingFor ==
  ASSUME Quiet, service = "installation_proxy", worker.job # None
  PROVE  LET c == Len(commands)
         IN  /\ c \in DOMAIN commands /\ worker.job = c /\ InProgress(c, commands[c])
             /\ commands[c] \in CommandStates /\ c \in Nat /\ commands[c].op \in {"Install", "Browse", "Lookup"}
<1> DEFINE c == Len(commands)
<1> DEFINE call == commands[c]
<1>1. c \in DOMAIN commands /\ AtWork(c, call) /\ call \in CommandStates /\ c \in Nat
  <2>1. ~AtRest
    BY DEF AtRest
  <2>2. QED
    BY <2>1, NotAtRest
<1>2. call.op \in Offers[service] /\ call.op \in Ops
  BY <1>1 DEF Quiet, Known, CommandStates
<1> HIDE DEF call, c
<1>3. InProgress(c, call)
  BY <1>1 DEF AtWork, Asked, Completed, ImageAnswered, ProfileAnswered, ImageOnItsWay
<1>4. call.op \in {"Install", "Browse", "Lookup"}
  BY <1>2, Tables
<1>5. QED
  BY <1>1, <1>3, <1>4 DEF InProgress, call, c

\* A progress report preserves the invariant.
LEMMA ProgressKept ==
  ASSUME Quiet, NEW list, Progress(list)
  PROVE  Quiet'
<1>1. PICK c, call : c = Len(commands) /\ call = commands[c]
  OBVIOUS
<1>2. /\ c \in DOMAIN commands /\ worker.job = c /\ InProgress(c, call)
      /\ call \in CommandStates /\ c \in Nat /\ call.op \in {"Install", "Browse", "Lookup"}
  BY <1>1, WorkingFor DEF Progress
<1>3. /\ list \subseteq (IF call.op = "Browse" THEN worker.rest ELSE {})
      /\ worker' = [worker EXCEPT !.sent = @ + 1, !.rest = @ \ list]
      /\ replies' = Append(replies, Message(c, call.op, "progress", list))
      /\ UNCHANGED <<service, commands, size, upstream>>
      /\ worker \in Workers /\ replies \in Seq(Messages) /\ upstream \in Seq(Written)
  BY <1>1, <1>2 DEF Progress, Answer, Quiet, Known
<1>4. list \subseteq worker.rest /\ worker.rest \subseteq Apps
  BY <1>3 DEF Workers
<1> DEFINE m == Message(c, call.op, "progress", list)
<1>5. m \in Messages /\ m.of = c /\ m.status = "progress" /\ m.list = list
  BY <1>2, <1>4, MessageTyped DEF Words, Statuses, Entries
<1>6. /\ worker'.job = c /\ worker'.rest = worker.rest \ list /\ worker'.expects = worker.expects
      /\ worker'.staged = worker.staged /\ worker'.done = worker.done /\ worker'.mounted = worker.mounted
      /\ worker' \in Workers
  <2>1. worker.sent + 1 \in Nat /\ worker.rest \ list \in SUBSET Apps
    BY <1>3 DEF Workers
  <2>2. QED
    BY <1>2, <1>3, <2>1 DEF Workers
<1> HIDE DEF m
<1>7. replies' = Append(replies, m)
  BY <1>3 DEF m
<1>8. replies' \in Seq(Messages) /\ Lists(replies') = Lists(replies) \cup list
  BY <1>3, <1>5, <1>7, ListsOfAppend
<1>9. \A i \in DOMAIN replies' : replies'[i].of = c /\ replies'[i].status = "progress"
  <2>1. \A i \in DOMAIN replies : replies[i].of = c /\ replies[i].status = "progress"
    BY <1>2 DEF InProgress
  <2>2. QED
    BY <1>3, <1>5, <1>7, <2>1
<1>10. call.op = "Browse" => Lists(call.took) \cup Lists(replies') \cup worker'.rest = Apps
  BY <1>2, <1>4, <1>6, <1>8 DEF InProgress
<1>11. InProgress(c, call)'
  <2>1. call.op = "Browse" => (Lists(call.took) \cup Lists(replies) \cup worker.rest = Apps)'
    BY <1>10 DEF Lists
  <2>2. QED
    BY <1>2, <1>3, <1>6, <1>9, <2>1 DEF InProgress
<1>12. AtWork(c, call)'
  BY <1>11 DEF AtWork
<1>13. call.phase = "receiving"
  BY <1>2 DEF InProgress
<1>14. QED
  BY <1>1, <1>2, <1>3, <1>6, <1>8, <1>12, <1>13, DeviceStep

\* The last message about a command, a good one or not.
LEMMA LastMessageKept ==
  ASSUME Quiet, service = "installation_proxy", worker.job # None,
         NEW status \in {"Complete", "Error"}, NEW about \in Words, NEW list \in SUBSET Apps,
         status = "Complete" /\ commands[worker.job].op = "Browse" => list = worker.rest,
         UNCHANGED <<service, commands, size, upstream>>,
         worker' = [worker EXCEPT !.job = None, !.done = IF status = "Complete" THEN @ \cup {worker.job} ELSE @],
         replies' = Append(replies, Message(worker.job, about, status, list))
  PROVE  Quiet'
<1>1. PICK c, call : c = Len(commands) /\ call = commands[c]
  OBVIOUS
<1>2. /\ c \in DOMAIN commands /\ worker.job = c /\ InProgress(c, call)
      /\ call \in CommandStates /\ c \in Nat /\ call.op \in {"Install", "Browse", "Lookup"}
  BY <1>1, WorkingFor
<1> DEFINE m == Message(c, about, status, list)
<1>3. m \in Messages /\ m.of = c /\ m.status = status /\ m.list = list
  BY <1>2, MessageTyped DEF Statuses, Entries
<1> HIDE DEF m
<1>4. /\ replies' = Append(replies, m) /\ replies \in Seq(Messages) /\ worker \in Workers /\ upstream \in Seq(Written)
  BY <1>1, <1>2 DEF m, Quiet, Known
<1>5. replies' \in Seq(Messages) /\ Lists(replies') = Lists(replies) \cup list /\ replies' # <<>>
  BY <1>3, <1>4, ListsOfAppend
<1>6. /\ worker'.job = None /\ worker'.expects = worker.expects
      /\ worker'.staged = worker.staged /\ worker.done \subseteq worker'.done /\ worker'.mounted = worker.mounted
      /\ status = "Complete" => c \in worker'.done
      /\ worker' \in Workers
  BY <1>2, <1>4 DEF Workers, None
<1>7. status = "Complete" => (call.op = "Browse" => Lists(call.took) \cup Lists(replies') = Apps)
  BY <1>1, <1>2, <1>5 DEF InProgress
<1>8. ASSUME NEW i \in DOMAIN replies'
      PROVE  /\ replies'[i].of = c
             /\ i < Len(replies') => replies'[i].status = "progress"
             /\ i = Len(replies') => replies'[i].status = status
  <2>1. \A j \in DOMAIN replies : replies[j].of = c /\ replies[j].status = "progress"
    BY <1>2 DEF InProgress
  <2>2. /\ Len(replies') = Len(replies) + 1 /\ Len(replies) \in Nat /\ DOMAIN replies = 1 .. Len(replies)
        /\ DOMAIN replies' = 1 .. Len(replies) + 1
        /\ replies'[Len(replies) + 1] = m /\ \A j \in 1 .. Len(replies) : replies'[j] = replies[j]
    BY <1>3, <1>4
  <2>3. CASE i = Len(replies) + 1
    BY <1>3, <2>2, <2>3
  <2>4. CASE i # Len(replies) + 1
    BY <2>1, <2>2, <2>4
  <2>5. QED
    BY <2>3, <2>4
<1>9. Completed(c, call)'
  <2>1. status = "Complete" => (call.op = "Browse" => (Lists(call.took) \cup Lists(replies) = Apps)')
    BY <1>7 DEF Lists
  <2>2. \A i \in DOMAIN replies' :
          /\ replies'[i].of = c
          /\ i < Len(replies') => replies'[i].status = "progress"
          /\ i = Len(replies') => replies'[i].status \in {"Complete", "Error"}
          /\ replies'[i].status = "Complete" => c \in worker'.done /\ status = "Complete"
    <3>1. \A i \in DOMAIN replies' : i < Len(replies') \/ i = Len(replies')
      BY <1>5
    <3>2. QED
      BY <1>6, <1>8, <3>1
  <2>3. call.phase = "receiving" /\ service' = "installation_proxy" /\ upstream' = <<>> /\ worker'.expects = 0
        /\ worker'.job = None /\ replies' # <<>>
    BY <1>2, <1>5, <1>6 DEF InProgress
  <2>4. QED
    BY <2>1, <2>2, <2>3 DEF Completed
<1>10. AtWork(c, call)'
  BY <1>9 DEF AtWork
<1>11. call.phase = "receiving"
  BY <1>2 DEF InProgress
<1>12. upstream' \in Seq(Written)
  BY <1>4
<1>13. QED
  BY <1>1, <1>2, <1>5, <1>6, <1>10, <1>11, <1>12, DeviceStep

\* The device completing a command preserves the invariant.
LEMMA CompletesKept ==
  ASSUME Quiet, Completes
  PROVE  Quiet'
<1>1. /\ service = "installation_proxy" /\ worker.job # None /\ worker \in Workers
      /\ commands[worker.job].op \in {"Install", "Browse", "Lookup"}
  <2>1. service = "installation_proxy" /\ worker.job # None
    BY DEF Completes
  <2>2. QED
    BY <2>1, WorkingFor DEF Quiet, Known
<1> DEFINE op == commands[worker.job].op
<1> DEFINE Final(about, list) == Message(worker.job, about, "Complete", list)
<1> DEFINE last == CASE op = "Install" -> {Final(op, {})}
                     [] op = "Browse" -> {Final(op, worker.rest)}
                     [] op = "Lookup" -> {Final(op, {})} \cup {Final("LookupResult", list) : list \in SUBSET Apps}
<1>2. PICK m \in last : replies' = Append(replies, m)
  BY Zenon DEF Completes, Answer
<1>3. \E about \in Words, list \in SUBSET Apps : m = Final(about, list) /\ (op = "Browse" => list = worker.rest)
  <2>0. op \in Words /\ "LookupResult" \in Words /\ {} \in SUBSET Apps /\ worker.rest \in SUBSET Apps
    BY <1>1 DEF Words, Workers
  <2> HIDE DEF Final
  <2>1. CASE op = "Install"
    <3>1. last = {Final(op, {})}
      BY <2>1, Zenon
    <3> HIDE DEF last
    <3>2. m = Final(op, {}) /\ op # "Browse"
      BY <1>2, <2>1, <3>1
    <3>3. QED
      BY <2>0, <3>2
  <2>2. CASE op = "Browse"
    <3>1. last = {Final(op, worker.rest)}
      BY <2>2, Zenon
    <3> HIDE DEF last
    <3>2. m = Final(op, worker.rest)
      BY <1>2, <3>1
    <3>3. QED
      BY <2>0, <3>2
  <2>3. CASE op = "Lookup"
    <3>1. last = {Final(op, {})} \cup {Final("LookupResult", list) : list \in SUBSET Apps}
      BY <2>3, Zenon
    <3> HIDE DEF last
    <3>2. m = Final(op, {}) \/ \E list \in SUBSET Apps : m = Final("LookupResult", list)
      BY <1>2, <3>1
    <3>3. op # "Browse"
      BY <2>3
    <3>4. QED
      BY <2>0, <3>2, <3>3
  <2>4. QED
    BY <1>1, <2>1, <2>2, <2>3
<1> HIDE DEF last
<1>4. /\ UNCHANGED <<service, commands, size, upstream>>
      /\ worker' = [worker EXCEPT !.job = None, !.done = @ \cup {worker.job}]
  BY Zenon DEF Completes
<1>5. PICK about \in Words, list \in SUBSET Apps : m = Final(about, list) /\ (op = "Browse" => list = worker.rest)
  BY <1>3
<1>6. QED
  BY <1>1, <1>2, <1>4, <1>5, LastMessageKept

\* The device refusing a command preserves the invariant.
LEMMA RefusesKept ==
  ASSUME Quiet, Refuses
  PROVE  Quiet'
<1>1. /\ service = "installation_proxy" /\ worker.job # None
      /\ worker' = [worker EXCEPT !.job = None]
      /\ replies' = Append(replies, Message(worker.job, commands[worker.job].op, "Error", {}))
      /\ UNCHANGED <<service, commands, size, upstream>>
  BY DEF Refuses, Answer
<1>2. worker' = [worker EXCEPT !.job = None, !.done = IF "Error" = "Complete" THEN @ \cup {worker.job} ELSE @]
  BY <1>1 DEF Quiet, Known, Workers
<1>3. {} \in SUBSET Apps
  OBVIOUS
<1> DEFINE status == "Error"
<1>4. status \in {"Complete", "Error"} /\ status # "Complete" /\ commands[worker.job].op \in Words
  BY <1>1, WorkingFor DEF Words
<1>5. worker' = [worker EXCEPT !.job = None, !.done = IF status = "Complete" THEN @ \cup {worker.job} ELSE @]
  BY <1>2
<1>6. replies' = Append(replies, Message(worker.job, commands[worker.job].op, status, {}))
  BY <1>1
<1> HIDE DEF status
<1>7. QED
  BY <1>1, <1>3, <1>4, <1>5, <1>6, LastMessageKept


\* What the image mounter answers a request.
LEMMA ImageStatus ==
  ASSUME NEW request, NEW agrees \in BOOLEAN, NEW mounts \in BOOLEAN, NEW mounted, NEW status,
         mounts => agrees /\ request = "MountImage" /\ mounted = {},
         status = CASE agrees /\ request = "LookupImage" -> "ok"
                    [] agrees /\ request = "ReceiveBytes" -> "ReceiveBytesAck"
                    [] agrees /\ request = "MountImage" /\ mounted # {} -> "alreadyMounted"
                    [] mounts -> "ok"
                    [] OTHER -> "Error"
  PROVE  /\ status \in Statuses
         /\ request = "LookupImage" /\ status # "Error" => agrees
         /\ status = "ReceiveBytesAck" => request = "ReceiveBytes"
         /\ request = "MountImage" /\ status # "Error" => mounted # {} \/ mounts
<1>1. CASE agrees /\ request = "LookupImage"
  <2>1. status = "ok"
    BY <1>1, Zenon
  <2>2. QED
    BY <1>1, <2>1 DEF Statuses
<1>2. CASE agrees /\ request = "ReceiveBytes"
  <2>1. status = "ReceiveBytesAck"
    BY <1>2, Zenon
  <2>2. QED
    BY <1>2, <2>1 DEF Statuses
<1>3. CASE agrees /\ request = "MountImage" /\ mounted # {}
  <2>1. request # "LookupImage" /\ request # "ReceiveBytes" /\ ~mounts
    BY <1>3
  <2>2. status = "alreadyMounted"
    BY <1>3, <2>1, Zenon
  <2>3. QED
    BY <1>3, <2>2 DEF Statuses
<1>4. CASE mounts
  <2>1. request = "MountImage" /\ request # "LookupImage" /\ request # "ReceiveBytes" /\ mounted = {}
    BY <1>4
  <2>2. status = "ok"
    BY <1>4, <2>1, Zenon
  <2>3. QED
    BY <1>4, <2>1, <2>2 DEF Statuses
<1>5. CASE /\ ~(agrees /\ request = "LookupImage")
           /\ ~(agrees /\ request = "ReceiveBytes")
           /\ ~(agrees /\ request = "MountImage" /\ mounted # {})
           /\ ~mounts
  <2>1. status = "Error"
    BY <1>5, Zenon
  <2>2. QED
    BY <2>1 DEF Statuses
<1>6. QED
  BY <1>1, <1>2, <1>3, <1>4, <1>5

\* The device reading a request of the image mounter preserves the invariant.
LEMMA ReadsImageRequestKept ==
  ASSUME Quiet, NEW agrees \in BOOLEAN, ReadsImageRequest(agrees)
  PROVE  Quiet'
<1>1. PICK c, call : c = Len(commands) /\ call = commands[c]
  OBVIOUS
<1>2. /\ upstream # <<>> /\ service = "image_mounter" /\ worker.expects = 0
      /\ upstream \in Seq(Written) /\ worker \in Workers
  BY DEF ReadsImageRequest, Quiet, Known
<1>3. /\ c \in DOMAIN commands /\ call \in CommandStates /\ c \in Nat /\ call.phase = "receiving"
  <2>1. ~AtRest
    BY <1>2 DEF AtRest
  <2>2. Asked(c, call)
    BY <1>1, <1>2, AskedFor
  <2>3. QED
    BY <1>1, <2>1, <2>2, NotAtRest DEF Asked
<1> DEFINE request == Head(upstream).request
<1>4. /\ Asked(c, call) /\ Tail(upstream) = <<>> /\ Head(upstream).call = c
      /\ request = Requests[call.op][call.step]
  BY <1>1, <1>2, AskedFor
<1>5. call.op \in {"lookup", "mount"}
  BY <1>1, <1>2, <1>3, Tables DEF Quiet, Known
<1>6. /\ request \in Words
      /\ request = "ReceiveBytes" => call.step = 2
      /\ call.step = 1 => request = "LookupImage"
      /\ request = "MountImage" => call.step = 4
      /\ call.step = 4 => request = "MountImage"
  <2>1. call.step \in 1 .. Len(Requests[call.op]) /\ call.op \in Ops
    BY <1>3, <1>4 DEF Asked, CommandStates
  <2>2. request \in Words
    BY <1>4, <2>1, RequestsOfOps
  <2>3. CASE call.op = "lookup"
    <3>1. Requests[call.op] = <<"LookupImage">>
      BY <2>3, Tables
    <3>2. call.step = 1
      BY <2>1, <3>1
    <3>3. request = "LookupImage"
      BY <1>4, <3>1, <3>2
    <3>4. QED
      BY <2>2, <3>2, <3>3
  <2>4. CASE call.op = "mount"
    <3> DEFINE r == Requests[call.op]
    <3>1. r = <<"LookupImage", "ReceiveBytes", "image", "MountImage">>
      BY <2>4, Tables
    <3>2. call.step \in 1 .. Len(r) /\ request = r[call.step]
      BY <1>4, <2>1
    <3> HIDE DEF r, request
    <3>3. Len(r) = 4 /\ r[1] = "LookupImage" /\ r[2] = "ReceiveBytes" /\ r[3] = "image" /\ r[4] = "MountImage"
      BY <3>1
    <3>4. call.step = 1 \/ call.step = 2 \/ call.step = 3 \/ call.step = 4
      BY <3>2, <3>3
    <3>5. QED
      BY <2>2, <3>2, <3>3, <3>4
  <2>5. QED
    BY <1>5, <2>3, <2>4
<1> DEFINE mounts == agrees /\ request = "MountImage" /\ worker.mounted = {} /\ IsImage(worker.staged, c)
<1>7. mounts \in BOOLEAN /\ (mounts => agrees /\ request = "MountImage" /\ worker.mounted = {})
  OBVIOUS
<1> DEFINE status == CASE agrees /\ request = "LookupImage" -> "ok"
                       [] agrees /\ request = "ReceiveBytes" -> "ReceiveBytesAck"
                       [] agrees /\ request = "MountImage" /\ worker.mounted # {} -> "alreadyMounted"
                       [] mounts -> "ok"
                       [] OTHER -> "Error"
<1> DEFINE list == IF agrees /\ request = "LookupImage" THEN worker.mounted ELSE {}
<1> HIDE DEF request, mounts
<1>8. /\ status \in Statuses
      /\ request = "LookupImage" /\ status # "Error" => agrees
      /\ status = "ReceiveBytesAck" => request = "ReceiveBytes"
      /\ request = "MountImage" /\ status # "Error" => worker.mounted # {} \/ mounts
  BY <1>7, ImageStatus
<1>9. /\ upstream' = Tail(upstream)
      /\ worker' = [worker EXCEPT
           !.job = IF status = "ReceiveBytesAck" THEN c ELSE @,
           !.expects = IF status = "ReceiveBytesAck" THEN commands[c].announced ELSE 0,
           !.staged = IF status = "ReceiveBytesAck" THEN <<>> ELSE @,
           !.mounted = IF mounts THEN {commands[c].image} ELSE @]
      /\ replies' = Append(replies, Message(c, request, status, list))
      /\ UNCHANGED <<service, commands, size>>
  BY <1>4, Zenon DEF ReadsImageRequest, Answer, mounts, request
<1> HIDE DEF status
<1>10. /\ worker' \in Workers /\ worker'.done = worker.done
       /\ worker'.mounted = IF mounts THEN {call.image} ELSE worker.mounted
       /\ IF status = "ReceiveBytesAck"
          THEN worker'.expects = call.announced /\ worker'.staged = <<>> /\ worker'.job = c
          ELSE worker'.expects = 0 /\ worker'.staged = worker.staged
  <2>1. <<>> \in Seq(Written) /\ call.announced \in Nat /\ call.image \in Named
    BY <1>3 DEF CommandStates
  <2>2. QED
    BY <1>1, <1>2, <1>3, <1>9, <2>1 DEF Workers
<1>0. list \in SUBSET Entries
  BY <1>2 DEF Workers, Entries
<1>a. request = "LookupImage" /\ status # "Error" => list = worker.mounted
  BY <1>8
<1> HIDE DEF list
<1> DEFINE m == Message(c, request, status, list)
<1>11. m \in Messages /\ m.of = c /\ m.status = status /\ m.list = list
  BY <1>0, <1>3, <1>6, <1>8, MessageTyped
<1>12. replies' = Append(<<>>, m)
  BY <1>4, <1>9 DEF Asked
<1> HIDE DEF m
<1>13. /\ replies' \in Seq(Messages) /\ Len(replies') = 1
       /\ replies'[1].of = c /\ replies'[1].status = status /\ replies'[1].list = list
  BY <1>11, <1>12
<1>14. upstream' = <<>> /\ upstream' \in Seq(Written)
  <2>1. upstream' = <<>>
    BY <1>4, <1>9
  <2>2. <<>> \in Seq(Written)
    OBVIOUS
  <2>3. QED
    BY <2>1, <2>2
<1>15. ImageAnswered(c, call)'
  <2>0. Looked(call, worker.mounted)
    BY <1>4 DEF Asked
  <2>1. call.step < 4 => Looked(call, worker'.mounted)
    <3>1. call.step < 4 => ~mounts
      BY <1>6, <1>7
    <3>2. QED
      BY <1>10, <2>0, <3>1
  <2>2. call.step = 1 /\ replies'[1].status # "Error" => replies'[1].list = worker'.mounted
    BY <1>a, <1>6, <1>7, <1>10, <1>13
  <2>3. call.step = 4 => call.took # <<>>
    BY <1>5, <2>0 DEF Looked
  <2>4. call.step = 4 /\ replies'[1].status # "Error" => HasMounted(call, worker'.mounted)
    BY <1>5, <1>6, <1>7, <1>8, <1>10, <1>13, <2>0 DEF Looked, HasMounted
  <2>5. IF call.step = 2 /\ replies'[1].status = "ReceiveBytesAck"
        THEN worker'.expects = call.announced /\ worker'.staged = <<>> /\ worker'.job = c
        ELSE worker'.expects = 0
    BY <1>6, <1>8, <1>10, <1>13
  <2>6. service' = "image_mounter"
    BY <1>2, <1>9
  <2>7. QED
    BY <1>3, <1>4, <1>13, <1>14, <2>1, <2>2, <2>3, <2>4, <2>5, <2>6 DEF ImageAnswered, Asked
<1>16. AtWork(c, call)'
  BY <1>15 DEF AtWork
<1>17. worker'.staged # <<>> => worker'.staged = worker.staged
  BY <1>10
<1>18. worker.mounted \in {{}, worker'.mounted}
  BY <1>7, <1>10
<1>19. UNCHANGED <<service, commands, size>>
  BY <1>9
<1>20. QED
  BY <1>1, <1>3, <1>10, <1>13, <1>14, <1>16, <1>17, <1>18, <1>19, DeviceStep

\* The device reading a request about profiles preserves the invariant.
LEMMA ReadsProfileRequestKept ==
  ASSUME Quiet, NEW agrees \in BOOLEAN, ReadsProfileRequest(agrees)
  PROVE  Quiet'
<1>1. PICK c, call : c = Len(commands) /\ call = commands[c]
  OBVIOUS
<1>2. upstream # <<>> /\ service = "mc_install" /\ upstream \in Seq(Written) /\ worker \in Workers
  BY DEF ReadsProfileRequest, Quiet, Known
<1>3. /\ c \in DOMAIN commands /\ call \in CommandStates /\ c \in Nat /\ AtWork(c, call)
  <2>1. ~AtRest
    BY <1>2 DEF AtRest
  <2>2. QED
    BY <1>1, <2>1, NotAtRest
<1>4. worker.expects = 0
  BY <1>2, <1>3 DEF AtWork, Asked, InProgress, Completed, ImageAnswered, ImageOnItsWay, ProfileAnswered
<1> DEFINE request == Head(upstream).request
<1>5. /\ Asked(c, call) /\ Tail(upstream) = <<>> /\ Head(upstream).call = c
      /\ request = Requests[call.op][call.step]
  BY <1>1, <1>2, <1>4, AskedFor
<1>6. request \in Words
  <2>1. call.step \in 1 .. Len(Requests[call.op]) /\ call.op \in Ops
    BY <1>3, <1>5 DEF Asked, CommandStates
  <2>2. QED
    BY <1>5, <2>1, RequestsOfOps
<1> DEFINE last == Requests[call.op][Len(Requests[call.op])]
<1> DEFINE status == IF agrees THEN "Acknowledged" ELSE "Error"
<1> DEFINE list == IF request = "GetProfileList" /\ worker.profile THEN {"profile"} ELSE {}
<1>7. /\ upstream' = Tail(upstream)
      /\ worker' = [worker EXCEPT
           !.profile = IF agrees /\ request # "GetProfileList" THEN request = "InstallProfile" ELSE @,
           !.done = IF agrees /\ request = last THEN @ \cup {c} ELSE @]
      /\ replies' = Append(replies, Message(c, request, status, list))
      /\ UNCHANGED <<service, commands, size>>
  BY <1>1, <1>5 DEF ReadsProfileRequest, Answer
<1>8. call.step = Len(Requests[call.op]) => request = last
  BY <1>5
<1> HIDE DEF request, last
<1>9. /\ worker' \in Workers /\ worker.done \subseteq worker'.done /\ worker'.mounted = worker.mounted
      /\ worker'.expects = 0 /\ worker'.staged = worker.staged
      /\ agrees /\ request = last => c \in worker'.done
  <2>1. (request = "InstallProfile") \in BOOLEAN /\ worker.done \cup {c} \in SUBSET Nat
    BY <1>2, <1>3 DEF Workers
  <2>2. QED
    BY <1>2, <1>4, <1>7, <2>1 DEF Workers
<1>10. status \in Statuses /\ list \in SUBSET Entries /\ (status = "Acknowledged" => agrees)
  BY DEF Statuses, Entries
<1> HIDE DEF status, list
<1> DEFINE m == Message(c, request, status, list)
<1>11. m \in Messages /\ m.of = c /\ m.status = status
  BY <1>3, <1>6, <1>10, MessageTyped
<1>12. replies' = Append(<<>>, m)
  BY <1>5, <1>7 DEF Asked
<1> HIDE DEF m
<1>13. replies' \in Seq(Messages) /\ Len(replies') = 1 /\ replies'[1].of = c /\ replies'[1].status = status
  BY <1>11, <1>12
<1>14. upstream' = <<>> /\ upstream' \in Seq(Written)
  <2>1. upstream' = <<>>
    BY <1>5, <1>7
  <2>2. <<>> \in Seq(Written)
    OBVIOUS
  <2>3. QED
    BY <2>1, <2>2
<1>15. ProfileAnswered(c, call)'
  <2>1. replies'[1].status = "Acknowledged" /\ call.step = Len(Requests[call.op]) => c \in worker'.done
    BY <1>8, <1>9, <1>10, <1>13
  <2>2. /\ call.phase = "receiving" /\ service' = "mc_install" /\ call.step \in 1 .. Len(Requests[call.op])
        /\ call.step < 3 => call.pushed = 0
    BY <1>2, <1>5, <1>7 DEF Asked
  <2>3. QED
    BY <1>9, <1>13, <1>14, <2>1, <2>2 DEF ProfileAnswered
<1>16. AtWork(c, call)'
  BY <1>15 DEF AtWork
<1>17. call.phase = "receiving" /\ UNCHANGED <<service, commands, size>>
  BY <1>5, <1>7 DEF Asked
<1>18. QED
  BY <1>1, <1>3, <1>9, <1>13, <1>14, <1>16, <1>17, DeviceStep


---------------------------------------------------------------------------
(* The steps of the client.                                                *)

\* A call that disturbs no other preserves the invariant.
LEMMA CallKept ==
  ASSUME Quiet, NEW op \in DOMAIN Requests, Call(op), ~disturbed'
  PROVE  Quiet'
<1> DEFINE c == Len(commands) + 1
<1>0. PICK image \in Named : commands' = Append(commands, [op |-> op, image |-> image, step |-> 1,
                 phase |-> "receiving", took |-> <<>>, announced |-> size, pushed |-> 0])
  BY DEF Call, Named
<1> DEFINE call == [op |-> op, image |-> image, step |-> 1, phase |-> "receiving", took |-> <<>>,
                    announced |-> size, pushed |-> 0]
<1>1. /\ commands \in Seq(CommandStates) /\ upstream \in Seq(Written) /\ replies \in Seq(Messages) /\ size \in Nat \ {0}
      /\ worker \in Workers /\ Len(commands) \in Nat /\ op \in Ops
  BY Tables DEF Quiet, Known
<1>2. /\ c \in Calls /\ op \in Offers[service]
      /\ commands' = Append(commands, call)
      /\ upstream' = Append(upstream, Plist(c, Requests[op][1]))
      /\ Active = {} /\ UNCHANGED <<service, replies, size, worker>>
  BY <1>0 DEF Call
<1>3. call \in CommandStates /\ call.op = op /\ call.step = 1 /\ call.phase = "receiving" /\ call.took = <<>> /\ call.pushed = 0
  <2>1. <<>> \in Seq(Messages)
    OBVIOUS
  <2>2. QED
    BY <1>1, <2>1 DEF CommandStates, Phases
<1> HIDE DEF call
<1>4. AtRest
  BY <1>2 DEF Quiet, Course
<1>5. /\ commands' \in Seq(CommandStates) /\ Len(commands') = c /\ DOMAIN commands' = 1 .. c /\ DOMAIN commands = 1 .. Len(commands)
      /\ commands'[c] = call /\ \A d \in DOMAIN commands : commands'[d] = commands[d]
  BY <1>1, <1>2, <1>3
<1>6. c \in Nat /\ c <= MaxCalls
  <2>1. c \in 1 .. MaxCalls
    BY <1>2 DEF Calls
  <2>2. c \in Nat
    BY <1>1
  <2>3. QED
    BY <1>1, <2>1, <2>2
<1> HIDE DEF c
<1>7. /\ 1 \in 1 .. Len(Requests[op]) /\ Requests[op][1] \in Words
  BY <1>1, RequestsOfOps
<1>8. upstream' = <<Plist(c, Requests[op][1])>> /\ upstream' \in Seq(Written)
  <2>1. Plist(c, Requests[op][1]) \in Written
    BY <1>6, <1>7 DEF Plist, Written
  <2>2. upstream = <<>>
    BY <1>4 DEF AtRest
  <2>3. QED
    BY <1>2, <2>1, <2>2
<1>9. \A d \in DOMAIN commands : d \in DOMAIN commands' /\ d # c /\ d < c
  BY <1>1, <1>5 DEF c
<1>10. \A d \in DOMAIN commands' : d = c \/ d \in DOMAIN commands
  BY <1>1, <1>5 DEF c
<1>11. Known'
  <2>1. \A d \in DOMAIN commands' : commands'[d].op \in Offers[service]
    BY <1>2, <1>3, <1>5, <1>10 DEF Quiet, Known
  <2>2. service' = service /\ replies' = replies /\ size' = size /\ worker' = worker /\ Len(commands') <= MaxCalls
    BY <1>2, <1>5, <1>6
  <2>3. QED
    BY <1>1, <1>5, <1>8, <2>1, <2>2 DEF Quiet, Known
<1>12. Kept'
  <2>1. ASSUME NEW d \in DOMAIN commands'
        PROVE  /\ d < Len(commands') => commands'[d].phase \notin {"receiving", "pushing"}
               /\ \A i \in DOMAIN commands'[d].took : commands'[d].took[i].of = d
               /\ commands'[d].phase = "returned" => Done(d, commands[d])'
    <3>1. CASE d = c
      BY <1>3, <1>5, <1>6, <3>1
    <3>2. CASE d # c
      <4>1. d \in DOMAIN commands /\ commands'[d] = commands[d]
        BY <1>5, <1>10, <3>2
      <4>2. commands[d].phase \notin {"receiving", "pushing"}
        BY <1>2, <4>1 DEF Active
      <4>3. \A i \in DOMAIN commands[d].took : commands[d].took[i].of = d
        BY <4>1 DEF Quiet, Kept
      <4>4. commands[d].phase = "returned" => Done(d, commands[d])
        BY <4>1 DEF Quiet, Kept
      <4>5. commands[d].phase = "returned" => Done(d, commands[d])'
        BY <1>2, <4>1, <4>4 DEF Done
      <4>6. QED
        BY <4>1, <4>2, <4>3, <4>5
    <3>3. QED
      BY <3>1, <3>2
  <2>2. QED
    BY <2>1 DEF Kept
<1>13. Staged'
  BY <1>2, <1>9 DEF Quiet, Staged
<1>14. PICK d, new : d = c /\ new = call
  OBVIOUS
<1>15. Asked(d, new)'
  BY <1>2, <1>3, <1>4, <1>7, <1>8, <1>14 DEF Asked, AtRest, Looked
<1>16. AtWork(d, new)'
  BY <1>15 DEF AtWork
<1>17. Course'
  <2>1. c \in 1 .. c
    BY <1>1 DEF c
  <2>2. d = Len(commands') /\ new = commands'[d] /\ d \in DOMAIN commands' /\ new.phase \in {"receiving", "pushing"}
    BY <1>3, <1>5, <1>14, <2>1
  <2>3. QED
    BY <1>16, <2>2, AtWorkThen
<1>18. QED
  BY <1>11, <1>12, <1>13, <1>17 DEF Quiet

\* The last call takes the message m, and goes on as next.
Takes(c, call, m, taken, next) ==
  /\ c = Len(commands) /\ c \in DOMAIN commands /\ c \in Nat
  /\ call = commands[c] /\ call \in CommandStates /\ call.phase = "receiving" /\ AtWork(c, call)
  /\ call.op \in Offers[service]
  /\ replies # <<>> /\ m = Head(replies) /\ m \in Messages
  /\ taken \in CommandStates /\ taken.took = Append(call.took, m)
  /\ taken.op = call.op /\ taken.step = call.step /\ taken.phase = "receiving"
  /\ taken.image = call.image /\ taken.announced = call.announced /\ taken.pushed = call.pushed
  /\ next = After(taken, m)
  /\ replies' = Tail(replies) /\ replies' \in Seq(Messages)
  /\ commands' = [commands EXCEPT ![c] = next]
  /\ upstream' = IF next.step # call.step THEN Append(upstream, Plist(c, Requests[next.op][next.step])) ELSE upstream
  /\ UNCHANGED <<service, size, worker>>

\* A poll that finds a reply is that of the last call, which takes the head of the queue.
LEMMA PollTakes ==
  ASSUME Quiet, NEW c \in DOMAIN commands, PollReplies(c)
  PROVE  \E call, m, taken, next : Takes(c, call, m, taken, next)
<1>1. PICK call : call = commands[c]
  OBVIOUS
<1>2. c = Len(commands) /\ AtWork(c, call) /\ call \in CommandStates /\ call.phase = "receiving" /\ c \in Nat
      /\ call.op \in Offers[service]
  <2>1. commands[c].phase = "receiving"
    BY DEF PollReplies
  <2>2. commands \in Seq(CommandStates) /\ commands[c].op \in Offers[service]
    BY DEF Quiet, Known
  <2>3. QED
    BY <1>1, <2>1, <2>2, AtWorkIsLast
<1>3. PICK m : m = Head(replies)
  OBVIOUS
<1>4. replies # <<>> /\ m \in Messages /\ replies' = Tail(replies) /\ replies' \in Seq(Messages)
  <2>1. replies # <<>> /\ replies' = Tail(replies) /\ replies \in Seq(Messages)
    BY DEF PollReplies, Quiet, Known
  <2>2. Head(replies) \in Messages /\ Tail(replies) \in Seq(Messages)
    BY <2>1
  <2>3. QED
    BY <1>3, <2>1, <2>2
<1>5. PICK taken : taken = [call EXCEPT !.took = Append(@, m)]
  OBVIOUS
<1>6. /\ taken \in CommandStates /\ taken.took = Append(call.took, m)
      /\ taken.op = call.op /\ taken.step = call.step /\ taken.phase = call.phase
      /\ taken.image = call.image /\ taken.announced = call.announced /\ taken.pushed = call.pushed
  <2>1. Append(call.took, m) \in Seq(Messages)
    BY <1>2, <1>4 DEF CommandStates
  <2>2. QED
    BY <1>2, <1>5, <2>1 DEF CommandStates
<1>7. PICK next : next = After(taken, m)
  OBVIOUS
<1>8. /\ commands' = [commands EXCEPT ![c] = next]
      /\ upstream' = IF next.step # call.step
                     THEN Append(upstream, Plist(c, Requests[next.op][next.step])) ELSE upstream
      /\ UNCHANGED <<service, size, worker>>
  BY <1>1, <1>3, <1>5, <1>7 DEF PollReplies
<1>9. Takes(c, call, m, taken, next)
  BY <1>1, <1>2, <1>3, <1>4, <1>6, <1>7, <1>8 DEF Takes
<1>10. QED
  BY <1>9

\* The states a step gives a call are typed, and keep what the step leaves alone.
LEMMA CallForms ==
  ASSUME NEW call \in CommandStates
  PROVE  /\ \A ended \in Phases : LET e == Ends(call, ended)
                                  IN  /\ e \in CommandStates /\ e.op = call.op /\ e.step = call.step /\ e.phase = ended
                                      /\ e.took = call.took /\ e.image = call.image /\ e.announced = call.announced /\ e.pushed = call.pushed
         /\ call.step < 4 => LET g == GoesOn(call)
                             IN  /\ g \in CommandStates /\ g.op = call.op /\ g.step = call.step + 1 /\ g.phase = call.phase
                                 /\ g.took = call.took /\ g.image = call.image /\ g.announced = call.announced /\ g.pushed = call.pushed
<1>1. ASSUME NEW ended \in Phases
      PROVE  LET e == Ends(call, ended)
             IN  /\ e \in CommandStates /\ e.op = call.op /\ e.step = call.step /\ e.phase = ended
                 /\ e.took = call.took /\ e.image = call.image /\ e.announced = call.announced /\ e.pushed = call.pushed
  BY DEF Ends, CommandStates
<1>2. ASSUME call.step < 4
      PROVE  LET g == GoesOn(call)
             IN  /\ g \in CommandStates /\ g.op = call.op /\ g.step = call.step + 1 /\ g.phase = call.phase
                 /\ g.took = call.took /\ g.image = call.image /\ g.announced = call.announced /\ g.pushed = call.pushed
  <2>1. call.step + 1 \in 1 .. 4
    BY <1>2 DEF CommandStates
  <2>2. QED
    BY <2>1 DEF GoesOn, CommandStates
<1>3. QED
  BY <1>1, <1>2

\* The message taken was about the call that took it, and where that is now is known.
LEMMA PollStep ==
  ASSUME Quiet, NEW c, NEW call, NEW m, NEW taken, NEW next, Takes(c, call, m, taken, next),
         m.of = c, next \in CommandStates, next.op = call.op, next.took = taken.took,
         next.phase = "returned" => Done(c, next), upstream' \in Seq(Written),
         \/ next.phase \in {"receiving", "pushing"} /\ AtWork(c, next)'
         \/ next.phase \notin {"receiving", "pushing"} /\ AtRest'
  PROVE  Quiet'
<1>1. \A i \in DOMAIN next.took : next.took[i].of = c
  <2>1. \A i \in DOMAIN call.took : call.took[i].of = c
    BY DEF Quiet, Kept, Takes
  <2>2. call.took \in Seq(Messages) /\ m \in Messages /\ next.took = Append(call.took, m)
    BY DEF Takes, CommandStates
  <2>3. QED
    BY <2>1, <2>2
<1>2. /\ c = Len(commands) /\ c \in DOMAIN commands /\ commands' = [commands EXCEPT ![c] = next] /\ worker' = worker
      /\ next.op = commands[c].op /\ UNCHANGED <<service, size, worker>> /\ replies' \in Seq(Messages)
  BY DEF Takes
<1>3. /\ Kept'
      /\ commands' \in Seq(CommandStates) /\ Len(commands') = Len(commands) /\ DOMAIN commands' = DOMAIN commands
      /\ \A d \in DOMAIN commands' : commands'[d].op \in Offers[service]
      /\ commands'[c] = next
  BY <1>1, <1>2, KeptAfter
<1>4. Known'
  BY <1>2, <1>3 DEF Quiet, Known
<1>5. Staged'
  BY <1>2, <1>3 DEF Quiet, Staged
<1>6. Course'
  <2>1. c = Len(commands') /\ c \in DOMAIN commands' /\ next = commands'[c]
    BY <1>2, <1>3
  <2>2. CASE next.phase \in {"receiving", "pushing"} /\ AtWork(c, next)'
    BY <2>1, <2>2, AtWorkThen
  <2>3. CASE next.phase \notin {"receiving", "pushing"} /\ AtRest'
    BY <2>1, <2>3, AtRestThen
  <2>4. QED
    BY <2>2, <2>3
<1>7. QED
  BY <1>3, <1>4, <1>5, <1>6 DEF Quiet

\* A call has taken its last message.
LEMMA EndsKept ==
  ASSUME Quiet, NEW c, NEW call, NEW m, NEW taken, NEW next, Takes(c, call, m, taken, next),
         m.of = c, NEW ended \in {"returned", "threw"}, next = Ends(taken, ended),
         Tail(replies) = <<>>, upstream = <<>>, worker.expects = 0,
         service = "installation_proxy" => worker.job = None,
         ended = "returned" => Done(c, taken)
  PROVE  Quiet'
<1>1. ended \in Phases /\ taken \in CommandStates
  BY DEF Phases, Takes
<1>2. /\ next \in CommandStates /\ next.op = taken.op /\ next.step = taken.step /\ next.phase = ended
      /\ next.took = taken.took /\ next.image = taken.image
  BY <1>1, CallForms
<1>3. upstream' = <<>> /\ next.op = call.op
  BY <1>2 DEF Takes
<1>4. <<>> \in Seq(Written)
  OBVIOUS
<1>5. AtRest'
  BY <1>3 DEF AtRest, Takes
<1>6. next.phase = "returned" => Done(c, next)
  BY <1>2 DEF Done, HasMounted, Found
<1>7. next.phase \notin {"receiving", "pushing"} /\ upstream' \in Seq(Written)
  BY <1>2, <1>3, <1>4
<1>8. QED
  BY <1>2, <1>3, <1>5, <1>6, <1>7, PollStep

\* A call makes its next request.
LEMMA GoesOnKept ==
  ASSUME Quiet, NEW c, NEW call, NEW m, NEW taken, NEW next, Takes(c, call, m, taken, next),
         m.of = c, next = GoesOn(taken),
         Tail(replies) = <<>>, upstream = <<>>, worker.expects = 0, service # "installation_proxy",
         call.step + 1 \in 1 .. Len(Requests[call.op]), call.step + 1 # 3,
         call.step + 1 < 3 => call.pushed = 0, Looked(next, worker.mounted)
  PROVE  Quiet'
<1>1. taken \in CommandStates /\ taken.step = call.step /\ call.op \in Ops /\ call.step \in 1 .. 4 /\ c \in Nat
  BY DEF Takes, CommandStates
<1>2. Len(Requests[call.op]) \in 1 .. 4 /\ Requests[call.op][call.step + 1] \in Words
  BY <1>1, RequestsOfOps
<1>3. /\ next \in CommandStates /\ next.op = taken.op /\ next.step = call.step + 1 /\ next.phase = taken.phase
      /\ next.took = taken.took /\ next.pushed = taken.pushed
  <2>1. taken.step < 4
    BY <1>1, <1>2
  <2>2. QED
    BY <1>1, <2>1, CallForms
<1>4. next.op = call.op /\ next.phase = "receiving" /\ next.pushed = call.pushed /\ next.step # call.step
  BY <1>1, <1>3 DEF Takes
<1>5. Plist(c, Requests[next.op][next.step]) \in Written
  BY <1>1, <1>2, <1>3, <1>4 DEF Plist, Written
<1>6. upstream' = <<Plist(c, Requests[next.op][next.step])>>
  BY <1>4, <1>5 DEF Takes
<1>7. upstream' \in Seq(Written)
  BY <1>5, <1>6
<1>8. Asked(c, next)'
  BY <1>3, <1>4, <1>6 DEF Asked, Takes
<1>9. AtWork(c, next)'
  BY <1>8 DEF AtWork
<1>10. QED
  BY <1>3, <1>4, <1>7, <1>9, PollStep


\* What is left of a queue of replies after its head.
LEMMA TailOf ==
  ASSUME NEW s \in Seq(Messages), s # <<>>
  PROVE  /\ Len(Tail(s)) = Len(s) - 1 /\ Len(s) \in Nat /\ Len(s) >= 1
         /\ DOMAIN s = 1 .. Len(s) /\ DOMAIN Tail(s) = 1 .. Len(s) - 1
         /\ Head(s) = s[1] /\ \A i \in DOMAIN Tail(s) : i + 1 \in DOMAIN s /\ Tail(s)[i] = s[i + 1]
OBVIOUS

\* The only reply in the queue is its head.
LEMMA OneReply ==
  ASSUME Quiet, Len(replies) = 1
  PROVE  Tail(replies) = <<>> /\ Head(replies) = replies[1]
<1>1. replies \in Seq(Messages)
  BY DEF Quiet, Known
<1>2. replies # <<>>
  OBVIOUS
<1>3. Len(Tail(replies)) = 0 /\ Tail(replies) \in Seq(Messages) /\ Head(replies) = replies[1]
  BY <1>1, <1>2, TailOf
<1>4. QED
  BY <1>3, EmptySeq

\* A status message that is not the last one about the command.
LEMMA ProgressTaken ==
  ASSUME Quiet, NEW c, NEW call, NEW m, NEW taken, NEW next, Takes(c, call, m, taken, next),
         service = "installation_proxy", m.status = "progress", m.of = c, upstream \in Seq(Written),
         AtWork(c, taken)'
  PROVE  Quiet'
<1>1. After(taken, m) = AfterStatus(taken, m)
  BY Zenon DEF After
<1>2. next = taken
  BY <1>1 DEF AfterStatus, Throws, IsFinished, Takes
<1>3. upstream' = upstream
  BY <1>2 DEF Takes
<1>4. AtWork(c, next)'
  BY <1>2
<1>5. taken \in CommandStates /\ taken.op = call.op /\ taken.phase = "receiving"
  BY DEF Takes
<1>6. QED
  BY <1>2, <1>3, <1>4, <1>5, PollStep

\* A status message about the command that is under way, or the last one.
LEMMA StatusTaken ==
  ASSUME Quiet, NEW c, NEW call, NEW m, NEW taken, NEW next, Takes(c, call, m, taken, next),
         InProgress(c, call) \/ Completed(c, call)
  PROVE  Quiet'
<1>1. /\ replies \in Seq(Messages) /\ replies # <<>> /\ m = Head(replies) /\ m \in Messages /\ replies' = Tail(replies)
      /\ call.took \in Seq(Messages) /\ taken.took = Append(call.took, m) /\ upstream \in Seq(Written)
      /\ UNCHANGED <<service, size, worker>> /\ taken.phase = "receiving" /\ taken.op = call.op
      /\ taken \in CommandStates /\ call.op \in Ops
  BY DEF Quiet, Known, Takes, CommandStates
<1>2. /\ Len(replies') = Len(replies) - 1 /\ Len(replies) \in Nat /\ Len(replies) >= 1
      /\ DOMAIN replies = 1 .. Len(replies) /\ DOMAIN replies' = 1 .. Len(replies) - 1
      /\ m = replies[1] /\ 1 \in DOMAIN replies
      /\ \A i \in DOMAIN replies' : i + 1 \in DOMAIN replies /\ replies'[i] = replies[i + 1]
  BY <1>1, TailOf
<1>3. /\ Lists(taken.took) = Lists(call.took) \cup m.list
      /\ Lists(replies) = m.list \cup Lists(replies')
  BY <1>1, ListsOfAppend, ListsOfTail
<1>4. service = "installation_proxy" /\ upstream = <<>> /\ worker.expects = 0
  BY DEF InProgress, Completed
<1>5. upstream' = upstream \/ next.step # call.step
  BY DEF Takes
<1>6. m.of = c
  BY <1>2 DEF InProgress, Completed
<1>7. CASE InProgress(c, call)
  <2>1. m.status = "progress"
    BY <1>2, <1>7 DEF InProgress
  <2>2. upstream' = <<>>
    <3>1. After(taken, m) = AfterStatus(taken, m)
      BY <1>4, Zenon DEF After
    <3>2. next = taken /\ taken.step = call.step
      BY <2>1, <3>1 DEF AfterStatus, Throws, IsFinished, Takes
    <3>3. QED
      BY <1>4, <3>2 DEF Takes
  <2>3. \A i \in DOMAIN replies' : replies'[i].of = c /\ replies'[i].status = "progress"
    BY <1>2, <1>7 DEF InProgress
  <2>4. taken.op = "Browse" => (Lists(taken.took) \cup Lists(replies) \cup worker.rest = Apps)'
    <3>1. taken.op = "Browse" => Lists(taken.took) \cup Lists(replies') \cup worker.rest = Apps
      BY <1>1, <1>3, <1>7 DEF InProgress
    <3>2. QED
      BY <1>1, <3>1 DEF Lists
  <2>5. InProgress(c, taken)'
    BY <1>1, <1>4, <1>7, <2>2, <2>3, <2>4 DEF InProgress
  <2>6. AtWork(c, taken)'
    BY <2>5 DEF AtWork
  <2>7. QED
    BY <1>1, <1>4, <1>6, <2>1, <2>6, ProgressTaken
<1>8. CASE Completed(c, call) /\ Len(replies) > 1
  <2>1. m.status = "progress"
    BY <1>2, <1>8 DEF Completed
  <2>2. upstream' = <<>>
    <3>1. After(taken, m) = AfterStatus(taken, m)
      BY <1>4, Zenon DEF After
    <3>2. next = taken /\ taken.step = call.step
      BY <2>1, <3>1 DEF AfterStatus, Throws, IsFinished, Takes
    <3>3. QED
      BY <1>4, <3>2 DEF Takes
  <2>3. ASSUME NEW i \in DOMAIN replies'
        PROVE  /\ replies'[i].of = c
               /\ i < Len(replies') => replies'[i].status = "progress"
               /\ i = Len(replies') => replies'[i].status \in {"Complete", "Error"}
               /\ replies'[i].status = "Complete" =>
                    /\ c \in worker.done
                    /\ taken.op = "Browse" => Lists(taken.took) \cup Lists(replies') = Apps
    <3>1. PICK j \in DOMAIN replies : j = i + 1 /\ replies'[i] = replies[j]
      BY <1>2
    <3>2. (i < Len(replies') => j < Len(replies)) /\ (i = Len(replies') => j = Len(replies))
      BY <1>2, <3>1
    <3>3. /\ replies[j].of = c
          /\ j < Len(replies) => replies[j].status = "progress"
          /\ j = Len(replies) => replies[j].status \in {"Complete", "Error"}
          /\ replies[j].status = "Complete" =>
               /\ c \in worker.done
               /\ call.op = "Browse" => Lists(call.took) \cup Lists(replies) = Apps
      BY <1>8 DEF Completed
    <3>4. Lists(call.took) \cup Lists(replies) = Lists(taken.took) \cup Lists(replies')
      BY <1>3
    <3>5. QED
      BY <1>1, <3>1, <3>2, <3>3, <3>4
  <2>4. ASSUME NEW i \in DOMAIN replies', replies'[i].status = "Complete"
        PROVE  c \in worker'.done /\ (taken.op = "Browse" => (Lists(taken.took) \cup Lists(replies) = Apps)')
    <3>1. c \in worker.done /\ (taken.op = "Browse" => Lists(taken.took) \cup Lists(replies') = Apps)
      BY <2>3, <2>4
    <3>2. QED
      BY <1>1, <3>1 DEF Lists
  <2>5. replies' # <<>>
    BY <1>2, <1>8
  <2>6. worker'.job = None /\ worker'.expects = 0 /\ service' = "installation_proxy"
    BY <1>1, <1>4, <1>8 DEF Completed
  <2>7. Completed(c, taken)'
    BY <1>1, <2>2, <2>3, <2>4, <2>5, <2>6 DEF Completed
  <2>8. AtWork(c, taken)'
    BY <2>7 DEF AtWork
  <2>9. QED
    BY <1>1, <1>4, <1>6, <2>1, <2>8, ProgressTaken
<1>9. CASE Completed(c, call) /\ Len(replies) = 1
  <2>1. Tail(replies) = <<>> /\ Lists(replies') = {}
    BY <1>1, <1>9, OneReply, ListsOfNone
  <2>2. m.status \in {"Complete", "Error"}
    BY <1>2, <1>9 DEF Completed
  <2>3. m.status = "Complete" => /\ c \in worker.done
                                 /\ call.op = "Browse" => Lists(taken.took) = Apps
    BY <1>2, <1>3, <1>9, <2>1 DEF Completed
  <2>4. After(taken, m) = AfterStatus(taken, m)
    BY <1>4, Zenon DEF After
  <2>5. call.op \in {"Install", "Browse", "Lookup"}
    <3>1. call.op \in Offers[service]
      BY DEF Takes
    <3>2. QED
      BY <1>4, <3>1, Tables
  <2>6. m.status = "Complete" => Done(c, taken)
    BY <1>1, <2>3, <2>5 DEF Done
  <2>7. worker.job = None
    BY <1>9 DEF Completed
  <2>8. \E ended \in {"returned", "threw"} : next = Ends(taken, ended) /\ (ended = "returned" => m.status = "Complete")
    <3>1. next = AfterStatus(taken, m)
      BY <2>4 DEF Takes
    <3>2. QED
      BY <2>2, <3>1 DEF AfterStatus, Throws, IsFinished
  <2>9. PICK ended \in {"returned", "threw"} : next = Ends(taken, ended) /\ (ended = "returned" => m.status = "Complete")
    BY <2>8
  <2>10. QED
    BY <1>4, <1>6, <2>1, <2>6, <2>7, <2>9, EndsKept
<1>10. QED
  BY <1>2, <1>7, <1>8, <1>9

\* What lookup and mount do with an answer, step by step.
LEMMA AfterImageReplies ==
  ASSUME NEW call, NEW m
  PROVE  /\ call.step = 1 => AfterImageReply(call, m) =
              IF Throws(m) THEN Ends(call, "threw")
              ELSE IF call.op = "lookup" \/ call.image \in m.list THEN Ends(call, "returned")
              ELSE GoesOn(call)
         /\ call.step = 2 => AfterImageReply(call, m) = Ends(call, IF m.status = "ReceiveBytesAck" THEN "pushing" ELSE "threw")
         /\ call.step = 3 => AfterImageReply(call, m) = IF m.status = "Complete" THEN GoesOn(call) ELSE Ends(call, "threw")
         /\ call.step = 4 => AfterImageReply(call, m) = Ends(call, IF Throws(m) THEN "threw" ELSE "returned")
<1>1. CASE call.step = 1
  <2>1. call.step = 1 /\ call.step # 2 /\ call.step # 3 /\ call.step # 4
    BY <1>1
  <2>2. QED
    BY <2>1, Zenon DEF AfterImageReply
<1>2. CASE call.step = 2
  <2>1. call.step # 1 /\ call.step = 2 /\ call.step # 3 /\ call.step # 4
    BY <1>2
  <2>2. QED
    BY <2>1, Zenon DEF AfterImageReply
<1>3. CASE call.step = 3
  <2>1. call.step # 1 /\ call.step # 2 /\ call.step = 3 /\ call.step # 4
    BY <1>3
  <2>2. QED
    BY <2>1, Zenon DEF AfterImageReply
<1>4. CASE call.step = 4
  <2>1. call.step # 1 /\ call.step # 2 /\ call.step # 3 /\ call.step = 4
    BY <1>4
  <2>2. QED
    BY <2>1, Zenon DEF AfterImageReply
<1>5. QED
  BY <1>1, <1>2, <1>3, <1>4, Zenon

\* lookup or mount takes what the image mounter has answered.
LEMMA ImageReplyTaken ==
  ASSUME Quiet, NEW c, NEW call, NEW m, NEW taken, NEW next, Takes(c, call, m, taken, next),
         ImageAnswered(c, call)
  PROVE  Quiet'
<1>1. /\ service = "image_mounter" /\ upstream = <<>> /\ Len(replies) = 1 /\ m = Head(replies)
      /\ taken \in CommandStates /\ taken.op = call.op /\ taken.step = call.step
      /\ taken.image = call.image /\ taken.pushed = call.pushed /\ taken.announced = call.announced
      /\ UNCHANGED <<service, size, worker>> /\ call.announced \in Nat \ {0}
  BY DEF ImageAnswered, Takes, CommandStates
<1>2. Tail(replies) = <<>> /\ m = replies[1]
  BY <1>1, OneReply
<1>3. /\ m.of = c
      /\ call.step < 4 => Looked(call, worker.mounted)
      /\ call.step = 4 => call.took # <<>>
      /\ call.step = 1 /\ m.status # "Error" => m.list = worker.mounted
      /\ call.step = 4 /\ m.status # "Error" => HasMounted(call, worker.mounted)
      /\ IF call.step = 2 /\ m.status = "ReceiveBytesAck"
         THEN worker.expects = call.announced /\ worker.staged = <<>> /\ worker.job = c
         ELSE worker.expects = 0
      /\ call.step < 3 => call.pushed = 0
  BY <1>2 DEF ImageAnswered
<1>4. call.op \in {"lookup", "mount"}
  <2>1. call.op \in Offers[service]
    BY DEF Takes
  <2>2. QED
    BY <1>1, <2>1, Tables
<1>5. /\ call.op = "lookup" => call.step = 1
      /\ call.op = "mount" => call.step \in {1, 2, 4} /\ Len(Requests[call.op]) = 4
  <2>1. call.step \in 1 .. Len(Requests[call.op]) /\ call.step # 3
    BY DEF ImageAnswered
  <2>2. CASE call.op = "lookup"
    <3>1. Requests[call.op] = <<"LookupImage">>
      BY <2>2, Tables
    <3>2. QED
      BY <2>1, <2>2, <3>1
  <2>3. CASE call.op = "mount"
    <3>1. Requests[call.op] = <<"LookupImage", "ReceiveBytes", "image", "MountImage">>
      BY <2>3, Tables
    <3>2. Len(Requests[call.op]) = 4
      BY <3>1
    <3>3. QED
      BY <2>1, <2>3, <3>2
  <2>4. QED
    BY <1>4, <2>2, <2>3
<1>6. next = AfterImageReply(taken, m)
  BY <1>1, Zenon DEF After, Takes
<1>0. /\ taken.took # <<>>
      /\ call.took = <<>> => Found(taken) = m.list
      /\ call.took # <<>> => Found(taken) = Found(call)
  <2>1. call.took \in Seq(Messages) /\ m \in Messages /\ taken.took = Append(call.took, m)
    BY DEF Takes, CommandStates
  <2>2. QED
    BY <2>1, FoundFirst DEF Found
<1>7. CASE call.step = 1
  <2>1. next = IF Throws(m) THEN Ends(taken, "threw")
               ELSE IF taken.op = "lookup" \/ taken.image \in m.list THEN Ends(taken, "returned")
               ELSE GoesOn(taken)
    BY <1>1, <1>6, <1>7, AfterImageReplies
  <2>0. m.of = c /\ worker.expects = 0 /\ service # "installation_proxy"
    BY <1>1, <1>3, <1>7
  <2>2. CASE next = Ends(taken, "threw")
    BY <1>1, <1>2, <2>0, <2>2, EndsKept
  <2>a. ~Throws(m) => Found(taken) = worker.mounted
    BY <1>0, <1>3, <1>4, <1>7 DEF Looked, Throws
  <2>3. CASE next = Ends(taken, "returned") /\ ~Throws(m) /\ (taken.op = "lookup" \/ taken.image \in m.list)
    <3>1. taken.op = "mount" => Found(taken) # {}
      BY <1>3, <1>7, <2>3, <2>a DEF Throws
    <3>2. Done(c, taken)
      BY <1>1, <1>4, <2>3, <2>a, <3>1 DEF Done, HasMounted
    <3>3. QED
      BY <1>1, <1>2, <2>0, <2>3, <3>2, EndsKept
  <2>4. CASE next = GoesOn(taken) /\ ~Throws(m) /\ taken.op # "lookup"
    <3>1. call.op = "mount" /\ call.step + 1 = 2 /\ Len(Requests[call.op]) = 4
      BY <1>1, <1>4, <1>5, <1>7, <2>4
    <3>2. call.step + 1 \in 1 .. Len(Requests[call.op]) /\ call.step + 1 # 3
      BY <3>1
    <3>3. Looked(next, worker.mounted)
      <4>1. taken \in CommandStates /\ taken.step < 4
        BY <1>1, <1>7
      <4>2. next.took = taken.took /\ next.step = 2
        BY <1>1, <1>7, <2>4, <4>1, CallForms
      <4>3. QED
        BY <1>0, <2>4, <2>a, <4>2 DEF Looked, Found
    <3>4. QED
      BY <1>1, <1>2, <1>3, <1>7, <2>0, <2>4, <3>2, <3>3, GoesOnKept
  <2>5. QED
    BY <2>1, <2>2, <2>3, <2>4
<1>8. CASE call.step = 2
  <2>1. next = Ends(taken, IF m.status = "ReceiveBytesAck" THEN "pushing" ELSE "threw")
    BY <1>1, <1>6, <1>8, AfterImageReplies
  <2>2. CASE m.status # "ReceiveBytesAck"
    BY <1>1, <1>2, <1>3, <2>1, <2>2, EndsKept
  <2>3. CASE m.status = "ReceiveBytesAck"
    <3>1. next = Ends(taken, "pushing") /\ "pushing" \in Phases
      BY <2>1, <2>3 DEF Phases
    <3>2. /\ next \in CommandStates /\ next.op = call.op /\ next.step = 2 /\ next.phase = "pushing"
          /\ next.took = taken.took /\ next.announced = call.announced /\ next.pushed = call.pushed
      BY <1>1, <1>8, <3>1, CallForms
    <3>3. upstream' = <<>> /\ replies' = <<>> /\ UNCHANGED <<service, worker>>
      BY <1>1, <1>2, <1>8, <3>2 DEF Takes
    <3>4. worker.expects = call.announced /\ worker.staged = <<>> /\ worker.job = c /\ call.pushed = 0
      BY <1>3, <1>8, <2>3
    <3>5. call.op = "mount"
      BY <1>4, <1>5, <1>8
    <3>6. next.pushed = Len(worker'.staged) + Len(upstream') /\ worker'.expects = next.announced - Len(worker'.staged)
      <4>1. Len(worker'.staged) = 0 /\ Len(upstream') = 0
        BY <3>3, <3>4
      <4>2. QED
        BY <1>1, <3>2, <3>3, <3>4, <4>1
    <3>a. Looked(next, worker'.mounted)
      BY <1>0, <1>3, <1>8, <3>2, <3>3, <3>5 DEF Looked, Found
    <3>7. ImageOnItsWay(c, next)'
      BY <1>1, <3>2, <3>3, <3>4, <3>5, <3>6, <3>a DEF ImageOnItsWay
    <3>8. AtWork(c, next)'
      BY <3>7 DEF AtWork
    <3>9. upstream' \in Seq(Written)
      <4>1. <<>> \in Seq(Written)
        OBVIOUS
      <4>2. QED
        BY <3>3, <4>1
    <3>10. QED
      BY <1>3, <3>2, <3>8, <3>9, PollStep
  <2>4. QED
    BY <2>2, <2>3
<1>9. CASE call.step = 4
  <2>1. next = Ends(taken, IF Throws(m) THEN "threw" ELSE "returned")
    BY <1>1, <1>6, <1>9, AfterImageReplies
  <2>2. PICK ended \in {"returned", "threw"} : next = Ends(taken, ended) /\ (ended = "returned" => m.status # "Error")
    BY <2>1 DEF Throws
  <2>3. call.op = "mount"
    BY <1>4, <1>5, <1>9
  <2>4. ended = "returned" => Done(c, taken)
    BY <1>0, <1>1, <1>3, <1>9, <2>2, <2>3 DEF Done, HasMounted
  <2>5. worker.expects = 0
    BY <1>3, <1>9
  <2>6. QED
    BY <1>1, <1>2, <1>3, <2>2, <2>4, <2>5, EndsKept
<1>10. QED
  BY <1>4, <1>5, <1>7, <1>8, <1>9

\* mount takes what the image mounter says of the bytes it has read.
LEMMA BytesReplyTaken ==
  ASSUME Quiet, NEW c, NEW call, NEW m, NEW taken, NEW next, Takes(c, call, m, taken, next),
         ImageOnItsWay(c, call)
  PROVE  Quiet'
<1>1. /\ replies # <<>> /\ call.phase = "receiving" /\ m = Head(replies) /\ taken.op = call.op /\ taken.step = call.step
      /\ call.announced \in Nat /\ call.pushed \in Nat
  BY DEF Takes, CommandStates
<1>2. worker.staged \in Seq(Written) /\ upstream \in Seq(Written) /\ worker.expects \in Nat
  BY DEF Quiet, Known, Workers
<1>3. service = "image_mounter" /\ call.op = "mount" /\ call.step = 3 /\ call.pushed = call.announced
  BY <1>1 DEF ImageOnItsWay
<1>4. worker.expects = 0 /\ Len(replies) = 1 /\ replies[1].of = c /\ replies[1].status = "Complete"
  BY <1>1, <1>2 DEF ImageOnItsWay
<1>5. Tail(replies) = <<>> /\ m = replies[1]
  BY <1>1, <1>4, OneReply
<1>6. upstream = <<>>
  <2>1. call.pushed = Len(worker.staged) + Len(upstream) /\ worker.expects = call.announced - Len(worker.staged)
    BY DEF ImageOnItsWay
  <2>2. Len(worker.staged) \in Nat /\ Len(upstream) \in Nat
    BY <1>2
  <2>3. Len(upstream) = 0
    BY <1>1, <1>3, <1>4, <2>1, <2>2
  <2>4. QED
    BY <1>2, <2>3, EmptySeq
<1>7. next = AfterImageReply(taken, m)
  BY <1>3, Zenon DEF After, Takes
<1>8. next = IF m.status = "Complete" THEN GoesOn(taken) ELSE Ends(taken, "threw")
  <2>1. taken.step = 3
    BY <1>1, <1>3
  <2>2. QED
    BY <1>7, <2>1, AfterImageReplies
<1>9. next = GoesOn(taken)
  BY <1>4, <1>5, <1>8
<1>10. call.step + 1 \in 1 .. Len(Requests[call.op]) /\ call.step + 1 = 4
  <2>1. Requests[call.op] = <<"LookupImage", "ReceiveBytes", "image", "MountImage">>
    BY <1>3, Tables
  <2>2. Len(Requests[call.op]) = 4
    BY <2>1
  <2>3. QED
    BY <1>3, <2>2
<1>11. Looked(next, worker.mounted)
  <2>1. /\ call.took \in Seq(Messages) /\ m \in Messages /\ taken.took = Append(call.took, m)
        /\ taken \in CommandStates /\ taken.step < 4
    BY <1>1, <1>3 DEF Takes, CommandStates
  <2>2. call.took # <<>> /\ Found(call) = worker.mounted
    BY <1>3 DEF ImageOnItsWay, Looked
  <2>3. taken.took # <<>> /\ Found(taken) = worker.mounted
    BY <2>1, <2>2, FoundFirst DEF Found
  <2>4. next.took = taken.took /\ next.step = 4
    BY <1>1, <1>3, <1>9, <2>1, CallForms
  <2>5. QED
    BY <2>3, <2>4 DEF Looked, Found
<1>12. QED
  BY <1>3, <1>4, <1>5, <1>6, <1>9, <1>10, <1>11, GoesOnKept

\* An operation on profiles takes what mcinstall has answered.
LEMMA ProfileReplyTaken ==
  ASSUME Quiet, NEW c, NEW call, NEW m, NEW taken, NEW next, Takes(c, call, m, taken, next),
         ProfileAnswered(c, call)
  PROVE  Quiet'
<1>1. /\ service = "mc_install" /\ upstream = <<>> /\ worker.expects = 0 /\ Len(replies) = 1 /\ m = Head(replies)
      /\ taken.op = call.op /\ taken.step = call.step
      /\ call.step \in 1 .. Len(Requests[call.op]) /\ (call.step < 3 => call.pushed = 0) /\ call.op \in Offers[service]
  BY DEF ProfileAnswered, Takes
<1>2. Tail(replies) = <<>> /\ m = replies[1]
  BY <1>1, OneReply
<1>3. m.of = c /\ (m.status = "Acknowledged" /\ call.step = Len(Requests[call.op]) => c \in worker.done)
  BY <1>2 DEF ProfileAnswered
<1>4. call.op \in {"getProfileList", "installProfile", "removeProfile"}
  BY <1>1, Tables
<1>5. Len(Requests[call.op]) \in 1 .. 2
  <2>1. \/ Requests[call.op] = <<"GetProfileList">> \/ Requests[call.op] = <<"InstallProfile">>
        \/ Requests[call.op] = <<"GetProfileList", "RemoveProfile">>
    BY <1>4, Tables
  <2>2. Len(Requests[call.op]) = 1 \/ Len(Requests[call.op]) = 2
    BY <2>1
  <2>3. QED
    BY <2>2
<1>6. next = AfterProfileReply(taken, m)
  BY <1>1, Zenon DEF After, Takes
<1>7. \/ next = Ends(taken, "threw")
      \/ next = GoesOn(taken) /\ call.step < Len(Requests[call.op])
      \/ next = Ends(taken, "returned") /\ m.status = "Acknowledged" /\ ~(call.step < Len(Requests[call.op]))
  BY <1>1, <1>6 DEF AfterProfileReply
<1>8. CASE next = Ends(taken, "threw")
  BY <1>1, <1>2, <1>3, <1>8, EndsKept
<1>9. CASE next = GoesOn(taken) /\ call.step < Len(Requests[call.op])
  <2> DEFINE n == Len(Requests[call.op])
  <2>0. n \in 1 .. 2 /\ call.step \in 1 .. n /\ call.step < n
    BY <1>1, <1>5, <1>9
  <2> HIDE DEF n
  <2>a. call.step + 1 \in 1 .. n /\ call.step + 1 # 3 /\ call.step < 3
    BY <2>0
  <2>1. call.step + 1 \in 1 .. Len(Requests[call.op]) /\ call.step + 1 # 3 /\ call.step < 3
    BY <2>a DEF n
  <2>2. call.pushed = 0
    BY <1>1, <2>1
  <2>4. Looked(next, worker.mounted)
    <3>1. taken \in CommandStates /\ taken.step < 4
      BY <1>1, <2>1 DEF Takes
    <3>2. next.op = call.op
      BY <1>1, <1>9, <3>1, CallForms
    <3>3. QED
      BY <1>4, <3>2 DEF Looked
  <2>3. QED
    BY <1>1, <1>2, <1>3, <1>9, <2>1, <2>2, <2>4, GoesOnKept
<1>10. CASE next = Ends(taken, "returned") /\ m.status = "Acknowledged" /\ ~(call.step < Len(Requests[call.op]))
  <2>1. call.step = Len(Requests[call.op])
    BY <1>1, <1>5, <1>10
  <2>2. Done(c, taken)
    BY <1>1, <1>3, <1>4, <1>10, <2>1 DEF Done
  <2>3. QED
    BY <1>1, <1>2, <1>3, <1>10, <2>2, EndsKept
<1>11. QED
  BY <1>7, <1>8, <1>9, <1>10

\* A call taking a reply off the queue preserves the invariant.
LEMMA PollRepliesKept ==
  ASSUME Quiet, NEW c \in DOMAIN commands, PollReplies(c)
  PROVE  Quiet'
<1>1. PICK call, m, taken, next : Takes(c, call, m, taken, next)
  BY PollTakes
<1>2. AtWork(c, call) /\ ~Asked(c, call)
  BY <1>1 DEF Takes, Asked
<1>3. CASE InProgress(c, call) \/ Completed(c, call)
  BY <1>1, <1>3, StatusTaken
<1>4. CASE ImageAnswered(c, call)
  BY <1>1, <1>4, ImageReplyTaken
<1>5. CASE ImageOnItsWay(c, call)
  BY <1>1, <1>5, BytesReplyTaken
<1>6. CASE ProfileAnswered(c, call)
  BY <1>1, <1>6, ProfileReplyTaken
<1>7. QED
  BY <1>2, <1>3, <1>4, <1>5, <1>6 DEF AtWork


\* The last call sends a part of its image, or has sent the last one.
LEMMA SendingKept ==
  ASSUME Quiet, NEW c, NEW call, NEW next \in CommandStates, c = Len(commands), c \in DOMAIN commands,
         call = commands[c],
         commands' = [commands EXCEPT ![c] = next], next.op = call.op, next.took = call.took,
         next.phase \in {"receiving", "pushing"}, AtWork(c, next)', upstream' \in Seq(Written),
         UNCHANGED <<service, replies, size, worker>>
  PROVE  Quiet'
<1>1. \A i \in DOMAIN next.took : next.took[i].of = c
  BY DEF Quiet, Kept
<1>2. /\ Kept'
      /\ commands' \in Seq(CommandStates) /\ Len(commands') = Len(commands) /\ DOMAIN commands' = DOMAIN commands
      /\ \A d \in DOMAIN commands' : commands'[d].op \in Offers[service]
      /\ commands'[c] = next
  BY <1>1, KeptAfter
<1>3. Known'
  BY <1>2 DEF Quiet, Known
<1>4. Staged'
  BY <1>2 DEF Quiet, Staged
<1>5. Course'
  <2>1. c = Len(commands') /\ c \in DOMAIN commands' /\ next = commands'[c]
    BY <1>2
  <2>2. QED
    BY <2>1, AtWorkThen
<1>6. QED
  BY <1>2, <1>3, <1>4, <1>5 DEF Quiet

\* A call that sends its image.
LEMMA Sending ==
  ASSUME Quiet, NEW c \in DOMAIN commands, commands[c].phase = "pushing"
  PROVE  /\ c = Len(commands) /\ commands[c] \in CommandStates /\ ImageOnItsWay(c, commands[c]) /\ commands[c].step = 2
         /\ c \in Nat
<1>1. PICK call : call = commands[c]
  OBVIOUS
<1>2. c = Len(commands) /\ AtWork(c, call) /\ call \in CommandStates /\ call.phase = "pushing"
  BY <1>1, AtWorkIsLast
<1>3. ImageOnItsWay(c, call)
  BY <1>2 DEF AtWork, Asked, InProgress, Completed, ImageAnswered, ProfileAnswered
<1>4. call.step = 2
  BY <1>2, <1>3 DEF ImageOnItsWay
<1>5. c \in Nat
  BY DEF Quiet, Known
<1>6. QED
  BY <1>1, <1>2, <1>3, <1>4, <1>5

\* Pushing a piece of the image preserves the invariant.
LEMMA PushKept ==
  ASSUME Quiet, NEW c \in DOMAIN commands, Push(c), ~disturbed'
  PROVE  Quiet'
<1>1. PICK call : call = commands[c]
  OBVIOUS
<1>2. PICK next : next = [call EXCEPT !.pushed = @ + 1]
  OBVIOUS
<1> DEFINE piece == [call |-> c, request |-> "piece"]
<1>3. /\ call.phase = "pushing" /\ c = Len(commands) /\ call \in CommandStates /\ ImageOnItsWay(c, call) /\ call.step = 2
      /\ c \in Nat
  BY <1>1, Sending DEF Push
<1>4. /\ commands' = [commands EXCEPT ![c] = next] /\ upstream' = Append(upstream, piece)
      /\ ~(call.pushed >= call.announced) /\ UNCHANGED <<service, replies, size, worker>>
  BY <1>1, <1>2 DEF Push
<1>5. /\ upstream \in Seq(Written) /\ worker.staged \in Seq(Written) /\ worker.expects \in Nat
      /\ call.pushed \in Nat /\ call.announced \in Nat /\ piece \in Written
  BY <1>3 DEF Quiet, Known, Workers, CommandStates, Written, Words
<1>6. /\ next \in CommandStates /\ next.op = call.op /\ next.took = call.took /\ next.phase = "pushing"
      /\ next.step = 2 /\ next.pushed = call.pushed + 1 /\ next.announced = call.announced
  <2>1. call.pushed + 1 \in Nat
    BY <1>5
  <2>2. QED
    BY <1>2, <1>3, <2>1 DEF CommandStates
<1>7. \A i \in DOMAIN upstream : upstream[i] = piece
  BY <1>3 DEF ImageOnItsWay
<1> HIDE DEF piece
<1>8. /\ upstream' \in Seq(Written) /\ Len(upstream') = Len(upstream) + 1 /\ Len(upstream) \in Nat
      /\ \A i \in DOMAIN upstream' : upstream'[i] = piece
  BY <1>4, <1>5, <1>7
<1>9. /\ call.pushed = Len(worker.staged) + Len(upstream) /\ worker.expects = call.announced - Len(worker.staged)
      /\ Len(worker.staged) \in Nat
  BY <1>3, <1>5 DEF ImageOnItsWay
<1>10. worker.expects > 0 /\ next.pushed <= next.announced /\ next.pushed = Len(worker.staged) + Len(upstream')
  <2> DEFINE staged == Len(worker.staged)
  <2> DEFINE unread == Len(upstream)
  <2>1. /\ staged \in Nat /\ unread \in Nat /\ call.pushed = staged + unread /\ call.pushed < call.announced
        /\ worker.expects = call.announced - staged /\ Len(upstream') = unread + 1
    BY <1>4, <1>5, <1>8, <1>9
  <2>2. Len(worker.staged) = staged
    OBVIOUS
  <2> HIDE DEF staged, unread
  <2>3. next.pushed = staged + (unread + 1) /\ next.pushed <= next.announced
    BY <1>5, <1>6, <2>1
  <2>4. worker.expects > 0
    BY <1>5, <2>1
  <2>5. QED
    BY <2>1, <2>2, <2>3, <2>4
<1>11. replies = <<>>
  BY <1>3, <1>10 DEF ImageOnItsWay
<1>a. Looked(next, worker'.mounted)
  BY <1>3, <1>4, <1>6 DEF ImageOnItsWay, Looked, Found
<1>12. ImageOnItsWay(c, next)'
  BY <1>3, <1>4, <1>6, <1>8, <1>10, <1>11, <1>a DEF ImageOnItsWay, piece
<1>13. AtWork(c, next)'
  BY <1>12 DEF AtWork
<1>14. QED
  BY <1>1, <1>3, <1>4, <1>6, <1>8, <1>13, SendingKept

\* The end of a push preserves the invariant.
LEMMA PushedKept ==
  ASSUME Quiet, NEW c \in DOMAIN commands, Pushed(c), ~disturbed'
  PROVE  Quiet'
<1>1. PICK call : call = commands[c]
  OBVIOUS
<1>2. PICK next : next = [call EXCEPT !.phase = "receiving", !.step = 3]
  OBVIOUS
<1>3. /\ call.phase = "pushing" /\ c = Len(commands) /\ call \in CommandStates /\ ImageOnItsWay(c, call) /\ call.step = 2
  BY <1>1, Sending DEF Pushed
<1>4. /\ commands' = [commands EXCEPT ![c] = next]
      /\ call.pushed = call.announced /\ UNCHANGED <<service, replies, size, worker, upstream>>
  BY <1>1, <1>2 DEF Pushed
<1>5. /\ next \in CommandStates /\ next.op = call.op /\ next.took = call.took /\ next.phase = "receiving"
      /\ next.step = 3 /\ next.pushed = call.pushed /\ next.announced = call.announced
  <2>1. 3 \in 1 .. 4 /\ "receiving" \in Phases
    BY DEF Phases
  <2>2. QED
    BY <1>2, <1>3, <2>1 DEF CommandStates
<1>a. Looked(next, worker'.mounted)
  BY <1>3, <1>4, <1>5 DEF ImageOnItsWay, Looked, Found
<1>6. ImageOnItsWay(c, next)'
  BY <1>3, <1>4, <1>5, <1>a DEF ImageOnItsWay
<1>7. AtWork(c, next)'
  BY <1>6 DEF AtWork
<1>8. upstream' \in Seq(Written)
  BY <1>4 DEF Quiet, Known
<1>9. QED
  BY <1>1, <1>3, <1>4, <1>5, <1>7, <1>8, SendingKept

\* The size of the file is read by Push and Pushed alone.
LEMMA FileChangesKept ==
  ASSUME PlistClientsAssumption, Quiet, NEW n \in Sizes, FileChanges(n)
  PROVE  Quiet'
<1>1. size' = n /\ n \in Nat \ {0} /\ UNCHANGED <<service, commands, replies, upstream, worker>>
  BY DEF FileChanges, clientVars, PlistClientsAssumption
<1>2. Known'
  BY <1>1 DEF Quiet, Known
<1>3. Kept'
  BY <1>1 DEF Quiet, Kept, Done
<1>4. Staged'
  BY <1>1 DEF Quiet, Staged
<1>5. Course'
  BY <1>1 DEF Quiet, Course, Active, AtRest, AtWork, Asked, InProgress, Completed, ImageAnswered, ImageOnItsWay,
              ProfileAnswered, Lists
<1>6. QED
  BY <1>2, <1>3, <1>4, <1>5 DEF Quiet

\* A step that changes nothing preserves the invariant.
LEMMA StutterKept ==
  ASSUME Quiet, UNCHANGED clientsVars
  PROVE  Quiet'
<1>1. UNCHANGED <<service, commands, replies, upstream, worker, size>>
  BY DEF clientsVars, clientVars
<1>2. Known'
  BY <1>1 DEF Quiet, Known
<1>3. Kept'
  BY <1>1 DEF Quiet, Kept, Done
<1>4. Staged'
  BY <1>1 DEF Quiet, Staged
<1>5. Course'
  BY <1>1 DEF Quiet, Course, Active, AtRest, AtWork, Asked, InProgress, Completed, ImageAnswered, ImageOnItsWay,
              ProfileAnswered, Lists
<1>6. QED
  BY <1>2, <1>3, <1>4, <1>5 DEF Quiet

---------------------------------------------------------------------------
(* The theorems.                                                           *)

\* The invariant holds before any call is made.
LEMMA InitQuiet ==
  ASSUME PlistClientsAssumption, ClientsInit
  PROVE  IInv
<1>0. PICK mounted \in {{}} \cup {{image} : image \in Images} :
        worker = [job |-> None, sent |-> 0, rest |-> {}, expects |-> 0, staged |-> <<>>, mounted |-> mounted,
                  profile |-> TRUE, done |-> {}, confused |-> FALSE]
  BY DEF ClientsInit
<1>1. /\ service \in Services /\ commands = <<>> /\ replies = <<>> /\ upstream = <<>>
      /\ size \in Nat \ {0} /\ mounted \in SUBSET Named
      /\ worker = [job |-> None, sent |-> 0, rest |-> {}, expects |-> 0, staged |-> <<>>, mounted |-> mounted,
                   profile |-> TRUE, done |-> {}, confused |-> FALSE]
  BY <1>0, Tables DEF ClientsInit, PlistClientsAssumption, Named
<1>2. worker \in Workers
  <2>1. <<>> \in Seq(Written)
    OBVIOUS
  <2>2. QED
    BY <1>1, <2>1 DEF Workers, None
<1>3. DOMAIN commands = {} /\ Len(commands) = 0
  BY <1>1
<1>4. Known
  <2>1. <<>> \in Seq(CommandStates) /\ <<>> \in Seq(Messages) /\ <<>> \in Seq(Written)
    OBVIOUS
  <2>2. QED
    BY <1>1, <1>2, <1>3, <2>1 DEF Known, PlistClientsAssumption
<1>5. Kept
  BY <1>3 DEF Kept
<1>6. Staged
  BY <1>1 DEF Staged
<1>7. Course
  BY <1>1, <1>3 DEF Course, Active, AtRest
<1>8. QED
  BY <1>4, <1>5, <1>6, <1>7 DEF IInv, Quiet

\* Each step of the clients preserves the invariant.
LEMMA StepQuiet ==
  ASSUME PlistClientsAssumption, IInv, [ClientsNext]_clientsVars
  PROVE  IInv'
<1> SUFFICES ASSUME ~disturbed'
             PROVE  Quiet'
  BY DEF IInv
<1>1. CASE UNCHANGED clientsVars
  BY <1>1, StutterKept DEF IInv, clientsVars, clientVars
<1>2. CASE \E op \in DOMAIN Requests : Call(op)
  BY <1>2, CallKept DEF IInv, Call
<1>3. ASSUME NEW c \in DOMAIN commands, PollReplies(c)
      PROVE  Quiet'
  BY <1>3, PollRepliesKept DEF IInv, PollReplies
<1>4. ASSUME NEW c \in DOMAIN commands, CommandTimedOut(c) \/ PushFails(c)
      PROVE  Quiet'
  BY <1>4 DEF CommandTimedOut, PushFails
<1>5. ASSUME NEW c \in DOMAIN commands, Push(c)
      PROVE  Quiet'
  BY <1>5, PushKept DEF IInv, Push
<1>6. ASSUME NEW c \in DOMAIN commands, Pushed(c)
      PROVE  Quiet'
  BY <1>6, PushedKept DEF IInv, Pushed
<1>7. CASE \E n \in Sizes : FileChanges(n)
  BY <1>7, FileChangesKept DEF IInv, FileChanges, clientVars
<1>8. CASE ReadsBytes
  BY <1>8, ReadsBytesKept DEF IInv, ReadsBytes
<1>9. CASE ReadsNonsense
  BY <1>9, ReadsNonsenseNever DEF IInv, ReadsNonsense
<1>10. CASE ReadsCommand
  BY <1>10, ReadsCommandKept DEF IInv, ReadsCommand
<1>11. CASE \E list \in SUBSET Apps : Progress(list)
  <2>1. PICK list : Progress(list)
    BY <1>11
  <2>2. UNCHANGED disturbed
    BY <2>1 DEF Progress
  <2>3. QED
    BY <2>1, <2>2, ProgressKept DEF IInv
<1>12. CASE Completes
  <2>1. UNCHANGED disturbed
    BY <1>12, Zenon DEF Completes
  <2>2. QED
    BY <1>12, <2>1, CompletesKept DEF IInv
<1>13. CASE Refuses
  BY <1>13, RefusesKept DEF IInv, Refuses
<1>14. ASSUME NEW agrees \in BOOLEAN, ReadsImageRequest(agrees)
       PROVE  Quiet'
  <2>1. UNCHANGED disturbed
    BY <1>14, Zenon DEF ReadsImageRequest
  <2>2. QED
    BY <1>14, <2>1, ReadsImageRequestKept DEF IInv
<1>15. ASSUME NEW agrees \in BOOLEAN, ReadsProfileRequest(agrees)
       PROVE  Quiet'
  BY <1>15, ReadsProfileRequestKept DEF IInv, ReadsProfileRequest
<1>16. QED
  BY <1>1, <1>2, <1>3, <1>4, <1>5, <1>6, <1>7, <1>8, <1>9, <1>10, <1>11, <1>12, <1>13, <1>14, <1>15 DEF ClientsNext

\* As long as a client is not disturbed, its last call alone is at work, and what lies
\* between the client and the device is what that call has asked for, or the answer to it.
THEOREM ClientsInvariant == ClientsSpec => []IInv
<1>1. ClientsInit => IInv
  BY InitQuiet, PlistClientsAssumption
<1>2. IInv /\ [ClientsNext]_clientsVars => IInv'
  BY StepQuiet, PlistClientsAssumption
<1>3. QED
  BY <1>1, <1>2, PTL DEF ClientsSpec

\* A call takes its own messages and all of them, and leaves nothing for the next one.
THEOREM MessagesAreOwn == ClientsSpec => []OwnMessages
<1>1. IInv => OwnMessages
  <2> SUFFICES ASSUME Quiet
               PROVE  /\ \A c \in DOMAIN commands : \A i \in DOMAIN commands[c].took : commands[c].took[i].of = c
                      /\ Active = {} => replies = <<>> /\ upstream = <<>>
    BY DEF IInv, OwnMessages
  <2>1. \A c \in DOMAIN commands : \A i \in DOMAIN commands[c].took : commands[c].took[i].of = c
    BY DEF Quiet, Kept
  <2>2. Active = {} => AtRest
    BY DEF Quiet, Course
  <2>3. QED
    BY <2>1, <2>2 DEF AtRest
<1>2. QED
  BY <1>1, ClientsInvariant, PTL

\* The device reads plists where the client wrote plists and bytes where it wrote bytes,
\* and an image that was staged is one that a call has sent.
THEOREM DeviceInStep == ClientsSpec => []InStep
<1>1. IInv => InStep
  <2> SUFFICES ASSUME Quiet
               PROVE  /\ ~worker.confused
                      /\ worker.staged # <<>> => \E c \in Calls : IsImage(worker.staged, c)
                      /\ Active = {} => worker.expects = 0
    BY DEF IInv, InStep
  <2>1. ~worker.confused
    BY DEF Quiet, Known, Workers
  <2>2. DOMAIN commands \subseteq Calls
    BY PlistClientsAssumption DEF Quiet, Known, Calls, PlistClientsAssumption
  <2>3. worker.staged # <<>> => \E c \in Calls : IsImage(worker.staged, c)
    BY <2>2 DEF Quiet, Staged
  <2>4. Active = {} => AtRest
    BY DEF Quiet, Course
  <2>5. QED
    BY <2>1, <2>3, <2>4 DEF AtRest
<1>2. QED
  BY <1>1, ClientsInvariant, PTL

\* A call that returns has had done what it asked for, and what it returns is the
\* device's; mount() has its image mounted if its lookup found none, and leaves another
\* one where it is otherwise.
THEOREM ReturnedCallsAreDone == ClientsSpec => []ReturnedMeansDone
<1>1. ASSUME Quiet, NEW c \in DOMAIN commands, NEW call, call = commands[c], call.phase = "returned"
      PROVE  CASE call.op = "mount" -> worker.mounted = IF Found(call) = {} THEN {call.image} ELSE Found(call)
               [] call.op = "lookup" -> Found(call) \subseteq worker.mounted
               [] call.op = "Browse" -> c \in worker.done /\ Result(call) = Apps
               [] OTHER -> c \in worker.done
  <2>1. Done(c, call)
    BY <1>1 DEF Quiet, Kept
  <2>2. Result(call) = Lists(call.took)
    BY DEF Result, Lists
  <2>3. CASE call.op = "mount"
    <3>1. /\ call.op # "lookup" /\ call.op # "Browse"
          /\ worker.mounted = IF Found(call) = {} THEN {call.image} ELSE Found(call)
      BY <2>1, <2>3 DEF Done, HasMounted
    <3>2. QED
      BY <2>3, <3>1, Zenon
  <2>4. CASE call.op = "lookup"
    <3>1. call.op # "mount" /\ call.op # "Browse" /\ Found(call) \subseteq worker.mounted
      BY <2>1, <2>4 DEF Done
    <3>2. QED
      BY <2>4, <3>1, Zenon
  <2>5. CASE call.op = "Browse"
    <3>1. call.op # "mount" /\ call.op # "lookup" /\ c \in worker.done /\ Result(call) = Apps
      BY <2>1, <2>2, <2>5 DEF Done
    <3>2. QED
      BY <2>5, <3>1, Zenon
  <2>6. CASE call.op \notin {"mount", "lookup", "Browse"}
    <3>1. call.op # "mount" /\ call.op # "lookup" /\ call.op # "Browse" /\ c \in worker.done
      BY <2>1, <2>6 DEF Done
    <3>2. QED
      BY <3>1, Zenon
  <2>7. QED
    BY <2>3, <2>4, <2>5, <2>6, Zenon
<1>2. IInv => ReturnedMeansDone
  BY <1>1, Zenon DEF IInv, ReturnedMeansDone
<1>3. QED
  BY <1>2, ClientsInvariant, PTL
=============================================================================
