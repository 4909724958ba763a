------------------------------ MODULE AfcProofs ------------------------------
(***************************************************************************)
(* Theorems about module Afc, for any files, handles and chunks, and about *)
(* module AfcPaths, for any names, trees and changes of a tree.            *)
(***************************************************************************)
EXTENDS Afc, AfcPaths, SequenceTheorems, FiniteSetTheorems, WellFoundedInduction, TLAPS

---------------------------------------------------------------------------
(* The inductive invariant.                                                *)

Chunks == [of : Streams \cup {NoStream}, n : Nat]
Answers == [kind : {"ok", "refused", "timedOut", "pending"}, handle : Handles \cup {NoHandle}, chunk : Chunks]
Ops == {"FILE_OPEN", "FILE_WRITE", "FILE_READ", "FILE_CLOSE"}
Requests == [op : Ops, stream : Streams,
             handle : Handles \cup {NoHandle}, chunk : Chunks]
States == [phase : {"unopened", "opening", "failed", "open", "destroyed", "closed"},
           autoDestroy : {"true", "false", "nothing"}, handle : Handles \cup {NoHandle}, busy : BOOLEAN,
           given : Nat, done : Nat, ended : BOOLEAN, errored : BOOLEAN, finished : BOOLEAN]

TypeOK ==
  /\ requests \in Seq(Requests)
  /\ results \in Seq(Answers) /\ Len(results) = Len(requests)
  /\ said \in Seq(Answers) /\ Len(said) = Len(requests)
  /\ streams \in [Streams -> States]
  /\ got \in [Readers -> Seq(Chunks)]
  /\ socket \in {"open", "ended", "destroyed"}
  /\ toDevice \in Seq(Nat)
  /\ inbox \in Seq([packet : Nat, answer : Answers])
  /\ DOMAIN handles \subseteq Handles /\ \A h \in DOMAIN handles : handles[h] \in [file : Streams, pos : Nat]
  /\ files \in [Streams -> Seq(Chunks)]

\* The requests that wait for their answer are those with a callback.
Awaited ==
  /\ responseCallbacks = {p \in DOMAIN requests : results[p] = Pending}
  /\ \A p \in DOMAIN requests : results[p] \in {Pending, Late} \/ results[p].kind \in {"ok", "refused"}

\* The device takes the packets in order, and says one thing to each.
InOrder ==
  /\ \A i \in DOMAIN toDevice : toDevice[i] \in DOMAIN requests /\ said[toDevice[i]] = Pending
  /\ \A i, j \in DOMAIN toDevice : i < j => toDevice[i] < toDevice[j]
  /\ \A p \in DOMAIN requests : said[p] # Pending =>
       said[p].kind \in {"ok", "refused"} /\ \A i \in DOMAIN toDevice : p < toDevice[i]

\* What is on its way to the client is what the device has said.
Truthful ==
  \A i \in DOMAIN inbox :
    /\ inbox[i].packet \in DOMAIN requests /\ inbox[i].answer = said[inbox[i].packet]
    /\ inbox[i].answer # Pending

AnswerInv == Awaited /\ InOrder /\ Truthful /\ OwnResponse

---------------------------------------------------------------------------
(* The invariant of a stream s in state x that has got g, after requests   *)
(* reqs with results res and the device's answers ans.                     *)

Is(reqs, p, op, s) == reqs[p].op = op /\ reqs[p].stream = s
Opened == {"open", "destroyed", "closed"}

\* A stream asks for its file once, and is open when it has got it.
OpenedOnce(s, x, reqs, res) ==
  \A p \in DOMAIN reqs : Is(reqs, p, "FILE_OPEN", s) =>
    /\ \A q \in DOMAIN reqs : Is(reqs, q, "FILE_OPEN", s) => p = q
    /\ x.phase # "unopened"
    /\ res[p] = Pending => x.phase = "opening"
    /\ res[p].kind = "ok" => x.phase \in Opened /\ x.handle = res[p].handle
    /\ res[p].kind \in {"refused", "timedOut"} => x.phase = "failed"

\* A stream that is open has got its file; all other requests are for that and no
\* request follows the one that closes it.
UsedWhileOpen(s, x, reqs, res) ==
  /\ x.phase \in Opened => \E p \in DOMAIN reqs : Is(reqs, p, "FILE_OPEN", s) /\ res[p].kind = "ok"
  /\ \A p \in DOMAIN reqs : reqs[p].stream = s /\ reqs[p].op # "FILE_OPEN" =>
       x.phase \in Opened /\ reqs[p].handle = x.handle
  /\ \A p \in DOMAIN reqs : Is(reqs, p, "FILE_CLOSE", s) =>
       x.phase # "open" /\ \A q \in DOMAIN reqs : reqs[q].stream = s => q <= p

\* A stream that is not open yet has done nothing.
NothingBefore(s, x, g) ==
  x.phase \notin Opened =>
    /\ x.given = 0 /\ x.done = 0 /\ ~x.busy /\ ~x.ended /\ ~x.finished
    /\ s \in Readers => g = <<>>

\* A stream asks for what it can: to write or to read.
AsksAsItCan(s, reqs) ==
  \A p \in DOMAIN reqs : /\ Is(reqs, p, "FILE_WRITE", s) => s \in Writers
                         /\ Is(reqs, p, "FILE_READ", s) => s \in Readers

\* The chunks of a writing stream: each is asked to be written once, when the one
\* before it was, and none while the stream is idle or after an error.
WritesInOrder(s, x, reqs, res) ==
  s \in Writers =>
    /\ x.done <= x.given /\ x.given <= MaxChunks
    /\ x.finished => x.ended /\ x.done = x.given
    /\ \A p \in DOMAIN reqs : Is(reqs, p, "FILE_WRITE", s) =>
         /\ reqs[p].chunk = Chunk(s, reqs[p].chunk.n)
         /\ reqs[p].chunk.n \in 1 .. x.done + 1 /\ reqs[p].chunk.n <= x.given
         /\ reqs[p].chunk.n <= x.done => res[p].kind = "ok"
         /\ x.phase = "open" /\ ~x.errored /\ reqs[p].chunk.n = x.done + 1 => x.busy
         /\ \A q \in DOMAIN reqs : Is(reqs, q, "FILE_WRITE", s) /\ reqs[q].chunk.n = reqs[p].chunk.n => p = q

\* The device has opened a file for stream s, and has closed it.
OpenedFor(s, p, reqs, ans) == Is(reqs, p, "FILE_OPEN", s) /\ ans[p].kind = "ok"
ClosedFor(s, reqs, ans) == \E q \in DOMAIN reqs : Is(reqs, q, "FILE_CLOSE", s) /\ ans[q].kind = "ok"

\* Until it is closed its handle is that of stream s.
HandleOwned(s, reqs, ans) ==
  \A p \in DOMAIN reqs : OpenedFor(s, p, reqs, ans) /\ ~ClosedFor(s, reqs, ans) =>
    ans[p].handle \in DOMAIN handles /\ handles[ans[p].handle].file = s

\* The device has written all chunks that the stream takes to be written, and maybe
\* the one that it has asked for.
WrittenAhead(s, x, reqs, ans) ==
  \E p \in DOMAIN reqs : Is(reqs, p, "FILE_WRITE", s) /\ reqs[p].chunk.n = x.done + 1 /\ ans[p].kind = "ok"
FileWrittenSoFar(s, x, reqs, ans) ==
  s \in Writers => \A p \in DOMAIN reqs : OpenedFor(s, p, reqs, ans) =>
    files[s] = SubSeq(Content(s), 1, IF WrittenAhead(s, x, reqs, ans) THEN x.done + 1 ELSE x.done)

\* A reading stream that is open reads one chunk at a time, and none after an error.
ReadsInTurn(s, x, reqs, res) ==
  s \in Readers /\ x.phase = "open" =>
    \A p \in DOMAIN reqs : Is(reqs, p, "FILE_READ", s) /\ res[p].kind # "ok" =>
      /\ x.busy
      /\ \A q \in DOMAIN reqs : Is(reqs, q, "FILE_READ", s) /\ res[q].kind # "ok" => p = q

\* It has what it has read, and all of it at an end that was read: destroyed, it ends
\* wherever it is.
GotFromFile(s, x, g) ==
  s \in Readers =>
    /\ files[s] = Content(s)
    /\ Len(g) <= MaxChunks /\ g = SubSeq(Content(s), 1, Len(g))
    /\ x.phase \notin {"destroyed", "closed"} /\ x.ended => Len(g) = MaxChunks

\* The device reads on where the stream has got to, or one chunk further when that is
\* on its way.
Ahead(s, g, answer, h) ==
  \/ answer.chunk = Nothing /\ Len(g) = MaxChunks /\ handles[h].pos = Len(g)
  \/ answer.chunk = Chunk(s, Len(g) + 1) /\ Len(g) < MaxChunks /\ handles[h].pos = Len(g) + 1
ReadsOn(s, x, g, reqs, res, ans) ==
  s \in Readers /\ x.phase \in {"opening", "open"} =>
    \A p \in DOMAIN reqs : OpenedFor(s, p, reqs, ans) =>
      /\ ~x.busy => handles[ans[p].handle].pos = Len(g)
      /\ \A q \in DOMAIN reqs : Is(reqs, q, "FILE_READ", s) /\ res[q] = Pending =>
           /\ ans[q] = Pending => handles[ans[p].handle].pos = Len(g)
           /\ ans[q].kind = "ok" => Ahead(s, g, ans[q], ans[p].handle)

\* A handle that is open is in use, or being closed, or was lost with its open.
LeakFree(s, x, reqs, res, ans) ==
  socket = "open" => \A h \in DOMAIN handles : handles[h].file = s =>
    \/ x.phase = "open" /\ x.handle = h
    \/ x.phase = "opening"
    \/ \E p \in DOMAIN reqs :
         \/ Is(reqs, p, "FILE_CLOSE", s) /\ ans[p] \in {Pending, Refused}
         \/ Is(reqs, p, "FILE_OPEN", s) /\ res[p] = Late

Asked(s, x, g, reqs, res) ==
  /\ OpenedOnce(s, x, reqs, res) /\ UsedWhileOpen(s, x, reqs, res) /\ NothingBefore(s, x, g)
  /\ AsksAsItCan(s, reqs) /\ WritesInOrder(s, x, reqs, res) /\ ReadsInTurn(s, x, reqs, res)

Served(s, x, g, reqs, res, ans) ==
  /\ HandleOwned(s, reqs, ans) /\ FileWrittenSoFar(s, x, reqs, ans) /\ GotFromFile(s, x, g)
  /\ ReadsOn(s, x, g, reqs, res, ans) /\ LeakFree(s, x, reqs, res, ans)

HandlesKnown ==
  \A h \in DOMAIN handles : \E p \in DOMAIN requests :
    OpenedFor(handles[h].file, p, requests, said) /\ said[p].handle = h

IInv ==
  /\ TypeOK /\ AnswerInv /\ HandlesKnown
  /\ \A s \in Streams : /\ Asked(s, streams[s], got[s], requests, results)
                        /\ Served(s, streams[s], got[s], requests, results, said)


---------------------------------------------------------------------------
(* Answers and sequences.                                                  *)

\* The answers the client can be given, and how each is told from the others.
LEMMA AnswerKinds ==
  /\ Ok \in Answers /\ Refused \in Answers /\ Late \in Answers /\ Pending \in Answers
  /\ Ok.kind = "ok" /\ Refused.kind = "refused" /\ Late.kind = "timedOut" /\ Pending.kind = "pending"
  /\ Ok.chunk = Nothing
  /\ Nothing \in Chunks
  /\ \A s \in Streams, i \in Nat : Chunk(s, i) \in Chunks /\ Chunk(s, i).of = s /\ Chunk(s, i).n = i /\ Chunk(s, i) # Nothing
  /\ \A h \in Handles, c \in Chunks : Answer("ok", h, c) \in Answers /\ Answer("ok", h, c).kind = "ok"
                                      /\ Answer("ok", h, c).handle = h /\ Answer("ok", h, c).chunk = c
  /\ \A c \in Chunks : Answer("ok", NoHandle, c) \in Answers /\ Answer("ok", NoHandle, c).kind = "ok"
                       /\ Answer("ok", NoHandle, c).chunk = c
<1>1. Nothing \in Chunks /\ NoHandle \in Handles \cup {NoHandle}
  BY DEF Nothing, Chunk, Chunks
<1>2. Ok \in Answers /\ Refused \in Answers /\ Late \in Answers /\ Pending \in Answers
  BY <1>1 DEF Ok, Refused, Late, Pending, Answer, Answers
<1>3. \A s \in Streams, i \in Nat : Chunk(s, i) \in Chunks /\ Chunk(s, i).of = s /\ Chunk(s, i).n = i
  BY DEF Chunk, Chunks
<1>4. \A s \in Streams : s # NoStream
  BY AfcAssumption
<1>5. \A s \in Streams, i \in Nat : Chunk(s, i) # Nothing
  BY <1>3, <1>4 DEF Nothing, Chunk
<1>6. Ok.kind = "ok" /\ Refused.kind = "refused" /\ Late.kind = "timedOut" /\ Pending.kind = "pending" /\ Ok.chunk = Nothing
  BY DEF Ok, Refused, Late, Pending, Answer
<1>7. \A h \in Handles \cup {NoHandle}, c \in Chunks : Answer("ok", h, c) \in Answers /\ Answer("ok", h, c).kind = "ok"
                                      /\ Answer("ok", h, c).handle = h /\ Answer("ok", h, c).chunk = c
  BY DEF Answer, Answers
<1>8. QED
  BY <1>1, <1>2, <1>3, <1>5, <1>6, <1>7

\* What is left of a non-empty sequence after its head.
LEMMA TailElements ==
  ASSUME NEW S, NEW s \in Seq(S), s # <<>>
  PROVE  /\ Head(s) = s[1] /\ Head(s) \in S /\ 1 \in DOMAIN s
         /\ Tail(s) \in Seq(S)
         /\ \A i \in DOMAIN Tail(s) : i \in Nat \ {0} /\ i + 1 \in DOMAIN s /\ Tail(s)[i] = s[i + 1]
<1>1. Len(s) \in Nat /\ Len(s) # 0 /\ DOMAIN s = 1 .. Len(s) /\ Tail(s) \in Seq(S) /\ Len(Tail(s)) = Len(s) - 1
  BY HeadTailProperties, EmptySeq
<1>2. DOMAIN Tail(s) = 1 .. Len(s) - 1 /\ \A i \in 1 .. Len(s) - 1 : Tail(s)[i] = s[i + 1]
  BY HeadTailProperties
<1>3. QED
  BY <1>1, <1>2, HeadTailProperties

\* What a sequence holds after one element is appended.
LEMMA AppendElements ==
  ASSUME NEW S, NEW s \in Seq(S), NEW e \in S
  PROVE  /\ Append(s, e) \in Seq(S) /\ Len(Append(s, e)) = Len(s) + 1 /\ Len(s) \in Nat
         /\ DOMAIN s = 1 .. Len(s)
         /\ DOMAIN Append(s, e) = DOMAIN s \cup {Len(s) + 1} /\ Len(s) + 1 \notin DOMAIN s
         /\ \A i \in DOMAIN s : Append(s, e)[i] = s[i]
         /\ Append(s, e)[Len(s) + 1] = e
<1>1. Len(s) \in Nat /\ DOMAIN s = 1 .. Len(s)
  OBVIOUS
<1>2. /\ Append(s, e) \in Seq(S) /\ Len(Append(s, e)) = Len(s) + 1
      /\ \A i \in 1 .. Len(s) : Append(s, e)[i] = s[i]
      /\ Append(s, e)[Len(s) + 1] = e
  BY AppendProperties
<1>3. DOMAIN Append(s, e) = 1 .. Len(s) + 1
  BY <1>2
<1>4. QED
  BY <1>1, <1>2, <1>3

---------------------------------------------------------------------------
(* What a step of the client does.                                         *)

\* Of the requests of stream s one may be settled, with the device's answer or late.
Settling(s, callbacks, settled) ==
  /\ settled \in Seq(Answers) /\ Len(settled) = Len(requests)
  /\ callbacks = {p \in DOMAIN requests : settled[p] = Pending}
  /\ \A p \in DOMAIN requests :
       \/ settled[p] = results[p]
       \/ /\ requests[p].stream = s /\ results[p] = Pending
          /\ settled[p] = Late \/ (settled[p] = said[p] /\ said[p].kind \in {"ok", "refused"})

\* Nothing is asked of the device, or request r is.
AsksNoMore(settled) == UNCHANGED <<requests, said>> /\ results' = settled
AsksFor(r, settled) ==
  LET new == Len(requests) + 1
  IN  /\ new \notin DOMAIN requests /\ \A p \in DOMAIN requests : p \in Nat /\ p < new
      /\ new \in Nat
      /\ DOMAIN requests' = DOMAIN requests \cup {new}
      /\ \A p \in DOMAIN requests : requests'[p] = requests[p] /\ said'[p] = said[p] /\ results'[p] = settled[p]
      /\ requests'[new] = r /\ said'[new] = Pending /\ results'[new] = Pending

Typed(reqs, res, ans) ==
  /\ reqs \in Seq(Requests)
  /\ res \in Seq(Answers) /\ Len(res) = Len(reqs)
  /\ ans \in Seq(Answers) /\ Len(ans) = Len(reqs)

\* Requests, results and answers said have one entry for each packet.
LEMMA Domains ==
  ASSUME NEW reqs, NEW res, NEW ans, Typed(reqs, res, ans)
  PROVE  /\ DOMAIN res = DOMAIN reqs /\ DOMAIN ans = DOMAIN reqs /\ DOMAIN reqs = 1 .. Len(reqs) /\ Len(reqs) \in Nat
         /\ \A p \in DOMAIN reqs : reqs[p] \in Requests /\ res[p] \in Answers /\ ans[p] \in Answers
<1>1. /\ Len(reqs) \in Nat /\ DOMAIN reqs = 1 .. Len(reqs) /\ DOMAIN res = 1 .. Len(res) /\ DOMAIN ans = 1 .. Len(ans)
      /\ \A p \in 1 .. Len(reqs) : reqs[p] \in Requests
      /\ \A p \in 1 .. Len(res) : res[p] \in Answers
      /\ \A p \in 1 .. Len(ans) : ans[p] \in Answers
  BY DEF Typed
<1>2. QED
  BY <1>1 DEF Typed

\* A request that is sent is given the next packet number, and nothing else about the packets changes.
LEMMA AsksEffect ==
  ASSUME TypeOK, AnswerInv, NEW s \in Streams, NEW callbacks, NEW settled, Settling(s, callbacks, settled),
         NEW op \in Ops, NEW h \in Handles \cup {NoHandle},
         NEW c \in Chunks, Asks(op, s, h, c, callbacks, settled)
  PROVE  LET r == [op |-> op, stream |-> s, handle |-> h, chunk |-> c]
         IN  /\ r \in Requests /\ AsksFor(r, settled)
             /\ Typed(requests', results', said')
             /\ responseCallbacks' = callbacks \cup {Len(requests) + 1}
             /\ toDevice' \in {toDevice, Append(toDevice, Len(requests) + 1)}
             /\ socket' \in {socket, "destroyed"}
<1> DEFINE r == [op |-> op, stream |-> s, handle |-> h, chunk |-> c]
<1>1. r \in Requests
  BY DEF Requests
<1>2. /\ requests' = Append(requests, r) /\ results' = Append(settled, Pending) /\ said' = Append(said, Pending)
      /\ responseCallbacks' = callbacks \cup {Len(requests) + 1}
      /\ toDevice' \in {toDevice, Append(toDevice, Len(requests) + 1)}
      /\ socket' \in {socket, "destroyed"}
  BY DEF Asks
<1> HIDE DEF r
<1>3. Pending \in Answers
  BY AnswerKinds
<1>4. /\ requests \in Seq(Requests) /\ settled \in Seq(Answers) /\ said \in Seq(Answers)
      /\ Len(settled) = Len(requests) /\ Len(said) = Len(requests)
  BY DEF TypeOK, Settling
<1>5. /\ requests' \in Seq(Requests) /\ Len(requests') = Len(requests) + 1
      /\ DOMAIN requests = 1 .. Len(requests) /\ Len(requests) \in Nat
      /\ DOMAIN requests' = DOMAIN requests \cup {Len(requests) + 1} /\ Len(requests) + 1 \notin DOMAIN requests
      /\ \A i \in DOMAIN requests : requests'[i] = requests[i]
      /\ requests'[Len(requests) + 1] = r
  BY <1>1, <1>2, <1>4, AppendElements
<1>6. /\ results' \in Seq(Answers) /\ Len(results') = Len(settled) + 1
      /\ DOMAIN settled = 1 .. Len(settled)
      /\ \A i \in DOMAIN settled : results'[i] = settled[i]
      /\ results'[Len(settled) + 1] = Pending
  BY <1>2, <1>3, <1>4, AppendElements
<1>7. /\ said' \in Seq(Answers) /\ Len(said') = Len(said) + 1
      /\ DOMAIN said = 1 .. Len(said)
      /\ \A i \in DOMAIN said : said'[i] = said[i]
      /\ said'[Len(said) + 1] = Pending
  BY <1>2, <1>3, <1>4, AppendElements
<1>8. AsksFor(r, settled)
  BY <1>4, <1>5, <1>6, <1>7 DEF AsksFor
<1>9. Typed(requests', results', said')
  BY <1>4, <1>5, <1>6, <1>7 DEF Typed
<1>10. QED
  BY <1>1, <1>2, <1>8, <1>9 DEF r

\* A handler that sends nothing leaves the packets as its settled promise made them.
LEMMA AsksNothingEffect ==
  ASSUME TypeOK, NEW s \in Streams, NEW callbacks, NEW settled, Settling(s, callbacks, settled),
         AsksNothing(callbacks, settled)
  PROVE  AsksNoMore(settled) /\ Typed(requests', results', said') /\ responseCallbacks' = callbacks
  BY DEF TypeOK, Settling, AsksNothing, AsksNoMore, Typed


---------------------------------------------------------------------------
(* Requests and answers.                                                   *)

\* What has been said and done so far stays, whether or not a request is made.
LEMMA Extended ==
  ASSUME TypeOK, NEW s \in Streams, NEW callbacks, NEW settled, Settling(s, callbacks, settled),
         AsksNoMore(settled) \/ \E r \in Requests : AsksFor(r, settled)
  PROVE  /\ DOMAIN requests \subseteq DOMAIN requests'
         /\ \A p \in DOMAIN requests : requests'[p] = requests[p] /\ said'[p] = said[p] /\ results'[p] = settled[p]
         /\ \A p \in DOMAIN requests' : p \in DOMAIN requests \/ (said'[p] = Pending /\ results'[p] = Pending)
  BY DEF AsksNoMore, AsksFor

\* Whatever a handler of the client sends, the packets stay typed and each answer under way that of its request.
LEMMA AnswerClient ==
  ASSUME TypeOK, AnswerInv, NEW s \in Streams, NEW callbacks, NEW settled, Settling(s, callbacks, settled),
         \/ AsksNothing(callbacks, settled)
         \/ \E op \in Ops, h \in Handles \cup {NoHandle},
              c \in Chunks : Asks(op, s, h, c, callbacks, settled),
         \A i \in DOMAIN inbox' : \E j \in DOMAIN inbox : inbox'[i] = inbox[j]
  PROVE  AnswerInv' /\ Typed(requests', results', said') /\ toDevice' \in Seq(Nat) /\ socket' \in {"open", "ended", "destroyed"}
<1> DEFINE new == Len(requests) + 1
<1>1. Typed(requests, results, said) /\ toDevice \in Seq(Nat) /\ socket \in {"open", "ended", "destroyed"}
  BY DEF TypeOK, Typed
<1>2. /\ \A p \in DOMAIN requests : p \in Nat /\ p < new /\ said[p] \in Answers
      /\ DOMAIN results = DOMAIN requests /\ DOMAIN said = DOMAIN requests
      /\ new \in Nat
  BY <1>1, Domains
<1>3. \/ /\ AsksNoMore(settled) /\ responseCallbacks' = callbacks /\ UNCHANGED <<toDevice, socket>>
         /\ Typed(requests', results', said')
      \/ /\ \E r \in Requests : AsksFor(r, settled)
         /\ responseCallbacks' = callbacks \cup {new}
         /\ toDevice' \in {toDevice, Append(toDevice, new)}
         /\ socket' \in {socket, "destroyed"}
         /\ Typed(requests', results', said')
  <2>1. CASE AsksNothing(callbacks, settled)
    BY <2>1, AsksNothingEffect DEF AsksNothing
  <2>2. ASSUME NEW op \in Ops, NEW h \in Handles \cup {NoHandle},
               NEW c \in Chunks, Asks(op, s, h, c, callbacks, settled)
        PROVE  /\ \E r \in Requests : AsksFor(r, settled)
               /\ responseCallbacks' = callbacks \cup {new}
               /\ toDevice' \in {toDevice, Append(toDevice, new)}
               /\ socket' \in {socket, "destroyed"}
               /\ Typed(requests', results', said')
    <3> DEFINE r == [op |-> op, stream |-> s, handle |-> h, chunk |-> c]
    <3>1. /\ r \in Requests /\ AsksFor(r, settled)
          /\ Typed(requests', results', said')
          /\ responseCallbacks' = callbacks \cup {new}
          /\ toDevice' \in {toDevice, Append(toDevice, new)}
          /\ socket' \in {socket, "destroyed"}
      BY <2>2, AsksEffect, Zenon
    <3> HIDE DEF r
    <3>2. QED
      BY <3>1
  <2>3. QED
    BY <2>1, <2>2
<1>4. /\ DOMAIN requests \subseteq DOMAIN requests'
      /\ \A p \in DOMAIN requests : requests'[p] = requests[p] /\ said'[p] = said[p] /\ results'[p] = settled[p]
      /\ \A p \in DOMAIN requests' : p \in DOMAIN requests \/ (said'[p] = Pending /\ results'[p] = Pending)
  BY <1>3, Extended
<1>5. toDevice' = toDevice \/ (toDevice' = Append(toDevice, new) /\ \E r \in Requests : AsksFor(r, settled))
  BY <1>3
<1>6. /\ \A p \in DOMAIN requests :
           settled[p] \in {results[p], Late} \/ (settled[p] = said[p] /\ said[p].kind \in {"ok", "refused"})
      /\ callbacks = {p \in DOMAIN requests : settled[p] = Pending}
  BY DEF Settling
<1>7. DOMAIN results' = DOMAIN requests'
  BY <1>3, Domains
<1>8. Awaited'
  <2>1. \A p \in DOMAIN requests' : results'[p] \in {Pending, Late} \/ results'[p].kind \in {"ok", "refused"}
    BY <1>4, <1>6 DEF AnswerInv, Awaited
  <2>2. responseCallbacks' = {p \in DOMAIN requests' : results'[p] = Pending}
    <3>1. CASE AsksNoMore(settled) /\ responseCallbacks' = callbacks
      BY <1>6, <3>1 DEF AsksNoMore
    <3>2. CASE responseCallbacks' = callbacks \cup {new} /\ \E r \in Requests : AsksFor(r, settled)
      BY <1>6, <3>2 DEF AsksFor
    <3>3. QED
      BY <1>3, <3>1, <3>2
  <2>3. QED
    BY <2>1, <2>2 DEF Awaited
<1>9. OwnResponse'
  BY <1>2, <1>4, <1>6, <1>7 DEF AnswerInv, OwnResponse
<1>10. Truthful'
  BY <1>4 DEF AnswerInv, Truthful
<1>11. toDevice' \in Seq(Nat) /\ InOrder'
  <2>1. CASE toDevice' = toDevice
    BY <1>1, <1>4, <2>1 DEF AnswerInv, InOrder
  <2>2. CASE toDevice' = Append(toDevice, new) /\ \E r \in Requests : AsksFor(r, settled)
    <3>1. /\ toDevice' \in Seq(Nat) /\ DOMAIN toDevice' = DOMAIN toDevice \cup {Len(toDevice) + 1}
          /\ DOMAIN toDevice = 1 .. Len(toDevice) /\ Len(toDevice) \in Nat
          /\ \A i \in DOMAIN toDevice : toDevice'[i] = toDevice[i]
          /\ toDevice'[Len(toDevice) + 1] = new
      BY <1>1, <1>2, <2>2, AppendElements
    <3>2. new \in DOMAIN requests' /\ said'[new] = Pending
      BY <2>2 DEF AsksFor
    <3>3. \A i \in DOMAIN toDevice' : toDevice'[i] \in DOMAIN requests' /\ said'[toDevice'[i]] = Pending
      BY <1>4, <3>1, <3>2 DEF AnswerInv, InOrder
    <3>4. \A i \in DOMAIN toDevice : toDevice[i] < new
      BY <1>2 DEF AnswerInv, InOrder
    <3>5. \A i, j \in DOMAIN toDevice' : i < j => toDevice'[i] < toDevice'[j]
      BY <3>1, <3>4 DEF AnswerInv, InOrder
    <3>6. \A p \in DOMAIN requests' : said'[p] # Pending =>
            said'[p].kind \in {"ok", "refused"} /\ \A i \in DOMAIN toDevice' : p < toDevice'[i]
      BY <1>2, <1>4, <3>1 DEF AnswerInv, InOrder
    <3>7. QED
      BY <3>1, <3>3, <3>5, <3>6 DEF InOrder
  <2>3. QED
    BY <1>5, <2>1, <2>2
<1>12. socket' \in {"open", "ended", "destroyed"}
  BY <1>1, <1>3
<1>13. QED
  BY <1>3, <1>8, <1>9, <1>10, <1>11, <1>12 DEF AnswerInv


---------------------------------------------------------------------------
(* A stream whose requests are as before, with results res, stays sound.   *)

SameFor(t, res) ==
  /\ \A p \in DOMAIN requests' : requests'[p].stream = t => p \in DOMAIN requests
  /\ \A p \in DOMAIN requests : p \in DOMAIN requests' /\ requests'[p] = requests[p] /\ said'[p] = said[p]
                                /\ (requests[p].stream = t => results'[p] = res[p])

\* What a stream sends does not touch the packets of another stream.
LEMMA OthersSame ==
  ASSUME TypeOK, NEW s \in Streams, NEW callbacks, NEW settled, Settling(s, callbacks, settled),
         AsksNoMore(settled) \/ \E r \in Requests : r.stream = s /\ AsksFor(r, settled)
  PROVE  /\ \A t \in Streams \ {s} : SameFor(t, results)
         /\ AsksNoMore(settled) => SameFor(s, settled)
  BY DEF Settling, AsksNoMore, AsksFor, SameFor

\* A stream whose packets nobody touched has asked for what it had asked for.
LEMMA KeptAsked ==
  ASSUME NEW t \in Streams, NEW x, NEW g, NEW res, Asked(t, x, g, requests, res), SameFor(t, res)
  PROVE  Asked(t, x, g, requests', results')
<1>1. OpenedOnce(t, x, requests', results')
  BY DEF Asked, OpenedOnce, SameFor, Is
<1>2. UsedWhileOpen(t, x, requests', results')
  BY DEF Asked, UsedWhileOpen, SameFor, Is
<1>3. NothingBefore(t, x, g) /\ AsksAsItCan(t, requests')
  BY DEF Asked, AsksAsItCan, SameFor, Is
<1>4. WritesInOrder(t, x, requests', results')
  BY DEF Asked, WritesInOrder, SameFor, Is
<1>5. ReadsInTurn(t, x, requests', results')
  BY DEF Asked, ReadsInTurn, SameFor, Is
<1>6. QED
  BY <1>1, <1>2, <1>3, <1>4, <1>5 DEF Asked

\* A stream whose packets nobody touched is served as it was, while the device does nothing.
LEMMA KeptServed ==
  ASSUME NEW t \in Streams, NEW x, NEW g, NEW res, Served(t, x, g, requests, res, said), SameFor(t, res),
         UNCHANGED <<handles, files>>, socket' = "open" => socket = "open"
  PROVE  Served(t, x, g, requests, results, said)'
<1>1. HandleOwned(t, requests, said)'
  BY DEF Served, HandleOwned, OpenedFor, ClosedFor, SameFor, Is
<1>2. FileWrittenSoFar(t, x, requests, said)'
  BY DEF Served, FileWrittenSoFar, WrittenAhead, OpenedFor, SameFor, Is
<1>3. GotFromFile(t, x, g)'
  BY DEF Served, GotFromFile
<1>4. ReadsOn(t, x, g, requests, results, said)'
  BY DEF Served, ReadsOn, Ahead, OpenedFor, SameFor, Is
<1>5. LeakFree(t, x, requests, results, said)'
  BY DEF Served, LeakFree, SameFor, Is
<1>6. QED
  BY <1>1, <1>2, <1>3, <1>4, <1>5 DEF Served


---------------------------------------------------------------------------
(* A request is made by a stream in state y, which is in state z after it. *)

\* The state z is y but for the phase and the flag busy.
Like(z, y) ==
  /\ z.handle = y.handle /\ z.given = y.given /\ z.done = y.done
  /\ z.ended = y.ended /\ z.errored = y.errored /\ z.finished = y.finished

\* Or z may have ended where y has not: it was destroyed while reading.
EndsAs(z, y) ==
  /\ z.handle = y.handle /\ z.given = y.given /\ z.done = y.done
  /\ z.errored = y.errored /\ z.finished = y.finished
  /\ y.ended => z.ended

Still == UNCHANGED <<handles, files>> /\ (socket' = "open" => socket = "open")

Sound(s, x, g, res) == Asked(s, x, g, requests, res) /\ Served(s, x, g, requests, res, said)
SoundAfter(s, x, g) == Asked(s, x, g, requests', results') /\ Served(s, x, g, requests, results, said)'

\* The request to open a file leaves its stream sound, waiting for the handle.
LEMMA AsksToOpen ==
  ASSUME NEW s \in Streams, NEW y, NEW z, NEW g, NEW settled, NEW r,
         Sound(s, y, g, settled), Still,
         AsksFor(r, settled), r.op = "FILE_OPEN", r.stream = s,
         y.phase = "unopened", z.phase = "opening", z.busy = y.busy, Like(z, y)
  PROVE  SoundAfter(s, z, g)
<1> USE DEF Like, Still
<1> DEFINE new == Len(requests) + 1
<1>1. \A p \in DOMAIN requests : requests[p].stream # s
  BY DEF Sound, Asked, OpenedOnce, UsedWhileOpen, Opened, Is
<1>2. /\ DOMAIN requests' = DOMAIN requests \cup {new} /\ requests'[new] = r
      /\ said'[new] = Pending /\ results'[new] = Pending
      /\ \A p \in DOMAIN requests : requests'[p] = requests[p] /\ said'[p] = said[p] /\ results'[p] = settled[p]
  BY DEF AsksFor
<1>3. \A p \in DOMAIN requests' : requests'[p].stream = s => p = new
  BY <1>1, <1>2
<1>4. Pending.kind = "pending"
  BY AnswerKinds
<1> HIDE DEF new
<1>5. OpenedOnce(s, z, requests', results') /\ UsedWhileOpen(s, z, requests', results')
  BY <1>2, <1>3, <1>4 DEF OpenedOnce, UsedWhileOpen, Is, Opened
<1>6. NothingBefore(s, z, g)
  BY DEF Sound, Asked, NothingBefore, Opened
<1>7. AsksAsItCan(s, requests') /\ WritesInOrder(s, z, requests', results') /\ ReadsInTurn(s, z, requests', results')
  BY <1>2, <1>3 DEF Sound, Asked, AsksAsItCan, WritesInOrder, ReadsInTurn, Is
<1>8. HandleOwned(s, requests, said)' /\ FileWrittenSoFar(s, z, requests, said)' /\ ReadsOn(s, z, g, requests, results, said)'
  BY <1>2, <1>3, <1>4 DEF HandleOwned, FileWrittenSoFar, ReadsOn, OpenedFor, Is
<1>9. GotFromFile(s, z, g)'
  BY DEF Sound, Served, GotFromFile
<1>10. LeakFree(s, z, requests, results, said)'
  BY DEF LeakFree
<1>11. QED
  BY <1>5, <1>6, <1>7, <1>8, <1>9, <1>10 DEF SoundAfter, Asked, Served

\* The request to close the handle leaves its stream sound and destroyed.
LEMMA AsksToClose ==
  ASSUME NEW s \in Streams, NEW y, NEW z, NEW g, NEW settled, NEW r,
         Sound(s, y, g, settled), Still,
         AsksFor(r, settled), r.op = "FILE_CLOSE", r.stream = s, r.handle = y.handle,
         y.phase = "open", z.phase = "destroyed", z.busy = y.busy, EndsAs(z, y)
  PROVE  SoundAfter(s, z, g)
<1> USE DEF EndsAs, Still
<1> DEFINE new == Len(requests) + 1
<1>1. \A p \in DOMAIN requests : ~Is(requests, p, "FILE_CLOSE", s)
  BY DEF Sound, Asked, UsedWhileOpen
<1>2. /\ DOMAIN requests' = DOMAIN requests \cup {new} /\ requests'[new] = r
      /\ said'[new] = Pending /\ results'[new] = Pending
      /\ \A p \in DOMAIN requests : p \in Nat /\ p < new
      /\ \A p \in DOMAIN requests : requests'[p] = requests[p] /\ said'[p] = said[p] /\ results'[p] = settled[p]
      /\ new \in Nat
  BY DEF AsksFor
<1>3. Pending.kind = "pending"
  BY AnswerKinds
<1> HIDE DEF new
<1>4. \A p \in DOMAIN requests' : Is(requests', p, "FILE_CLOSE", s) => p = new
  BY <1>1, <1>2 DEF Is
<1>5. OpenedOnce(s, z, requests', results')
  BY <1>2 DEF Sound, Asked, OpenedOnce, Opened, Is
<1>6. UsedWhileOpen(s, z, requests', results')
  <2>1. \E p \in DOMAIN requests' : Is(requests', p, "FILE_OPEN", s) /\ results'[p].kind = "ok"
    BY <1>2 DEF Sound, Asked, UsedWhileOpen, Opened, Is
  <2>2. \A p \in DOMAIN requests' : requests'[p].stream = s /\ requests'[p].op # "FILE_OPEN" => requests'[p].handle = z.handle
    BY <1>2 DEF Sound, Asked, UsedWhileOpen, Opened
  <2>3. \A p \in DOMAIN requests' : p <= new
    BY <1>2
  <2>4. QED
    BY <1>4, <2>1, <2>2, <2>3 DEF UsedWhileOpen, Opened
<1>7. NothingBefore(s, z, g)
  BY DEF NothingBefore, Opened
<1>8. AsksAsItCan(s, requests') /\ WritesInOrder(s, z, requests', results')
  BY <1>2 DEF Sound, Asked, AsksAsItCan, WritesInOrder, Is
<1>9. ReadsInTurn(s, z, requests', results')
  BY DEF ReadsInTurn
<1>10. HandleOwned(s, requests, said)'
  BY <1>2, <1>3 DEF Sound, Served, HandleOwned, OpenedFor, ClosedFor, Is
<1>11. FileWrittenSoFar(s, z, requests, said)'
  BY <1>2, <1>3 DEF Sound, Served, FileWrittenSoFar, WrittenAhead, OpenedFor, Is
<1>12. GotFromFile(s, z, g)' /\ ReadsOn(s, z, g, requests, results, said)'
  BY DEF Sound, Served, GotFromFile, ReadsOn
<1>13. LeakFree(s, z, requests, results, said)'
  BY <1>2 DEF Sound, Served, LeakFree, Is
<1>14. QED
  BY <1>5, <1>6, <1>7, <1>8, <1>9, <1>10, <1>11, <1>12, <1>13 DEF SoundAfter, Asked, Served

\* The request to write the next chunk leaves its write stream sound and busy with that chunk.
LEMMA AsksToWrite ==
  ASSUME NEW s \in Writers, NEW y \in States, NEW z \in States, NEW g, NEW settled, NEW r,
         Sound(s, y, g, settled), Still,
         AsksFor(r, settled), r.op = "FILE_WRITE", r.stream = s, r.handle = y.handle, r.chunk = Chunk(s, y.done + 1),
         \A p \in DOMAIN requests : Is(requests, p, "FILE_WRITE", s) => requests[p].chunk.n <= y.done,
         \A p \in DOMAIN requests : requests[p] \in Requests,
         y.given > y.done, y.phase = "open", z.phase = "open", z.busy, Like(z, y)
  PROVE  SoundAfter(s, z, g)
<1> USE DEF Like, Still
<1> DEFINE new == Len(requests) + 1
<1>1. \A p \in DOMAIN requests : ~Is(requests, p, "FILE_CLOSE", s)
  BY DEF Sound, Asked, UsedWhileOpen
<1>2. /\ DOMAIN requests' = DOMAIN requests \cup {new} /\ requests'[new] = r
      /\ said'[new] = Pending /\ results'[new] = Pending
      /\ \A p \in DOMAIN requests : p < new
      /\ \A p \in DOMAIN requests : requests'[p] = requests[p] /\ said'[p] = said[p] /\ results'[p] = settled[p]
      /\ new \in Nat /\ new \notin DOMAIN requests
  BY DEF AsksFor
<1>3. Pending.kind = "pending"
  BY AnswerKinds
<1> HIDE DEF new
<1>4. y.done \in Nat /\ y.given \in Nat /\ s \in Streams /\ s \notin Readers
  BY AfcAssumption DEF States, Streams
<1>5. OpenedOnce(s, z, requests', results')
  BY <1>2 DEF Sound, Asked, OpenedOnce, Opened, Is
<1>6. UsedWhileOpen(s, z, requests', results')
  BY <1>1, <1>2 DEF Sound, Asked, UsedWhileOpen, Opened, Is
<1>7. NothingBefore(s, z, g)
  BY DEF NothingBefore, Opened
<1>8. AsksAsItCan(s, requests')
  BY <1>2 DEF Sound, Asked, AsksAsItCan, Is
<1>9. WritesInOrder(s, z, requests', results')
  <2>1. y.done <= y.given /\ y.given <= MaxChunks /\ (y.finished => y.ended /\ y.done = y.given)
    BY DEF Sound, Asked, WritesInOrder
  <2>2. \A p \in DOMAIN requests : Is(requests, p, "FILE_WRITE", s) =>
         /\ requests[p].chunk = Chunk(s, requests[p].chunk.n)
         /\ requests[p].chunk.n \in 1 .. y.done + 1 /\ requests[p].chunk.n <= y.given
         /\ requests[p].chunk.n <= y.done => settled[p].kind = "ok"
         /\ \A q \in DOMAIN requests : Is(requests, q, "FILE_WRITE", s) /\ requests[q].chunk.n = requests[p].chunk.n => p = q
    BY DEF Sound, Asked, WritesInOrder
  <2>3. r.chunk = Chunk(s, r.chunk.n) /\ r.chunk.n = y.done + 1
    BY <1>4, AnswerKinds
  <2>4. \A p \in DOMAIN requests : Is(requests, p, "FILE_WRITE", s) => requests[p].chunk.n \in Nat
    BY DEF Requests, Chunks
  <2>5. ASSUME NEW p \in DOMAIN requests', Is(requests', p, "FILE_WRITE", s)
        PROVE  /\ requests'[p].chunk = Chunk(s, requests'[p].chunk.n)
               /\ requests'[p].chunk.n \in 1 .. y.done + 1 /\ requests'[p].chunk.n <= y.given
               /\ requests'[p].chunk.n <= y.done => results'[p].kind = "ok"
    <3>1. CASE p = new
      BY <1>2, <1>4, <2>3, <3>1
    <3>2. CASE p \in DOMAIN requests
      BY <1>2, <2>2, <2>5, <3>2 DEF Is
    <3>3. QED
      BY <1>2, <3>1, <3>2
  <2>6. ASSUME NEW p \in DOMAIN requests', Is(requests', p, "FILE_WRITE", s),
               NEW q \in DOMAIN requests', Is(requests', q, "FILE_WRITE", s), requests'[q].chunk.n = requests'[p].chunk.n
        PROVE  p = q
    <3>1. \A i \in DOMAIN requests : Is(requests', i, "FILE_WRITE", s) => requests'[i].chunk.n # r.chunk.n
      BY <1>2, <1>4, <2>3, <2>4 DEF Is
    <3>2. CASE p = new \/ q = new
      BY <1>2, <2>6, <3>1, <3>2
    <3>3. CASE p \in DOMAIN requests /\ q \in DOMAIN requests
      BY <1>2, <2>2, <2>6, <3>3 DEF Is
    <3>4. QED
      BY <1>2, <3>2, <3>3
  <2>7. QED
    BY <2>1, <2>5, <2>6 DEF WritesInOrder
<1>10. ReadsInTurn(s, z, requests', results')
  BY <1>4 DEF ReadsInTurn
<1>11. HandleOwned(s, requests, said)'
  BY <1>2, <1>3 DEF Sound, Served, HandleOwned, OpenedFor, ClosedFor, Is
<1>12. FileWrittenSoFar(s, z, requests, said)'
  BY <1>2, <1>3 DEF Sound, Served, FileWrittenSoFar, WrittenAhead, OpenedFor, Is
<1>13. GotFromFile(s, z, g)' /\ ReadsOn(s, z, g, requests, results, said)'
  BY <1>4 DEF GotFromFile, ReadsOn
<1>14. LeakFree(s, z, requests, results, said)'
  BY <1>2 DEF Sound, Served, LeakFree, Is
<1>15. QED
  BY <1>5, <1>6, <1>7, <1>8, <1>9, <1>10, <1>11, <1>12, <1>13, <1>14 DEF SoundAfter, Asked, Served

\* The request to read leaves its read stream sound and busy.
LEMMA AsksToRead ==
  ASSUME NEW s \in Readers, NEW y, NEW z, NEW g, NEW settled, NEW r,
         Sound(s, y, g, settled), Still,
         AsksFor(r, settled), r.op = "FILE_READ", r.stream = s, r.handle = y.handle,
         y.phase = "open", ~y.busy, z.phase = "open", z.busy, Like(z, y)
  PROVE  SoundAfter(s, z, g)
<1> USE DEF Like, Still
<1> DEFINE new == Len(requests) + 1
<1>1. \A p \in DOMAIN requests : ~Is(requests, p, "FILE_CLOSE", s)
  BY DEF Sound, Asked, UsedWhileOpen
<1>2. /\ DOMAIN requests' = DOMAIN requests \cup {new} /\ requests'[new] = r
      /\ said'[new] = Pending /\ results'[new] = Pending
      /\ \A p \in DOMAIN requests : p < new
      /\ \A p \in DOMAIN requests : requests'[p] = requests[p] /\ said'[p] = said[p] /\ results'[p] = settled[p]
      /\ new \in Nat /\ new \notin DOMAIN requests
  BY DEF AsksFor
<1>3. Pending.kind = "pending"
  BY AnswerKinds
<1> HIDE DEF new
<1>4. s \in Streams /\ s \notin Writers
  BY AfcAssumption DEF Streams
<1>5. OpenedOnce(s, z, requests', results')
  BY <1>2 DEF Sound, Asked, OpenedOnce, Opened, Is
<1>6. UsedWhileOpen(s, z, requests', results')
  BY <1>1, <1>2 DEF Sound, Asked, UsedWhileOpen, Opened, Is
<1>7. NothingBefore(s, z, g)
  BY DEF NothingBefore, Opened
<1>8. AsksAsItCan(s, requests')
  BY <1>2 DEF Sound, Asked, AsksAsItCan, Is
<1>9. WritesInOrder(s, z, requests', results')
  BY <1>4 DEF WritesInOrder
<1>10. \A p \in DOMAIN requests' : Is(requests', p, "FILE_READ", s) /\ results'[p].kind # "ok" => p = new
  BY <1>2 DEF Sound, Asked, ReadsInTurn, Is
<1>11. ReadsInTurn(s, z, requests', results')
  BY <1>10 DEF ReadsInTurn
<1>12. HandleOwned(s, requests, said)'
  BY <1>2, <1>3 DEF Sound, Served, HandleOwned, OpenedFor, ClosedFor, Is
<1>13. FileWrittenSoFar(s, z, requests, said)'
  BY <1>4 DEF FileWrittenSoFar
<1>14. GotFromFile(s, z, g)'
  BY DEF Sound, Served, GotFromFile
<1>15. ReadsOn(s, z, g, requests, results, said)'
  BY <1>2, <1>3, <1>10 DEF Sound, Served, ReadsOn, OpenedFor, Is
<1>16. LeakFree(s, z, requests, results, said)'
  BY <1>2 DEF Sound, Served, LeakFree, Is
<1>17. QED
  BY <1>5, <1>6, <1>7, <1>8, <1>9, <1>11, <1>12, <1>13, <1>14, <1>15, <1>16 DEF SoundAfter, Asked, Served


---------------------------------------------------------------------------
(* The contents of files.                                                  *)

\* The content of a stream is MaxChunks chunks, and each beginning of it is a sequence of chunks.
LEMMA Contents ==
  ASSUME NEW s \in Streams
  PROVE  /\ Content(s) \in Seq(Chunks) /\ Len(Content(s)) = MaxChunks
         /\ \A n \in 0 .. MaxChunks : SubSeq(Content(s), 1, n) \in Seq(Chunks) /\ Len(SubSeq(Content(s), 1, n)) = n
         /\ SubSeq(Content(s), 1, 0) = <<>>
         /\ \A n \in 0 .. MaxChunks - 1 :
              Append(SubSeq(Content(s), 1, n), Chunk(s, n + 1)) = SubSeq(Content(s), 1, n + 1)
<1>1. MaxChunks \in Nat /\ \A i \in 1 .. MaxChunks : Chunk(s, i) \in Chunks
  BY AfcAssumption, AnswerKinds
<1>2. Content(s) \in Seq(Chunks) /\ Len(Content(s)) = MaxChunks /\ \A i \in 1 .. MaxChunks : Content(s)[i] = Chunk(s, i)
  BY <1>1 DEF Content
<1>3. \A n \in 0 .. MaxChunks :
        /\ SubSeq(Content(s), 1, n) \in Seq(Chunks) /\ Len(SubSeq(Content(s), 1, n)) = n
        /\ \A i \in 1 .. n : SubSeq(Content(s), 1, n)[i] = Chunk(s, i)
  BY <1>1, <1>2, SubSeqProperties
<1>4. ASSUME NEW n \in 0 .. MaxChunks - 1
      PROVE  Append(SubSeq(Content(s), 1, n), Chunk(s, n + 1)) = SubSeq(Content(s), 1, n + 1)
  <2> DEFINE a == Append(SubSeq(Content(s), 1, n), Chunk(s, n + 1))
  <2> DEFINE b == SubSeq(Content(s), 1, n + 1)
  <2>1. n \in 0 .. MaxChunks /\ n + 1 \in 0 .. MaxChunks /\ n + 1 \in 1 .. MaxChunks
    BY <1>1
  <2>2. SubSeq(Content(s), 1, n) \in Seq(Chunks) /\ Len(SubSeq(Content(s), 1, n)) = n /\ Chunk(s, n + 1) \in Chunks
    BY <1>1, <1>3, <2>1
  <2>3. /\ a \in Seq(Chunks) /\ Len(a) = n + 1 /\ a[n + 1] = Chunk(s, n + 1)
        /\ \A i \in 1 .. n : a[i] = SubSeq(Content(s), 1, n)[i]
    BY <2>2, AppendProperties
  <2>4. b \in Seq(Chunks) /\ Len(b) = n + 1 /\ \A i \in 1 .. n + 1 : b[i] = Chunk(s, i)
    BY <1>3, <2>1
  <2> HIDE DEF a, b
  <2>5. \A i \in 1 .. n + 1 : a[i] = b[i]
    BY <1>3, <2>1, <2>3, <2>4
  <2>6. a = b
    BY <2>3, <2>4, <2>5, SeqEqual
  <2>7. QED
    BY <2>6 DEF a, b
<1>5. SubSeq(Content(s), 1, 0) = <<>>
  BY <1>1, <1>3, EmptySeq
<1>6. QED
  BY <1>2, <1>3, <1>4, <1>5

---------------------------------------------------------------------------
(* What the user and Node decide, before a request is made for it.         *)

\* write() and end(): one more chunk is given, or the stream is ended.
LEMMA GivenOrEnded ==
  ASSUME NEW s \in Writers, NEW x \in States, NEW y \in States, NEW g, Sound(s, x, g, results),
         x.phase = "open", y.phase = "open", ~x.ended, x.given < MaxChunks \/ y.given = x.given,
         y.given \in {x.given, x.given + 1}, y.handle = x.handle, y.done = x.done, y.busy = x.busy,
         y.errored = x.errored, y.finished = x.finished
  PROVE  Sound(s, y, g, results)
<1>1. s \notin Readers /\ MaxChunks \in Nat /\ x.done \in Nat /\ x.given \in Nat
  BY AfcAssumption DEF States
<1>2. OpenedOnce(s, y, requests, results) /\ UsedWhileOpen(s, y, requests, results)
  BY DEF Sound, Asked, OpenedOnce, UsedWhileOpen
<1>3. NothingBefore(s, y, g) /\ AsksAsItCan(s, requests) /\ ReadsInTurn(s, y, requests, results)
  BY <1>1 DEF Sound, Asked, NothingBefore, Opened, ReadsInTurn
<1>4. \A p \in DOMAIN requests : Is(requests, p, "FILE_WRITE", s) => requests[p].chunk.n \in Nat /\ requests[p].chunk.n <= y.given
  BY <1>1 DEF Sound, Asked, WritesInOrder
<1>5. WritesInOrder(s, y, requests, results)
  BY <1>1, <1>4 DEF Sound, Asked, WritesInOrder
<1>6. Served(s, y, g, requests, results, said)
  BY <1>1 DEF Sound, Served, FileWrittenSoFar, WrittenAhead, GotFromFile, ReadsOn, LeakFree
<1>7. QED
  BY <1>2, <1>3, <1>5, <1>6 DEF Sound, Asked

\* 'finish'.
LEMMA FinishedInOrder ==
  ASSUME NEW s \in Writers, NEW y \in States, NEW z \in States, NEW g, NEW settled, Sound(s, y, g, settled),
         y.given = y.done, y.ended, z.ended, z.phase = y.phase, y.phase = "open",
         z.handle = y.handle, z.given = y.given, z.done = y.done, z.busy = y.busy, z.errored = y.errored
  PROVE  Sound(s, z, g, settled)
<1>1. s \notin Readers
  BY AfcAssumption
<1>2. OpenedOnce(s, z, requests, settled) /\ UsedWhileOpen(s, z, requests, settled)
  BY DEF Sound, Asked, OpenedOnce, UsedWhileOpen
<1>3. NothingBefore(s, z, g) /\ AsksAsItCan(s, requests) /\ ReadsInTurn(s, z, requests, settled)
  BY <1>1 DEF Sound, Asked, NothingBefore, Opened, ReadsInTurn
<1>4. WritesInOrder(s, z, requests, settled)
  BY DEF Sound, Asked, WritesInOrder
<1>5. Served(s, z, g, requests, settled, said)
  BY <1>1 DEF Sound, Served, FileWrittenSoFar, WrittenAhead, GotFromFile, ReadsOn, LeakFree
<1>6. QED
  BY <1>2, <1>3, <1>4, <1>5 DEF Sound, Asked

\* A stream that is idle has asked for none of the chunks to come.
LEMMA IdleAskedForNone ==
  ASSUME NEW s \in Writers, NEW y \in States, NEW g, NEW settled, Sound(s, y, g, settled),
         \A p \in DOMAIN requests : requests[p] \in Requests,
         y.phase = "open", ~y.busy, ~y.errored
  PROVE  \A p \in DOMAIN requests : Is(requests, p, "FILE_WRITE", s) => requests[p].chunk.n <= y.done
<1>1. \A p \in DOMAIN requests : requests[p].chunk.n \in Nat
  BY DEF Requests, Chunks
<1>2. y.done \in Nat
  BY DEF States
<1>3. QED
  BY <1>1, <1>2 DEF Sound, Asked, WritesInOrder


---------------------------------------------------------------------------
(* A request p is settled, late or with the device's answer to it.         *)

SettledAs(p, result, settled) ==
  /\ p \in DOMAIN requests /\ results[p] = Pending /\ settled[p] = result
  /\ \A q \in DOMAIN requests : q # p => settled[q] = results[q]
  /\ \/ result = Late
     \/ result = said[p] /\ result.kind \in {"ok", "refused"}

\* A settled promise is answered, refused or timed out, never pending.
LEMMA Kinds ==
  /\ Pending.kind = "pending" /\ Late.kind = "timedOut" /\ Refused.kind = "refused"
  /\ \A p, result, settled : SettledAs(p, result, settled) => result.kind \in {"ok", "refused", "timedOut"}
BY AnswerKinds DEF SettledAs

\* openFile is through.
LEMMA OpenSettled ==
  ASSUME NEW s \in Streams, NEW x, NEW y, NEW g, NEW p, NEW result, NEW settled,
         Sound(s, x, g, results), HandlesKnown, SettledAs(p, result, settled), Is(requests, p, "FILE_OPEN", s),
         y.phase = IF result.kind = "ok" THEN "open" ELSE "failed",
         result.kind = "ok" => y.handle = result.handle,
         y.given = x.given, y.done = x.done, y.busy = x.busy, y.ended = x.ended, y.errored = x.errored, y.finished = x.finished
  PROVE  Sound(s, y, g, settled)
<1>1. /\ \A q \in DOMAIN requests : Is(requests, q, "FILE_OPEN", s) => q = p
      /\ x.phase = "opening" /\ p \in DOMAIN requests
  BY DEF Sound, Asked, OpenedOnce, SettledAs
<1>2. \A q \in DOMAIN requests : requests[q].stream = s => requests[q].op = "FILE_OPEN" /\ q = p
  BY <1>1 DEF Sound, Asked, UsedWhileOpen, Opened, Is
<1>3. settled[p] = result /\ result.kind \in {"ok", "refused", "timedOut"} /\ result # Pending /\ result.kind # "pending"
  BY Kinds DEF SettledAs
<1>4. OpenedOnce(s, y, requests, settled)
  BY <1>1, <1>3 DEF OpenedOnce, Opened
<1>5. UsedWhileOpen(s, y, requests, settled)
  BY <1>1, <1>2, <1>3 DEF UsedWhileOpen, Opened, Is
<1>6. NothingBefore(s, y, g)
  BY <1>1 DEF Sound, Asked, NothingBefore, Opened
<1>7. AsksAsItCan(s, requests) /\ WritesInOrder(s, y, requests, settled) /\ ReadsInTurn(s, y, requests, settled)
  BY <1>2 DEF Sound, Asked, AsksAsItCan, WritesInOrder, ReadsInTurn, Is
<1>8. HandleOwned(s, requests, said) /\ FileWrittenSoFar(s, y, requests, said) /\ GotFromFile(s, y, g)
  BY <1>1 DEF Sound, Served, FileWrittenSoFar, WrittenAhead, GotFromFile
<1>9. ReadsOn(s, y, g, requests, settled, said)
  BY <1>1, <1>2 DEF Sound, Served, ReadsOn, Is
<1>10. LeakFree(s, y, requests, settled, said)
  <2>1. ASSUME NEW h \in DOMAIN handles, handles[h].file = s
        PROVE  (y.phase = "open" /\ y.handle = h) \/ settled[p] = Late
    <3>1. PICK q \in DOMAIN requests : OpenedFor(s, q, requests, said) /\ said[q].handle = h
      BY <2>1 DEF HandlesKnown
    <3>2. q = p /\ said[p].kind = "ok" /\ said[p].handle = h
      BY <1>1, <3>1 DEF OpenedFor
    <3>3. QED
      BY <1>3, <3>2 DEF SettledAs
  <2>2. QED
    BY <1>1, <2>1 DEF LeakFree
<1>11. QED
  BY <1>4, <1>5, <1>6, <1>7, <1>8, <1>9, <1>10 DEF Sound, Asked, Served

\* What was settled is not the open: what holds by then, whatever becomes of it.
LEMMA UseSettled ==
  ASSUME NEW s \in Streams, NEW x, NEW y, NEW g, NEW g2, NEW p, NEW result, NEW settled,
         Sound(s, x, g, results), SettledAs(p, result, settled), requests[p].stream = s, requests[p].op # "FILE_OPEN",
         x.phase = y.phase \/ (y.phase = "closed" /\ x.phase # "open"), y.handle = x.handle
  PROVE  /\ x.phase \in Opened /\ y.phase \in Opened
         /\ OpenedOnce(s, y, requests, settled) /\ UsedWhileOpen(s, y, requests, settled) /\ NothingBefore(s, y, g2)
         /\ AsksAsItCan(s, requests)
         /\ HandleOwned(s, requests, said) /\ LeakFree(s, y, requests, settled, said)
<1>1. \A q \in DOMAIN requests : Is(requests, q, "FILE_OPEN", s) => settled[q] = results[q]
  BY DEF SettledAs, Is
<1>2. x.phase \in Opened /\ y.phase \in Opened
  BY DEF Sound, Asked, UsedWhileOpen, SettledAs, Opened
<1>3. OpenedOnce(s, y, requests, settled)
  BY <1>1, <1>2 DEF Sound, Asked, OpenedOnce, Opened
<1>4. UsedWhileOpen(s, y, requests, settled)
  BY <1>1, <1>2 DEF Sound, Asked, UsedWhileOpen, Opened
<1>5. NothingBefore(s, y, g2)
  BY <1>2 DEF NothingBefore
<1>6. LeakFree(s, y, requests, settled, said)
  BY <1>1, <1>2 DEF Sound, Served, LeakFree, Opened
<1>7. QED
  BY <1>2, <1>3, <1>4, <1>5, <1>6 DEF Sound, Asked, Served

\* The callback of a _write was called: the chunk is written, or the stream has
\* failed or is not open any more.
LEMMA WriteSettled ==
  ASSUME NEW s \in Streams, NEW x \in States, NEW y \in States, NEW g, NEW p, NEW result, NEW settled,
         \A q \in DOMAIN requests : requests[q] \in Requests,
         Sound(s, x, g, results), SettledAs(p, result, settled), Is(requests, p, "FILE_WRITE", s),
         y.phase = x.phase, y.handle = x.handle, ~y.busy, y.given = x.given, y.ended = x.ended, y.finished = x.finished,
         \/ x.phase # "open" /\ y.done = x.done /\ y.errored = x.errored
         \/ x.phase = "open" /\ result.kind = "ok" /\ y.done = x.done + 1 /\ y.errored = x.errored
         \/ x.phase = "open" /\ result.kind # "ok" /\ y.done = x.done /\ y.errored
  PROVE  /\ Sound(s, y, g, settled) /\ s \in Writers
         /\ y.done = x.done + 1 => \A q \in DOMAIN requests : Is(requests, q, "FILE_WRITE", s) => requests[q].chunk.n <= y.done
<1>1. s \in Writers /\ s \notin Readers /\ p \in DOMAIN requests /\ settled[p] = result /\ MaxChunks \in Nat
  BY AfcAssumption DEF Sound, Asked, AsksAsItCan, SettledAs
<1>2. x.done \in Nat /\ x.given \in Nat /\ \A q \in DOMAIN requests : requests[q].chunk.n \in Nat
  BY DEF States, Requests, Chunks
<1>3. requests[p].stream = s /\ requests[p].op # "FILE_OPEN"
  BY DEF Is
<1>4. /\ x.phase \in Opened /\ y.phase \in Opened
      /\ OpenedOnce(s, y, requests, settled) /\ UsedWhileOpen(s, y, requests, settled) /\ NothingBefore(s, y, g)
      /\ AsksAsItCan(s, requests)
      /\ HandleOwned(s, requests, said) /\ LeakFree(s, y, requests, settled, said)
  BY <1>3, UseSettled
<1>5. /\ x.done <= x.given /\ x.given <= MaxChunks /\ (x.finished => x.ended /\ x.done = x.given)
      /\ \A q \in DOMAIN requests : Is(requests, q, "FILE_WRITE", s) =>
         /\ requests[q].chunk = Chunk(s, requests[q].chunk.n)
         /\ requests[q].chunk.n \in 1 .. x.done + 1 /\ requests[q].chunk.n <= x.given
         /\ requests[q].chunk.n <= x.done => results[q].kind = "ok"
         /\ x.phase = "open" /\ ~x.errored /\ requests[q].chunk.n = x.done + 1 => x.busy
         /\ \A i \in DOMAIN requests : Is(requests, i, "FILE_WRITE", s) /\ requests[i].chunk.n = requests[q].chunk.n => q = i
  BY <1>1 DEF Sound, Asked, WritesInOrder
<1>6. results[p].kind # "ok"
  BY Kinds DEF SettledAs
<1>7. requests[p].chunk.n = x.done + 1 /\ x.done + 1 <= x.given /\ ~x.finished
  BY <1>1, <1>2, <1>5, <1>6
<1>8. \A q \in DOMAIN requests : Is(requests, q, "FILE_WRITE", s) /\ requests[q].chunk.n <= x.done => settled[q].kind = "ok"
  BY <1>5, <1>6 DEF SettledAs
<1>9. WritesInOrder(s, y, requests, settled)
  <2>1. CASE y.done = x.done
    BY <1>1, <1>2, <1>5, <1>7, <1>8, <2>1 DEF WritesInOrder
  <2>2. CASE y.done = x.done + 1 /\ result.kind = "ok"
    <3>1. \A q \in DOMAIN requests : Is(requests, q, "FILE_WRITE", s) =>
            requests[q].chunk.n <= y.done /\ settled[q].kind = "ok" /\ requests[q].chunk.n \in 1 .. y.done + 1 /\ requests[q].chunk.n # y.done + 1
      <4>1. ASSUME NEW q \in DOMAIN requests, Is(requests, q, "FILE_WRITE", s) PROVE settled[q].kind = "ok"
        <5>1. requests[q].chunk.n <= x.done \/ requests[q].chunk.n = requests[p].chunk.n
          BY <1>2, <1>5, <1>7, <4>1
        <5>2. QED
          BY <1>1, <1>5, <1>8, <2>2, <4>1, <5>1
      <4>2. QED
        BY <1>2, <1>5, <2>2, <4>1
    <3>2. QED
      BY <1>1, <1>2, <1>5, <1>7, <2>2, <3>1 DEF WritesInOrder
  <2>3. QED
    BY <2>1, <2>2
<1>10. FileWrittenSoFar(s, y, requests, said)
  <2>1. CASE y.done = x.done
    BY <2>1 DEF Sound, Served, FileWrittenSoFar, WrittenAhead
  <2>2. CASE y.done = x.done + 1 /\ result.kind = "ok"
    <3>1. said[p].kind = "ok"
      BY <2>2, Kinds DEF SettledAs
    <3>2. WrittenAhead(s, x, requests, said)
      BY <1>1, <1>7, <3>1 DEF WrittenAhead
    <3>3. ~WrittenAhead(s, y, requests, said)
      BY <1>2, <1>5, <2>2 DEF WrittenAhead
    <3>4. QED
      BY <2>2, <3>2, <3>3 DEF Sound, Served, FileWrittenSoFar
  <2>3. QED
    BY <2>1, <2>2
<1>11. ReadsInTurn(s, y, requests, settled) /\ GotFromFile(s, y, g) /\ ReadsOn(s, y, g, requests, settled, said)
  BY <1>1 DEF ReadsInTurn, GotFromFile, ReadsOn
<1>12. QED
  BY <1>1, <1>2, <1>4, <1>5, <1>9, <1>10, <1>11 DEF Sound, Asked, Served

\* _read is through: the chunk is pushed, or the end, or the read has failed or the
\* stream is not open any more.
LEMMA ReadSettled ==
  ASSUME NEW s \in Streams, NEW x \in States, NEW y \in States, NEW g, NEW g2, NEW p, NEW result, NEW settled,
         OwnResponse, DOMAIN results = DOMAIN requests, s \in Readers => g \in Seq(Chunks),
         Sound(s, x, g, results), SettledAs(p, result, settled), Is(requests, p, "FILE_READ", s),
         y.phase = x.phase, y.handle = x.handle, y.given = x.given, y.done = x.done, y.finished = x.finished,
         \/ x.phase # "open" /\ y.ended = x.ended /\ g2 = g
         \/ x.phase = "open" /\ result.kind = "ok" /\ ~y.busy /\ y.ended /\ result.chunk = Nothing /\ g2 = g
         \/ x.phase = "open" /\ result.kind = "ok" /\ ~y.busy /\ ~y.ended /\ result.chunk # Nothing /\ g2 = Append(g, result.chunk)
         \/ x.phase = "open" /\ result.kind # "ok" /\ y.busy = x.busy /\ y.ended = x.ended /\ g2 = g
  PROVE  Sound(s, y, g2, settled) /\ s \in Readers
<1>1. s \in Readers /\ s \notin Writers /\ p \in DOMAIN requests /\ settled[p] = result /\ results[p] = Pending /\ MaxChunks \in Nat
  BY AfcAssumption DEF Sound, Asked, AsksAsItCan, SettledAs
<1>2. requests[p].stream = s /\ requests[p].op # "FILE_OPEN"
  BY DEF Is
<1>3. /\ x.phase \in Opened /\ y.phase \in Opened
      /\ OpenedOnce(s, y, requests, settled) /\ UsedWhileOpen(s, y, requests, settled) /\ NothingBefore(s, y, g2)
      /\ AsksAsItCan(s, requests)
      /\ HandleOwned(s, requests, said) /\ LeakFree(s, y, requests, settled, said)
  BY <1>2, UseSettled
<1>4. /\ files[s] = Content(s) /\ Len(g) <= MaxChunks /\ g = SubSeq(Content(s), 1, Len(g))
      /\ x.phase = "open" /\ x.ended => Len(g) = MaxChunks
  BY <1>1 DEF Sound, Served, GotFromFile
<1>5. WritesInOrder(s, y, requests, settled) /\ FileWrittenSoFar(s, y, requests, said)
  BY <1>1 DEF WritesInOrder, FileWrittenSoFar
<1>6. CASE x.phase # "open"
  <2>1. g2 = g /\ y.ended = x.ended
    BY <1>6
  <2>2. GotFromFile(s, y, g2)
    BY <1>3, <1>4, <1>6, <2>1 DEF GotFromFile, Opened
  <2>3. ReadsInTurn(s, y, requests, settled) /\ ReadsOn(s, y, g2, requests, settled, said)
    BY <1>3, <1>6 DEF ReadsInTurn, ReadsOn, Opened
  <2>4. QED
    BY <1>1, <1>3, <1>5, <2>2, <2>3 DEF Sound, Asked, Served
<1>7. CASE x.phase = "open"
  <2>1. x.busy /\ \A q \in DOMAIN requests : Is(requests, q, "FILE_READ", s) /\ results[q].kind # "ok" => p = q
    BY <1>1, <1>7, Kinds DEF Sound, Asked, ReadsInTurn
  <2>2. \A q \in DOMAIN requests : Is(requests, q, "FILE_READ", s) /\ settled[q].kind # "ok" => p = q /\ result.kind # "ok"
    BY <1>1, <2>1 DEF SettledAs
  <2>3. ReadsInTurn(s, y, requests, settled)
    BY <1>7, <2>1, <2>2 DEF ReadsInTurn
  <2>4. \A q \in DOMAIN requests : Is(requests, q, "FILE_READ", s) => settled[q] # Pending
    BY <1>1, <2>2, Kinds
  <2>5. CASE result.kind # "ok"
    <3>1. g2 = g /\ y.ended = x.ended /\ y.busy
      BY <1>7, <2>1, <2>5
    <3>2. GotFromFile(s, y, g2)
      BY <1>4, <1>7, <3>1 DEF GotFromFile
    <3>3. ReadsOn(s, y, g2, requests, settled, said)
      BY <2>4, <3>1 DEF ReadsOn
    <3>4. QED
      BY <1>1, <1>3, <1>5, <2>3, <3>2, <3>3 DEF Sound, Asked, Served
  <2>6. CASE result.kind = "ok"
    <3>1. result = said[p] /\ said[p].kind = "ok"
      BY <2>6, Kinds DEF SettledAs
    <3>2. \A q \in DOMAIN requests : OpenedFor(s, q, requests, said) => Ahead(s, g, result, said[q].handle)
      BY <1>1, <1>7, <3>1 DEF Sound, Served, ReadsOn
    <3>3. PICK o \in DOMAIN requests : Is(requests, o, "FILE_OPEN", s) /\ results[o].kind = "ok"
      BY <1>3 DEF Sound, Asked, UsedWhileOpen
    <3>4. OpenedFor(s, o, requests, said)
      BY <3>3, Kinds DEF OwnResponse, OpenedFor
    <3>5. Ahead(s, g, result, said[o].handle)
      BY <3>2, <3>4
    <3>6. Len(g) \in Nat /\ \A i \in Nat : Chunk(s, i) # Nothing
      BY <1>1, AnswerKinds
    <3>7. GotFromFile(s, y, g2) /\ \A q \in DOMAIN requests : OpenedFor(s, q, requests, said) => handles[said[q].handle].pos = Len(g2)
      <4>1. CASE result.chunk = Nothing
        <5>1. g2 = g
          BY <1>7, <2>6, <4>1
        <5>2. Nothing # Chunk(s, Len(g) + 1)
          BY <3>6
        <5>3. QED
          BY <1>4, <3>2, <3>5, <4>1, <5>1, <5>2 DEF Ahead, GotFromFile
      <4>2. CASE result.chunk # Nothing
        <5>1. g2 = Append(g, result.chunk) /\ ~y.ended
          BY <1>7, <2>6, <4>2
        <5>2. result.chunk = Chunk(s, Len(g) + 1) /\ Len(g) < MaxChunks
          BY <3>5, <4>2 DEF Ahead
        <5>3. Len(g) \in 0 .. MaxChunks - 1 /\ Len(g) + 1 \in 0 .. MaxChunks
          BY <1>1, <3>6, <5>2
        <5>4. g2 = SubSeq(Content(s), 1, Len(g) + 1) /\ Len(g2) = Len(g) + 1
          BY <1>4, <5>1, <5>2, <5>3, Contents
        <5>5. Len(g2) <= MaxChunks /\ g2 = SubSeq(Content(s), 1, Len(g2))
          BY <1>1, <5>3, <5>4
        <5>6. GotFromFile(s, y, g2)
          BY <1>4, <5>1, <5>5 DEF GotFromFile
        <5>7. \A q \in DOMAIN requests : OpenedFor(s, q, requests, said) => handles[said[q].handle].pos = Len(g2)
          BY <3>2, <4>2, <5>4 DEF Ahead
        <5>8. QED
          BY <5>6, <5>7
      <4>3. QED
        BY <4>1, <4>2
    <3>8. ReadsOn(s, y, g2, requests, settled, said)
      BY <2>4, <3>7 DEF ReadsOn
    <3>9. QED
      BY <1>1, <1>3, <1>5, <2>3, <3>7, <3>8 DEF Sound, Asked, Served
  <2>7. QED
    BY <2>5, <2>6
<1>8. QED
  BY <1>6, <1>7

\* The 'close' event.
LEMMA CloseSettled ==
  ASSUME NEW s \in Streams, NEW x \in States, NEW y \in States, NEW g, NEW p, NEW result, NEW settled,
         Sound(s, x, g, results), SettledAs(p, result, settled), Is(requests, p, "FILE_CLOSE", s),
         y.phase = "closed", y.busy = x.busy, Like(y, x)
  PROVE  Sound(s, y, g, settled)
<1> USE DEF Like
<1>1. requests[p].stream = s /\ requests[p].op # "FILE_OPEN" /\ p \in DOMAIN requests /\ x.phase # "open"
  BY DEF Is, SettledAs, Sound, Asked, UsedWhileOpen
<1>2. /\ OpenedOnce(s, y, requests, settled) /\ UsedWhileOpen(s, y, requests, settled) /\ NothingBefore(s, y, g)
      /\ AsksAsItCan(s, requests)
      /\ HandleOwned(s, requests, said) /\ LeakFree(s, y, requests, settled, said)
  BY <1>1, UseSettled
<1>3. \A q \in DOMAIN requests : Is(requests, q, "FILE_WRITE", s) => settled[q] = results[q]
  BY DEF SettledAs, Is
<1>4. WritesInOrder(s, y, requests, settled)
  BY <1>3 DEF Sound, Asked, WritesInOrder
<1>5. ReadsInTurn(s, y, requests, settled) /\ ReadsOn(s, y, g, requests, settled, said)
  BY DEF ReadsInTurn, ReadsOn
<1>6. FileWrittenSoFar(s, y, requests, said) /\ GotFromFile(s, y, g)
  BY DEF Sound, Served, FileWrittenSoFar, WrittenAhead, GotFromFile
<1>7. QED
  BY <1>2, <1>4, <1>5, <1>6 DEF Sound, Asked, Served


---------------------------------------------------------------------------
(* Steps of the client.                                                    *)

\* What stream s has asked for, and what it has got by then.
Asking(s, callbacks, settled) ==
  \/ AsksNothing(callbacks, settled)
  \/ \E op \in Ops, h \in Handles \cup {NoHandle}, c \in Chunks : Asks(op, s, h, c, callbacks, settled)
Proceeds(s, g, callbacks, settled) ==
  \E z \in States : Becomes(s, z) /\ Asking(s, callbacks, settled) /\ SoundAfter(s, z, g)
GotAfter(s, g) ==
  /\ got' \in [Readers -> Seq(Chunks)] /\ \A t \in Readers \ {s} : got'[t] = got[t]
  /\ s \in Readers => got'[s] = g

\* A stream that goes on to a sound state without a request is sound.
LEMMA StaysSound ==
  ASSUME TypeOK, NEW s \in Streams, NEW y \in States, NEW g, NEW callbacks, NEW settled, Settling(s, callbacks, settled),
         Sound(s, y, g, settled), UNCHANGED <<handles, files>>, Becomes(s, y), AsksNothing(callbacks, settled)
  PROVE  Proceeds(s, g, callbacks, settled)
<1>1. AsksNoMore(settled) /\ socket' = socket
  BY DEF AsksNothing, AsksNoMore
<1>2. SameFor(s, settled)
  BY <1>1, OthersSame
<1>3. SoundAfter(s, y, g)
  BY <1>1, <1>2, KeptAsked, KeptServed DEF Sound, SoundAfter
<1>4. QED
  BY <1>3 DEF Proceeds, Asking

\* A stream that is destroyed while open is sound with its FILE_CLOSE sent.
LEMMA ClosesSoundly ==
  ASSUME TypeOK, AnswerInv, NEW s \in Streams, NEW y \in States, NEW g, NEW callbacks, NEW settled,
         Settling(s, callbacks, settled), Sound(s, y, g, settled), UNCHANGED <<handles, files>>,
         y.phase = "open", Destroyed(s, y, callbacks, settled)
  PROVE  Proceeds(s, g, callbacks, settled)
<1> DEFINE z == [y EXCEPT !.phase = "destroyed", !.ended = @ \/ s \in Readers]
<1>1. z \in States /\ z.phase = "destroyed" /\ z.busy = y.busy /\ EndsAs(z, y)
  BY DEF States, EndsAs
<1>2. Becomes(s, z) /\ Asks("FILE_CLOSE", s, y.handle, Nothing, callbacks, settled)
  BY DEF Destroyed
<1> HIDE DEF z
<1> DEFINE r == [op |-> "FILE_CLOSE", stream |-> s, handle |-> y.handle, chunk |-> Nothing]
<1>3. "FILE_CLOSE" \in Ops /\ y.handle \in Handles \cup {NoHandle} /\ Nothing \in Chunks
  BY AnswerKinds DEF Ops, States
<1>4. AsksFor(r, settled) /\ socket' \in {socket, "destroyed"}
  BY <1>2, <1>3, AsksEffect, Zenon
<1>5. r.op = "FILE_CLOSE" /\ r.stream = s /\ r.handle = y.handle
  OBVIOUS
<1> HIDE DEF r
<1>6. SoundAfter(s, z, g)
  BY <1>1, <1>4, <1>5, AsksToClose DEF Still
<1>7. QED
  BY <1>1, <1>2, <1>3, <1>6 DEF Proceeds, Asking

\* A write stream that takes its next chunk, or finishes, is sound.
LEMMA GoesOnSoundly ==
  ASSUME TypeOK, AnswerInv, NEW s \in Writers, NEW y \in States, NEW g, NEW callbacks, NEW settled,
         Settling(s, callbacks, settled), Sound(s, y, g, settled), UNCHANGED <<handles, files>>,
         y.phase = "open", GoesOn(s, y, callbacks, settled),
         \A p \in DOMAIN requests : Is(requests, p, "FILE_WRITE", s) => requests[p].chunk.n <= y.done
  PROVE  Proceeds(s, g, callbacks, settled)
<1>1. s \in Streams /\ y.done \in Nat /\ y.handle \in Handles \cup {NoHandle} /\ "FILE_WRITE" \in Ops
  BY DEF Streams, States, Ops
<1>2. \A p \in DOMAIN requests : requests[p] \in Requests
  BY Domains DEF TypeOK, Typed
<1>3. CASE /\ y.given > y.done
           /\ Becomes(s, [y EXCEPT !.busy = TRUE])
           /\ Asks("FILE_WRITE", s, y.handle, Chunk(s, y.done + 1), callbacks, settled)
  <2> DEFINE z == [y EXCEPT !.busy = TRUE]
  <2> DEFINE r == [op |-> "FILE_WRITE", stream |-> s, handle |-> y.handle, chunk |-> Chunk(s, y.done + 1)]
  <2>1. z \in States /\ z.phase = "open" /\ z.busy /\ Like(z, y)
    BY DEF States, Like
  <2>2. Becomes(s, z)
    BY <1>3
  <2> HIDE DEF z
  <2>3. Chunk(s, y.done + 1) \in Chunks
    BY <1>1, AnswerKinds
  <2>4. AsksFor(r, settled) /\ socket' \in {socket, "destroyed"}
    BY <1>1, <1>3, <2>3, AsksEffect, Zenon
  <2>5. r.op = "FILE_WRITE" /\ r.stream = s /\ r.handle = y.handle /\ r.chunk = Chunk(s, y.done + 1)
    OBVIOUS
  <2> HIDE DEF r
  <2>6. SoundAfter(s, z, g)
    BY <1>2, <1>3, <2>1, <2>4, <2>5, AsksToWrite DEF Still
  <2>7. QED
    BY <1>1, <1>3, <2>1, <2>2, <2>3, <2>6 DEF Proceeds, Asking
<1>4. ASSUME y.given = y.done, y.ended
      PROVE  LET finished == [y EXCEPT !.finished = TRUE]
             IN  finished \in States /\ finished.phase = "open" /\ Sound(s, finished, g, settled)
  <2> DEFINE z == [y EXCEPT !.finished = TRUE]
  <2>1. /\ z \in States /\ z.phase = "open" /\ z.ended /\ z.handle = y.handle /\ z.given = y.given
        /\ z.done = y.done /\ z.busy = y.busy /\ z.errored = y.errored
    BY <1>4 DEF States
  <2> HIDE DEF z
  <2>2. Sound(s, z, g, settled)
    BY <1>4, <2>1, FinishedInOrder
  <2>3. QED
    BY <2>1, <2>2 DEF z
<1>5. CASE /\ y.given = y.done /\ y.ended
           /\ LET finished == [y EXCEPT !.finished = TRUE]
              IN  \/ Destroyed(s, finished, callbacks, settled)
                  \/ Becomes(s, finished) /\ AsksNothing(callbacks, settled)
  <2> DEFINE z == [y EXCEPT !.finished = TRUE]
  <2>1. z \in States /\ z.phase = "open" /\ Sound(s, z, g, settled)
    BY <1>4, <1>5
  <2>2. Destroyed(s, z, callbacks, settled) \/ (Becomes(s, z) /\ AsksNothing(callbacks, settled))
    BY <1>5
  <2> HIDE DEF z
  <2>3. QED
    BY <1>1, <2>1, <2>2, ClosesSoundly, StaysSound
<1>6. CASE Becomes(s, y) /\ AsksNothing(callbacks, settled)
  BY <1>1, <1>6, StaysSound
<1>7. QED
  BY <1>3, <1>5, <1>6, Zenon DEF GoesOn

---------------------------------------------------------------------------
(* What a step of the client leaves behind.                                *)

\* What a write stream has got is nothing to its soundness: only readers get chunks.
LEMMA SoundForAny ==
  ASSUME NEW t \in Streams, t \notin Readers, NEW x, NEW g, NEW g2, SoundAfter(t, x, g)
  PROVE  SoundAfter(t, x, g2)
<1>1. Asked(t, x, g2, requests', results')
  BY DEF SoundAfter, Asked, NothingBefore
<1>2. GotFromFile(t, x, g2)' /\ ReadsOn(t, x, g2, requests, results, said)'
  BY DEF GotFromFile, ReadsOn
<1>3. Served(t, x, g2, requests, results, said)'
  BY <1>2 DEF SoundAfter, Served
<1>4. QED
  BY <1>1, <1>3 DEF SoundAfter

\* A stream sound in the values a step gives it is asked for and served after the step.
LEMMA SoundThen ==
  ASSUME NEW t \in Streams, NEW x, NEW g, x = streams'[t], g = got'[t], SoundAfter(t, x, g)
  PROVE  (Asked(t, streams[t], got[t], requests, results) /\ Served(t, streams[t], got[t], requests, results, said))'
<1>1. Asked(t, streams[t], got[t], requests, results)'
  BY DEF SoundAfter
<1>2. HandleOwned(t, requests, said)'
  BY DEF SoundAfter, Served
<1>3. FileWrittenSoFar(t, streams[t], requests, said)'
  BY DEF SoundAfter, Served, FileWrittenSoFar, WrittenAhead
<1>4. GotFromFile(t, streams[t], got[t])'
  BY DEF SoundAfter, Served, GotFromFile
<1>5. ReadsOn(t, streams[t], got[t], requests, results, said)'
  BY DEF SoundAfter, Served, ReadsOn, Ahead
<1>6. LeakFree(t, streams[t], requests, results, said)'
  BY DEF SoundAfter, Served, LeakFree
<1>7. QED
  BY <1>1, <1>2, <1>3, <1>4, <1>5, <1>6 DEF Served

\* A handler of the client that leaves its own stream sound preserves the invariant.
LEMMA ClientStep ==
  ASSUME IInv, NEW s \in Streams, NEW g, NEW callbacks, NEW settled, Settling(s, callbacks, settled),
         Proceeds(s, g, callbacks, settled), GotAfter(s, g), UNCHANGED <<handles, files>>,
         inbox' \in Seq([packet : Nat, answer : Answers]),
         \A i \in DOMAIN inbox' : \E j \in DOMAIN inbox : inbox'[i] = inbox[j]
  PROVE  IInv'
<1>1. TypeOK /\ AnswerInv /\ HandlesKnown
  BY DEF IInv
<1>2. PICK z \in States : Becomes(s, z) /\ Asking(s, callbacks, settled) /\ SoundAfter(s, z, g)
  BY DEF Proceeds
<1>3. AnswerInv' /\ Typed(requests', results', said') /\ toDevice' \in Seq(Nat) /\ socket' \in {"open", "ended", "destroyed"}
  BY <1>1, <1>2, AnswerClient DEF Asking
<1>4. /\ AsksNoMore(settled) \/ \E r \in Requests : r.stream = s /\ AsksFor(r, settled)
      /\ socket' = "open" => socket = "open"
  <2>1. CASE AsksNothing(callbacks, settled)
    BY <2>1 DEF AsksNothing, AsksNoMore
  <2>2. ASSUME NEW op \in Ops, NEW h \in Handles \cup {NoHandle}, NEW c \in Chunks, Asks(op, s, h, c, callbacks, settled)
        PROVE  /\ \E r \in Requests : r.stream = s /\ AsksFor(r, settled)
               /\ socket' \in {socket, "destroyed"}
    <3> DEFINE r == [op |-> op, stream |-> s, handle |-> h, chunk |-> c]
    <3>1. r \in Requests /\ AsksFor(r, settled) /\ socket' \in {socket, "destroyed"}
      BY <1>1, <2>2, AsksEffect, Zenon
    <3>2. r.stream = s
      OBVIOUS
    <3> HIDE DEF r
    <3>3. QED
      BY <3>1, <3>2
  <2>3. QED
    BY <1>2, <2>1, <2>2 DEF Asking
<1>5. streams' \in [Streams -> States] /\ streams'[s] = z /\ \A t \in Streams \ {s} : streams'[t] = streams[t]
  BY <1>1, <1>2 DEF TypeOK, Becomes
<1>6. TypeOK'
  BY <1>1, <1>3, <1>5 DEF TypeOK, Typed, GotAfter
<1>7. HandlesKnown'
  BY <1>1, <1>4, Extended DEF HandlesKnown, OpenedFor, Is
<1>8. ASSUME NEW t \in Streams
      PROVE  (Asked(t, streams[t], got[t], requests, results) /\ Served(t, streams[t], got[t], requests, results, said))'
  <2>1. PICK x, g2 : x = streams'[t] /\ g2 = got'[t]
    OBVIOUS
  <2>2. CASE t = s
    BY <1>2, <1>5, <2>1, <2>2, SoundForAny, SoundThen DEF GotAfter
  <2>3. CASE t # s
    <3>1. SameFor(t, results)
      BY <1>1, <1>4, <2>3, OthersSame
    <3>2. PICK g0 : g0 = got[t]
      OBVIOUS
    <3>3. Asked(t, x, g0, requests, results) /\ Served(t, x, g0, requests, results, said)
      BY <1>5, <2>1, <2>3, <3>2 DEF IInv
    <3>4. SoundAfter(t, x, g0)
      BY <1>4, <3>1, <3>3, KeptAsked, KeptServed DEF SoundAfter
    <3>5. SoundAfter(t, x, g2)
      BY <2>1, <2>3, <3>2, <3>4, SoundForAny DEF GotAfter
    <3>6. QED
      BY <2>1, <3>5, SoundThen
  <2>4. QED
    BY <2>2, <2>3
<1>9. QED
  BY <1>3, <1>6, <1>7, <1>8 DEF IInv


---------------------------------------------------------------------------
(* The steps of the user and of Node.                                      *)

\* An operation the user calls settles no promise.
LEMMA NothingSettled ==
  ASSUME IInv, NEW s \in Streams
  PROVE  Settling(s, responseCallbacks, results)
BY DEF IInv, TypeOK, AnswerInv, Awaited, Settling

\* What the stream of a step is, before it.
LEMMA Before ==
  ASSUME IInv, NEW s \in Streams
  PROVE  /\ TypeOK /\ AnswerInv /\ HandlesKnown /\ streams[s] \in States
         /\ Sound(s, streams[s], got[s], results)
         /\ \A p \in DOMAIN requests : requests[p] \in Requests
         /\ s \in Readers => got[s] \in Seq(Chunks)
<1>1. Typed(requests, results, said)
  BY DEF IInv, TypeOK, Typed
<1>2. QED
  BY <1>1, Domains DEF IInv, TypeOK, Sound

\* A step that leaves what was got and is on its way.
LEMMA UserStep ==
  ASSUME IInv, NEW s \in Streams, Proceeds(s, got[s], responseCallbacks, results), UNCHANGED <<got, inbox, handles, files>>
  PROVE  IInv'
<1>1. GotAfter(s, got[s]) /\ inbox' \in Seq([packet : Nat, answer : Answers])
  BY DEF IInv, TypeOK, GotAfter
<1>2. \A i \in DOMAIN inbox' : \E j \in DOMAIN inbox : inbox'[i] = inbox[j]
  OBVIOUS
<1>3. PICK g : g = got[s]
  OBVIOUS
<1>4. QED
  BY <1>1, <1>2, <1>3, NothingSettled, ClientStep

\* createReadStream and createWriteStream preserve the invariant.
LEMMA OpenFileStep ==
  ASSUME IInv, NEW s \in Streams, OpenFile(s)
  PROVE  IInv'
<1> USE Before
<1>1. PICK option \in Options : Becomes(s, [streams[s] EXCEPT !.phase = "opening", !.autoDestroy = option])
  BY DEF OpenFile
<1> DEFINE z == [streams[s] EXCEPT !.phase = "opening", !.autoDestroy = option]
<1> DEFINE r == [op |-> "FILE_OPEN", stream |-> s, handle |-> NoHandle, chunk |-> Nothing]
<1>2. option \in {"true", "false", "nothing"}
  BY AfcAssumption
<1>3. z \in States /\ z.phase = "opening" /\ z.busy = streams[s].busy /\ Like(z, streams[s])
  BY <1>2 DEF States, Like
<1>4. Becomes(s, z)
  BY <1>1
<1> HIDE DEF z
<1>5. "FILE_OPEN" \in Ops /\ NoHandle \in Handles \cup {NoHandle} /\ Nothing \in Chunks
  BY AnswerKinds DEF Ops
<1>6. Asks("FILE_OPEN", s, NoHandle, Nothing, responseCallbacks, results) /\ UNCHANGED <<got, inbox, handles, files>>
  BY DEF OpenFile
<1>7. AsksFor(r, results) /\ socket' \in {socket, "destroyed"}
  BY <1>5, <1>6, NothingSettled, AsksEffect, Zenon
<1>8. r.op = "FILE_OPEN" /\ r.stream = s
  OBVIOUS
<1> HIDE DEF r
<1>9. SoundAfter(s, z, got[s])
  BY <1>3, <1>6, <1>7, <1>8, AsksToOpen DEF Still, OpenFile
<1>10. Proceeds(s, got[s], responseCallbacks, results)
  BY <1>3, <1>4, <1>5, <1>6, <1>9 DEF Proceeds, Asking
<1>11. QED
  BY <1>6, <1>10, UserStep

\* destroy() on a stream preserves the invariant.
LEMMA DestroyStep ==
  ASSUME IInv, NEW s \in Streams, Destroy(s)
  PROVE  IInv'
<1>1. Destroyed(s, streams[s], responseCallbacks, results) /\ streams[s].phase = "open" /\ UNCHANGED <<got, inbox, handles, files>>
  BY DEF Destroy, Open
<1>2. Proceeds(s, got[s], responseCallbacks, results)
  BY <1>1, Before, NothingSettled, ClosesSoundly
<1>3. QED
  BY <1>1, <1>2, UserStep

\* What the user does with a write stream preserves the invariant.
LEMMA UsesStep ==
  ASSUME IInv, NEW s \in Writers, NEW y \in States, Uses(s, y),
         streams[s].given < MaxChunks \/ y.given = streams[s].given, y.given \in {streams[s].given, streams[s].given + 1},
         y.phase = streams[s].phase, y.handle = streams[s].handle, y.done = streams[s].done, y.busy = streams[s].busy,
         y.errored = streams[s].errored, y.finished = streams[s].finished
  PROVE  IInv'
<1>1. s \in Streams
  BY DEF Streams
<1> USE <1>1, Before, NothingSettled
<1>2. /\ y.phase = "open" /\ streams[s].phase = "open" /\ ~streams[s].ended /\ ~streams[s].errored /\ ~y.errored
      /\ UNCHANGED <<got, inbox, handles, files>>
  BY DEF Uses, Open
<1>3. Sound(s, y, got[s], results)
  BY <1>2, GivenOrEnded
<1>4. Proceeds(s, got[s], responseCallbacks, results)
  <2>1. CASE Becomes(s, y) /\ AsksNothing(responseCallbacks, results)
    BY <1>2, <1>3, <2>1, StaysSound
  <2>2. CASE ~y.busy /\ GoesOn(s, y, responseCallbacks, results)
    <3>1. \A p \in DOMAIN requests : Is(requests, p, "FILE_WRITE", s) => requests[p].chunk.n <= y.done
      BY <1>2, <1>3, <2>2, IdleAskedForNone
    <3>2. QED
      BY <1>2, <1>3, <2>2, <3>1, GoesOnSoundly
  <2>3. QED
    BY <2>1, <2>2 DEF Uses
<1>5. QED
  BY <1>2, <1>4, UserStep

\* write(), end() and the final callback preserve the invariant.
LEMMA WriteStep ==
  ASSUME IInv, NEW s \in Writers, Write(s) \/ End(s) \/ Finish(s)
  PROVE  IInv'
<1>1. s \in Streams
  BY DEF Streams
<1>2. CASE Write(s)
  <2> DEFINE y == [streams[s] EXCEPT !.given = @ + 1]
  <2>1. /\ y \in States /\ y.given = streams[s].given + 1
        /\ y.phase = streams[s].phase /\ y.handle = streams[s].handle /\ y.done = streams[s].done /\ y.busy = streams[s].busy
        /\ y.errored = streams[s].errored /\ y.finished = streams[s].finished
    BY <1>1, Before DEF States
  <2>2. Uses(s, y) /\ streams[s].given < MaxChunks
    BY <1>2 DEF Write
  <2> HIDE DEF y
  <2>3. QED
    BY <2>1, <2>2, UsesStep
<1>3. CASE End(s)
  <2> DEFINE y == [streams[s] EXCEPT !.ended = TRUE]
  <2>1. /\ y \in States /\ y.given = streams[s].given
        /\ y.phase = streams[s].phase /\ y.handle = streams[s].handle /\ y.done = streams[s].done /\ y.busy = streams[s].busy
        /\ y.errored = streams[s].errored /\ y.finished = streams[s].finished
    BY <1>1, Before DEF States
  <2>2. Uses(s, y)
    BY <1>3 DEF End
  <2> HIDE DEF y
  <2>3. QED
    BY <2>1, <2>2, UsesStep
<1>4. CASE Finish(s)
  <2>1. /\ streams[s].phase = "open" /\ ~streams[s].busy /\ ~streams[s].errored
        /\ GoesOn(s, streams[s], responseCallbacks, results) /\ UNCHANGED <<got, inbox, handles, files>>
    BY <1>4 DEF Finish, Open
  <2>2. \A p \in DOMAIN requests : Is(requests, p, "FILE_WRITE", s) => requests[p].chunk.n <= streams[s].done
    BY <1>1, <2>1, Before, IdleAskedForNone
  <2>3. Proceeds(s, got[s], responseCallbacks, results)
    BY <1>1, <2>1, <2>2, Before, NothingSettled, GoesOnSoundly
  <2>4. QED
    BY <1>1, <2>1, <2>3, UserStep
<1>5. QED
  BY <1>2, <1>3, <1>4

\* A _read of a read stream preserves the invariant.
LEMMA ReadStep ==
  ASSUME IInv, NEW s \in Readers, Read(s)
  PROVE  IInv'
<1>1. s \in Streams
  BY DEF Streams
<1> USE <1>1, Before
<1> DEFINE z == [streams[s] EXCEPT !.busy = TRUE]
<1> DEFINE r == [op |-> "FILE_READ", stream |-> s, handle |-> streams[s].handle, chunk |-> Nothing]
<1>2. /\ streams[s].phase = "open" /\ ~streams[s].busy /\ Becomes(s, z)
      /\ Asks("FILE_READ", s, streams[s].handle, Nothing, responseCallbacks, results)
      /\ UNCHANGED <<got, inbox, handles, files>>
  BY DEF Read, Open
<1>3. z \in States /\ z.phase = "open" /\ z.busy /\ Like(z, streams[s])
  BY <1>2 DEF States, Like
<1> HIDE DEF z
<1>4. "FILE_READ" \in Ops /\ streams[s].handle \in Handles \cup {NoHandle} /\ Nothing \in Chunks
  BY AnswerKinds DEF Ops, States
<1>5. AsksFor(r, results) /\ socket' \in {socket, "destroyed"}
  BY <1>2, <1>4, NothingSettled, AsksEffect, Zenon
<1>6. r.op = "FILE_READ" /\ r.stream = s /\ r.handle = streams[s].handle
  OBVIOUS
<1> HIDE DEF r
<1>7. SoundAfter(s, z, got[s])
  BY <1>2, <1>3, <1>5, <1>6, AsksToRead DEF Still
<1>8. Proceeds(s, got[s], responseCallbacks, results)
  BY <1>2, <1>3, <1>4, <1>7 DEF Proceeds, Asking
<1>9. QED
  BY <1>2, <1>8, UserStep


---------------------------------------------------------------------------
(* The steps that settle a request.                                        *)

\* Settling one promise, by its answer or by its timeout, is a settling for its stream.
LEMMA SettlesOne ==
  ASSUME IInv, NEW p \in responseCallbacks, NEW result,
         result = Late \/ (result = said[p] /\ result.kind \in {"ok", "refused"})
  PROVE  LET settled == [results EXCEPT ![p] = result]
             callbacks == responseCallbacks \ {p}
         IN  /\ p \in DOMAIN requests /\ requests[p].stream \in Streams /\ requests[p].op \in Ops
             /\ result \in Answers
             /\ SettledAs(p, result, settled)
             /\ Settling(requests[p].stream, callbacks, settled)
<1> DEFINE settled == [results EXCEPT ![p] = result]
<1> DEFINE callbacks == responseCallbacks \ {p}
<1>1. /\ responseCallbacks = {q \in DOMAIN requests : results[q] = Pending}
      /\ results \in Seq(Answers) /\ Len(results) = Len(requests) /\ Typed(requests, results, said)
  BY DEF IInv, AnswerInv, Awaited, TypeOK, Typed
<1>2. DOMAIN results = DOMAIN requests /\ p \in DOMAIN requests /\ results[p] = Pending /\ requests[p] \in Requests /\ said[p] \in Answers
  BY <1>1, Domains
<1>3. result \in Answers /\ result # Pending
  BY <1>2, AnswerKinds
<1>4. /\ settled[p] = result /\ \A q \in DOMAIN requests : q # p => settled[q] = results[q]
      /\ settled \in Seq(Answers) /\ Len(settled) = Len(results)
  BY <1>1, <1>2, <1>3
<1>5. requests[p].stream \in Streams /\ requests[p].op \in Ops
  BY <1>2 DEF Requests
<1> HIDE DEF settled
<1>6. SettledAs(p, result, settled)
  BY <1>2, <1>4 DEF SettledAs
<1>7. callbacks = {q \in DOMAIN requests : settled[q] = Pending}
  BY <1>1, <1>2, <1>3, <1>4
<1> HIDE DEF callbacks
<1>8. Settling(requests[p].stream, callbacks, settled)
  BY <1>1, <1>2, <1>4, <1>7 DEF Settling
<1>9. QED
  BY <1>2, <1>3, <1>5, <1>6, <1>8 DEF settled, callbacks

\* What a stream does with the answer to FILE_OPEN preserves the invariant.
LEMMA FileOpenedStep ==
  ASSUME IInv, NEW s \in Streams, NEW p, NEW result \in Answers, NEW callbacks, NEW settled,
         SettledAs(p, result, settled), Settling(s, callbacks, settled), Is(requests, p, "FILE_OPEN", s),
         FileOpened(s, result, callbacks, settled), UNCHANGED <<handles, files>>
  PROVE  \E g : Proceeds(s, g, callbacks, settled) /\ GotAfter(s, g)
<1> USE Before
<1> DEFINE y == IF result.kind = "ok" THEN [streams[s] EXCEPT !.phase = "open", !.handle = result.handle]
                                      ELSE [streams[s] EXCEPT !.phase = "failed"]
<1>1. result.handle \in Handles \cup {NoHandle}
  BY DEF Answers
<1>2. /\ y \in States
      /\ y.phase = (IF result.kind = "ok" THEN "open" ELSE "failed")
      /\ result.kind = "ok" => y.handle = result.handle
      /\ y.given = streams[s].given /\ y.done = streams[s].done /\ y.busy = streams[s].busy
      /\ y.ended = streams[s].ended /\ y.errored = streams[s].errored /\ y.finished = streams[s].finished
  BY <1>1 DEF States
<1>3. Becomes(s, y) /\ AsksNothing(callbacks, settled) /\ got' = got
  BY DEF FileOpened
<1> HIDE DEF y
<1>4. Sound(s, y, got[s], settled)
  BY <1>2, OpenSettled
<1>5. Proceeds(s, got[s], callbacks, settled)
  BY <1>2, <1>3, <1>4, StaysSound
<1>6. GotAfter(s, got[s])
  BY <1>3 DEF GotAfter, TypeOK
<1>7. QED
  BY <1>5, <1>6

\* What a write stream does with the answer to FILE_WRITE preserves the invariant.
LEMMA FileWrittenStep ==
  ASSUME IInv, NEW s \in Streams, NEW p, NEW result \in Answers, NEW callbacks, NEW settled,
         SettledAs(p, result, settled), Settling(s, callbacks, settled), Is(requests, p, "FILE_WRITE", s),
         FileWritten(s, result, callbacks, settled), UNCHANGED <<handles, files>>
  PROVE  \E g : Proceeds(s, g, callbacks, settled) /\ GotAfter(s, g)
<1> USE Before
<1>1. GotAfter(s, got[s])
  BY DEF GotAfter, TypeOK, FileWritten
<1>2. streams[s].done \in Nat
  BY DEF States
<1> DEFINE stream == [streams[s] EXCEPT !.busy = FALSE]
<1> DEFINE failed == [stream EXCEPT !.errored = TRUE]
<1> DEFINE done == [stream EXCEPT !.done = @ + 1]
<1>3. CASE ~Open(s) /\ Becomes(s, stream) /\ AsksNothing(callbacks, settled)
  <2>1. /\ stream \in States /\ stream.phase = streams[s].phase /\ stream.handle = streams[s].handle /\ ~stream.busy
        /\ stream.given = streams[s].given /\ stream.ended = streams[s].ended /\ stream.finished = streams[s].finished
        /\ stream.done = streams[s].done /\ stream.errored = streams[s].errored
    BY DEF States
  <2>2. streams[s].phase # "open"
    BY <1>3 DEF Open
  <2> HIDE DEF stream
  <2>3. Sound(s, stream, got[s], settled)
    BY <2>1, <2>2, WriteSettled
  <2>4. QED
    BY <1>1, <1>3, <2>1, <2>3, StaysSound
<1>4. CASE Open(s) /\ result.kind = "ok" /\ GoesOn(s, done, callbacks, settled)
  <2> HIDE DEF done
  <2>0. /\ stream \in States /\ stream.phase = streams[s].phase /\ stream.handle = streams[s].handle /\ ~stream.busy
        /\ stream.given = streams[s].given /\ stream.ended = streams[s].ended /\ stream.finished = streams[s].finished
        /\ stream.done = streams[s].done /\ stream.errored = streams[s].errored
    BY DEF States
  <2> HIDE DEF stream
  <2>1. /\ done \in States /\ done.phase = streams[s].phase /\ done.handle = streams[s].handle /\ ~done.busy
        /\ done.given = streams[s].given /\ done.ended = streams[s].ended /\ done.finished = streams[s].finished
        /\ done.done = streams[s].done + 1 /\ done.errored = streams[s].errored
    BY <1>2, <2>0 DEF States, done
  <2>2. streams[s].phase = "open" /\ GoesOn(s, done, callbacks, settled)
    BY <1>4 DEF Open
  <2>3. /\ Sound(s, done, got[s], settled) /\ s \in Writers
        /\ \A q \in DOMAIN requests : Is(requests, q, "FILE_WRITE", s) => requests[q].chunk.n <= done.done
    BY <1>4, <2>1, <2>2, WriteSettled
  <2>4. QED
    BY <1>1, <2>1, <2>2, <2>3, GoesOnSoundly
<1>5. CASE /\ Open(s) /\ result.kind # "ok"
           /\ Destroyed(s, failed, callbacks, settled) \/ (Becomes(s, failed) /\ AsksNothing(callbacks, settled))
  <2>1. /\ failed \in States /\ failed.phase = streams[s].phase /\ failed.handle = streams[s].handle /\ ~failed.busy
        /\ failed.given = streams[s].given /\ failed.ended = streams[s].ended /\ failed.finished = streams[s].finished
        /\ failed.done = streams[s].done /\ failed.errored
    BY DEF States
  <2>2. /\ streams[s].phase = "open"
        /\ Destroyed(s, failed, callbacks, settled) \/ (Becomes(s, failed) /\ AsksNothing(callbacks, settled))
    BY <1>5 DEF Open
  <2> HIDE DEF failed, stream
  <2>3. Sound(s, failed, got[s], settled)
    BY <1>5, <2>1, <2>2, WriteSettled
  <2>4. QED
    BY <1>1, <2>1, <2>2, <2>3, StaysSound, ClosesSoundly
<1>6. QED
  BY <1>3, <1>4, <1>5, Zenon DEF FileWritten

\* What a read stream does with the answer to FILE_READ preserves the invariant.
LEMMA FileReadStep ==
  ASSUME IInv, NEW s \in Streams, NEW p, NEW result \in Answers, NEW callbacks, NEW settled,
         SettledAs(p, result, settled), Settling(s, callbacks, settled), Is(requests, p, "FILE_READ", s),
         FileRead(s, result, callbacks, settled), UNCHANGED <<handles, files>>
  PROVE  \E g : Proceeds(s, g, callbacks, settled) /\ GotAfter(s, g)
<1> USE Before
<1>1. OwnResponse /\ DOMAIN results = DOMAIN requests /\ got \in [Readers -> Seq(Chunks)] /\ result.chunk \in Chunks
  BY DEF AnswerInv, TypeOK, Answers
<1>2. s \in Readers
  BY DEF Sound, Asked, AsksAsItCan, SettledAs
<1> DEFINE stream == [streams[s] EXCEPT !.busy = FALSE]
<1> DEFINE failed == [streams[s] EXCEPT !.errored = TRUE]
<1> DEFINE done == [stream EXCEPT !.ended = (result.chunk = Nothing)]
<1>3. CASE ~Open(s) /\ Becomes(s, stream) /\ AsksNothing(callbacks, settled) /\ UNCHANGED got
  <2>1. /\ stream \in States /\ stream.phase = streams[s].phase /\ stream.handle = streams[s].handle
        /\ stream.given = streams[s].given /\ stream.done = streams[s].done /\ stream.finished = streams[s].finished
        /\ stream.ended = streams[s].ended
    BY DEF States
  <2>2. streams[s].phase # "open"
    BY <1>3 DEF Open
  <2> HIDE DEF stream
  <2>3. Sound(s, stream, got[s], settled)
    BY <1>1, <2>1, <2>2, ReadSettled
  <2>4. GotAfter(s, got[s])
    BY <1>1, <1>3 DEF GotAfter
  <2>5. QED
    BY <1>3, <2>1, <2>3, <2>4, StaysSound
<1>4. CASE /\ Open(s) /\ result.kind = "ok" /\ Becomes(s, done) /\ AsksNothing(callbacks, settled)
           /\ got' = IF result.chunk = Nothing THEN got ELSE [got EXCEPT ![s] = Append(@, result.chunk)]
  <2> DEFINE g == IF result.chunk = Nothing THEN got[s] ELSE Append(got[s], result.chunk)
  <2>1. /\ done \in States /\ done.phase = streams[s].phase /\ done.handle = streams[s].handle
        /\ done.given = streams[s].given /\ done.done = streams[s].done /\ done.finished = streams[s].finished
        /\ ~done.busy /\ done.ended = (result.chunk = Nothing)
    BY DEF States
  <2>2. streams[s].phase = "open" /\ Becomes(s, done)
    BY <1>4 DEF Open
  <2>3. Append(got[s], result.chunk) \in Seq(Chunks)
    BY <1>1, <1>2, AppendProperties
  <2>4. GotAfter(s, g)
    BY <1>1, <1>2, <1>4, <2>3 DEF GotAfter
  <2>5. /\ result.chunk = Nothing => g = got[s]
        /\ result.chunk # Nothing => g = Append(got[s], result.chunk)
    OBVIOUS
  <2> HIDE DEF done, stream, g
  <2>6. Sound(s, done, g, settled)
    BY <1>1, <1>4, <2>1, <2>2, <2>5, ReadSettled
  <2>7. QED
    BY <1>4, <2>1, <2>2, <2>4, <2>6, StaysSound
<1>5. CASE /\ Open(s) /\ result.kind # "ok" /\ UNCHANGED got
           /\ Destroyed(s, failed, callbacks, settled) \/ (Becomes(s, failed) /\ AsksNothing(callbacks, settled))
  <2>1. /\ failed \in States /\ failed.phase = streams[s].phase /\ failed.handle = streams[s].handle
        /\ failed.given = streams[s].given /\ failed.done = streams[s].done /\ failed.finished = streams[s].finished
        /\ failed.busy = streams[s].busy /\ failed.ended = streams[s].ended
    BY DEF States
  <2>2. /\ streams[s].phase = "open"
        /\ Destroyed(s, failed, callbacks, settled) \/ (Becomes(s, failed) /\ AsksNothing(callbacks, settled))
    BY <1>5 DEF Open
  <2>3. GotAfter(s, got[s])
    BY <1>1, <1>5 DEF GotAfter
  <2> HIDE DEF failed
  <2>4. Sound(s, failed, got[s], settled)
    BY <1>1, <1>5, <2>1, <2>2, ReadSettled
  <2>5. QED
    BY <2>1, <2>2, <2>3, <2>4, StaysSound, ClosesSoundly
<1>6. QED
  BY <1>3, <1>4, <1>5, Zenon DEF FileRead

\* What a stream does with the answer to FILE_CLOSE preserves the invariant.
LEMMA FileClosedStep ==
  ASSUME IInv, NEW s \in Streams, NEW p, NEW result \in Answers, NEW callbacks, NEW settled,
         SettledAs(p, result, settled), Settling(s, callbacks, settled), Is(requests, p, "FILE_CLOSE", s),
         FileClosed(s, callbacks, settled), UNCHANGED <<handles, files>>
  PROVE  \E g : Proceeds(s, g, callbacks, settled) /\ GotAfter(s, g)
<1> USE Before
<1> DEFINE y == [streams[s] EXCEPT !.phase = "closed"]
<1>1. y \in States /\ y.phase = "closed" /\ y.busy = streams[s].busy /\ Like(y, streams[s])
  BY DEF States, Like
<1>2. Becomes(s, y) /\ AsksNothing(callbacks, settled) /\ got' = got
  BY DEF FileClosed
<1> HIDE DEF y
<1>3. Sound(s, y, got[s], settled)
  BY <1>1, CloseSettled
<1>4. GotAfter(s, got[s])
  BY <1>2 DEF GotAfter, TypeOK
<1>5. QED
  BY <1>1, <1>2, <1>3, <1>4, StaysSound

\* Settling any promise preserves the invariant: one of the four cases above.
LEMMA SettleStep ==
  ASSUME IInv, NEW p \in responseCallbacks, NEW result,
         result = Late \/ (result = said[p] /\ result.kind \in {"ok", "refused"}),
         Settle(p, result), UNCHANGED <<handles, files>>,
         inbox' \in Seq([packet : Nat, answer : Answers]),
         \A i \in DOMAIN inbox' : \E j \in DOMAIN inbox : inbox'[i] = inbox[j]
  PROVE  IInv'
<1> DEFINE settled == [results EXCEPT ![p] = result]
<1> DEFINE callbacks == responseCallbacks \ {p}
<1> DEFINE s == requests[p].stream
<1>1. /\ p \in DOMAIN requests /\ s \in Streams
      /\ result \in Answers /\ SettledAs(p, result, settled) /\ Settling(s, callbacks, settled)
  BY SettlesOne, Zenon
<1>2. \/ Is(requests, p, "FILE_OPEN", s) /\ FileOpened(s, result, callbacks, settled)
      \/ Is(requests, p, "FILE_WRITE", s) /\ FileWritten(s, result, callbacks, settled)
      \/ Is(requests, p, "FILE_READ", s) /\ FileRead(s, result, callbacks, settled)
      \/ Is(requests, p, "FILE_CLOSE", s) /\ FileClosed(s, callbacks, settled)
  BY DEF Settle, Is
<1> HIDE DEF settled, callbacks, s
<1>3. \E g : Proceeds(s, g, callbacks, settled) /\ GotAfter(s, g)
  BY <1>1, <1>2, FileOpenedStep, FileWrittenStep, FileReadStep, FileClosedStep
<1>4. PICK g : Proceeds(s, g, callbacks, settled) /\ GotAfter(s, g)
  BY <1>3
<1>5. QED
  BY <1>1, <1>4, ClientStep


---------------------------------------------------------------------------
(* Steps of the device.                                                    *)

\* The device has said answer to packet p, the oldest on its way.
SaysTo(p, answer) ==
  /\ p \in DOMAIN requests /\ said[p] = Pending /\ results[p] \in {Pending, Late}
  /\ said'[p] = answer /\ \A q \in DOMAIN requests : q # p => said'[q] = said[q]
  /\ \A q \in DOMAIN requests : said[q] # Pending => q < p
  /\ UNCHANGED clientVars

\* An answer of the device is for the head of its queue, and reaches the inbox once.
LEMMA AnswerDevice ==
  ASSUME IInv, NEW answer \in Answers, answer.kind \in {"ok", "refused"}, DeviceAnswers(answer)
  PROVE  /\ SaysTo(Head(toDevice), answer)
         /\ AnswerInv' /\ Typed(requests', results', said') /\ toDevice' \in Seq(Nat)
         /\ inbox' \in Seq([packet : Nat, answer : Answers])
<1> DEFINE p == Head(toDevice)
<1>1. /\ Typed(requests, results, said) /\ toDevice \in Seq(Nat) /\ toDevice # <<>>
      /\ inbox \in Seq([packet : Nat, answer : Answers]) /\ AnswerInv
  BY DEF IInv, TypeOK, Typed, DeviceAnswers
<1>2. /\ toDevice' = Tail(toDevice) /\ inbox' = Append(inbox, [packet |-> p, answer |-> answer])
      /\ said' = [said EXCEPT ![p] = answer] /\ UNCHANGED clientVars /\ UNCHANGED <<requests, results, responseCallbacks>>
  BY DEF DeviceAnswers, clientVars
<1>3. p = toDevice[1] /\ 1 \in DOMAIN toDevice /\ p \in Nat /\ Tail(toDevice) \in Seq(Nat)
      /\ \A i \in DOMAIN Tail(toDevice) : i \in Nat \ {0} /\ i + 1 \in DOMAIN toDevice /\ Tail(toDevice)[i] = toDevice[i + 1]
  BY <1>1, TailElements
<1> HIDE DEF p
<1>4. p \in DOMAIN requests /\ said[p] = Pending /\ \A q \in DOMAIN requests : said[q] # Pending => q < p
  BY <1>1, <1>3 DEF AnswerInv, InOrder
<1>5. DOMAIN results = DOMAIN requests /\ DOMAIN said = DOMAIN requests
  BY <1>1, Domains
<1>6. results[p] \in {Pending, Late}
  BY <1>1, <1>4, <1>5, AnswerKinds DEF AnswerInv, OwnResponse
<1>7. said'[p] = answer /\ \A q \in DOMAIN requests : q # p => said'[q] = said[q]
  BY <1>2, <1>4, <1>5
<1>8. Typed(requests', results', said')
  <2>1. said \in Seq(Answers) /\ Len(said) = Len(requests)
    BY <1>1 DEF Typed
  <2>2. p \in 1 .. Len(said)
    BY <1>4, <1>5, <2>1
  <2>3. said' \in Seq(Answers) /\ Len(said') = Len(said)
    BY <1>2, <2>1, <2>2, ExceptSeq
  <2>4. QED
    BY <1>1, <1>2, <2>1, <2>3 DEF Typed
<1>9. answer # Pending
  BY AnswerKinds
<1>10. /\ inbox' \in Seq([packet : Nat, answer : Answers])
       /\ \A i \in DOMAIN inbox' : inbox'[i] = [packet |-> p, answer |-> answer] \/ (i \in DOMAIN inbox /\ inbox'[i] = inbox[i])
  <2>1. [packet |-> p, answer |-> answer] \in [packet : Nat, answer : Answers]
    BY <1>3
  <2>2. QED
    BY <1>1, <1>2, <2>1, AppendElements
<1>11. Awaited' /\ OwnResponse'
  BY <1>1, <1>2, <1>5, <1>6, <1>7 DEF AnswerInv, Awaited, OwnResponse
<1>12. InOrder'
  <2>1. \A i \in DOMAIN toDevice' : i + 1 \in DOMAIN toDevice /\ toDevice'[i] = toDevice[i + 1] /\ p < toDevice'[i]
    BY <1>1, <1>2, <1>3 DEF AnswerInv, InOrder
  <2>2. \A i \in DOMAIN toDevice' : toDevice'[i] \in DOMAIN requests' /\ said'[toDevice'[i]] = Pending
    <3>1. ASSUME NEW i \in DOMAIN toDevice'
          PROVE  toDevice'[i] \in DOMAIN requests' /\ said'[toDevice'[i]] = Pending
      <4>1. toDevice'[i] \in DOMAIN requests /\ said[toDevice'[i]] = Pending /\ p < toDevice'[i]
        BY <1>1, <2>1, <3>1 DEF AnswerInv, InOrder
      <4>2. toDevice'[i] # p
        BY <1>3, <4>1
      <4>3. QED
        BY <1>2, <1>7, <4>1, <4>2
    <3>2. QED
      BY <3>1
  <2>3. \A i, j \in DOMAIN toDevice' : i < j => toDevice'[i] < toDevice'[j]
    BY <1>1, <1>2, <1>3 DEF AnswerInv, InOrder
  <2>4. ASSUME NEW q \in DOMAIN requests', said'[q] # Pending
        PROVE  said'[q].kind \in {"ok", "refused"} /\ \A i \in DOMAIN toDevice' : q < toDevice'[i]
    <3>1. CASE q = p
      BY <1>7, <2>1, <3>1
    <3>2. CASE q # p
      BY <1>1, <1>2, <1>7, <2>1, <2>4, <3>2 DEF AnswerInv, InOrder
    <3>3. QED
      BY <3>1, <3>2
  <2>5. QED
    BY <2>2, <2>3, <2>4 DEF InOrder
<1>13. Truthful'
  <2>1. ASSUME NEW i \in DOMAIN inbox'
        PROVE  /\ inbox'[i].packet \in DOMAIN requests' /\ inbox'[i].answer = said'[inbox'[i].packet]
               /\ inbox'[i].answer # Pending
    <3>1. CASE inbox'[i] = [packet |-> p, answer |-> answer]
      BY <1>2, <1>4, <1>7, <1>9, <3>1
    <3>2. CASE i \in DOMAIN inbox /\ inbox'[i] = inbox[i]
      BY <1>1, <1>2, <1>4, <1>7, <3>2 DEF AnswerInv, Truthful
    <3>3. QED
      BY <1>10, <3>1, <3>2
  <2>2. QED
    BY <2>1 DEF Truthful
<1>14. SaysTo(p, answer)
  BY <1>2, <1>4, <1>6, <1>7 DEF SaysTo
<1>15. QED
  BY <1>2, <1>3, <1>8, <1>10, <1>11, <1>12, <1>13, <1>14 DEF AnswerInv, p

\* What a step of the device has to keep.
LEMMA DeviceStep ==
  ASSUME IInv, NEW answer \in Answers, answer.kind \in {"ok", "refused"}, DeviceAnswers(answer),
         DOMAIN handles' \subseteq Handles, \A h \in DOMAIN handles' : handles'[h] \in [file : Streams, pos : Nat],
         files' \in [Streams -> Seq(Chunks)], HandlesKnown',
         \A t \in Streams : \E x, g : x = streams[t] /\ g = got[t] /\ Served(t, x, g, requests, results, said)'
  PROVE  IInv'
<1>1. /\ UNCHANGED clientVars /\ AnswerInv' /\ Typed(requests', results', said') /\ toDevice' \in Seq(Nat)
      /\ inbox' \in Seq([packet : Nat, answer : Answers])
  BY AnswerDevice DEF SaysTo
<1>2. UNCHANGED <<requests, results, streams, got, socket>>
  BY <1>1 DEF clientVars
<1>3. TypeOK'
  BY <1>1, <1>2 DEF IInv, TypeOK, Typed
<1>4. ASSUME NEW t \in Streams
      PROVE  (Asked(t, streams[t], got[t], requests, results) /\ Served(t, streams[t], got[t], requests, results, said))'
  <2>1. PICK x, g : x = streams[t] /\ g = got[t] /\ Served(t, x, g, requests, results, said)'
    BY <1>4
  <2>2. Asked(t, x, g, requests', results')
    BY <1>2, <2>1 DEF IInv
  <2>3. SoundAfter(t, x, g) /\ x = streams'[t] /\ g = got'[t]
    BY <1>2, <2>1, <2>2 DEF SoundAfter
  <2>4. QED
    BY <2>3, SoundThen
<1>5. QED
  BY <1>1, <1>3, <1>4 DEF IInv

\* A stream whose packet it is not keeps its handle and its file.
LEMMA OthersServed ==
  ASSUME NEW p, NEW answer, SaysTo(p, answer), NEW t \in Streams, NEW x, NEW g,
         Asked(t, x, g, requests, results), Served(t, x, g, requests, results, said),
         requests[p].stream # t, files'[t] = files[t],
         \A h \in DOMAIN handles : handles[h].file = t => h \in DOMAIN handles' /\ handles'[h] = handles[h],
         \A h \in DOMAIN handles' : handles'[h].file = t => h \in DOMAIN handles /\ handles[h].file = t
  PROVE  Served(t, x, g, requests, results, said)'
<1>1. /\ UNCHANGED <<requests, results, socket>>
      /\ \A q \in DOMAIN requests : requests[q].stream = t => said'[q] = said[q]
  BY DEF SaysTo, clientVars
<1>2. HandleOwned(t, requests, said)'
  BY <1>1 DEF Served, HandleOwned, OpenedFor, ClosedFor, Is
<1>3. FileWrittenSoFar(t, x, requests, said)'
  BY <1>1 DEF Served, FileWrittenSoFar, WrittenAhead, OpenedFor, Is
<1>4. GotFromFile(t, x, g)'
  BY DEF Served, GotFromFile
<1>5. ReadsOn(t, x, g, requests, results, said)'
  <2>1. SUFFICES ASSUME x.phase \in {"opening", "open"}, t \in Readers PROVE ReadsOn(t, x, g, requests, results, said)'
    BY DEF ReadsOn
  <2>2. ~ClosedFor(t, requests, said)
    BY <2>1 DEF Asked, UsedWhileOpen, Opened, ClosedFor, Is
  <2>3. \A q \in DOMAIN requests : OpenedFor(t, q, requests, said) => handles'[said[q].handle] = handles[said[q].handle]
    BY <2>2 DEF Served, HandleOwned
  <2>4. QED
    BY <1>1, <2>3 DEF Served, ReadsOn, Ahead, OpenedFor, Is
<1>6. LeakFree(t, x, requests, results, said)'
  BY <1>1 DEF Served, LeakFree, Is
<1>7. QED
  BY <1>2, <1>3, <1>4, <1>5, <1>6 DEF Served

\* A request the device refuses preserves the invariant.
LEMMA DeviceRefusesStep ==
  ASSUME IInv, DeviceRefuses
  PROVE  IInv'
<1> DEFINE p == Head(toDevice)
<1>1. Refused \in Answers /\ Refused.kind = "refused" /\ Refused # Pending
  BY AnswerKinds
<1>2. DeviceAnswers(Refused) /\ UNCHANGED <<handles, files>>
  BY DEF DeviceRefuses
<1>3. SaysTo(p, Refused)
  BY <1>1, <1>2, AnswerDevice
<1> HIDE DEF p
<1>4. UNCHANGED <<requests, results, socket>>
  BY <1>3 DEF SaysTo, clientVars
<1>5. ASSUME NEW t \in Streams
      PROVE  \E x, g : x = streams[t] /\ g = got[t] /\ Served(t, x, g, requests, results, said)'
  <2>1. PICK x, g : x = streams[t] /\ g = got[t]
    OBVIOUS
  <2>2. Served(t, x, g, requests, results, said)
    BY <2>1 DEF IInv
  <2>3. \A q \in DOMAIN requests : (said'[q].kind = "ok" <=> said[q].kind = "ok") /\ (said'[q].kind = "ok" => said'[q] = said[q])
    BY <1>1, <1>3, AnswerKinds DEF SaysTo
  <2>4. \A q \in DOMAIN requests : said[q] \in {Pending, Refused} => said'[q] \in {Pending, Refused}
    BY <1>3 DEF SaysTo
  <2>5. \A q \in DOMAIN requests : said'[q] = Pending => said[q] = Pending
    BY <1>1, <1>3 DEF SaysTo
  <2>6. HandleOwned(t, requests, said)'
    BY <1>2, <1>4, <2>2, <2>3 DEF Served, HandleOwned, OpenedFor, ClosedFor
  <2>7. FileWrittenSoFar(t, x, requests, said)'
    BY <1>2, <1>4, <2>2, <2>3 DEF Served, FileWrittenSoFar, WrittenAhead, OpenedFor
  <2>8. GotFromFile(t, x, g)'
    BY <1>2, <2>2 DEF Served, GotFromFile
  <2>9. ReadsOn(t, x, g, requests, results, said)'
    BY <1>2, <1>4, <2>2, <2>3, <2>5 DEF Served, ReadsOn, Ahead, OpenedFor
  <2>10. LeakFree(t, x, requests, results, said)'
    BY <1>2, <1>4, <2>2, <2>4 DEF Served, LeakFree
  <2>11. QED
    BY <2>1, <2>6, <2>7, <2>8, <2>9, <2>10 DEF Served
<1>6. HandlesKnown'
  BY <1>1, <1>2, <1>3, <1>4, AnswerKinds DEF IInv, HandlesKnown, OpenedFor, SaysTo
<1>7. QED
  BY <1>1, <1>2, <1>5, <1>6, DeviceStep DEF IInv, TypeOK


\* The handle of a packet that the device serves is the one that it has given to the
\* stream, and is still the stream's.
LEMMA OwnHandle ==
  ASSUME IInv, NEW p, NEW answer, SaysTo(p, answer), requests[p].op # "FILE_OPEN"
  PROVE  LET s == requests[p].stream
             h == requests[p].handle
         IN  /\ s \in Streams /\ streams[s].phase \in Opened
             /\ h \in DOMAIN handles /\ handles[h].file = s
             /\ \A i \in DOMAIN handles : handles[i].file = s => i = h
             /\ \A o \in DOMAIN requests : OpenedFor(s, o, requests, said) => said[o].handle = h
<1> DEFINE s == requests[p].stream
<1> DEFINE h == requests[p].handle
<1>1. p \in DOMAIN requests /\ \A q \in DOMAIN requests : said[q] # Pending => q < p
  BY DEF SaysTo
<1>2. Typed(requests, results, said) /\ AnswerInv /\ HandlesKnown
  BY DEF IInv, TypeOK, Typed
<1>3. requests[p] \in Requests /\ DOMAIN results = DOMAIN requests /\ DOMAIN requests = 1 .. Len(requests) /\ Len(requests) \in Nat
  BY <1>1, <1>2, Domains
<1>4. s \in Streams
  BY <1>3 DEF Requests
<1> HIDE DEF s
<1>5. Asked(s, streams[s], got[s], requests, results) /\ Served(s, streams[s], got[s], requests, results, said)
  BY <1>4 DEF IInv
<1>6. streams[s].phase \in Opened /\ h = streams[s].handle
  BY <1>1, <1>5 DEF Asked, UsedWhileOpen, s
<1>7. PICK o \in DOMAIN requests : Is(requests, o, "FILE_OPEN", s) /\ results[o].kind = "ok"
  BY <1>5, <1>6 DEF Asked, UsedWhileOpen
<1>8. streams[s].handle = results[o].handle /\ \A q \in DOMAIN requests : Is(requests, q, "FILE_OPEN", s) => q = o
  BY <1>5, <1>7 DEF Asked, OpenedOnce
<1>9. said[o] = results[o]
  BY <1>2, <1>3, <1>7, AnswerKinds DEF AnswerInv, OwnResponse
<1>10. ~ClosedFor(s, requests, said)
  <2>1. SUFFICES ASSUME NEW q \in DOMAIN requests, Is(requests, q, "FILE_CLOSE", s), said[q].kind = "ok" PROVE FALSE
    BY DEF ClosedFor
  <2>2. q < p
    BY <1>1, <2>1, AnswerKinds
  <2>3. p <= q
    BY <1>1, <1>5, <2>1 DEF Asked, UsedWhileOpen, s
  <2>4. QED
    BY <1>1, <1>3, <2>2, <2>3
<1>11. OpenedFor(s, o, requests, said) /\ said[o].handle = h
  BY <1>6, <1>7, <1>8, <1>9 DEF OpenedFor
<1>12. h \in DOMAIN handles /\ handles[h].file = s
  BY <1>5, <1>7, <1>10, <1>11 DEF Served, HandleOwned
<1>13. \A i \in DOMAIN requests : OpenedFor(s, i, requests, said) => said[i].handle = h
  BY <1>8, <1>11 DEF OpenedFor
<1>14. \A i \in DOMAIN handles : handles[i].file = s => i = h
  BY <1>2, <1>13 DEF HandlesKnown
<1> HIDE DEF h
<1>15. QED
  BY <1>4, <1>6, <1>12, <1>13, <1>14 DEF s, h

\* The device opening a file under a handle nobody holds preserves the invariant.
LEMMA ServesOpen ==
  ASSUME IInv, NEW p, p = Head(toDevice), NEW s, s = requests[p].stream, requests[p].op = "FILE_OPEN",
         NEW new \in Handles \ DOMAIN handles, DeviceAnswers(Answer("ok", new, Nothing)),
         handles' = [g \in DOMAIN handles \cup {new} |-> IF g = new THEN [file |-> s, pos |-> 0] ELSE handles[g]],
         files' = IF s \in Writers THEN [files EXCEPT ![s] = <<>>] ELSE files
  PROVE  IInv'
<1> DEFINE answer == Answer("ok", new, Nothing)
<1>1. answer \in Answers /\ answer.kind = "ok" /\ answer.handle = new
  BY AnswerKinds
<1>2. DeviceAnswers(answer)
  OBVIOUS
<1> HIDE DEF answer
<1>3. SaysTo(p, answer)
  BY <1>1, <1>2, AnswerDevice
<1>4. /\ UNCHANGED <<requests, results, socket>> /\ p \in DOMAIN requests /\ said[p] = Pending /\ said'[p] = answer
      /\ results[p] \in {Pending, Late} /\ \A q \in DOMAIN requests : q # p => said'[q] = said[q]
  BY <1>3 DEF SaysTo, clientVars
<1>5. Typed(requests, results, said) /\ AnswerInv
  BY DEF IInv, TypeOK, Typed
<1>6. s \in Streams /\ Is(requests, p, "FILE_OPEN", s)
  BY <1>4, <1>5, Domains DEF Requests, Is
<1>7. /\ DOMAIN handles' = DOMAIN handles \cup {new} /\ handles'[new].file = s /\ handles'[new].pos = 0
      /\ handles'[new] \in [file : Streams, pos : Nat]
      /\ \A h \in DOMAIN handles : h # new /\ handles'[h] = handles[h]
  BY <1>6
<1>8. /\ DOMAIN handles' \subseteq Handles /\ \A h \in DOMAIN handles' : handles'[h] \in [file : Streams, pos : Nat]
      /\ files' \in [Streams -> Seq(Chunks)]
  BY <1>6, <1>7 DEF IInv, TypeOK
<1>9. \A t \in Streams : t # s => files'[t] = files[t]
  BY DEF IInv, TypeOK
<1>10. HandlesKnown'
  <2>1. ASSUME NEW h \in DOMAIN handles'
        PROVE  \E q \in DOMAIN requests' : OpenedFor(handles'[h].file, q, requests', said') /\ said'[q].handle = h
    <3>1. CASE h = new
      BY <1>1, <1>4, <1>6, <1>7, <3>1 DEF OpenedFor
    <3>2. CASE h \in DOMAIN handles
      <4>1. PICK q \in DOMAIN requests : OpenedFor(handles[h].file, q, requests, said) /\ said[q].handle = h
        BY <3>2 DEF IInv, HandlesKnown
      <4>2. q # p
        BY <1>4, <4>1, AnswerKinds DEF OpenedFor
      <4>3. QED
        BY <1>4, <1>7, <3>2, <4>1, <4>2 DEF OpenedFor
    <3>3. QED
      BY <1>7, <3>1, <3>2
  <2>2. QED
    BY <2>1 DEF HandlesKnown
<1>11. ASSUME NEW t \in Streams
       PROVE  \E x, g : x = streams[t] /\ g = got[t] /\ Served(t, x, g, requests, results, said)'
  <2>1. PICK x, g : x = streams[t] /\ g = got[t]
    OBVIOUS
  <2>2. Asked(t, x, g, requests, results) /\ Served(t, x, g, requests, results, said)
    BY <2>1 DEF IInv
  <2>3. CASE t # s
    BY <1>3, <1>7, <1>9, <2>1, <2>2, <2>3, OthersServed
  <2>4. CASE t = s
    <3>1. \A q \in DOMAIN requests : Is(requests, q, "FILE_OPEN", s) => q = p
      BY <1>4, <1>6, <2>2, <2>4 DEF Asked, OpenedOnce
    <3>2. results[p].kind # "ok"
      BY <1>4, AnswerKinds
    <3>3. x.phase \notin Opened
      BY <2>2, <2>4, <3>1, <3>2 DEF Asked, UsedWhileOpen
    <3>4. \A q \in DOMAIN requests : requests[q].stream = s => q = p
      BY <2>2, <2>4, <3>1, <3>3 DEF Asked, UsedWhileOpen, Is
    <3>5. x.done = 0 /\ (s \in Readers => g = <<>>)
      BY <2>2, <2>4, <3>3 DEF Asked, NothingBefore
    <3>6. HandleOwned(t, requests, said)'
      BY <1>1, <1>4, <1>7, <2>4, <3>1 DEF HandleOwned, OpenedFor
    <3>7. FileWrittenSoFar(t, x, requests, said)'
      <4>1. SUFFICES ASSUME s \in Writers PROVE FileWrittenSoFar(t, x, requests, said)'
        BY <2>4 DEF FileWrittenSoFar
      <4>2. files'[s] = <<>>
        BY <1>6, <4>1 DEF IInv, TypeOK
      <4>3. ~WrittenAhead(t, x, requests, said)'
        BY <1>4, <1>6, <2>4, <3>4 DEF WrittenAhead, Is
      <4>4. SubSeq(Content(s), 1, 0) = <<>>
        BY <1>6, Contents
      <4>5. QED
        BY <2>4, <3>5, <4>2, <4>3, <4>4 DEF FileWrittenSoFar
    <3>8. GotFromFile(t, x, g)'
      <4>1. s \in Readers => files' = files
        BY AfcAssumption
      <4>2. QED
        BY <2>2, <2>4, <4>1 DEF Served, GotFromFile
    <3>9. ReadsOn(t, x, g, requests, results, said)'
      BY <1>1, <1>4, <1>6, <1>7, <2>4, <3>4, <3>5 DEF ReadsOn, OpenedFor, Is
    <3>10. LeakFree(t, x, requests, results, said)'
      <4>1. results[p] = Late \/ x.phase = "opening"
        BY <1>4, <1>6, <2>2, <2>4 DEF Asked, OpenedOnce
      <4>2. QED
        BY <1>4, <1>6, <2>4, <4>1 DEF LeakFree
    <3>11. QED
      BY <2>1, <3>6, <3>7, <3>8, <3>9, <3>10 DEF Served
  <2>5. QED
    BY <2>3, <2>4
<1>12. QED
  BY <1>1, <1>2, <1>8, <1>10, <1>11, DeviceStep

\* The device appending a chunk to a file preserves the invariant.
LEMMA ServesWrite ==
  ASSUME IInv, NEW p, p = Head(toDevice), NEW h, h = requests[p].handle, requests[p].op = "FILE_WRITE",
         DeviceAnswers(Ok), files' = [files EXCEPT ![handles[h].file] = Append(@, requests[p].chunk)], handles' = handles
  PROVE  IInv'
<1>1. Ok \in Answers /\ Ok.kind = "ok"
  BY AnswerKinds
<1>2. SaysTo(p, Ok)
  BY <1>1, AnswerDevice
<1>3. /\ UNCHANGED <<requests, results, socket>> /\ p \in DOMAIN requests /\ said[p] = Pending /\ said'[p] = Ok
      /\ results[p] \in {Pending, Late} /\ \A q \in DOMAIN requests : q # p => said'[q] = said[q]
  BY <1>2 DEF SaysTo, clientVars
<1> DEFINE s == requests[p].stream
<1>4. s \in Streams /\ h \in DOMAIN handles /\ handles[h].file = s
  BY <1>2, OwnHandle, Zenon
<1>5. Is(requests, p, "FILE_WRITE", s)
  BY DEF Is
<1> HIDE DEF s
<1>6. requests[p] \in Requests /\ requests[p].chunk \in Chunks
  BY <1>3, Domains DEF IInv, TypeOK, Typed, Requests
<1>7. files'[s] = Append(files[s], requests[p].chunk) /\ \A t \in Streams : t # s => files'[t] = files[t]
  BY <1>4 DEF IInv, TypeOK
<1>8. files' \in [Streams -> Seq(Chunks)]
  <2>1. files \in [Streams -> Seq(Chunks)]
    BY DEF IInv, TypeOK
  <2>2. Append(files[s], requests[p].chunk) \in Seq(Chunks)
    BY <1>4, <1>6, <2>1, AppendProperties
  <2>3. QED
    BY <1>4, <2>1, <2>2
<1>9. s \in Writers /\ s \notin Readers
  BY <1>3, <1>4, <1>5, AfcAssumption DEF IInv, Asked, AsksAsItCan
<1>10. \A q \in DOMAIN requests : ~Is(requests, q, "FILE_WRITE", s) => (requests[q].stream = s => said'[q] = said[q])
  BY <1>3, <1>5
<1>11. HandlesKnown'
  BY <1>1, <1>3, <1>5, AnswerKinds DEF IInv, HandlesKnown, OpenedFor, Is
<1>12. ASSUME NEW t \in Streams
       PROVE  \E x, g : x = streams[t] /\ g = got[t] /\ Served(t, x, g, requests, results, said)'
  <2>1. PICK x, g : x = streams[t] /\ g = got[t]
    OBVIOUS
  <2>2. Asked(t, x, g, requests, results) /\ Served(t, x, g, requests, results, said)
    BY <2>1 DEF IInv
  <2>3. CASE t # s
    BY <1>2, <1>7, <2>1, <2>2, <2>3, OthersServed DEF s
  <2>4. CASE t = s
    <3>1. HandleOwned(t, requests, said)'
      BY <1>3, <1>10, <2>2, <2>4 DEF Served, HandleOwned, OpenedFor, ClosedFor, Is
    <3>2. LeakFree(t, x, requests, results, said)'
      BY <1>3, <1>10, <2>2, <2>4 DEF Served, LeakFree, Is
    <3>3. GotFromFile(t, x, g)' /\ ReadsOn(t, x, g, requests, results, said)'
      BY <1>9, <2>4 DEF GotFromFile, ReadsOn
    <3>4. x.done \in Nat /\ x.given \in Nat /\ MaxChunks \in Nat /\ requests[p].chunk.n \in Nat
      BY <1>6, <2>1, AfcAssumption DEF IInv, TypeOK, States, Chunks
    <3>5. /\ x.done <= x.given /\ x.given <= MaxChunks
          /\ requests[p].chunk = Chunk(s, requests[p].chunk.n)
          /\ requests[p].chunk.n \in 1 .. x.done + 1 /\ requests[p].chunk.n <= x.given
          /\ requests[p].chunk.n <= x.done => results[p].kind = "ok"
          /\ \A q \in DOMAIN requests : Is(requests, q, "FILE_WRITE", s) /\ requests[q].chunk.n = requests[p].chunk.n => p = q
      BY <1>3, <1>5, <1>9, <2>2, <2>4 DEF Asked, WritesInOrder
    <3>6. results[p].kind # "ok"
      BY <1>3, AnswerKinds
    <3>7. requests[p].chunk.n = x.done + 1 /\ x.done \in 0 .. MaxChunks - 1
      <4>1. PICK c \in Nat : c = requests[p].chunk.n
        BY <3>4
      <4>2. c \in 1 .. x.done + 1 /\ c <= x.given /\ x.given <= MaxChunks /\ ~(c <= x.done)
        BY <3>5, <3>6, <4>1
      <4>3. PICK d, g1, max : d = x.done /\ g1 = x.given /\ max = MaxChunks
        OBVIOUS
      <4>4. d \in Nat /\ g1 \in Nat /\ max \in Nat /\ c \in 1 .. d + 1 /\ c <= g1 /\ g1 <= max /\ ~(c <= d)
        BY <3>4, <4>2, <4>3
      <4>5. c = d + 1 /\ d \in 0 .. max - 1
        BY <4>4
      <4>6. QED
        BY <4>1, <4>3, <4>5
    <3>8. WrittenAhead(t, x, requests, said)'
      BY <1>1, <1>3, <1>5, <2>4, <3>7 DEF WrittenAhead
    <3>9. ~WrittenAhead(t, x, requests, said)
      BY <1>3, <2>4, <3>5, <3>7, AnswerKinds DEF WrittenAhead
    <3>10. \A q \in DOMAIN requests : OpenedFor(t, q, requests, said)' => files[s] = SubSeq(Content(s), 1, x.done)
      <4>1. FileWrittenSoFar(t, x, requests, said) /\ t \in Writers
        BY <1>9, <2>2, <2>4 DEF Served
      <4>2. \A q \in DOMAIN requests : OpenedFor(t, q, requests, said)' => OpenedFor(t, q, requests, said)
        BY <1>3, <1>10 DEF OpenedFor, Is
      <4>3. QED
        BY <2>4, <3>9, <4>1, <4>2 DEF FileWrittenSoFar
    <3>11. FileWrittenSoFar(t, x, requests, said)'
      <4>1. requests[p].chunk = Chunk(s, x.done + 1) /\ t = s /\ s \in Streams
        BY <1>4, <2>4, <3>5, <3>7
      <4>2. Append(SubSeq(Content(s), 1, x.done), Chunk(s, x.done + 1)) = SubSeq(Content(s), 1, x.done + 1)
        BY <1>4, <3>7, Contents
      <4>3. \A q \in DOMAIN requests : OpenedFor(t, q, requests, said)' => files'[s] = SubSeq(Content(s), 1, x.done + 1)
        BY <1>7, <3>10, <4>1, <4>2
      <4>4. QED
        BY <1>3, <3>8, <4>1, <4>3 DEF FileWrittenSoFar
    <3>12. QED
      BY <2>1, <3>1, <3>2, <3>3, <3>11 DEF Served
  <2>5. QED
    BY <2>3, <2>4
<1>13. QED
  BY <1>1, <1>8, <1>11, <1>12, DeviceStep DEF IInv, TypeOK


\* The device reading the next chunk, or the end of the file, preserves the invariant.
LEMMA ServesRead ==
  ASSUME IInv, NEW p, p = Head(toDevice), NEW h \in DOMAIN handles, h = requests[p].handle, requests[p].op = "FILE_READ",
         NEW file, file = files[handles[h].file],
         \/ /\ handles[h].pos < Len(file)
            /\ DeviceAnswers(Answer("ok", NoHandle, file[handles[h].pos + 1]))
            /\ handles' = [handles EXCEPT ![h].pos = @ + 1]
         \/ /\ ~(handles[h].pos < Len(file))
            /\ DeviceAnswers(Ok) /\ handles' = handles,
         files' = files
  PROVE  IInv'
<1>0. PICK s : s = requests[p].stream
  OBVIOUS
<1>1. PICK answer : /\ DeviceAnswers(answer)
                    /\ \/ handles[h].pos < Len(file) /\ answer = Answer("ok", NoHandle, file[handles[h].pos + 1])
                          /\ handles' = [handles EXCEPT ![h].pos = @ + 1]
                       \/ ~(handles[h].pos < Len(file)) /\ answer = Ok /\ handles' = handles
  OBVIOUS
<1>2. TypeOK /\ Typed(requests, results, said)
  BY DEF IInv, TypeOK, Typed
<1>3. handles[h] \in [file : Streams, pos : Nat] /\ handles[h].pos \in Nat /\ file \in Seq(Chunks)
  BY <1>2 DEF TypeOK
<1>4. answer \in Answers /\ answer.kind = "ok"
      /\ (handles[h].pos < Len(file) => answer.chunk = file[handles[h].pos + 1])
      /\ (~(handles[h].pos < Len(file)) => answer.chunk = Nothing)
  <2>1. CASE handles[h].pos < Len(file)
    <3>1. handles[h].pos + 1 \in 1 .. Len(file)
      BY <1>3, <2>1
    <3>2. file[handles[h].pos + 1] \in Chunks
      BY <1>3, <3>1
    <3>3. PICK chunk \in Chunks : chunk = file[handles[h].pos + 1]
      BY <3>2
    <3>4. answer = Answer("ok", NoHandle, chunk)
      BY <1>1, <2>1, <3>3
    <3>5. answer \in Answers /\ answer.kind = "ok" /\ answer.chunk = chunk
      BY <3>4, AnswerKinds
    <3>6. QED
      BY <2>1, <3>3, <3>5
  <2>2. CASE ~(handles[h].pos < Len(file))
    BY <1>1, <2>2, AnswerKinds
  <2>3. QED
    BY <2>1, <2>2
<1>5. SaysTo(p, answer)
  BY <1>1, <1>4, AnswerDevice
<1>6. /\ UNCHANGED <<requests, results, socket>> /\ p \in DOMAIN requests /\ said[p] = Pending /\ said'[p] = answer
      /\ results[p] \in {Pending, Late} /\ \A q \in DOMAIN requests : q # p => said'[q] = said[q]
  BY <1>5 DEF SaysTo, clientVars
<1>7. /\ s \in Streams /\ handles[h].file = s
      /\ \A o \in DOMAIN requests : OpenedFor(s, o, requests, said) => said[o].handle = h
  <2>1. requests[p].op # "FILE_OPEN"
    OBVIOUS
  <2>2. /\ requests[p].stream \in Streams /\ handles[requests[p].handle].file = requests[p].stream
        /\ \A o \in DOMAIN requests : OpenedFor(requests[p].stream, o, requests, said) => said[o].handle = requests[p].handle
    BY <1>5, <2>1, OwnHandle, Zenon
  <2>3. QED
    BY <1>0, <2>2
<1>8. Is(requests, p, "FILE_READ", s)
  BY <1>0 DEF Is
<1>9. s \in Readers /\ s \notin Writers
  BY <1>6, <1>7, <1>8, AfcAssumption DEF IInv, Asked, AsksAsItCan
<1>10. /\ DOMAIN handles' = DOMAIN handles /\ \A i \in DOMAIN handles : handles'[i].file = handles[i].file
       /\ \A i \in DOMAIN handles : i # h => handles'[i] = handles[i]
       /\ handles'[h].pos = IF handles[h].pos < Len(file) THEN handles[h].pos + 1 ELSE handles[h].pos
       /\ \A i \in DOMAIN handles' : handles'[i] \in [file : Streams, pos : Nat]
  <2>1. \A i \in DOMAIN handles : handles[i] \in [file : Streams, pos : Nat]
    BY <1>2 DEF TypeOK
  <2>2. CASE ~(handles[h].pos < Len(file))
    BY <1>1, <2>1, <2>2
  <2>3. CASE handles[h].pos < Len(file)
    <3>1. /\ DOMAIN handles' = DOMAIN handles /\ \A i \in DOMAIN handles : i # h => handles'[i] = handles[i]
          /\ handles'[h] = [handles[h] EXCEPT !.pos = @ + 1]
      BY <1>1, <2>3
    <3>2. handles'[h] \in [file : Streams, pos : Nat] /\ handles'[h].file = handles[h].file /\ handles'[h].pos = handles[h].pos + 1
      <4>1. PICK f : f \in [file : Streams, pos : Nat] /\ f = handles[h]
        BY <1>3
      <4>2. handles'[h] = [f EXCEPT !.pos = @ + 1]
        BY <3>1, <4>1
      <4>3. f.pos + 1 \in Nat
        BY <4>1
      <4>4. [f EXCEPT !.pos = @ + 1] \in [file : Streams, pos : Nat]
            /\ [f EXCEPT !.pos = @ + 1].file = f.file /\ [f EXCEPT !.pos = @ + 1].pos = f.pos + 1
        BY <4>1, <4>3
      <4>5. QED
        BY <4>1, <4>2, <4>4
    <3>3. QED
      BY <2>1, <2>3, <3>1, <3>2
  <2>4. QED
    BY <2>2, <2>3
<1>11. \A q \in DOMAIN requests : ~Is(requests, q, "FILE_READ", s) => (requests[q].stream = s => said'[q] = said[q])
  BY <1>6, <1>8
<1>12. /\ \A q \in DOMAIN requests : requests[q].op # "FILE_READ" => said'[q] = said[q]
       /\ HandlesKnown'
  <2>1. \A q \in DOMAIN requests : requests[q].op # "FILE_READ" => said'[q] = said[q]
    BY <1>6
  <2>2. HandlesKnown'
    BY <1>6, <1>10, <2>1 DEF IInv, HandlesKnown, OpenedFor, Is
  <2>3. QED
    BY <2>1, <2>2
<1>13. ASSUME NEW t \in Streams
       PROVE  \E x, g : x = streams[t] /\ g = got[t] /\ Served(t, x, g, requests, results, said)'
  <2>1. PICK x, g : x = streams[t] /\ g = got[t]
    OBVIOUS
  <2>2. Asked(t, x, g, requests, results) /\ Served(t, x, g, requests, results, said)
    BY <2>1 DEF IInv
  <2>3. CASE t # s
    <3>1. requests[p].stream # t /\ files'[t] = files[t]
      BY <1>0, <2>3
    <3>2. \A i \in DOMAIN handles : handles[i].file = t => i \in DOMAIN handles' /\ handles'[i] = handles[i]
      BY <1>7, <1>10, <2>3
    <3>3. \A i \in DOMAIN handles' : handles'[i].file = t => i \in DOMAIN handles /\ handles[i].file = t
      BY <1>10
    <3>4. Served(t, x, g, requests, results, said)'
      BY <1>5, <2>2, <3>1, <3>2, <3>3, OthersServed
    <3>5. QED
      BY <2>1, <3>4
  <2>4. CASE t = s
    <3>1. HandleOwned(t, requests, said)'
      <4>1. HandleOwned(t, requests, said)
        BY <2>2 DEF Served
      <4>2. /\ \A o \in DOMAIN requests' : OpenedFor(t, o, requests, said)' <=> OpenedFor(t, o, requests, said)
            /\ ClosedFor(t, requests, said)' <=> ClosedFor(t, requests, said)
            /\ \A o \in DOMAIN requests' : OpenedFor(t, o, requests, said) => said'[o] = said[o]
        BY <1>6, <1>12 DEF OpenedFor, ClosedFor, Is
      <4>3. requests' = requests /\ DOMAIN handles' = DOMAIN handles
            /\ \A i \in DOMAIN handles : handles'[i].file = handles[i].file
        BY <1>6, <1>10
      <4>4. ASSUME NEW o \in DOMAIN requests', OpenedFor(t, o, requests, said)', ~ClosedFor(t, requests, said)'
            PROVE  said'[o].handle \in DOMAIN handles' /\ handles'[said'[o].handle].file = t
        <5>1. o \in DOMAIN requests /\ OpenedFor(t, o, requests, said) /\ ~ClosedFor(t, requests, said) /\ said'[o] = said[o]
          BY <4>2, <4>3, <4>4
        <5>2. said[o].handle \in DOMAIN handles /\ handles[said[o].handle].file = t
          BY <4>1, <5>1 DEF HandleOwned
        <5> QED
          BY <4>3, <5>1, <5>2
      <4>5. QED
        BY <4>4 DEF HandleOwned
    <3>2. LeakFree(t, x, requests, results, said)'
      BY <1>6, <1>10, <1>11, <2>2, <2>4 DEF Served, LeakFree, Is
    <3>3. GotFromFile(t, x, g)' /\ FileWrittenSoFar(t, x, requests, said)'
      BY <1>9, <2>2, <2>4 DEF Served, GotFromFile, FileWrittenSoFar
    <3>4. ReadsOn(t, x, g, requests, results, said)'
      <4>1. SUFFICES ASSUME x.phase \in {"opening", "open"}, NEW o \in DOMAIN requests, OpenedFor(t, o, requests, said)
                     PROVE  /\ x.busy
                            /\ \A q \in DOMAIN requests : Is(requests, q, "FILE_READ", s) /\ results[q] = Pending =>
                                 q = p /\ Ahead(s, g, answer, h)'
        <5>1. \A o \in DOMAIN requests : OpenedFor(t, o, requests, said)' => OpenedFor(t, o, requests, said) /\ said'[o].handle = h
          BY <1>6, <1>7, <1>12, <2>4 DEF OpenedFor, Is
        <5>2. ASSUME x.phase \in {"opening", "open"}, NEW o \in DOMAIN requests', OpenedFor(t, o, requests, said)'
              PROVE  /\ ~x.busy => handles'[said'[o].handle].pos = Len(g)
                     /\ \A q \in DOMAIN requests' : Is(requests, q, "FILE_READ", t)' /\ results'[q] = Pending =>
                          /\ said'[q] = Pending => handles'[said'[o].handle].pos = Len(g)
                          /\ said'[q].kind = "ok" => Ahead(t, g, said[q], said[o].handle)'
          <6>1. o \in DOMAIN requests /\ OpenedFor(t, o, requests, said) /\ said'[o].handle = h
            BY <1>6, <5>1, <5>2
          <6>2. x.busy /\ \A q \in DOMAIN requests : Is(requests, q, "FILE_READ", s) /\ results[q] = Pending => q = p /\ Ahead(s, g, answer, h)'
            BY <4>1, <5>2, <6>1
          <6>3. ASSUME NEW q \in DOMAIN requests', Is(requests, q, "FILE_READ", t)', results'[q] = Pending
                PROVE  said'[q] # Pending /\ Ahead(t, g, said[q], said[o].handle)'
            <7>1. q = p /\ Ahead(s, g, answer, h)'
              BY <1>6, <2>4, <6>2, <6>3 DEF Is
            <7>2. said'[q] = answer /\ answer # Pending
              BY <1>4, <1>6, <7>1, AnswerKinds
            <7>3. QED
              BY <2>4, <6>1, <7>1, <7>2 DEF Ahead
          <6>4. QED
            BY <6>2, <6>3
        <5>3. QED
          BY <5>2 DEF ReadsOn
      <4>2. x.phase = "open"
        BY <1>6, <1>8, <2>2, <2>4, <4>1 DEF Asked, UsedWhileOpen, Opened, Is
      <4>3. x.busy /\ \A q \in DOMAIN requests : Is(requests, q, "FILE_READ", s) /\ results[q].kind # "ok" => p = q
        BY <1>6, <1>8, <1>9, <2>2, <2>4, <4>2, AnswerKinds DEF Asked, ReadsInTurn
      <4>4. \A q \in DOMAIN requests : Is(requests, q, "FILE_READ", s) /\ results[q] = Pending => q = p
        BY <4>3, AnswerKinds
      <4>5. said[o].handle = h /\ said'[o].handle = h
        BY <1>7, <1>12, <2>4, <4>1 DEF OpenedFor, Is
      <4>6. ASSUME results[p] = Pending
            PROVE  Ahead(s, g, answer, h)'
        <5>1. handles[h].pos = Len(g)
          BY <1>6, <1>8, <1>9, <2>2, <2>4, <4>1, <4>5, <4>6 DEF Served, ReadsOn
        <5>2. file = Content(s) /\ Len(g) <= MaxChunks
          BY <1>7, <1>9, <2>2, <2>4 DEF Served, GotFromFile
        <5>3. Len(file) = MaxChunks /\ MaxChunks \in Nat
          BY <1>7, <5>2, Contents, AfcAssumption
        <5>4. CASE handles[h].pos < Len(file)
          <6>1. handles[h].pos + 1 \in 1 .. MaxChunks
            BY <1>3, <5>3, <5>4
          <6>2. file[handles[h].pos + 1] = Chunk(s, Len(g) + 1)
            BY <5>1, <5>2, <6>1 DEF Content
          <6>3. answer.chunk = Chunk(s, Len(g) + 1) /\ Len(g) < MaxChunks /\ handles'[h].pos = Len(g) + 1
            BY <1>4, <1>10, <5>1, <5>3, <5>4, <6>2
          <6>4. QED
            BY <6>3 DEF Ahead
        <5>5. CASE ~(handles[h].pos < Len(file))
          <6>1. answer.chunk = Nothing /\ Len(g) = MaxChunks /\ handles'[h].pos = Len(g)
            BY <1>3, <1>4, <1>10, <5>1, <5>2, <5>3, <5>5
          <6>2. QED
            BY <6>1 DEF Ahead
        <5>6. QED
          BY <5>4, <5>5
      <4>7. QED
        BY <4>3, <4>4, <4>5, <4>6 DEF Ahead
    <3>5. QED
      BY <2>1, <3>1, <3>2, <3>3, <3>4 DEF Served
  <2>5. QED
    BY <2>3, <2>4
<1>14. files' \in [Streams -> Seq(Chunks)] /\ DOMAIN handles' \subseteq Handles
  BY <1>2, <1>10 DEF TypeOK
<1>15. QED
  BY <1>1, <1>4, <1>10, <1>12, <1>13, <1>14, DeviceStep

\* The device giving a handle up preserves the invariant.
LEMMA ServesClose ==
  ASSUME IInv, NEW p, p = Head(toDevice), NEW h \in DOMAIN handles, h = requests[p].handle, requests[p].op = "FILE_CLOSE",
         DeviceAnswers(Ok), handles' = [g \in DOMAIN handles \ {h} |-> handles[g]], files' = files
  PROVE  IInv'
<1>1. Ok \in Answers /\ Ok.kind = "ok"
  BY AnswerKinds
<1>2. SaysTo(p, Ok)
  BY <1>1, AnswerDevice
<1>3. /\ UNCHANGED <<requests, results, socket>> /\ p \in DOMAIN requests /\ said[p] = Pending /\ said'[p] = Ok
      /\ \A q \in DOMAIN requests : q # p => said'[q] = said[q]
  BY <1>2 DEF SaysTo, clientVars
<1> DEFINE s == requests[p].stream
<1>4. /\ s \in Streams /\ handles[h].file = s
      /\ \A i \in DOMAIN handles : handles[i].file = s => i = h
  <2>1. requests[p].op # "FILE_OPEN"
    OBVIOUS
  <2>2. QED
    BY <1>2, <2>1, OwnHandle, Zenon
<1>5. Is(requests, p, "FILE_CLOSE", s)
  BY DEF Is
<1> HIDE DEF s
<1>6. DOMAIN handles' = DOMAIN handles \ {h} /\ \A i \in DOMAIN handles' : handles'[i] = handles[i]
  OBVIOUS
<1>7. \A q \in DOMAIN requests : ~Is(requests, q, "FILE_CLOSE", s) => (requests[q].stream = s => said'[q] = said[q])
  BY <1>3, <1>5
<1>8. HandlesKnown'
  <2>1. \A q \in DOMAIN requests : requests[q].op = "FILE_OPEN" => said'[q] = said[q]
    BY <1>3
  <2>2. QED
    BY <1>3, <1>6, <2>1 DEF IInv, HandlesKnown, OpenedFor, Is
<1>9. ASSUME NEW t \in Streams
      PROVE  \E x, g : x = streams[t] /\ g = got[t] /\ Served(t, x, g, requests, results, said)'
  <2>1. PICK x, g : x = streams[t] /\ g = got[t]
    OBVIOUS
  <2>2. Asked(t, x, g, requests, results) /\ Served(t, x, g, requests, results, said)
    BY <2>1 DEF IInv
  <2>3. CASE t # s
    BY <1>2, <1>4, <1>6, <2>1, <2>2, <2>3, OthersServed DEF s
  <2>4. CASE t = s
    <3>1. HandleOwned(t, requests, said)'
      BY <1>1, <1>3, <1>5, <2>4 DEF HandleOwned, ClosedFor
    <3>2. FileWrittenSoFar(t, x, requests, said)'
      BY <1>3, <1>7, <2>2, <2>4 DEF Served, FileWrittenSoFar, WrittenAhead, OpenedFor, Is
    <3>3. GotFromFile(t, x, g)'
      BY <2>2 DEF Served, GotFromFile
    <3>4. x.phase \in Opened /\ x.phase # "open"
      BY <1>3, <1>5, <2>2, <2>4 DEF Asked, UsedWhileOpen, Is
    <3>5. ReadsOn(t, x, g, requests, results, said)'
      BY <3>4 DEF ReadsOn, Opened
    <3>6. LeakFree(t, x, requests, results, said)'
      BY <1>4, <1>6, <2>4 DEF LeakFree
    <3>7. QED
      BY <2>1, <3>1, <3>2, <3>3, <3>5, <3>6 DEF Served
  <2>5. QED
    BY <2>3, <2>4
<1>10. /\ DOMAIN handles' \subseteq Handles /\ \A i \in DOMAIN handles' : handles'[i] \in [file : Streams, pos : Nat]
       /\ files' \in [Streams -> Seq(Chunks)]
  BY <1>6 DEF IInv, TypeOK
<1>11. QED
  BY <1>1, <1>8, <1>9, <1>10, DeviceStep


\* A request the device serves preserves the invariant.
LEMMA DeviceServesStep ==
  ASSUME IInv, DeviceServes
  PROVE  IInv'
<1>1. PICK p, h, file : p = Head(toDevice) /\ h = requests[p].handle /\ file = files[handles[h].file]
  OBVIOUS
<1>2. CASE /\ requests[p].op = "FILE_OPEN"
           /\ \E new \in Handles \ DOMAIN handles :
                /\ DeviceAnswers(Answer("ok", new, Nothing))
                /\ handles' = [g \in DOMAIN handles \cup {new} |->
                                 IF g = new THEN [file |-> requests[p].stream, pos |-> 0] ELSE handles[g]]
                /\ files' = IF requests[p].stream \in Writers
                            THEN [files EXCEPT ![requests[p].stream] = <<>>] ELSE files
  <2>1. PICK s : s = requests[p].stream
    OBVIOUS
  <2>2. PICK new \in Handles \ DOMAIN handles :
          /\ DeviceAnswers(Answer("ok", new, Nothing))
          /\ handles' = [g \in DOMAIN handles \cup {new} |-> IF g = new THEN [file |-> s, pos |-> 0] ELSE handles[g]]
          /\ files' = IF s \in Writers THEN [files EXCEPT ![s] = <<>>] ELSE files
    BY <1>2, <2>1
  <2>3. QED
    BY <1>1, <1>2, <2>1, <2>2, ServesOpen
<1>3. CASE /\ requests[p].op = "FILE_WRITE" /\ h \in DOMAIN handles /\ DeviceAnswers(Ok)
           /\ files' = [files EXCEPT ![handles[h].file] = Append(@, requests[p].chunk)]
           /\ UNCHANGED handles
  BY <1>1, <1>3, ServesWrite
<1>4. CASE /\ requests[p].op = "FILE_READ" /\ h \in DOMAIN handles
           /\ IF handles[h].pos < Len(file)
              THEN /\ DeviceAnswers(Answer("ok", NoHandle, file[handles[h].pos + 1]))
                   /\ handles' = [handles EXCEPT ![h].pos = @ + 1]
              ELSE DeviceAnswers(Ok) /\ UNCHANGED handles
           /\ UNCHANGED files
  BY <1>1, <1>4, ServesRead
<1>5. CASE /\ requests[p].op = "FILE_CLOSE" /\ h \in DOMAIN handles /\ DeviceAnswers(Ok)
           /\ handles' = [g \in DOMAIN handles \ {h} |-> handles[g]]
           /\ UNCHANGED files
  BY <1>1, <1>5, ServesClose
<1>6. QED
  BY <1>1, <1>2, <1>3, <1>4, <1>5, Zenon DEF DeviceServes

---------------------------------------------------------------------------
(* The remaining steps, and the invariant.                                 *)

\* The client taking an answer off the socket preserves the invariant.
LEMMA HandleDataStep ==
  ASSUME IInv, HandleData
  PROVE  IInv'
<1> DEFINE p == Head(inbox).packet
<1> DEFINE result == Head(inbox).answer
<1>1. inbox \in Seq([packet : Nat, answer : Answers]) /\ inbox # <<>> /\ inbox' = Tail(inbox) /\ UNCHANGED <<handles, files>>
  BY DEF IInv, TypeOK, HandleData
<1>2. /\ Head(inbox) = inbox[1] /\ 1 \in DOMAIN inbox
      /\ inbox' \in Seq([packet : Nat, answer : Answers])
      /\ \A i \in DOMAIN inbox' : \E j \in DOMAIN inbox : inbox'[i] = inbox[j]
  BY <1>1, TailElements
<1>3. result = said[p] /\ result # Pending /\ p \in DOMAIN requests
  BY <1>2 DEF IInv, AnswerInv, Truthful
<1>4. result.kind \in {"ok", "refused"}
  BY <1>3 DEF IInv, AnswerInv, InOrder
<1>5. CASE p \in responseCallbacks /\ Settle(p, result)
  <2> HIDE DEF p, result
  <2>1. QED
    BY <1>1, <1>2, <1>3, <1>4, <1>5, SettleStep
<1>6. CASE UNCHANGED <<clientVars, toDevice, said>>
  <2>1. UNCHANGED <<requests, responseCallbacks, results, streams, got, socket, toDevice, said, handles, files>>
    BY <1>1, <1>6 DEF clientVars
  <2>2. TypeOK'
    BY <1>2, <2>1 DEF IInv, TypeOK
  <2>3. Truthful'
    BY <1>2, <2>1 DEF IInv, AnswerInv, Truthful
  <2>4. Awaited' /\ InOrder' /\ OwnResponse' /\ HandlesKnown'
    BY <2>1 DEF IInv, AnswerInv, Awaited, InOrder, OwnResponse, HandlesKnown, OpenedFor, Is
  <2>5. \A t \in Streams : (Asked(t, streams[t], got[t], requests, results) /\ Served(t, streams[t], got[t], requests, results, said))'
    <3>1. ASSUME NEW t \in Streams
          PROVE  (Asked(t, streams[t], got[t], requests, results) /\ Served(t, streams[t], got[t], requests, results, said))'
      <4>1. PICK x, g : x = streams[t] /\ g = got[t] /\ Asked(t, x, g, requests, results) /\ Served(t, x, g, requests, results, said)
        BY DEF IInv
      <4>2. SameFor(t, results)
        BY <2>1 DEF SameFor
      <4>3. SoundAfter(t, x, g) /\ x = streams'[t] /\ g = got'[t]
        BY <2>1, <4>1, <4>2, KeptAsked, KeptServed DEF SoundAfter
      <4>4. QED
        BY <4>3, SoundThen
    <3>2. QED
      BY <3>1
  <2>6. QED
    BY <2>2, <2>3, <2>4, <2>5 DEF IInv, AnswerInv
<1>7. QED
  BY <1>5, <1>6, Zenon DEF HandleData

\* The socket closed on either side preserves the invariant.
LEMMA SocketStep ==
  ASSUME IInv, Close \/ SocketEnd
  PROVE  IInv'
<1>1. UNCHANGED <<requests, responseCallbacks, results, streams, got, said, handles, files>> /\ socket' \in {"ended", "destroyed"}
  BY DEF Close, SocketEnd, deviceVars
<1>2. \/ UNCHANGED <<toDevice, inbox>>
      \/ toDevice' = <<>> /\ inbox' = <<>>
  BY DEF Close, SocketEnd
<1>3. TypeOK'
  <2>1. toDevice \in Seq(Nat) /\ inbox \in Seq([packet : Nat, answer : Answers])
    BY DEF IInv, TypeOK
  <2>2. CASE UNCHANGED <<toDevice, inbox>>
    BY <1>1, <2>1, <2>2 DEF IInv, TypeOK
  <2>3. CASE toDevice' = <<>> /\ inbox' = <<>>
    <3>1. toDevice' \in Seq(Nat) /\ inbox' \in Seq([packet : Nat, answer : Answers])
      BY <2>3
    <3>2. QED
      BY <1>1, <3>1 DEF IInv, TypeOK
  <2>4. QED
    BY <1>2, <2>2, <2>3
<1>4. Truthful' /\ InOrder'
  BY <1>1, <1>2 DEF IInv, AnswerInv, Truthful, InOrder
<1>5. Awaited' /\ OwnResponse' /\ HandlesKnown'
  BY <1>1 DEF IInv, AnswerInv, Awaited, OwnResponse, HandlesKnown, OpenedFor, Is
<1>6. ASSUME NEW t \in Streams
      PROVE  (Asked(t, streams[t], got[t], requests, results) /\ Served(t, streams[t], got[t], requests, results, said))'
  <2>1. PICK x, g : x = streams[t] /\ g = got[t] /\ Asked(t, x, g, requests, results) /\ Served(t, x, g, requests, results, said)
    BY DEF IInv
  <2>2. SameFor(t, results)
    BY <1>1 DEF SameFor
  <2>3. SoundAfter(t, x, g) /\ x = streams'[t] /\ g = got'[t]
    BY <1>1, <2>1, <2>2, KeptAsked, KeptServed DEF SoundAfter
  <2>4. QED
    BY <2>3, SoundThen
<1>7. QED
  BY <1>3, <1>4, <1>5, <1>6 DEF IInv, AnswerInv

\* The invariant holds before any stream is made.
LEMMA InitSound == Init => IInv
<1> SUFFICES ASSUME Init PROVE IInv
  OBVIOUS
<1>1. /\ requests = <<>> /\ results = <<>> /\ said = <<>> /\ toDevice = <<>> /\ inbox = <<>> /\ responseCallbacks = {}
      /\ socket = "open" /\ DOMAIN handles = {}
      /\ streams = [s \in Streams |-> Unopened] /\ got = [s \in Readers |-> <<>>]
      /\ files = [s \in Streams |-> IF s \in Readers THEN Content(s) ELSE <<Chunk(s, 0)>>]
  BY DEF Init
<1>2. Unopened \in States
  BY DEF Unopened, States
<1>3. \A s \in Streams : Content(s) \in Seq(Chunks) /\ <<Chunk(s, 0)>> \in Seq(Chunks)
  BY Contents, AnswerKinds
<1>4. files \in [Streams -> Seq(Chunks)]
  BY <1>1, <1>3
<1>5. streams \in [Streams -> States] /\ got \in [Readers -> Seq(Chunks)]
  BY <1>1, <1>2
<1>6. TypeOK
  BY <1>1, <1>4, <1>5 DEF TypeOK
<1>7. AnswerInv /\ HandlesKnown
  BY <1>1 DEF AnswerInv, Awaited, InOrder, Truthful, OwnResponse, HandlesKnown
<1>8. ASSUME NEW s \in Streams
      PROVE  Asked(s, streams[s], got[s], requests, results) /\ Served(s, streams[s], got[s], requests, results, said)
  <2>1. DOMAIN requests = {} /\ streams[s] = Unopened /\ (s \in Readers => got[s] = <<>> /\ files[s] = Content(s))
    BY <1>1
  <2>2. /\ Unopened.phase = "unopened" /\ Unopened.given = 0 /\ Unopened.done = 0 /\ ~Unopened.busy
        /\ ~Unopened.ended /\ ~Unopened.finished
    BY DEF Unopened
  <2>3. MaxChunks \in Nat
    BY AfcAssumption
  <2>4. Asked(s, streams[s], got[s], requests, results)
    BY <2>1, <2>2, <2>3 DEF Asked, OpenedOnce, UsedWhileOpen, NothingBefore, AsksAsItCan, WritesInOrder, ReadsInTurn, Opened
  <2>5. GotFromFile(s, streams[s], got[s])
    <3>1. SubSeq(Content(s), 1, 0) = <<>> /\ Len(<<>>) = 0
      BY Contents
    <3>2. SUFFICES ASSUME s \in Readers PROVE GotFromFile(s, streams[s], got[s])
      BY DEF GotFromFile
    <3>3. got[s] = <<>> /\ files[s] = Content(s) /\ ~streams[s].ended
      BY <2>1, <2>2, <3>2
    <3>4. Len(got[s]) <= MaxChunks /\ got[s] = SubSeq(Content(s), 1, Len(got[s]))
      BY <2>3, <3>1, <3>3
    <3>5. QED
      BY <3>3, <3>4 DEF GotFromFile
  <2>6. Served(s, streams[s], got[s], requests, results, said)
    BY <1>1, <2>1, <2>5 DEF Served, HandleOwned, FileWrittenSoFar, ReadsOn, LeakFree
  <2>7. QED
    BY <2>4, <2>6
<1>9. QED
  BY <1>6, <1>7, <1>8 DEF IInv

\* A step that changes nothing preserves the invariant.
LEMMA Stutter == IInv /\ UNCHANGED vars => IInv'
<1> SUFFICES ASSUME IInv, UNCHANGED vars PROVE IInv'
  OBVIOUS
<1>1. UNCHANGED <<requests, responseCallbacks, results, streams, got, socket, toDevice, inbox, handles, files, said>>
  BY DEF vars, clientVars, deviceVars
<1>2. TypeOK' /\ AnswerInv' /\ HandlesKnown'
  BY <1>1 DEF IInv, TypeOK, AnswerInv, Awaited, InOrder, Truthful, OwnResponse, HandlesKnown, OpenedFor, Is
<1>3. ASSUME NEW t \in Streams
      PROVE  (Asked(t, streams[t], got[t], requests, results) /\ Served(t, streams[t], got[t], requests, results, said))'
  <2>1. PICK x, g : x = streams[t] /\ g = got[t] /\ Asked(t, x, g, requests, results) /\ Served(t, x, g, requests, results, said)
    BY DEF IInv
  <2>2. SameFor(t, results)
    BY <1>1 DEF SameFor
  <2>3. SoundAfter(t, x, g) /\ x = streams'[t] /\ g = got'[t]
    BY <1>1, <2>1, <2>2, KeptAsked, KeptServed DEF SoundAfter
  <2>4. QED
    BY <2>3, SoundThen
<1>4. QED
  BY <1>2, <1>3 DEF IInv

\* The inductive invariant of the client, its streams and the device.
THEOREM AfcInvariant == Spec => []IInv
<1>1. Init => IInv
  BY InitSound
<1>2. IInv /\ [Next]_vars => IInv'
  <2> SUFFICES ASSUME IInv, [Next]_vars PROVE IInv'
    OBVIOUS
  <2>1. CASE HandleData
    BY <2>1, HandleDataStep
  <2>2. ASSUME NEW p \in DOMAIN requests, TimedOut(p) PROVE IInv'
    <3>1. p \in responseCallbacks /\ Settle(p, Late) /\ UNCHANGED <<inbox, handles, files>>
      BY <2>2 DEF TimedOut
    <3>2. inbox' \in Seq([packet : Nat, answer : Answers]) /\ \A i \in DOMAIN inbox' : \E j \in DOMAIN inbox : inbox'[i] = inbox[j]
      BY <3>1 DEF IInv, TypeOK
    <3>3. QED
      BY <3>1, <3>2, SettleStep
  <2>3. ASSUME NEW s \in Streams, OpenFile(s) \/ Destroy(s) PROVE IInv'
    BY <2>3, OpenFileStep, DestroyStep
  <2>4. ASSUME NEW s \in Writers, Write(s) \/ End(s) \/ Finish(s) PROVE IInv'
    BY <2>4, WriteStep
  <2>5. ASSUME NEW s \in Readers, Read(s) PROVE IInv'
    BY <2>5, ReadStep
  <2>6. CASE Close \/ SocketEnd
    BY <2>6, SocketStep
  <2>7. CASE DeviceServes
    BY <2>7, DeviceServesStep
  <2>8. CASE DeviceRefuses
    BY <2>8, DeviceRefusesStep
  <2>9. CASE UNCHANGED vars
    BY <2>9, Stutter
  <2>10. QED
    BY <2>1, <2>2, <2>3, <2>4, <2>5, <2>6, <2>7, <2>8, <2>9 DEF Next
<1>3. QED
  BY <1>1, <1>2, PTL DEF Spec

\* A request is settled by the device's answer to that very request, or not by an
\* answer (_createPacketPromise, _handleData).
THEOREM ResponsesAreOwn == Spec => []OwnResponse
<1>1. IInv => OwnResponse
  BY DEF IInv, AnswerInv
<1>2. QED
  BY <1>1, AfcInvariant, PTL

\* A handle that is open on the device is in use, being closed, or was lost with an
\* open that timed out (createWriteStream, createReadStream, _destroy).
THEOREM HandlesDoNotLeak == Spec => []NoHandleLeaks
<1>1. IInv => NoHandleLeaks
  <2> SUFFICES ASSUME IInv, socket = "open", NEW h \in DOMAIN handles
               PROVE  LET s == handles[h].file
                      IN  \/ Open(s) /\ streams[s].handle = h
                          \/ streams[s].phase = "opening"
                          \/ \E p \in DOMAIN requests :
                               /\ requests[p].stream = s
                               /\ \/ requests[p].op = "FILE_CLOSE" /\ said[p] \in {Pending, Refused}
                                  \/ requests[p].op = "FILE_OPEN" /\ results[p] = Late
    BY DEF NoHandleLeaks
  <2>1. PICK s : s = handles[h].file
    OBVIOUS
  <2>2. s \in Streams
    BY <2>1 DEF IInv, TypeOK
  <2>3. LeakFree(s, streams[s], requests, results, said)
    BY <2>2 DEF IInv, Served
  <2>4. QED
    BY <2>1, <2>3 DEF LeakFree, Is, Open
<1>2. QED
  BY <1>1, AfcInvariant, PTL

\* Of two beginnings of a content the shorter is a prefix of the longer.
LEMMA Beginnings ==
  ASSUME NEW s \in Streams, NEW n \in 0 .. MaxChunks, NEW m \in 0 .. MaxChunks, n <= m
  PROVE  /\ IsPrefix(SubSeq(Content(s), 1, n), SubSeq(Content(s), 1, m))
         /\ SubSeq(Content(s), 1, MaxChunks) = Content(s)
<1> DEFINE c == Content(s)
<1> DEFINE a == SubSeq(c, 1, n)
<1> DEFINE b == SubSeq(c, 1, m)
<1>1. MaxChunks \in Nat /\ c \in Seq(Chunks) /\ Len(c) = MaxChunks
  BY Contents, AfcAssumption
<1> HIDE DEF c
<1>2. a \in Seq(Chunks) /\ Len(a) = n /\ \A i \in 1 .. n : a[i] = c[i]
  BY <1>1, SubSeqProperties
<1>3. b \in Seq(Chunks) /\ Len(b) = m /\ \A i \in 1 .. m : b[i] = c[i]
  BY <1>1, SubSeqProperties
<1>4. SubSeq(c, 1, MaxChunks) = c
  <2>1. /\ SubSeq(c, 1, MaxChunks) \in Seq(Chunks) /\ Len(SubSeq(c, 1, MaxChunks)) = MaxChunks
        /\ \A i \in 1 .. MaxChunks : SubSeq(c, 1, MaxChunks)[i] = c[i]
    BY <1>1, SubSeqProperties
  <2>2. QED
    BY <1>1, <2>1, SeqEqual
<1> HIDE DEF a, b
<1>5. SubSeq(a, 1, n) = SubSeq(b, 1, n)
  <2>1. /\ SubSeq(a, 1, n) \in Seq(Chunks) /\ Len(SubSeq(a, 1, n)) = n
        /\ \A i \in 1 .. n : SubSeq(a, 1, n)[i] = a[i]
    BY <1>1, <1>2, SubSeqProperties
  <2>2. /\ SubSeq(b, 1, n) \in Seq(Chunks) /\ Len(SubSeq(b, 1, n)) = n
        /\ \A i \in 1 .. n : SubSeq(b, 1, n)[i] = b[i]
    BY <1>1, <1>3, SubSeqProperties
  <2>3. \A i \in 1 .. n : SubSeq(a, 1, n)[i] = SubSeq(b, 1, n)[i]
    BY <1>1, <1>2, <1>3, <2>1, <2>2
  <2>4. QED
    BY <2>1, <2>2, <2>3, SeqEqual
<1>6. IsPrefix(a, b)
  BY <1>2, <1>3, <1>5 DEF IsPrefix
<1>7. QED
  BY <1>4, <1>6 DEF a, b, c

\* What is written is what was given, in order and none of it twice or left out, and
\* all of it at the end; what was read is the file, without a gap, and all of it at an
\* end that is not that of being destroyed (_write, _read, _destroy).
THEOREM FilesAreStreams == Spec => []StreamsAreFiles
<1>1. ASSUME IInv, NEW s \in Writers
      PROVE  LET given == SubSeq(Content(s), 1, streams[s].given)
             IN  /\ streams[s].phase \in {"open", "destroyed", "closed"} => IsPrefix(files[s], given)
                 /\ streams[s].finished => files[s] = given
  <2>1. s \in Streams
    BY DEF Streams
  <2>2. PICK x : x = streams[s]
    OBVIOUS
  <2>3. Asked(s, x, got[s], requests, results) /\ Served(s, x, got[s], requests, results, said) /\ x \in States
    BY <1>1, <2>1, <2>2 DEF IInv, TypeOK
  <2>4. x.done \in Nat /\ x.given \in Nat /\ MaxChunks \in Nat /\ x.done <= x.given /\ x.given <= MaxChunks
    BY <2>3, AfcAssumption DEF States, Asked, WritesInOrder
  <2>5. x.finished => x.phase \in Opened /\ x.done = x.given
    BY <2>3 DEF Asked, NothingBefore, WritesInOrder
  <2>6. WrittenAhead(s, x, requests, said) => x.done + 1 <= x.given
    BY <2>3 DEF WrittenAhead, Asked, WritesInOrder
  <2>7. ASSUME x.phase \in Opened
        PROVE  files[s] = SubSeq(Content(s), 1, IF WrittenAhead(s, x, requests, said) THEN x.done + 1 ELSE x.done)
    <3>1. PICK o \in DOMAIN requests : Is(requests, o, "FILE_OPEN", s) /\ results[o].kind = "ok"
      BY <2>3, <2>7 DEF Asked, UsedWhileOpen
    <3>2. DOMAIN results = DOMAIN requests
      BY <1>1, Domains DEF IInv, TypeOK, Typed
    <3>3. said[o] = results[o]
      BY <1>1, <3>1, <3>2, AnswerKinds DEF IInv, AnswerInv, OwnResponse
    <3>4. OpenedFor(s, o, requests, said)
      BY <3>1, <3>3 DEF OpenedFor
    <3>5. QED
      BY <2>3, <3>4 DEF Served, FileWrittenSoFar
  <2>8. ASSUME x.phase \in Opened
        PROVE  IsPrefix(files[s], SubSeq(Content(s), 1, x.given))
    <3>1. PICK n : n = IF WrittenAhead(s, x, requests, said) THEN x.done + 1 ELSE x.done
      OBVIOUS
    <3>2. n \in 0 .. MaxChunks /\ x.given \in 0 .. MaxChunks /\ n <= x.given
      BY <2>4, <2>6, <3>1
    <3>3. QED
      BY <2>1, <2>7, <2>8, <3>1, <3>2, Beginnings
  <2>9. x.finished => files[s] = SubSeq(Content(s), 1, x.given)
    BY <2>4, <2>5, <2>6, <2>7
  <2>10. QED
    BY <2>2, <2>8, <2>9 DEF Opened
<1>2. ASSUME IInv, NEW s \in Readers
      PROVE  IsPrefix(got[s], files[s]) /\ (Open(s) /\ streams[s].ended => got[s] = files[s])
  <2>1. s \in Streams
    BY DEF Streams
  <2>2. GotFromFile(s, streams[s], got[s]) /\ got[s] \in Seq(Chunks) /\ MaxChunks \in Nat
    BY <1>2, <2>1, AfcAssumption DEF IInv, Served, TypeOK
  <2>3. Len(got[s]) \in 0 .. MaxChunks /\ MaxChunks \in 0 .. MaxChunks
    BY <2>2 DEF GotFromFile
  <2>4. SubSeq(Content(s), 1, MaxChunks) = Content(s) /\ IsPrefix(SubSeq(Content(s), 1, Len(got[s])), SubSeq(Content(s), 1, MaxChunks))
    BY <2>1, <2>2, <2>3, Beginnings
  <2>5. QED
    BY <2>2, <2>4 DEF GotFromFile, Open
<1>3. IInv => StreamsAreFiles
  BY <1>1, <1>2 DEF StreamsAreFiles
<1>4. QED
  BY <1>3, AfcInvariant, PTL

---------------------------------------------------------------------------
(* The walk over directories (AfcPaths).                                   *)

Files == [path : Paths, kind : FileKinds]
Listings == [dir : Seq(Items), names : Seq(Items)]

\* Below a directory, and below or at what has a name in it.
Below(d, p) == Len(p) > Len(d) /\ \A k \in 1 .. Len(d) : p[k] = d[k]
Under(d, n, p) == Below(d, p) /\ p[Len(d) + 1] = n

\* The device has no file outside a directory.
TreeOK(t) ==
  /\ DOMAIN t \subseteq Paths /\ \A p \in DOMAIN t : t[p] \in FileKinds
  /\ \A p \in DOMAIN t : IsDirectory(t, Front(p))

\* The listings a walk is in are those of the directories along a path, each without
\* the name by which the path goes on, or another.
PlacedAt(l, i, E) ==
  /\ Len(l.dir) = i - 1 /\ i - 1 <= Len(E) /\ \A k \in 1 .. i - 1 : l.dir[k] = E[k]
  /\ \A a, b \in 1 .. Len(l.names) : l.names[a] = l.names[b] => a = b
  /\ i <= Len(E) => \A a \in 1 .. Len(l.names) : l.names[a] # E[i]
Placed(L, E) == L \in Seq(Listings) /\ E \in Seq(Items) /\ \A i \in 1 .. Len(L) : PlacedAt(L[i], i, E)

\* What is left of the listings has not been met, nor anything below it.
Fresh(L, V) ==
  \A i \in 1 .. Len(L) : \A a \in 1 .. Len(L[i].names) : \A j \in 1 .. Len(V) :
    ~Under(L[i].dir, L[i].names[a], V[j].path)

MetDirectory(d, V) == d = Root \/ \E j \in 1 .. Len(V) : V[j] = [path |-> d, kind |-> "S_IFDIR"]
DirectoriesMet(L, V) == \A i \in 1 .. Len(L) : MetDirectory(L[i].dir, V)

StillThere(L, t) ==
  \A i \in 1 .. Len(L) : \A a \in 1 .. Len(L[i].names) : Append(L[i].dir, L[i].names[a]) \in DOMAIN t

Met(f, V) == \E j \in 1 .. Len(V) : V[j] = f
ToCome(f, L) == \E i \in 1 .. Len(L) : \E a \in 1 .. Len(L[i].names) : Under(L[i].dir, L[i].names[a], f.path)

\* Each file once, and behind the directory it is in.
MetInOrder(V) ==
  /\ \A i, j \in 1 .. Len(V) : V[i].path = V[j].path => i = j
  /\ \A i \in 1 .. Len(V) :
       Front(V[i].path) # Root =>
         \E j \in 1 .. i - 1 : V[j] = [path |-> Front(V[i].path), kind |-> "S_IFDIR"]

\* What is between two steps of a walk along E, whether or not something was removed.
UnderWay(L, E, V, t, removed) ==
  /\ Placed(L, E) /\ Fresh(L, V) /\ DirectoriesMet(L, V) /\ (removed \/ StillThere(L, t))

Listing(L, d, V, t, removed) ==
  /\ Len(L) = Len(d) /\ MetDirectory(d, V) /\ \A j \in 1 .. Len(V) : ~Below(d, V[j].path)
  /\ (removed \/ IsDirectory(t, d))

HasNext(L) == L # <<>> /\ L[Len(L)].names # <<>>

Walks == [phase : {"uncalled", "listing", "asking", "returned", "threw"}, recursive : BOOLEAN,
          dir : Seq(Items), listings : Seq(Listings)]

\* What a walk meets, and where it is with it.
Wants(f, w) == w.recursive \/ Len(f.path) = 1

AtListing(w, V, t, removed, F) ==
  /\ UnderWay(w.listings, w.dir, V, t, removed) /\ Listing(w.listings, w.dir, V, t, removed)
  /\ \A f \in F : Wants(f, w) => Met(f, V) \/ ToCome(f, w.listings) \/ Below(w.dir, f.path)

AtAsking(w, V, t, removed, F) ==
  /\ HasNext(w.listings)
  /\ UnderWay(w.listings, w.listings[Len(w.listings)].dir, V, t, removed)
  /\ \A f \in F : Wants(f, w) => Met(f, V) \/ ToCome(f, w.listings)

AtEnd(w, V, F) == w.listings = <<>> /\ \A f \in F : Wants(f, w) => Met(f, V)

WalkInv ==
  /\ TreeOK(tree) /\ troubled \in BOOLEAN /\ visited \in Seq(Files) /\ walk \in Walks
  /\ MetInOrder(visited) /\ \A j \in 1 .. Len(visited) : visited[j] \in present
  /\ walk.phase = "uncalled" =>
       visited = <<>> /\ lasting = {} /\ walk.dir = Root /\ walk.listings = <<>>
  /\ walk.phase # "uncalled" => lasting \subseteq FilesOf(tree) /\ FilesOf(tree) \subseteq present
  /\ walk.phase = "listing" => AtListing(walk, visited, tree, troubled, lasting)
  /\ walk.phase = "asking" => AtAsking(walk, visited, tree, troubled, lasting)
  /\ walk.phase = "returned" => AtEnd(walk, visited, lasting)
  /\ walk.phase = "threw" => walk.listings = <<>> /\ troubled

\* A set with 0 and the successor of each of its numbers has all numbers.
LEMMA Induction ==
  ASSUME NEW T, 0 \in T, \A n \in Nat : n \in T => n + 1 \in T
  PROVE  \A n \in Nat : n \in T
<1> DEFINE R == OpToRel(<, Nat)
<1> DEFINE U == Nat \ T
<1>1. IsWellFoundedOn(R, Nat)
  BY NatLessThanWellFounded
<1>2. \A x, y \in Nat : x < y => <<x, y>> \in R
  BY SMT DEF OpToRel
<1>3. ASSUME U # {} PROVE FALSE
  <2> HIDE DEF R, U
  <2>0. U \subseteq Nat
    BY DEF U
  <2>1. PICK x \in U : \A y \in U : ~ (<<y, x>> \in R)
    BY <1>1, <1>3, WFMin, <2>0
  <2>2. x \in Nat /\ x # 0 /\ x \notin T
    BY <2>0, <2>1 DEF U
  <2>3. x - 1 \in Nat /\ x - 1 < x /\ x = (x - 1) + 1
    BY <2>2
  <2>4. x - 1 \notin U
    BY <1>2, <2>1, <2>2, <2>3
  <2>5. x - 1 \in T
    BY <2>4, <2>3 DEF U
  <2> QED
    BY <2>2, <2>3, <2>5
<1> QED
  BY <1>3

\* Sequences of a length with the same elements are the same.
LEMMA SameSequence ==
  ASSUME NEW S, NEW u \in Seq(S), NEW v \in Seq(S), NEW n \in Nat, Len(u) = n, Len(v) = n,
         \A k \in 1 .. n : u[k] = v[k]
  PROVE  u = v
OBVIOUS

\* Front and Last take a sequence apart, and Append puts it together.
LEMMA FrontAndLast ==
  ASSUME NEW S, NEW p \in Seq(S), NEW n \in Nat \ {0}, Len(p) = n
  PROVE  /\ Front(p) \in Seq(S) /\ Len(Front(p)) = n - 1 /\ \A k \in 1 .. n - 1 : Front(p)[k] = p[k]
         /\ Last(p) = p[n] /\ Last(p) \in S
<1>1. PICK m \in Nat : m = n - 1
  OBVIOUS
<1>2. PICK q : q = SubSeq(p, 1, m)
  OBVIOUS
<1>3. q \in Seq(S) /\ Len(q) = m /\ \A k \in 1 .. m : q[k] = p[k]
  <2>1. 1 \in 1 .. n + 1 /\ m \in 1 - 1 .. n /\ m - 1 + 1 = m
    BY <1>1
  <2> QED
    BY <1>1, <1>2, <2>1, SubSeqProperties
<1>4. Front(p) = q
  BY <1>1, <1>2 DEF Front
<1>5. Last(p) = p[n] /\ p[n] \in S
  <2>1. n \in 1 .. n
    OBVIOUS
  <2> QED
    BY <2>1 DEF Last
<1> QED
  BY <1>1, <1>3, <1>4, <1>5

Appends(S, d, n, m, q) == d \in Seq(S) /\ n \in S /\ m \in Nat /\ Len(d) = m /\ q = Append(d, n)

Appendage(S, d, n, m, q) ==
  /\ q \in Seq(S) /\ Len(q) = m + 1 /\ (\A k \in 1 .. m : q[k] = d[k]) /\ q[m + 1] = n
  /\ Front(q) = d /\ Last(q) = n /\ q # <<>>

\* What Append makes of a sequence.
LEMMA Appended ==
  ASSUME NEW S, NEW d, NEW n, NEW m, NEW q, Appends(S, d, n, m, q)
  PROVE  Appendage(S, d, n, m, q)
<1> USE DEF Appends, Appendage
<1>1. q \in Seq(S) /\ Len(q) = m + 1 /\ (\A k \in 1 .. m : q[k] = d[k]) /\ q[m + 1] = n
  BY AppendProperties
<1>2. m + 1 \in Nat \ {0} /\ (m + 1) - 1 = m
  OBVIOUS
<1>3. Front(q) \in Seq(S) /\ Len(Front(q)) = m /\ (\A k \in 1 .. m : Front(q)[k] = q[k]) /\ Last(q) = q[m + 1]
  <2>1. PICK l \in Nat \ {0} : l = m + 1 /\ l - 1 = m
    BY <1>2
  <2>2. Len(q) = l
    BY <1>1, <2>1
  <2>3. /\ Front(q) \in Seq(S) /\ Len(Front(q)) = l - 1 /\ (\A k \in 1 .. l - 1 : Front(q)[k] = q[k])
        /\ Last(q) = q[l]
    <3>1. q \in Seq(S)
      BY <1>1
    <3> HIDE DEF Appends, Appendage
    <3> QED
      BY <2>2, <3>1, FrontAndLast
  <2> QED
    BY <2>1, <2>3
<1>4. Front(q) = d
  BY <1>1, <1>3, SameSequence
<1> QED
  BY <1>1, <1>3, <1>4

\* A sequence is its front with its last element behind it.
LEMMA Reappended ==
  ASSUME NEW S, NEW p \in Seq(S), Len(p) # 0
  PROVE  p = Append(Front(p), Last(p))
<1>1. PICK n \in Nat \ {0} : n = Len(p)
  OBVIOUS
<1>2. PICK d, e, m : d = Front(p) /\ e = Last(p) /\ m = n - 1
  OBVIOUS
<1>3. d \in Seq(S) /\ Len(d) = m /\ (\A k \in 1 .. m : d[k] = p[k]) /\ e = p[n] /\ e \in S /\ m \in Nat /\ m + 1 = n
  BY <1>1, <1>2, FrontAndLast
<1>4. PICK q : q = Append(d, e)
  OBVIOUS
<1>5. q \in Seq(S) /\ Len(q) = n /\ (\A k \in 1 .. m : q[k] = d[k]) /\ q[n] = e
  BY <1>3, <1>4, Appended DEF Appends, Appendage
<1>6. \A k \in 1 .. n : q[k] = p[k]
  <2>1. \A k \in 1 .. n : k \in 1 .. m \/ k = n
    BY <1>3
  <2> QED
    BY <1>3, <1>5, <2>1
<1>7. q = p
  BY <1>1, <1>5, <1>6, SameSequence
<1> QED
  BY <1>2, <1>4, <1>7

\* A path has a name at least.
LEMMA PathIs ==
  ASSUME NEW p \in Paths
  PROVE  p \in Seq(Items) /\ Len(p) \in Nat \ {0} /\ p # Root
<1>1. PICK n \in 1 .. MaxDepth : p \in [1 .. n -> Items]
  BY DEF Paths
<1>2. n \in Nat \ {0}
  BY AfcPathsAssumption
<1> QED
  BY <1>1, <1>2 DEF Root

\* What is in a directory has the directory above it.
LEMMA AboveIsThere ==
  ASSUME NEW t, TreeOK(t), NEW d \in Seq(Items), NEW n, NEW p \in DOMAIN t, Under(d, n, p)
  PROVE  /\ n \in Items /\ Append(d, n) \in DOMAIN t
         /\ Len(p) = Len(d) + 1 => p = Append(d, n)
         /\ Len(p) # Len(d) + 1 => t[Append(d, n)] = "S_IFDIR"
<1>1. PICK c \in Nat : c = Len(d)
  OBVIOUS
<1>2. \A o \in DOMAIN t : o \in Seq(Items) /\ Len(o) \in Nat \ {0} /\ o # Root
  BY PathIs DEF TreeOK
<1>3. n \in Items
  <2>1. c + 1 \in 1 .. Len(p) /\ p[c + 1] = n
    BY <1>1, <1>2 DEF Under, Below
  <2> QED
    BY <1>2, <2>1
<1>4. PICK q : q = Append(d, n)
  OBVIOUS
<1>5. q \in Seq(Items) /\ Len(q) = c + 1 /\ (\A k \in 1 .. c : q[k] = d[k]) /\ q[c + 1] = n
  BY <1>1, <1>3, <1>4, Appended DEF Appends, Appendage
<1>6. ASSUME NEW o \in DOMAIN t, Under(d, n, o), Len(o) = c + 1
      PROVE  o = q
  <2>1. \A k \in 1 .. c + 1 : o[k] = q[k]
    <3>1. \A k \in 1 .. c + 1 : k \in 1 .. c \/ k = c + 1
      OBVIOUS
    <3> QED
      BY <1>1, <1>5, <1>6, <3>1 DEF Under, Below
  <2> QED
    BY <1>2, <1>5, <1>6, <2>1, SameSequence
<1> DEFINE Fits(m) == \A o \in DOMAIN t : Len(o) = c + 1 + m /\ Under(d, n, o) =>
                        q \in DOMAIN t /\ (m = 0 \/ t[q] = "S_IFDIR")
           T == {m \in Nat : Fits(m)}
<1>7. 0 \in T
  BY <1>6
<1>8. ASSUME NEW m \in Nat, m \in T PROVE m + 1 \in T
  <2> SUFFICES ASSUME NEW o \in DOMAIN t, Len(o) = c + 1 + (m + 1), Under(d, n, o)
               PROVE  q \in DOMAIN t /\ t[q] = "S_IFDIR"
    OBVIOUS
  <2>1. PICK l \in Nat \ {0} : l = Len(o) /\ l = c + 1 + (m + 1) /\ l - 1 = c + 1 + m
    BY <1>2
  <2>2. PICK f : f = Front(o)
    OBVIOUS
  <2>3. f \in Seq(Items) /\ Len(f) = l - 1 /\ \A k \in 1 .. l - 1 : f[k] = o[k]
    <3>1. o \in Seq(Items) /\ Len(o) = l
      BY <1>2, <2>1
    <3>2. Front(o) \in Seq(Items) /\ Len(Front(o)) = l - 1 /\ \A k \in 1 .. l - 1 : Front(o)[k] = o[k]
      BY <3>1, FrontAndLast
    <3> QED
      BY <2>2, <3>2
  <2>4. Under(d, n, f)
    <3>1. Len(f) > c /\ c + 1 \in 1 .. l - 1 /\ \A k \in 1 .. c : k \in 1 .. l - 1
      BY <2>1, <2>3
    <3> QED
      BY <1>1, <2>3, <3>1 DEF Under, Below
  <2>5. f # Root
    BY <2>1, <2>3 DEF Root
  <2>6. f \in DOMAIN t /\ t[f] = "S_IFDIR"
    BY <2>2, <2>5 DEF TreeOK, IsDirectory
  <2>7. q \in DOMAIN t /\ (m = 0 \/ t[q] = "S_IFDIR")
    BY <1>8, <2>1, <2>3, <2>4, <2>6
  <2>8. CASE m = 0
    <3>1. f = q
      BY <1>6, <2>1, <2>3, <2>4, <2>6, <2>8
    <3> QED
      BY <2>6, <3>1
  <2> QED
    BY <2>7, <2>8
<1>9. \A m \in Nat : m \in T
  <2> HIDE DEF T
  <2> QED
    BY <1>7, <1>8, Induction
<1>10. PICK m \in Nat : Len(p) = c + 1 + m
  <2>1. Len(p) > c /\ Len(p) \in Nat
    BY <1>1, <1>2 DEF Under, Below
  <2>2. Len(p) - (c + 1) \in Nat /\ Len(p) = c + 1 + (Len(p) - (c + 1))
    BY <2>1
  <2> QED
    BY <2>2
<1>11. q \in DOMAIN t /\ (m = 0 \/ t[q] = "S_IFDIR")
  BY <1>9, <1>10
<1>12. Len(p) = c + 1 => p = q
  BY <1>6
<1> QED
  BY <1>1, <1>3, <1>4, <1>10, <1>11, <1>12

\* The names in a directory.
LEMMA ChildrenAre ==
  ASSUME NEW t, TreeOK(t), NEW d \in Seq(Items)
  PROVE  Children(t, d) = {n \in Items : Append(d, n) \in DOMAIN t}
<1>1. ASSUME NEW n \in Children(t, d) PROVE n \in Items /\ Append(d, n) \in DOMAIN t
  <2>1. PICK p \in DOMAIN t : Front(p) = d /\ n = Last(p)
    BY <1>1 DEF Children
  <2>2. p \in Seq(Items) /\ Len(p) \in Nat \ {0}
    BY PathIs DEF TreeOK
  <2>3. PICK l \in Nat \ {0} : l = Len(p)
    BY <2>2
  <2>4. Last(p) \in Items
    BY <2>2, <2>3, FrontAndLast
  <2>5. p = Append(d, n)
    BY <2>1, <2>2, Reappended
  <2> QED
    BY <2>1, <2>4, <2>5
<1>2. ASSUME NEW n \in Items, Append(d, n) \in DOMAIN t PROVE n \in Children(t, d)
  <2>1. PICK q : q = Append(d, n)
    OBVIOUS
  <2>2. Front(q) = d /\ Last(q) = n
    <3>1. PICK m \in Nat : Len(d) = m
      OBVIOUS
    <3>2. Appends(Items, d, n, m, q)
      BY <2>1, <3>1 DEF Appends
    <3> QED
      BY <3>2, Appended DEF Appendage
  <2> QED
    BY <1>2, <2>1, <2>2 DEF Children
<1> QED
  BY <1>1, <1>2

\* A listing without "." and "..".
Sieved(s, n, f) ==
  f = [i \in 0 .. n |-> IF i = 0 THEN <<>>
                        ELSE IF s[i] \in {".", ".."} THEN f[i - 1] ELSE Append(f[i - 1], s[i])]

\* The recursive function by which NotIgnored passes over "." and ".." exists.
LEMMA SievedExists ==
  ASSUME NEW s
  PROVE  \A n \in Nat : \E f : Sieved(s, n, f)
<1> DEFINE T == {n \in Nat : \E f : Sieved(s, n, f)}
<1>1. 0 \in T
  <2>1. PICK f : f = [i \in 0 .. 0 |-> <<>>]
    OBVIOUS
  <2>2. \A i \in 0 .. 0 : i = 0
    OBVIOUS
  <2>3. f = [i \in 0 .. 0 |-> IF i = 0 THEN <<>>
                              ELSE IF s[i] \in {".", ".."} THEN f[i - 1] ELSE Append(f[i - 1], s[i])]
    BY <2>1, <2>2
  <2> QED
    BY <2>3 DEF Sieved
<1>2. ASSUME NEW n \in Nat, n \in T PROVE n + 1 \in T
  <2>1. PICK f : Sieved(s, n, f)
    BY <1>2
  <2>2. PICK v : v = IF s[n + 1] \in {".", ".."} THEN f[n] ELSE Append(f[n], s[n + 1])
    OBVIOUS
  <2>3. PICK g : g = [i \in 0 .. n + 1 |-> IF i = n + 1 THEN v ELSE f[i]]
    OBVIOUS
  <2>4. g[n + 1] = v /\ \A i \in 0 .. n : g[i] = f[i]
    BY <2>3
  <2>5. ASSUME NEW i \in 0 .. n + 1
        PROVE  g[i] = IF i = 0 THEN <<>> ELSE IF s[i] \in {".", ".."} THEN g[i - 1] ELSE Append(g[i - 1], s[i])
    <3>1. CASE i = n + 1
      <4>1. i # 0 /\ i - 1 = n /\ n \in 0 .. n
        BY <3>1
      <4> QED
        BY <2>2, <2>4, <3>1, <4>1
    <3>2. CASE i # n + 1
      <4>1. i \in 0 .. n /\ (i # 0 => i - 1 \in 0 .. n)
        BY <3>2
      <4>2. f[i] = IF i = 0 THEN <<>> ELSE IF s[i] \in {".", ".."} THEN f[i - 1] ELSE Append(f[i - 1], s[i])
        BY <2>1, <4>1 DEF Sieved
      <4> QED
        BY <2>4, <4>1, <4>2
    <3> QED
      BY <3>1, <3>2
  <2>6. g = [i \in 0 .. n + 1 |-> g[i]]
    BY <2>3
  <2>7. g = [i \in 0 .. n + 1 |-> IF i = 0 THEN <<>>
                        ELSE IF s[i] \in {".", ".."} THEN g[i - 1] ELSE Append(g[i - 1], s[i])]
    BY <2>5, <2>6
  <2>8. Sieved(s, n + 1, g)
    BY <2>7 DEF Sieved
  <2>9. n + 1 \in Nat
    OBVIOUS
  <2> QED
    BY <2>8, <2>9
<1>3. \A n \in Nat : n \in T
  <2> HIDE DEF T
  <2> QED
    BY <1>1, <1>2, Induction
<1> QED
  BY <1>3

\* It has each other name once.
OnceEach(s, C) ==
  /\ s \in Seq(C)
  /\ \A a, b \in 1 .. Len(s) : s[a] = s[b] => a = b
  /\ \A n \in C : \E a \in 1 .. Len(s) : s[a] = n

\* What is listed of a directory has each name in it once, in whatever order the
\* device gives them.
LEMMA ListedOnce ==
  ASSUME NEW C, IsFiniteSet(C), C \cap {".", ".."} = {}, NEW order \in SetToSeqs(C \cup {".", ".."})
  PROVE  OnceEach(NotIgnored(order), C)
<1> DEFINE S == C \cup {".", ".."}
<1>1. PICK N \in Nat : N = Cardinality(S) /\ IsFiniteSet(S)
  <2>1. IsFiniteSet(C \cup {"."}) /\ IsFiniteSet((C \cup {"."}) \cup {".."})
    BY FS_AddElement
  <2>2. S = (C \cup {"."}) \cup {".."}
    OBVIOUS
  <2> HIDE DEF S
  <2> QED
    BY <2>1, <2>2, FS_CardinalityType
<1>2. order \in [1 .. N -> S] /\ \A i, j \in 1 .. N : i # j => order[i] # order[j]
  <2> HIDE DEF S
  <2>1. order \in SetToSeqs(S)
    BY DEF S
  <2> QED
    BY <1>1, <2>1 DEF SetToSeqs
<1> HIDE DEF S
<1>3. \A n \in S : \E i \in 1 .. N : order[i] = n
  <2>1. order \in Injection(1 .. N, S)
    BY <1>2 DEF Injection, IsInjective
  <2>2. Cardinality(1 .. N) = N
    BY FS_Interval
  <2>3. order \in Surjection(1 .. N, S)
    BY <1>1, <2>1, <2>2, FS_Injection
  <2> QED
    BY <2>3 DEF Surjection
<1>4. Len(order) = N
  BY <1>2
<1>5. PICK f : Sieved(order, N, f) /\ NotIgnored(order) = f[N]
  <2>1. NotIgnored(order) = (CHOOSE f : Sieved(order, N, f))[N]
    BY <1>4 DEF NotIgnored, Sieved
  <2> QED
    BY <2>1, SievedExists
<1> DEFINE Kept(i) == /\ f[i] \in Seq(C)
                      /\ \A a \in 1 .. Len(f[i]) : \E j \in 1 .. i : f[i][a] = order[j]
                      /\ \A a, b \in 1 .. Len(f[i]) : f[i][a] = f[i][b] => a = b
                      /\ \A j \in 1 .. i : order[j] \in C => \E a \in 1 .. Len(f[i]) : f[i][a] = order[j]
           T == {i \in Nat : i <= N => Kept(i)}
<1>6. 0 \in T
  <2>1. f[0] = <<>>
    <3>1. 0 \in 0 .. N
      OBVIOUS
    <3> QED
      BY <1>5, <3>1 DEF Sieved
  <2>2. PICK u : u = f[0] /\ u \in Seq(C) /\ Len(u) = 0 /\ 1 .. Len(u) = {} /\ 1 .. 0 = {}
    <3>1. PICK u : u = f[0]
      OBVIOUS
    <3>2. u \in Seq(C) /\ Len(u) = 0
      BY <2>1, <3>1
    <3>3. 1 .. 0 = {}
      OBVIOUS
    <3> QED
      BY <3>1, <3>2, <3>3
  <2>3. Kept(0)
    BY <2>2
  <2> HIDE DEF Kept
  <2> QED
    BY <2>3
<1>7. ASSUME NEW i \in Nat, i \in T PROVE i + 1 \in T
  <2> SUFFICES ASSUME i + 1 <= N PROVE Kept(i + 1)
    OBVIOUS
  <2>1. PICK m \in 1 .. N : m = i + 1 /\ m - 1 = i /\ i \in 0 .. N /\ m \in 0 .. N /\ m # 0
    <3>1. i + 1 \in 1 .. N /\ (i + 1) - 1 = i /\ i \in 0 .. N /\ i + 1 \in 0 .. N /\ i + 1 # 0
      OBVIOUS
    <3> QED
      BY <3>1
  <2>2. Kept(i)
    BY <1>7, <2>1
  <2>3. f[m] = IF order[m] \in {".", ".."} THEN f[i] ELSE Append(f[i], order[m])
    BY <1>5, <2>1 DEF Sieved
  <2>4. order[m] \in S
    BY <1>2, <2>1
  <2>5. \A j \in 1 .. m : j \in 1 .. i \/ j = m
    BY <2>1
  <2>6. \A j \in 1 .. i : j \in 1 .. m /\ j \in 1 .. N /\ j # m
    BY <2>1
  <2>7. CASE order[m] \in {".", ".."}
    <3>1. order[m] \notin C /\ f[m] = f[i]
      BY <2>3, <2>7
    <3>2. PICK u : u = f[i] /\ u = f[m]
      BY <3>1
    <3>3. u \in Seq(C) /\ \A a, b \in 1 .. Len(u) : u[a] = u[b] => a = b
      BY <2>2, <3>2
    <3>4. \A a \in 1 .. Len(u) : \E j \in 1 .. m : u[a] = order[j]
      <4>1. \A a \in 1 .. Len(u) : \E j \in 1 .. i : u[a] = order[j]
        BY <2>2, <3>2
      <4> QED
        BY <2>6, <4>1
    <3>5. \A j \in 1 .. m : order[j] \in C => \E a \in 1 .. Len(u) : u[a] = order[j]
      <4>1. \A j \in 1 .. i : order[j] \in C => \E a \in 1 .. Len(u) : u[a] = order[j]
        BY <2>2, <3>2
      <4> QED
        BY <2>5, <3>1, <4>1
    <3>6. Kept(m)
      BY <3>2, <3>3, <3>4, <3>5
    <3> HIDE DEF Kept
    <3> QED
      BY <2>1, <3>6
  <2>8. CASE order[m] \notin {".", ".."}
    <3>1. order[m] \in C
      BY <2>4, <2>8 DEF S
    <3>2. PICK u, n, e, v : u = f[i] /\ n = Len(u) /\ e = order[m] /\ v = Append(u, e)
      OBVIOUS
    <3>3. u \in Seq(C) /\ n \in Nat /\ e \in C
      BY <2>2, <3>1, <3>2
    <3>4. v \in Seq(C) /\ Len(v) = n + 1 /\ (\A a \in 1 .. n : v[a] = u[a]) /\ v[n + 1] = e
      BY <3>2, <3>3, AppendProperties
    <3>5. f[m] = v
      BY <2>3, <2>8, <3>2
    <3>6. \A a \in 1 .. n + 1 : a \in 1 .. n \/ a = n + 1
      BY <3>3
    <3>7. \A a \in 1 .. n : a \in 1 .. n + 1 /\ \E j \in 1 .. i : u[a] = order[j]
      BY <2>2, <3>2, <3>3
    <3>8. \A a \in 1 .. n : u[a] # e
      BY <1>2, <2>1, <2>6, <3>2, <3>7
    <3>9. \A a \in 1 .. n + 1 : \E j \in 1 .. m : v[a] = order[j]
      <4>1. m \in 1 .. m /\ v[n + 1] = order[m]
        BY <2>1, <3>2, <3>4
      <4>2. ASSUME NEW a \in 1 .. n PROVE \E j \in 1 .. m : v[a] = order[j]
        <5>1. PICK j \in 1 .. i : u[a] = order[j]
          BY <3>7
        <5>2. j \in 1 .. m /\ v[a] = u[a]
          BY <2>6, <3>4
        <5> QED
          BY <5>1, <5>2
      <4> QED
        BY <3>6, <4>1, <4>2
    <3>10. \A a, b \in 1 .. n + 1 : v[a] = v[b] => a = b
      BY <2>2, <3>2, <3>4, <3>6, <3>8
    <3>11. \A j \in 1 .. m : order[j] \in C => \E a \in 1 .. n + 1 : v[a] = order[j]
      <4>1. n + 1 \in 1 .. n + 1 /\ \A a \in 1 .. n : a \in 1 .. n + 1
        BY <3>3
      <4>2. \A j \in 1 .. i : order[j] \in C => \E a \in 1 .. n : u[a] = order[j]
        BY <2>2, <3>2
      <4>3. ASSUME NEW j \in 1 .. m, order[j] \in C PROVE \E a \in 1 .. n + 1 : v[a] = order[j]
        <5>1. CASE j = m
          BY <3>2, <3>4, <4>1, <5>1
        <5>2. CASE j \in 1 .. i
          <6>1. PICK a \in 1 .. n : u[a] = order[j]
            BY <4>2, <4>3, <5>2
          <6> QED
            BY <3>4, <4>1, <6>1
        <5> QED
          BY <2>5, <5>1, <5>2
      <4> QED
        BY <4>3
    <3>12. Kept(m)
      BY <3>4, <3>5, <3>9, <3>10, <3>11
    <3> HIDE DEF Kept
    <3> QED
      BY <2>1, <3>12
  <2> QED
    BY <2>7, <2>8
<1>8. \A i \in Nat : i \in T
  <2> HIDE DEF T
  <2> QED
    BY <1>6, <1>7, Induction
<1>9. Kept(N)
  BY <1>8
<1>10. \A n \in C : n \in S
  BY DEF S
<1>11. \A n \in C : \E a \in 1 .. Len(f[N]) : f[N][a] = n
  <2>1. \A j \in 1 .. N : order[j] \in C => \E a \in 1 .. Len(f[N]) : f[N][a] = order[j]
    BY <1>9
  <2> TAKE n \in C
  <2>2. PICK j \in 1 .. N : order[j] = n
    BY <1>3, <1>10
  <2>3. PICK a \in 1 .. Len(f[N]) : f[N][a] = order[j]
    BY <2>1, <2>2
  <2> QED
    BY <2>2, <2>3
<1> QED
  BY <1>5, <1>9, <1>11 DEF OnceEach

\* A bounded set of numbers has a largest.
LEMMA LargestIs ==
  ASSUME NEW S, S \subseteq Nat, 0 \in S, NEW n \in Nat, \A x \in S : x <= n
  PROVE  Max(S) \in S /\ \A y \in S : Max(S) >= y
<1> DEFINE T == {m \in Nat : \E x \in S : \A y \in S : y <= m => x >= y}
<1>1. 0 \in T
  <2>1. \A y \in S : y <= 0 => 0 >= y
    OBVIOUS
  <2> QED
    BY <2>1
<1>2. ASSUME NEW m \in Nat, m \in T PROVE m + 1 \in T
  <2>1. PICK x \in S : \A y \in S : y <= m => x >= y
    BY <1>2
  <2>2. CASE m + 1 \in S
    <3>1. \A y \in S : y <= m + 1 => m + 1 >= y
      OBVIOUS
    <3> QED
      BY <2>2, <3>1
  <2>3. CASE m + 1 \notin S
    <3>1. \A y \in S : y <= m + 1 => y <= m
      BY <2>3
    <3>2. \A y \in S : y <= m + 1 => x >= y
      BY <2>1, <3>1
    <3> QED
      BY <3>2
  <2> QED
    BY <2>2, <2>3
<1>3. \A m \in Nat : m \in T
  <2> HIDE DEF T
  <2> QED
    BY <1>1, <1>2, Induction
<1>4. \E x \in S : \A y \in S : x >= y
  BY <1>3
<1> QED
  BY <1>4 DEF Max

\* A walk goes on in the innermost listing that is not at its end.
CutOff(L, K) ==
  /\ K \in Seq(Listings) /\ Len(K) <= Len(L) /\ \A i \in 1 .. Len(K) : K[i] = L[i]
  /\ \A i \in 1 .. Len(L) : i > Len(K) => Len(L[i].names) = 0
  /\ Len(K) # 0 => L[Len(K)].names # <<>>

\* The loops that are not over are a beginning of those the walk is in, and have all
\* the names that are left.
LEMMA UnfinishedCutOff ==
  ASSUME NEW L \in Seq(Listings)
  PROVE  CutOff(L, Unfinished(L))
<1>1. PICK n \in Nat : n = Len(L)
  OBVIOUS
<1>2. PICK S : S = {0} \cup {i \in DOMAIN L : L[i].names # <<>>}
  OBVIOUS
<1>3. S = {0} \cup {i \in 1 .. n : L[i].names # <<>>}
  BY <1>1, <1>2
<1>4. PICK m \in 0 .. n : m = Max(S) /\ m \in S /\ \A y \in S : m >= y
  <2>1. S \subseteq Nat /\ 0 \in S /\ \A x \in S : x <= n /\ x \in 0 .. n
    BY <1>3
  <2>2. Max(S) \in S /\ \A y \in S : Max(S) >= y
    BY <2>1, LargestIs
  <2> QED
    BY <2>1, <2>2
<1>5. PICK K : K = SubSeq(L, 1, m)
  OBVIOUS
<1>6. K \in Seq(Listings) /\ Len(K) = m /\ \A i \in 1 .. m : K[i] = L[i]
  <2>1. 1 \in 1 .. n + 1 /\ m \in 1 - 1 .. n /\ m - 1 + 1 = m /\ \A i \in 1 .. m : 1 + i - 1 = i
    OBVIOUS
  <2> QED
    BY <1>1, <1>5, <2>1, SubSeqProperties
<1>7. ASSUME NEW i \in 1 .. n, i > m PROVE Len(L[i].names) = 0
  <2>1. i \notin S
    BY <1>4, <1>7
  <2>2. L[i].names = <<>>
    BY <1>3, <2>1
  <2> QED
    BY <2>2
<1>8. m # 0 => L[m].names # <<>>
  BY <1>3, <1>4
<1>9. Unfinished(L) = K
  BY <1>2, <1>4, <1>5 DEF Unfinished
<1> QED
  BY <1>1, <1>6, <1>7, <1>8, <1>9 DEF CutOff

\* A listing is of a path and has names.
LEMMA ListingOf ==
  ASSUME NEW l \in Listings
  PROVE  l.dir \in Seq(Items) /\ l.names \in Seq(Items)
BY DEF Listings

\* A walk cut off there is still under way, with all that was to come to come.
LEMMA CutKeeps ==
  ASSUME NEW L, NEW E, NEW V, NEW t, NEW removed, UnderWay(L, E, V, t, removed), NEW K, CutOff(L, K)
  PROVE  /\ Len(K) # 0 => HasNext(K) /\ UnderWay(K, K[Len(K)].dir, V, t, removed)
         /\ \A f : ToCome(f, L) => ToCome(f, K)
<1>1. PICK n, m : n = Len(L) /\ m = Len(K)
  OBVIOUS
<1>2. /\ L \in Seq(Listings) /\ E \in Seq(Items) /\ n \in Nat /\ m \in Nat /\ m <= n /\ K \in Seq(Listings)
      /\ \A i \in 1 .. m : i \in 1 .. n /\ K[i] = L[i]
  BY <1>1 DEF UnderWay, Placed, CutOff
<1>3. ASSUME NEW f, ToCome(f, L) PROVE ToCome(f, K)
  <2>1. PICK i \in 1 .. n : \E a \in 1 .. Len(L[i].names) : Under(L[i].dir, L[i].names[a], f.path)
    BY <1>1, <1>3 DEF ToCome
  <2>2. Len(L[i].names) # 0
    BY <2>1
  <2>3. i \in 1 .. m
    BY <1>1, <1>2, <2>2 DEF CutOff
  <2> QED
    BY <1>1, <1>2, <2>1, <2>3 DEF ToCome
<1>4. ASSUME m # 0 PROVE HasNext(K) /\ UnderWay(K, K[m].dir, V, t, removed)
  <2>1. m \in 1 .. m /\ m \in 1 .. n /\ K # <<>> /\ K[m].names # <<>>
    BY <1>1, <1>2, <1>4 DEF CutOff
  <2>2. HasNext(K)
    BY <1>1, <2>1 DEF HasNext
  <2>3. PICK D : D = K[m].dir /\ D \in Seq(Items)
    <3>1. K[m] \in Listings
      BY <1>1, <1>2, <2>1
    <3> QED
      BY <3>1, ListingOf
  <2>4. \A i \in 1 .. n : PlacedAt(L[i], i, E)
    BY <1>1 DEF UnderWay, Placed
  <2>5. Len(D) = m - 1 /\ m - 1 <= Len(E) /\ \A k \in 1 .. m - 1 : D[k] = E[k]
    <3>1. PlacedAt(L[m], m, E)
      BY <2>1, <2>4
    <3>2. D = L[m].dir
      BY <1>2, <2>1, <2>3
    <3> QED
      BY <3>1, <3>2 DEF PlacedAt
  <2>6. ASSUME NEW i \in 1 .. m
        PROVE  PlacedAt(K[i], i, D)
    <3>1. i - 1 <= m - 1 /\ i \in 1 .. n /\ K[i] = L[i] /\ \A k \in 1 .. i - 1 : k \in 1 .. m - 1
      BY <1>2
    <3>2. i <= Len(D) => i <= Len(E) /\ D[i] = E[i]
      <4>1. Len(E) \in Nat
        BY <1>2
      <4> QED
        BY <1>2, <2>5, <4>1
    <3> QED
      BY <2>4, <2>5, <3>1, <3>2 DEF PlacedAt
  <2>7. Placed(K, D)
    BY <1>1, <1>2, <2>3, <2>6 DEF Placed
  <2>8. Fresh(K, V) /\ DirectoriesMet(K, V) /\ (removed \/ StillThere(K, t))
    BY <1>1, <1>2 DEF UnderWay, Fresh, DirectoriesMet, StillThere
  <2> QED
    BY <2>2, <2>3, <2>7, <2>8 DEF UnderWay
<1> QED
  BY <1>1, <1>3, <1>4

---------------------------------------------------------------------------
\* A directory is listed.
Begins(L, d, V, t, removed, s, M) ==
  /\ TreeOK(t) /\ UnderWay(L, d, V, t, removed) /\ Listing(L, d, V, t, removed)
  /\ OnceEach(s, Children(t, d)) /\ M = Append(L, [dir |-> d, names |-> s])

Begun(L, d, V, t, removed, M) ==
  /\ UnderWay(M, d, V, t, removed)
  /\ \A f \in FilesOf(t) : ToCome(f, L) \/ Below(d, f.path) => ToCome(f, M)

\* A walk goes down into a directory: what is below it is to come.
LEMMA ListingBegins ==
  ASSUME NEW L, NEW d, NEW V, NEW t, NEW removed, NEW s, NEW M, Begins(L, d, V, t, removed, s, M)
  PROVE  Begun(L, d, V, t, removed, M)
<1>0. /\ TreeOK(t) /\ UnderWay(L, d, V, t, removed) /\ Listing(L, d, V, t, removed)
      /\ OnceEach(s, Children(t, d)) /\ M = Append(L, [dir |-> d, names |-> s])
  BY DEF Begins
<1>1. PICK n, e, c : n = Len(L) /\ e = [dir |-> d, names |-> s] /\ c = Len(d)
  OBVIOUS
<1>2. /\ L \in Seq(Listings) /\ d \in Seq(Items) /\ n \in Nat /\ c = n
  BY <1>0, <1>1 DEF UnderWay, Placed, Listing
<1>3. PICK C : C = Children(t, d) /\ C = {x \in Items : Append(d, x) \in DOMAIN t}
  BY <1>0, <1>2, ChildrenAre
<1>4. /\ s \in Seq(Items) /\ Len(s) \in Nat
      /\ \A a, b \in 1 .. Len(s) : s[a] = s[b] => a = b
      /\ \A a \in 1 .. Len(s) : s[a] \in C
      /\ \A x \in C : \E a \in 1 .. Len(s) : s[a] = x
  <2>1. s \in Seq(C) /\ C \subseteq Items
    BY <1>0, <1>3 DEF OnceEach
  <2>2. s \in Seq(Items) /\ Len(s) \in Nat /\ \A a \in 1 .. Len(s) : s[a] \in C
    BY <1>0, <2>1
  <2> QED
    BY <1>0, <1>3, <2>2 DEF OnceEach
<1>5. e \in Listings /\ e.dir = d /\ e.names = s
  BY <1>0, <1>1, <1>2, <1>4 DEF Listings
<1>6. M \in Seq(Listings) /\ Len(M) = n + 1 /\ (\A i \in 1 .. n : M[i] = L[i]) /\ M[n + 1] = e
  <2>1. M = Append(L, e)
    BY <1>0, <1>1
  <2> QED
    BY <1>0, <1>1, <1>2, <1>5, <2>1, AppendProperties
<1>7. \A i \in 1 .. n + 1 : i \in 1 .. n \/ i = n + 1
  BY <1>0, <1>2
<1>8. n + 1 \in 1 .. n + 1 /\ \A i \in 1 .. n : i \in 1 .. n + 1
  BY <1>0, <1>2
<1>9. Placed(M, d)
  <2>1. ASSUME NEW i \in 1 .. n + 1
        PROVE  PlacedAt(M[i], i, d)
    <3>1. CASE i \in 1 .. n
      BY <1>0, <1>1, <1>6, <3>1 DEF UnderWay, Placed
    <3>2. CASE i = n + 1
      <4>1. M[i].dir = d /\ M[i].names = s /\ i - 1 = n /\ ~(i <= n)
        BY <1>0, <1>2, <1>5, <1>6, <3>2
      <4>2. PICK l : l = M[i]
        OBVIOUS
      <4>3. l.dir = d /\ l.names = s /\ Len(d) = i - 1 /\ i - 1 <= Len(d) /\ ~(i <= Len(d))
        BY <1>0, <1>1, <1>2, <3>2, <4>1, <4>2
      <4>4. \A a, b \in 1 .. Len(l.names) : l.names[a] = l.names[b] => a = b
        BY <1>0, <1>4, <4>3
      <4>5. PlacedAt(l, i, d)
        BY <1>0, <4>3, <4>4 DEF PlacedAt
      <4> QED
        BY <1>0, <4>2, <4>5
    <3> QED
      BY <1>0, <1>7, <3>1, <3>2
  <2> QED
    BY <1>0, <1>2, <1>6, <2>1 DEF Placed
<1>10. Fresh(M, V)
  <2>1. ASSUME NEW i \in 1 .. n + 1, NEW a \in 1 .. Len(M[i].names), NEW j \in 1 .. Len(V)
        PROVE  ~Under(M[i].dir, M[i].names[a], V[j].path)
    <3>1. CASE i \in 1 .. n
      BY <1>0, <1>1, <1>6, <2>1, <3>1 DEF UnderWay, Fresh
    <3>2. CASE i = n + 1
      <4>1. M[i].dir = d
        BY <1>0, <1>5, <1>6, <3>2
      <4>2. ~Below(d, V[j].path)
        BY <1>0 DEF Listing
      <4> QED
        BY <1>0, <4>1, <4>2 DEF Under
    <3> QED
      BY <1>0, <1>7, <3>1, <3>2
  <2> QED
    BY <1>0, <1>6, <2>1 DEF Fresh
<1>11. DirectoriesMet(M, V)
  <2>1. ASSUME NEW i \in 1 .. n + 1 PROVE MetDirectory(M[i].dir, V)
    <3>1. CASE i \in 1 .. n
      BY <1>0, <1>1, <1>6, <3>1 DEF UnderWay, DirectoriesMet
    <3>2. CASE i = n + 1
      BY <1>0, <1>5, <1>6, <3>2 DEF Listing
    <3> QED
      BY <1>0, <1>7, <3>1, <3>2
  <2> QED
    BY <1>0, <1>6, <2>1 DEF DirectoriesMet
<1>12. removed \/ StillThere(M, t)
  <2> SUFFICES ASSUME ~removed, NEW i \in 1 .. n + 1, NEW a \in 1 .. Len(M[i].names)
               PROVE  Append(M[i].dir, M[i].names[a]) \in DOMAIN t
    BY <1>0, <1>6 DEF StillThere
  <2>1. CASE i \in 1 .. n
    BY <1>0, <1>1, <1>6, <2>1 DEF UnderWay, StillThere
  <2>2. CASE i = n + 1
    <3>1. M[i].dir = d /\ M[i].names = s
      BY <1>0, <1>5, <1>6, <2>2
    <3> QED
      BY <1>0, <1>3, <1>4, <3>1
  <2> QED
    BY <1>0, <1>7, <2>1, <2>2
<1>13. ASSUME NEW f \in FilesOf(t), ToCome(f, L) \/ Below(d, f.path) PROVE ToCome(f, M)
  <2>1. CASE ToCome(f, L)
    BY <1>0, <1>1, <1>6, <1>8, <2>1 DEF ToCome
  <2>2. CASE Below(d, f.path)
    <3>1. PICK p \in DOMAIN t : p = f.path
      BY <1>0 DEF FilesOf
    <3>2. PICK x : x = p[c + 1] /\ Under(d, x, p)
      BY <1>0, <1>1, <2>2, <3>1 DEF Under
    <3>3. x \in Items /\ Append(d, x) \in DOMAIN t
      BY <1>0, <1>2, <3>2, AboveIsThere
    <3>4. PICK a \in 1 .. Len(s) : s[a] = x
      BY <1>0, <1>3, <1>4, <3>3
    <3>5. M[n + 1].dir = d /\ M[n + 1].names = s
      BY <1>0, <1>5, <1>6
    <3> QED
      BY <1>0, <1>6, <1>8, <3>1, <3>2, <3>4, <3>5 DEF ToCome
  <2> QED
    BY <1>0, <1>13, <2>1, <2>2
<1> QED
  BY <1>9, <1>10, <1>11, <1>12, <1>13 DEF UnderWay, Begun

\* A listing without its first name.
Advanced(L, N, D, s, M) ==
  /\ M \in Seq(Listings) /\ Len(M) = N /\ \A i \in 1 .. N - 1 : M[i] = L[i]
  /\ M[N].dir = D /\ M[N].names \in Seq(Items) /\ Len(M[N].names) = Len(s) - 1
  /\ \A a \in 1 .. Len(s) - 1 : a + 1 \in 1 .. Len(s) /\ M[N].names[a] = s[a + 1]

\* One name fewer in the innermost listing.
LEMMA AdvancedIs ==
  ASSUME NEW L \in Seq(Listings), NEW N \in Nat \ {0}, Len(L) = N, NEW l, l = L[N], l.names # <<>>
  PROVE  Advanced(L, N, l.dir, l.names, Append(Front(L), [l EXCEPT !.names = Tail(l.names)]))
<1>1. l \in Listings
  <2>1. N \in 1 .. N
    OBVIOUS
  <2> QED
    BY <2>1
<1>2. PICK D, s : D = l.dir /\ s = l.names
  OBVIOUS
<1>3. D \in Seq(Items) /\ s \in Seq(Items) /\ s # <<>>
  BY <1>1, <1>2, ListingOf
<1>4. PICK r : r = Tail(s)
  OBVIOUS
<1>5. /\ r \in Seq(Items) /\ Len(r) = Len(s) - 1 /\ Len(s) \in Nat \ {0}
      /\ \A a \in 1 .. Len(s) - 1 : a + 1 \in 1 .. Len(s) /\ r[a] = s[a + 1]
  BY <1>3, <1>4, HeadTailProperties
<1>6. PICK e : e = [l EXCEPT !.names = Tail(l.names)]
  OBVIOUS
<1>7. e \in Listings /\ e.dir = D /\ e.names = r
  BY <1>1, <1>2, <1>4, <1>5, <1>6 DEF Listings
<1>8. PICK F, m, M : F = Front(L) /\ m = N - 1 /\ M = Append(F, e)
  OBVIOUS
<1>9. F \in Seq(Listings) /\ Len(F) = m /\ m \in Nat /\ m + 1 = N /\ \A i \in 1 .. m : F[i] = L[i]
  BY <1>8, FrontAndLast
<1>10. M \in Seq(Listings) /\ Len(M) = N /\ (\A i \in 1 .. m : M[i] = L[i]) /\ M[N] = e
  BY <1>7, <1>8, <1>9, AppendProperties
<1>11. Advanced(L, N, D, s, M)
  BY <1>5, <1>7, <1>8, <1>10 DEF Advanced
<1> QED
  BY <1>2, <1>6, <1>8, <1>11

\* A file is met.
Meets(L, N, D, s, V, t, removed, p, W, M) ==
  /\ N \in Nat \ {0} /\ Len(L) = N /\ D = L[N].dir /\ s = L[N].names /\ s # <<>>
  /\ V \in Seq(Files) /\ TreeOK(t) /\ UnderWay(L, D, V, t, removed) /\ MetInOrder(V)
  /\ p = Append(D, s[1]) /\ p \in DOMAIN t /\ W = Append(V, [path |-> p, kind |-> t[p]])
  /\ Advanced(L, N, D, s, M)

IsMet(L, D, V, t, removed, p, W, M) ==
  /\ W \in Seq(Files) /\ Len(W) = Len(V) + 1 /\ MetInOrder(W)
  /\ \A j \in 1 .. Len(V) : W[j] = V[j]
  /\ W[Len(V) + 1] = [path |-> p, kind |-> t[p]]
  /\ p \in Seq(Items)
  /\ UnderWay(M, D, W, t, removed) /\ UnderWay(M, p, W, t, removed)
  /\ IsDirectory(t, p) => Listing(M, p, W, t, removed)
  /\ \A f \in FilesOf(t) : ToCome(f, L) =>
       Met(f, W) \/ ToCome(f, M) \/ (IsDirectory(t, p) /\ Below(p, f.path) /\ Len(f.path) # 1)

\* A file is met: once, behind its directory, and only what is below it is neither met
\* nor to come.
LEMMA FileMet ==
  ASSUME NEW L, NEW N, NEW D, NEW s, NEW V, NEW t, NEW removed, NEW p, NEW W, NEW M,
         Meets(L, N, D, s, V, t, removed, p, W, M)
  PROVE  IsMet(L, D, V, t, removed, p, W, M)
<1>0. /\ N \in Nat \ {0} /\ Len(L) = N /\ D = L[N].dir /\ s = L[N].names /\ s # <<>>
      /\ V \in Seq(Files) /\ TreeOK(t) /\ UnderWay(L, D, V, t, removed) /\ MetInOrder(V)
      /\ p = Append(D, s[1]) /\ p \in DOMAIN t /\ W = Append(V, [path |-> p, kind |-> t[p]])
      /\ Advanced(L, N, D, s, M)
  BY DEF Meets
<1>1. /\ L \in Seq(Listings) /\ D \in Seq(Items) /\ \A i \in 1 .. N : PlacedAt(L[i], i, D)
      /\ Fresh(L, V) /\ DirectoriesMet(L, V) /\ (removed \/ StillThere(L, t))
  BY <1>0 DEF UnderWay, Placed
<1>2. PICK h, m : h = s[1] /\ m = N - 1
  OBVIOUS
<1>3. N \in 1 .. N /\ m \in Nat /\ m + 1 = N /\ \A i \in 1 .. N : i \in 1 .. m \/ i = N
  BY <1>0, <1>2
<1>4. L[N] \in Listings
  BY <1>0, <1>1, <1>3
<1>5. s \in Seq(Items) /\ Len(s) \in Nat \ {0} /\ 1 \in 1 .. Len(s) /\ h \in Items
  BY <1>0, <1>2, <1>4, ListingOf
<1>6. Len(D) = m /\ \A a, b \in 1 .. Len(s) : s[a] = s[b] => a = b
  <2>1. PlacedAt(L[N], N, D)
    BY <1>0, <1>1, <1>3
  <2> QED
    BY <1>0, <1>2, <2>1 DEF PlacedAt
<1>7. /\ p \in Seq(Items) /\ Len(p) = N /\ (\A k \in 1 .. m : p[k] = D[k]) /\ p[N] = h
      /\ Front(p) = D /\ p # Root
  <2>1. Appends(Items, D, h, m, p)
    BY <1>0, <1>1, <1>2, <1>3, <1>5, <1>6 DEF Appends
  <2>2. Appendage(Items, D, h, m, p)
    BY <1>0, <2>1, Appended
  <2> QED
    BY <1>0, <1>3, <2>2 DEF Appendage, Root
<1>8. /\ M \in Seq(Listings) /\ Len(M) = N /\ (\A i \in 1 .. m : M[i] = L[i]) /\ M[N].dir = D
      /\ \A a \in 1 .. Len(M[N].names) : a + 1 \in 1 .. Len(s) /\ a + 1 # 1 /\ M[N].names[a] = s[a + 1]
      /\ Len(M[N].names) = Len(s) - 1 /\ M[N].names \in Seq(Items)
  BY <1>0, <1>2, <1>5 DEF Advanced
<1>9. PICK e, n : e = [path |-> p, kind |-> t[p]] /\ n = Len(V)
  OBVIOUS
<1>10. e \in Files /\ e.path = p /\ e.kind = t[p] /\ n \in Nat /\ e \in FilesOf(t)
  <2>1. PICK k : k = t[p] /\ k \in FileKinds /\ p \in Paths
    BY <1>0 DEF TreeOK
  <2>2. e = [path |-> p, kind |-> k]
    BY <1>0, <1>9, <2>1
  <2>3. e \in Files /\ e.path = p /\ e.kind = k
    BY <1>0, <2>1, <2>2 DEF Files
  <2>4. e \in FilesOf(t)
    BY <1>0, <1>9 DEF FilesOf
  <2>5. n \in Nat
    BY <1>0, <1>9
  <2> QED
    BY <1>0, <2>1, <2>3, <2>4, <2>5
<1>11. /\ W \in Seq(Files) /\ Len(W) = n + 1 /\ W[n + 1] = e /\ \A j \in 1 .. n : W[j] = V[j]
  <2>1. W = Append(V, e)
    BY <1>0, <1>9
  <2> QED
    BY <1>0, <1>9, <1>10, <2>1, AppendProperties
<1>12. n + 1 \in 1 .. n + 1 /\ \A j \in 1 .. n + 1 : j \in 1 .. n \/ j = n + 1
  BY <1>0, <1>10
<1>13. \A j \in 1 .. n : j \in 1 .. n + 1
  BY <1>0, <1>10
\* Names that are left were left.
<1>14. ASSUME NEW i \in 1 .. N, NEW a \in 1 .. Len(M[i].names)
       PROVE  M[i].dir = L[i].dir /\ \E b \in 1 .. Len(L[i].names) : M[i].names[a] = L[i].names[b]
  <2>1. CASE i \in 1 .. m
    BY <1>0, <1>8, <1>14, <2>1
  <2>2. CASE i = N
    BY <1>0, <1>8, <1>14, <2>2
  <2> QED
    BY <1>0, <1>3, <2>1, <2>2
<1>15. \A i \in 1 .. N : M[i].dir = L[i].dir
  BY <1>0, <1>3, <1>8
<1>16. \A i \in 1 .. N : PlacedAt(M[i], i, D) /\ PlacedAt(M[i], i, p)
  <2> TAKE i \in 1 .. N
  <2>1. CASE i \in 1 .. m
    <3>1. PICK l : l = L[i] /\ l = M[i] /\ PlacedAt(l, i, D)
      BY <1>0, <1>1, <1>8, <2>1
    <3>2. /\ Len(l.dir) = i - 1 /\ \A k \in 1 .. i - 1 : l.dir[k] = D[k]
          /\ \A a, b \in 1 .. Len(l.names) : l.names[a] = l.names[b] => a = b
          /\ \A a \in 1 .. Len(l.names) : l.names[a] # D[i]
      BY <1>0, <1>6, <2>1, <3>1 DEF PlacedAt
    <3>3. i - 1 <= N /\ p[i] = D[i] /\ \A k \in 1 .. i - 1 : p[k] = D[k]
      BY <1>0, <1>3, <1>7, <2>1
    <3>4. \A k \in 1 .. i - 1 : l.dir[k] = p[k]
      BY <1>0, <3>2, <3>3
    <3>5. PlacedAt(l, i, p)
      BY <1>0, <1>7, <3>2, <3>3, <3>4 DEF PlacedAt
    <3> QED
      BY <1>0, <3>1, <3>5
  <2>2. CASE i = N
    <3>1. PICK l : l = M[i]
      OBVIOUS
    <3>2. l.dir = D /\ Len(D) = i - 1 /\ ~(i <= Len(D)) /\ Len(p) = i /\ i - 1 <= Len(D) /\ i - 1 <= Len(p)
      BY <1>0, <1>2, <1>6, <1>7, <1>8, <2>2, <3>1
    <3>3. \A a, b \in 1 .. Len(l.names) : l.names[a] = l.names[b] => a = b
      <4> SUFFICES ASSUME NEW a \in 1 .. Len(l.names), NEW b \in 1 .. Len(l.names), l.names[a] = l.names[b]
                   PROVE  a = b
        OBVIOUS
      <4>1. s[a + 1] = s[b + 1] /\ a + 1 \in 1 .. Len(s) /\ b + 1 \in 1 .. Len(s)
        BY <1>0, <1>8, <2>2, <3>1
      <4>2. a + 1 = b + 1
        BY <1>0, <1>6, <4>1
      <4>3. Len(l.names) \in Nat
        BY <1>0, <1>5, <1>8, <2>2, <3>1
      <4> QED
        BY <1>0, <4>2, <4>3
    <3>4. \A a \in 1 .. Len(l.names) : l.names[a] # p[i]
      <4> TAKE a \in 1 .. Len(l.names)
      <4>1. l.names[a] = s[a + 1] /\ a + 1 \in 1 .. Len(s) /\ a + 1 # 1
        BY <1>0, <1>8, <2>2, <3>1
      <4>2. s[a + 1] # s[1]
        BY <1>0, <1>5, <1>6, <4>1
      <4> QED
        BY <1>0, <1>2, <1>7, <2>2, <4>1, <4>2
    <3>5. \A k \in 1 .. i - 1 : D[k] = p[k]
      BY <1>0, <1>2, <1>7, <2>2
    <3>6. PlacedAt(l, i, D)
      BY <1>0, <3>2, <3>3 DEF PlacedAt
    <3>7. PlacedAt(l, i, p)
      BY <1>0, <3>2, <3>3, <3>4, <3>5 DEF PlacedAt
    <3> QED
      BY <1>0, <3>1, <3>6, <3>7
  <2> QED
    BY <1>0, <1>3, <2>1, <2>2
<1>17. Placed(M, D) /\ Placed(M, p)
  BY <1>0, <1>1, <1>7, <1>8, <1>16 DEF Placed
<1>18. Fresh(M, W)
  <2> SUFFICES ASSUME NEW i \in 1 .. N, NEW a \in 1 .. Len(M[i].names), NEW j \in 1 .. n + 1
               PROVE  ~Under(M[i].dir, M[i].names[a], W[j].path)
    BY <1>0, <1>8, <1>11 DEF Fresh
  <2>1. CASE j \in 1 .. n
    <3>1. PICK b \in 1 .. Len(L[i].names) : M[i].names[a] = L[i].names[b]
      BY <1>0, <1>14
    <3>2. ~Under(L[i].dir, L[i].names[b], V[j].path)
      BY <1>0, <1>1, <1>9, <2>1 DEF Fresh
    <3> QED
      BY <1>0, <1>11, <1>15, <2>1, <3>1, <3>2
  <2>2. CASE j = n + 1
    <3>1. PICK l : l = M[i] /\ PlacedAt(l, i, p)
      BY <1>0, <1>16
    <3>2. Len(l.dir) = i - 1 /\ i <= Len(p) /\ (i - 1) + 1 = i
      BY <1>0, <1>7, <3>1 DEF PlacedAt
    <3>3. l.names[a] # p[i]
      BY <1>0, <3>1, <3>2 DEF PlacedAt
    <3>4. ~Under(l.dir, l.names[a], p)
      BY <1>0, <3>2, <3>3 DEF Under
    <3> QED
      BY <1>0, <1>10, <1>11, <2>2, <3>1, <3>4
  <2> QED
    BY <1>0, <1>12, <2>1, <2>2
<1>19. ASSUME NEW d, MetDirectory(d, V) PROVE MetDirectory(d, W)
  BY <1>0, <1>9, <1>11, <1>13, <1>19 DEF MetDirectory
<1>20. DirectoriesMet(M, W)
  BY <1>0, <1>1, <1>8, <1>15, <1>19 DEF DirectoriesMet
<1>21. removed \/ StillThere(M, t)
  <2> SUFFICES ASSUME ~removed, NEW i \in 1 .. N, NEW a \in 1 .. Len(M[i].names)
               PROVE  Append(M[i].dir, M[i].names[a]) \in DOMAIN t
    BY <1>0, <1>8 DEF StillThere
  <2>1. PICK b \in 1 .. Len(L[i].names) : M[i].names[a] = L[i].names[b]
    BY <1>0, <1>14
  <2>2. Append(L[i].dir, L[i].names[b]) \in DOMAIN t
    BY <1>0, <1>1 DEF StillThere
  <2> QED
    BY <1>0, <1>15, <2>1, <2>2
<1>22. UnderWay(M, D, W, t, removed) /\ UnderWay(M, p, W, t, removed)
  BY <1>0, <1>17, <1>18, <1>20, <1>21 DEF UnderWay
\* What is met was not, and nothing below it.
<1>23. \A j \in 1 .. n : ~Under(D, h, V[j].path)
  BY <1>0, <1>1, <1>2, <1>3, <1>5, <1>9 DEF Fresh
<1>24. ASSUME NEW q, Below(p, q) PROVE Under(D, h, q)
  <2>1. Len(q) > N /\ \A k \in 1 .. N : q[k] = p[k]
    BY <1>0, <1>7, <1>24 DEF Below
  <2>2. Len(q) > m
    <3>1. PICK x : x = Len(q)
      OBVIOUS
    <3>2. x > m + 1
      BY <1>0, <1>3, <2>1, <3>1
    <3> QED
      BY <1>0, <1>6, <1>24, <3>1, <3>2 DEF Below
  <2>3. \A k \in 1 .. m : k \in 1 .. N
    BY <1>0, <1>3
  <2>4. \A k \in 1 .. m : q[k] = D[k]
    BY <1>0, <1>7, <2>1, <2>3
  <2>5. q[m + 1] = h
    BY <1>0, <1>3, <1>7, <2>1
  <2> QED
    BY <1>0, <1>6, <2>2, <2>4, <2>5 DEF Under, Below
<1>25. \A j \in 1 .. n + 1 : ~Below(p, W[j].path)
  <2> TAKE j \in 1 .. n + 1
  <2>1. CASE j \in 1 .. n
    BY <1>0, <1>11, <1>23, <1>24, <2>1
  <2>2. CASE j = n + 1
    <3>1. W[j].path = p
      BY <1>10, <1>11, <2>2
    <3>2. ~(Len(p) > Len(p))
      BY <1>7, <1>3
    <3> QED
      BY <3>1, <3>2 DEF Below
  <2> QED
    BY <1>0, <1>12, <2>1, <2>2
<1>26. ASSUME IsDirectory(t, p) PROVE Listing(M, p, W, t, removed)
  <2>1. t[p] = "S_IFDIR"
    BY <1>0, <1>7, <1>26 DEF IsDirectory
  <2>2. MetDirectory(p, W)
    <3>1. W[n + 1] = [path |-> p, kind |-> "S_IFDIR"]
      BY <1>0, <1>9, <1>11, <2>1
    <3> QED
      BY <1>0, <1>11, <1>12, <3>1 DEF MetDirectory
  <2> QED
    BY <1>0, <1>7, <1>8, <1>11, <1>25, <1>26, <2>2 DEF Listing
<1>27. ASSUME NEW f \in FilesOf(t), ToCome(f, L)
       PROVE  Met(f, W) \/ ToCome(f, M) \/ (IsDirectory(t, p) /\ Below(p, f.path) /\ Len(f.path) # 1)
  <2>0. PICK i \in 1 .. N : \E a \in 1 .. Len(L[i].names) : Under(L[i].dir, L[i].names[a], f.path)
    BY <1>0, <1>27 DEF ToCome
  <2>1. PICK a \in 1 .. Len(L[i].names) : Under(L[i].dir, L[i].names[a], f.path)
    BY <1>0, <2>0
  <2>2. CASE i \in 1 .. m
    <3>1. M[i] = L[i]
      BY <1>0, <1>8, <2>2
    <3> QED
      BY <1>0, <1>8, <2>1, <3>1 DEF ToCome
  <2>3. CASE i = N /\ a # 1
    <3>1. PICK b : b = a - 1
      OBVIOUS
    <3>2. b \in 1 .. Len(s) - 1 /\ b + 1 = a
      BY <1>0, <1>5, <2>1, <2>3, <3>1
    <3>3. b \in 1 .. Len(M[N].names) /\ M[N].names[b] = s[a]
      BY <1>0, <1>8, <3>2
    <3> QED
      BY <1>0, <1>3, <1>8, <2>1, <2>3, <3>3 DEF ToCome
  <2>4. CASE i = N /\ a = 1
    <3>1. PICK o \in DOMAIN t : o = f.path /\ f = [path |-> o, kind |-> t[o]]
      BY <1>0 DEF FilesOf
    <3>2. Under(D, h, o)
      BY <1>0, <1>2, <2>1, <2>4, <3>1
    <3>3. /\ Len(o) = Len(D) + 1 => o = Append(D, h)
          /\ Len(o) # Len(D) + 1 => t[Append(D, h)] = "S_IFDIR"
      <4>1. TreeOK(t) /\ D \in Seq(Items)
        BY <1>0, <1>1
      <4> QED
        BY <3>2, <4>1, AboveIsThere
    <3>4. CASE Len(o) = N
      <4>1. o = p
        BY <1>0, <1>2, <1>3, <1>6, <3>3, <3>4
      <4> QED
        BY <1>0, <1>9, <1>11, <1>12, <3>1, <4>1 DEF Met
    <3>5. CASE Len(o) # N
      <4>1. IsDirectory(t, p)
        BY <1>0, <1>2, <1>3, <1>6, <3>3, <3>5 DEF IsDirectory
      <4>2. o \in Seq(Items) /\ Len(o) \in Nat
        BY <1>0, PathIs DEF TreeOK
      <4>3. Len(o) > m /\ o[m + 1] = h /\ \A k \in 1 .. m : o[k] = D[k]
        BY <1>0, <1>6, <3>2 DEF Under, Below
      <4>4. Len(o) > N /\ Len(o) # 1
        <5>1. PICK x \in Nat : x = Len(o)
          BY <1>0, <4>2
        <5>2. x > m /\ x # m + 1
          BY <1>0, <1>3, <3>5, <4>3, <5>1
        <5>3. x > m + 1 /\ x # 1
          BY <1>0, <1>3, <5>2
        <5> QED
          BY <1>0, <1>3, <5>1, <5>3
      <4>5. \A k \in 1 .. N : o[k] = p[k]
        BY <1>0, <1>3, <1>7, <4>3
      <4>6. Below(p, o)
        BY <1>0, <1>7, <4>4, <4>5 DEF Below
      <4> QED
        BY <1>0, <3>1, <4>1, <4>4, <4>6
    <3> QED
      BY <1>0, <3>4, <3>5
  <2> QED
    BY <1>0, <1>3, <2>2, <2>3, <2>4
<1>28. MetInOrder(W)
  <2>1. /\ \A i, j \in 1 .. n : V[i].path = V[j].path => i = j
        /\ \A i \in 1 .. n : Front(V[i].path) # Root =>
             \E j \in 1 .. i - 1 : V[j] = [path |-> Front(V[i].path), kind |-> "S_IFDIR"]
    BY <1>0, <1>9 DEF MetInOrder
  <2>2. \A j \in 1 .. n : V[j].path # p
    <3>1. Under(D, h, p)
      <4>1. Len(p) > m
        BY <1>0, <1>3, <1>7
      <4> QED
        BY <1>0, <1>3, <1>6, <1>7, <4>1 DEF Under, Below
    <3> QED
      BY <1>0, <1>23, <3>1
  <2>3. \A i, j \in 1 .. n + 1 : W[i].path = W[j].path => i = j
    <3> SUFFICES ASSUME NEW i \in 1 .. n + 1, NEW j \in 1 .. n + 1, W[i].path = W[j].path PROVE i = j
      OBVIOUS
    <3>1. CASE i \in 1 .. n /\ j \in 1 .. n
      BY <1>11, <2>1, <3>1
    <3>2. CASE i \in 1 .. n /\ j = n + 1
      BY <1>0, <1>10, <1>11, <2>2, <3>2
    <3>3. CASE i = n + 1 /\ j \in 1 .. n
      BY <1>0, <1>10, <1>11, <2>2, <3>3
    <3> QED
      BY <1>0, <1>12, <3>1, <3>2, <3>3
  <2>4. ASSUME NEW i \in 1 .. n + 1, Front(W[i].path) # Root
        PROVE  \E j \in 1 .. i - 1 : W[j] = [path |-> Front(W[i].path), kind |-> "S_IFDIR"]
    <3>1. CASE i \in 1 .. n
      <4>1. PICK j \in 1 .. i - 1 : V[j] = [path |-> Front(V[i].path), kind |-> "S_IFDIR"]
        BY <1>0, <1>11, <2>1, <2>4, <3>1
      <4>2. j \in 1 .. n
        BY <1>0, <1>10, <3>1
      <4> QED
        BY <1>0, <1>11, <3>1, <4>1, <4>2
    <3>2. CASE i = n + 1
      <4>1. W[i].path = p /\ Front(p) = D /\ i - 1 = n
        <5>1. W[i].path = p
          BY <1>10, <1>11, <3>2
        <5>2. i - 1 = n
          BY <1>10, <3>2
        <5> QED
          BY <1>7, <5>1, <5>2
      <4>2. MetDirectory(D, V)
        BY <1>0, <1>1, <1>3 DEF DirectoriesMet
      <4>3. PICK j \in 1 .. n : V[j] = [path |-> D, kind |-> "S_IFDIR"]
        BY <1>0, <1>9, <2>4, <4>1, <4>2 DEF MetDirectory
      <4> QED
        BY <1>0, <1>11, <4>1, <4>3
    <3> QED
      BY <1>0, <1>12, <3>1, <3>2
  <2>5. \A i \in 1 .. n + 1 : Front(W[i].path) # Root =>
          \E j \in 1 .. i - 1 : W[j] = [path |-> Front(W[i].path), kind |-> "S_IFDIR"]
    BY <1>0, <2>4
  <2>6. \A i \in 1 .. Len(W) : Front(W[i].path) # Root =>
          \E j \in 1 .. i - 1 : W[j] = [path |-> Front(W[i].path), kind |-> "S_IFDIR"]
    BY <1>0, <1>11, <2>5, Zenon
  <2>7. \A i, j \in 1 .. Len(W) : W[i].path = W[j].path => i = j
    BY <1>0, <1>11, <2>3
  <2> QED
    BY <1>0, <2>6, <2>7, Zenon DEF MetInOrder
<1> QED
  BY <1>7, <1>9, <1>11, <1>22, <1>26, <1>27, <1>28 DEF IsMet

---------------------------------------------------------------------------
\* The walk's record when it is called,
LEMMA WalkCalled ==
  ASSUME NEW w \in Walks, NEW r \in BOOLEAN, NEW v, v = [w EXCEPT !.phase = "listing", !.recursive = r]
  PROVE  v \in Walks /\ v.phase = "listing" /\ v.dir = w.dir /\ v.listings = w.listings
BY DEF Walks

Enters(w, d, l, v) ==
  /\ w \in Walks /\ d \in Seq(Items) /\ l \in Seq(Listings)
  /\ v = [w EXCEPT !.phase = "listing", !.dir = d, !.listings = l]
Entered(w, d, l, v) ==
  v \in Walks /\ v.phase = "listing" /\ v.dir = d /\ v.listings = l /\ (v.recursive <=> w.recursive)

\* when it goes into a directory,
LEMMA WalkEnters ==
  ASSUME NEW w, NEW d, NEW l, NEW v, Enters(w, d, l, v)
  PROVE  Entered(w, d, l, v)
BY DEF Enters, Entered, Walks

\* when it throws,
LEMMA WalkThrows ==
  ASSUME NEW w \in Walks, NEW l \in Seq(Listings), l = <<>>,
         NEW v, v = [w EXCEPT !.phase = "threw", !.listings = l]
  PROVE  v \in Walks /\ v.phase = "threw" /\ v.listings = <<>>
BY DEF Walks

Takes(w, l, p, v) ==
  w \in Walks /\ l \in Seq(Listings) /\ p \in {"returned", "asking"} /\ v = [w EXCEPT !.listings = l, !.phase = p]
Taken(w, l, p, v) == v \in Walks /\ v.phase = p /\ v.listings = l /\ (v.recursive <=> w.recursive)

\* and when it takes the next name or returns.
LEMMA WalkTakes ==
  ASSUME NEW w, NEW l, NEW p, NEW v, Takes(w, l, p, v)
  PROVE  Taken(w, l, p, v)
BY DEF Takes, Taken, Walks

\* walkDir goes on: it asks about the next name, or returns.
LEMMA GoesOnRight ==
  ASSUME NEW w \in Walks, NEW L, NEW E, NEW V, NEW t, NEW removed, NEW F, UnderWay(L, E, V, t, removed),
         \A f \in F : Wants(f, w) => Met(f, V) \/ ToCome(f, L),
         NEW v, v = [w EXCEPT !.listings = Unfinished(L),
                              !.phase = IF Unfinished(L) = <<>> THEN "returned" ELSE "asking"]
  PROVE  /\ v \in Walks
         /\ \/ v.phase = "asking" /\ AtAsking(v, V, t, removed, F)
            \/ v.phase = "returned" /\ AtEnd(v, V, F)
<1>1. PICK K : K = Unfinished(L)
  OBVIOUS
<1>2. L \in Seq(Listings)
  BY DEF UnderWay, Placed
<1>3. CutOff(L, K)
  BY <1>1, <1>2, UnfinishedCutOff
<1>4. K \in Seq(Listings)
  BY <1>3 DEF CutOff
<1>5. /\ Len(K) # 0 => HasNext(K) /\ UnderWay(K, K[Len(K)].dir, V, t, removed)
      /\ \A f : ToCome(f, L) => ToCome(f, K)
  BY <1>3, CutKeeps
<1>6. PICK p : p = IF K = <<>> THEN "returned" ELSE "asking"
  OBVIOUS
<1>7. v \in Walks /\ v.phase = p /\ v.listings = K /\ (v.recursive <=> w.recursive)
  <2>1. Takes(w, K, p, v)
    BY <1>1, <1>4, <1>6 DEF Takes
  <2>2. Taken(w, K, p, v)
    BY <2>1, WalkTakes
  <2> QED
    BY <2>2 DEF Taken
<1>8. \A f \in F : Wants(f, v) => Met(f, V) \/ ToCome(f, K)
  BY <1>5, <1>7 DEF Wants
<1>9. CASE K = <<>>
  <2>1. Len(K) = 0 /\ p = "returned"
    BY <1>6, <1>9
  <2>2. \A f \in F : ~ToCome(f, K)
    BY <2>1 DEF ToCome
  <2> QED
    BY <1>7, <1>8, <1>9, <2>1, <2>2 DEF AtEnd
<1>10. CASE K # <<>>
  <2>1. Len(K) # 0 /\ p = "asking"
    BY <1>4, <1>6, <1>10
  <2> QED
    BY <1>5, <1>7, <1>8, <2>1 DEF AtAsking
<1> QED
  BY <1>9, <1>10

---------------------------------------------------------------------------
\* IsPrefix, by the elements.
LEMMA PrefixIs ==
  ASSUME NEW S, NEW p \in Seq(S), NEW o \in Seq(S)
  PROVE  IsPrefix(p, o) <=> Len(p) <= Len(o) /\ \A k \in 1 .. Len(p) : p[k] = o[k]
<1>1. PICK m, n : m = Len(p) /\ n = Len(o)
  OBVIOUS
<1>2. m \in Nat /\ n \in Nat
  BY <1>1
<1>3. ASSUME m <= n
      PROVE  SubSeq(p, 1, m) = SubSeq(o, 1, m) <=> \A k \in 1 .. m : p[k] = o[k]
  <2>1. PICK u, v : u = SubSeq(p, 1, m) /\ v = SubSeq(o, 1, m)
    OBVIOUS
  <2>2. 1 \in 1 .. m + 1 /\ 1 \in 1 .. n + 1 /\ m \in 1 - 1 .. m /\ m \in 1 - 1 .. n /\ m - 1 + 1 = m
        /\ \A i \in 1 .. m : 1 + i - 1 = i
    BY <1>2, <1>3
  <2>3. u \in Seq(S) /\ Len(u) = m /\ \A i \in 1 .. m : u[i] = p[i]
    BY <1>1, <1>2, <2>1, <2>2, SubSeqProperties
  <2>4. v \in Seq(S) /\ Len(v) = m /\ \A i \in 1 .. m : v[i] = o[i]
    BY <1>1, <1>2, <2>1, <2>2, SubSeqProperties
  <2>5. (\A k \in 1 .. m : p[k] = o[k]) => u = v
    <3> HAVE \A k \in 1 .. m : p[k] = o[k]
    <3>1. \A k \in 1 .. m : u[k] = v[k]
      BY <2>3, <2>4
    <3> QED
      BY <1>2, <2>3, <2>4, <3>1, SameSequence
  <2>6. u = v => \A k \in 1 .. m : p[k] = o[k]
    BY <2>3, <2>4
  <2> QED
    BY <2>1, <2>5, <2>6
<1> QED
  BY <1>1, <1>3 DEF IsPrefix

MakesAt(t, p, kind, u) ==
  /\ TreeOK(t) /\ p \in Paths /\ p \notin DOMAIN t /\ IsDirectory(t, Front(p)) /\ kind \in FileKinds
  /\ u = [q \in DOMAIN t \cup {p} |-> IF q = p THEN kind ELSE t[q]]

\* With a new file in a directory,
LEMMA MakesTree ==
  ASSUME NEW t, NEW p, NEW kind, NEW u, MakesAt(t, p, kind, u)
  PROVE  TreeOK(u)
<1> USE DEF MakesAt
<1>1. DOMAIN u = DOMAIN t \cup {p} /\ u[p] = kind /\ \A q \in DOMAIN t : u[q] = t[q]
  OBVIOUS
<1>2. \A q : IsDirectory(t, q) => IsDirectory(u, q)
  BY <1>1 DEF IsDirectory
<1> QED
  BY <1>1, <1>2 DEF TreeOK

\* or without one and all that is below it, a tree is a tree.
LEMMA DeleteTree ==
  ASSUME NEW t, TreeOK(t), NEW p \in Paths, NEW u, u = [q \in {o \in DOMAIN t : ~IsPrefix(p, o)} |-> t[q]]
  PROVE  TreeOK(u)
<1>1. DOMAIN u \subseteq DOMAIN t /\ \A q \in DOMAIN t : (q \in DOMAIN u <=> ~IsPrefix(p, q)) /\ (q \in DOMAIN u => u[q] = t[q])
  OBVIOUS
<1>2. ASSUME NEW q \in DOMAIN u, Front(q) # Root
      PROVE  Front(q) \in DOMAIN u /\ u[Front(q)] = "S_IFDIR"
  <2>1. PICK f : f = Front(q)
    OBVIOUS
  <2>2. f \in DOMAIN t /\ t[f] = "S_IFDIR"
    BY <1>1, <1>2, <2>1 DEF TreeOK, IsDirectory
  <2>3. q \in Seq(Items) /\ Len(q) \in Nat \ {0} /\ f \in Seq(Items) /\ p \in Seq(Items)
    BY <1>1, <2>2, PathIs DEF TreeOK
  <2>4. PICK n \in Nat \ {0} : n = Len(q)
    BY <2>3
  <2>5. Len(f) = n - 1 /\ \A k \in 1 .. n - 1 : f[k] = q[k]
    BY <2>1, <2>3, <2>4, FrontAndLast
  <2>6. IsPrefix(p, f) => IsPrefix(p, q)
    <3> HAVE IsPrefix(p, f)
    <3>1. Len(p) <= Len(f) /\ \A k \in 1 .. Len(p) : p[k] = f[k]
      BY <2>3, PrefixIs
    <3>2. PICK m \in Nat : m = Len(p) /\ m <= n - 1 /\ m <= n
      BY <2>3, <2>5, <3>1
    <3>3. \A k \in 1 .. m : k \in 1 .. n - 1
      BY <3>2
    <3>4. \A k \in 1 .. m : p[k] = q[k]
      BY <2>5, <3>1, <3>2, <3>3
    <3> QED
      BY <2>3, <2>4, <3>2, <3>4, PrefixIs
  <2>7. ~IsPrefix(p, q)
    BY <1>1, <1>2
  <2> QED
    BY <1>1, <2>1, <2>2, <2>6, <2>7
<1> QED
  BY <1>1, <1>2 DEF TreeOK, IsDirectory

\* What is there stays there when nothing is removed.
LEMMA FilesKept ==
  ASSUME NEW t, NEW u, FilesOf(t) \subseteq FilesOf(u), NEW p \in DOMAIN t
  PROVE  p \in DOMAIN u /\ u[p] = t[p]
<1>1. PICK f : f = [path |-> p, kind |-> t[p]]
  OBVIOUS
<1>2. f \in FilesOf(u) /\ f.path = p /\ f.kind = t[p]
  BY <1>1 DEF FilesOf
<1>3. PICK q \in DOMAIN u : f = [path |-> q, kind |-> u[q]]
  BY <1>2 DEF FilesOf
<1>4. f.path = q /\ f.kind = u[q]
  BY <1>3
<1> QED
  BY <1>2, <1>3, <1>4

Turns(t, removed, u, after) == after \/ (~removed /\ FilesOf(t) \subseteq FilesOf(u))

\* Nothing that a walk counts on changes, unless something is removed,
LEMMA UnderWayKept ==
  ASSUME NEW L, NEW E, NEW V, NEW t, NEW removed, UnderWay(L, E, V, t, removed),
         NEW u, NEW after, Turns(t, removed, u, after)
  PROVE  UnderWay(L, E, V, u, after)
<1>1. after \/ StillThere(L, u)
  BY FilesKept DEF UnderWay, StillThere, Turns
<1> QED
  BY <1>1 DEF UnderWay

\* neither where it awaits a listing.
LEMMA ListingKept ==
  ASSUME NEW L, NEW d, NEW V, NEW t, NEW removed, Listing(L, d, V, t, removed),
         NEW u, NEW after, Turns(t, removed, u, after)
  PROVE  Listing(L, d, V, u, after)
<1>1. after \/ IsDirectory(u, d)
  BY FilesKept DEF Listing, Turns, IsDirectory
<1> QED
  BY <1>1 DEF Listing

\* A request of another changes the tree under a walk.
LEMMA ChangesKeep ==
  ASSUME WalkInv, NEW t, TreeOK(t), Changes(t)
  PROVE  WalkInv'
<1>1. /\ tree' = t /\ walk' = walk /\ visited' = visited /\ lasting' = lasting \cap FilesOf(t)
      /\ present' = (IF walk.phase = "uncalled" THEN {} ELSE present \cup FilesOf(t))
      /\ troubled' = (troubled \/ ~(FilesOf(tree) \subseteq FilesOf(t)))
  BY DEF Changes
<1>2. troubled' \in BOOLEAN /\ Turns(tree, troubled, t, troubled') /\ (troubled => troubled')
  BY <1>1 DEF Turns, WalkInv
<1>3. walk.phase = "uncalled" => lasting' = {}
  BY <1>1 DEF WalkInv
<1>4. walk.phase # "uncalled" => lasting' \subseteq FilesOf(t) /\ FilesOf(t) \subseteq present'
  BY <1>1
<1>5. \A j \in 1 .. Len(visited) : visited[j] \in present'
  <2>1. CASE walk.phase = "uncalled"
    <3>1. Len(visited) = 0
      BY <2>1 DEF WalkInv
    <3> QED
      BY <3>1
  <2>2. CASE walk.phase # "uncalled"
    BY <1>1, <2>2 DEF WalkInv
  <2> QED
    BY <2>1, <2>2
<1>6. walk.phase = "listing" => AtListing(walk, visited, t, troubled', lasting')
  <2> HAVE walk.phase = "listing"
  <2>1. AtListing(walk, visited, tree, troubled, lasting)
    BY DEF WalkInv
  <2>2. UnderWay(walk.listings, walk.dir, visited, t, troubled')
    BY <1>2, <2>1, UnderWayKept DEF AtListing
  <2>3. Listing(walk.listings, walk.dir, visited, t, troubled')
    BY <1>2, <2>1, ListingKept DEF AtListing
  <2> QED
    BY <1>1, <2>1, <2>2, <2>3 DEF AtListing
<1>7. walk.phase = "asking" => AtAsking(walk, visited, t, troubled', lasting')
  <2> HAVE walk.phase = "asking"
  <2>1. AtAsking(walk, visited, tree, troubled, lasting)
    BY DEF WalkInv
  <2>2. UnderWay(walk.listings, walk.listings[Len(walk.listings)].dir, visited, t, troubled')
    BY <1>2, <2>1, UnderWayKept DEF AtAsking
  <2> QED
    BY <1>1, <2>1, <2>2 DEF AtAsking
<1>8. walk.phase = "returned" => AtEnd(walk, visited, lasting')
  BY <1>1 DEF WalkInv, AtEnd
<1> QED
  BY <1>1, <1>2, <1>3, <1>4, <1>5, <1>6, <1>7, <1>8 DEF WalkInv

\* Making a directory or a file keeps the invariant,
LEMMA MakesKeeps ==
  ASSUME WalkInv, NEW p \in Paths, CreateDirectory(p) \/ OpenFileToWrite(p)
  PROVE  WalkInv'
<1>1. PICK kind \in FileKinds : Makes(p, kind)
  BY DEF CreateDirectory, OpenFileToWrite, FileKinds
<1>2. PICK u : u = [q \in DOMAIN tree \cup {p} |-> IF q = p THEN kind ELSE tree[q]]
  OBVIOUS
<1>3. Changes(u)
  BY <1>1, <1>2 DEF Makes
<1>4. TreeOK(u)
  <2>1. MakesAt(tree, p, kind, u)
    BY <1>1, <1>2 DEF WalkInv, Makes, MakesAt
  <2> QED
    BY <2>1, MakesTree
<1> QED
  BY <1>3, <1>4, ChangesKeep

\* and so does removing one.
LEMMA DeleteKeeps ==
  ASSUME WalkInv, NEW p \in Paths, DeleteDirectory(p)
  PROVE  WalkInv'
<1>1. PICK u : u = [q \in {o \in DOMAIN tree : ~IsPrefix(p, o)} |-> tree[q]]
  OBVIOUS
<1>2. Changes(u)
  BY <1>1 DEF DeleteDirectory
<1>3. TreeOK(u)
  BY <1>1, DeleteTree DEF WalkInv
<1> QED
  BY <1>2, <1>3, ChangesKeep

---------------------------------------------------------------------------
\* At the beginning all is below the root.
LEMMA WalkBegins ==
  ASSUME NEW w \in Walks, w.dir = Root, w.listings = <<>>, NEW t, TreeOK(t), NEW F, F \subseteq FilesOf(t),
         NEW V, V = <<>>, NEW removed
  PROVE  AtListing(w, V, t, removed, F)
<1>1. PICK L, d : L = w.listings /\ d = w.dir
  OBVIOUS
<1>2. L = <<>> /\ L \in Seq(Listings) /\ Len(L) = 0 /\ 1 .. Len(L) = {}
  BY <1>1 DEF Walks
<1>3. d = Root /\ d \in Seq(Items) /\ Len(d) = 0 /\ 1 .. Len(d) = {}
  BY <1>1 DEF Walks, Root
<1>4. Len(V) = 0 /\ 1 .. Len(V) = {}
  OBVIOUS
<1>5. UnderWay(L, d, V, t, removed)
  BY <1>2, <1>3 DEF UnderWay, Placed, Fresh, DirectoriesMet, StillThere
<1>6. Listing(L, d, V, t, removed)
  BY <1>2, <1>3, <1>4 DEF Listing, MetDirectory, IsDirectory
<1>7. \A f \in F : Below(d, f.path)
  <2> TAKE f \in F
  <2>1. PICK p \in DOMAIN t : p = f.path
    BY DEF FilesOf
  <2>2. Len(p) \in Nat \ {0}
    BY <2>1, PathIs DEF TreeOK
  <2> QED
    BY <1>3, <2>1, <2>2 DEF Below
<1> QED
  BY <1>1, <1>5, <1>6, <1>7 DEF AtListing

\* walkDir keeps the invariant,
LEMMA WalkDirKeeps ==
  ASSUME WalkInv, NEW recursive \in BOOLEAN, WalkDir(recursive)
  PROVE  WalkInv'
<1>1. /\ walk.phase = "uncalled" /\ walk' = [walk EXCEPT !.phase = "listing", !.recursive = recursive]
      /\ lasting' = FilesOf(tree) /\ present' = FilesOf(tree) /\ troubled' = FALSE
      /\ tree' = tree /\ visited' = visited
  BY DEF WalkDir
<1>2. visited = <<>> /\ walk.dir = Root /\ walk.listings = <<>> /\ walk \in Walks /\ TreeOK(tree)
  BY <1>1 DEF WalkInv
<1>3. walk' \in Walks /\ walk'.phase = "listing" /\ walk'.dir = Root /\ walk'.listings = <<>>
  BY <1>1, <1>2, WalkCalled
<1>4. AtListing(walk', visited', tree', troubled', lasting')
  BY <1>1, <1>2, <1>3, WalkBegins
<1>5. Len(visited) = 0 /\ 1 .. Len(visited) = {}
  BY <1>2
<1>6. MetInOrder(visited') /\ visited' \in Seq(Files) /\ \A j \in 1 .. Len(visited') : visited'[j] \in present'
  BY <1>1, <1>5 DEF WalkInv
<1> QED
  BY <1>1, <1>2, <1>3, <1>4, <1>6 DEF WalkInv

\* so does a listing that has come,
LEMMA DirectoryListedKeeps ==
  ASSUME WalkInv, DirectoryListed
  PROVE  WalkInv'
<1>1. /\ walk.phase = "listing" /\ IsDirectory(tree, walk.dir)
      /\ tree' = tree /\ visited' = visited /\ lasting' = lasting /\ present' = present /\ troubled' = troubled
  BY DEF DirectoryListed
<1>2. PICK L, d : L = walk.listings /\ d = walk.dir
  OBVIOUS
<1>3. AtListing(walk, visited, tree, troubled, lasting) /\ walk \in Walks /\ TreeOK(tree) /\ lasting \subseteq FilesOf(tree)
  BY <1>1 DEF WalkInv
<1>4. /\ UnderWay(L, d, visited, tree, troubled) /\ Listing(L, d, visited, tree, troubled) /\ d \in Seq(Items)
      /\ \A f \in lasting : Wants(f, walk) => Met(f, visited) \/ ToCome(f, L) \/ Below(d, f.path)
  BY <1>2, <1>3 DEF AtListing, Walks
<1>5. PICK C : C = Children(tree, d)
  OBVIOUS
<1>6. IsFiniteSet(C) /\ C \cap {".", ".."} = {}
  <2>1. C \subseteq Items
    BY <1>3, <1>4, <1>5, ChildrenAre
  <2> QED
    BY <2>1, AfcPathsAssumption, FS_Subset
<1>7. PICK order \in SetToSeqs(C \cup {".", ".."}) : WalkGoesOn(Append(L, [dir |-> d, names |-> NotIgnored(order)]))
  BY <1>2, <1>5 DEF DirectoryListed
<1>8. PICK s, M : s = NotIgnored(order) /\ M = Append(L, [dir |-> d, names |-> s])
  OBVIOUS
<1>9. OnceEach(s, Children(tree, d))
  BY <1>5, <1>6, <1>8, ListedOnce
<1>10. /\ UnderWay(M, d, visited, tree, troubled)
       /\ \A f \in FilesOf(tree) : ToCome(f, L) \/ Below(d, f.path) => ToCome(f, M)
  <2>1. Begins(L, d, visited, tree, troubled, s, M)
    BY <1>3, <1>4, <1>8, <1>9 DEF Begins
  <2>2. Begun(L, d, visited, tree, troubled, M)
    BY <2>1, ListingBegins
  <2> QED
    BY <2>2 DEF Begun
<1>11. walk' = [walk EXCEPT !.listings = Unfinished(M), !.phase = IF Unfinished(M) = <<>> THEN "returned" ELSE "asking"]
  BY <1>7, <1>8 DEF WalkGoesOn
<1>12. \A f \in lasting : Wants(f, walk) => Met(f, visited) \/ ToCome(f, M)
  BY <1>3, <1>4, <1>10
<1>13. /\ walk' \in Walks
       /\ \/ walk'.phase = "asking" /\ AtAsking(walk', visited, tree, troubled, lasting)
          \/ walk'.phase = "returned" /\ AtEnd(walk', visited, lasting)
  BY <1>3, <1>10, <1>11, <1>12, GoesOnRight
<1> QED
  BY <1>1, <1>13 DEF WalkInv

\* the file information that has come, with onPath and the descent,
LEMMA GotFileInfoKeeps ==
  ASSUME WalkInv, GotFileInfo
  PROVE  WalkInv'
<1>1. /\ walk.phase = "asking" /\ AskedFor \in DOMAIN tree
      /\ visited' = Append(visited, [path |-> AskedFor, kind |-> tree[AskedFor]])
      /\ tree' = tree /\ lasting' = lasting /\ present' = present /\ troubled' = troubled
  BY DEF GotFileInfo
<1>2. PICK L, N : L = walk.listings /\ N = Len(L)
  OBVIOUS
<1>3. PICK l : l = L[N]
  OBVIOUS
<1>4. PICK D, s : D = l.dir /\ s = l.names
  OBVIOUS
<1>5. /\ AtAsking(walk, visited, tree, troubled, lasting) /\ walk \in Walks /\ TreeOK(tree) /\ troubled \in BOOLEAN
      /\ visited \in Seq(Files) /\ lasting \subseteq FilesOf(tree) /\ FilesOf(tree) \subseteq present
      /\ MetInOrder(visited) /\ \A j \in 1 .. Len(visited) : visited[j] \in present
  BY <1>1 DEF WalkInv
<1>6. /\ HasNext(L) /\ UnderWay(L, D, visited, tree, troubled)
      /\ \A f \in lasting : Wants(f, walk) => Met(f, visited) \/ ToCome(f, L)
  BY <1>2, <1>3, <1>4, <1>5 DEF AtAsking
<1>7. L \in Seq(Listings) /\ N \in Nat \ {0} /\ Len(L) = N /\ s # <<>>
  BY <1>2, <1>3, <1>4, <1>6 DEF HasNext, UnderWay, Placed
<1>8. Last(walk.listings) = l
  BY <1>2, <1>3 DEF Last
<1>9. PICK p : p = Append(D, s[1])
  OBVIOUS
<1>10. AskedFor = p
  <2>1. s \in Seq(Items)
    <3>1. N \in 1 .. N
      BY <1>7
    <3>2. l \in Listings
      BY <1>3, <1>7, <3>1
    <3> QED
      BY <1>4, <3>2, ListingOf
  <2>2. Head(s) = s[1]
    BY <1>7, <2>1
  <2> QED
    BY <1>4, <1>8, <1>9, <2>2 DEF AskedFor
<1>11. PICK W : W = Append(visited, [path |-> p, kind |-> tree[p]])
  OBVIOUS
<1>12. PICK M : M = Append(Front(L), [l EXCEPT !.names = Tail(l.names)])
  OBVIOUS
<1>13. Advanced(L, N, D, s, M)
  BY <1>3, <1>4, <1>7, <1>12, AdvancedIs
<1>14. IsMet(L, D, visited, tree, troubled, p, W, M)
  <2>1. Meets(L, N, D, s, visited, tree, troubled, p, W, M)
    BY <1>1, <1>3, <1>4, <1>5, <1>6, <1>7, <1>9, <1>10, <1>11, <1>13 DEF Meets
  <2> QED
    BY <2>1, FileMet
<1>15. /\ W \in Seq(Files) /\ Len(W) = Len(visited) + 1 /\ MetInOrder(W)
       /\ \A j \in 1 .. Len(visited) : W[j] = visited[j]
       /\ W[Len(visited) + 1] = [path |-> p, kind |-> tree[p]]
       /\ p \in Seq(Items)
       /\ UnderWay(M, D, W, tree, troubled) /\ UnderWay(M, p, W, tree, troubled)
       /\ IsDirectory(tree, p) => Listing(M, p, W, tree, troubled)
       /\ \A f \in FilesOf(tree) : ToCome(f, L) =>
            Met(f, W) \/ ToCome(f, M) \/ (IsDirectory(tree, p) /\ Below(p, f.path) /\ Len(f.path) # 1)
  BY <1>14 DEF IsMet
<1>16. visited' = W
  BY <1>1, <1>10, <1>11
<1>17. \A f : Met(f, visited) => Met(f, W)
  <2>1. PICK n \in Nat : n = Len(visited) /\ Len(W) = n + 1
    BY <1>5, <1>15
  <2>2. \A j \in 1 .. n : j \in 1 .. n + 1
    OBVIOUS
  <2> QED
    BY <1>15, <2>1, <2>2 DEF Met
<1>18. \A j \in 1 .. Len(W) : W[j] \in present
  <2>1. PICK n \in Nat : n = Len(visited) /\ Len(W) = n + 1
    BY <1>5, <1>15
  <2>2. \A j \in 1 .. n + 1 : j \in 1 .. n \/ j = n + 1
    OBVIOUS
  <2>3. [path |-> p, kind |-> tree[p]] \in FilesOf(tree)
    BY <1>1, <1>10 DEF FilesOf
  <2> QED
    BY <1>5, <1>15, <2>1, <2>2, <2>3
<1>19. M \in Seq(Listings)
  BY <1>13 DEF Advanced
<1>20. \A f \in lasting : Wants(f, walk) =>
         Met(f, W) \/ ToCome(f, M) \/ (IsDirectory(tree, p) /\ Below(p, f.path) /\ Len(f.path) # 1)
  BY <1>5, <1>6, <1>15, <1>17
<1>21. /\ walk' \in Walks
       /\ \/ walk'.phase = "listing" /\ AtListing(walk', W, tree, troubled, lasting)
          \/ walk'.phase = "asking" /\ AtAsking(walk', W, tree, troubled, lasting)
          \/ walk'.phase = "returned" /\ AtEnd(walk', W, lasting)
  <2>1. CASE IsDirectory(tree, p) /\ walk.recursive
    <3>1. walk' = [walk EXCEPT !.phase = "listing", !.dir = p, !.listings = M]
      BY <1>2, <1>8, <1>10, <1>12, <2>1 DEF GotFileInfo
    <3>2. walk' \in Walks /\ walk'.phase = "listing" /\ walk'.dir = p /\ walk'.listings = M
          /\ (walk'.recursive <=> walk.recursive)
      <4>1. Enters(walk, p, M, walk')
        BY <1>5, <1>15, <1>19, <3>1 DEF Enters
      <4>2. Entered(walk, p, M, walk')
        BY <4>1, WalkEnters
      <4> QED
        BY <4>2 DEF Entered
    <3>3. \A f \in lasting : Wants(f, walk') => Met(f, W) \/ ToCome(f, M) \/ Below(p, f.path)
      BY <1>20, <3>2 DEF Wants
    <3>4. AtListing(walk', W, tree, troubled, lasting)
      BY <1>15, <2>1, <3>2, <3>3 DEF AtListing
    <3> QED
      BY <3>2, <3>4
  <2>2. CASE ~(IsDirectory(tree, p) /\ walk.recursive)
    <3>1. walk' = [walk EXCEPT !.listings = Unfinished(M), !.phase = IF Unfinished(M) = <<>> THEN "returned" ELSE "asking"]
      BY <1>2, <1>8, <1>10, <1>12, <2>2 DEF GotFileInfo, WalkGoesOn
    <3>2. \A f \in lasting : Wants(f, walk) => Met(f, W) \/ ToCome(f, M)
      BY <1>20, <2>2 DEF Wants
    <3>3. /\ walk' \in Walks
          /\ \/ walk'.phase = "asking" /\ AtAsking(walk', W, tree, troubled, lasting)
             \/ walk'.phase = "returned" /\ AtEnd(walk', W, lasting)
      <4>1. walk \in Walks
        BY <1>5
      <4>2. UnderWay(M, D, W, tree, troubled)
        BY <1>15
      <4> QED
        BY <3>1, <3>2, <4>1, <4>2, GoesOnRight
    <3> QED
      BY <3>3
  <2> QED
    BY <2>1, <2>2
<1> QED
  BY <1>1, <1>5, <1>15, <1>16, <1>18, <1>21 DEF WalkInv

\* and a failure.
LEMMA WalkFailsKeeps ==
  ASSUME WalkInv, WalkFails
  PROVE  WalkInv'
<1>1. /\ walk.phase \in {"listing", "asking"} /\ walk' = [walk EXCEPT !.phase = "threw", !.listings = <<>>]
      /\ troubled' = (troubled \/ (walk.phase = "listing" /\ IsDirectory(tree, walk.dir))
                               \/ (walk.phase = "asking" /\ AskedFor \in DOMAIN tree))
      /\ tree' = tree /\ visited' = visited /\ lasting' = lasting /\ present' = present
  BY DEF WalkFails
<1>2. walk \in Walks /\ troubled \in BOOLEAN
  BY DEF WalkInv
<1>3. walk' \in Walks /\ walk'.phase = "threw" /\ walk'.listings = <<>>
  <2>1. PICK l : l = <<>>
    OBVIOUS
  <2>2. l \in Seq(Listings)
    BY <2>1
  <2> QED
    BY <1>1, <1>2, <2>1, <2>2, WalkThrows
<1>4. troubled'
  <2>1. CASE walk.phase = "listing"
    <3>1. troubled \/ IsDirectory(tree, walk.dir)
      BY <2>1 DEF WalkInv, AtListing, Listing
    <3> QED
      BY <1>1, <2>1, <3>1
  <2>2. CASE walk.phase = "asking" /\ ~troubled
    <3>1. PICK L, N : L = walk.listings /\ N = Len(L)
      OBVIOUS
    <3>2. HasNext(L) /\ StillThere(L, tree) /\ L \in Seq(Listings)
      BY <2>2, <3>1 DEF WalkInv, AtAsking, UnderWay, Walks
    <3>3. N \in 1 .. N /\ L[N] \in Listings /\ L[N].names # <<>>
      BY <3>1, <3>2 DEF HasNext
    <3>4. L[N].names \in Seq(Items)
      BY <3>3, ListingOf
    <3>5. 1 \in 1 .. Len(L[N].names)
      BY <3>3, <3>4
    <3>6. Append(L[N].dir, L[N].names[1]) \in DOMAIN tree
      BY <3>1, <3>2, <3>3, <3>5 DEF StillThere
    <3>7. AskedFor = Append(L[N].dir, L[N].names[1])
      <4>1. PICK s : s = L[N].names
        OBVIOUS
      <4>2. Head(s) = s[1]
        BY <3>3, <3>4, <4>1
      <4>3. Last(walk.listings) = L[N]
        BY <3>1 DEF Last
      <4> QED
        BY <4>1, <4>2, <4>3 DEF AskedFor
    <3> QED
      BY <1>1, <2>2, <3>6, <3>7
  <2>3. CASE troubled
    BY <1>1, <2>3
  <2> QED
    BY <1>1, <1>2, <2>1, <2>2, <2>3
<1> QED
  BY <1>1, <1>3, <1>4 DEF WalkInv

---------------------------------------------------------------------------
\* A walk meets each file once, and behind its directory, and is at each moment where
\* WalkInv says.
THEOREM WalkInvHolds == PathsSpec => []WalkInv
<1>1. ASSUME PathsInit PROVE WalkInv
  <2>1. TreeOK(tree)
    <3>1. PICK S \in SUBSET Paths : tree \in [S -> FileKinds]
      BY <1>1 DEF PathsInit
    <3> QED
      BY <1>1, <3>1 DEF PathsInit, TreeOK
  <2>2. walk \in Walks /\ walk.phase = "uncalled" /\ walk.dir = Root /\ walk.listings = <<>>
    <3>0. PICK d, l : d = <<>> /\ l = <<>>
      OBVIOUS
    <3>1. d \in Seq(Items) /\ l \in Seq(Listings)
      BY <3>0
    <3>2. walk = [phase |-> "uncalled", recursive |-> FALSE, dir |-> d, listings |-> l]
      BY <1>1, <3>0 DEF PathsInit, Root
    <3>3. walk \in Walks /\ walk.phase = "uncalled" /\ walk.dir = d /\ walk.listings = l
      BY <3>1, <3>2 DEF Walks
    <3> QED
      BY <3>0, <3>3 DEF Root
  <2>3. visited = <<>> /\ visited \in Seq(Files) /\ Len(visited) = 0 /\ 1 .. Len(visited) = {}
    <3>1. visited = <<>>
      BY <1>1 DEF PathsInit
    <3> QED
      BY <3>1
  <2>4. lasting = {} /\ troubled = FALSE
    BY <1>1 DEF PathsInit
  <2>5. MetInOrder(visited)
    BY <2>3 DEF MetInOrder
  <2> QED
    BY <2>1, <2>2, <2>3, <2>4, <2>5 DEF WalkInv
<1>2. ASSUME WalkInv, [PathsNext]_pathsVars PROVE WalkInv'
  <2>1. CASE \E p \in Paths : CreateDirectory(p) \/ OpenFileToWrite(p) \/ DeleteDirectory(p)
    BY <1>2, <2>1, MakesKeeps, DeleteKeeps
  <2>2. CASE \E recursive \in BOOLEAN : WalkDir(recursive)
    BY <1>2, <2>2, WalkDirKeeps
  <2>3. CASE DirectoryListed
    BY <1>2, <2>3, DirectoryListedKeeps
  <2>4. CASE GotFileInfo
    BY <1>2, <2>4, GotFileInfoKeeps
  <2>5. CASE WalkFails
    BY <1>2, <2>5, WalkFailsKeeps
  <2>6. CASE UNCHANGED pathsVars
    BY <1>2, <2>6 DEF pathsVars, WalkInv
  <2> QED
    BY <1>2, <2>1, <2>2, <2>3, <2>4, <2>5, <2>6 DEF PathsNext
<1> QED
  BY <1>1, <1>2, PTL DEF PathsSpec

\* A walk that returns has met all that was there all the time, and no walk anything
\* that was not, nor anything twice or before its directory; one that throws had
\* something removed under it, or a request or onPath failed.
THEOREM WalkMeetsAllHolds == PathsSpec => []WalkMeetsAll
<1>1. WalkInv => WalkMeetsAll
  <2> SUFFICES ASSUME WalkInv PROVE WalkMeetsAll
    OBVIOUS
  <2>1. DOMAIN visited = 1 .. Len(visited)
    BY DEF WalkInv
  <2>2. \A f : f \in ToSet(visited) <=> \E j \in 1 .. Len(visited) : visited[j] = f
    BY <2>1 DEF ToSet
  <2>3. walk.phase = "returned" =>
          \A file \in lasting : walk.recursive \/ Len(file.path) = 1 => file \in ToSet(visited)
    BY <2>2 DEF WalkInv, AtEnd, Wants, Met
  <2>4. ToSet(visited) \subseteq present
    BY <2>2 DEF WalkInv
  <2>5. \A i, j \in DOMAIN visited : visited[i].path = visited[j].path => i = j
    BY <2>1 DEF WalkInv, MetInOrder
  <2>6. \A i \in DOMAIN visited : Front(visited[i].path) # Root =>
          \E j \in 1 .. i - 1 : visited[j] = [path |-> Front(visited[i].path), kind |-> "S_IFDIR"]
    BY <2>1 DEF WalkInv, MetInOrder
  <2>7. walk.phase = "threw" => troubled
    BY DEF WalkInv
  <2> QED
    BY <2>3, <2>4, <2>5, <2>6, <2>7 DEF WalkMeetsAll
<1> QED
  BY <1>1, WalkInvHolds, PTL
=============================================================================
