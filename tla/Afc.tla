-------------------------------- MODULE Afc --------------------------------
(***************************************************************************)
(* The AFC client of src/lib/afc and its file streams: requests correlated *)
(* with responses by packet number, their timeouts, and Node streams that  *)
(* write or read a file of the device through a file handle, close it when *)
(* they are destroyed and are destroyed in many ways.                      *)
(*                                                                         *)
(* A step is a callback: a response or a timer with what the async         *)
(* function goes on to do, a call of the user, a decision of Node's stream *)
(* machinery, which is external (node:stream) and modelled from its rules: *)
(* one _write or _read at a time, none after an error or destroy(), the    *)
(* stream destroyed after its end and, for a Writable, after an error.     *)
(* Frames are atomic (module LengthBasedSplitter models their bytes).  The *)
(* device is external: it serves the packets in order, late or never, may  *)
(* refuse any of them, and uses a handle again once it is closed.          *)
(***************************************************************************)
EXTENDS Naturals, Sequences, SequencesExt

CONSTANTS Writers,       \* files that are written through a stream of their own
          Readers,       \* files that are read through a stream of their own
          Handles,       \* the handles the device gives
          MaxChunks,     \* bound: chunks written to or read from a file
          Options        \* what is passed as the option autoDestroy of a stream

Streams == Writers \cup Readers
NoStream == "none"
NoHandle == 0

ASSUME AfcAssumption ==
  /\ Writers \cap Readers = {} /\ NoStream \notin Streams
  /\ NoHandle \notin Handles /\ MaxChunks \in Nat
  /\ Options \subseteq {"true", "false", "nothing"}

VARIABLES
  requests,           \* the requests made, by packet number
  responseCallbacks,  \* _responseCallbacks: the packet numbers with a callback
  results,            \* results[p]: what request p was settled with, or Pending
  streams,            \* the state of the streams
  got,                \* got[s]: what a reading stream has pushed
  socket,             \* "open", its write side "ended", or "destroyed"
  toDevice,           \* packet numbers on their way to the device
  inbox,              \* responses on their way to the client
  handles,            \* the handles that are open on the device
  files,              \* files[s]: the content of the file of stream s
  said                \* said[p]: the device's answer to packet p, or Pending

clientVars == <<requests, responseCallbacks, results, streams, got, socket>>
deviceVars == <<handles, files, said>>
vars == <<clientVars, toDevice, inbox, deviceVars>>

Chunk(s, i) == [of |-> s, n |-> i]
Content(s) == [i \in 1 .. MaxChunks |-> Chunk(s, i)]
Nothing == Chunk(NoStream, 0)

\* What a request was settled with, or the device has said to it.
Answer(kind, handle, chunk) == [kind |-> kind, handle |-> handle, chunk |-> chunk]
Ok == Answer("ok", NoHandle, Nothing)
Refused == Answer("refused", NoHandle, Nothing)
Late == Answer("timedOut", NoHandle, Nothing)
Pending == Answer("pending", NoHandle, Nothing)

Unopened == [phase |-> "unopened", autoDestroy |-> "nothing", handle |-> NoHandle, busy |-> FALSE,
             given |-> 0, done |-> 0, ended |-> FALSE, errored |-> FALSE, finished |-> FALSE]
Open(s) == streams[s].phase = "open"

\* Without the option Node destroys a stream and this code does not.
NodeDestroys(s) == streams[s].autoDestroy # "false"
CodeDestroys(s) == streams[s].autoDestroy = "true"

Init ==
  /\ requests = <<>> /\ responseCallbacks = {} /\ results = <<>>
  /\ streams = [s \in Streams |-> Unopened]
  /\ got = [s \in Readers |-> <<>>]
  /\ socket = "open" /\ toDevice = <<>> /\ inbox = <<>>
  /\ handles = <<>>
  /\ files = [s \in Streams |-> IF s \in Readers THEN Content(s) ELSE <<Chunk(s, 0)>>]
  /\ said = <<>>

---------------------------------------------------------------------------
(* Requests.  What an async function does after its await happens in the   *)
(* same step as the settling of the promise it awaited: callbacks are the  *)
(* callbacks that are left by then, settled the results.                   *)

\* _createPacketPromise and the write to the encoder.  A write to a socket whose
\* write side has ended is an error, which destroys it.
Asks(op, s, handle, chunk, callbacks, settled) ==
  LET p == Len(requests) + 1
  IN  /\ requests' = Append(requests, [op |-> op, stream |-> s, handle |-> handle, chunk |-> chunk])
      /\ responseCallbacks' = callbacks \cup {p}
      /\ results' = Append(settled, Pending)
      /\ said' = Append(said, Pending)
      /\ toDevice' = IF socket = "open" THEN Append(toDevice, p) ELSE toDevice
      /\ socket' = IF socket = "ended" THEN "destroyed" ELSE socket

\* No further request is made.
AsksNothing(callbacks, settled) ==
  /\ responseCallbacks' = callbacks /\ results' = settled
  /\ UNCHANGED <<requests, said, toDevice, socket>>

Becomes(s, stream) == streams' = [streams EXCEPT ![s] = stream]

\* _destroy of an open stream: its handle is closed.  A reading stream pushes the end
\* first, wherever it has got to in its file: unless it was destroyed with an error,
\* Node tells the user of an 'end' that is not the file's.
Destroyed(s, stream, callbacks, settled) ==
  /\ Becomes(s, [stream EXCEPT !.phase = "destroyed", !.ended = @ \/ s \in Readers])
  /\ Asks("FILE_CLOSE", s, stream.handle, Nothing, callbacks, settled)

\* What a writing stream that waits for nothing does next: _write of the next
\* chunk, or 'finish' once it was ended, or nothing.
GoesOn(s, stream, callbacks, settled) ==
  \/ /\ stream.given > stream.done
     /\ Becomes(s, [stream EXCEPT !.busy = TRUE])
     /\ Asks("FILE_WRITE", s, stream.handle, Chunk(s, stream.done + 1), callbacks, settled)
  \/ /\ stream.given = stream.done /\ stream.ended
     /\ LET finished == [stream EXCEPT !.finished = TRUE]
        IN  IF NodeDestroys(s)
            THEN Destroyed(s, finished, callbacks, settled)
            ELSE Becomes(s, finished) /\ AsksNothing(callbacks, settled)
  \/ /\ stream.given = stream.done /\ ~stream.ended
     /\ Becomes(s, stream) /\ AsksNothing(callbacks, settled)

---------------------------------------------------------------------------
(* Results.                                                                *)

\* createWriteStream and createReadStream, when openFile is through.
FileOpened(s, result, callbacks, settled) ==
  /\ Becomes(s, IF result.kind = "ok" THEN [streams[s] EXCEPT !.phase = "open", !.handle = result.handle]
                             ELSE [streams[s] EXCEPT !.phase = "failed"])
  /\ AsksNothing(callbacks, settled)
  /\ UNCHANGED got

\* Mutant: a chunk that could not be written is passed over.
FileWrittenRegardless(s, result, callbacks, settled) ==
  LET stream == [streams[s] EXCEPT !.busy = FALSE]
  IN  /\ \/ ~Open(s) /\ Becomes(s, stream) /\ AsksNothing(callbacks, settled)
         \/ Open(s) /\ GoesOn(s, [stream EXCEPT !.done = @ + 1], callbacks, settled)
      /\ UNCHANGED got

\* _write: next(), or next(e), which ends the writing.
FileWritten(s, result, callbacks, settled) ==
  LET stream == [streams[s] EXCEPT !.busy = FALSE]
      failed == [stream EXCEPT !.errored = TRUE]
  IN  /\ \/ ~Open(s) /\ Becomes(s, stream) /\ AsksNothing(callbacks, settled)
         \/ Open(s) /\ result.kind = "ok" /\ GoesOn(s, [stream EXCEPT !.done = @ + 1], callbacks, settled)
         \/ /\ Open(s) /\ result.kind # "ok"
            /\ IF NodeDestroys(s) \/ CodeDestroys(s)
               THEN Destroyed(s, failed, callbacks, settled)
               ELSE Becomes(s, failed) /\ AsksNothing(callbacks, settled)
      /\ UNCHANGED got

\* Mutant: after a read that failed the stream goes on reading.
FileReadRetried(s, result, callbacks, settled) ==
  LET stream == [streams[s] EXCEPT !.busy = FALSE]
  IN  /\ Becomes(s, IF Open(s) /\ result.kind = "ok" /\ result.chunk = Nothing
                    THEN [stream EXCEPT !.ended = TRUE] ELSE stream)
      /\ got' = IF Open(s) /\ result.kind = "ok" /\ result.chunk # Nothing
                THEN [got EXCEPT ![s] = Append(@, result.chunk)] ELSE got
      /\ AsksNothing(callbacks, settled)

\* _read: push() of what was read, which is the end if it is nothing.  An error
\* destroys the stream if it was asked to, or is only emitted, and then Node takes
\* the stream to be reading for ever.
FileRead(s, result, callbacks, settled) ==
  LET stream == [streams[s] EXCEPT !.busy = FALSE]
      failed == [streams[s] EXCEPT !.errored = TRUE]
  IN  \/ /\ ~Open(s)
         /\ Becomes(s, stream) /\ AsksNothing(callbacks, settled) /\ UNCHANGED got
      \/ /\ Open(s) /\ result.kind = "ok"
         /\ Becomes(s, [stream EXCEPT !.ended = (result.chunk = Nothing)])
         /\ got' = IF result.chunk = Nothing THEN got ELSE [got EXCEPT ![s] = Append(@, result.chunk)]
         /\ AsksNothing(callbacks, settled)
      \/ /\ Open(s) /\ result.kind # "ok" /\ UNCHANGED got
         /\ IF CodeDestroys(s)
            THEN Destroyed(s, failed, callbacks, settled)
            ELSE Becomes(s, failed) /\ AsksNothing(callbacks, settled)

\* done(err): the 'close' event.
FileClosed(s, callbacks, settled) ==
  /\ Becomes(s, [streams[s] EXCEPT !.phase = "closed"])
  /\ AsksNothing(callbacks, settled)
  /\ UNCHANGED got

\* Request p is settled with a result and its async function goes on.
Settle(p, result) ==
  LET request == requests[p]
      callbacks == responseCallbacks \ {p}
      settled == [results EXCEPT ![p] = result]
  IN  \/ request.op = "FILE_OPEN" /\ FileOpened(request.stream, result, callbacks, settled)
      \/ request.op = "FILE_WRITE" /\ FileWritten(request.stream, result, callbacks, settled)
      \/ request.op = "FILE_READ" /\ FileRead(request.stream, result, callbacks, settled)
      \/ request.op = "FILE_CLOSE" /\ FileClosed(request.stream, callbacks, settled)

\* Mutant: a response goes to the oldest request that waits.
HandleDataInOrder ==
  LET oldest == CHOOSE p \in responseCallbacks : \A q \in responseCallbacks : p <= q
  IN  /\ inbox # <<>> /\ socket # "destroyed"
      /\ inbox' = Tail(inbox)
      /\ IF responseCallbacks = {} THEN UNCHANGED <<clientVars, toDevice, said>>
         ELSE Settle(oldest, Head(inbox).answer)
      /\ UNCHANGED <<handles, files>>

\* _handleData: a response is given to the callback of its packet number, which
\* is deleted; without one it is dropped.
HandleData ==
  LET p == Head(inbox).packet
  IN  /\ inbox # <<>> /\ socket # "destroyed"
      /\ inbox' = Tail(inbox)
      /\ IF p \in responseCallbacks
         THEN Settle(p, Head(inbox).answer)
         ELSE UNCHANGED <<clientVars, toDevice, said>>
      /\ UNCHANGED <<handles, files>>

\* The timer of request p.
TimedOut(p) ==
  /\ p \in responseCallbacks
  /\ Settle(p, Late)
  /\ UNCHANGED <<inbox, handles, files>>

---------------------------------------------------------------------------
(* The user and Node.                                                      *)

\* createWriteStream or createReadStream, up to its await.
OpenFile(s) ==
  /\ streams[s].phase = "unopened" /\ socket = "open"
  /\ \E option \in Options : Becomes(s, [streams[s] EXCEPT !.phase = "opening", !.autoDestroy = option])
  /\ Asks("FILE_OPEN", s, NoHandle, Nothing, responseCallbacks, results)
  /\ UNCHANGED <<got, inbox, handles, files>>

\* write() and end() of a writing stream: Node calls _write unless it waits for one,
\* and after end() goes on in its next tick.
Uses(s, stream) ==
  /\ Open(s) /\ ~streams[s].ended /\ ~streams[s].errored
  /\ IF stream.busy \/ stream.ended
     THEN Becomes(s, stream) /\ AsksNothing(responseCallbacks, results)
     ELSE GoesOn(s, stream, responseCallbacks, results)
  /\ UNCHANGED <<got, inbox, handles, files>>

Write(s) == streams[s].given < MaxChunks /\ Uses(s, [streams[s] EXCEPT !.given = @ + 1])
End(s) == Uses(s, [streams[s] EXCEPT !.ended = TRUE])

\* The tick after end(), unless a chunk is still being written.
Finish(s) ==
  /\ Open(s) /\ streams[s].ended /\ ~streams[s].busy /\ ~streams[s].errored /\ ~streams[s].finished
  /\ GoesOn(s, streams[s], responseCallbacks, results)
  /\ UNCHANGED <<got, inbox, handles, files>>

\* A reading stream is asked for more.
Read(s) ==
  /\ Open(s) /\ ~streams[s].busy /\ ~streams[s].ended
  /\ Becomes(s, [streams[s] EXCEPT !.busy = TRUE])
  /\ Asks("FILE_READ", s, streams[s].handle, Nothing, responseCallbacks, results)
  /\ UNCHANGED <<got, inbox, handles, files>>

\* Mutant: the handle is not closed.
DestroyOnly(s) ==
  /\ Open(s)
  /\ Becomes(s, [streams[s] EXCEPT !.phase = "closed"])
  /\ AsksNothing(responseCallbacks, results)
  /\ UNCHANGED <<got, inbox, handles, files>>

\* destroy(), by the user at any time or by Node after the 'end' of a reading stream.
Destroy(s) ==
  /\ Open(s)
  /\ Destroyed(s, streams[s], responseCallbacks, results)
  /\ UNCHANGED <<got, inbox, handles, files>>

\* close() of the service.
Close ==
  /\ socket = "open"
  /\ socket' = "ended"
  /\ UNCHANGED <<requests, responseCallbacks, results, streams, got, toDevice, inbox, deviceVars>>

\* The socket is lost, with all that was on its way.
SocketEnd ==
  /\ socket # "destroyed"
  /\ socket' = "destroyed" /\ toDevice' = <<>> /\ inbox' = <<>>
  /\ UNCHANGED <<requests, responseCallbacks, results, streams, got, deviceVars>>

---------------------------------------------------------------------------
(* The device.                                                             *)

DeviceAnswers(answer) ==
  /\ toDevice # <<>> /\ socket # "destroyed"
  /\ toDevice' = Tail(toDevice)
  /\ inbox' = Append(inbox, [packet |-> Head(toDevice), answer |-> answer])
  /\ said' = [said EXCEPT ![Head(toDevice)] = answer]
  /\ UNCHANGED clientVars

DeviceRefuses == DeviceAnswers(Refused) /\ UNCHANGED <<handles, files>>

DeviceServes ==
  LET request == requests[Head(toDevice)]
      h == request.handle
      file == files[handles[h].file]
  IN  /\ toDevice # <<>>
      /\ \/ /\ request.op = "FILE_OPEN"
            /\ \E new \in Handles \ DOMAIN handles :
                 /\ DeviceAnswers(Answer("ok", new, Nothing))
                 /\ handles' = [g \in DOMAIN handles \cup {new} |->
                                  IF g = new THEN [file |-> request.stream, pos |-> 0] ELSE handles[g]]
                 /\ files' = IF request.stream \in Writers
                             THEN [files EXCEPT ![request.stream] = <<>>] ELSE files
         \/ /\ request.op = "FILE_WRITE" /\ h \in DOMAIN handles
            /\ DeviceAnswers(Ok)
            /\ files' = [files EXCEPT ![handles[h].file] = Append(@, request.chunk)]
            /\ UNCHANGED handles
         \/ /\ request.op = "FILE_READ" /\ h \in DOMAIN handles
            /\ IF handles[h].pos < Len(file)
               THEN /\ DeviceAnswers(Answer("ok", NoHandle, file[handles[h].pos + 1]))
                    /\ handles' = [handles EXCEPT ![h].pos = @ + 1]
               ELSE DeviceAnswers(Ok) /\ UNCHANGED handles
            /\ UNCHANGED files
         \/ /\ request.op = "FILE_CLOSE" /\ h \in DOMAIN handles
            /\ DeviceAnswers(Ok)
            /\ handles' = [g \in DOMAIN handles \ {h} |-> handles[g]]
            /\ UNCHANGED files

---------------------------------------------------------------------------
Next ==
  \/ HandleData
  \/ \E p \in DOMAIN requests : TimedOut(p)
  \/ \E s \in Streams : OpenFile(s) \/ Destroy(s)
  \/ \E s \in Writers : Write(s) \/ End(s) \/ Finish(s)
  \/ \E s \in Readers : Read(s)
  \/ Close
  \/ SocketEnd
  \/ DeviceServes
  \/ DeviceRefuses

Spec == Init /\ [][Next]_vars

---------------------------------------------------------------------------
(* Properties.                                                             *)

\* A request that was settled by a response was settled by the device's answer to
\* that very request (_createPacketPromise, _handleData).
OwnResponse ==
  \A p \in DOMAIN results : results[p] \notin {Pending, Late} => results[p] = said[p]

\* A file that was opened for writing holds the chunks written to its stream, in
\* order and none of them twice or left out, up to some point: whatever timed out,
\* was refused or destroyed, no later chunk is written after one that may have been
\* lost, and none lands in another file whose handle has the same number.  When the
\* stream finishes, all that it was given is there (_write, _destroy).
\* What a reading stream pushes is the beginning of the file: a late answer to a read
\* that timed out leaves no gap.  The end of a stream that nobody has destroyed is the
\* file's (_read); that of a stream that was destroyed says nothing (_destroy).
StreamsAreFiles ==
  /\ \A s \in Writers :
       LET given == SubSeq(Content(s), 1, streams[s].given)
       IN  /\ streams[s].phase \in {"open", "destroyed", "closed"} => IsPrefix(files[s], given)
           /\ streams[s].finished => files[s] = given
  /\ \A s \in Readers :
       /\ IsPrefix(got[s], files[s])
       /\ Open(s) /\ streams[s].ended => got[s] = files[s]

\* A handle that is open on the device is that of a stream not yet destroyed, or
\* its closing is under way, or the device would not close it: as long as the
\* socket is open, only an open that timed out leaves a handle behind.
NoHandleLeaks ==
  socket = "open" =>
    \A h \in DOMAIN handles :
      LET s == handles[h].file
      IN  \/ Open(s) /\ streams[s].handle = h
          \/ streams[s].phase = "opening"
          \/ \E p \in DOMAIN requests :
               /\ requests[p].stream = s
               /\ \/ requests[p].op = "FILE_CLOSE" /\ said[p] \in {Pending, Refused}
                  \/ requests[p].op = "FILE_OPEN" /\ results[p] = Late
===========================================================================
