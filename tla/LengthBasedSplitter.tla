------------------------ MODULE LengthBasedSplitter ------------------------
(***************************************************************************)
(* The stream transform of src/lib/util/transformer that cuts the bytes of *)
(* a socket into frames: an optional header, a length field, the payload.  *)
(* It copies what arrives into one frame buffer that it never clears and   *)
(* that starts out uninitialised (allocUnsafeSlow), and emits a frame when *)
(* the buffer holds as many bytes as the length field announces.           *)
(*                                                                         *)
(* The sender is external: it sends whole frames, but the socket cuts them *)
(* into chunks where it likes.  A step is one call of _decode, so that the *)
(* loop of _transform can be seen to end.                                  *)
(*                                                                         *)
(* A byte is a digit of base Base; a number that takes four bytes in the   *)
(* code takes FieldLength digits here.                                     *)
(***************************************************************************)
EXTENDS Integers, Sequences, SequencesExt

CONSTANTS Base,             \* a byte is one of 0 .. Base - 1
          FieldLength,      \* lengthFieldLength
          Layouts,          \* the options of the splitters of the services, and
                            \* the values of the length field of the frames sent
          MaxFrames,        \* bound: frames sent in one behaviour
          SplitsFields      \* whether a chunk may end inside a length field

Byte == 0 .. Base - 1
Junk == Base        \* a byte of a message that was never written

ASSUME SplitterAssumption ==
  /\ Base \in Nat \ {0, 1} /\ FieldLength \in Nat \ {0}
  /\ MaxFrames \in Nat /\ SplitsFields \in BOOLEAN
  /\ \A l \in Layouts :
       /\ l.littleEndian \in BOOLEAN
       /\ l.offset \in Nat /\ l.adjustment \in Int /\ l.maxFrameLength \in Nat
       /\ l.maxFrameLength >= l.offset + FieldLength
       /\ \A n \in l.lengths : n \in Nat /\ n + l.adjustment >= FieldLength

VARIABLES
  layout,       \* the options of this splitter
  frames,       \* the frames the sender sends
  wire,         \* their bytes that have not arrived yet
  frameBuffer,  \* _frameBuffer
  index,        \* _frameBufferIndex
  isShutdown,   \* isShutdown
  data,         \* the chunk _transform is at work on, <<>> between two chunks
  pos,          \* its loop variable
  out,          \* the messages pushed so far
  leftover,     \* what was unshifted to the socket
  error         \* _decode has thrown

vars == <<layout, frames, wire, frameBuffer, index, isShutdown, data, pos, out, leftover, error>>

LittleEndian == layout.littleEndian       \* littleEndian
Offset == layout.offset                   \* lengthFieldOffset
Adjustment == layout.adjustment           \* lengthAdjustment
MaxFrameLength == layout.maxFrameLength   \* maxFrameLength, also the size of the frame buffer
HeaderLength == Offset + FieldLength

\* How long a frame is whose length field is n.
FrameLength(n) == n + Adjustment + Offset

---------------------------------------------------------------------------
(* Numbers and bytes.                                                      *)

\* Mutant: the other byte order.
ReadLengthSwapped(buffer) ==
  LET digit(i) == IF LittleEndian THEN buffer[Offset + i - 1] ELSE buffer[Offset + FieldLength - i]
      value[i \in 0 .. FieldLength] == IF i = 0 THEN 0 ELSE value[i - 1] * Base + digit(i)
  IN  value[FieldLength]

\* _readLength: the digits of the length field, the most significant first.
ReadLength(buffer) ==
  LET digit(i) == IF LittleEndian THEN buffer[Offset + FieldLength - i] ELSE buffer[Offset + i - 1]
      value[i \in 0 .. FieldLength] == IF i = 0 THEN 0 ELSE value[i - 1] * Base + digit(i)
  IN  value[FieldLength]

\* The number n without its last i digits.
HigherDigits(n) ==
  LET rest[i \in 0 .. FieldLength] == IF i = 0 THEN n ELSE rest[i - 1] \div Base IN rest

\* The number that is sent in a length field fits it.
ASSUME FieldAssumption == \A l \in Layouts : \A n \in l.lengths : HigherDigits(n)[FieldLength] = 0

\* The frames with length field n: the header is zeros, the payload counts.
Frame(n) ==
  [j \in 1 .. FrameLength(n) |->
     LET i == j - Offset     \* position in the length field
         power == IF LittleEndian THEN i - 1 ELSE FieldLength - i
     IN  IF j <= Offset THEN 0
         ELSE IF j <= HeaderLength THEN HigherDigits(n)[power] % Base
         ELSE j % Base]

\* _readBytes: how many of the n bytes wanted the chunk still has; Buffer.copy
\* writes those that fit, and none if the number is negative.
Available(n, p) == IF n < Len(data) - p THEN n ELSE Len(data) - p

Copied(buffer, at, p, n) ==
  [i \in 0 .. MaxFrameLength - 1 |->
     IF at <= i /\ i < at + n THEN data[p + i - at + 1] ELSE buffer[i]]

---------------------------------------------------------------------------
Init ==
  /\ layout \in Layouts
  /\ frames \in UNION {[1 .. n -> {Frame(l) : l \in layout.lengths}] : n \in 1 .. MaxFrames}
  /\ wire = FlattenSeq(frames)
  /\ \E field \in [0 .. FieldLength - 1 -> Byte] :
       frameBuffer = [i \in 0 .. MaxFrameLength - 1 |->
                        IF i \in Offset .. HeaderLength - 1 THEN field[i - Offset] ELSE 0]
  /\ index = 0
  /\ isShutdown = FALSE
  /\ data = <<>> /\ pos = 0
  /\ out = <<>>
  /\ leftover = <<>>
  /\ error = FALSE

\* How many bytes of the frame it is in the splitter has once n bytes are left.
Progress(n) ==
  LET total == Len(FlattenSeq(frames)) - n
      ends == {Len(FlattenSeq(SubSeq(frames, 1, i))) : i \in 0 .. Len(frames)}
  IN  total - (CHOOSE e \in ends : e <= total /\ \A f \in ends : f <= total => f <= e)

\* A chunk arrives.  Unless SplitsFields, it ends outside of every length field.
Arrive ==
  /\ data = <<>> /\ ~error /\ ~isShutdown
  /\ \E n \in 1 .. Len(wire) :
       /\ SplitsFields \/ Progress(Len(wire) - n) \notin (Offset .. HeaderLength - 1) \ {0}
       /\ data' = SubSeq(wire, 1, n)
       /\ wire' = SubSeq(wire, n + 1, Len(wire))
  /\ pos' = 0
  /\ UNCHANGED <<layout, frames, frameBuffer, index, isShutdown, out, leftover, error>>

\* The buffer holds i bytes, all of a frame: it is pushed and the buffer reset.
\* Pushing runs the reader, which may call shutdown().
Emit(buffer, i) ==
  /\ out' = Append(out, [j \in 1 .. i |-> IF j <= MaxFrameLength THEN buffer[j - 1] ELSE Junk])
  /\ index' = 0
  /\ isShutdown' \in {isShutdown, TRUE}

\* completeMessageLength
CompleteLength(n) == n + Adjustment + Offset

\* Mutant: the limit is taken for the first length that is too long.
TooLongAtLimit(n) == n >= MaxFrameLength

TooLong(n) == n > MaxFrameLength

\* Mutant: one byte more is waited for.
IncompleteAtEnd(i, complete) == i <= complete

Incomplete(i, complete) == i < complete

\* The test that makes _decode wait for more before it reads the length: the
\* length field has not been reached (not: it has arrived in full).
BeforeField(i) == i < Offset

\* _decode(data, pos)
Decode ==
  LET toHeader == IF index < HeaderLength THEN HeaderLength - index ELSE 0
      n1 == Available(toHeader, pos)
      buffer1 == Copied(frameBuffer, index, pos, n1)
      index1 == index + n1
      pos1 == pos + n1
      length == ReadLength(buffer1)
      complete == CompleteLength(length)
      n2 == Available(complete - index1, pos1)
      buffer2 == Copied(buffer1, index1, pos1, n2)
      index2 == index1 + n2
      pos2 == pos1 + n2
  IN  /\ ~error /\ ~isShutdown /\ pos < Len(data)
      /\ \/ /\ BeforeField(index1)
            /\ frameBuffer' = buffer1 /\ index' = index1 /\ pos' = pos1
            /\ UNCHANGED <<isShutdown, out, error>>
         \/ /\ ~BeforeField(index1) /\ TooLong(length)
            /\ error' = TRUE
            /\ frameBuffer' = buffer1 /\ index' = index1
            /\ UNCHANGED <<isShutdown, pos, out>>
         \/ /\ ~BeforeField(index1) /\ ~TooLong(length)
            /\ frameBuffer' = buffer2 /\ pos' = pos2
            /\ IF Incomplete(index2, complete)
               THEN index' = index2 /\ UNCHANGED <<isShutdown, out>>
               ELSE Emit(buffer2, index2)
            /\ UNCHANGED error
      /\ UNCHANGED <<layout, frames, wire, data, leftover>>

\* The loop of _transform has decoded the whole chunk: onData().
ChunkDone ==
  /\ data # <<>> /\ pos = Len(data) /\ ~error
  /\ data' = <<>> /\ pos' = 0
  /\ UNCHANGED <<layout, frames, wire, frameBuffer, index, isShutdown, out, leftover, error>>

\* Mutant: what is pushed back starts one byte too late.
PushBackOneOff ==
  /\ isShutdown /\ pos < Len(data)
  /\ leftover' = SubSeq(data, pos + 2, Len(data))
  /\ data' = <<>> /\ pos' = 0
  /\ UNCHANGED <<layout, frames, wire, frameBuffer, index, isShutdown, out, error>>

\* The loop finds the splitter shut down: the rest of the chunk is unshifted.
PushBack ==
  /\ isShutdown /\ pos < Len(data)
  /\ leftover' = SubSeq(data, pos + 1, Len(data))
  /\ data' = <<>> /\ pos' = 0
  /\ UNCHANGED <<layout, frames, wire, frameBuffer, index, isShutdown, out, error>>

Next == Arrive \/ Decode \/ ChunkDone \/ PushBack

Spec == Init /\ [][Next]_vars

\* Data keep arriving, and JavaScript runs a callback to its end.
FairSpec == Spec /\ WF_vars(Arrive) /\ WF_vars(Decode) /\ WF_vars(ChunkDone) /\ WF_vars(PushBack)

---------------------------------------------------------------------------
(* Properties.                                                             *)

\* The messages pushed are the frames sent, in order and byte for byte, as far as
\* the frame buffer reaches (a length is accepted up to MaxFrameLength, which with
\* a positive adjustment is a frame longer than the buffer).
MessagesAreFrames ==
  /\ Len(out) <= Len(frames)
  /\ \A i \in DOMAIN out :
       /\ Len(out[i]) = Len(frames[i])
       /\ \A j \in DOMAIN out[i] : j <= MaxFrameLength => out[i][j] = frames[i][j]

\* After shutdown() what was not pushed as a frame is back in the socket to the
\* last byte, and starts at a frame boundary, so that the next reader of the
\* socket can take over (_pushBack).
NothingLostAtShutdown ==
  isShutdown /\ data = <<>> =>
    leftover \o wire = FlattenSeq(SubSeq(frames, Len(out) + 1, Len(frames)))

\* "The frame is bigger than expected" is reported only of a frame whose length is
\* over the limit (_makeFrameSizeError; docs/DEBUG_FRAME_SIZE.md says so of it).
ErrorMeansLargeFrame == error => \E n \in layout.lengths : n > MaxFrameLength /\ Frame(n) \in ToSet(frames)

\* Every frame within the limit is pushed in the end, unless the splitter was shut
\* down or has rejected a frame that is over the limit: the loop of _transform ends and
\* never waits for bytes that do not exist.
EveryFrameEmerges == <>(isShutdown \/ (error /\ ErrorMeansLargeFrame) \/ Len(out) = Len(frames))
==========================================================================
