---------------------------- MODULE WebInspector ----------------------------
(***************************************************************************)
(* The web inspector of src/lib/webinspector.  Before iOS 11 a message is  *)
(* cut into partial messages and a final one, and those of the device are  *)
(* put together in a buffer of fixed length; since then a message is one   *)
(* plist, followed on real devices by an empty one.                        *)
(*                                                                         *)
(* A message is a number, and its bytes are pairs of it and their place.   *)
(* External: a plist is read from exactly the bytes that were made of one  *)
(* message and from no others; a transform of Node that throws while a     *)
(* chunk is written keeps the stream busy with it, so that whatever is     *)
(* written later waits there (node:stream, Writable).                      *)
(***************************************************************************)
EXTENDS Naturals, Sequences, SequencesExt

CONSTANTS ChunkSize,       \* WEBINSPECTOR_PARTIAL_PACKET_CHUNK_SIZE
          FrameBuffer,     \* maxLength of the decoder
          PayloadLengths,  \* lengths of plists
          MaxMessages      \* bound: messages each way

ASSUME WebInspectorAssumption ==
  /\ ChunkSize \in Nat \ {0} /\ FrameBuffer \in Nat
  /\ PayloadLengths \subseteq Nat \ {0} /\ MaxMessages \in Nat

Blank == 0

VARIABLES
  support,              \* what the constructor chose: "partial", "full" on a device or a "simulator"
  messages,             \* messages sent: kind and length
  returned,             \* those for which sendMessage returned
  stuck,                \* the message at which the encoder threw, or Blank
  written,              \* what went to the socket: the bytes of each plist, and whether it is final
  arriving,             \* the message the device sends: length, and bytes sent of it
  inspectorBuffer,      \* _frameBuffer, up to _frameBufferIndex or its end
  inspectorBufferIndex, \* _frameBufferIndex
  completed,            \* lengths of the messages the device has sent in full
  decoded,              \* what the decoder has pushed
  broken                \* parsePlist threw in the decoder

sending == <<messages, returned, stuck, written>>
receiving == <<arriving, inspectorBuffer, inspectorBufferIndex, completed, decoded, broken>>
inspectorVars == <<support, sending, receiving>>

Bytes(m, length) == [i \in 1 .. length |-> <<m, i>>]
UpTo(n, s) == SubSeq(s, 1, IF n <= Len(s) THEN n ELSE Len(s))
Idle == [length |-> 0, sent |-> 0]

InspectorInit ==
  /\ support = "none"
  /\ messages = <<>> /\ returned = {} /\ stuck = Blank /\ written = <<>>
  /\ arriving = Idle /\ inspectorBuffer = <<>> /\ inspectorBufferIndex = 0
  /\ completed = <<>> /\ decoded = <<>> /\ broken = FALSE

\* The constructor: partial messages for a device with iOS 10 or earlier.
Construct(kind) ==
  /\ support = "none"
  /\ support' = kind
  /\ UNCHANGED <<sending, receiving>>

---------------------------------------------------------------------------
(* Sending.                                                                *)

\* Mutant: a last chunk that is just full is taken for a final one, and so is any.
IsFinalWhenFull(messageLength) == messageLength <= ChunkSize

\* A chunk that is not full is the final one.
IsFinal(messageLength) == messageLength < ChunkSize

\* WebInspectorEncoder: the chunks of a payload.
Chunks(payload) ==
  [i \in 1 .. (Len(payload) + ChunkSize - 1) \div ChunkSize |->
     LET pos == (i - 1) * ChunkSize
         data == UpTo(ChunkSize, SubSeq(payload, pos + 1, Len(payload)))
     IN  [bytes |-> data, final |-> IsFinal(Len(data))]]

Encoded(m, length) ==
  IF support = "partial" THEN Chunks(Bytes(m, length))
  ELSE <<[bytes |-> Bytes(m, length), final |-> TRUE]>>

\* The empty message that makes a device since iOS 11 take what was sent.
Empty == IF support = "full" THEN <<[bytes |-> Bytes(Blank, 1), final |-> TRUE]>> ELSE <<>>

\* An error of the encoder that is no TypeError.
ThrowsOn(kind) == kind = "unencodable"

\* sendMessage.  A nullish member makes the first write throw a TypeError, and the
\* cleaned object is written to the encoder that has just thrown, as is the empty
\* message.  A null object throws before all that and changes nothing.
SendMessage(kind, length) ==
  LET m == Len(messages) + 1
      fails == kind # "plain"
  IN  /\ support # "none" /\ m <= MaxMessages
      /\ messages' = Append(messages, [kind |-> kind, length |-> length])
      /\ IF stuck # Blank
         THEN returned' = returned \cup {m} /\ UNCHANGED <<stuck, written>>
         ELSE /\ returned' = IF ThrowsOn(kind) THEN returned ELSE returned \cup {m}
              /\ stuck' = IF fails THEN m ELSE Blank
              /\ written' = IF fails THEN written ELSE written \o Encoded(m, length) \o Empty
      /\ UNCHANGED <<support, receiving>>

---------------------------------------------------------------------------
(* Receiving.                                                              *)

\* The bytes of the buffer that are parsed: a slice ends with the buffer.
Parsed(bytes, index) == UpTo(index, bytes)

\* Mutant: the index stays after a final message.
ResetNever(index) == index

Reset(index) == 0

\* The device sends n more bytes of its message, the last ones in a final message.
\* What is beyond the buffer is not copied, but counted.
InspectorDecode(length, n) ==
  LET message == IF arriving = Idle THEN [length |-> length, sent |-> 0] ELSE arriving
      m == Len(completed) + 1
      data == SubSeq(Bytes(m, message.length), message.sent + 1, message.sent + n)
      filled == UpTo(FrameBuffer, inspectorBuffer \o data)
      index == inspectorBufferIndex + Len(data)
      isLast == message.sent + n = message.length
      whole == Parsed(filled, index) = Bytes(m, message.length)
  IN  /\ support = "partial" /\ m <= MaxMessages
      /\ arriving # Idle => length = arriving.length
      /\ n \in 1 .. message.length - message.sent
      /\ arriving' = IF isLast THEN Idle ELSE [message EXCEPT !.sent = @ + n]
      /\ completed' = IF isLast THEN Append(completed, message.length) ELSE completed
      /\ IF broken THEN UNCHANGED <<inspectorBuffer, inspectorBufferIndex, decoded, broken>>
         ELSE /\ decoded' = IF isLast /\ whole THEN Append(decoded, m) ELSE decoded
              /\ broken' = (isLast /\ ~whole)
              /\ inspectorBufferIndex' = IF isLast /\ whole THEN Reset(index) ELSE index
              /\ inspectorBuffer' = UpTo(inspectorBufferIndex', filled)
      /\ UNCHANGED <<support, sending>>

InspectorNext ==
  \/ \E kind \in {"partial", "full", "simulator"} : Construct(kind)
  \/ \E kind \in {"plain", "nullish", "unencodable"}, length \in PayloadLengths : SendMessage(kind, length)
  \/ \E length \in PayloadLengths : \E n \in 1 .. length : InspectorDecode(length, n)

InspectorSpec == InspectorInit /\ [][InspectorNext]_inspectorVars

---------------------------------------------------------------------------
(* Properties.                                                             *)

\* The chunks written from the i-th to the j-th are put together: they are those
\* behind a final one, or from the first, up to the next final one.
Together(i, j) ==
  /\ i <= j /\ (i = 1 \/ written[i - 1].final)
  /\ written[j].final /\ \A k \in i .. j - 1 : ~written[k].final

Arrives(m) ==
  \E i, j \in DOMAIN written :
    /\ Together(i, j)
    /\ FlattenSeq([k \in 1 .. j - i + 1 |-> written[i + k - 1].bytes]) = Bytes(m, messages[m].length)

\* A message whose last chunk is full, which no final message follows.
Unfinished(m) == support = "partial" /\ messages[m].length % ChunkSize = 0

\* A message for which sendMessage returned reaches the device as it was sent,
\* unless it or the one before it is a multiple of the chunk size, or the encoder has
\* thrown at it or earlier (sendMessage, WebInspectorEncoder).
ReturnedArrives ==
  \A m \in returned :
    (stuck = Blank \/ m < stuck) /\ ~Unfinished(m) /\ (m = 1 \/ ~Unfinished(m - 1)) => Arrives(m)

\* What the decoder pushes are the messages of the device, one after the other and as
\* soon as each is there, however they were cut, up to the first that is longer than
\* its buffer (WebInspectorDecoder).
DecodedUpToTooLong ==
  LET fits == {n \in 0 .. Len(completed) : \A m \in 1 .. n : completed[m] <= FrameBuffer}
  IN  decoded = [m \in 1 .. CHOOSE n \in fits : \A k \in fits : k <= n |-> m]
=============================================================================
