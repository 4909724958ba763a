----------------------------- MODULE DTXDecoder -----------------------------
(***************************************************************************)
(* The stream transform of src/lib/instrument/transformer that puts DTX    *)
(* messages together: the bytes of the socket hold fragments, each with a  *)
(* header; the fragments of messages on different channels may alternate;  *)
(* the first of several fragments is a header and nothing else.            *)
(*                                                                         *)
(* The device is external: it sends whole messages, on each channel one    *)
(* after the other, and the socket cuts the bytes into chunks where it     *)
(* likes.  A byte is named by its fragment and its place there; no body    *)
(* has the magic number at a place where one is looked for.  Whether a     *)
(* message can be parsed is said by its last fragment.                     *)
(***************************************************************************)
EXTENDS Naturals, Sequences, FiniteSets, SequencesExt

CONSTANTS Channels,         \* channel codes in headers
          DTXHeaderLength,  \* DTX_MESSAGE_HEADER_LENGTH
          MagicLength,      \* DTX_MESSAGE_HEADER_MAGIC_LEN
          BodyLengths,      \* payloadLength of the fragments with a body
          MaxCount,         \* bound: fragments of a message
          MaxFragments,     \* bound: fragments sent in one behaviour
          MaxSkipped        \* bound: messages that cannot be parsed

ASSUME DTXDecoderAssumption ==
  /\ DTXHeaderLength \in Nat \ {0} /\ MagicLength \in 1 .. DTXHeaderLength
  /\ BodyLengths \subseteq Nat
  /\ MaxCount \in Nat /\ MaxFragments \in Nat /\ MaxSkipped \in Nat

VARIABLES
  fragments,  \* the fragments the device has sent
  incoming,   \* their bytes that have not arrived
  buffer,     \* buffer
  cursor,     \* cursor
  header,     \* header: the last header parsed, a fragment; 0 before the first
  manager,    \* _dtxManager: channels to the payload put together so far
  busy,       \* the loop of _decode is running
  pushed      \* the payloads pushed

decoderVars == <<fragments, incoming, buffer, cursor, header, manager, busy, pushed>>

\* Fragment f of a message, header and body: all the bytes of one with several
\* fragments come after its first, which announces their total but has no body.
HasBody(fragment) == fragment.fragmentId > 0 \/ fragment.fragmentCount = 1
BytesOf(f, fragment) ==
  [j \in 1 .. DTXHeaderLength + (IF HasBody(fragment) THEN fragment.payloadLength ELSE 0) |->
     [fragment |-> f, place |-> j]]

IsLast(fragment) == fragment.fragmentId = fragment.fragmentCount - 1

\* The fragment completes a message that DTXMessage.parse does not throw for.
Delivers(fragment) == IsLast(fragment) /\ fragment.parses

DecoderInit ==
  /\ fragments = <<>> /\ incoming = <<>>
  /\ buffer = <<>> /\ cursor = 0 /\ header = 0
  /\ manager = <<>>
  /\ busy = FALSE
  /\ pushed = <<>>

\* The message that is being sent on a channel: the last fragment sent there.
Latest(channel) == {f \in DOMAIN fragments : /\ fragments[f].channel = channel
                                             /\ \A g \in f + 1 .. Len(fragments) :
                                                  fragments[g].channel # channel}

DeviceSends(channel, count, length, parses) ==
  LET open == {f \in Latest(channel) : ~IsLast(fragments[f])}
      previous == fragments[CHOOSE f \in open : TRUE]
      fragment == [channel |-> channel, payloadLength |-> length, parses |-> parses,
                   fragmentId |-> IF open = {} THEN 0 ELSE previous.fragmentId + 1,
                   fragmentCount |-> IF open = {} THEN count ELSE previous.fragmentCount]
  IN  /\ Len(fragments) < MaxFragments
      /\ open # {} => count = previous.fragmentCount
      /\ ~parses => /\ IsLast(fragment)
                    /\ Cardinality({f \in DOMAIN fragments : ~fragments[f].parses}) < MaxSkipped
      /\ fragments' = Append(fragments, fragment)
      /\ incoming' = incoming \o BytesOf(Len(fragments) + 1, fragment)
      /\ UNCHANGED <<buffer, cursor, header, manager, busy, pushed>>

---------------------------------------------------------------------------
\* A chunk of n bytes arrives: _transform, up to the loop of _decode.
ChunkArrives(n) ==
  /\ ~busy
  /\ buffer' = SubSeq(buffer, cursor + 1, Len(buffer)) \o SubSeq(incoming, 1, n)
  /\ incoming' = SubSeq(incoming, n + 1, Len(incoming))
  /\ cursor' = 0
  /\ busy' = TRUE
  /\ UNCHANGED <<fragments, header, manager, pushed>>

Has(n) == Len(buffer) >= n

\* Whether the magic number is at the cursor.
AtMagic == \A j \in 1 .. MagicLength : buffer[cursor + j].place = j

\* A first fragment makes the entry of its channel, if there is none.
WithEntryOf(fragment, entries) ==
  IF fragment.fragmentId = 0
  THEN [c \in DOMAIN entries \cup {fragment.channel} |->
          IF c \in DOMAIN entries THEN entries[c] ELSE <<>>]
  ELSE entries

\* Mutant: the payload stays in _dtxManager after it was pushed.
WithoutKept(channel, entries) == entries

\* delete this._dtxManager[channel]
Without(channel, entries) == [c \in DOMAIN entries \ {channel} |-> entries[c]]

\* Mutant: the first of several fragments is taken to have a body.
ContinuesNever(fragment) == FALSE

\* The header was the whole of the fragment: the loop goes on with the next one.
Continues(fragment) == fragment.fragmentId = 0 /\ fragment.fragmentCount > 1

\* The body of the last header parsed, if the buffer has it all from place at on.  A
\* message that cannot be parsed is gone from _dtxManager and skipped.
Body(at, entries, fragment) ==
  LET end == at + fragment.payloadLength
      extended == IF fragment.channel \in DOMAIN entries
                  THEN [entries EXCEPT ![fragment.channel] = @ \o SubSeq(buffer, at + 1, end)]
                  ELSE entries
  IN  IF ~Has(end)
      THEN cursor' = at /\ manager' = entries /\ busy' = FALSE /\ UNCHANGED pushed
      ELSE /\ cursor' = end
           /\ IF IsLast(fragment)
              THEN /\ manager' = Without(fragment.channel, extended)
                   /\ pushed' = IF fragment.channel \in DOMAIN extended /\ fragment.parses
                                THEN Append(pushed, extended[fragment.channel]) ELSE pushed
              ELSE manager' = extended /\ UNCHANGED pushed
           /\ UNCHANGED busy

\* One pass of the loop: it returns where it lacks bytes, and what it has not used
\* stays in the buffer for the next chunk.
Pass ==
  /\ busy /\ cursor < Len(buffer)
  /\ \/ /\ ~Has(cursor + MagicLength)
        /\ busy' = FALSE /\ UNCHANGED <<cursor, header, manager, pushed>>
     \/ /\ Has(cursor + MagicLength) /\ AtMagic /\ ~Has(cursor + DTXHeaderLength)
        /\ busy' = FALSE /\ UNCHANGED <<cursor, header, manager, pushed>>
     \/ /\ Has(cursor + DTXHeaderLength) /\ AtMagic
        /\ header' = buffer[cursor + 1].fragment
        /\ LET fragment == fragments[header']
               at == cursor + DTXHeaderLength
               entries == WithEntryOf(fragment, manager)
           IN  IF Continues(fragment)
               THEN cursor' = at /\ manager' = entries /\ UNCHANGED <<busy, pushed>>
               ELSE Body(at, entries, fragment)
     \/ /\ Has(cursor + MagicLength) /\ ~AtMagic
        /\ Body(cursor, manager, fragments[header])
        /\ UNCHANGED header
  /\ UNCHANGED <<fragments, incoming, buffer>>

\* The loop has used the whole buffer.
LoopEnds ==
  /\ busy /\ cursor >= Len(buffer)
  /\ cursor' = 0 /\ buffer' = <<>> /\ busy' = FALSE
  /\ UNCHANGED <<fragments, incoming, header, manager, pushed>>

DecoderNext ==
  \/ \E c \in Channels, n \in 1 .. MaxCount, l \in BodyLengths, p \in BOOLEAN : DeviceSends(c, n, l, p)
  \/ \E n \in 1 .. Len(incoming) : ChunkArrives(n)
  \/ Pass
  \/ LoopEnds

DecoderSpec == DecoderInit /\ [][DecoderNext]_decoderVars

---------------------------------------------------------------------------
(* Properties.                                                             *)

BodyOf(f) == SubSeq(BytesOf(f, fragments[f]), DTXHeaderLength + 1, Len(BytesOf(f, fragments[f])))

\* Fragment g is of the message of a later f, or f itself: none begins in between.
SameMessage(g, f) ==
  /\ fragments[g].channel = fragments[f].channel
  /\ \A h \in g + 1 .. f : fragments[h].channel = fragments[f].channel => fragments[h].fragmentId # 0

\* The payload of the message whose last fragment is f: the bodies of its
\* fragments, in the order they were sent.
Payload(f) == FlattenSeq([g \in 1 .. f |-> IF SameMessage(g, f) THEN BodyOf(g) ELSE <<>>])

\* The last fragments of the messages that are sent in full and can be parsed, and the
\* number of the message whose last fragment is f.
Completed == {f \in DOMAIN fragments : Delivers(fragments[f])}
Number(f) == Cardinality({g \in Completed : g <= f})

\* What is pushed are the messages sent, byte for byte and in the order in which
\* they were completed, however their fragments alternate with those of other
\* channels and wherever the bytes were cut (_dtxManager, cursor); one that cannot be
\* parsed is skipped and leaves nothing behind for the next one of its channel.  When
\* everything sent has arrived, every other message sent in full has been pushed, but
\* for a last one whose last body is shorter than the magic number and did not come
\* with its header: it waits for what is sent next (_recv of the magic).
MessagesAreWhole ==
  /\ Len(pushed) <= Cardinality(Completed)
  /\ \A f \in Completed : Number(f) <= Len(pushed) => pushed[Number(f)] = Payload(f)
  /\ incoming = <<>> /\ ~busy =>
       \/ Len(pushed) = Cardinality(Completed)
       \/ /\ Len(pushed) = Cardinality(Completed) - 1
          /\ fragments[Len(fragments)].payloadLength < MagicLength
          /\ header = Len(fragments) /\ Delivers(fragments[header])
==========================================================================
