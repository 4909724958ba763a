----------------------------- MODULE DTXMessage -----------------------------
(***************************************************************************)
(* The contents of one DTX message (src/lib/instrument/headers.js): what   *)
(* build lays out behind the headers, and how parse walks over it.         *)
(*                                                                         *)
(* An argument is its type and how many bytes its text or archive has.     *)
(* The device is external: it lays out its messages as build does, and     *)
(* leaves the magic number in front of an argument out when it pushes.     *)
(***************************************************************************)
EXTENDS Naturals, Sequences, SequencesExt

CONSTANTS Lengths,      \* lengths of texts and archives
          MaxArguments  \* bound: arguments of a message

ASSUME DTXMessageAssumption == Lengths \subseteq Nat /\ MaxArguments \in Nat

VARIABLES
  built,      \* the message that arrives
  auxCursor,  \* cursor of DTXMessageAux.parse
  data,       \* data of DTXMessageAux.parse
  parsed      \* what DTXMessage.parse returns, or Unparsed

messageVars == <<built, auxCursor, data, parsed>>

Unparsed == [arguments |-> <<>>, selector |-> "unparsed"]

AuxHeaderLength == 16

\* DTXMessageAuxBuffer: the types its methods give to what they append.
AuxType == [ appendInt        |-> "UInt32LE",
             appendSignedInt  |-> "UInt32LE",
             appendLong       |-> "BigUInt64LE",
             appendSignedLong |-> "BigInt64LE",
             appendObject     |-> "NSKeyed" ]

Argument(type, length) == [type |-> type, length |-> length]

\* What the client can append, and what the device sends besides.
Appended ==
  {Argument(AuxType[method], 0) : method \in DOMAIN AuxType \ {"appendObject"}}
    \cup {Argument("NSKeyed", length) : length \in Lengths}
Received == Appended \cup {Argument("Text", length) : length \in Lengths}

\* The bytes of an argument: magic number, type and value, as DTXMessageAux.parse
\* moves its cursor over them.
ArgumentBytes(argument, pushes) ==
  (IF pushes THEN 0 ELSE 4) + 4
    + IF argument.type \in {"Text", "NSKeyed"} THEN 4 + argument.length
      ELSE IF argument.type = "UInt32LE" THEN 4 ELSE 8

\* The length getBytes writes into the header of the arguments.
AuxLength(message) ==
  LET first[i \in 0 .. Len(message.arguments)] ==
        IF i = 0 THEN 0 ELSE first[i - 1] + ArgumentBytes(message.arguments[i], message.pushes)
  IN  first[Len(message.arguments)]

\* A message with payload, flags, arguments and a selector, each of which may be
\* missing; build always writes the header of the arguments.
Message(payload, pushes, aux, arguments, selector) ==
  [payload |-> payload, pushes |-> pushes, aux |-> aux, arguments |-> arguments, selector |-> selector]

Build(arguments, selector) == Message(TRUE, FALSE, TRUE, arguments, selector)

UpToMax(S) == UNION {[1 .. n -> S] : n \in 0 .. MaxArguments}

Messages ==
  {Build(arguments, selector) : arguments \in UpToMax(Appended), selector \in {"none", "archive"}}
    \cup {Message(TRUE, pushes, TRUE, arguments, selector) :
            pushes \in BOOLEAN, arguments \in UpToMax(Received),
            selector \in {"none", "archive", "plist", "other"}}
    \cup {Message(payload, FALSE, FALSE, <<>>, selector) :
            payload \in BOOLEAN, selector \in {"none", "archive", "plist", "other"}}

MessageInit ==
  /\ built \in Messages
  /\ auxCursor = AuxHeaderLength /\ data = <<>>
  /\ parsed = Unparsed

---------------------------------------------------------------------------
\* Mutant: the loop ends one step before.
MoreArgumentsBut == auxCursor < AuxLength(built)

\* The condition of the loop in DTXMessageAux.parse.  The length does not count the
\* header, which the cursor has behind it.
MoreArguments == auxCursor <= AuxLength(built)

\* DTXMessageAux.parse takes one argument.
ParseArgument ==
  /\ parsed = Unparsed /\ built.payload /\ built.aux /\ MoreArguments
  /\ data' = Append(data, built.arguments[Len(data) + 1])
  /\ auxCursor' = auxCursor + ArgumentBytes(built.arguments[Len(data) + 1], built.pushes)
  /\ UNCHANGED <<built, parsed>>

\* The selector of a message: an archive, a binary plist, or an error in its place.
Selector ==
  IF ~built.payload \/ (~built.aux /\ built.selector = "none") THEN "undefined"
  ELSE CASE built.selector = "none" -> "emptyBuffer"
         [] built.selector = "other" -> "InstrumentRPCParseError"
         [] OTHER -> built.selector

\* DTXMessage.parse returns.
Parse ==
  /\ parsed = Unparsed
  /\ built.payload /\ built.aux => ~MoreArguments
  /\ parsed' = [arguments |-> data, selector |-> Selector]
  /\ UNCHANGED <<built, auxCursor, data>>

MessageNext == ParseArgument \/ Parse

MessageSpec == MessageInit /\ [][MessageNext]_messageVars

---------------------------------------------------------------------------
(* Property.                                                               *)

\* A message is parsed into the arguments it was built of, in order; all that may
\* be missing is the last one, and only if it takes less than sixteen bytes
\* (DTXMessageAux.parse).
ArgumentsParsed ==
  parsed # Unparsed =>
    \/ parsed.arguments = built.arguments
    \/ /\ parsed.arguments = Front(built.arguments)
       /\ ArgumentBytes(Last(built.arguments), built.pushes) < AuxHeaderLength
=============================================================================
