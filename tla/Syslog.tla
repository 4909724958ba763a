------------------------------- MODULE Syslog -------------------------------
(***************************************************************************)
(* SyslogDecoder of src/lib/syslog: the bytes of the socket are gathered   *)
(* in a buffer of fixed length up to a new line, and a line is unescaped   *)
(* and pushed.  Where the socket cuts its chunks makes no difference, for  *)
(* the decoder goes byte by byte.                                          *)
(*                                                                         *)
(* Only the bytes the code looks at are told apart.  A byte that came out  *)
(* of an escape is the pair of its shift and the byte it was made of.      *)
(***************************************************************************)
EXTENDS Naturals, Sequences

CONSTANTS LineBuffer,  \* bufferLength
          MaxLine      \* bound: bytes of a line

ASSUME SyslogAssumption == LineBuffer \in Nat /\ MaxLine \in Nat

TokenLength == 4
Text == {"\\", "M", "-", "^", "a"}

VARIABLES
  lineBuffer,   \* buffer, up to bufferIndex or its end
  bufferIndex,  \* bufferIndex
  line,         \* history: the bytes since the last new line
  pushedLine    \* history: the line that was just pushed, and what was pushed

syslogVars == <<lineBuffer, bufferIndex, line, pushedLine>>

Nothing == [line |-> <<>>, text |-> <<>>]

SyslogInit ==
  /\ lineBuffer = <<>> /\ bufferIndex = 0
  /\ line = <<>> /\ pushedLine = Nothing

---------------------------------------------------------------------------
\* Mutant: what the comment of toUtf8String asks for, but for an escape at the end.
TokenAtButLast(bytes, i) ==
  /\ i + TokenLength <= Len(bytes)
  /\ bytes[i] = "\\" /\ bytes[i + 1] = "M" /\ bytes[i + 2] \in {"-", "^"}

\* parseUtf8Bytes takes four bytes for an escape unless all three of its marks are
\* missing.
TokenAt(bytes, i) ==
  /\ i + TokenLength <= Len(bytes) + 1
  /\ ~(bytes[i] # "\\" /\ bytes[i + 1] # "M" /\ bytes[i + 2] \notin {"-", "^"})

Shifted(bytes, i) == <<IF bytes[i + 2] = "-" THEN "DASH_SHIFT" ELSE "ARROW_SHIFT", bytes[i + 3]>>

\* toUtf8String: once a backslash was found, escapes are taken one after the other.
toUtf8String(bytes) ==
  LET rest[i \in 1 .. Len(bytes) + TokenLength] ==
        [escaping \in BOOLEAN |->
           IF i > Len(bytes) THEN <<>>
           ELSE IF (escaping \/ bytes[i] = "\\") /\ TokenAt(bytes, i)
           THEN <<Shifted(bytes, i)>> \o rest[i + TokenLength][TRUE]
           ELSE <<<<bytes[i]>>>> \o rest[i + 1][FALSE]]
  IN  rest[1][FALSE]

\* A byte of text is stored, past the end of the buffer nowhere.
Store(byte) ==
  /\ lineBuffer' = IF bufferIndex < LineBuffer THEN Append(lineBuffer, byte) ELSE lineBuffer
  /\ bufferIndex' = bufferIndex + 1
  /\ line' = Append(line, byte)
  /\ pushedLine' = Nothing

\* The bytes of null delimiters are skipped.
SkipNull == pushedLine # Nothing /\ pushedLine' = Nothing /\ UNCHANGED <<lineBuffer, bufferIndex, line>>

\* What is copied for a line: the buffer, and memory as it was allocated where the
\* buffer does not reach.
CopiedLine == lineBuffer \o [i \in 1 .. bufferIndex - Len(lineBuffer) |-> "junk"]

\* Mutant: the buffer is not started again.
NewLineKeepsIndex ==
  /\ pushedLine' = IF bufferIndex > 0 THEN [line |-> line, text |-> toUtf8String(CopiedLine)] ELSE Nothing
  /\ line' = <<>>
  /\ UNCHANGED <<lineBuffer, bufferIndex>>

NewLine ==
  /\ pushedLine' = IF bufferIndex > 0 THEN [line |-> line, text |-> toUtf8String(CopiedLine)] ELSE Nothing
  /\ lineBuffer' = <<>> /\ bufferIndex' = 0
  /\ line' = <<>>

SyslogNext ==
  \/ \E byte \in Text : Len(line) < MaxLine /\ Store(byte)
  \/ SkipNull
  \/ NewLine

SyslogSpec == SyslogInit /\ [][SyslogNext]_syslogVars

---------------------------------------------------------------------------
(* Property.                                                               *)

\* What an escape is: \M-x or \M^x.
EscapeAt(bytes, i) ==
  /\ i + TokenLength <= Len(bytes) + 1
  /\ bytes[i] = "\\" /\ bytes[i + 1] = "M" /\ bytes[i + 2] \in {"-", "^"}

Unescaped(bytes) ==
  LET rest[i \in 1 .. Len(bytes) + TokenLength] ==
        IF i > Len(bytes) THEN <<>>
        ELSE IF EscapeAt(bytes, i) THEN <<Shifted(bytes, i)>> \o rest[i + TokenLength]
        ELSE <<<<bytes[i]>>>> \o rest[i + 1]
  IN  rest[1]

\* A backslash or four bytes after an escape that look like one and are none.
Lookalike(bytes) ==
  \E i \in 1 .. Len(bytes) - TokenLength + 1 :
    /\ ~EscapeAt(bytes, i) /\ TokenAt(bytes, i)
    /\ bytes[i] = "\\" \/ (i > TokenLength /\ EscapeAt(bytes, i - TokenLength))

\* A line that fits the buffer is pushed with its escapes undone and all else as it
\* came, whatever lines came before, if nothing in it merely looks like an escape
\* (_decode, toUtf8String).
LinesUnescaped ==
  Len(pushedLine.line) \in 1 .. LineBuffer /\ ~Lookalike(pushedLine.line) =>
    pushedLine.text = Unescaped(pushedLine.line)
=============================================================================
