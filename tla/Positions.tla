------------------------------ MODULE Positions ------------------------------
(***************************************************************************)
(* Source text and the positions in it: internal/server/position.go and    *)
(* internal/workspace/linewidth.go.                                        *)
(*                                                                         *)
(* A text is a sequence of pieces.  A piece is a line end ("LF", "CR"), a  *)
(* blank, a sign, a word or a numeral of one byte per character, or a      *)
(* character of Foreign, which takes several bytes and one or two UTF-16   *)
(* code units.  The analyzer counts lines and bytes from 1 and its ranges  *)
(* include their last byte; the protocol counts lines and code units from  *)
(* 0 and its ranges exclude their end.                                     *)
(***************************************************************************)
EXTENDS Integers, Sequences, FiniteSets

CONSTANTS
  ForeignBytes,   \* bytes of each non-ASCII character
  ForeignUnits    \* UTF-16 code units of each non-ASCII character

Foreign == DOMAIN ForeignBytes

ASSUME ForeignAssumption ==
  /\ DOMAIN ForeignUnits = Foreign
  /\ Foreign \cap {"LF", "CR"} = {}
  /\ \A f \in Foreign : ForeignBytes[f] \in 2..4 /\ ForeignUnits[f] \in 1..2

Encodings == {"utf-8", "utf-16"}

Bytes(p) ==
  CASE p \in Foreign      -> ForeignBytes[p]
    [] p \in {"LF", "CR"} -> 1
    [] OTHER              -> Len(p)

ByteLen(s) ==
  LET sum[i \in 0..Len(s)] == IF i = 0 THEN 0 ELSE sum[i - 1] + Bytes(s[i])
  IN  sum[Len(s)]

\* The bytes before piece i of a text.
Offset(s, i) == ByteLen(SubSeq(s, 1, i - 1))

Clamp(n, high) == IF n < 0 THEN 0 ELSE IF n > high THEN high ELSE n

NonNegative(n) == IF n < 0 THEN 0 ELSE n

-----------------------------------------------------------------------------
(* Lines, for the server: only LF ends one, and the CR before it is trimmed. *)

LFs(text) == {i \in DOMAIN text : text[i] = "LF"}

LineCount(text) == Cardinality(LFs(text)) + 1

WithoutCR(line) ==
  IF line # <<>> /\ line[Len(line)] = "CR" THEN SubSeq(line, 1, Len(line) - 1) ELSE line

lineAt(text, n) ==
  LET before(i) == Cardinality({j \in LFs(text) : j < i})
      ends      == {i \in LFs(text) : before(i) = n}
      starts    == {i \in LFs(text) : before(i) = n - 1}
      start     == IF n = 0 THEN 1 ELSE 1 + CHOOSE i \in starts : TRUE
  IN  IF n \notin 0..(LineCount(text) - 1) THEN <<>>
      ELSE IF ends = {} THEN SubSeq(text, start, Len(text))
      ELSE WithoutCR(SubSeq(text, start, (CHOOSE i \in ends : TRUE) - 1))

-----------------------------------------------------------------------------
(* Columns.  A character cut by the end of a prefix decodes to one U+FFFD   *)
(* for each of its bytes.                                                   *)

\* The UTF-16 code units of a piece.
Units(p) == IF p \in Foreign THEN ForeignUnits[p] ELSE Bytes(p)

\* The code units of as much of a piece as is in the next so many bytes.
UnitsWithin(p, left) == IF Bytes(p) =< left THEN Units(p) ELSE NonNegative(left)

\* The loop over the first n bytes of a line, after each piece.
UnitsUpTo(line, n) ==
  LET after[i \in 0..Len(line)] ==
        IF i = 0 THEN [left |-> n, units |-> 0]
        ELSE LET before == after[i - 1]
             IN  [left  |-> before.left - Bytes(line[i]),
                  units |-> before.units + UnitsWithin(line[i], before.left)]
  IN  after[Len(line)].units

\* A bug byteOffsetToCharacter could have: UTF-16 columns counted in bytes.
byteOffsetUnconverted(line, byteOffset, enc) == Clamp(byteOffset, ByteLen(line))

byteOffsetToCharacter(line, byteOffset, enc) ==
  LET n == Clamp(byteOffset, ByteLen(line))
  IN  IF enc = "utf-8" THEN n ELSE UnitsUpTo(line, n)

\* The byte offsets of a line at which a character starts, and its end.
RuneBoundaries(line) ==
  (0..ByteLen(line)) \
    UNION {(Offset(line, i) + 1)..(Offset(line, i + 1) - 1) :
             i \in {k \in DOMAIN line : line[k] \in Foreign}}

characterToByteOffset(line, character, enc) ==
  LET reached == {b \in RuneBoundaries(line) : UnitsUpTo(line, b) >= character}
  IN  IF enc = "utf-8" THEN Clamp(character, ByteLen(line))
      ELSE IF character =< 0 THEN 0
      ELSE IF reached = {} THEN ByteLen(line)
      ELSE CHOOSE b \in reached : \A c \in reached : b =< c

-----------------------------------------------------------------------------
(* Positions and ranges.                                                    *)

Pos(line, column) == [line |-> line, column |-> column]

Span(start, end) == [start |-> start, end |-> end]

NoPos == Pos(0, 0)
NoSpan == Span(NoPos, NoPos)

\* Source order of two positions (sourceStartLess).
Before(p, q) == p.line < q.line \/ (p.line = q.line /\ p.column < q.column)

\* rangeContains: both ends belong to the range.
rangeContains(r, p) == ~Before(p, r.start) /\ ~Before(r.end, p)

At(line, character) == [line |-> line, character |-> character]

modelPositionToProtocol(pos, text, enc) ==
  LET line == NonNegative(pos.line - 1)
  IN  At(line, byteOffsetToCharacter(lineAt(text, line), NonNegative(pos.column - 1), enc))

\* A range whose ends are the same position becomes a caret, otherwise the
\* inclusive end becomes exclusive.
toProtocolRange(r, text, enc) ==
  LET start   == modelPositionToProtocol(r.start, text, enc)
      endLine == NonNegative(r.end.line - 1)
      end     == At(endLine, byteOffsetToCharacter(lineAt(text, endLine),
                                                   NonNegative(r.end.column), enc))
  IN  Span(start, IF r.start = r.end THEN start ELSE end)

fromProtocolPosition(p, text, enc) ==
  Pos(p.line + 1, characterToByteOffset(lineAt(text, p.line), p.character, enc) + 1)

-----------------------------------------------------------------------------
(* The line-width table the index keeps of a file in place of its text: the  *)
(* byte length of each line, and the line itself unless it is all ASCII.     *)

makeLineWidth(line) ==
  [byteLen |-> ByteLen(line),
   bytes   |-> IF \E i \in DOMAIN line : line[i] \in Foreign THEN line ELSE <<>>]

buildLineWidthTable(text) ==
  [n \in 1..LineCount(text) |-> makeLineWidth(lineAt(text, n - 1))]

codeUnit(table, line, byteOffset, enc) ==
  IF line \notin 0..(Len(table) - 1) THEN 0
  ELSE LET lw == table[line + 1]
           n  == Clamp(byteOffset, lw.byteLen)
       IN  IF lw.bytes = <<>> \/ enc = "utf-8" THEN n ELSE UnitsUpTo(lw.bytes, n)

protocolRange(table, r, enc) ==
  LET at(line, byte) == At(NonNegative(line),
                           codeUnit(table, NonNegative(line), NonNegative(byte), enc))
      start == at(r.start.line - 1, r.start.column - 1)
  IN  Span(start, IF r.start = r.end THEN start ELSE at(r.end.line - 1, r.end.column))

=============================================================================
