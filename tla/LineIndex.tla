------------------------------ MODULE LineIndex ------------------------------
(***************************************************************************)
(* The spans of evidence (src/src/model/span.rs, evidence/mod.rs): a       *)
(* parser gives bytes, an item shows lines and characters.  An index of a  *)
(* source is built once, with the starts of its lines and a running count  *)
(* of characters for each block of bytes, so that a position is found      *)
(* without counting from the start of a long line.  Rows come from the     *)
(* parse tree, or from the index where the tree is of a text put together  *)
(* from macro arguments.                                                   *)
(***************************************************************************)
EXTENDS Integers, Sequences, FiniteSets, FiniteSetsExt, Functions

CONSTANTS
  SourceTexts,  \* the bytes of source files (bound)
  BlockBytes    \* BLOCK_BYTES

\* What the program tells apart of a byte of UTF-8.
ByteKinds == {"newline", "ascii", "leading", "continuation"}

\* A source is a str, so what continues a character follows a byte of it.
ASSUME LineAssumption ==
  /\ BlockBytes \in Nat \ {0} /\ SourceTexts \subseteq Seq(ByteKinds)
  /\ \A t \in SourceTexts : \A k \in DOMAIN t : t[k] = "continuation" =>
       k > 1 /\ t[k - 1] \in {"leading", "continuation"}

VARIABLES
  source,             \* the text of the file
  later_line_starts,  \* of LineIndex
  block_chars,        \* of LineIndex; empty for a text of ASCII
  span                \* the last span made, as it is stored

spanVars == <<source, later_line_starts, block_chars, span>>

NoSpan == [availability |-> "none"]
Unavailable == [availability |-> "NormalizerUnavailable"]
Size == Len(source)
Smaller(a, b) == IF a < b THEN a ELSE b

-----------------------------------------------------------------------------
\* count_chars of bytes first..last: those that begin a character.
CharsIn(first, last) == Cardinality({k \in first..last : source[k] # "continuation"})

\* is_char_boundary of str: does a character begin at this offset, or the end.
IsBoundary(offset) ==
  offset = 0 \/ offset = Size \/ source[offset + 1] # "continuation"

\* LineIndex::new.
IsAscii == \A k \in 1..Size : source[k] \in {"newline", "ascii"}
LineStarts == {k \in 1..Size : source[k] = "newline"}
Chunks == (Size + BlockBytes - 1) \div BlockBytes
ChunkChars == [c \in 1..Chunks |-> CharsIn((c - 1) * BlockBytes + 1, Smaller(c * BlockBytes, Size))]
BlockChars ==
  IF IsAscii THEN <<>> ELSE [i \in 1 .. (Chunks + 1) |-> SumFunctionOnSet(ChunkChars, 1 .. (i - 1))]

\* floor_to_boundary: the greatest boundary that is not after the offset.
FloorToBoundary(offset) ==
  Max({o \in 0 .. Smaller(offset, Size) : IsBoundary(o)})

\* Wrong variant: the byte after a newline belongs to the line it ends.
BegunBefore(offset) == Cardinality({s \in later_line_starts : s < offset})
\* line_index: the partition point of the starts at or before the offset.
LineOf(offset) == Cardinality({s \in later_line_starts : s <= offset})

\* line_start: the last of the first `line` starts.
LineStart(line) ==
  LET taken == {s \in later_line_starts : Cardinality({t \in later_line_starts : t < s}) < line} IN
  IF taken = {} THEN 0 ELSE Max(taken)

\* chars_before: whole blocks from the table, the bytes of the tail counted.
CharsBefore(offset) ==
  LET block == offset \div BlockBytes IN
  IF block_chars = <<>> THEN offset
  ELSE IF block + 1 \in DOMAIN block_chars
  THEN block_chars[block + 1] + CharsIn(block * BlockBytes + 1, offset)
  ELSE CharsIn(1, offset)

\* position.
Position(byte_offset) ==
  LET offset == FloorToBoundary(byte_offset) IN
  [line |-> LineOf(offset), column |-> CharsBefore(offset) - CharsBefore(LineStart(LineOf(offset)))]

\* The row a parse tree has for a byte (external): the newlines before it.
RowOf(byte_offset) == Cardinality({k \in 1..byte_offset : source[k] = "newline"})

\* range_span and the spans of macro_calls: rows of the tree, or of the index.
PositionIn(rows, byte_offset) ==
  IF rows = "tree" THEN [line |-> RowOf(byte_offset), column |-> Position(byte_offset).column]
  ELSE Position(byte_offset)

\* Span::new refuses what ends before it starts; to_row counts lines from one.
Reversed(first, last, start, end) ==
  \/ last < first
  \/ end.line < start.line
  \/ end.line = start.line /\ end.column < start.column
CheckedSpan(first, last, start, end) ==
  IF Reversed(first, last, start, end) THEN Unavailable
  ELSE [availability |-> "Present", start_byte |-> first, end_byte |-> last,
        start_line |-> start.line + 1, start_column |-> start.column,
        end_line |-> end.line + 1, end_column |-> end.column]

\* checked_span for the bytes first..last of a node, from either producer.
TakeSpan(first, last, rows) ==
  /\ span' = CheckedSpan(first, last, PositionIn(rows, first), PositionIn(rows, last))
  /\ UNCHANGED <<source, later_line_starts, block_chars>>

SpanInit ==
  /\ source \in SourceTexts
  /\ later_line_starts = LineStarts /\ block_chars = BlockChars
  /\ span = NoSpan

SpanNext ==
  \E first, last \in 0..Size, rows \in {"tree", "index"} : first <= last /\ TakeSpan(first, last, rows)

SpanSpec == SpanInit /\ [][SpanNext]_spanVars

SpanTypeOK ==
  /\ source \in Seq(ByteKinds) /\ later_line_starts \subseteq Nat
  /\ \A i \in DOMAIN block_chars : block_chars[i] \in Nat
  /\ span.availability \in {"none", "Present", "NormalizerUnavailable"}

-----------------------------------------------------------------------------
\* Does counting from the start of the text give this line (from zero) and this
\* column for a byte: char_column, the reference the tests compare with.  A byte
\* within a character is at the character's place.
CountedAt(byte_offset, line, column) ==
  \E at \in 0..byte_offset :
    /\ IsBoundary(at) /\ \A o \in at + 1 .. byte_offset : ~IsBoundary(o)
    /\ line = Cardinality({k \in 1..at : source[k] = "newline"})
    /\ \E start \in 0..at :
         /\ start = 0 \/ source[start] = "newline"
         /\ \A k \in start + 1 .. at : source[k] # "newline"
         /\ column = CharsIn(start + 1, at)

\* Evidence of a node is stored with its place, never as unavailable: the place
\* is the one counting gives at both ends, whichever producer made it and
\* wherever blocks of the table and lines begin, and it never ends before it
\* starts (docs of LineIndex and range_span: "row and column behavior cannot
\* drift between them").
SpanIsExact ==
  span # NoSpan =>
    /\ span.availability = "Present" /\ span.start_byte <= span.end_byte
    /\ CountedAt(span.start_byte, span.start_line - 1, span.start_column)
    /\ CountedAt(span.end_byte, span.end_line - 1, span.end_column)
    /\ span.start_line <= span.end_line
    /\ span.start_line = span.end_line => span.start_column <= span.end_column
==============================================================================
