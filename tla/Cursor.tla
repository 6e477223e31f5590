-------------------------------- MODULE Cursor --------------------------------
(***************************************************************************)
(* The cursor of a stream_c over a UTF-8 text: where it stands in bytes    *)
(* (pos, counted from start), in symbols (unicode_offset), and what        *)
(* state_flags say of it.  A text is a sequence of bytes, of which only    *)
(* the class matters here.  [faulty] marks an operator with a bug, as in    *)
(* module Extractor.                                                        *)
(***************************************************************************)
EXTENDS Integers, Sequences, FiniteSets

CONSTANT OffsetSpan      \* 2^64: unicode_offset is unsigned

ASSUME SpanAssumption == OffsetSpan \in Nat \ {0}

Byte == {"ascii", "cont", "lead2", "lead3", "lead4"}

ByteSize(b) ==
  CASE b = "lead2" -> 2 [] b = "lead3" -> 3 [] b = "lead4" -> 4 [] OTHER -> 1

CursorFlags == {"BOF", "EOF"}

SymbolStarts(t) == {p \in 0 .. Len(t) - 1 : t[p + 1] # "cont"}

\* A cursor; only the flags that movements read are kept.
Opened(t) ==
  [pos |-> 0, unicode_offset |-> 0,
   state_flags |-> {"BOF"} \cup (IF t = <<>> THEN {"EOF"} ELSE {})]

Eof(s) == "EOF" \in s.state_flags
Bof(s) == "BOF" \in s.state_flags

\* [faulty] The flags are only ever added.
NormalizeKeepsFlags(t, s) ==
  CASE s.pos >= Len(t) -> [s EXCEPT !.pos = Len(t), !.state_flags = @ \cup {"EOF"}]
    [] s.pos < Len(t) /\ s.pos <= 0 -> [s EXCEPT !.pos = 0, !.state_flags = @ \cup {"BOF"}]
    [] OTHER -> s

NormalizePosition(t, s) ==
  CASE s.pos >= Len(t) -> [s EXCEPT !.pos = Len(t), !.state_flags = {"EOF"}]
    [] s.pos < Len(t) /\ s.pos <= 0 -> [s EXCEPT !.pos = 0, !.state_flags = {"BOF"}]
    [] OTHER -> [s EXCEPT !.state_flags = {}]

\* One turn of the loop that moves right.  A symbol that the text cuts short
\* is passed over without being counted.
Right(t, s) ==
  IF Eof(s) THEN s
  ELSE LET target == s.pos + ByteSize(t[s.pos + 1])
           n == NormalizePosition(t, [s EXCEPT !.pos = target])
       IN IF n.pos < target THEN n
          ELSE [n EXCEPT !.unicode_offset = (@ + 1) % OffsetSpan]

\* The last byte before p that starts a symbol
SymbolBefore(t, p) ==
  CHOOSE q \in 0 .. p - 1 :
    t[q + 1] # "cont" /\ \A r \in q + 1 .. p - 1 : t[r + 1] = "cont"

\* One turn of the loop that moves left
Left(t, s) ==
  IF Bof(s) THEN s
  ELSE LET n == NormalizePosition(t, [s EXCEPT !.pos = SymbolBefore(t, s.pos)])
       IN [n EXCEPT !.unicode_offset = (@ - 1) % OffsetSpan]

\* [faulty] The first turn is made even if m is 0 or the text ends.
MoveOneMore(t, s, m) ==
  LET right[k \in Nat] == IF k = 0 THEN Right(t, s) ELSE Right(t, right[k - 1])
      left[k \in Nat]  == IF k = 0 THEN s ELSE Left(t, left[k - 1])
  IN IF m >= 0 THEN right[m] ELSE left[-m]

\* _move: |m| turns.  The loop's other breaks leave a flag that makes the
\* turns after them do nothing.
Move(t, s, m) ==
  LET right[k \in Nat] == IF k = 0 THEN s ELSE Right(t, right[k - 1])
      left[k \in Nat]  == IF k = 0 THEN s ELSE Left(t, left[k - 1])
  IN IF m >= 0 THEN right[m] ELSE left[-m]

\* (int64_t) of a 64-bit word
Signed(n) ==
  LET word == n % OffsetSpan IN IF 2 * word < OffsetSpan THEN word ELSE word - OffsetSpan

\* The return value of _move
Distance(from, to) == Signed(to.unicode_offset - from.unicode_offset)

\* [faulty] The offset stays.
ResetPosOnly(t, s, mark) == NormalizePosition(t, [s EXCEPT !.pos = mark.pos])

\* miner_c_reset_pos
ResetTo(t, s, mark) ==
  NormalizePosition(t, [s EXCEPT !.pos = mark.pos, !.unicode_offset = mark.unicode_offset])

-----------------------------------------------------------------------------
(* UTF-8 *)

\* The symbols a text begins before byte p
SymbolsBefore(t, p) == Cardinality({q \in SymbolStarts(t) : q < p})

\* Where the symbol that starts at p ends, or the text if it is cut before
SymbolEnd(t, p) ==
  IF p + ByteSize(t[p + 1]) <= Len(t) THEN p + ByteSize(t[p + 1]) ELSE Len(t)

Places(t) == SymbolStarts(t) \cup {Len(t)}

\* A text that may end inside a symbol, as a file that was cut does
CutShort(t) ==
  /\ t # <<>> => 0 \in SymbolStarts(t)
  /\ \A p \in SymbolStarts(t) :
       /\ SymbolEnd(t, p) \in Places(t)
       /\ \A q \in SymbolStarts(t) : ~ (p < q /\ q < SymbolEnd(t, p))

WellFormed(t) ==
  /\ CutShort(t)
  /\ \A p \in SymbolStarts(t) : p + ByteSize(t[p + 1]) <= Len(t)
===============================================================================
