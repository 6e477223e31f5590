------------------------------ MODULE MinerCalls ------------------------------
(***************************************************************************)
(* The functions of miner_c as a matcher calls them, over a record of the  *)
(* miner's fields.  Every symbol of a text is one byte here, so a position *)
(* is an offset as well, and STREAM_EOF says that it is the text's length: *)
(* module Stream shows that of the flags, and has the wider symbols.       *)
(***************************************************************************)
EXTENDS Integers, Sequences

CONSTANT Unmarked     \* a NULL start or end

ASSUME UnmarkedAssumption == Unmarked \notin Nat

VARIABLES
  input,        \* the text, the matcher it is read with, and what that needs
  m,            \* the miner
  pc

text == input.text

\* A miner whose stream stands at a position
MinerAt(at) ==
  [pos |-> at, start |-> Unmarked, end |-> Unmarked, end_last |-> 0, pos_last |-> 0]

LaterOf(a, b) == IF a > b THEN a ELSE b

AtEnd(t, miner) == miner.pos >= Len(t)

\* can_move(Right) and a test of what get_next points at
Sees(t, miner, symbols) == ~AtEnd(t, miner) /\ t[miner.pos + 1] \in symbols

\* match_string, before it moves
SeesString(t, miner, s) ==
  miner.pos + Len(s) <= Len(t) /\ SubSeq(t, miner.pos + 1, miner.pos + Len(s)) = s

Moved(miner, n) == [miner EXCEPT !.pos = @ + n]

MayMark(miner) == miner.pos >= miner.end_last

MarkStart(miner) == IF MayMark(miner) THEN [miner EXCEPT !.start = miner.pos] ELSE miner

MarkEnd(miner) == IF MayMark(miner) THEN [miner EXCEPT !.end = miner.pos] ELSE miner

\* make_occurrence has a result, and then remembers its end.
MayMake(miner, allow_empty) ==
  /\ miner.start # Unmarked /\ miner.end # Unmarked
  /\ miner.start < miner.end \/ (allow_empty /\ miner.start = miner.end)

Made(miner) == [miner EXCEPT !.end_last = miner.end]

\* What run does when the matcher has returned
RunOver(miner) ==
  [miner EXCEPT !.pos_last = LaterOf(IF miner.end = Unmarked THEN 0 ELSE miner.end, miner.pos),
            !.start = Unmarked, !.end = Unmarked]
===============================================================================
