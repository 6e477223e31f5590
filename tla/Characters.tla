------------------------------ MODULE Characters ------------------------------
(***************************************************************************)
(* What a stream promises: a head over the symbols of a text that moves by *)
(* whole symbols, stops at both ends and reports how far it came; and the  *)
(* head of a miner, which can be put where the stream's head is or back    *)
(* where it was marked.  The last symbol of a text that was cut is passed  *)
(* over but not reported.                                                  *)
(***************************************************************************)
EXTENDS Integers

CONSTANTS
  Symbols,      \* Symbols[t]: how many symbols text t has
  Cut,          \* the texts whose last symbol is incomplete
  Moves         \* the distances asked for

VARIABLES of, head, miner, mark, moved

Clamp(i, n) == IF i < 0 THEN 0 ELSE IF i > n THEN n ELSE i

Init ==
  /\ of \in DOMAIN Symbols
  /\ head = 0 /\ miner = 0 /\ mark = 0 /\ moved = 0

\* The distance reported of a movement
Told(from, to) ==
  IF of \in Cut /\ from < to /\ to = Symbols[of] THEN to - from - 1 ELSE to - from

Move(m) ==
  /\ head' = Clamp(head + m, Symbols[of])
  /\ moved' = Told(head, head')
  /\ UNCHANGED <<of, miner, mark>>

MinerMove(m) ==
  /\ miner' = Clamp(miner + m, Symbols[of])
  /\ moved' = Told(miner, miner')
  /\ UNCHANGED <<of, head, mark>>

PutAtHead == miner' = head /\ UNCHANGED <<of, head, mark, moved>>

Remember == mark' = miner /\ UNCHANGED <<of, head, miner, moved>>

GoBack == miner' = mark /\ UNCHANGED <<of, head, mark, moved>>

Next ==
  \/ \E m \in Moves : Move(m) \/ MinerMove(m)
  \/ PutAtHead \/ Remember \/ GoBack

Spec == Init /\ [][Next]_<<of, head, miner, mark, moved>>
===============================================================================
