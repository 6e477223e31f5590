-------------------------------- MODULE Filter --------------------------------
(***************************************************************************)
(* filter_longest_occurrences: every pair of the array is compared and the *)
(* shorter one of a nested pair loses its label; then the array is packed  *)
(* in place and the occurrences without a label are freed.                 *)
(*                                                                         *)
(* Extractor takes its result, Longest, in one step; here are its loops.   *)
(***************************************************************************)
EXTENDS Integers, Sequences

CONSTANTS
  Ranges,      \* what an occurrence may cover
  MaxSize      \* bound: occurrences in the array

ASSUME FilterAssumption ==
  /\ Ranges \subseteq [pos : Nat, len : Nat]
  /\ MaxSize \in Nat

VARIABLES
  occs,         \* the occurrences, by the cell they are in at first
  cells,        \* the array: which occurrence a cell points to
  labelled,     \* the occurrences whose label is not NULL
  a, b,         \* the cells pa and pb point to; when packing, write and read
  freed, stage

filterVars == <<occs, cells, labelled, a, b, freed, stage>>

Cells == DOMAIN occs

End(i) == occs[i].pos + occs[i].len

Covers(i, j) == occs[i].pos <= occs[j].pos /\ End(j) <= End(i)

\* [faulty] An occurrence is inside an identical one.
InsideOrSame(j, i) == i # j /\ Covers(i, j)

\* i covers j, and they are not the same range
Inside(j, i) == occs[i] # occs[j] /\ Covers(i, j)

FilterInit ==
  /\ \E n \in 0 .. MaxSize : occs \in [1 .. n -> Ranges]
  /\ cells = [i \in Cells |-> i]
  /\ labelled = Cells
  /\ a = 1 /\ b = 2
  /\ freed = {} /\ stage = "compare"

-----------------------------------------------------------------------------
\* The inner loop ends, or breaks because a has been filtered out.
NextA ==
  /\ stage = "compare" /\ a <= Len(occs)
  /\ b > Len(occs) \/ a \notin labelled
  /\ a' = a + 1 /\ b' = a + 2
  /\ UNCHANGED <<occs, cells, labelled, freed, stage>>

SkipB ==
  /\ stage = "compare" /\ b <= Len(occs)
  /\ a \in labelled /\ b \notin labelled
  /\ b' = b + 1
  /\ UNCHANGED <<occs, cells, labelled, a, freed, stage>>

Compare ==
  /\ stage = "compare" /\ b <= Len(occs)
  /\ a \in labelled /\ b \in labelled
  /\ labelled' = labelled \ {i \in {a, b} : \E j \in {a, b} : Inside(i, j)}
  /\ b' = b + 1
  /\ UNCHANGED <<occs, cells, a, freed, stage>>

Compared ==
  /\ stage = "compare" /\ a > Len(occs)
  /\ a' = 1 /\ b' = 1
  /\ stage' = "pack"
  /\ UNCHANGED <<occs, cells, labelled, freed>>

KeepB ==
  /\ stage = "pack" /\ b <= Len(occs)
  /\ cells[b] \in labelled
  /\ cells' = [cells EXCEPT ![a] = cells[b]]
  /\ a' = a + 1 /\ b' = b + 1
  /\ UNCHANGED <<occs, labelled, freed, stage>>

\* [faulty] The write pointer moves on as well.
FreeBKeepsCell ==
  /\ stage = "pack" /\ b <= Len(occs)
  /\ cells[b] \notin labelled
  /\ freed' = freed \cup {cells[b]}
  /\ a' = a + 1 /\ b' = b + 1
  /\ UNCHANGED <<occs, cells, labelled, stage>>

\* [faulty] The last cell fills the hole.
FreeBFillsFromEnd ==
  /\ stage = "pack" /\ b <= Len(occs)
  /\ cells[b] \notin labelled
  /\ freed' = freed \cup {cells[b]}
  /\ cells' = [cells EXCEPT ![a] = cells[Len(occs)]]
  /\ a' = a + 1 /\ b' = b + 1
  /\ UNCHANGED <<occs, labelled, stage>>

FreeB ==
  /\ stage = "pack" /\ b <= Len(occs)
  /\ cells[b] \notin labelled
  /\ freed' = freed \cup {cells[b]}
  /\ b' = b + 1
  /\ UNCHANGED <<occs, cells, labelled, a, stage>>

Packed ==
  /\ stage = "pack" /\ b > Len(occs)
  /\ stage' = "done"
  /\ UNCHANGED <<occs, cells, labelled, a, b, freed>>

FilterNext ==
  \/ NextA \/ SkipB \/ Compare \/ Compared
  \/ KeepB \/ FreeB \/ Packed
  \/ stage = "done" /\ UNCHANGED filterVars

FilterSpec == FilterInit /\ [][FilterNext]_filterVars

-----------------------------------------------------------------------------
TypeOK ==
  /\ occs \in Seq(Ranges)
  /\ cells \in [Cells -> Cells]
  /\ labelled \subseteq Cells /\ freed \subseteq Cells
  /\ a \in Nat \ {0} /\ b \in Nat \ {0}
  /\ stage \in {"compare", "pack", "done"}

Kept == {cells[k] : k \in 1 .. a - 1}

\* Exactly the occurrences inside no other one are returned, although a pair
\* is not compared once one of the two was filtered out, and identical
\* ranges all stay.
KeepsUnenclosed ==
  stage = "done" => Kept = {i \in Cells : \A j \in Cells : ~Inside(i, j)}

\* Packing keeps the order in which the threads stored the occurrences.
KeepsOrder ==
  stage # "compare" => \A k, l \in 1 .. a - 1 : k < l => cells[k] < cells[l]

\* The occurrence that is read next has not been freed, nor is one that is
\* returned.
NeverFreed ==
  stage # "compare" =>
    /\ \A k \in b .. Len(occs) : cells[k] \notin freed
    /\ Kept \cap freed = {}

-----------------------------------------------------------------------------
(* The inductive invariant *)

\* An occurrence that lost its label is inside one that still has it: of two
\* nested ranges the outer one may go later, but then for a still larger one.
Witnessed ==
  \A i \in Cells \ labelled : \E j \in labelled : Inside(i, j)

\* The pairs behind the two pointers
Passed(i, j) == stage # "compare" \/ i < a \/ (i = a /\ j < b)

PairsApart ==
  \A i, j \in labelled : i < j /\ Passed(i, j) => ~Inside(i, j) /\ ~Inside(j, i)

Comparing ==
  stage = "compare" =>
    /\ cells = [i \in Cells |-> i] /\ freed = {}
    /\ a <= Len(occs) + 1 /\ a < b

Packing ==
  stage # "compare" =>
    /\ a <= b /\ b <= Len(occs) + 1
    /\ \A k \in b .. Len(occs) : cells[k] = k
    /\ \A k \in 1 .. a - 1 : cells[k] \in labelled /\ cells[k] < b
    /\ \A i \in labelled : i < b => \E k \in 1 .. a - 1 : cells[k] = i
    /\ \A k, l \in 1 .. a - 1 : k < l => cells[k] < cells[l]
    /\ freed = {i \in Cells \ labelled : i < b}
    /\ stage = "done" => b = Len(occs) + 1

FilterInv == TypeOK /\ Witnessed /\ PairsApart /\ Comparing /\ Packing
===============================================================================
