----------------------------- MODULE FilterProofs -----------------------------
(***************************************************************************)
(* What filter_longest_occurrences returns, for an array of any size.      *)
(***************************************************************************)
EXTENDS Filter, TLAPS

\* Lying inside is transitive and never mutual.
LEMMA InsideOrder ==
  ASSUME TypeOK, NEW i \in Cells, NEW j \in Cells, NEW k \in Cells
  PROVE  /\ Inside(i, j) /\ Inside(j, k) => Inside(i, k)
         /\ Inside(i, j) => ~Inside(j, i)
<1>1. \A x \in Cells : occs[x] \in [pos : Nat, len : Nat]
  BY FilterAssumption DEF TypeOK, Cells
<1>. DEFINE p(x) == occs[x].pos
            l(x) == occs[x].len
<1>2. /\ p(i) \in Nat /\ p(j) \in Nat /\ p(k) \in Nat
      /\ l(i) \in Nat /\ l(j) \in Nat /\ l(k) \in Nat
  BY <1>1
<1>3. \A x, y \in Cells : occs[x] = occs[y] <=> p(x) = p(y) /\ l(x) = l(y)
  BY <1>1
<1>4. \A x, y \in Cells :
        Inside(x, y) <=> /\ p(y) <= p(x) /\ p(x) + l(x) <= p(y) + l(y)
                         /\ ~(p(x) = p(y) /\ l(x) = l(y))
  BY <1>3 DEF Inside, Covers, End
<1>. HIDE DEF p, l
<1>. QED  BY <1>2, <1>4

\* The loops start with every label in place and no pair compared.
LEMMA FilterStarts == FilterInit => FilterInv
<1>. SUFFICES ASSUME FilterInit PROVE FilterInv
  OBVIOUS
<1>1. PICK n \in 0 .. MaxSize : occs \in [1 .. n -> Ranges]
  BY DEF FilterInit
<1>2. n \in Nat /\ occs \in Seq(Ranges) /\ Cells = 1 .. n /\ Len(occs) = n
  BY <1>1, FilterAssumption DEF Cells
<1>3. TypeOK
  BY <1>2 DEF FilterInit, TypeOK
<1>4. Witnessed /\ PairsApart
  BY <1>2 DEF FilterInit, Witnessed, PairsApart, Passed
<1>5. Comparing /\ Packing
  BY <1>2 DEF FilterInit, Comparing, Packing
<1>. QED  BY <1>3, <1>4, <1>5 DEF FilterInv

\* Moving on to the next pair: the pairs behind the pointers that are not
\* apart by an earlier comparison have lost a label.
LEMMA MoveOn ==
  ASSUME FilterInv, NextA \/ SkipB
  PROVE  FilterInv'
<1>1. TypeOK'
  BY DEF FilterInv, TypeOK, NextA, SkipB, Cells
<1>2. Witnessed'
  BY DEF FilterInv, Witnessed, NextA, SkipB, Cells, Inside, Covers, End
<1>3. a \in Nat /\ b \in Nat /\ Len(occs) \in Nat /\ Cells = 1 .. Len(occs)
  BY DEF FilterInv, TypeOK, Cells
<1>4. ASSUME NEW i \in labelled, NEW j \in labelled, i < j, Passed(i, j)'
      PROVE  Passed(i, j)
  <2>1. i \in 1 .. Len(occs) /\ j \in 1 .. Len(occs)
    BY <1>3 DEF FilterInv, TypeOK
  <2>2. CASE NextA
    BY <2>1, <2>2, <1>3, <1>4 DEF NextA, Passed
  <2>3. CASE SkipB
    BY <2>1, <2>3, <1>3, <1>4 DEF SkipB, Passed
  <2>. QED  BY <2>2, <2>3
<1>5. PairsApart'
  BY <1>4 DEF FilterInv, PairsApart, NextA, SkipB, Inside, Covers, End
<1>6. Comparing'
  BY <1>3 DEF FilterInv, Comparing, NextA, SkipB, Cells
<1>7. Packing'
  BY DEF Packing, NextA, SkipB
<1>. QED  BY <1>1, <1>2, <1>5, <1>6, <1>7 DEF FilterInv

\* Comparing two occurrences: the one that loses its label is inside the
\* other, and so is whatever had lost its own to it.
LEMMA CompareTwo ==
  ASSUME FilterInv, Compare
  PROVE  FilterInv'
<1>. DEFINE lost == {i \in {a, b} : \E j \in {a, b} : Inside(i, j)}
<1>1. /\ a \in Cells /\ b \in Cells /\ a < b
      /\ a \in labelled /\ b \in labelled /\ labelled \subseteq Cells
      /\ labelled' = labelled \ lost
      /\ UNCHANGED <<occs, cells, a, freed, stage>> /\ b' = b + 1 /\ stage = "compare"
      /\ Len(occs) \in Nat /\ Cells = 1 .. Len(occs)
  BY DEF FilterInv, TypeOK, Comparing, Compare, Cells
<1>2. TypeOK'
  BY <1>1 DEF FilterInv, TypeOK, Cells
<1>3. \A i, j \in Cells : Inside(i, j)' <=> Inside(i, j)
  BY <1>1 DEF Inside, Covers, End
<1>4. Cells' = Cells
  BY <1>1 DEF Cells
<1>5. ~Inside(a, a) /\ ~Inside(b, b)
  BY DEF Inside
<1>6. ~(Inside(a, b) /\ Inside(b, a))
  BY <1>1, InsideOrder DEF FilterInv
<1>7. Witnessed'
  <2>1. SUFFICES ASSUME NEW i \in Cells \ labelled'
                 PROVE  \E j \in labelled' : Inside(i, j)
    BY <1>1, <1>3, <1>4 DEF Witnessed
  <2>2. ASSUME NEW j \in labelled, Inside(i, j)
        PROVE  \E k \in labelled' : Inside(i, k)
    <3>1. CASE j \notin lost
      BY <2>2, <3>1, <1>1
    <3>2. CASE j \in lost
      <4>1. PICK k \in {a, b} : Inside(j, k)
        BY <3>2
      <4>2. k \notin lost
        BY <4>1, <3>2, <1>5, <1>6
      <4>3. Inside(i, k)
        BY <4>1, <2>2, <1>1, InsideOrder DEF FilterInv
      <4>. QED  BY <4>2, <4>3, <1>1
    <3>. QED  BY <3>1, <3>2
  <2>3. CASE i \in labelled
    <3>1. i \in lost
      BY <2>1, <2>3, <1>1
    <3>2. PICK k \in {a, b} : Inside(i, k)
      BY <3>1
    <3>. QED  BY <3>2, <2>2, <1>1
  <2>4. CASE i \notin labelled
    <3>1. PICK j \in labelled : Inside(i, j)
      BY <2>1, <2>4 DEF FilterInv, Witnessed
    <3>. QED  BY <3>1, <2>2
  <2>. QED  BY <2>3, <2>4
<1>8. PairsApart'
  <2>1. SUFFICES ASSUME NEW i \in labelled', NEW j \in labelled', i < j, Passed(i, j)'
                 PROVE  ~Inside(i, j) /\ ~Inside(j, i)
    BY <1>1, <1>3, <1>2 DEF PairsApart, TypeOK
  <2>2. i \in labelled /\ j \in labelled /\ i \in Cells /\ j \in Cells
    BY <1>1
  <2>3. Passed(i, j) \/ (i = a /\ j = b)
    BY <2>1, <2>2, <1>1 DEF Passed
  <2>4. CASE Passed(i, j)
    BY <2>1, <2>2, <2>4 DEF FilterInv, PairsApart
  <2>5. CASE i = a /\ j = b
    BY <2>1, <2>5, <1>1
  <2>. QED  BY <2>3, <2>4, <2>5
<1>9. Comparing' /\ Packing'
  BY <1>1 DEF FilterInv, Comparing, Packing, Cells
<1>. QED  BY <1>2, <1>7, <1>8, <1>9 DEF FilterInv

\* Packing one cell, or turning to packing
LEMMA PackOne ==
  ASSUME FilterInv, Compared \/ KeepB \/ FreeB \/ Packed
  PROVE  FilterInv'
<1>1. /\ a \in Nat \ {0} /\ b \in Nat \ {0} /\ Len(occs) \in Nat
      /\ Cells = 1 .. Len(occs) /\ labelled \subseteq Cells /\ cells \in [Cells -> Cells]
  BY DEF FilterInv, TypeOK, Cells
<1>2. occs' = occs /\ labelled' = labelled /\ Cells' = Cells
  BY DEF Compared, KeepB, FreeB, Packed, Cells
<1>3. \A i, j \in Cells : Inside(i, j)' <=> Inside(i, j)
  BY <1>2 DEF Inside, Covers, End
<1>4. Witnessed'
  BY <1>1, <1>2, <1>3 DEF FilterInv, Witnessed
<1>5. PairsApart'
  <2>1. \A i, j \in labelled : Passed(i, j)
    BY <1>1 DEF Passed, Compared, KeepB, FreeB, Packed
  <2>. QED  BY <2>1, <1>1, <1>2, <1>3 DEF FilterInv, PairsApart
<1>6. CASE Compared
  <2>1. /\ cells' = [i \in Cells |-> i] /\ freed' = {} /\ a' = 1 /\ b' = 1 /\ stage' = "pack"
    BY <1>6 DEF FilterInv, Comparing, Compared
  <2>2. TypeOK'
    BY <2>1, <1>1, <1>2 DEF FilterInv, TypeOK
  <2>3. freed' = {i \in Cells' \ labelled' : i < b'}
    BY <2>1, <1>1, <1>2
  <2>4. Packing'
    BY <2>1, <2>3, <1>1, <1>2 DEF Packing
  <2>. QED  BY <2>1, <2>2, <2>4, <1>4, <1>5 DEF FilterInv, Comparing
<1>7. CASE KeepB
  <2>1. /\ stage = "pack" /\ stage' = stage /\ freed' = freed /\ a' = a + 1 /\ b' = b + 1
        /\ a <= b /\ b <= Len(occs) /\ cells[b] = b /\ b \in labelled
        /\ cells' = [cells EXCEPT ![a] = b]
    <3>1. /\ stage = "pack" /\ stage' = stage /\ freed' = freed /\ a' = a + 1 /\ b' = b + 1
          /\ b <= Len(occs) /\ cells[b] \in labelled
          /\ cells' = [cells EXCEPT ![a] = cells[b]]
      BY <1>7 DEF KeepB
    <3>2. a <= b /\ \A k \in b .. Len(occs) : cells[k] = k
      BY <3>1 DEF FilterInv, Packing
    <3>3. cells[b] = b
      BY <3>1, <3>2, <1>1
    <3>. QED  BY <3>1, <3>2, <3>3
  <2>2. TypeOK'
    BY <2>1, <1>1, <1>2 DEF FilterInv, TypeOK
  <2>3. /\ \A k \in 1 .. a - 1 : cells'[k] = cells[k]
        /\ cells'[a] = b
        /\ \A k \in b + 1 .. Len(occs) : cells'[k] = cells[k]
    BY <2>1, <1>1
  <2>4. /\ \A k \in b .. Len(occs) : cells[k] = k
        /\ \A k \in 1 .. a - 1 : cells[k] \in labelled /\ cells[k] < b
        /\ \A i \in labelled : i < b => \E k \in 1 .. a - 1 : cells[k] = i
        /\ \A k, l \in 1 .. a - 1 : k < l => cells[k] < cells[l]
        /\ freed = {i \in Cells \ labelled : i < b}
    BY <2>1 DEF FilterInv, Packing
  <2>5. \A k \in b' .. Len(occs') : cells'[k] = k
    BY <2>1, <2>3, <2>4, <1>1, <1>2
  <2>6. \A k \in 1 .. a' - 1 : cells'[k] \in labelled' /\ cells'[k] < b'
    BY <2>1, <2>3, <2>4, <1>1, <1>2
  <2>7. \A i \in labelled' : i < b' => \E k \in 1 .. a' - 1 : cells'[k] = i
    <3>1. SUFFICES ASSUME NEW i \in labelled, i < b + 1
                   PROVE  \E k \in 1 .. a : cells'[k] = i
      BY <2>1, <1>1, <1>2
    <3>2. CASE i = b
      BY <3>2, <2>3, <1>1
    <3>3. CASE i # b
      <4>1. PICK k \in 1 .. a - 1 : cells[k] = i
        BY <3>1, <3>3, <2>4, <1>1
      <4>. QED  BY <4>1, <2>3, <1>1
    <3>. QED  BY <3>2, <3>3
  <2>8. \A k, l \in 1 .. a' - 1 : k < l => cells'[k] < cells'[l]
    <3>1. SUFFICES ASSUME NEW k \in 1 .. a, NEW l \in 1 .. a, k < l
                   PROVE  cells'[k] < cells'[l]
      BY <2>1, <1>1
    <3>2. CASE l = a
      BY <3>1, <3>2, <2>3, <2>4, <1>1
    <3>3. CASE l # a
      BY <3>1, <3>3, <2>3, <2>4, <1>1
    <3>. QED  BY <3>2, <3>3
  <2>9. freed' = {i \in Cells' \ labelled' : i < b'}
    BY <2>1, <2>4, <1>1, <1>2
  <2>10. Packing'
    BY <2>1, <2>5, <2>6, <2>7, <2>8, <2>9, <1>1, <1>2 DEF Packing
  <2>. QED  BY <2>1, <2>2, <2>10, <1>4, <1>5 DEF FilterInv, Comparing
<1>8. CASE FreeB
  <2>1. /\ stage = "pack" /\ stage' = stage /\ a' = a /\ b' = b + 1 /\ cells' = cells
        /\ a <= b /\ b <= Len(occs) /\ cells[b] = b /\ b \notin labelled
        /\ freed' = freed \cup {b}
    BY <1>1, <1>8 DEF FilterInv, Packing, FreeB
  <2>2. TypeOK'
    BY <2>1, <1>1, <1>2 DEF FilterInv, TypeOK
  <2>4. /\ \A k \in b .. Len(occs) : cells[k] = k
        /\ \A k \in 1 .. a - 1 : cells[k] \in labelled /\ cells[k] < b
        /\ \A i \in labelled : i < b => \E k \in 1 .. a - 1 : cells[k] = i
        /\ \A k, l \in 1 .. a - 1 : k < l => cells[k] < cells[l]
        /\ freed = {i \in Cells \ labelled : i < b}
    BY <2>1 DEF FilterInv, Packing
  <2>5. \A i \in labelled : i < b + 1 => i < b
    BY <2>1, <1>1
  <2>6. \A k \in 1 .. a - 1 : cells[k] < b + 1
    BY <2>4, <2>1, <1>1
  <2>9. freed' = {i \in Cells' \ labelled' : i < b'}
    BY <2>1, <2>4, <1>1, <1>2
  <2>10. Packing'
    BY <2>1, <2>4, <2>5, <2>6, <2>9, <1>1, <1>2 DEF Packing
  <2>. QED  BY <2>1, <2>2, <2>10, <1>4, <1>5 DEF FilterInv, Comparing
<1>9. CASE Packed
  BY <1>1, <1>2, <1>4, <1>5, <1>9 DEF FilterInv, TypeOK, Comparing, Packing, Packed
<1>. QED  BY <1>6, <1>7, <1>8, <1>9

\* FilterInv holds throughout the filter.
THEOREM FilterInvariance == FilterSpec => []FilterInv
<1>1. FilterInv /\ [FilterNext]_filterVars => FilterInv'
  <2>. SUFFICES ASSUME FilterInv, [FilterNext]_filterVars PROVE FilterInv'
    OBVIOUS
  <2>1. CASE UNCHANGED filterVars
    BY <2>1 DEF filterVars, FilterInv, TypeOK, Witnessed, PairsApart, Passed, Comparing, Packing,
                Cells, Inside, Covers, End
  <2>. QED  BY <2>1, MoveOn, CompareTwo, PackOne DEF FilterNext
<1>. QED  BY <1>1, FilterStarts, PTL DEF FilterSpec

\* The filter returns exactly the occurrences that are inside no other one,
\* whatever the array.
THEOREM FilterCorrect == FilterSpec => []KeepsUnenclosed
<1>1. FilterInv => KeepsUnenclosed
  <2>. SUFFICES ASSUME FilterInv, stage = "done"
                PROVE  Kept = {i \in Cells : \A j \in Cells : ~Inside(i, j)}
    BY DEF KeepsUnenclosed
  <2>1. Kept = labelled
    BY DEF FilterInv, TypeOK, Packing, Kept, Cells
  <2>2. ASSUME NEW i \in labelled, NEW j \in Cells, Inside(i, j)
        PROVE  FALSE
    <3>1. PICK k \in labelled : Inside(i, k)
      <4>1. CASE j \in labelled
        BY <4>1, <2>2
      <4>2. CASE j \notin labelled
        <5>1. PICK k \in labelled : Inside(j, k)
          BY <4>2 DEF FilterInv, Witnessed
        <5>2. Inside(i, k)
          BY <5>1, <2>2, InsideOrder DEF FilterInv, TypeOK
        <5>. QED  BY <5>2
      <4>. QED  BY <4>1, <4>2
    <3>2. i # k
      BY <3>1 DEF Inside
    <3>3. i \in Nat /\ k \in Nat
      BY DEF FilterInv, TypeOK, Cells
    <3>4. i < k \/ k < i
      BY <3>2, <3>3
    <3>. QED  BY <3>1, <3>4 DEF FilterInv, PairsApart, Passed
  <2>3. ASSUME NEW i \in Cells \ labelled
        PROVE  \E j \in Cells : Inside(i, j)
    BY DEF FilterInv, Witnessed, TypeOK
  <2>. QED  BY <2>1, <2>2, <2>3 DEF FilterInv, TypeOK
<1>. QED  BY <1>1, FilterInvariance, PTL

\* They are in the order in which they came in, also while they are packed.
THEOREM OrderKept == FilterSpec => []KeepsOrder
<1>1. FilterInv => KeepsOrder
  BY DEF FilterInv, KeepsOrder, Packing
<1>. QED  BY <1>1, FilterInvariance, PTL

\* The packing loop reads no cell whose occurrence it has freed, and returns
\* none.
THEOREM NoneFreed == FilterSpec => []NeverFreed
<1>1. FilterInv => NeverFreed
  BY DEF FilterInv, TypeOK, NeverFreed, Packing, Kept, Cells
<1>. QED  BY <1>1, FilterInvariance, PTL
===============================================================================
