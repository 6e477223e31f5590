----------------------------- MODULE CursorProofs -----------------------------
(***************************************************************************)
(* What the movements of a cursor do, for every text and every distance.   *)
(***************************************************************************)
EXTENDS Cursor, Iteration, FiniteSetTheorems, TLAPS

Cursors == [pos : Nat, unicode_offset : 0 .. OffsetSpan - 1, state_flags : SUBSET CursorFlags]

\* A cursor that stands at a symbol or at the end, and knows it
Stands(t, s) ==
  /\ s \in Cursors
  /\ s.pos \in Places(t)
  /\ Eof(s) <=> s.pos = Len(t)
  /\ Bof(s) <=> s.pos = 0

\* A text as a stream may hold it: in memory, so shorter than half the words
Text(t) == t \in Seq(Byte) /\ CutShort(t) /\ 2 * Len(t) < OffsetSpan

\* The symbols before a cursor
SymbolOf(t, s) == SymbolsBefore(t, s.pos)

Within(i, n) == IF i < 0 THEN 0 ELSE IF i > n THEN n ELSE i

\* What a movement adds to unicode_offset: an incomplete symbol is not counted.
Told(t, from, to) ==
  IF ~WellFormed(t) /\ SymbolOf(t, from) < SymbolOf(t, to)
     /\ SymbolOf(t, to) = SymbolsBefore(t, Len(t))
  THEN SymbolOf(t, to) - SymbolOf(t, from) - 1
  ELSE SymbolOf(t, to) - SymbolOf(t, from)

-----------------------------------------------------------------------------
(* symbols *)

\* A symbol is one to four bytes.
LEMMA ByteSizes == \A b : ByteSize(b) \in 1 .. 4
BY DEF ByteSize

\* Places are positions of the text.
LEMMA PlacesBounded ==
  ASSUME NEW t, Text(t)
  PROVE  /\ Len(t) \in Nat
         /\ \A p \in Places(t) : p \in Nat /\ p <= Len(t) /\ (p # Len(t) => p \in SymbolStarts(t))
         /\ \A p \in SymbolStarts(t) : p \in Nat /\ p < Len(t)
         /\ 0 \in Places(t)
<1>1. Len(t) \in Nat /\ (t # <<>> <=> Len(t) # 0)
  BY DEF Text
<1>2. \A p \in SymbolStarts(t) : p \in Nat /\ p < Len(t)
  BY <1>1 DEF SymbolStarts
<1>3. 0 \in Places(t)
  BY <1>1 DEF Text, CutShort, Places
<1> QED BY <1>1, <1>2, <1>3 DEF Places

\* The end of a symbol is the next place.
LEMMA SymbolEnds ==
  ASSUME NEW t, Text(t), NEW p \in SymbolStarts(t)
  PROVE  /\ SymbolEnd(t, p) \in Places(t)
         /\ p < SymbolEnd(t, p)
         /\ SymbolEnd(t, p) <= p + ByteSize(t[p + 1])
         /\ \A q \in Places(t) : q <= p \/ SymbolEnd(t, p) <= q
<1>1. p \in Nat /\ p < Len(t) /\ Len(t) \in Nat
  BY PlacesBounded
<1>2. ByteSize(t[p + 1]) \in 1 .. 4
  BY ByteSizes
<1>3. p < SymbolEnd(t, p) /\ SymbolEnd(t, p) <= p + ByteSize(t[p + 1]) /\ SymbolEnd(t, p) <= Len(t)
  BY <1>1, <1>2 DEF SymbolEnd
<1>4. SymbolEnd(t, p) \in Places(t)
  BY DEF Text, CutShort
<1>5. ASSUME NEW q \in Places(t) PROVE q <= p \/ SymbolEnd(t, p) <= q
  <2>1. q \in Nat /\ SymbolEnd(t, p) \in Nat /\ (q = Len(t) \/ q \in SymbolStarts(t))
    BY <1>4, PlacesBounded
  <2>2. CASE q \in SymbolStarts(t)
    <3>1. ~ (p < q /\ q < SymbolEnd(t, p))
      BY <2>2 DEF Text, CutShort
    <3> QED BY <3>1, <2>1, <1>1
  <2> QED BY <2>1, <2>2, <1>3
<1> QED BY <1>3, <1>4, <1>5

\* SymbolsBefore counts.
LEMMA SymbolsCounted ==
  ASSUME NEW t, Text(t), NEW p \in Nat
  PROVE  IsFiniteSet({q \in SymbolStarts(t) : q < p}) /\ SymbolsBefore(t, p) \in Nat
<1>1. Len(t) \in Nat
  BY PlacesBounded
<1>2. IsFiniteSet(0 .. Len(t) - 1)
  BY <1>1, FS_Interval
<1>3. IsFiniteSet({q \in SymbolStarts(t) : q < p})
  BY <1>2, FS_Subset DEF SymbolStarts
<1> QED BY <1>3, FS_CardinalityType DEF SymbolsBefore

\* One symbol more is before the end of a symbol than before the symbol.
LEMMA SymbolsGrow ==
  ASSUME NEW t, Text(t), NEW p \in SymbolStarts(t)
  PROVE  SymbolsBefore(t, SymbolEnd(t, p)) = SymbolsBefore(t, p) + 1
<1> DEFINE before == {q \in SymbolStarts(t) : q < p}
<1>1. p \in Nat /\ SymbolEnd(t, p) \in Nat /\ p < SymbolEnd(t, p)
  BY PlacesBounded, SymbolEnds
<1>2. {q \in SymbolStarts(t) : q < SymbolEnd(t, p)} = before \cup {p}
  <2>1. ASSUME NEW q \in SymbolStarts(t) PROVE q < SymbolEnd(t, p) <=> q < p \/ q = p
    <3>1. q \in Nat /\ q \in Places(t)
      BY PlacesBounded DEF Places
    <3> QED BY <3>1, <1>1, SymbolEnds
  <2> QED BY <2>1
<1>3. IsFiniteSet(before) /\ p \notin before
  BY <1>1, SymbolsCounted
<1>4. Cardinality(before \cup {p}) = Cardinality(before) + 1
  BY <1>3, FS_AddElement
<1> QED BY <1>2, <1>4 DEF SymbolsBefore

\* The more to the right, the more symbols before it.
LEMMA SymbolsMonotone ==
  ASSUME NEW t, Text(t), NEW p \in Places(t), NEW q \in Places(t), p < q
  PROVE  SymbolsBefore(t, p) < SymbolsBefore(t, q)
<1>1. p \in SymbolStarts(t) /\ p \in Nat /\ q \in Nat /\ q <= Len(t) /\ Len(t) \in Nat
  BY PlacesBounded
<1>2. SymbolEnd(t, p) <= q /\ SymbolEnd(t, p) \in Nat
  <2>1. SymbolEnd(t, p) \in Places(t) /\ (q <= p \/ SymbolEnd(t, p) <= q)
    BY <1>1, SymbolEnds
  <2>2. SymbolEnd(t, p) \in Nat
    BY <2>1, PlacesBounded
  <2> QED BY <2>1, <2>2, <1>1
<1> DEFINE A == {r \in SymbolStarts(t) : r < SymbolEnd(t, p)}
           B == {r \in SymbolStarts(t) : r < q}
<1>3. A \subseteq B
  <2>1. \A r \in SymbolStarts(t) : r \in Nat
    BY PlacesBounded
  <2>2. ASSUME NEW r \in SymbolStarts(t), r < SymbolEnd(t, p) PROVE r < q
    BY <1>1, <1>2, <2>1, <2>2
  <2> QED BY <2>2
<1>4. IsFiniteSet(B)
  BY <1>1, SymbolsCounted
<1>5. Cardinality(A) <= Cardinality(B)
  BY <1>3, <1>4, FS_Subset
<1>6. SymbolsBefore(t, SymbolEnd(t, p)) <= SymbolsBefore(t, q)
  BY <1>5 DEF SymbolsBefore
<1>7. SymbolsBefore(t, p) \in Nat /\ SymbolsBefore(t, q) \in Nat
  BY <1>1, SymbolsCounted
<1>8. SymbolsBefore(t, SymbolEnd(t, p)) = SymbolsBefore(t, p) + 1
  BY <1>1, SymbolsGrow
<1> QED BY <1>6, <1>7, <1>8

\* No symbol is before 0, and no more before the end than there are bytes.
LEMMA SymbolsBounded ==
  ASSUME NEW t, Text(t), NEW p \in Places(t)
  PROVE  /\ SymbolsBefore(t, p) \in Nat
         /\ SymbolsBefore(t, p) <= SymbolsBefore(t, Len(t))
         /\ SymbolsBefore(t, p) = 0 <=> p = 0
         /\ SymbolsBefore(t, p) = SymbolsBefore(t, Len(t)) <=> p = Len(t)
         /\ SymbolsBefore(t, Len(t)) <= Len(t)
<1>1. Len(t) \in Nat /\ p \in Nat /\ p <= Len(t) /\ 0 \in Places(t) /\ Len(t) \in Places(t)
  BY PlacesBounded DEF Places
<1>2. SymbolsBefore(t, p) \in Nat /\ SymbolsBefore(t, Len(t)) \in Nat
  BY <1>1, SymbolsCounted
<1>3. SymbolsBefore(t, 0) = 0
  <2>1. {q \in SymbolStarts(t) : q < 0} = {}
    BY PlacesBounded
  <2> QED BY <2>1, FS_EmptySet DEF SymbolsBefore
<1>4. p # 0 => 0 < SymbolsBefore(t, p)
  BY <1>1, <1>3, SymbolsMonotone
<1>5. p # Len(t) => SymbolsBefore(t, p) < SymbolsBefore(t, Len(t))
  BY <1>1, SymbolsMonotone
<1>6. SymbolsBefore(t, Len(t)) <= Len(t)
  <2>1. IsFiniteSet(0 .. Len(t) - 1) /\ Cardinality(0 .. Len(t) - 1) = Len(t)
    <3>1. /\ IsFiniteSet(0 .. Len(t) - 1)
          /\ Cardinality(0 .. Len(t) - 1)
               = IF 0 > Len(t) - 1 THEN 0 ELSE (Len(t) - 1) - 0 + 1
      <4>1. 0 \in Int /\ Len(t) - 1 \in Int
        BY <1>1
      <4> QED BY <4>1, FS_Interval, Zenon
    <3> QED BY <3>1, <1>1
  <2>2. {q \in SymbolStarts(t) : q < Len(t)} \subseteq 0 .. Len(t) - 1
    BY DEF SymbolStarts
  <2> QED BY <2>1, <2>2, FS_Subset DEF SymbolsBefore
<1> QED BY <1>2, <1>3, <1>4, <1>5, <1>6

\* The symbol before a place ends there.
LEMMA SymbolBeforePlace ==
  ASSUME NEW t, Text(t), NEW p \in Places(t), p # 0
  PROVE  SymbolBefore(t, p) \in SymbolStarts(t) /\ SymbolEnd(t, SymbolBefore(t, p)) = p
<1>1. p \in Nat /\ p <= Len(t) /\ 0 < p /\ Len(t) \in Nat
  BY PlacesBounded
<1> DEFINE Before(q) == q \in 0 .. p - 1 /\ t[q + 1] # "cont"
                        /\ \A r \in q + 1 .. p - 1 : t[r + 1] = "cont"
           T == {q \in SymbolStarts(t) : q < p}
<1>2. \E q : Before(q)
  <2>1. 0 \in T
    BY <1>1, PlacesBounded
  <2>2. T \subseteq 0 .. p
    BY <1>1, PlacesBounded
  <2>3. PICK q \in T : \A r \in T : r <= q
    BY <1>1, <2>1, <2>2, GreatestExists
  <2>4. q \in 0 .. p - 1 /\ t[q + 1] # "cont"
    BY <1>1, <2>3 DEF SymbolStarts
  <2>5. ASSUME NEW r \in q + 1 .. p - 1, t[r + 1] # "cont" PROVE FALSE
    <3>1. r \in 0 .. Len(t) - 1 /\ r < p /\ ~ (r <= q)
      BY <1>1, <2>4
    <3>2. r \in T
      BY <3>1, <2>5 DEF SymbolStarts
    <3> QED BY <3>1, <3>2, <2>3
  <2> QED BY <2>4, <2>5
<1>3. Before(SymbolBefore(t, p))
  <2>1. \E q \in 0 .. p - 1 :
          t[q + 1] # "cont" /\ \A r \in q + 1 .. p - 1 : t[r + 1] = "cont"
    BY <1>2
  <2> QED BY <2>1 DEF SymbolBefore
<1> DEFINE q == SymbolBefore(t, p)
<1> HIDE DEF q
<1>4. Before(q)
  BY <1>3 DEF q
<1>5. q \in SymbolStarts(t) /\ q \in Nat /\ q < p
  BY <1>1, <1>4 DEF SymbolStarts
<1>6. SymbolEnd(t, q) \in Places(t) /\ q < SymbolEnd(t, q) /\ SymbolEnd(t, q) <= p
      /\ SymbolEnd(t, q) \in Nat
  <2>1. SymbolEnd(t, q) \in Places(t) /\ q < SymbolEnd(t, q)
        /\ (p <= q \/ SymbolEnd(t, q) <= p)
    BY <1>5, SymbolEnds
  <2>2. SymbolEnd(t, q) \in Nat
    BY <2>1, PlacesBounded
  <2> QED BY <2>1, <2>2, <1>1, <1>5
<1>7. ~ (SymbolEnd(t, q) < p)
  <2> SUFFICES ASSUME SymbolEnd(t, q) < p PROVE FALSE
    OBVIOUS
  <2>0. SymbolEnd(t, q) # Len(t)
    BY <1>1, <1>6
  <2>1. SymbolEnd(t, q) \in SymbolStarts(t)
    BY <1>6, <2>0, PlacesBounded
  <2>2. SymbolEnd(t, q) \in q + 1 .. p - 1
    BY <1>1, <1>5, <1>6, <2>1
  <2> QED BY <1>4, <2>1, <2>2 DEF SymbolStarts
<1>8. SymbolEnd(t, q) = p
  BY <1>1, <1>6, <1>7
<1> QED BY <1>5, <1>8 DEF q

\* Only the last symbol of a text can be incomplete.
LEMMA OnlyLastCut ==
  ASSUME NEW t, Text(t), NEW p \in SymbolStarts(t)
  PROVE  SymbolEnd(t, p) < p + ByteSize(t[p + 1])
           <=> ~WellFormed(t) /\ SymbolEnd(t, p) = Len(t)
<1>1. p \in Nat /\ p < Len(t) /\ Len(t) \in Nat /\ ByteSize(t[p + 1]) \in Nat
  BY PlacesBounded, ByteSizes
<1>2. ASSUME SymbolEnd(t, p) < p + ByteSize(t[p + 1])
      PROVE  ~WellFormed(t) /\ SymbolEnd(t, p) = Len(t)
  BY <1>1, <1>2 DEF SymbolEnd, WellFormed
<1>3. ASSUME ~WellFormed(t), SymbolEnd(t, p) = Len(t)
      PROVE  SymbolEnd(t, p) < p + ByteSize(t[p + 1])
  <2>1. PICK q \in SymbolStarts(t) : ~ (q + ByteSize(t[q + 1]) <= Len(t))
    BY <1>3 DEF Text, WellFormed
  <2>2. q \in Nat /\ q < Len(t) /\ q \in Places(t) /\ p \in Places(t)
        /\ ByteSize(t[q + 1]) \in Nat
    BY PlacesBounded, ByteSizes DEF Places
  <2>3. SymbolEnd(t, q) = Len(t)
    BY <2>1 DEF SymbolEnd
  <2>4. q <= p
    BY <2>2, <1>1, <1>3, SymbolEnds
  <2>5. p <= q
    BY <2>2, <2>3, <1>1, SymbolEnds
  <2>6. p = q
    BY <1>1, <2>2, <2>4, <2>5
  <2> QED BY <1>1, <1>3, <2>1, <2>2, <2>6
<1> QED BY <1>2, <1>3

-----------------------------------------------------------------------------
(* one turn of the loops of _move *)

\* Words wrap at OffsetSpan.
LEMMA Wraps ==
  ASSUME SpanAssumption, NEW a \in Int
  PROVE  /\ a % OffsetSpan \in 0 .. OffsetSpan - 1
         /\ 0 <= a /\ a < OffsetSpan => a % OffsetSpan = a
         /\ OffsetSpan <= a /\ a < 2 * OffsetSpan => a % OffsetSpan = a - OffsetSpan
         /\ -OffsetSpan <= a /\ a < 0 => a % OffsetSpan = a + OffsetSpan
<1>1. OffsetSpan \in Nat /\ OffsetSpan > 0
  BY DEF SpanAssumption
<1>2. a % OffsetSpan \in 0 .. OffsetSpan - 1
  BY <1>1
<1>3. ASSUME 0 <= a, a < OffsetSpan PROVE a % OffsetSpan = a
  BY <1>1, <1>3
<1>4. ASSUME OffsetSpan <= a, a < 2 * OffsetSpan PROVE a % OffsetSpan = a - OffsetSpan
  BY <1>1, <1>4
<1>5. ASSUME -OffsetSpan <= a, a < 0 PROVE a % OffsetSpan = a + OffsetSpan
  BY <1>1, <1>5
<1> QED BY <1>2, <1>3, <1>4, <1>5

\* Adding to a word step by step is adding at once.
LEMMA WrapsAdd ==
  ASSUME SpanAssumption, NEW o \in 0 .. OffsetSpan - 1, NEW d \in Int, NEW e \in {-1, 0, 1},
         2 * d < OffsetSpan, -OffsetSpan < 2 * d
  PROVE  (((o + d) % OffsetSpan) + e) % OffsetSpan = (o + d + e) % OffsetSpan
<1>1. OffsetSpan \in Nat /\ OffsetSpan > 0 /\ o \in Int
  BY DEF SpanAssumption
<1> DEFINE w == (o + d) % OffsetSpan
<1>2. w = o + d \/ w = o + d - OffsetSpan \/ w = o + d + OffsetSpan
  BY <1>1, Wraps
<1>3. w \in 0 .. OffsetSpan - 1
  BY <1>1, Wraps
<1> HIDE DEF w
<1> DEFINE x == w + e  y == o + d + e
<1>4. x \in Int /\ y \in Int /\ -OffsetSpan <= y /\ y < 2 * OffsetSpan
      /\ -OffsetSpan <= x /\ x < 2 * OffsetSpan
  BY <1>1, <1>3
<1>5. x = y \/ x = y - OffsetSpan \/ x = y + OffsetSpan
  BY <1>1, <1>2, <1>3
<1> HIDE DEF x, y
<1>6. /\ x % OffsetSpan \in 0 .. OffsetSpan - 1 /\ y % OffsetSpan \in 0 .. OffsetSpan - 1
      /\ x % OffsetSpan \in {x, x - OffsetSpan, x + OffsetSpan}
      /\ y % OffsetSpan \in {y, y - OffsetSpan, y + OffsetSpan}
  BY <1>1, <1>4, Wraps
<1>7. x % OffsetSpan = y % OffsetSpan
  BY <1>1, <1>4, <1>5, <1>6, Wraps
<1> QED BY <1>7 DEF x, y, w

\* The difference of two words is the distance, if that is less than half.
LEMMA SignedDistance ==
  ASSUME SpanAssumption, NEW o \in 0 .. OffsetSpan - 1, NEW d \in Int,
         2 * d < OffsetSpan, -OffsetSpan < 2 * d
  PROVE  Signed(((o + d) % OffsetSpan) - o) = d
<1>1. OffsetSpan \in Nat /\ OffsetSpan > 0 /\ o \in Int
  BY DEF SpanAssumption
<1> DEFINE w == (o + d) % OffsetSpan
<1>2. w = o + d \/ w = o + d - OffsetSpan \/ w = o + d + OffsetSpan
  BY <1>1, Wraps
<1>3. w \in 0 .. OffsetSpan - 1
  BY <1>1, Wraps
<1> HIDE DEF w
<1> DEFINE x == w - o
<1>4. x \in Int /\ -OffsetSpan <= x /\ x < OffsetSpan
      /\ (x = d \/ x = d - OffsetSpan \/ x = d + OffsetSpan)
  BY <1>1, <1>2, <1>3
<1> HIDE DEF x
<1>5. x % OffsetSpan = IF d >= 0 THEN d ELSE d + OffsetSpan
  BY <1>1, <1>4, Wraps
<1>6. Signed(x) = d
  BY <1>1, <1>5 DEF Signed
<1> QED BY <1>6 DEF x, w

\* A cursor put elsewhere
LEMMA PutAt ==
  ASSUME NEW s \in Cursors, NEW p \in Nat
  PROVE  /\ [s EXCEPT !.pos = p] \in Cursors
         /\ [s EXCEPT !.pos = p].pos = p
         /\ [s EXCEPT !.pos = p].unicode_offset = s.unicode_offset
BY DEF Cursors

\* Normalizing a cursor at a byte, or beyond the end, sets the flags that tell
\* where it stands.
LEMMA NormalizeStands ==
  ASSUME NEW t, Text(t), t # <<>>, NEW s \in Cursors,
         s.pos < Len(t) => s.pos \in SymbolStarts(t)
  PROVE  /\ Stands(t, NormalizePosition(t, s))
         /\ NormalizePosition(t, s).pos = IF s.pos >= Len(t) THEN Len(t) ELSE s.pos
         /\ NormalizePosition(t, s).unicode_offset = s.unicode_offset
<1>1. Len(t) \in Nat /\ Len(t) > 0 /\ s.pos \in Nat
  BY PlacesBounded DEF Text, Cursors
<1> DEFINE n == NormalizePosition(t, s)
<1>3. CASE s.pos >= Len(t)
  <2>1. ~ (s.pos < Len(t) /\ s.pos <= 0)
    BY <1>1, <1>3
  <2>2. n = [s EXCEPT !.pos = Len(t), !.state_flags = {"EOF"}]
    BY <1>3, <2>1 DEF NormalizePosition
  <2>3. n \in Cursors /\ n.pos = Len(t) /\ n.unicode_offset = s.unicode_offset
        /\ n.state_flags = {"EOF"}
    BY <2>2, <1>1 DEF CursorFlags, Cursors
  <2> HIDE DEF n
  <2>4. Stands(t, n)
    BY <2>3, <1>1 DEF Stands, Eof, Bof, Places
  <2> QED BY <2>3, <2>4, <1>3 DEF n
<1>4. CASE s.pos < Len(t) /\ s.pos <= 0
  <2>1. ~ (s.pos >= Len(t)) /\ s.pos = 0
    BY <1>1, <1>4
  <2>2. n = [s EXCEPT !.pos = 0, !.state_flags = {"BOF"}]
    BY <1>4, <2>1 DEF NormalizePosition
  <2>3. n \in Cursors /\ n.pos = 0 /\ n.unicode_offset = s.unicode_offset
        /\ n.state_flags = {"BOF"}
    <3>1. n.pos = 0 /\ n.unicode_offset = s.unicode_offset /\ n.state_flags = {"BOF"}
      BY <2>2 DEF Cursors
    <3>2. [s EXCEPT !.pos = 0] \in Cursors /\ {"BOF"} \in SUBSET CursorFlags
      BY PutAt DEF CursorFlags
    <3>3. n = [[s EXCEPT !.pos = 0] EXCEPT !.state_flags = {"BOF"}]
      BY <2>2
    <3>4. n \in Cursors
      BY <3>2, <3>3 DEF Cursors
    <3> QED BY <3>1, <3>4
  <2> HIDE DEF n
  <2>4. Stands(t, n)
    BY <2>1, <2>3, <1>1, <1>4 DEF Stands, Eof, Bof, Places
  <2> QED BY <2>1, <2>3, <2>4 DEF n
<1>5. CASE s.pos < Len(t) /\ ~ (s.pos <= 0)
  <2>1. ~ (s.pos >= Len(t)) /\ s.pos # 0 /\ s.pos # Len(t)
    BY <1>1, <1>5
  <2>2. n = [s EXCEPT !.state_flags = {}]
    BY <1>5, <2>1 DEF NormalizePosition
  <2>3. n \in Cursors /\ n.pos = s.pos /\ n.unicode_offset = s.unicode_offset
        /\ n.state_flags = {}
    BY <2>2 DEF CursorFlags, Cursors
  <2> HIDE DEF n
  <2>4. Stands(t, n)
    BY <2>1, <2>3, <1>1, <1>5 DEF Stands, Eof, Bof, Places
  <2> QED BY <2>1, <2>3, <2>4 DEF n
<1> QED BY <1>1, <1>3, <1>4, <1>5

\* A turn to the right: one symbol on, unless at the end.
LEMMA RightStands ==
  ASSUME SpanAssumption, NEW t, Text(t), NEW s, Stands(t, s)
  PROVE  /\ Stands(t, Right(t, s))
         /\ s.pos <= Right(t, s).pos
         /\ SymbolOf(t, Right(t, s)) = Within(SymbolOf(t, s) + 1, SymbolsBefore(t, Len(t)))
         /\ Right(t, s).unicode_offset = (s.unicode_offset + Told(t, s, Right(t, s))) % OffsetSpan
<1> DEFINE N == SymbolsBefore(t, Len(t))
<1>1. s \in Cursors /\ s.pos \in Places(t) /\ s.pos \in Nat /\ Len(t) \in Nat
      /\ Len(t) \in Places(t) /\ OffsetSpan \in Nat /\ OffsetSpan > 0
      /\ s.unicode_offset \in 0 .. OffsetSpan - 1
  BY PlacesBounded DEF Stands, Cursors, Places, SpanAssumption
<1>2. SymbolOf(t, s) \in Nat /\ N \in Nat /\ SymbolOf(t, s) <= N
      /\ (SymbolOf(t, s) = N <=> s.pos = Len(t))
  BY <1>1, SymbolsBounded DEF SymbolOf
<1>3. CASE Eof(s)
  <2>1. Right(t, s) = s /\ s.pos = Len(t)
    BY <1>3 DEF Right, Stands
  <2>2. Told(t, s, s) = 0
    BY <1>2 DEF Told
  <2>3. s.unicode_offset = (s.unicode_offset + 0) % OffsetSpan
    BY <1>1, Wraps
  <2>4. SymbolOf(t, s) = Within(SymbolOf(t, s) + 1, N)
    BY <1>2, <2>1 DEF Within
  <2> QED BY <1>1, <2>1, <2>2, <2>3, <2>4
<1>4. CASE ~Eof(s)
  <2> DEFINE target == s.pos + ByteSize(t[s.pos + 1])
             to == SymbolEnd(t, s.pos)
             n == NormalizePosition(t, [s EXCEPT !.pos = target])
  <2>1. s.pos # Len(t) /\ s.pos \in SymbolStarts(t)
    BY <1>1, <1>4, PlacesBounded DEF Stands
  <2>2. target \in Nat /\ t # <<>> /\ s.pos < Len(t)
    BY <1>1, <2>1, ByteSizes, PlacesBounded
  <2>3. to \in Places(t) /\ s.pos < to /\ to <= target
    BY <2>1, SymbolEnds
  <2>4. to \in Nat /\ to <= Len(t)
    BY <2>3, PlacesBounded
  <2>5. to = IF target >= Len(t) THEN Len(t) ELSE target
    BY <1>1, <2>2 DEF SymbolEnd
  <2>6. target < Len(t) => target \in SymbolStarts(t)
    BY <1>1, <2>2, <2>3, <2>5, PlacesBounded
  <2>7. Stands(t, n) /\ n.pos = to /\ n.unicode_offset = s.unicode_offset
    <3> DEFINE r == [s EXCEPT !.pos = target]
    <3>1. r \in Cursors /\ r.pos = target /\ r.unicode_offset = s.unicode_offset
      BY <1>1, <2>2, PutAt
    <3> HIDE DEF r
    <3>2. /\ Stands(t, NormalizePosition(t, r))
          /\ NormalizePosition(t, r).pos = IF r.pos >= Len(t) THEN Len(t) ELSE r.pos
          /\ NormalizePosition(t, r).unicode_offset = r.unicode_offset
      BY <2>2, <2>6, <3>1, NormalizeStands
    <3> QED BY <3>1, <3>2, <2>5 DEF r
  <2>8. SymbolsBefore(t, to) = SymbolOf(t, s) + 1
    BY <2>1, SymbolsGrow DEF SymbolOf
  <2>9. to < target <=> ~WellFormed(t) /\ to = Len(t)
    BY <2>1, OnlyLastCut
  <2>10. SymbolsBefore(t, to) = N <=> to = Len(t)
    BY <2>3, SymbolsBounded
  <2>11. Right(t, s) = IF to < target THEN n
                       ELSE [n EXCEPT !.unicode_offset = (@ + 1) % OffsetSpan]
    BY <1>4, <2>7 DEF Right
  <2> HIDE DEF n, to, target
  <2>12. n \in Cursors
    BY <2>7 DEF Stands
  <2>13. (n.unicode_offset + 1) % OffsetSpan \in 0 .. OffsetSpan - 1
    BY <1>1, <2>7, Wraps
  <2>14. Stands(t, Right(t, s)) /\ Right(t, s).pos = to
         /\ Right(t, s).unicode_offset
              = IF to < target THEN s.unicode_offset ELSE (s.unicode_offset + 1) % OffsetSpan
    <3>1. CASE to < target
      BY <3>1, <2>7, <2>11
    <3>2. CASE ~ (to < target)
      <4> DEFINE r == [n EXCEPT !.unicode_offset = (@ + 1) % OffsetSpan]
      <4>1. r \in Cursors /\ r.pos = n.pos /\ r.state_flags = n.state_flags
            /\ r.unicode_offset = (n.unicode_offset + 1) % OffsetSpan
        BY <2>12, <2>13 DEF Cursors
      <4>2. r = Right(t, s)
        BY <3>2, <2>11
      <4> HIDE DEF r
      <4>3. Stands(t, r)
        BY <4>1, <2>7 DEF Stands, Eof, Bof
      <4> QED BY <3>2, <4>1, <4>2, <4>3, <2>7
    <3> QED BY <3>1, <3>2
  <2>15. SymbolOf(t, Right(t, s)) = SymbolOf(t, s) + 1
    BY <2>14, <2>8 DEF SymbolOf
  <2>16. Told(t, s, Right(t, s)) = IF to < target THEN 0 ELSE 1
    BY <1>2, <2>8, <2>9, <2>10, <2>15 DEF Told
  <2>17. s.unicode_offset = (s.unicode_offset + 0) % OffsetSpan
    BY <1>1, Wraps
  <2>18. SymbolOf(t, s) + 1 = Within(SymbolOf(t, s) + 1, N)
    BY <1>1, <1>2, <2>1 DEF Within
  <2> QED BY <1>1, <2>3, <2>4, <2>14, <2>15, <2>16, <2>17, <2>18
<1> QED BY <1>3, <1>4

\* A turn to the left: one symbol back, unless at the beginning.
LEMMA LeftStands ==
  ASSUME SpanAssumption, NEW t, Text(t), NEW s, Stands(t, s)
  PROVE  /\ Stands(t, Left(t, s))
         /\ SymbolOf(t, Left(t, s)) = Within(SymbolOf(t, s) - 1, SymbolsBefore(t, Len(t)))
         /\ Left(t, s).unicode_offset
              = (s.unicode_offset + (SymbolOf(t, Left(t, s)) - SymbolOf(t, s))) % OffsetSpan
<1> DEFINE N == SymbolsBefore(t, Len(t))
<1>1. s \in Cursors /\ s.pos \in Places(t) /\ s.pos \in Nat /\ Len(t) \in Nat
      /\ s.pos <= Len(t) /\ OffsetSpan \in Nat /\ OffsetSpan > 0
      /\ s.unicode_offset \in 0 .. OffsetSpan - 1
  BY PlacesBounded DEF Stands, Cursors, Places, SpanAssumption
<1>2. SymbolOf(t, s) \in Nat /\ N \in Nat /\ SymbolOf(t, s) <= N
      /\ (SymbolOf(t, s) = 0 <=> s.pos = 0)
  <2>1. Len(t) \in Places(t)
    BY DEF Places
  <2> QED BY <1>1, <2>1, SymbolsBounded DEF SymbolOf
<1>3. CASE Bof(s)
  <2>1. Left(t, s) = s /\ s.pos = 0
    BY <1>3 DEF Left, Stands
  <2>2. SymbolOf(t, s) - SymbolOf(t, s) = 0
    BY <1>2
  <2>3. s.unicode_offset = (s.unicode_offset + 0) % OffsetSpan
    BY <1>1, Wraps
  <2>4. SymbolOf(t, s) = Within(SymbolOf(t, s) - 1, N)
    BY <1>2, <2>1 DEF Within
  <2> QED BY <2>1, <2>2, <2>3, <2>4
<1>4. CASE ~Bof(s)
  <2> DEFINE to == SymbolBefore(t, s.pos)
             n == NormalizePosition(t, [s EXCEPT !.pos = to])
  <2>1. s.pos # 0
    BY <1>1, <1>4 DEF Stands
  <2>2. to \in SymbolStarts(t) /\ SymbolEnd(t, to) = s.pos
    BY <1>1, <2>1, SymbolBeforePlace
  <2>3. to \in Nat /\ to < Len(t) /\ t # <<>>
    BY <1>1, <2>2, PlacesBounded
  <2>4. Stands(t, n) /\ n.pos = to /\ n.unicode_offset = s.unicode_offset
    <3> DEFINE r == [s EXCEPT !.pos = to]
    <3>1. r \in Cursors /\ r.pos = to /\ r.unicode_offset = s.unicode_offset
      BY <1>1, <2>3, PutAt
    <3> HIDE DEF r
    <3>2. /\ Stands(t, NormalizePosition(t, r))
          /\ NormalizePosition(t, r).pos = IF r.pos >= Len(t) THEN Len(t) ELSE r.pos
          /\ NormalizePosition(t, r).unicode_offset = r.unicode_offset
      BY <2>2, <2>3, <3>1, NormalizeStands
    <3> QED BY <3>1, <3>2, <2>3, <1>1 DEF r
  <2>5. SymbolsBefore(t, to) = SymbolOf(t, s) - 1
    <3>1. SymbolsBefore(t, to) \in Nat
      BY <2>3, SymbolsCounted
    <3> QED BY <3>1, <1>2, <2>2, SymbolsGrow DEF SymbolOf
  <2>6. Left(t, s) = [n EXCEPT !.unicode_offset = (@ - 1) % OffsetSpan]
    BY <1>4 DEF Left
  <2> HIDE DEF n, to
  <2>7. (n.unicode_offset - 1) % OffsetSpan \in 0 .. OffsetSpan - 1
    BY <1>1, <2>4, Wraps
  <2> DEFINE l == [n EXCEPT !.unicode_offset = (@ - 1) % OffsetSpan]
  <2>8. l \in Cursors /\ l.pos = n.pos /\ l.state_flags = n.state_flags
        /\ l.unicode_offset = (n.unicode_offset - 1) % OffsetSpan
    BY <2>4, <2>7 DEF Cursors, Stands
  <2> HIDE DEF l
  <2>9. Stands(t, l)
    BY <2>8, <2>4 DEF Stands, Eof, Bof
  <2>10. l = Left(t, s)
    BY <2>6 DEF l
  <2>11. SymbolOf(t, l) = SymbolOf(t, s) - 1
    BY <2>4, <2>5, <2>8 DEF SymbolOf
  <2>12. SymbolOf(t, l) - SymbolOf(t, s) = -1
    BY <1>2, <2>11
  <2>13. SymbolOf(t, s) - 1 = Within(SymbolOf(t, s) - 1, N)
    BY <1>2, <2>1 DEF Within
  <2>14. l.unicode_offset = (s.unicode_offset + (SymbolOf(t, l) - SymbolOf(t, s))) % OffsetSpan
    <3>1. s.unicode_offset - 1 = s.unicode_offset + -1
      BY <1>1
    <3> QED BY <3>1, <2>4, <2>8, <2>12
  <2> QED BY <2>9, <2>10, <2>11, <2>13, <2>14
<1> QED BY <1>3, <1>4

-----------------------------------------------------------------------------
(* _move *)

\* The cursors that a text has
At(t) == {s \in Cursors : Stands(t, s)}

\* What Told says is a short distance.
LEMMA ToldBounded ==
  ASSUME NEW t, Text(t), NEW a \in At(t), NEW b \in At(t)
  PROVE  /\ Told(t, a, b) \in Int
         /\ 2 * Told(t, a, b) < OffsetSpan /\ -OffsetSpan < 2 * Told(t, a, b)
         /\ 2 * (SymbolOf(t, b) - SymbolOf(t, a)) < OffsetSpan
         /\ -OffsetSpan < 2 * (SymbolOf(t, b) - SymbolOf(t, a))
         /\ SymbolOf(t, a) \in Nat /\ SymbolOf(t, a) <= SymbolsBefore(t, Len(t))
         /\ SymbolsBefore(t, Len(t)) \in Nat
<1>1. a.pos \in Places(t) /\ b.pos \in Places(t) /\ Len(t) \in Places(t) /\ Len(t) \in Nat
  BY PlacesBounded DEF At, Stands, Places
<1>2. /\ SymbolOf(t, a) \in Nat /\ SymbolOf(t, b) \in Nat /\ SymbolsBefore(t, Len(t)) \in Nat
      /\ SymbolOf(t, a) <= SymbolsBefore(t, Len(t)) /\ SymbolOf(t, b) <= SymbolsBefore(t, Len(t))
      /\ SymbolsBefore(t, Len(t)) <= Len(t)
  BY <1>1, SymbolsBounded DEF SymbolOf
<1>3. OffsetSpan > 2 * Len(t) /\ 2 * Len(t) < OffsetSpan
  BY DEF Text
<1> QED BY <1>1, <1>2, <1>3, SpanAssumption DEF Told, SpanAssumption

\* f[k] is where k turns to the right take s.
RightTurns(t, s, f) == \A k \in Nat : f[k] = IF k = 0 THEN s ELSE Right(t, f[k - 1])

\* k turns to the right
LEMMA MovesRight ==
  ASSUME SpanAssumption, NEW t, Text(t), NEW s \in At(t),
         NEW f, RightTurns(t, s, f)
  PROVE  \A k \in Nat :
           /\ f[k] \in At(t)
           /\ SymbolOf(t, f[k]) = Within(SymbolOf(t, s) + k, SymbolsBefore(t, Len(t)))
           /\ f[k].unicode_offset = (s.unicode_offset + Told(t, s, f[k])) % OffsetSpan
<1> DEFINE N == SymbolsBefore(t, Len(t))
           Good == {k \in Nat :
                      /\ f[k] \in At(t)
                      /\ SymbolOf(t, f[k]) = Within(SymbolOf(t, s) + k, N)
                      /\ f[k].unicode_offset = (s.unicode_offset + Told(t, s, f[k])) % OffsetSpan}
<1>1. SymbolOf(t, s) \in Nat /\ N \in Nat /\ SymbolOf(t, s) <= N
      /\ s.unicode_offset \in 0 .. OffsetSpan - 1 /\ s.unicode_offset \in Int
      /\ OffsetSpan \in Nat /\ OffsetSpan > 0
  BY ToldBounded DEF At, Cursors, SpanAssumption
<1>2. 0 \in Good
  <2>1. f[0] = s
    BY DEF RightTurns
  <2>2. Told(t, s, s) = 0
    BY <1>1 DEF Told
  <2>3. s.unicode_offset = (s.unicode_offset + 0) % OffsetSpan
    <3>1. s.unicode_offset % OffsetSpan = s.unicode_offset
      BY <1>1, Wraps
    <3> QED BY <1>1, <3>1
  <2> QED BY <2>1, <2>2, <2>3, <1>1 DEF Within
<1>3. ASSUME NEW k \in Nat, k \in Good PROVE k + 1 \in Good
  <2> DEFINE a == f[k]  b == Right(t, f[k])
  <2>1. f[k + 1] = b
    BY DEF RightTurns
  <2>2. a \in At(t) /\ SymbolOf(t, a) = Within(SymbolOf(t, s) + k, N)
        /\ a.unicode_offset = (s.unicode_offset + Told(t, s, a)) % OffsetSpan
    BY <1>3
  <2> HIDE DEF a
  <2>3. /\ Stands(t, b) /\ SymbolOf(t, b) = Within(SymbolOf(t, a) + 1, N)
        /\ b.unicode_offset = (a.unicode_offset + Told(t, a, b)) % OffsetSpan
    <3>1. Stands(t, a)
      BY <2>2 DEF At
    <3> QED BY <3>1, RightStands DEF a
  <2> HIDE DEF b
  <2>4. b \in At(t)
    BY <2>3 DEF At, Stands
  <2>5. /\ Told(t, s, a) \in Int /\ 2 * Told(t, s, a) < OffsetSpan /\ -OffsetSpan < 2 * Told(t, s, a)
        /\ SymbolOf(t, a) \in Nat /\ SymbolOf(t, a) <= N
    BY <2>2, ToldBounded
  <2>6. SymbolOf(t, b) = Within(SymbolOf(t, s) + (k + 1), N)
    BY <1>1, <2>2, <2>3 DEF Within
  <2>7. Told(t, a, b) \in {-1, 0, 1} /\ Told(t, s, b) = Told(t, s, a) + Told(t, a, b)
    <3>1. SymbolOf(t, s) <= SymbolOf(t, a) /\ SymbolOf(t, b)
                 = IF SymbolOf(t, a) = N THEN N ELSE SymbolOf(t, a) + 1
      BY <1>1, <2>2, <2>3, <2>5 DEF Within
    <3> QED BY SMTT(30), <1>1, <2>5, <3>1 DEF Told
  <2>8. b.unicode_offset = (s.unicode_offset + Told(t, s, b)) % OffsetSpan
    <3>1. s.unicode_offset + Told(t, s, a) + Told(t, a, b) = s.unicode_offset + Told(t, s, b)
      BY SMTT(30), <1>1, <2>5, <2>7
    <3> QED BY ZenonT(30), <1>1, <2>2, <2>3, <2>5, <2>7, <3>1, WrapsAdd
  <2>9. k + 1 \in Nat
    OBVIOUS
  <2> QED BY <2>1, <2>4, <2>6, <2>8, <2>9
<1> HIDE DEF Good
<1>4. Nat \subseteq Good
  BY <1>2, <1>3, SetInduction
<1> QED BY <1>4 DEF Good

\* f[k] is where k turns to the left take s.
LeftTurns(t, s, f) == \A k \in Nat : f[k] = IF k = 0 THEN s ELSE Left(t, f[k - 1])

\* k turns to the left
LEMMA MovesLeft ==
  ASSUME SpanAssumption, NEW t, Text(t), NEW s \in At(t),
         NEW f, LeftTurns(t, s, f)
  PROVE  \A k \in Nat :
           /\ f[k] \in At(t)
           /\ SymbolOf(t, f[k]) = Within(SymbolOf(t, s) - k, SymbolsBefore(t, Len(t)))
           /\ f[k].unicode_offset
                = (s.unicode_offset + (SymbolOf(t, f[k]) - SymbolOf(t, s))) % OffsetSpan
<1> DEFINE N == SymbolsBefore(t, Len(t))
           D(a) == SymbolOf(t, a) - SymbolOf(t, s)
           Good == {k \in Nat :
                      /\ f[k] \in At(t)
                      /\ SymbolOf(t, f[k]) = Within(SymbolOf(t, s) - k, N)
                      /\ f[k].unicode_offset = (s.unicode_offset + D(f[k])) % OffsetSpan}
<1>1. SymbolOf(t, s) \in Nat /\ N \in Nat /\ SymbolOf(t, s) <= N
      /\ s.unicode_offset \in 0 .. OffsetSpan - 1 /\ s.unicode_offset \in Int
      /\ OffsetSpan \in Nat /\ OffsetSpan > 0
  BY ToldBounded DEF At, Cursors, SpanAssumption
<1>2. 0 \in Good
  <2>1. f[0] = s
    BY DEF LeftTurns
  <2>2. D(s) = 0
    BY <1>1
  <2>3. s.unicode_offset = (s.unicode_offset + 0) % OffsetSpan
    <3>1. s.unicode_offset % OffsetSpan = s.unicode_offset
      BY <1>1, Wraps
    <3> QED BY <1>1, <3>1
  <2> QED BY <2>1, <2>2, <2>3, <1>1 DEF Within
<1>3. ASSUME NEW k \in Nat, k \in Good PROVE k + 1 \in Good
  <2> DEFINE a == f[k]  b == Left(t, f[k])
  <2>1. f[k + 1] = b
    BY DEF LeftTurns
  <2>2. a \in At(t) /\ SymbolOf(t, a) = Within(SymbolOf(t, s) - k, N)
        /\ a.unicode_offset = (s.unicode_offset + D(a)) % OffsetSpan
    BY <1>3
  <2> HIDE DEF a
  <2>3. /\ Stands(t, b) /\ SymbolOf(t, b) = Within(SymbolOf(t, a) - 1, N)
        /\ b.unicode_offset = (a.unicode_offset + (SymbolOf(t, b) - SymbolOf(t, a))) % OffsetSpan
    <3>1. Stands(t, a)
      BY <2>2 DEF At
    <3> QED BY <3>1, LeftStands DEF a
  <2> HIDE DEF b
  <2>4. b \in At(t)
    BY <2>3 DEF At, Stands
  <2>5. /\ 2 * D(a) < OffsetSpan /\ -OffsetSpan < 2 * D(a)
        /\ SymbolOf(t, a) \in Nat /\ SymbolOf(t, a) <= N /\ D(a) \in Int
    BY SMTT(30), <1>1, <2>2, ToldBounded
  <2>6. SymbolOf(t, b) = Within(SymbolOf(t, s) - (k + 1), N)
    BY <1>1, <2>2, <2>3 DEF Within
  <2>7. SymbolOf(t, b) - SymbolOf(t, a) \in {-1, 0, 1}
        /\ D(b) = D(a) + (SymbolOf(t, b) - SymbolOf(t, a))
    <3>1. SymbolOf(t, b) = IF SymbolOf(t, a) = 0 THEN 0 ELSE SymbolOf(t, a) - 1
      BY <1>1, <2>3, <2>5 DEF Within
    <3>2. SymbolOf(t, b) \in Nat
      BY <2>5, <3>1
    <3> QED BY <1>1, <2>5, <3>1, <3>2
  <2>8. b.unicode_offset = (s.unicode_offset + D(b)) % OffsetSpan
    <3>1. s.unicode_offset + D(a) + (SymbolOf(t, b) - SymbolOf(t, a)) = s.unicode_offset + D(b)
      BY SMTT(30), <1>1, <2>5, <2>7
    <3> HIDE DEF D
    <3> QED BY ZenonT(30), <1>1, <2>2, <2>3, <2>5, <2>7, <3>1, WrapsAdd
  <2>9. k + 1 \in Nat
    OBVIOUS
  <2> QED BY <2>1, <2>4, <2>6, <2>8, <2>9
<1> HIDE DEF Good
<1>4. Nat \subseteq Good
  BY <1>2, <1>3, SetInduction
<1> QED BY <1>4 DEF Good

\* The definition of Move's turns to the right has a solution.
LEMMA RightTurnsExist ==
  ASSUME SpanAssumption, NEW t, Text(t), NEW s \in At(t)
  PROVE  LET right[k \in Nat] == IF k = 0 THEN s ELSE Right(t, right[k - 1]) IN
         right = [k \in Nat |-> IF k = 0 THEN s ELSE Right(t, right[k - 1])]
<1> DEFINE step == [x \in At(t) |-> Right(t, x)]
           right[k \in Nat] == IF k = 0 THEN s ELSE Right(t, right[k - 1])
<1>1. step \in [At(t) -> At(t)]
  BY RightStands DEF At, Stands
<1> HIDE DEF step
<1>2. PICK f \in [Nat -> At(t)] : f[0] = s /\ \A n \in Nat : f[n + 1] = step[f[n]]
  <2>1. Iterable(At(t), s, step)
    BY <1>1, IterationExists
  <2> QED BY <2>1 DEF Iterable
<1>3. ASSUME NEW n \in Nat
      PROVE  f[n] = IF n = 0 THEN s ELSE Right(t, f[n - 1])
  <2>1. CASE n = 0
    BY <1>2, <2>1
  <2>2. CASE n # 0
    <3>1. n - 1 \in Nat /\ (n - 1) + 1 = n
      BY <2>2
    <3>2. f[n] = step[f[n - 1]] /\ f[n - 1] \in At(t)
      BY <1>2, <3>1
    <3> QED BY <2>2, <3>2 DEF step
  <2> QED BY <2>1, <2>2
<1>4. f = [n \in Nat |-> IF n = 0 THEN s ELSE Right(t, f[n - 1])]
  BY <1>2, <1>3
<1> QED BY <1>4

\* The definition of Move's turns to the left has a solution.
LEMMA LeftTurnsExist ==
  ASSUME SpanAssumption, NEW t, Text(t), NEW s \in At(t)
  PROVE  LET left[k \in Nat] == IF k = 0 THEN s ELSE Left(t, left[k - 1]) IN
         left = [k \in Nat |-> IF k = 0 THEN s ELSE Left(t, left[k - 1])]
<1> DEFINE step == [x \in At(t) |-> Left(t, x)]
<1>1. step \in [At(t) -> At(t)]
  BY LeftStands DEF At, Stands
<1> HIDE DEF step
<1>2. PICK f \in [Nat -> At(t)] : f[0] = s /\ \A n \in Nat : f[n + 1] = step[f[n]]
  <2>1. Iterable(At(t), s, step)
    BY <1>1, IterationExists
  <2> QED BY <2>1 DEF Iterable
<1>3. ASSUME NEW n \in Nat
      PROVE  f[n] = IF n = 0 THEN s ELSE Left(t, f[n - 1])
  <2>1. CASE n = 0
    BY <1>2, <2>1
  <2>2. CASE n # 0
    <3>1. n - 1 \in Nat /\ (n - 1) + 1 = n
      BY <2>2
    <3>2. f[n] = step[f[n - 1]] /\ f[n - 1] \in At(t)
      BY <1>2, <3>1
    <3> QED BY <2>2, <3>2 DEF step
  <2> QED BY <2>1, <2>2
<1>4. f = [n \in Nat |-> IF n = 0 THEN s ELSE Left(t, f[n - 1])]
  BY <1>2, <1>3
<1> QED BY <1>4

\* However far a cursor is asked to move, it moves by whole symbols, as far as
\* it is asked or to an end of the text, and _move returns how far it came.
LEMMA MoveMoves ==
  ASSUME SpanAssumption, NEW t, Text(t), NEW s \in At(t), NEW m \in Int
  PROVE  /\ Move(t, s, m) \in At(t)
         /\ SymbolOf(t, Move(t, s, m)) = Within(SymbolOf(t, s) + m, SymbolsBefore(t, Len(t)))
         /\ Move(t, s, m).unicode_offset
              = (s.unicode_offset + Told(t, s, Move(t, s, m))) % OffsetSpan
         /\ Distance(s, Move(t, s, m)) = Told(t, s, Move(t, s, m))
<1> DEFINE right[k \in Nat] == IF k = 0 THEN s ELSE Right(t, right[k - 1])
           left[k \in Nat]  == IF k = 0 THEN s ELSE Left(t, left[k - 1])
<1>1. Move(t, s, m) = IF m >= 0 THEN right[m] ELSE left[-m]
  BY DEF Move
<1>2. right = [k \in Nat |-> IF k = 0 THEN s ELSE Right(t, right[k - 1])]
  BY RightTurnsExist
<1>3. left = [k \in Nat |-> IF k = 0 THEN s ELSE Left(t, left[k - 1])]
  BY LeftTurnsExist
<1> HIDE DEF right, left
<1>4. RightTurns(t, s, right) /\ LeftTurns(t, s, left)
  BY <1>2, <1>3 DEF RightTurns, LeftTurns
<1> DEFINE to == Move(t, s, m)  N == SymbolsBefore(t, Len(t))
<1> HIDE DEF to
<1>5. SymbolOf(t, s) \in Nat /\ N \in Nat /\ SymbolOf(t, s) <= N
      /\ s.unicode_offset \in 0 .. OffsetSpan - 1
  BY ToldBounded DEF At, Cursors
<1>6. /\ to \in At(t)
      /\ SymbolOf(t, to) = Within(SymbolOf(t, s) + m, N)
      /\ to.unicode_offset = (s.unicode_offset + Told(t, s, to)) % OffsetSpan
  <2>1. CASE m >= 0
    <3>1. m \in Nat /\ to = right[m]
      BY <1>1, <2>1 DEF to
    <3>2. /\ right[m] \in At(t)
          /\ SymbolOf(t, right[m]) = Within(SymbolOf(t, s) + m, N)
          /\ right[m].unicode_offset = (s.unicode_offset + Told(t, s, right[m])) % OffsetSpan
      BY <1>4, <3>1, MovesRight
    <3> QED BY <3>1, <3>2
  <2>2. CASE ~ (m >= 0)
    <3>1. -m \in Nat /\ to = left[-m] /\ SymbolOf(t, s) - (-m) = SymbolOf(t, s) + m
      BY <1>1, <1>5, <2>2 DEF to
    <3>2. /\ left[-m] \in At(t)
          /\ SymbolOf(t, left[-m]) = Within(SymbolOf(t, s) - (-m), N)
          /\ left[-m].unicode_offset
               = (s.unicode_offset + (SymbolOf(t, left[-m]) - SymbolOf(t, s))) % OffsetSpan
      BY <1>4, <3>1, MovesLeft
    <3>3. SymbolOf(t, to) <= SymbolOf(t, s) /\ SymbolOf(t, to) \in Nat
      BY <1>5, <2>2, <3>1, <3>2 DEF Within
    <3>4. Told(t, s, to) = SymbolOf(t, to) - SymbolOf(t, s)
      BY <1>5, <3>3 DEF Told
    <3> QED BY <3>1, <3>2, <3>4
  <2> QED BY <2>1, <2>2
<1>7. Distance(s, to) = Told(t, s, to)
  <2>1. Told(t, s, to) \in Int /\ 2 * Told(t, s, to) < OffsetSpan
        /\ -OffsetSpan < 2 * Told(t, s, to)
    BY <1>6, ToldBounded
  <2> QED BY <1>5, <1>6, <2>1, SignedDistance DEF Distance
<1> QED BY <1>6, <1>7 DEF to

\* A reset puts a cursor where the marked one stands.
LEMMA ResetStands ==
  ASSUME NEW t, Text(t), t # <<>>, NEW s \in At(t), NEW mark,
         mark.pos \in Places(t), mark.unicode_offset \in 0 .. OffsetSpan - 1
  PROVE  /\ ResetTo(t, s, mark) \in At(t)
         /\ ResetTo(t, s, mark).pos = mark.pos
         /\ ResetTo(t, s, mark).unicode_offset = mark.unicode_offset
<1> DEFINE r == [s EXCEPT !.pos = mark.pos, !.unicode_offset = mark.unicode_offset]
<1>1. mark.pos \in Nat /\ mark.pos <= Len(t) /\ Len(t) \in Nat
      /\ (mark.pos # Len(t) => mark.pos \in SymbolStarts(t))
  BY PlacesBounded
<1>2. s \in Cursors
  BY DEF At
<1>3. r \in Cursors /\ r.pos = mark.pos /\ r.unicode_offset = mark.unicode_offset
  BY <1>1, <1>2 DEF Cursors
<1>4. ResetTo(t, s, mark) = NormalizePosition(t, r)
  BY DEF ResetTo
<1> HIDE DEF r
<1>5. /\ Stands(t, NormalizePosition(t, r))
      /\ NormalizePosition(t, r).pos = IF r.pos >= Len(t) THEN Len(t) ELSE r.pos
      /\ NormalizePosition(t, r).unicode_offset = r.unicode_offset
  BY <1>1, <1>3, NormalizeStands
<1>6. NormalizePosition(t, r).pos = mark.pos
  BY <1>1, <1>3, <1>5
<1> QED BY <1>3, <1>4, <1>5, <1>6 DEF At, Stands

\* A stream is opened at its first symbol.
LEMMA OpenedStands ==
  ASSUME SpanAssumption, NEW t, Text(t)
  PROVE  Opened(t) \in At(t) /\ Opened(t).pos = 0 /\ Opened(t).unicode_offset = 0
<1>1. 0 \in Places(t) /\ (t = <<>> <=> Len(t) = 0) /\ Len(t) \in Nat
  BY PlacesBounded DEF Text
<1>2. 0 \in 0 .. OffsetSpan - 1
  BY DEF SpanAssumption
<1>3. Opened(t) \in Cursors
  BY <1>2 DEF Opened, Cursors, CursorFlags
<1> QED BY <1>1, <1>3 DEF Opened, At, Stands, Eof, Bof
================================================================================
