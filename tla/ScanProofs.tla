------------------------------ MODULE ScanProofs ------------------------------
(***************************************************************************)
(* What the loop of thread_fn does with a miner, whatever its matcher      *)
(* does: RunsOnce, OccurrencesSound and TurnsAdvance, for every text and   *)
(* every sequence of batches.                                              *)
(***************************************************************************)
EXTENDS Scan, CursorProofs

\* A mark, or a cursor, that counts the symbols before it
Marks(t, m) ==
  m.pos \in Places(t) /\ m.unicode_offset = SymbolsBefore(t, m.pos)

LastSymbol == SymbolsBefore(text, Len(text))
Bar == LaterOf(pos_last, end_last)

Covered(p) ==
  \E i \in DOMAIN ran : p = ran[i].at \/ (ran[i].at < p /\ p < ran[i].till)

Stretches == [at : Nat, till : Nat]
Occurrences == [pos : Nat, upos : Nat, len : Nat, ulen : Nat]

TypeInv ==
  /\ text \in Texts
  /\ stream \in At(text) /\ own \in At(text)
  /\ end_last \in Nat /\ pos_last \in Nat
  /\ batch \in Int
  /\ pc \in {"idle", "loop", "match"}
  /\ ran \in Seq(Stretches)
  /\ found \in Seq(Occurrences)

\* Every cursor and every mark counts.
CountsInv ==
  /\ Marks(text, stream) /\ Marks(text, own) /\ Marks(text, mark) /\ Marks(text, saved)
  /\ start # Unmarked => Marks(text, start) /\ end_last <= start.pos
  /\ end # Unmarked => Marks(text, end)

\* What is left of the batch is what is left to the stream.
Remains(from) ==
  LET left == SymbolsBefore(text, from.pos) + batch IN
  /\ SymbolsBefore(text, stream.pos) = Within(left, LastSymbol)
  /\ 0 <= left /\ 2 * left < OffsetSpan

BatchInv ==
  /\ pc = "loop" => Remains(own)
  /\ pc = "match" => Remains(mark) /\ batch > 0 /\ mark.pos < stream.pos

\* The runs come one after the other, and never beyond the stream.
RanInv ==
  /\ \A i, j \in DOMAIN ran : i < j => ran[i].at < ran[j].at
  /\ \A i \in DOMAIN ran : ran[i].at < stream.pos
  /\ pc = "loop" => \A i \in DOMAIN ran : ran[i].at < own.pos
  /\ pc = "match" => \A i \in DOMAIN ran : ran[i].at < mark.pos
  /\ ran = <<>> => Bar = 0
  /\ ran # <<>> => Bar = ran[Len(ran)].till

\* Nothing to the left of the miner is left out.
CoverInv ==
  /\ pc = "idle" => \A p \in SymbolStarts(text) : p < stream.pos => Covered(p)
  /\ pc = "loop" => \A p \in SymbolStarts(text) : p < own.pos => Covered(p)
  /\ pc = "match" => \A p \in SymbolStarts(text) : p < mark.pos => Covered(p)

FoundInv ==
  /\ OccurrencesSound
  /\ \A i \in DOMAIN found : found[i].pos + found[i].len <= end_last

IInv == TypeInv /\ CountsInv /\ BatchInv /\ RanInv /\ CoverInv /\ FoundInv

-----------------------------------------------------------------------------
(* places and movements *)

\* The texts of the model are complete and in memory.
LEMMA TextsAreTexts == \A t \in Texts : Text(t) /\ WellFormed(t)
BY ScanAssumption DEF ScanAssumption, Text, WellFormed

\* Of two places, the one with more symbols before it is to the right.
LEMMA FurtherRight ==
  ASSUME NEW t, Text(t), NEW p \in Places(t), NEW q \in Places(t)
  PROVE  /\ p \in Nat /\ q \in Nat
         /\ SymbolsBefore(t, p) \in Nat /\ SymbolsBefore(t, q) \in Nat
         /\ SymbolsBefore(t, p) < SymbolsBefore(t, q) <=> p < q
         /\ SymbolsBefore(t, p) = SymbolsBefore(t, q) <=> p = q
<1>1. p \in Nat /\ q \in Nat
  BY PlacesBounded
<1>2. SymbolsBefore(t, p) \in Nat /\ SymbolsBefore(t, q) \in Nat
  BY <1>1, SymbolsCounted
<1>3. p < q => SymbolsBefore(t, p) < SymbolsBefore(t, q)
  BY SymbolsMonotone
<1>4. q < p => SymbolsBefore(t, q) < SymbolsBefore(t, p)
  BY SymbolsMonotone
<1> QED BY <1>1, <1>2, <1>3, <1>4

\* A cursor that counts goes on counting, and _move returns the symbols passed.
LEMMA MoveMarks ==
  ASSUME NEW t, Text(t), WellFormed(t), NEW s \in At(t), Marks(t, s), NEW m \in Int
  PROVE  LET to == Move(t, s, m) IN
         /\ to \in At(t) /\ Marks(t, to)
         /\ SymbolOf(t, to) = Within(SymbolOf(t, s) + m, SymbolsBefore(t, Len(t)))
         /\ Distance(s, to) = SymbolOf(t, to) - SymbolOf(t, s)
<1> DEFINE to == Move(t, s, m)
<1>1. SpanAssumption
  BY SpanAssumption
<1>2. /\ to \in At(t)
      /\ SymbolOf(t, to) = Within(SymbolOf(t, s) + m, SymbolsBefore(t, Len(t)))
      /\ to.unicode_offset = (s.unicode_offset + Told(t, s, to)) % OffsetSpan
      /\ Distance(s, to) = Told(t, s, to)
  BY <1>1, MoveMoves
<1> HIDE DEF to
<1>3. Told(t, s, to) = SymbolOf(t, to) - SymbolOf(t, s)
  BY DEF Told
<1>4. /\ SymbolOf(t, s) \in Nat /\ SymbolOf(t, to) \in Nat
      /\ SymbolOf(t, to) <= SymbolsBefore(t, Len(t)) /\ SymbolsBefore(t, Len(t)) \in Nat
  BY <1>2, ToldBounded
<1>5. SymbolsBefore(t, Len(t)) <= Len(t) /\ Len(t) \in Nat
  <2>1. Len(t) \in Places(t) /\ Len(t) \in Nat
    BY PlacesBounded DEF Places
  <2> QED BY <2>1, SymbolsBounded
<1>6. SymbolOf(t, to) \in Int /\ 0 <= SymbolOf(t, to) /\ SymbolOf(t, to) < OffsetSpan
  BY <1>1, <1>4, <1>5 DEF Text, SpanAssumption
<1>7. s.unicode_offset + Told(t, s, to) = SymbolOf(t, to)
  BY <1>3, <1>4 DEF Marks, SymbolOf
<1>8. to.unicode_offset = SymbolOf(t, to)
  BY <1>1, <1>2, <1>6, <1>7, Wraps
<1>9. to.pos \in Places(t)
  BY <1>2 DEF At, Stands
<1> QED BY <1>2, <1>3, <1>8, <1>9 DEF Marks, SymbolOf, to

\* A small number is its own word.
LEMMA SignedSmall ==
  ASSUME NEW n \in Int, 2 * n < OffsetSpan, -OffsetSpan < 2 * n
  PROVE  Signed(n) = n
<1>1. SpanAssumption /\ OffsetSpan \in Nat /\ OffsetSpan > 0
  BY SpanAssumption DEF SpanAssumption
<1>2. n % OffsetSpan = IF n >= 0 THEN n ELSE n + OffsetSpan
  BY <1>1, Wraps
<1> QED BY <1>1, <1>2 DEF Signed

\* What the invariant says of the positions at hand
LEMMA Facts ==
  ASSUME IInv
  PROVE  /\ Text(text) /\ WellFormed(text) /\ Len(text) \in Nat /\ Len(text) \in Places(text)
         /\ LastSymbol \in Nat /\ 2 * LastSymbol < OffsetSpan
         /\ stream.pos \in Places(text) /\ own.pos \in Places(text)
         /\ mark.pos \in Places(text) /\ saved.pos \in Places(text)
<1>1. Text(text) /\ WellFormed(text)
  BY TextsAreTexts DEF IInv, TypeInv
<1>2. Len(text) \in Nat /\ Len(text) \in Places(text)
  BY <1>1, PlacesBounded DEF Places
<1>3. LastSymbol \in Nat /\ LastSymbol <= Len(text)
  BY <1>1, <1>2, SymbolsBounded DEF LastSymbol
<1>4. 2 * LastSymbol < OffsetSpan
  BY <1>1, <1>2, <1>3, SpanAssumption DEF Text, SpanAssumption
<1> QED BY <1>1, <1>2, <1>3, <1>4 DEF IInv, CountsInv, Marks

\* What is known of a place in the text
LEMMA PlaceFacts ==
  ASSUME IInv, NEW p \in Places(text)
  PROVE  /\ p \in Nat /\ p <= Len(text)
         /\ SymbolsBefore(text, p) \in Nat
         /\ SymbolsBefore(text, p) <= LastSymbol
         /\ SymbolsBefore(text, p) = LastSymbol <=> p = Len(text)
BY Facts, PlacesBounded, SymbolsBounded DEF LastSymbol

\* What is known of the histories
LEMMA HistoryFacts ==
  ASSUME TypeInv
  PROVE  /\ DOMAIN ran = 1 .. Len(ran) /\ Len(ran) \in Nat
         /\ \A i \in DOMAIN ran : ran[i].at \in Nat /\ ran[i].till \in Nat
         /\ DOMAIN found = 1 .. Len(found) /\ Len(found) \in Nat
         /\ \A i \in DOMAIN found : /\ found[i].pos \in Nat /\ found[i].upos \in Nat
                                   /\ found[i].len \in Nat /\ found[i].ulen \in Nat
<1>1. /\ ran \in Seq(Stretches)
      /\ found \in Seq(Occurrences)
  BY DEF TypeInv
<1>2. \A i \in DOMAIN ran : ran[i] \in Stretches
  BY <1>1
<1>3. \A i \in DOMAIN found : found[i] \in Occurrences
  BY <1>1
<1> QED BY SMTT(30), <1>1, <1>2, <1>3 DEF Stretches, Occurrences

\* Nothing has been moved or found when a stream is opened.
LEMMA InitInvariant == Init => IInv
<1> SUFFICES ASSUME Init PROVE IInv
  OBVIOUS
<1>1. Text(text) /\ SpanAssumption /\ text \in Texts
  BY TextsAreTexts, SpanAssumption DEF Init
<1>2. /\ stream \in At(text) /\ own = stream
      /\ stream.pos = 0 /\ stream.unicode_offset = 0 /\ 0 \in Places(text)
  BY <1>1, OpenedStands, PlacesBounded DEF Init
<1>3. SymbolsBefore(text, 0) = 0
  BY <1>1, <1>2, SymbolsBounded
<1>4. TypeInv
  BY <1>1, <1>2 DEF Init, TypeInv
<1>5. CountsInv
  BY <1>2, <1>3 DEF Init, CountsInv, Marks, MarkOf
<1>6. BatchInv
  BY DEF Init, BatchInv
<1>7. RanInv
  BY DEF Init, RanInv, Bar, LaterOf
<1>8. CoverInv
  BY <1>1, <1>2, PlacesBounded DEF Init, CoverInv
<1>9. FoundInv
  BY DEF Init, FoundInv, OccurrencesSound
<1> QED BY <1>4, <1>5, <1>6, <1>7, <1>8, <1>9 DEF IInv

-----------------------------------------------------------------------------
(* the loop of thread_fn *)

\* A batch begins where the last one ended.
LEMMA StartInvariant ==
  ASSUME IInv, NEW b \in Batches, Start(b)
  PROVE  IInv'
<1>1. b \in Nat /\ b > 0 /\ 2 * (Len(text) + b) < OffsetSpan
  BY ScanAssumption DEF ScanAssumption, IInv, TypeInv
<1> DEFINE to == Move(text, stream, b)
<1>2. /\ Text(text) /\ WellFormed(text) /\ LastSymbol \in Nat /\ LastSymbol <= Len(text)
      /\ stream \in At(text) /\ stream.pos \in Places(text) /\ Marks(text, stream)
      /\ Len(text) \in Nat
  <2>1. LastSymbol <= Len(text)
    BY Facts, SymbolsBounded DEF LastSymbol
  <2> QED BY <2>1, Facts DEF IInv, TypeInv, CountsInv
<1>3. /\ to \in At(text) /\ Marks(text, to)
      /\ SymbolOf(text, to) = Within(SymbolOf(text, stream) + b, LastSymbol)
  BY <1>1, <1>2, MoveMarks DEF LastSymbol
<1> HIDE DEF to
<1>4. /\ text' = text /\ stream' = to /\ own' = stream /\ batch' = b /\ pc' = "loop"
      /\ mark' = mark /\ saved' = saved /\ start' = start /\ end' = end
      /\ end_last' = end_last /\ pos_last' = pos_last /\ ran' = ran /\ found' = found
      /\ pc = "idle"
  BY DEF Start, to, minerVars, histVars
<1>5. SymbolsBefore(text, stream.pos) \in Nat /\ SymbolsBefore(text, stream.pos) <= LastSymbol
  BY <1>2, PlaceFacts
<1>6. stream.pos <= to.pos /\ stream.pos \in Nat /\ to.pos \in Nat
  <2>1. to.pos \in Places(text)
    BY <1>3 DEF Marks
  <2>2. SymbolsBefore(text, to.pos) >= SymbolsBefore(text, stream.pos)
    BY <1>1, <1>2, <1>3, <1>5 DEF SymbolOf, Within
  <2> QED BY <1>2, <1>5, <2>1, <2>2, FurtherRight
<1>7. TypeInv'
  BY <1>1, <1>2, <1>3, <1>4 DEF IInv, TypeInv
<1>8. CountsInv'
  BY <1>2, <1>3, <1>4 DEF IInv, CountsInv
<1>9. BatchInv'
  <2>1. /\ SymbolsBefore(text, to.pos) = Within(SymbolsBefore(text, stream.pos) + b, LastSymbol)
        /\ 0 <= SymbolsBefore(text, stream.pos) + b
        /\ 2 * (SymbolsBefore(text, stream.pos) + b) < OffsetSpan
    BY <1>1, <1>2, <1>3, <1>5, SpanAssumption DEF SymbolOf, SpanAssumption
  <2> QED BY <1>4, <2>1 DEF BatchInv, Remains, LastSymbol
<1>10. RanInv'
  <2>1. \A i \in DOMAIN ran : ran[i].at \in Nat
    BY HistoryFacts DEF IInv
  <2>2. \A i \in DOMAIN ran : ran[i].at < to.pos /\ ran[i].at < stream.pos
    BY <1>6, <2>1 DEF IInv, RanInv
  <2> QED BY <1>4, <2>2 DEF IInv, RanInv, Bar
<1>11. CoverInv'
  BY <1>4 DEF IInv, CoverInv, Covered
<1>12. FoundInv'
  BY <1>4 DEF IInv, FoundInv, OccurrencesSound
<1> QED BY <1>7, <1>8, <1>9, <1>10, <1>11, <1>12 DEF IInv

\* A position that is left out lies within the last run.
LEMMA SkipInvariant ==
  ASSUME IInv, Skip
  PROVE  IInv' /\ own'.pos > own.pos
<1> DEFINE to == Move(text, own, 1)
<1>1. /\ Text(text) /\ WellFormed(text) /\ LastSymbol \in Nat /\ own \in At(text)
      /\ own.pos \in Places(text) /\ Marks(text, own) /\ Len(text) \in Nat
  BY Facts DEF IInv, TypeInv, CountsInv
<1>2. /\ to \in At(text) /\ Marks(text, to)
      /\ SymbolOf(text, to) = Within(SymbolOf(text, own) + 1, LastSymbol)
      /\ Distance(own, to) = SymbolOf(text, to) - SymbolOf(text, own)
  BY <1>1, MoveMarks DEF LastSymbol
<1>3. own.pos # Len(text) /\ own.pos < Bar /\ pc = "loop" /\ batch > 0
  <2>1. own.pos # Len(text)
    BY <1>1 DEF Skip, Scanning, At, Stands
  <2>2. Bar \in Nat
    BY DEF IInv, TypeInv, Bar, LaterOf
  <2>3. own.pos \in Nat
    BY <1>1, PlacesBounded
  <2> QED BY <2>1, <2>2, <2>3 DEF Skip, Scanning, MayRun, Bar
<1>4. SymbolsBefore(text, own.pos) \in Nat /\ SymbolsBefore(text, own.pos) < LastSymbol
  <2>1. /\ own.pos \in Nat /\ SymbolsBefore(text, own.pos) \in Nat
        /\ SymbolsBefore(text, own.pos) <= LastSymbol
        /\ SymbolsBefore(text, own.pos) = LastSymbol <=> own.pos = Len(text)
    BY <1>1, PlaceFacts
  <2> QED BY <1>1, <1>3, <2>1
<1>5. SymbolOf(text, to) = SymbolOf(text, own) + 1 /\ SymbolOf(text, own) \in Nat
  BY <1>1, <1>2, <1>4 DEF Within, SymbolOf
<1>6. Distance(own, to) = 1
  BY <1>2, <1>5
<1>7. to.pos \in Places(text) /\ own.pos < to.pos /\ own.pos \in Nat /\ to.pos \in Nat
  <2>1. to.pos \in Places(text)
    BY <1>2 DEF Marks
  <2> QED BY <1>1, <1>5, <2>1, FurtherRight DEF SymbolOf
<1>8. \A p \in Places(text) : p < to.pos => p <= own.pos
  <2> SUFFICES ASSUME NEW p \in Places(text), p < to.pos PROVE p <= own.pos
    OBVIOUS
  <2>1. SymbolsBefore(text, p) < SymbolsBefore(text, own.pos) + 1
        /\ SymbolsBefore(text, p) \in Nat
    BY <1>1, <1>5, <1>7, FurtherRight DEF SymbolOf
  <2>2. ~ (SymbolsBefore(text, own.pos) < SymbolsBefore(text, p))
    BY <2>1, <1>4
  <2> QED BY <1>1, <1>7, <2>2, FurtherRight
<1> HIDE DEF to
<1>9. /\ text' = text /\ stream' = stream /\ own' = to /\ batch' = batch - 1 /\ pc' = pc
      /\ mark' = mark /\ saved' = saved /\ start' = start /\ end' = end
      /\ end_last' = end_last /\ pos_last' = pos_last /\ ran' = ran /\ found' = found
  BY <1>6 DEF Skip, to, histVars
<1>10. TypeInv'
  BY <1>2, <1>9 DEF IInv, TypeInv
<1>11. CountsInv'
  BY <1>2, <1>9 DEF IInv, CountsInv
<1>12. BatchInv'
  <2>1. SymbolsBefore(text, to.pos) + (batch - 1) = SymbolsBefore(text, own.pos) + batch
    BY <1>4, <1>5 DEF SymbolOf, IInv, TypeInv
  <2>2. Remains(own)
    BY <1>3 DEF IInv, BatchInv
  <2> QED BY <1>3, <1>9, <2>1, <2>2 DEF BatchInv, Remains, LastSymbol
<1>13. \A i \in DOMAIN ran : ran[i].at \in Nat /\ ran[i].at < own.pos
  BY <1>3, HistoryFacts DEF IInv, RanInv
<1>14. RanInv'
  <2>1. \A i \in DOMAIN ran : ran[i].at < to.pos
    BY <1>7, <1>13
  <2> QED BY <1>3, <1>9, <2>1 DEF IInv, RanInv, Bar
<1>15. CoverInv'
  <2>1. Covered(own.pos)
    <3>1. ran # <<>> /\ Bar = ran[Len(ran)].till
      BY <1>3, <1>7 DEF IInv, RanInv
    <3>2. Len(ran) \in DOMAIN ran
      BY <3>1 DEF IInv, TypeInv
    <3> QED BY <1>3, <1>13, <3>1, <3>2 DEF Covered
  <2>2. \A p \in SymbolStarts(text) : p < to.pos => Covered(p)
    <3> SUFFICES ASSUME NEW p \in SymbolStarts(text), p < to.pos PROVE Covered(p)
      OBVIOUS
    <3>1. p \in Nat /\ p <= own.pos
      BY <1>1, <1>8, PlacesBounded DEF Places
    <3>2. CASE p = own.pos
      BY <2>1, <3>2
    <3>3. CASE p # own.pos
      BY <1>3, <1>7, <3>1, <3>3 DEF IInv, CoverInv
    <3> QED BY <3>2, <3>3
  <2> QED BY <1>3, <1>9, <2>2 DEF CoverInv, Covered
<1>16. FoundInv'
  BY <1>9 DEF IInv, FoundInv, OccurrencesSound
<1> QED BY <1>7, <1>9, <1>10, <1>11, <1>12, <1>14, <1>15, <1>16 DEF IInv

\* The matcher is run at a symbol of the batch that no run has reached.
LEMMA RunInvariant ==
  ASSUME IInv, Run
  PROVE  IInv'
<1>1. /\ text' = text /\ stream' = stream /\ own' = own /\ batch' = batch /\ pc' = "match"
      /\ mark' = MarkOf(own) /\ saved' = MarkOf(own) /\ start' = start /\ end' = end
      /\ end_last' = end_last /\ pos_last' = pos_last /\ ran' = ran /\ found' = found
      /\ pc = "loop" /\ batch > 0 /\ ~Eof(own)
  BY DEF Run, Scanning, minerVars, histVars
<1>2. MarkOf(own).pos = own.pos /\ MarkOf(own).unicode_offset = own.unicode_offset
  BY DEF MarkOf
<1>3. own.pos < stream.pos
  <2>1. own.pos # Len(text)
    BY <1>1 DEF IInv, TypeInv, At, Stands
  <2>2. /\ own.pos \in Places(text) /\ stream.pos \in Places(text) /\ Text(text)
        /\ LastSymbol \in Nat
    BY Facts
  <2>3. /\ SymbolsBefore(text, own.pos) \in Nat
        /\ SymbolsBefore(text, own.pos) <= LastSymbol
        /\ SymbolsBefore(text, own.pos) # LastSymbol
    BY <2>1, <2>2, PlaceFacts
  <2>4. SymbolsBefore(text, stream.pos)
          = Within(SymbolsBefore(text, own.pos) + batch, LastSymbol)
    BY <1>1 DEF IInv, BatchInv, Remains
  <2>5. SymbolsBefore(text, own.pos) < SymbolsBefore(text, stream.pos)
    BY <1>1, <2>2, <2>3, <2>4 DEF Within, IInv, TypeInv
  <2> QED BY <2>2, <2>5, FurtherRight
<1>4. TypeInv'
  BY <1>1 DEF IInv, TypeInv
<1>5. CountsInv'
  BY <1>1, <1>2 DEF IInv, CountsInv, Marks
<1>6. BatchInv'
  BY <1>1, <1>2, <1>3 DEF IInv, BatchInv, Remains, LastSymbol
<1>7. RanInv'
  BY <1>1, <1>2 DEF IInv, RanInv, Bar
<1>8. CoverInv'
  BY <1>1, <1>2 DEF IInv, CoverInv, Covered
<1>9. FoundInv'
  BY <1>1 DEF IInv, FoundInv, OccurrencesSound
<1> QED BY <1>4, <1>5, <1>6, <1>7, <1>8, <1>9 DEF IInv

\* The loop ends where the batch does, or further.
LEMMA LeaveInvariant ==
  ASSUME IInv, Leave
  PROVE  IInv'
<1>1. /\ text' = text /\ stream' = stream /\ own' = own /\ batch' = batch /\ pc' = "idle"
      /\ mark' = mark /\ saved' = saved /\ start' = start /\ end' = end
      /\ end_last' = end_last /\ pos_last' = pos_last /\ ran' = ran /\ found' = found
      /\ pc = "loop" /\ (Eof(own) \/ ~ (batch > 0))
  BY DEF Leave, Scanning, minerVars, histVars
<1>2. stream.pos <= own.pos
  <2>1. /\ own.pos \in Places(text) /\ stream.pos \in Places(text) /\ Text(text)
        /\ LastSymbol \in Nat
    BY Facts
  <2>2. stream.pos \in Nat /\ own.pos \in Nat /\ stream.pos <= Len(text)
        /\ SymbolsBefore(text, own.pos) \in Nat /\ SymbolsBefore(text, own.pos) <= LastSymbol
    BY <2>1, PlaceFacts
  <2>3. CASE Eof(own)
    BY <2>2, <2>3 DEF IInv, TypeInv, At, Stands
  <2>4. CASE ~ (batch > 0)
    <3>1. SymbolsBefore(text, stream.pos)
            = Within(SymbolsBefore(text, own.pos) + batch, LastSymbol)
      BY <1>1 DEF IInv, BatchInv, Remains
    <3>2. ~ (SymbolsBefore(text, own.pos) < SymbolsBefore(text, stream.pos))
      BY <2>1, <2>2, <2>4, <3>1 DEF Within, IInv, TypeInv
    <3> QED BY <2>1, <2>2, <3>2, FurtherRight
  <2> QED BY <1>1, <2>3, <2>4
<1>3. TypeInv'
  BY <1>1 DEF IInv, TypeInv
<1>4. CountsInv'
  BY <1>1 DEF IInv, CountsInv
<1>5. BatchInv'
  BY <1>1 DEF BatchInv
<1>6. RanInv'
  BY <1>1 DEF IInv, RanInv, Bar
<1>7. CoverInv'
  <2>1. \A p \in SymbolStarts(text) : p < stream.pos => p < own.pos
    <3>1. \A p \in SymbolStarts(text) : p \in Nat
      BY Facts, PlacesBounded
    <3>2. stream.pos \in Nat /\ own.pos \in Nat
      BY Facts, PlaceFacts
    <3> QED BY <1>2, <3>1, <3>2
  <2> QED BY <1>1, <2>1 DEF IInv, CoverInv, Covered
<1>8. FoundInv'
  BY <1>1 DEF IInv, FoundInv, OccurrencesSound
<1> QED BY <1>3, <1>4, <1>5, <1>6, <1>7, <1>8 DEF IInv

-----------------------------------------------------------------------------
(* the matcher *)

\* Whatever a matcher calls changes its own cursor and its marks only.
LEMMA MatcherInvariant ==
  ASSUME IInv, pc = "match",
         UNCHANGED <<text, stream, end_last, pos_last, mark, batch, pc, ran, found>>,
         own' \in At(text), Marks(text, own'), Marks(text, saved'),
         start' # Unmarked => Marks(text, start') /\ end_last <= start'.pos,
         end' # Unmarked => Marks(text, end')
  PROVE  IInv'
<1>1. TypeInv'
  BY DEF IInv, TypeInv
<1>2. CountsInv'
  BY DEF IInv, CountsInv
<1>3. BatchInv'
  BY DEF IInv, BatchInv, Remains, LastSymbol
<1>4. RanInv'
  BY DEF IInv, RanInv, Bar
<1>5. CoverInv'
  BY DEF IInv, CoverInv, Covered
<1>6. FoundInv'
  BY DEF IInv, FoundInv, OccurrencesSound
<1> QED BY <1>1, <1>2, <1>3, <1>4, <1>5, <1>6 DEF IInv

\* Its calls: moves, marks and resets.
LEMMA CallInvariant ==
  ASSUME IInv,
         (\E m \in Int : MoveTo(m)) \/ MarkStart \/ MarkEnd \/ MarkPos \/ ResetPos
  PROVE  IInv'
<1>1. own \in At(text) /\ CountsInv /\ Marks(text, own) /\ Marks(text, saved)
      /\ own.pos \in Nat /\ end_last \in Nat
  BY Facts, PlaceFacts DEF IInv, TypeInv, CountsInv
<1>2. Marks(text, MarkOf(own)) /\ MarkOf(own).pos = own.pos
  BY <1>1 DEF Marks, MarkOf
<1>3. ASSUME NEW m \in Int, MoveTo(m) PROVE IInv'
  <2>1. Move(text, own, m) \in At(text) /\ Marks(text, Move(text, own, m))
    BY <1>1, Facts, MoveMarks
  <2> QED BY <1>1, <1>3, <2>1, MatcherInvariant DEF MoveTo, Matching, histVars, CountsInv
<1>4. CASE MarkStart
  BY <1>1, <1>2, <1>4, MatcherInvariant DEF MarkStart, Matching, MayMark, histVars, CountsInv
<1>5. CASE MarkEnd
  BY <1>1, <1>2, <1>5, MatcherInvariant DEF MarkEnd, Matching, MayMark, histVars, CountsInv
<1>6. CASE MarkPos
  BY <1>1, <1>2, <1>6, MatcherInvariant DEF MarkPos, Matching, minerVars, histVars, CountsInv
<1>7. CASE ResetPos
  <2>1. pc = "match" /\ text # <<>>
    <3>1. pc = "match"
      BY <1>7 DEF ResetPos, Matching
    <3>2. mark.pos < stream.pos
      BY <3>1 DEF IInv, BatchInv
    <3>3. mark.pos \in Nat /\ stream.pos \in Nat /\ stream.pos <= Len(text) /\ Len(text) \in Nat
      BY Facts, PlaceFacts
    <3>4. Len(text) # 0
      BY <3>2, <3>3
    <3> QED BY <3>1, <3>4
  <2>2. saved.pos \in Places(text) /\ saved.unicode_offset \in 0 .. OffsetSpan - 1
    <3>1. /\ saved.pos \in Places(text) /\ saved.unicode_offset = SymbolsBefore(text, saved.pos)
          /\ SymbolsBefore(text, saved.pos) \in Nat /\ SymbolsBefore(text, saved.pos) <= LastSymbol
      BY <1>1, PlaceFacts DEF Marks
    <3> QED BY <3>1, Facts, SpanAssumption DEF SpanAssumption
  <2>3. /\ ResetTo(text, own, saved) \in At(text)
        /\ Marks(text, ResetTo(text, own, saved))
    BY <1>1, <2>1, <2>2, Facts, ResetStands DEF Marks
  <2> QED BY <1>1, <1>7, <2>1, <2>3, MatcherInvariant DEF ResetPos, histVars, CountsInv
<1> QED BY <1>3, <1>4, <1>5, <1>6, <1>7

-----------------------------------------------------------------------------
(* the end of a run *)

\* Wherever the matcher stopped, the cursor is put beyond the mark, every
\* symbol between them belongs to the run, and the batch pays for all of them.
LEMMA ReturnMoves ==
  ASSUME IInv, pc = "match", Returned
  PROVE  /\ own' \in At(text) /\ Marks(text, own') /\ mark.pos < own'.pos
         /\ batch' \in Int
         /\ SymbolsBefore(text, own'.pos) + batch' = SymbolsBefore(text, mark.pos) + batch
         /\ \A p \in SymbolStarts(text) : p < own'.pos => p <= mark.pos \/ p < pos_last'
<1> DEFINE N == LastSymbol  S(m) == SymbolsBefore(text, m.pos)
           ahead == own.unicode_offset > mark.unicode_offset
           back  == IF ahead THEN Move(text, own, -1) ELSE ResetTo(text, own, mark)
           to    == Move(text, back, 1)
           spent == IF ahead THEN Spent ELSE 0
<1>1. /\ Text(text) /\ WellFormed(text) /\ own \in At(text) /\ Marks(text, own)
      /\ own.pos \in Places(text) /\ mark.pos \in Places(text) /\ stream.pos \in Places(text)
      /\ Marks(text, mark) /\ N \in Nat /\ 2 * N < OffsetSpan /\ Len(text) \in Nat
      /\ mark.pos < stream.pos /\ batch \in Int
  BY Facts DEF IInv, TypeInv, CountsInv, BatchInv
<1>2. /\ S(own) \in Nat /\ S(mark) \in Nat /\ S(own) <= N /\ S(mark) <= N
      /\ own.pos \in Nat /\ mark.pos \in Nat /\ stream.pos \in Nat /\ stream.pos <= Len(text)
      /\ S(mark) = N <=> mark.pos = Len(text)
  BY <1>1, PlaceFacts
<1>3. S(mark) < N
  BY <1>1, <1>2
<1>4. ahead <=> S(own) > S(mark)
  BY <1>1 DEF Marks
<1>5. /\ back \in At(text) /\ Marks(text, back)
      /\ S(back) = IF ahead THEN S(own) - 1 ELSE S(mark)
  <2>1. CASE ahead
    <3>1. /\ Move(text, own, -1) \in At(text) /\ Marks(text, Move(text, own, -1))
          /\ SymbolOf(text, Move(text, own, -1)) = Within(SymbolOf(text, own) + -1, N)
      BY <1>1, MoveMarks DEF LastSymbol
    <3>2. Within(S(own) + -1, N) = S(own) - 1
      <4>1. S(own) \in Nat /\ S(own) > 0 /\ S(own) <= N /\ N \in Nat
        BY <1>1, <1>2, <1>4, <2>1
      <4> HIDE DEF S, N
      <4> QED BY <4>1 DEF Within
    <3> QED BY <2>1, <3>1, <3>2 DEF SymbolOf
  <2>2. CASE ~ahead
    <3>1. text # <<>>
      BY <1>1, <1>2
    <3>2. mark.unicode_offset \in 0 .. OffsetSpan - 1
      BY <1>1, <1>2, SpanAssumption DEF Marks, SpanAssumption
    <3>3. /\ ResetTo(text, own, mark) \in At(text)
          /\ ResetTo(text, own, mark).pos = mark.pos
          /\ ResetTo(text, own, mark).unicode_offset = mark.unicode_offset
      BY <1>1, <3>1, <3>2, ResetStands
    <3> QED BY <1>1, <2>2, <3>3 DEF Marks
  <2> QED BY <2>1, <2>2
<1>6. own' = to /\ batch' = Signed(batch - spent - Distance(back, to))
      /\ pos_last' = LaterOf(BytePos(end), own.pos)
  BY DEF Returned
<1> HIDE DEF back, to
<1>7. /\ to \in At(text) /\ Marks(text, to)
      /\ SymbolOf(text, to) = Within(SymbolOf(text, back) + 1, N)
      /\ Distance(back, to) = SymbolOf(text, to) - SymbolOf(text, back)
  BY <1>1, <1>5, MoveMarks DEF to, LastSymbol
<1>8. S(to) = IF ahead THEN S(own) ELSE S(mark) + 1
  <2>1. S(to) = Within(S(back) + 1, N)
    BY <1>7 DEF SymbolOf
  <2> HIDE DEF S, N
  <2> QED BY <1>1, <1>2, <1>3, <1>4, <1>5, <2>1 DEF Within
<1>9. Distance(back, to) = 1
  BY <1>2, <1>5, <1>7, <1>8 DEF SymbolOf
<1>10. S(to) \in Nat /\ S(to) <= N /\ to.pos \in Places(text) /\ to.pos \in Nat
  <2>1. to.pos \in Places(text)
    BY <1>7 DEF Marks
  <2> QED BY <2>1, PlaceFacts
<1>11. mark.pos < to.pos
  <2>1. S(mark) < S(to)
    BY <1>2, <1>4, <1>8
  <2> QED BY <1>1, <1>10, <2>1, FurtherRight
<1>12. batch' = (S(mark) + batch) - S(to)
  <2>1. batch - spent - Distance(back, to) = (S(mark) + batch) - S(to)
    <3>1. spent = IF ahead THEN S(own) - S(mark) - 1 ELSE 0
      BY <1>1 DEF Spent, Marks
    <3> HIDE DEF spent, S
    <3> QED BY <1>1, <1>2, <1>8, <1>9, <3>1
  <2>2. 0 <= S(mark) + batch /\ 2 * (S(mark) + batch) < OffsetSpan
    BY DEF IInv, BatchInv, Remains
  <2> DEFINE a == S(mark) + batch  c == S(to)  e == a - c
  <2>3. e \in Int /\ 2 * e < OffsetSpan /\ -OffsetSpan < 2 * e
    <3>1. OffsetSpan \in Nat
      BY SpanAssumption DEF SpanAssumption
    <3>2. a \in Int /\ 0 <= a /\ 2 * a < OffsetSpan
      BY <1>1, <1>2, <2>2
    <3>3. c \in Nat /\ 2 * c < OffsetSpan
      BY <1>1, <1>10, <3>1
    <3> HIDE DEF a, c
    <3>4. a - c \in Int /\ 2 * (a - c) < OffsetSpan /\ -OffsetSpan < 2 * (a - c)
      BY <3>1, <3>2, <3>3
    <3> QED BY <3>4
  <2>4. Signed(e) = e
    BY <2>3, SignedSmall
  <2>5. batch' = Signed(e)
    BY <1>6, <2>1, Zenon
  <2> QED BY <2>4, <2>5, Zenon
<1>13. \A p \in SymbolStarts(text) : p < to.pos => p <= mark.pos \/ p < LaterOf(BytePos(end), own.pos)
  <2> SUFFICES ASSUME NEW p \in SymbolStarts(text), p < to.pos
               PROVE  p <= mark.pos \/ p < LaterOf(BytePos(end), own.pos)
    OBVIOUS
  <2>1. p \in Places(text) /\ p \in Nat
    BY <1>1, PlacesBounded DEF Places
  <2>2. SymbolsBefore(text, p) < S(to) /\ SymbolsBefore(text, p) \in Nat
    BY <1>1, <1>10, <2>1, FurtherRight
  <2>3. CASE ahead
    <3>1. p < own.pos
      BY <1>1, <1>8, <2>1, <2>2, <2>3, FurtherRight
    <3>2. own.pos <= LaterOf(BytePos(end), own.pos) /\ LaterOf(BytePos(end), own.pos) \in Nat
      <4>1. BytePos(end) \in Nat
        <5>1. CASE end = Unmarked
          BY <5>1 DEF BytePos
        <5>2. CASE end # Unmarked
          <6>1. end.pos \in Places(text)
            BY <5>2 DEF IInv, CountsInv, Marks
          <6> QED BY <5>2, <6>1, PlaceFacts DEF BytePos
        <5> QED BY <5>1, <5>2
      <4> QED BY <1>2, <4>1 DEF LaterOf
    <3> QED BY <1>2, <2>1, <3>1, <3>2
  <2>4. CASE ~ahead
    <3>1. ~ (S(mark) < SymbolsBefore(text, p))
      BY <1>2, <1>8, <2>2, <2>4
    <3> QED BY <1>1, <1>2, <2>1, <3>1, FurtherRight
  <2> QED BY <2>3, <2>4
<1>14. S(to) + ((S(mark) + batch) - S(to)) = S(mark) + batch /\ (S(mark) + batch) - S(to) \in Int
  <2> HIDE DEF S
  <2> QED BY <1>1, <1>2, <1>10
<1> QED BY <1>6, <1>7, <1>11, <1>12, <1>13, <1>14

\* A run is added to the history, and the loop goes on beyond it.
LEMMA ReturnInvariant ==
  ASSUME IInv, pc = "match", Returned, FoundInv', found' \in Seq(Occurrences), end_last' \in Nat
  PROVE  IInv' /\ own'.pos > mark.pos
<1> DEFINE new == [at |-> mark.pos, till |-> LaterOf(pos_last', end_last')]
<1>1. /\ own' \in At(text) /\ Marks(text, own') /\ mark.pos < own'.pos
      /\ batch' \in Int
      /\ SymbolsBefore(text, own'.pos) + batch' = SymbolsBefore(text, mark.pos) + batch
      /\ \A p \in SymbolStarts(text) : p < own'.pos => p <= mark.pos \/ p < pos_last'
  BY ReturnMoves
<1>2. /\ text' = text /\ stream' = stream /\ mark' = mark /\ saved' = saved
      /\ start' = Unmarked /\ end' = Unmarked /\ pc' = "loop"
      /\ ran' = Append(ran, new) /\ pos_last' = LaterOf(BytePos(end), own.pos)
  BY DEF Returned
<1>3. mark.pos \in Nat /\ own.pos \in Nat /\ mark.pos < stream.pos
  BY Facts, PlaceFacts DEF IInv, BatchInv
<1>4. own'.pos \in Nat
  <2>1. own'.pos \in Places(text)
    BY <1>1 DEF Marks
  <2> QED BY <2>1, PlaceFacts
<1>5. pos_last' \in Nat
  <2>1. CASE end = Unmarked
    BY <1>2, <1>3, <2>1 DEF BytePos, LaterOf
  <2>2. CASE end # Unmarked
    <3>1. end.pos \in Places(text)
      BY <2>2 DEF IInv, CountsInv, Marks
    <3>2. end.pos \in Nat
      BY <3>1, PlaceFacts
    <3> QED BY <1>2, <1>3, <2>2, <3>2 DEF BytePos, LaterOf
  <2> QED BY <2>1, <2>2
<1>6. new \in Stretches /\ new.at = mark.pos /\ new.till = LaterOf(pos_last', end_last')
      /\ pos_last' <= new.till
  BY <1>3, <1>5 DEF Stretches, LaterOf
<1> HIDE DEF new
<1>7. ran \in Seq(Stretches)
  BY DEF IInv, TypeInv
<1>8. /\ ran' \in Seq(Stretches) /\ Len(ran') = Len(ran) + 1 /\ ran' # <<>>
      /\ DOMAIN ran' = 1 .. Len(ran) + 1 /\ DOMAIN ran = 1 .. Len(ran) /\ Len(ran) \in Nat
      /\ ran'[Len(ran) + 1] = new
      /\ \A i \in DOMAIN ran : i \in DOMAIN ran' /\ ran'[i] = ran[i]
      /\ \A i \in DOMAIN ran' : i \in DOMAIN ran \/ i = Len(ran) + 1
  BY <1>2, <1>6, <1>7
<1>9. \A i \in DOMAIN ran : ran[i].at \in Nat /\ ran[i].at < mark.pos
  BY HistoryFacts DEF IInv, RanInv
<1>10. TypeInv'
  BY <1>1, <1>2, <1>5, <1>8 DEF IInv, TypeInv
<1>11. CountsInv'
  BY <1>1, <1>2 DEF IInv, CountsInv
<1>12. BatchInv'
  <2>1. Remains(mark)
    BY DEF IInv, BatchInv
  <2> QED BY <1>1, <1>2, <2>1 DEF BatchInv, Remains, LastSymbol
<1>13. RanInv'
  <2>1. \A i, j \in DOMAIN ran' : i < j => ran'[i].at < ran'[j].at
    <3> SUFFICES ASSUME NEW i \in DOMAIN ran', NEW j \in DOMAIN ran', i < j
                 PROVE  ran'[i].at < ran'[j].at
      OBVIOUS
    <3>1. i \in DOMAIN ran
      BY <1>8
    <3>2. CASE j \in DOMAIN ran
      BY <1>8, <3>1, <3>2 DEF IInv, RanInv
    <3>3. CASE j = Len(ran) + 1
      BY <1>6, <1>8, <1>9, <3>1, <3>3
    <3> QED BY <1>8, <3>2, <3>3
  <2>2. \A i \in DOMAIN ran' : ran'[i].at < own'.pos /\ ran'[i].at < stream.pos
    <3> SUFFICES ASSUME NEW i \in DOMAIN ran'
                 PROVE  ran'[i].at < own'.pos /\ ran'[i].at < stream.pos
      OBVIOUS
    <3>1. ran'[i].at \in Nat /\ ran'[i].at <= mark.pos
      <4>1. CASE i \in DOMAIN ran
        BY <1>3, <1>8, <1>9, <4>1
      <4>2. CASE i = Len(ran) + 1
        BY <1>3, <1>6, <1>8, <4>2
      <4> QED BY <1>8, <4>1, <4>2
    <3>2. stream.pos \in Nat
      BY Facts, PlaceFacts
    <3> QED BY <1>1, <1>3, <1>4, <3>1, <3>2
  <2>3. Bar' = ran'[Len(ran')].till
    BY <1>6, <1>8 DEF Bar
  <2> QED BY <1>2, <1>8, <2>1, <2>2, <2>3 DEF RanInv
<1>14. CoverInv'
  <2> SUFFICES ASSUME NEW p \in SymbolStarts(text), p < own'.pos PROVE Covered(p)'
    BY <1>2 DEF CoverInv
  <2>1. p \in Nat
    BY Facts, PlacesBounded
  <2>2. CASE p < mark.pos
    <3>1. PICK i \in DOMAIN ran : p = ran[i].at \/ (ran[i].at < p /\ p < ran[i].till)
      BY <2>2 DEF IInv, CoverInv, Covered
    <3> QED BY <1>8, <3>1 DEF Covered
  <2>3. CASE p = mark.pos
    BY <1>6, <1>8, <2>3 DEF Covered
  <2>4. CASE p > mark.pos
    <3>1. p < pos_last'
      BY <1>1, <1>3, <2>1, <2>4
    <3>2. new.till \in Nat
      BY <1>6 DEF Stretches
    <3>3. p < new.till
      BY <1>5, <1>6, <2>1, <3>1, <3>2
    <3> QED BY <1>6, <1>8, <2>4, <3>3 DEF Covered
  <2> QED BY <1>3, <2>1, <2>2, <2>3, <2>4
<1> QED BY <1>1, <1>3, <1>4, <1>10, <1>11, <1>12, <1>13, <1>14 DEF IInv

\* An occurrence begins where the last one ended, or later.
LEMMA OccurrenceInvariant ==
  ASSUME IInv, ReturnOccurrence
  PROVE  IInv' /\ own'.pos > mark.pos
<1> DEFINE new == [pos |-> start.pos, upos |-> start.unicode_offset, len |-> end.pos - start.pos,
                   ulen |-> end.unicode_offset - start.unicode_offset]
<1>1. /\ pc = "match" /\ Returned /\ start # Unmarked /\ end # Unmarked
      /\ start.pos <= end.pos /\ end_last' = end.pos /\ found' = Append(found, new)
      /\ text' = text
  BY DEF ReturnOccurrence, MayMake, Returned
<1>2. /\ start.pos \in Places(text) /\ start.unicode_offset = SymbolsBefore(text, start.pos)
      /\ end.pos \in Places(text) /\ end.unicode_offset = SymbolsBefore(text, end.pos)
      /\ end_last <= start.pos /\ end_last \in Nat
  BY <1>1 DEF IInv, CountsInv, Marks, TypeInv
<1>3. /\ start.pos \in Nat /\ end.pos \in Nat /\ end.pos <= Len(text)
      /\ SymbolsBefore(text, start.pos) \in Nat /\ SymbolsBefore(text, end.pos) \in Nat
      /\ SymbolsBefore(text, start.pos) <= SymbolsBefore(text, end.pos)
  <2>1. SymbolsBefore(text, end.pos) < SymbolsBefore(text, start.pos) <=> end.pos < start.pos
    BY <1>2, Facts, FurtherRight
  <2>2. /\ start.pos \in Nat /\ end.pos \in Nat /\ end.pos <= Len(text)
        /\ SymbolsBefore(text, start.pos) \in Nat /\ SymbolsBefore(text, end.pos) \in Nat
    BY <1>2, PlaceFacts
  <2> QED BY <1>1, <2>1, <2>2
<1>4. /\ new \in Occurrences /\ new.pos = start.pos /\ new.pos + new.len = end.pos
      /\ new.upos = SymbolsBefore(text, start.pos)
      /\ new.upos + new.ulen = SymbolsBefore(text, end.pos)
  BY <1>1, <1>2, <1>3 DEF Occurrences
<1> HIDE DEF new
<1>5. found \in Seq(Occurrences)
  BY DEF IInv, TypeInv
<1>6. /\ found' \in Seq(Occurrences)
      /\ DOMAIN found' = 1 .. Len(found) + 1 /\ DOMAIN found = 1 .. Len(found) /\ Len(found) \in Nat
      /\ found'[Len(found) + 1] = new
      /\ \A i \in DOMAIN found : found'[i] = found[i]
      /\ \A i \in DOMAIN found' : i \in DOMAIN found \/ i = Len(found) + 1
  BY <1>1, <1>4, <1>5
<1>7. \A i \in DOMAIN found :
        /\ found[i].pos \in Nat /\ found[i].len \in Nat
        /\ found[i].pos + found[i].len <= end_last
  BY HistoryFacts DEF IInv, FoundInv
<1>8. \A i, j \in DOMAIN found' : i < j => found'[i].pos + found'[i].len <= found'[j].pos
  <2> SUFFICES ASSUME NEW i \in DOMAIN found', NEW j \in DOMAIN found', i < j
               PROVE  found'[i].pos + found'[i].len <= found'[j].pos
    OBVIOUS
  <2>1. i \in DOMAIN found
    BY <1>6
  <2>2. CASE j \in DOMAIN found
    BY <1>6, <2>1, <2>2 DEF IInv, FoundInv, OccurrencesSound
  <2>3. CASE j = Len(found) + 1
    BY SMTT(30), <1>2, <1>3, <1>4, <1>6, <1>7, <2>1, <2>3
  <2> QED BY <1>6, <2>2, <2>3
<1>9. \A i \in DOMAIN found' :
        LET o == found'[i] IN
          /\ o.pos + o.len <= Len(text)
          /\ {o.pos, o.pos + o.len} \subseteq SymbolStarts(text) \cup {Len(text)}
          /\ o.upos = SymbolsBefore(text, o.pos)
          /\ o.upos + o.ulen = SymbolsBefore(text, o.pos + o.len)
  <2> SUFFICES ASSUME NEW i \in DOMAIN found'
               PROVE  LET o == found'[i] IN
                        /\ o.pos + o.len <= Len(text)
                        /\ {o.pos, o.pos + o.len} \subseteq SymbolStarts(text) \cup {Len(text)}
                        /\ o.upos = SymbolsBefore(text, o.pos)
                        /\ o.upos + o.ulen = SymbolsBefore(text, o.pos + o.len)
    OBVIOUS
  <2>1. CASE i \in DOMAIN found
    BY <1>6, <2>1 DEF IInv, FoundInv, OccurrencesSound
  <2>2. CASE i = Len(found) + 1
    <3>1. found'[i] = new
      BY <1>6, <2>2
    <3>2. start.pos \in SymbolStarts(text) \cup {Len(text)}
          /\ end.pos \in SymbolStarts(text) \cup {Len(text)}
      BY <1>2 DEF Places
    <3> QED BY <1>3, <1>4, <3>1, <3>2
  <2> QED BY <1>6, <2>1, <2>2
<1>10. \A i \in DOMAIN found' : found'[i].pos + found'[i].len <= end_last'
  <2> SUFFICES ASSUME NEW i \in DOMAIN found'
               PROVE  found'[i].pos + found'[i].len <= end.pos
    BY <1>1
  <2>1. CASE i \in DOMAIN found
    BY <1>1, <1>2, <1>3, <1>6, <1>7, <2>1
  <2>2. CASE i = Len(found) + 1
    BY <1>3, <1>4, <1>6, <2>2
  <2> QED BY <1>6, <2>1, <2>2
<1>11. FoundInv'
  BY <1>1, <1>8, <1>9, <1>10 DEF FoundInv, OccurrencesSound
<1> QED BY <1>1, <1>3, <1>6, <1>11, ReturnInvariant

\* Every step keeps the invariant.
LEMMA StepInvariant == IInv /\ [Next]_vars => IInv'
<1> SUFFICES ASSUME IInv, [Next]_vars PROVE IInv'
  OBVIOUS
<1>1. ASSUME NEW b \in Batches, Start(b) PROVE IInv'
  BY <1>1, StartInvariant
<1>2. CASE Skip
  BY <1>2, SkipInvariant
<1>3. CASE Run
  BY <1>3, RunInvariant
<1>4. CASE Leave
  BY <1>4, LeaveInvariant
<1>5. CASE MoveTo(1) \/ MoveTo(-1) \/ MarkStart \/ MarkEnd \/ MarkPos \/ ResetPos
  <2>1. 1 \in Int /\ -1 \in Int
    OBVIOUS
  <2> QED BY <1>5, <2>1, CallInvariant
<1>6. CASE ReturnOccurrence
  BY <1>6, OccurrenceInvariant
<1>7. CASE ReturnNull
  <2>1. pc = "match" /\ Returned /\ end_last' = end_last /\ found' = found /\ text' = text
    BY <1>7 DEF ReturnNull, Returned
  <2>2. FoundInv'
    BY <2>1 DEF IInv, FoundInv, OccurrencesSound
  <2> QED BY <2>1, <2>2, ReturnInvariant DEF IInv, TypeInv
<1>8. CASE UNCHANGED vars
  <2>1. /\ text' = text /\ stream' = stream /\ own' = own /\ batch' = batch /\ pc' = pc
        /\ mark' = mark /\ saved' = saved /\ start' = start /\ end' = end
        /\ end_last' = end_last /\ pos_last' = pos_last /\ ran' = ran /\ found' = found
    BY <1>8 DEF vars, minerVars, histVars
  <2>2. TypeInv' /\ CountsInv'
    BY <2>1 DEF IInv, TypeInv, CountsInv
  <2>3. BatchInv' /\ RanInv'
    BY <2>1 DEF IInv, BatchInv, Remains, LastSymbol, RanInv, Bar
  <2>4. CoverInv' /\ FoundInv'
    BY <2>1 DEF IInv, CoverInv, Covered, FoundInv, OccurrencesSound
  <2> QED BY <2>2, <2>3, <2>4 DEF IInv
<1> QED BY <1>1, <1>2, <1>3, <1>4, <1>5, <1>6, <1>7, <1>8 DEF Next

\* The loop of thread_fn runs the matcher of a miner at a position at most
\* once, from left to right, and leaves out no symbol of a batch.
THEOREM MatcherRunsOnce == Spec => []RunsOnce
<1>1. IInv => RunsOnce
  BY DEF IInv, RanInv, CoverInv, Covered, RunsOnce
<1> QED BY InitInvariant, StepInvariant, <1>1, PTL DEF Spec

\* What make_occurrence returns to thread_fn is sound: no two occurrences of a
\* miner overlap, and their bytes and their symbols agree.
THEOREM MatchesSound == Spec => []OccurrencesSound
<1>1. IInv => OccurrencesSound
  BY DEF IInv, FoundInv
<1> QED BY InitInvariant, StepInvariant, <1>1, PTL DEF Spec

\* Every turn of the loop of thread_fn moves the miner forward.
THEOREM LoopAdvances == Spec => TurnsAdvance
<1>1. IInv /\ [Next]_vars =>
        [/\ Skip => own'.pos > own.pos
         /\ ReturnOccurrence \/ ReturnNull => own'.pos > mark.pos]_vars
  <2> SUFFICES ASSUME IInv
               PROVE  /\ Skip => own'.pos > own.pos
                      /\ ReturnOccurrence \/ ReturnNull => own'.pos > mark.pos
    OBVIOUS
  <2>1. ASSUME ReturnOccurrence \/ ReturnNull PROVE own'.pos > mark.pos
    <3>1. pc = "match" /\ Returned
      BY <2>1 DEF ReturnOccurrence, ReturnNull
    <3>2. mark.pos < own'.pos
      BY <3>1, ReturnMoves
    <3> QED BY <3>2
  <2>2. ASSUME Skip PROVE own'.pos > own.pos
    BY <2>2, SkipInvariant
  <2> QED BY <2>1, <2>2, Zenon
<1> QED BY InitInvariant, StepInvariant, <1>1, PTL DEF Spec, TurnsAdvance
================================================================================
