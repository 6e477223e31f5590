----------------------------- MODULE StreamProofs -----------------------------
(***************************************************************************)
(* What module Stream promises of every text and every sequence of moves,  *)
(* syncs, marks and resets: TellsPlace, and that it implements Characters. *)
(***************************************************************************)
EXTENDS Stream, CursorProofs

\* The offset counts the symbols, if every symbol is complete.
Counts(t, s) == WellFormed(t) => s.unicode_offset = SymbolsBefore(t, s.pos)

IInv ==
  /\ content \in Contents
  /\ cursor \in At(content) /\ copy \in At(content) /\ kept \in At(content)
  /\ Counts(content, cursor) /\ Counts(content, copy) /\ Counts(content, kept)

\* Every text of the model fits in memory.
LEMMA TextsAreTexts == \A t \in Contents : Text(t)
BY StreamAssumption DEF StreamAssumption, Text

\* Wherever it is moved to, the offset goes on counting.
LEMMA MoveCounts ==
  ASSUME NEW t, Text(t), NEW s \in At(t), Counts(t, s), NEW m \in Int
  PROVE  Counts(t, Move(t, s, m))
<1> DEFINE to == Move(t, s, m)
<1>1. SpanAssumption
  BY SpanAssumption
<1>2. to \in At(t) /\ to.unicode_offset = (s.unicode_offset + Told(t, s, to)) % OffsetSpan
  BY <1>1, MoveMoves
<1> HIDE DEF to
<1>3. ASSUME WellFormed(t) PROVE to.unicode_offset = SymbolsBefore(t, to.pos)
  <2>1. /\ SymbolOf(t, s) \in Nat /\ SymbolOf(t, to) \in Nat
        /\ SymbolOf(t, to) <= SymbolsBefore(t, Len(t)) /\ SymbolsBefore(t, Len(t)) \in Nat
    BY <1>2, ToldBounded
  <2>2. SymbolsBefore(t, Len(t)) <= Len(t) /\ Len(t) \in Nat
    <3>1. Len(t) \in Places(t) /\ Len(t) \in Nat
      BY PlacesBounded DEF Places
    <3> QED BY <3>1, SymbolsBounded
  <2>3. SymbolOf(t, to) < OffsetSpan /\ OffsetSpan \in Nat
    BY <2>1, <2>2, <1>1 DEF Text, SpanAssumption
  <2>4. Told(t, s, to) = SymbolOf(t, to) - SymbolOf(t, s)
    BY <1>3 DEF Told
  <2>5. s.unicode_offset = SymbolOf(t, s)
    BY <1>3 DEF Counts, SymbolOf
  <2>6. s.unicode_offset + Told(t, s, to) = SymbolOf(t, to)
    BY <2>1, <2>4, <2>5
  <2>7. SymbolOf(t, to) % OffsetSpan = SymbolOf(t, to)
    <3>1. SymbolOf(t, to) \in Int /\ 0 <= SymbolOf(t, to)
      BY <2>1
    <3> QED BY <1>1, <2>3, <3>1, Wraps
  <2> QED BY <1>2, <2>6, <2>7 DEF SymbolOf
<1> QED BY <1>3 DEF Counts, to

\* The invariant holds of the opened stream.
LEMMA InitInvariant == StreamInit => IInv
<1> SUFFICES ASSUME StreamInit PROVE IInv
  OBVIOUS
<1>1. Text(content) /\ SpanAssumption
  BY TextsAreTexts, SpanAssumption DEF StreamInit
<1>2. Opened(content) \in At(content) /\ Opened(content).pos = 0 /\ Opened(content).unicode_offset = 0
  BY <1>1, OpenedStands
<1>3. SymbolsBefore(content, 0) = 0
  BY <1>1, PlacesBounded, SymbolsBounded
<1>4. Counts(content, Opened(content))
  BY <1>2, <1>3 DEF Counts
<1> QED BY <1>2, <1>4 DEF StreamInit, IInv

\* Every step keeps it.
LEMMA StepInvariant == IInv /\ [StreamNext]_streamVars => IInv'
<1> SUFFICES ASSUME IInv, [StreamNext]_streamVars PROVE IInv'
  OBVIOUS
<1>1. Text(content) /\ SpanAssumption
  BY TextsAreTexts, SpanAssumption DEF IInv
<1>2. ASSUME NEW m \in Moves, MoveStream(m) PROVE IInv'
  <2>1. m \in Int
    BY StreamAssumption DEF StreamAssumption
  <2>2. Move(content, cursor, m) \in At(content) /\ Counts(content, Move(content, cursor, m))
    BY <1>1, <2>1, MoveMoves, MoveCounts DEF IInv
  <2> QED BY <1>2, <2>2 DEF IInv, MoveStream
<1>3. ASSUME NEW m \in Moves, MoveCopy(m) PROVE IInv'
  <2>1. m \in Int
    BY StreamAssumption DEF StreamAssumption
  <2>2. Move(content, copy, m) \in At(content) /\ Counts(content, Move(content, copy, m))
    BY <1>1, <2>1, MoveMoves, MoveCounts DEF IInv
  <2> QED BY <1>3, <2>2 DEF IInv, MoveCopy
<1>4. CASE Sync
  BY <1>4 DEF IInv, Sync
<1>5. CASE MarkCopy
  BY <1>5 DEF IInv, MarkCopy
<1>6. CASE ResetCopy
  <2>1. kept.pos \in Places(content) /\ kept.unicode_offset \in 0 .. OffsetSpan - 1
    BY DEF IInv, At, Stands, Cursors
  <2>2. /\ copy' \in At(content) /\ copy'.pos = kept.pos
        /\ copy'.unicode_offset = kept.unicode_offset
    BY <1>1, <1>6, <2>1, ResetStands DEF IInv, ResetCopy
  <2>3. Counts(content, copy')
    BY <2>2 DEF IInv, Counts
  <2> QED BY <1>6, <2>2, <2>3 DEF IInv, ResetCopy
<1>7. CASE UNCHANGED streamVars
  BY <1>7 DEF IInv, streamVars
<1> QED BY <1>2, <1>3, <1>4, <1>5, <1>6, <1>7 DEF StreamNext

\* A cursor is where its flags and its offset say, after any sequence of moves,
\* syncs, marks and resets of stream.c and miner.c.
THEOREM CursorsTellPlace == StreamSpec => []TellsPlace
<1>1. IInv => TellsPlace
  BY DEF IInv, TellsPlace, At, Stands, Counts
<1> QED BY InitInvariant, StepInvariant, <1>1, PTL DEF StreamSpec

-----------------------------------------------------------------------------
(* the refinement *)

\* A movement of a cursor is one of the head over the symbols, and returns what
\* the head reports.
LEMMA MoveImplements ==
  ASSUME NEW t \in Contents, NEW s \in At(t), NEW m \in Int
  PROVE  LET to == Move(t, s, m)
             n == [u \in Contents |-> SymbolsBefore(u, Len(u))][t]
             from == SymbolsBefore(t, s.pos)
             at == SymbolsBefore(t, to.pos)
         IN /\ at = C!Clamp(from + m, n)
            /\ Distance(s, to) = IF t \in {u \in Contents : ~WellFormed(u)} /\ from < at /\ at = n
                                 THEN at - from - 1 ELSE at - from
<1>1. Text(t) /\ SpanAssumption
  BY TextsAreTexts, SpanAssumption
<1>2. [u \in Contents |-> SymbolsBefore(u, Len(u))][t] = SymbolsBefore(t, Len(t))
  OBVIOUS
<1>3. t \in {u \in Contents : ~WellFormed(u)} <=> ~WellFormed(t)
  OBVIOUS
<1> QED BY <1>1, <1>2, <1>3, MoveMoves DEF C!Clamp, Within, Told, SymbolOf

\* stream_c and the copy of it in a miner implement the heads of Characters:
\* they move by whole symbols and say how far they came.
THEOREM StreamImplementsCharacters == StreamSpec => MovesBySymbols
<1>1. StreamInit => C!Init
  <2> SUFFICES ASSUME StreamInit PROVE C!Init
    OBVIOUS
  <2>1. Text(content) /\ SpanAssumption
    BY TextsAreTexts, SpanAssumption DEF StreamInit
  <2>2. cursor.pos = 0 /\ copy.pos = 0 /\ kept.pos = 0
    BY <2>1, OpenedStands DEF StreamInit
  <2>3. SymbolsBefore(content, 0) = 0
    BY <2>1, PlacesBounded, SymbolsBounded
  <2> QED BY <2>2, <2>3 DEF StreamInit, C!Init
<1>2. IInv /\ [StreamNext]_streamVars =>
        [C!Next]_<<content, SymbolsBefore(content, cursor.pos), SymbolsBefore(content, copy.pos),
                   SymbolsBefore(content, kept.pos), moved>>
  <2> SUFFICES ASSUME IInv, [StreamNext]_streamVars
               PROVE  [C!Next]_<<content, SymbolsBefore(content, cursor.pos),
                                 SymbolsBefore(content, copy.pos),
                                 SymbolsBefore(content, kept.pos), moved>>
    OBVIOUS
  <2>1. content \in Contents /\ Moves \subseteq Int
    BY StreamAssumption DEF IInv, StreamAssumption
  <2>2. ASSUME NEW m \in Moves, MoveStream(m) PROVE C!Next
    <3>1. C!Move(m)
      BY <2>1, <2>2, MoveImplements DEF IInv, MoveStream, C!Move, C!Told
    <3> QED BY <3>1 DEF C!Next
  <2>3. ASSUME NEW m \in Moves, MoveCopy(m) PROVE C!Next
    <3>1. C!MinerMove(m)
      BY <2>1, <2>3, MoveImplements DEF IInv, MoveCopy, C!MinerMove, C!Told
    <3> QED BY <3>1 DEF C!Next
  <2>4. CASE Sync
    <3>1. C!PutAtHead
      BY <2>4 DEF Sync, C!PutAtHead
    <3> QED BY <3>1 DEF C!Next
  <2>5. CASE MarkCopy
    <3>1. C!Remember
      BY <2>5 DEF MarkCopy, C!Remember
    <3> QED BY <3>1 DEF C!Next
  <2>6. CASE ResetCopy
    <3>1. kept.pos \in Places(content) /\ kept.unicode_offset \in 0 .. OffsetSpan - 1
      BY DEF IInv, At, Stands, Cursors
    <3>2. copy'.pos = kept.pos
      BY <2>1, <2>6, <3>1, TextsAreTexts, ResetStands DEF IInv, ResetCopy
    <3>3. C!GoBack
      BY <2>6, <3>2 DEF ResetCopy, C!GoBack
    <3> QED BY <3>3 DEF C!Next
  <2>7. CASE UNCHANGED streamVars
    BY <2>7 DEF streamVars
  <2> QED BY <2>2, <2>3, <2>4, <2>5, <2>6, <2>7 DEF StreamNext
<1> QED BY InitInvariant, StepInvariant, <1>1, <1>2, PTL DEF StreamSpec, MovesBySymbols, C!Spec
================================================================================
