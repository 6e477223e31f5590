-------------------------------- MODULE Stream --------------------------------
(***************************************************************************)
(* stream_c and the copy of it that a miner moves.  The program moves the  *)
(* stream; the miner's copy is synced to it, moved, marked and reset, in   *)
(* any order.                                                              *)
(***************************************************************************)
EXTENDS Cursor

CONSTANTS
  Contents,   \* the texts a stream is opened on
  Moves       \* the distances it is moved by

ASSUME StreamAssumption ==
  /\ Contents \subseteq Seq(Byte)
  /\ \A t \in Contents : CutShort(t) /\ 2 * Len(t) < OffsetSpan
  /\ Moves \subseteq Int

VARIABLES
  content,
  cursor,      \* the cursor that next moves
  copy,        \* miner->stream
  kept,        \* a mark_t that mark_pos filled
  moved        \* what the last movement returned

streamVars == <<content, cursor, copy, kept, moved>>

StreamInit ==
  /\ content \in Contents
  /\ cursor = Opened(content)
  /\ copy = cursor /\ kept = cursor
  /\ moved = 0

\* stream_c_move
MoveStream(m) ==
  /\ cursor' = Move(content, cursor, m)
  /\ moved' = Distance(cursor, cursor')
  /\ UNCHANGED <<content, copy, kept>>

\* miner_c_move does the same by one symbol.
MoveCopy(m) ==
  /\ copy' = Move(content, copy, m)
  /\ moved' = Distance(copy, copy')
  /\ UNCHANGED <<content, cursor, kept>>

\* stream_c_sync, miner_c_set_stream
Sync ==
  /\ copy' = cursor
  /\ UNCHANGED <<content, cursor, kept, moved>>

MarkCopy ==
  /\ kept' = copy
  /\ UNCHANGED <<content, cursor, copy, moved>>

\* Only a matcher and thread_fn after it reset, and no matcher is run over no
\* bytes.
ResetCopy ==
  /\ content # <<>>
  /\ copy' = ResetTo(content, copy, kept)
  /\ UNCHANGED <<content, cursor, kept, moved>>

StreamNext ==
  \/ \E m \in Moves : MoveStream(m) \/ MoveCopy(m)
  \/ Sync \/ MarkCopy \/ ResetCopy

StreamSpec == StreamInit /\ [][StreamNext]_streamVars

-----------------------------------------------------------------------------
\* Whatever the sequence of moves, syncs, marks and resets, a cursor stands
\* where a symbol starts or at the end, and the flags are those of the
\* position: movements and can_move trust them instead of comparing pointers,
\* after a reset as well.  Unless the text was cut inside a symbol,
\* unicode_offset is the number of symbols before the cursor: the upos of an
\* occurrence agrees with its pos.
TellsPlace ==
  \A s \in {cursor, copy, kept} :
    /\ s.pos \in Places(content)
    /\ Eof(s) <=> s.pos = Len(content)
    /\ Bof(s) <=> s.pos = 0
    /\ WellFormed(content) => s.unicode_offset = SymbolsBefore(content, s.pos)

\* The stream moves by whole symbols, as far as it is asked or to the end of
\* the text, and says how far it came: what next and thread_fn count on.  On a
\* text that was cut inside a symbol it says one less when it reaches the end.
C == INSTANCE Characters WITH
  Symbols <- [t \in Contents |-> SymbolsBefore(t, Len(t))],
  Cut <- {t \in Contents : ~WellFormed(t)},
  of <- content,
  head <- SymbolsBefore(content, cursor.pos),
  miner <- SymbolsBefore(content, copy.pos),
  mark <- SymbolsBefore(content, kept.pos)

MovesBySymbols == C!Spec
===============================================================================
