--------------------------------- MODULE Scan ---------------------------------
(***************************************************************************)
(* One miner over one stream: the loop of thread_fn around a matcher that  *)
(* may do with its miner whatever the functions of miner_c allow, in any   *)
(* order, before it returns NULL or the result of make_occurrence.  The    *)
(* match_* functions are tests and moves, and match_fn_times and           *)
(* match_string come back with reset_pos: all of them are sequences of the *)
(* steps below.  A matcher that makes an occurrence, frees it and puts     *)
(* end_last back, as the glob * does, is one that made none there.         *)
(*                                                                         *)
(* Module Extractor runs many of these loops against each other and takes  *)
(* the outcome of a matcher as given; here nothing is assumed about it.    *)
(***************************************************************************)
EXTENDS Cursor

CONSTANTS
  Texts,        \* the texts a stream is opened on
  Batches,      \* the batch arguments of next
  AllowEmpty,   \* allow_empty of the miner
  MaxSteps,     \* bound: calls a matcher makes in one run
  Unmarked      \* a NULL start or end

\* No text is cut inside a symbol: after the end of one that is, offsets drift,
\* as module Stream shows.  Texts are in memory and batch is an unsigned int, far
\* below the span of offsets.
ASSUME ScanAssumption ==
  /\ Texts \subseteq Seq(Byte)
  /\ \A t \in Texts : WellFormed(t)
  /\ Batches \subseteq Nat \ {0}
  /\ \A t \in Texts : \A b \in Batches : 2 * (Len(t) + b) < OffsetSpan
  /\ \A t \in Texts : 2 * Len(t) < OffsetSpan
  /\ AllowEmpty \in BOOLEAN
  /\ MaxSteps \in Nat

VARIABLES
  text,
  stream,       \* the extractor's cursor
  own,          \* miner->stream
  start, end,   \* marks: a position and its unicode offset
  end_last, pos_last,
  mark,         \* where thread_fn ran the matcher
  saved,        \* where the matcher called mark_pos
  batch,        \* what is left of the job's batch
  pc, steps,
  ran,          \* history: where the matcher was run, and how far that covers
  found         \* history: the occurrences, in order

minerVars == <<own, start, end, end_last, pos_last>>
histVars  == <<ran, found>>
vars == <<text, stream, minerVars, mark, saved, batch, pc, steps, histVars>>

BytePos(m) == IF m = Unmarked THEN 0 ELSE m.pos
LaterOf(a, b) == IF a > b THEN a ELSE b
MarkOf(s) == [pos |-> s.pos, unicode_offset |-> s.unicode_offset]

Init ==
  /\ text \in Texts
  /\ stream = Opened(text) /\ own = stream
  /\ start = Unmarked /\ end = Unmarked
  /\ end_last = 0 /\ pos_last = 0
  /\ mark = MarkOf(stream) /\ saved = mark
  /\ batch = 0
  /\ pc = "idle" /\ steps = 0
  /\ ran = <<>> /\ found = <<>>

-----------------------------------------------------------------------------
(* next, for this miner *)

Start(b) ==
  /\ pc = "idle" /\ ~Eof(stream)
  /\ own' = stream
  /\ batch' = b
  /\ stream' = Move(text, stream, b)
  /\ pc' = "loop"
  /\ UNCHANGED <<text, start, end, end_last, pos_last, mark, saved, steps, histVars>>

(* the loop of thread_fn *)

Scanning == pc = "loop" /\ ~Eof(own) /\ batch > 0

MayRun == own.pos >= LaterOf(pos_last, end_last)

\* [faulty] The move is counted but not made.
SkipStays ==
  /\ Scanning /\ ~MayRun
  /\ batch' = batch - 1
  /\ UNCHANGED <<text, stream, minerVars, mark, saved, pc, steps, histVars>>

Skip ==
  /\ Scanning /\ ~MayRun
  /\ own' = Move(text, own, 1)
  /\ batch' = batch - Distance(own, own')
  /\ UNCHANGED <<text, stream, start, end, end_last, pos_last, mark, saved, pc, steps,
                 histVars>>

Run ==
  /\ Scanning /\ MayRun
  /\ mark' = MarkOf(own) /\ saved' = MarkOf(own)
  /\ pc' = "match" /\ steps' = 0
  /\ UNCHANGED <<text, stream, minerVars, batch, histVars>>

Leave ==
  /\ pc = "loop" /\ ~Scanning
  /\ pc' = "idle"
  /\ UNCHANGED <<text, stream, minerVars, mark, saved, batch, steps, histVars>>

-----------------------------------------------------------------------------
(* what a matcher may do *)

Matching ==
  /\ pc = "match" /\ steps < MaxSteps
  /\ steps' = steps + 1

MayMark == own.pos >= end_last

\* miner_c_move, after can_move
MoveTo(m) ==
  /\ Matching
  /\ IF m > 0 THEN ~Eof(own) ELSE ~Bof(own)
  /\ own' = Move(text, own, m)
  /\ UNCHANGED <<text, stream, start, end, end_last, pos_last, mark, saved, batch, pc,
                 histVars>>

MarkStart ==
  /\ Matching /\ MayMark
  /\ start' = MarkOf(own)
  /\ UNCHANGED <<text, stream, own, end, end_last, pos_last, mark, saved, batch, pc,
                 histVars>>

MarkEnd ==
  /\ Matching /\ MayMark
  /\ end' = MarkOf(own)
  /\ UNCHANGED <<text, stream, own, start, end_last, pos_last, mark, saved, batch, pc,
                 histVars>>

MarkPos ==
  /\ Matching
  /\ saved' = MarkOf(own)
  /\ UNCHANGED <<text, stream, minerVars, mark, batch, pc, histVars>>

ResetPos ==
  /\ Matching
  /\ own' = ResetTo(text, own, saved)
  /\ UNCHANGED <<text, stream, start, end, end_last, pos_last, mark, saved, batch, pc,
                 histVars>>

-----------------------------------------------------------------------------
(* The matcher returns: what is left of run, and where thread_fn puts the   *)
(* cursor afterwards.                                                       *)

\* What a run takes from the batch besides the move that follows it
Spent == own.unicode_offset - mark.unicode_offset - 1

\* [faulty] A run that consumed nothing leaves the cursor where it was.
ReturnedToMark ==
  /\ pos_last' = LaterOf(BytePos(end), own.pos)
  /\ start' = Unmarked /\ end' = Unmarked
  /\ own' = ResetTo(text, own, mark)
  /\ batch' = Signed(batch - 1)
  /\ ran' = Append(ran, [at |-> mark.pos, till |-> LaterOf(pos_last', end_last')])
  /\ pc' = "loop"
  /\ UNCHANGED <<text, stream, mark, saved, steps>>

Returned ==
  /\ pos_last' = LaterOf(BytePos(end), own.pos)
  /\ start' = Unmarked /\ end' = Unmarked
  /\ LET ahead == own.unicode_offset > mark.unicode_offset
         back  == IF ahead THEN Move(text, own, -1) ELSE ResetTo(text, own, mark)
         spent == IF ahead THEN Spent ELSE 0
     IN /\ own' = Move(text, back, 1)
        /\ batch' = Signed(batch - spent - Distance(back, own'))
  /\ ran' = Append(ran, [at |-> mark.pos, till |-> LaterOf(pos_last', end_last')])
  /\ pc' = "loop"
  /\ UNCHANGED <<text, stream, mark, saved, steps>>

MayMake ==
  /\ start # Unmarked /\ end # Unmarked
  /\ ~AllowEmpty => start.pos # end.pos
  /\ start.pos <= end.pos

\* make_occurrence, and its result returned
ReturnOccurrence ==
  /\ pc = "match" /\ MayMake
  /\ end_last' = end.pos
  /\ found' = Append(found,
       [pos |-> start.pos, upos |-> start.unicode_offset, len |-> end.pos - start.pos,
        ulen |-> end.unicode_offset - start.unicode_offset])
  /\ Returned

ReturnNull ==
  /\ pc = "match"
  /\ UNCHANGED <<end_last, found>>
  /\ Returned

-----------------------------------------------------------------------------
Next ==
  \/ \E b \in Batches : Start(b)
  \/ Skip \/ Run \/ Leave
  \/ MoveTo(1) \/ MoveTo(-1) \/ MarkStart \/ MarkEnd \/ MarkPos \/ ResetPos
  \/ ReturnOccurrence \/ ReturnNull
  \/ pc = "idle" /\ Eof(stream) /\ UNCHANGED vars

Spec == Init /\ [][Next]_vars

-----------------------------------------------------------------------------
\* However a matcher wanders, and although every batch puts the miner back
\* where the stream is, the matcher is run at a position at most once, from
\* left to right, and when the job is done no symbol of the batch was left
\* out: the matcher was run at it, or a run before it reached past it.
RunsOnce ==
  /\ \A i, j \in DOMAIN ran : i < j => ran[i].at < ran[j].at
  /\ pc = "idle" =>
       \A p \in SymbolStarts(text) : p < stream.pos =>
         \E i \in DOMAIN ran : p = ran[i].at \/ (ran[i].at < p /\ p < ran[i].till)

\* The occurrences of one miner follow each other without overlapping, and
\* pos, len, upos and ulen of each describe the same symbols.
OccurrencesSound ==
  /\ \A i, j \in DOMAIN found : i < j => found[i].pos + found[i].len <= found[j].pos
  /\ \A i \in DOMAIN found :
       LET o == found[i] IN
         /\ o.pos + o.len <= Len(text)
         /\ {o.pos, o.pos + o.len} \subseteq SymbolStarts(text) \cup {Len(text)}
         /\ o.upos = SymbolsBefore(text, o.pos)
         /\ o.upos + o.ulen = SymbolsBefore(text, o.pos + o.len)

\* Every turn of the loop of thread_fn leaves the miner further than it was
\* when the turn began, wherever the matcher stopped: the loop ends.
TurnsAdvance ==
  [][/\ Skip => own'.pos > own.pos
     /\ ReturnOccurrence \/ ReturnNull => own'.pos > mark.pos]_vars
===============================================================================
