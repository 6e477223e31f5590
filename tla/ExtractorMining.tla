--------------------------- MODULE ExtractorMining ----------------------------
(***************************************************************************)
(* The thread pool of Extractor implements Mining: a call of next takes    *)
(* effect when it unlocks mutex_extractor, with the stream's position      *)
(* counted as moved only then.                                             *)
(***************************************************************************)
EXTENDS ExtractorInv

Readable == stream \in Texts \ Unreadable

InFlight(c) == cpc[c] = "collect"

Position ==
  IF ~Readable THEN 0
  ELSE IF \E c \in Clients : InFlight(c)
       THEN frame[CHOOSE c \in Clients : InFlight(c)].from
       ELSE spos[stream]

\* A stream that could not be read is none.
ReadText == IF Readable THEN stream ELSE NoText

Alive == \A c \in Clients : cpc[c] \notin {"terminate", "join", "gone"}

M == INSTANCE Mining WITH
       AllFlags  <- Flags,
       miners    <- SeqRange(miners),
       text      <- ReadText,
       at        <- Position,
       delivered <- SeqRange(received),
       alive     <- Alive

\* However the jobs interleave and whatever batches the caller asks for, each
\* call hands out exactly what one scan of the text by each miner alone finds
\* in the positions of the batch.
ImplementsMining == M!Spec

-----------------------------------------------------------------------------
(* How far each miner has come: the invariant behind the refinement *)

Filtering == "E_NO_ENCLOSED_OCCURRENCES" \in flags

\* Nobody turns the filter on or off while another caller is inside next: a step
\* that does so falls between two calls.
KeepsFilter == (Filtering' <=> Filtering) \/ \A c \in Clients : ~InNext(c)

FilterKept == [][KeepsFilter]_vars

\* That is so of one caller alone, and of callers that never turn it on.
SteadyFlags ==
  \/ \A c, d \in Clients : c = d
  \/ \A fs \in FlagArgs : "E_NO_ENCLOSED_OCCURRENCES" \notin fs

\* The marks x of a miner and the scan s know the same, up to hi: where the last
\* occurrence ended, and where the matcher may be run.
Agree(x, s, hi) ==
  /\ x.end_last = s.last
  /\ \A q \in s.at .. hi : MayRun(x, q) <=> s.on <= q

\* m's marks are those of one scan of the text that has come to p.
Scanned(m, p) ==
  /\ origin <= p
  /\ Agree(mstate[m], M!Scan(m, stream, origin)[p - origin], Size[stream])

\* The occurrences of m in c's array, and those that this scan has found in the
\* batch before p; less what ends no later than the last batch.
Written(c, m) == {o \in SeqRange(out[c]) : o.miner = m}

Wanted(c, m, p) ==
  {o \in M!HitsOf(m, stream, origin, frame[c].from, p) : ~Enclosed(o)}

Limit(c) == MinOf(frame[c].from + frame[c].batch, Size[stream])

\* m's part of the batch is done before p.
Served(c, m, p) == Scanned(m, p) /\ Written(c, m) = Wanted(c, m, p)

Hand(w) == {o \in {cur[w]} : wpc[w] \in {"lock", "store"} /\ ~Enclosed(o)}

InCall(c) ==
  /\ frame[c].batch \in Batches
  /\ origin <= frame[c].from
  /\ frame[c].from <= Size[stream]
  /\ spos[stream] = IF InFlight(c) THEN Limit(c) ELSE frame[c].from

\* A miner is queued, in work, done, or its turn is yet to come.
Queued(m) == \E j \in SeqRange(targs) : j.miner = m
InWork(m) == \E w \in Threads : Working(w) /\ job[w].miner = m

QueuedWell(j) ==
  /\ j.batch = frame[j.pout].batch
  /\ mstate[j.miner].pos = frame[j.pout].from
  /\ Served(j.pout, j.miner, frame[j.pout].from)

WorkedWell(w, c, m) ==
  LET p == MinOf(mstate[m].pos, Limit(c))
  IN /\ mstate[m].pos + job[w].batch = frame[c].from + frame[c].batch
     /\ frame[c].from <= mstate[m].pos
     /\ Scanned(m, p)
     /\ Written(c, m) \cup Hand(w) = Wanted(c, m, p)

DoneWell(c, m) ==
  ~Queued(m) /\ ~InWork(m) =>
    Served(c, m, IF m \in PushedMiners(c) THEN Limit(c) ELSE frame[c].from)

Ending ==
  \A c \in Clients : cpc[c] \in {"destroy", "terminate", "join", "gone"} =>
    stream = NoText /\ \A d \in Clients : d # c => cpc[d] = "idle"

\* No stream is moved past its end, and the one that is set is not moved back.
InTexts ==
  /\ \A t \in Texts : spos[t] <= Size[t]
  /\ Readable => origin <= spos[stream]

\* Between calls every miner's scan has come to where the stream stands; in a
\* call each has come to where its job is.
Progress ==
  /\ Attaching /\ Ending
  /\ InTexts
  /\ Readable /\ (\A c \in Clients : ~InNext(c)) =>
       \A m \in SeqRange(miners) : Scanned(m, spos[stream])
  /\ \A c \in Clients : InNext(c) =>
       InCall(c) /\ \A m \in SeqRange(miners) : DoneWell(c, m)
  /\ \A j \in SeqRange(targs) : QueuedWell(j)
  /\ \A w \in Threads : Working(w) => WorkedWell(w, job[w].pout, job[w].miner)
===============================================================================
