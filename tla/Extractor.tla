------------------------------ MODULE Extractor ------------------------------
(***************************************************************************)
(* extractor_c: a pool of threads that run miners over a stream.           *)
(*                                                                         *)
(* A call of next(batch) pushes one job per miner on the stack targs,      *)
(* posts the semaphore sem_targs once per job, and waits on sem_main once  *)
(* per job.  A thread takes a token of sem_targs, pops a job, scans the    *)
(* next batch positions with the miner's own copy of the stream, writes    *)
(* what it finds through the caller's pointer pout, and posts sem_main.    *)
(*                                                                         *)
(* Positions count characters and every character is one byte here; module *)
(* Stream has the multi-byte cursor.  What a miner's matcher does at a     *)
(* position is the constant Matcher; module Scan has the miner's marks     *)
(* under an arbitrary matcher.                                             *)
(*                                                                         *)
(* An operator marked [faulty] is no part of the specification: it is the  *)
(* operator after it with a bug that some property has to catch.           *)
(***************************************************************************)
EXTENDS Integers, Sequences, FiniteSets

CONSTANTS
  Clients,      \* threads that call the extractor
  Threads,      \* extractor->threads
  Miners,       \* the miners a program may add
  Given,        \* the miner lists it may pass to extractor_c_new
  Texts,        \* stream objects
  Unreadable,   \* those whose state_flags has STREAM_FAILED
  Size,         \* Size[t]: characters of t
  Matcher,      \* Matcher[m][t][p]: what m's matcher does when run at p
  Batches,      \* the batch arguments a program passes to next
  FlagArgs,     \* the flag sets a program passes to set_flags, unset_flags
  MaxCalls,     \* bound: calls of set_stream and next
  UintSpan,     \* 2^32: unsigned arithmetic is modulo this
  Nobody,       \* no thread holds the mutex
  NoText,       \* a NULL stream
  NoJob, NoOccurrence

Flags == {"E_SORT_RESULTS", "E_NO_ENCLOSED_OCCURRENCES"}

Job == [miner : Miners, batch : Int, pout : Clients]

Occurrence == [miner : Miners, start : Nat, end : Nat]

ASSUME ConstantsAssumption ==
  /\ Unreadable \subseteq Texts
  /\ NoText \notin Texts
  /\ Nobody \notin Clients \cup Threads
  /\ NoJob \notin Job
  /\ NoOccurrence \notin Occurrence
  /\ IsFiniteSet(Threads)
  /\ Given \subseteq {s \in Seq(Miners) : \A i, j \in DOMAIN s : s[i] = s[j] => i = j}
  /\ Size \in [Texts -> Nat]
  /\ Batches \subseteq Nat
  /\ MaxCalls \in Nat
  /\ UintSpan \in Nat \ {0}

\* What a run of a matcher leaves: the marks of its occurrence (end = 0: it
\* returned NULL) and the position its stream stopped at.
ASSUME MatcherAssumption ==
  \A m \in Miners, t \in Texts : \A p \in 0 .. Size[t] - 1 :
    /\ Matcher[m][t][p] \in [start : Nat, end : Nat, to : Nat]
    /\ Matcher[m][t][p].to <= Size[t]
    /\ Matcher[m][t][p].end <= Size[t]

VARIABLES
  mutex_extractor, mutex_pout, sem_targs, sem_main, targs,
  targs_cap,        \* entries allocated at targs
  threads_inited, terminate_p, flags, miners, stream, last_max,
  last_error,       \* has last_error been set?
  spos,             \* position of each stream object
  mstate,           \* each miner's stream copy and marks
  cpc, frame, out, pout,   \* a caller and the locals of its call of next
  wpc, job, cur,    \* a thread, its thread_args_t and the occurrence in hand
  received,         \* what next returned since the stream was set
  origin,           \* and where the stream stood then
  calls

poolVars == <<sem_targs, sem_main, targs, targs_cap, threads_inited, terminate_p>>
confVars == <<flags, miners, stream, last_error>>
workVars == <<wpc, job, cur>>
callVars == <<cpc, frame>>
bufVars  == <<out, pout, mutex_pout>>
histVars == <<received, origin, calls>>
vars == <<mutex_extractor, poolVars, confVars, last_max, spos, mstate, callVars,
          bufVars, workVars, histVars>>

-----------------------------------------------------------------------------
MaxOf(a, b) == IF a >= b THEN a ELSE b
MinOf(a, b) == IF a <= b THEN a ELSE b
SeqRange(s) == {s[i] : i \in DOMAIN s}

\* The matcher is run at p when neither an earlier run nor an occurrence
\* reaches past p.
MayRun(s, p) == p >= MaxOf(s.pos_last, s.end_last)

Found(s, r) == r.end > 0 /\ r.start >= s.end_last

\* [faulty] The marks of the run are not kept.
AfterRunForgets(s, r) == [s EXCEPT !.pos = MaxOf(r.to, s.pos + 1)]

AfterRun(s, r) ==
  [s EXCEPT !.pos = MaxOf(r.to, s.pos + 1),
            !.pos_last = MaxOf(r.end, r.to),
            !.end_last = IF Found(s, r) THEN r.end ELSE @]

Encloses(a, b) == a.start <= b.start /\ b.end <= a.end

StrictlyEncloses(a, b) ==
  Encloses(a, b) /\ <<a.start, a.end>> # <<b.start, b.end>>

\* filter_longest_occurrences: the cells no other range encloses, in order.
\* Module Filter has its loops.
Unenclosed(s) ==
  {i \in DOMAIN s : \A j \in DOMAIN s : ~StrictlyEncloses(s[j], s[i])}

InOrder(s, keep) ==
  {[k \in 1 .. Cardinality(keep) |-> s[at[k]]] :
     at \in {f \in [1 .. Cardinality(keep) -> keep] :
               \A k, l \in 1 .. Cardinality(keep) : k < l => f[k] < f[l]}}

Longest(s) == InOrder(s, Unenclosed(s))

Maxima(S) == {x \in S : \A y \in S : x >= y}

\* **pout = p
Put(s, i, o) == IF i <= Len(s) THEN [s EXCEPT ![i] = o] ELSE Append(s, o)

\* qsort hands the comparator pointers to the array's cells where it expects
\* occurrences, so the order that comes out is any order.
Orders(s) ==
  {[i \in DOMAIN s |-> s[p[i]]] :
     p \in {f \in [DOMAIN s -> DOMAIN s] : \A i, j \in DOMAIN s : f[i] = f[j] => i = j}}

-----------------------------------------------------------------------------
Init ==
  /\ mutex_extractor = Nobody /\ mutex_pout = Nobody
  /\ sem_targs = 0 /\ sem_main = 0
  /\ targs = <<>> /\ targs_cap = 0
  /\ threads_inited = FALSE /\ terminate_p = FALSE
  /\ flags = {} /\ miners \in Given /\ stream = NoText
  /\ last_max = 0 /\ last_error = FALSE
  /\ spos = [t \in Texts |-> 0]
  /\ mstate = [m \in Miners |-> [text |-> NoText, pos |-> 0, end_last |-> 0, pos_last |-> 0]]
  /\ cpc = [c \in Clients |-> "idle"]
  /\ frame = [c \in Clients |-> [text |-> NoText, batch |-> 0, from |-> 0, m |-> 1, cap |-> 0]]
  /\ out = [c \in Clients |-> <<>>]
  /\ pout = [c \in Clients |-> 0]
  /\ wpc = [w \in Threads |-> "wait"]
  /\ job = [w \in Threads |-> NoJob]
  /\ cur = [w \in Threads |-> NoOccurrence]
  /\ received = <<>> /\ origin = 0
  /\ calls = 0

-----------------------------------------------------------------------------
(* The calling program: miners are added before the stream is set, one      *)
(* caller at a time configures the extractor, and next is called only on a  *)
(* stream that set_stream accepted.                                         *)

AllIdle == \A c \in Clients : cpc[c] = "idle"

Goto(c, l) == cpc' = [cpc EXCEPT ![c] = l]

\* extractor_c_add_miner_from_so once the miner is made
AddMiner(c, m) ==
  /\ AllIdle /\ mutex_extractor = Nobody /\ stream = NoText
  /\ m \notin SeqRange(miners)
  /\ miners' = Append(miners, m)
  /\ targs_cap' = Len(miners')
  /\ UNCHANGED <<mutex_extractor, sem_targs, sem_main, targs, threads_inited, terminate_p,
                 flags, stream, last_error, last_max, spos, mstate, callVars, bufVars,
                 workVars, histVars>>

\* [faulty] threads_inited is not cleared with the block it stands for.
UnsetStaysInited ==
  /\ stream' = NoText
  /\ targs' = <<>> /\ targs_cap' = 0
  /\ received' = <<>> /\ origin' = 0
  /\ UNCHANGED threads_inited

\* extractor_c_unset_stream: the body under mutex_extractor
Unset ==
  /\ stream' = NoText
  /\ threads_inited' = FALSE
  /\ targs' = <<>> /\ targs_cap' = 0
  /\ received' = <<>> /\ origin' = 0

UnsetStream(c) ==
  /\ AllIdle /\ mutex_extractor = Nobody /\ stream # NoText
  /\ Unset
  /\ UNCHANGED <<mutex_extractor, sem_targs, sem_main, terminate_p, flags, miners,
                 last_error, last_max, spos, mstate, callVars, bufVars, workVars, calls>>

\* extractor_c_set_stream: unset_stream, then the rest under a second lock
SetStream(c, t) ==
  /\ AllIdle /\ mutex_extractor = Nobody /\ calls < MaxCalls
  /\ Unset
  /\ frame' = [frame EXCEPT ![c].text = t]
  /\ Goto(c, "attach")
  /\ calls' = calls + 1
  /\ UNCHANGED <<mutex_extractor, sem_targs, sem_main, terminate_p, flags, miners,
                 last_error, last_max, spos, mstate, bufVars, workVars>>

\* miner_c_set_stream for every miner
Attach(c) ==
  /\ cpc[c] = "attach" /\ mutex_extractor = Nobody
  /\ frame[c].text \notin Unreadable
  /\ stream' = frame[c].text
  /\ mstate' = [m \in Miners |->
       IF m \in SeqRange(miners)
       THEN [text |-> stream', pos |-> spos[stream'], end_last |-> 0, pos_last |-> 0]
       ELSE mstate[m]]
  /\ last_max' = 0
  /\ origin' = spos[stream']
  /\ Goto(c, "idle")
  /\ UNCHANGED <<mutex_extractor, poolVars, flags, miners, last_error, spos, frame,
                 bufVars, workVars, received, calls>>

\* A failed stream stays in extractor->stream; set_last_error locks again.
RefuseStream(c) ==
  /\ cpc[c] = "attach" /\ mutex_extractor = Nobody
  /\ frame[c].text \in Unreadable
  /\ stream' = frame[c].text
  /\ Goto(c, "error")
  /\ UNCHANGED <<mutex_extractor, poolVars, flags, miners, last_error, last_max, spos,
                 mstate, frame, bufVars, workVars, histVars>>

SetLastError(c) ==
  /\ cpc[c] = "error" /\ mutex_extractor = Nobody
  /\ last_error' = TRUE
  /\ Goto(c, "idle")
  /\ UNCHANGED <<mutex_extractor, poolVars, flags, miners, stream, last_max, spos, mstate,
                 frame, bufVars, workVars, histVars>>

\* _set_flags takes no lock: a caller may change the flags while another one
\* is inside next.
SetFlags(c, fs, value) ==
  /\ cpc[c] = "idle" /\ \A d \in Clients : cpc[d] \notin {"destroy", "terminate", "join", "gone"}
  /\ fs \subseteq Flags
  /\ flags' = IF value THEN flags \cup fs ELSE flags \ fs
  /\ UNCHANGED <<mutex_extractor, poolVars, miners, stream, last_error, last_max, spos,
                 mstate, callVars, bufVars, workVars, histVars>>

-----------------------------------------------------------------------------
(* next *)

InNext(c) == cpc[c] \in {"push", "signal", "collect"}

NextEnter(c, b) ==
  /\ cpc[c] = "idle" /\ calls < MaxCalls
  /\ stream \in Texts \ Unreadable
  /\ mutex_extractor = Nobody
  /\ mutex_extractor' = c
  /\ IF threads_inited
     THEN UNCHANGED <<sem_main, targs_cap, threads_inited>>
     ELSE sem_main' = 0 /\ targs_cap' = Len(miners) /\ threads_inited' = TRUE
  /\ frame' = [frame EXCEPT ![c] = [text |-> stream, batch |-> b, from |-> spos[stream],
                                    m |-> 1, cap |-> (b * Len(miners) + 1) % UintSpan]]
  /\ out' = [out EXCEPT ![c] = <<>>]
  /\ pout' = [pout EXCEPT ![c] = 0]
  /\ Goto(c, "push")
  /\ calls' = calls + 1
  /\ UNCHANGED <<mutex_pout, sem_targs, targs, terminate_p, confVars, last_max, spos,
                 mstate, workVars, received, origin>>

\* miner->stream->sync and the push under mutex_targs
Push(c) ==
  /\ cpc[c] = "push" /\ frame[c].m <= Len(miners)
  /\ LET m == miners[frame[c].m] IN
       /\ mstate' = [mstate EXCEPT ![m].pos = spos[stream]]
       /\ targs' = Append(targs, [miner |-> m, batch |-> frame[c].batch, pout |-> c])
  /\ Goto(c, "signal")
  /\ UNCHANGED <<mutex_extractor, sem_targs, sem_main, targs_cap, threads_inited,
                 terminate_p, confVars, last_max, spos, frame, bufVars, workVars, histVars>>

Signal(c) ==
  /\ cpc[c] = "signal"
  /\ sem_targs' = sem_targs + 1
  /\ frame' = [frame EXCEPT ![c].m = @ + 1]
  /\ Goto(c, "push")
  /\ UNCHANGED <<mutex_extractor, sem_main, targs, targs_cap, threads_inited, terminate_p,
                 confVars, last_max, spos, mstate, bufVars, workVars, histVars>>

\* [faulty] The loop that collects starts at the second job.
MoveStreamThenCollectsLess(c) ==
  /\ cpc[c] = "push" /\ frame[c].m > Len(miners)
  /\ spos' = [spos EXCEPT ![stream] = MinOf(@ + frame[c].batch, Size[stream])]
  /\ frame' = [frame EXCEPT ![c].m = 2]
  /\ Goto(c, "collect")
  /\ UNCHANGED <<mutex_extractor, poolVars, confVars, last_max, mstate, bufVars,
                 workVars, histVars>>

\* [faulty] The loop that collects waits for a job that was not posted.
MoveStreamThenCollectsMore(c) ==
  /\ cpc[c] = "push" /\ frame[c].m > Len(miners)
  /\ spos' = [spos EXCEPT ![stream] = MinOf(@ + frame[c].batch, Size[stream])]
  /\ frame' = [frame EXCEPT ![c].m = 0]
  /\ Goto(c, "collect")
  /\ UNCHANGED <<mutex_extractor, poolVars, confVars, last_max, mstate, bufVars,
                 workVars, histVars>>

\* self->stream->move(self->stream, batch), while the threads scan
MoveStream(c) ==
  /\ cpc[c] = "push" /\ frame[c].m > Len(miners)
  /\ spos' = [spos EXCEPT ![stream] = MinOf(@ + frame[c].batch, Size[stream])]
  /\ frame' = [frame EXCEPT ![c].m = 1]
  /\ Goto(c, "collect")
  /\ UNCHANGED <<mutex_extractor, poolVars, confVars, last_max, mstate, bufVars,
                 workVars, histVars>>

\* [faulty] The wait returns without a token.
CollectDoesNotWait(c) ==
  /\ cpc[c] = "collect" /\ frame[c].m <= Len(miners)
  /\ sem_main' = sem_main - 1
  /\ frame' = [frame EXCEPT ![c].m = @ + 1]
  /\ UNCHANGED <<mutex_extractor, sem_targs, targs, targs_cap, threads_inited, terminate_p,
                 confVars, last_max, spos, mstate, cpc, bufVars, workVars, histVars>>

Collect(c) ==
  /\ cpc[c] = "collect" /\ frame[c].m <= Len(miners)
  /\ sem_main > 0
  /\ sem_main' = sem_main - 1
  /\ frame' = [frame EXCEPT ![c].m = @ + 1]
  /\ UNCHANGED <<mutex_extractor, sem_targs, targs, targs_cap, threads_inited, terminate_p,
                 confVars, last_max, spos, mstate, cpc, bufVars, workVars, histVars>>

\* *pout = NULL, the filter over the batch, last_max, unlock
Finish(c) ==
  /\ cpc[c] = "collect" /\ frame[c].m > Len(miners)
  /\ LET batch    == SubSeq(out[c], 1, pout[c])
         filtered == "E_NO_ENCLOSED_OCCURRENCES" \in flags
     IN \E kept \in IF filtered THEN Longest(batch) ELSE {batch} :
          /\ out' = [out EXCEPT ![c] = kept]
          /\ pout' = [pout EXCEPT ![c] = Len(kept)]
          /\ IF filtered
             THEN last_max' \in Maxima({last_max} \cup {kept[i].end : i \in DOMAIN kept})
             ELSE UNCHANGED last_max
          /\ received' = received \o kept
  /\ mutex_extractor' = Nobody
  /\ Goto(c, "return")
  /\ UNCHANGED <<mutex_pout, poolVars, confVars, spos, mstate, frame, workVars, origin, calls>>

\* The sort and the return, after the unlock; flags is read again.
Return(c) ==
  /\ cpc[c] = "return"
  /\ IF "E_SORT_RESULTS" \in flags
     THEN \E s \in Orders(out[c]) : out' = [out EXCEPT ![c] = s]
     ELSE UNCHANGED out
  /\ Goto(c, "idle")
  /\ UNCHANGED <<mutex_extractor, mutex_pout, pout, poolVars, confVars, last_max, spos,
                 mstate, frame, workVars, histVars>>

-----------------------------------------------------------------------------
(* destroy *)

Destroy(c) ==
  /\ AllIdle /\ mutex_extractor = Nobody
  /\ Unset
  /\ Goto(c, "destroy")
  /\ UNCHANGED <<mutex_extractor, sem_targs, sem_main, terminate_p, flags, miners,
                 last_error, last_max, spos, mstate, frame, bufVars, workVars, calls>>

SetTerminate(c) ==
  /\ cpc[c] = "destroy" /\ mutex_extractor = Nobody
  /\ mutex_extractor' = c
  /\ terminate_p' = TRUE
  /\ frame' = [frame EXCEPT ![c].m = 1]
  /\ Goto(c, "terminate")
  /\ UNCHANGED <<sem_targs, sem_main, targs, targs_cap, threads_inited, confVars, last_max,
                 spos, mstate, bufVars, workVars, histVars>>

PostTerminate(c) ==
  /\ cpc[c] = "terminate"
  /\ IF frame[c].m <= Cardinality(Threads)
     THEN /\ sem_targs' = sem_targs + 1
          /\ frame' = [frame EXCEPT ![c].m = @ + 1]
          /\ UNCHANGED cpc
     ELSE /\ frame' = [frame EXCEPT ![c].m = 1]
          /\ Goto(c, "join")
          /\ UNCHANGED sem_targs
  /\ UNCHANGED <<mutex_extractor, sem_main, targs, targs_cap, threads_inited, terminate_p,
                 confVars, last_max, spos, mstate, bufVars, workVars, histVars>>

Join(c) ==
  /\ cpc[c] = "join" /\ frame[c].m <= Cardinality(Threads)
  /\ sem_main > 0
  /\ sem_main' = sem_main - 1
  /\ frame' = [frame EXCEPT ![c].m = @ + 1]
  /\ UNCHANGED <<mutex_extractor, sem_targs, targs, targs_cap, threads_inited, terminate_p,
                 confVars, last_max, spos, mstate, cpc, bufVars, workVars, histVars>>

\* [faulty] One thread is not waited for.
TeardownOneShort(c) ==
  /\ cpc[c] = "join" /\ frame[c].m >= Cardinality(Threads)
  /\ Goto(c, "gone")
  /\ UNCHANGED <<mutex_extractor, poolVars, confVars, last_max, spos, mstate, frame,
                 bufVars, workVars, histVars>>

\* Miners, libraries, mutexes and targs are freed.
Teardown(c) ==
  /\ cpc[c] = "join" /\ frame[c].m > Cardinality(Threads)
  /\ Goto(c, "gone")
  /\ UNCHANGED <<mutex_extractor, poolVars, confVars, last_max, spos, mstate, frame,
                 bufVars, workVars, histVars>>

-----------------------------------------------------------------------------
(* thread_fn *)

Step(w, from, to) == wpc[w] = from /\ wpc' = [wpc EXCEPT ![w] = to]

callerVars == <<mutex_extractor, confVars, last_max, spos, callVars, histVars>>

WaitTargs(w) ==
  /\ Step(w, "wait", "check")
  /\ sem_targs > 0
  /\ sem_targs' = sem_targs - 1
  /\ UNCHANGED <<callerVars, sem_main, targs, targs_cap, threads_inited, terminate_p,
                 mstate, bufVars, job, cur>>

\* [faulty] A thread that is told to end passes the token on instead.
QuitPassesOn(w) ==
  /\ Step(w, "check", "wait")
  /\ terminate_p
  /\ sem_targs' = sem_targs + 1
  /\ UNCHANGED <<callerVars, sem_main, targs, targs_cap, threads_inited, terminate_p,
                 mstate, bufVars, job, cur>>

Quit(w) ==
  /\ Step(w, "check", "exited")
  /\ terminate_p
  /\ sem_main' = sem_main + 1
  /\ UNCHANGED <<callerVars, sem_targs, targs, targs_cap, threads_inited, terminate_p,
                 mstate, bufVars, job, cur>>

GoOn(w) ==
  /\ Step(w, "check", "pop")
  /\ ~terminate_p
  /\ UNCHANGED <<callerVars, poolVars, mstate, bufVars, job, cur>>

\* targs[--targs_count] under mutex_targs: the last job pushed
Pop(w) ==
  /\ Step(w, "pop", "scan")
  /\ targs # <<>>
  /\ job' = [job EXCEPT ![w] = targs[Len(targs)]]
  /\ targs' = SubSeq(targs, 1, Len(targs) - 1)
  /\ UNCHANGED <<callerVars, sem_targs, sem_main, targs_cap, threads_inited, terminate_p,
                 mstate, bufVars, cur>>

State(w) == mstate[job[w].miner]

\* [faulty] The loop does not look at the batch.
ScanningToEnd(w) == wpc[w] = "scan" /\ State(w).pos < Size[State(w).text]

Scanning(w) ==
  /\ wpc[w] = "scan"
  /\ State(w).pos < Size[State(w).text]
  /\ job[w].batch > 0

\* One move to the right: a position the miner already covers
SkipPosition(w) ==
  /\ Scanning(w) /\ ~MayRun(State(w), State(w).pos)
  /\ mstate' = [mstate EXCEPT ![job[w].miner].pos = @ + 1]
  /\ job' = [job EXCEPT ![w].batch = @ - 1]
  /\ UNCHANGED <<callerVars, poolVars, bufVars, wpc, cur>>

\* miner->run and where it leaves the stream: past the characters the
\* matcher consumed, or one further than where it was run.  The occurrence,
\* if there is one, is stored next.
RunMiner(w) ==
  /\ Scanning(w) /\ MayRun(State(w), State(w).pos)
  /\ LET s == State(w)
         r == Matcher[job[w].miner][s.text][s.pos]
         after == AfterRun(s, r)
     IN /\ mstate' = [mstate EXCEPT ![job[w].miner] = after]
        /\ job' = [job EXCEPT ![w].batch = @ - (after.pos - s.pos)]
        /\ IF Found(s, r)
           THEN /\ cur' = [cur EXCEPT ![w] = [miner |-> job[w].miner, start |-> r.start,
                                              end |-> r.end]]
                /\ wpc' = [wpc EXCEPT ![w] = "lock"]
           ELSE UNCHANGED <<cur, wpc>>
  /\ UNCHANGED <<callerVars, poolVars, bufVars>>

LockPout(w) ==
  /\ Step(w, "lock", "store")
  /\ mutex_pout = Nobody
  /\ mutex_pout' = w
  /\ UNCHANGED <<callerVars, poolVars, mstate, out, pout, job, cur>>

\* The test against last_max, the one use of what earlier batches returned
Enclosed(o) ==
  /\ "E_NO_ENCLOSED_OCCURRENCES" \in flags
  /\ last_max > 0
  /\ o.end <= last_max

DropEnclosed(w) ==
  /\ Step(w, "store", "scan")
  /\ Enclosed(cur[w])
  /\ cur' = [cur EXCEPT ![w] = NoOccurrence]
  /\ mutex_pout' = Nobody
  /\ UNCHANGED <<callerVars, poolVars, mstate, out, pout, job>>

Store(w) ==
  /\ Step(w, "store", "bump")
  /\ ~Enclosed(cur[w])
  /\ LET c == job[w].pout IN
       out' = [out EXCEPT ![c] = Put(@, pout[c] + 1, cur[w])]
  /\ cur' = [cur EXCEPT ![w] = NoOccurrence]
  /\ UNCHANGED <<callerVars, poolVars, mstate, mutex_pout, pout, job>>

Bump(w) ==
  /\ Step(w, "bump", "scan")
  /\ pout' = [pout EXCEPT ![job[w].pout] = @ + 1]
  /\ mutex_pout' = Nobody
  /\ UNCHANGED <<callerVars, poolVars, mstate, out, job, cur>>

PostMain(w) ==
  /\ wpc[w] = "scan"
  /\ State(w).pos >= Size[State(w).text] \/ job[w].batch <= 0
  /\ Step(w, "scan", "wait")
  /\ sem_main' = sem_main + 1
  /\ job' = [job EXCEPT ![w] = NoJob]
  /\ UNCHANGED <<callerVars, sem_targs, targs, targs_cap, threads_inited, terminate_p,
                 mstate, bufVars, cur>>

-----------------------------------------------------------------------------
CallStep(c) ==
  \/ Attach(c) \/ RefuseStream(c) \/ SetLastError(c)
  \/ Push(c) \/ Signal(c) \/ MoveStream(c) \/ Collect(c) \/ Finish(c) \/ Return(c)
  \/ SetTerminate(c) \/ PostTerminate(c) \/ Join(c) \/ Teardown(c)

Call(c) ==
  \/ \E m \in Miners : AddMiner(c, m)
  \/ \E t \in Texts : SetStream(c, t)
  \/ UnsetStream(c)
  \/ \E fs \in FlagArgs, value \in BOOLEAN : SetFlags(c, fs, value)
  \/ \E b \in Batches : NextEnter(c, b)
  \/ Destroy(c)

ThreadStep(w) ==
  \/ WaitTargs(w) \/ Quit(w) \/ GoOn(w) \/ Pop(w)
  \/ SkipPosition(w) \/ RunMiner(w)
  \/ LockPout(w) \/ DropEnclosed(w) \/ Store(w) \/ Bump(w) \/ PostMain(w)

\* After destroy nothing happens any more.
Destroyed == \E c \in Clients : cpc[c] = "gone"

Next ==
  \/ \E c \in Clients : CallStep(c) \/ Call(c)
  \/ \E w \in Threads : ThreadStep(w)
  \/ Destroyed /\ UNCHANGED vars

Spec == Init /\ [][Next]_vars

\* A thread that can take a step is scheduled; callers finish what they call
\* but need not call anything.
FairSpec ==
  /\ Spec
  /\ \A c \in Clients : WF_vars(CallStep(c))
  /\ \A w \in Threads : WF_vars(ThreadStep(w))

-----------------------------------------------------------------------------
TypeOK ==
  /\ mutex_extractor \in Clients \cup {Nobody}
  /\ mutex_pout \in Threads \cup {Nobody}
  /\ sem_targs \in Nat /\ sem_main \in Nat
  /\ targs \in Seq(Job) /\ targs_cap \in Nat
  /\ threads_inited \in BOOLEAN /\ terminate_p \in BOOLEAN
  /\ flags \subseteq Flags /\ miners \in Seq(Miners)
  /\ stream \in Texts \cup {NoText}
  /\ last_max \in Nat /\ last_error \in BOOLEAN
  /\ spos \in [Texts -> Nat]
  /\ mstate \in [Miners -> [text : Texts \cup {NoText}, pos : Nat, end_last : Nat,
                            pos_last : Nat]]
  /\ cpc \in [Clients -> {"idle", "attach", "error", "push", "signal", "collect", "return",
                          "destroy", "terminate", "join", "gone"}]
  /\ frame \in [Clients -> [text : Texts \cup {NoText}, batch : Nat, from : Nat, m : Nat \ {0},
                            cap : Nat]]
  /\ out \in [Clients -> Seq(Occurrence)]
  /\ pout \in [Clients -> Nat]
  /\ wpc \in [Threads -> {"wait", "check", "pop", "scan", "lock", "store", "bump", "exited"}]
  /\ job \in [Threads -> Job \cup {NoJob}]
  /\ cur \in [Threads -> Occurrence \cup {NoOccurrence}]
  /\ received \in Seq(Occurrence) /\ origin \in Nat
  /\ calls \in Nat

Working(w) == wpc[w] \in {"scan", "lock", "store", "bump"}

\* A thread about to pop finds a job: --targs_count never goes below zero.
PopFindsJob == \A w \in Threads : wpc[w] = "pop" => targs # <<>>

\* A thread holds its caller's pointer only while that caller is inside next,
\* so no thread writes through the address of a dead local or into an array
\* that was already returned.
NoLateWriter ==
  \A w \in Threads : Working(w) =>
    InNext(job[w].pout) /\ mutex_extractor = job[w].pout

\* No miner is scanned by two threads at once, nor queued while it is
\* scanned: its stream, marks and end_last have no lock of their own.
OneThreadPerMiner ==
  /\ \A v, w \in Threads :
       Working(v) /\ Working(w) /\ job[v].miner = job[w].miner => v = w
  /\ \A w \in Threads, i \in DOMAIN targs : Working(w) => targs[i].miner # job[w].miner
  /\ \A i, j \in DOMAIN targs : targs[i].miner = targs[j].miner => i = j

\* Pushes stay inside the block that add_miner_so, next and unset_stream
\* allocate and free.
TargsFits == Len(targs) <= targs_cap

\* What the threads write, and the NULL behind it, fits into the block next
\* allocates, as long as batch * miners_count + 1 is below 2^32.
OutFits ==
  \A c \in Clients :
    InNext(c) /\ frame[c].batch * Len(miners) + 1 < UintSpan =>
      Len(out[c]) < frame[c].cap

\* Whenever no caller is inside the extractor the pool is quiet: no token, no
\* job and no working thread is left over for the next call to trip on.
QuietBetweenCalls ==
  mutex_extractor = Nobody =>
    /\ sem_targs = 0 /\ sem_main = 0 /\ targs = <<>>
    /\ \A w \in Threads : wpc[w] = "wait"

\* destroy frees nothing before the last thread has left thread_fn.
TeardownAfterThreads == Destroyed => \A w \in Threads : wpc[w] = "exited"

\* No occurrence reaches the callers twice.
NoDuplicate ==
  \A i, j \in DOMAIN received : received[i] = received[j] => i = j

\* An array that next has handed out changes no more: not by a thread that
\* still holds pout, not by the batch of another caller.
ReturnedStays ==
  [][\A c \in Clients : cpc[c] = "idle" /\ cpc'[c] = "idle" =>
       out'[c] = out[c] /\ pout'[c] = pout[c]]_vars

\* Every call of next comes back, however the threads are scheduled.
NextReturns == \A c \in Clients : InNext(c) ~> cpc[c] = "idle"

\* destroy comes back, and every thread ends.
DestroyReturns ==
  \A c \in Clients : cpc[c] = "destroy" ~> cpc[c] = "gone"

\* What is dropped because of earlier batches is enclosed in something an
\* earlier batch returned.
DroppedAreEnclosed ==
  [][\A w \in Threads : DropEnclosed(w) =>
       \E i \in DOMAIN received : Encloses(received[i], cur[w])]_vars
==============================================================================
