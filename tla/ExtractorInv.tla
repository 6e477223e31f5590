----------------------------- MODULE ExtractorInv -----------------------------
(***************************************************************************)
(* The inductive invariant behind the safety properties of Extractor: it   *)
(* accounts for every job and every semaphore token of the pool.           *)
(***************************************************************************)
EXTENDS Extractor

\* The number of threads of wpc f that stand at one of the places S
CountIn(f, S) == Cardinality({w \in Threads : f[w] \in S})

Awake == {"check", "pop"}
Busy  == {"scan", "lock", "store", "bump"}

\* mutex_extractor is held exactly by the caller inside next or destroy.
Holder ==
  \A c \in Clients :
    mutex_extractor = c <=>
      cpc[c] \in {"push", "signal", "collect", "terminate", "join", "gone"}

\* The loop counters of next and destroy stay within their loops.
Loops ==
  \A c \in Clients :
    /\ cpc[c] \in {"push", "collect"} => frame[c].m <= Len(miners) + 1
    /\ cpc[c] = "signal" => frame[c].m <= Len(miners)
    /\ cpc[c] \in {"terminate", "join"} => frame[c].m <= Cardinality(Threads) + 1

\* Jobs the call has pushed, and those whose completion it has collected
Pushed(c) ==
  IF cpc[c] = "push" THEN frame[c].m - 1
  ELSE IF cpc[c] = "signal" THEN frame[c].m ELSE Len(miners)

Collected(c) == IF cpc[c] = "collect" THEN frame[c].m - 1 ELSE 0

Unsignalled(c) == IF cpc[c] = "signal" THEN 1 ELSE 0

\* During next: a token, or a thread that took one, for every queued job that
\* has been signalled; and every job pushed is queued, in work or done.
InNextTally(c) ==
  /\ ~terminate_p
  /\ CountIn(wpc, {"exited"}) = 0
  /\ sem_targs + CountIn(wpc, Awake) + Unsignalled(c) = Len(targs)
  /\ Len(targs) + CountIn(wpc, Busy) + sem_main + Collected(c) = Pushed(c)

Posted(c) == IF cpc[c] = "terminate" THEN frame[c].m - 1 ELSE Cardinality(Threads)

Joined(c) ==
  IF cpc[c] = "terminate" THEN 0
  ELSE IF cpc[c] = "join" THEN frame[c].m - 1 ELSE Cardinality(Threads)

\* During destroy: no job is left, and each thread takes one token and leaves.
InDestroyTally(c) ==
  /\ terminate_p
  /\ targs = <<>>
  /\ CountIn(wpc, {"pop"} \cup Busy) = 0
  /\ sem_targs + CountIn(wpc, {"check"}) + CountIn(wpc, {"exited"}) = Posted(c)
  /\ sem_main + Joined(c) = CountIn(wpc, {"exited"})

Idle ==
  /\ ~terminate_p
  /\ targs = <<>> /\ sem_targs = 0 /\ sem_main = 0
  /\ CountIn(wpc, Awake \cup Busy \cup {"exited"}) = 0

Tally ==
  /\ mutex_extractor = Nobody => Idle
  /\ \A c \in Clients : InNext(c) => InNextTally(c)
  /\ \A c \in Clients : cpc[c] \in {"terminate", "join", "gone"} => InDestroyTally(c)

\* The miners c has pushed a job of
PushedMiners(c) == {miners[i] : i \in {k \in DOMAIN miners : k <= Pushed(c)}}

\* A job belongs to the caller that holds the mutex, for a miner it pushed.
Due(j) ==
  j.pout = mutex_extractor /\ InNext(j.pout) /\ j.miner \in PushedMiners(j.pout)

\* Each miner that was pushed occurs in one job at most.
Jobs ==
  /\ \A i, j \in DOMAIN miners : miners[i] = miners[j] => i = j
  /\ \A i \in DOMAIN targs : Due(targs[i])
  /\ \A w \in Threads : Working(w) => job[w] \in Job /\ Due(job[w])
  /\ OneThreadPerMiner

\* mutex_pout guards the caller's cursor: nothing lies beyond it but the cell
\* a thread is about to count.
Buffer ==
  /\ \A w \in Threads : wpc[w] \in {"store", "bump"} <=> mutex_pout = w
  /\ \A w \in Threads : wpc[w] \in {"lock", "store"} => cur[w] \in Occurrence
  /\ \A c \in Clients :
       \/ Len(out[c]) = pout[c]
       \/ /\ Len(out[c]) = pout[c] + 1
          /\ \E w \in Threads : wpc[w] = "bump" /\ job[w].pout = c
  /\ \A w \in Threads : wpc[w] = "bump" => Len(out[job[w].pout]) = pout[job[w].pout] + 1

\* The miners scan the stream that is set.
Attached ==
  /\ \A c \in Clients : InNext(c) => stream \in Texts \ Unreadable
  /\ stream \in Texts \ Unreadable =>
       \A i \in DOMAIN miners : mstate[miners[i]].text = stream
  /\ \A c \in Clients : cpc[c] = "attach" => frame[c].text \in Texts

\* The array of jobs is as long as the list of miners from the first push on.
Allocated ==
  /\ threads_inited => targs_cap >= Len(miners)
  /\ \A c \in Clients : InNext(c) => threads_inited

IInv ==
  /\ TypeOK /\ Holder /\ Loops /\ Tally /\ Jobs /\ Buffer /\ Attached /\ Allocated

-----------------------------------------------------------------------------
(* What the callers' arrays hold *)

\* The cells of c's array that m has filled
Cells(c, m) == {i \in DOMAIN out[c] : out[c][i].miner = m}

\* A thread with an occurrence in hand is about to fill one more.
InHand(w) == IF wpc[w] \in {"lock", "store"} THEN 1 ELSE 0

\* A queued job has its whole batch, and its miner has filled no cell.
Untouched(j) ==
  j.batch = frame[j.pout].batch /\ Cells(j.pout, j.miner) = {}

\* With n cells to come a miner's cells do not exceed the positions of its batch
\* that its job has used up.
Within(j, n) ==
  Cardinality(Cells(j.pout, j.miner)) + n + MaxOf(j.batch, 0) <= frame[j.pout].batch

\* A miner fills at most as many cells as the batch has positions, whether its
\* job is queued, in work or done.
Spent ==
  /\ \A c \in Clients : InNext(c) =>
       /\ frame[c].cap = (frame[c].batch * Len(miners) + 1) % UintSpan
       /\ \A i \in DOMAIN out[c] : out[c][i].miner \in PushedMiners(c)
       /\ \A m \in Miners : Cardinality(Cells(c, m)) <= frame[c].batch
  /\ \A j \in SeqRange(targs) : Untouched(j)
  /\ \A w \in Threads : Working(w) => Within(job[w], InHand(w))
  /\ \A w \in Threads : wpc[w] \in {"lock", "store"} => cur[w].miner = job[w].miner

\* No matcher returns an occurrence without characters.
NonEmpty ==
  \A m \in Miners, t \in Texts : \A p \in 0 .. Size[t] - 1 :
    Matcher[m][t][p].end > 0 => Matcher[m][t][p].start < Matcher[m][t][p].end

\* While a stream is attached nobody else is inside, and nothing was received.
Attaching ==
  \A c \in Clients : cpc[c] = "attach" =>
    received = <<>> /\ stream = NoText /\ \A d \in Clients : d # c => cpc[d] = "idle"

\* The miner of an occurrence has noted its end.
Noted(o) == o.start < o.end /\ o.end <= mstate[o.miner].end_last

\* What the callers have, what the caller inside next has and what each thread
\* has in hand are different occurrences.
Fresh ==
  /\ Attaching
  /\ NoDuplicate
  /\ \A o \in SeqRange(received) : Noted(o)
  /\ \A c \in Clients : InNext(c) =>
       /\ \A o \in SeqRange(out[c]) : Noted(o) /\ o \notin SeqRange(received)
       /\ \A i, j \in DOMAIN out[c] : out[c][i] = out[c][j] => i = j
  /\ \A w \in Threads : wpc[w] \in {"lock", "store"} =>
       /\ Noted(cur[w])
       /\ cur[w] \notin SeqRange(received) \cup SeqRange(out[job[w].pout])
==============================================================================
