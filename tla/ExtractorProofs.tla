---------------------------- MODULE ExtractorProofs ----------------------------
(***************************************************************************)
(* Proofs that IInv is an invariant of Extractor, and of the safety        *)
(* properties that follow from it, for any threads, miners, texts, matcher *)
(* and batches; and about the occurrences that are returned: that they fit *)
(* into the caller's block, that an array stays as it was returned, that   *)
(* no occurrence is returned twice, and that each call returns what module *)
(* Mining says, one scan of the text by each miner alone.                  *)
(***************************************************************************)
EXTENDS ExtractorMining, Iteration, FiniteSetTheorems, SequenceTheorems, TLAPS

-----------------------------------------------------------------------------
(* Sequences *)

\* All but the last element of a stack.
LEMMA AllButLast ==
  ASSUME NEW S, NEW s \in Seq(S), s # <<>>
  PROVE  /\ SubSeq(s, 1, Len(s) - 1) \in Seq(S)
         /\ Len(SubSeq(s, 1, Len(s) - 1)) = Len(s) - 1
         /\ \A i \in 1 .. Len(s) - 1 : SubSeq(s, 1, Len(s) - 1)[i] = s[i]
         /\ Len(s) \in Nat \ {0}
<1>. DEFINE n == Len(s) - 1
<1>1. Len(s) \in Nat \ {0} /\ n \in Nat
  BY EmptySeq
<1>2. \A i \in 1 .. n : s[i] \in S
  BY <1>1
<1>. HIDE DEF n
<1>3. /\ SubSeq(s, 1, n) \in Seq(S)
      /\ Len(SubSeq(s, 1, n)) = IF 1 <= n THEN n - 1 + 1 ELSE 0
      /\ \A i \in 1 .. n - 1 + 1 : SubSeq(s, 1, n)[i] = s[1 + i - 1]
  BY <1>1, <1>2, SubSeqProperties
<1>4. Len(SubSeq(s, 1, n)) = n /\ \A i \in 1 .. n : SubSeq(s, 1, n)[i] = s[i]
  BY <1>1, <1>3
<1>. QED  BY <1>1, <1>3, <1>4 DEF n

-----------------------------------------------------------------------------
(* Counting threads *)

\* The threads at any places are finitely many.
LEMMA CountNat ==
  ASSUME NEW f, NEW S
  PROVE  /\ CountIn(f, S) \in Nat
         /\ IsFiniteSet({w \in Threads : f[w] \in S})
BY FS_Subset, FS_CardinalityType, ConstantsAssumption DEF CountIn

\* No thread stands where none is counted.
LEMMA CountZero ==
  ASSUME NEW f, NEW S
  PROVE  CountIn(f, S) = 0 <=> \A w \in Threads : f[w] \notin S
<1>1. CountIn(f, S) = 0 <=> {w \in Threads : f[w] \in S} = {}
  BY CountNat, FS_EmptySet DEF CountIn
<1>. QED  BY <1>1

\* If all are counted, each thread stands there.
LEMMA CountAll ==
  ASSUME NEW f, NEW S, CountIn(f, S) = Cardinality(Threads)
  PROVE  \A w \in Threads : f[w] \in S
<1>1. {w \in Threads : f[w] \in S} = Threads
  BY FS_Subset, ConstantsAssumption DEF CountIn
<1>. QED  BY <1>1

\* No more threads are counted than there are.
LEMMA CountBound ==
  ASSUME NEW f, NEW S
  PROVE  CountIn(f, S) <= Cardinality(Threads)
BY FS_Subset, ConstantsAssumption DEF CountIn

In(x, S) == IF x \in S THEN 1 ELSE 0

\* When thread w moves, the count changes by where w was and where it is.
LEMMA CountMove ==
  ASSUME NEW P, NEW f \in [Threads -> P], NEW w \in Threads, NEW to, NEW S
  PROVE  CountIn([f EXCEPT ![w] = to], S) = CountIn(f, S) + In(to, S) - In(f[w], S)
<1>. DEFINE g == [f EXCEPT ![w] = to]
            F == {v \in Threads : f[v] \in S}
            G == {v \in Threads : g[v] \in S}
            R == F \ {w}
<1>1. IsFiniteSet(F) /\ Cardinality(F) \in Nat
  BY CountNat DEF CountIn
<1>2. /\ IsFiniteSet(R)
      /\ Cardinality(R) = IF w \in F THEN Cardinality(F) - 1 ELSE Cardinality(F)
  BY <1>1, FS_RemoveElement
<1>3. w \notin R
  OBVIOUS
<1>4. CASE to \in S
  <2>1. G = R \cup {w}
    BY <1>4
  <2>2. Cardinality(G) = Cardinality(R) + 1
    BY <2>1, <1>2, <1>3, FS_AddElement
  <2>. QED  BY <2>2, <1>1, <1>2, <1>4 DEF In, CountIn
<1>5. CASE to \notin S
  <2>1. G = R
    BY <1>5
  <2>. QED  BY <2>1, <1>1, <1>2, <1>5 DEF In, CountIn
<1>. QED  BY <1>4, <1>5

\* A step of thread w from a to b changes the count of S by one at most.
Shift(a, b, S) ==
  /\ CountIn(wpc, S) \in Nat
  /\ CountIn(wpc', S) \in Nat
  /\ a \in S /\ b \notin S => CountIn(wpc', S) = CountIn(wpc, S) - 1
  /\ a \notin S /\ b \in S => CountIn(wpc', S) = CountIn(wpc, S) + 1
  /\ (a \in S <=> b \in S) => CountIn(wpc', S) = CountIn(wpc, S)

LEMMA StepCounts ==
  ASSUME TypeOK, NEW w \in Threads, NEW a, NEW b, Step(w, a, b)
  PROVE  \A S : Shift(a, b, S)
<1>1. /\ wpc[w] = a
      /\ wpc' = [wpc EXCEPT ![w] = b]
  BY DEF Step
<1>2. wpc \in [Threads -> {"wait", "check", "pop", "scan", "lock", "store", "bump", "exited"}]
  BY DEF TypeOK
<1>3. ASSUME NEW S
      PROVE  Shift(a, b, S)
  <2>1. CountIn(wpc', S) = CountIn(wpc, S) + In(b, S) - In(a, S)
    BY ZenonT(30), <1>1, <1>2, CountMove
  <2>2. CountIn(wpc, S) \in Nat /\ CountIn(wpc', S) \in Nat
    BY CountNat
  <2>. QED  BY <2>1, <2>2 DEF Shift, In
<1>. QED  BY <1>3

-----------------------------------------------------------------------------
(* The tally *)

\* The terms of the tally are numbers.
LEMMA TallyTypes ==
  ASSUME TypeOK, NEW c \in Clients
  PROVE  /\ Pushed(c) \in Int /\ Collected(c) \in Int /\ Unsignalled(c) \in Int
         /\ Posted(c) \in Int /\ Joined(c) \in Int
         /\ Len(targs) \in Nat /\ Len(miners) \in Nat
<1>1. Cardinality(Threads) \in Nat
  BY FS_CardinalityType, ConstantsAssumption
<1>2. /\ Len(miners) \in Nat /\ Len(targs) \in Nat
      /\ frame[c].m \in Nat
  BY SMTT(30) DEF TypeOK
<1>. QED  BY <1>1, <1>2 DEF Pushed, Collected, Unsignalled, Posted, Joined

\* In an idle pool every thread waits.
LEMMA IdleCounts ==
  ASSUME Idle
  PROVE  /\ CountIn(wpc, Awake) = 0 /\ CountIn(wpc, Busy) = 0
         /\ CountIn(wpc, {"exited"}) = 0 /\ CountIn(wpc, {"check"}) = 0
         /\ CountIn(wpc, {"pop"} \cup Busy) = 0
         /\ \A w \in Threads : wpc[w] \notin Awake \cup Busy \cup {"exited"}
<1>1. \A w \in Threads : wpc[w] \notin Awake \cup Busy \cup {"exited"}
  BY CountZero DEF Idle
<1>2. ASSUME NEW S, S \subseteq Awake \cup Busy \cup {"exited"}
      PROVE  CountIn(wpc, S) = 0
  BY <1>1, <1>2, CountZero
<1>. QED  BY <1>1, <1>2 DEF Awake

\* Where a thread that steps stands
LEMMA StepFrom ==
  ASSUME NEW w \in Threads, ThreadStep(w)
  PROVE  \/ WaitTargs(w) /\ wpc[w] = "wait"
         \/ Quit(w) /\ wpc[w] = "check"
         \/ GoOn(w) /\ wpc[w] = "check"
         \/ Pop(w) /\ wpc[w] = "pop"
         \/ wpc[w] \in Busy /\ \/ SkipPosition(w) \/ RunMiner(w) \/ LockPout(w)
                               \/ DropEnclosed(w) \/ Store(w) \/ Bump(w) \/ PostMain(w)
<1>1. CASE WaitTargs(w)
  BY <1>1 DEF WaitTargs, Step
<1>2. CASE Quit(w) \/ GoOn(w)
  BY <1>2 DEF Quit, GoOn, Step
<1>3. CASE Pop(w)
  BY <1>3 DEF Pop, Step
<1>4. CASE SkipPosition(w) \/ RunMiner(w)
  BY <1>4 DEF SkipPosition, RunMiner, Scanning, Busy
<1>5. CASE LockPout(w) \/ DropEnclosed(w) \/ Store(w) \/ Bump(w) \/ PostMain(w)
  BY <1>5 DEF LockPout, DropEnclosed, Store, Bump, PostMain, Step, Busy
<1>. QED  BY <1>1, <1>2, <1>3, <1>4, <1>5 DEF ThreadStep

\* In an idle pool no thread steps.
LEMMA IdleStuck ==
  ASSUME TypeOK, Idle, NEW w \in Threads
  PROVE  ~ThreadStep(w)
<1>1. wpc[w] \notin {"check", "pop"} \cup Busy /\ sem_targs = 0
  BY IdleCounts DEF Idle, Awake
<1>2. ~WaitTargs(w)
  BY <1>1 DEF WaitTargs
<1>. QED  BY <1>1, <1>2, StepFrom

\* During next a thread's step keeps the account.
LEMMA ThreadInNext ==
  ASSUME TypeOK, NEW c \in Clients, InNextTally(c), NEW w \in Threads, ThreadStep(w),
         Pushed(c)' = Pushed(c), Collected(c)' = Collected(c),
         Unsignalled(c)' = Unsignalled(c)
  PROVE  InNextTally(c)'
<1>0. /\ sem_targs \in Nat /\ sem_main \in Nat /\ Len(targs) \in Nat
      /\ Pushed(c) \in Int /\ Collected(c) \in Int /\ Unsignalled(c) \in Int
  BY TallyTypes DEF TypeOK
<1>1. /\ sem_targs + CountIn(wpc, Awake) + Unsignalled(c) = Len(targs)
      /\ Len(targs) + CountIn(wpc, Busy) + sem_main + Collected(c) = Pushed(c)
      /\ ~terminate_p /\ CountIn(wpc, {"exited"}) = 0
  BY DEF InNextTally
<1>2. CountIn(wpc, Awake) \in Nat /\ CountIn(wpc, Busy) \in Nat
  BY CountNat
<1>3. ASSUME ~terminate_p', CountIn(wpc', {"exited"}) = 0,
             sem_targs' + CountIn(wpc', Awake) + Len(targs) =
               sem_targs + CountIn(wpc, Awake) + Len(targs'),
             Len(targs') + CountIn(wpc', Busy) + sem_main' =
               Len(targs) + CountIn(wpc, Busy) + sem_main,
             sem_targs' \in Int, sem_main' \in Int, Len(targs') \in Int
      PROVE  InNextTally(c)'
  <2>1. CountIn(wpc', Awake) \in Nat /\ CountIn(wpc', Busy) \in Nat
    BY CountNat
  <2>2. sem_targs' + CountIn(wpc', Awake) + Unsignalled(c) = Len(targs')
    <3>. DEFINE a == CountIn(wpc, Awake)
                b == CountIn(wpc', Awake)
                u == Unsignalled(c)
                k == Len(targs)
                l == Len(targs')
                s == sem_targs
                t == sem_targs'
    <3>1. s + a + u = k
      BY <1>1
    <3>2. t + b + k = s + a + l
      BY <1>3
    <3>3. /\ s \in Int /\ a \in Int /\ u \in Int /\ k \in Int
          /\ t \in Int /\ b \in Int /\ l \in Int
      BY <1>0, <1>2, <1>3, <2>1
    <3>. HIDE DEF a, b, u, k, l, s, t
    <3>4. t + b + u = l
      BY <3>1, <3>2, <3>3
    <3>. QED  BY <3>4 DEF t, b, u, l
  <2>3. Len(targs') + CountIn(wpc', Busy) + sem_main' + Collected(c) = Pushed(c)
    BY <1>0, <1>1, <1>2, <1>3, <2>1
  <2>. QED  BY <1>3, <2>2, <2>3 DEF InNextTally
<1>4. ASSUME NEW from, NEW to, Step(w, from, to), to # "exited",
             from \in Awake <=> to \in Awake, from \in Busy <=> to \in Busy,
             UNCHANGED <<sem_targs, sem_main, targs, terminate_p>>
      PROVE  InNextTally(c)'
  <2>1. \A S : Shift(from, to, S)
    BY <1>4, StepCounts
  <2>2. CountIn(wpc', Awake) = CountIn(wpc, Awake) /\ CountIn(wpc', Busy) = CountIn(wpc, Busy)
    BY <1>4, <2>1 DEF Shift
  <2>3. CountIn(wpc', {"exited"}) = 0
    <3>1. wpc[w] # "exited" /\ from = wpc[w]
      BY <1>1, <1>4, CountZero DEF Step
    <3>. QED  BY <1>1, <1>4, <2>1, <3>1 DEF Shift
  <2>. QED  BY <1>0, <1>1, <1>2, <1>3, <1>4, <2>2, <2>3
<1>5. CASE WaitTargs(w)
  <2>1. \A S : Shift("wait", "check", S)
    BY <1>5, StepCounts DEF WaitTargs
  <2>2. /\ CountIn(wpc', Awake) = CountIn(wpc, Awake) + 1
        /\ CountIn(wpc', Busy) = CountIn(wpc, Busy)
        /\ CountIn(wpc', {"exited"}) = 0
    BY <1>1, <2>1 DEF Shift, Awake, Busy
  <2>3. sem_targs' = sem_targs - 1 /\ UNCHANGED <<sem_main, targs, terminate_p>>
    BY <1>5 DEF WaitTargs
  <2>5. sem_targs' + CountIn(wpc', Awake) + Len(targs) =
          sem_targs + CountIn(wpc, Awake) + Len(targs')
    BY <1>0, <1>2, <2>2, <2>3
  <2>6. Len(targs') + CountIn(wpc', Busy) + sem_main' =
          Len(targs) + CountIn(wpc, Busy) + sem_main
    BY <1>0, <1>2, <2>2, <2>3
  <2>7. ~terminate_p' /\ sem_targs' \in Int /\ sem_main' \in Int /\ Len(targs') \in Int
    BY <1>0, <1>1, <2>2, <2>3
  <2>. QED  BY <1>3, <2>2, <2>5, <2>6, <2>7
<1>6. CASE Pop(w)
  <2>1. \A S : Shift("pop", "scan", S)
    BY <1>6, StepCounts DEF Pop
  <2>2. /\ CountIn(wpc', Awake) = CountIn(wpc, Awake) - 1
        /\ CountIn(wpc', Busy) = CountIn(wpc, Busy) + 1
        /\ CountIn(wpc', {"exited"}) = 0
    BY <1>1, <2>1 DEF Shift, Awake, Busy
  <2>3. /\ UNCHANGED <<sem_targs, sem_main, terminate_p>>
        /\ targs' = SubSeq(targs, 1, Len(targs) - 1) /\ targs # <<>>
    BY <1>6 DEF Pop
  <2>4. Len(targs') = Len(targs) - 1
    BY <2>3, AllButLast DEF TypeOK
  <2>a. sem_targs' = sem_targs /\ sem_main' = sem_main
    BY <2>3
  <2>5. sem_targs' + CountIn(wpc', Awake) + Len(targs) =
          sem_targs + CountIn(wpc, Awake) + Len(targs')
    BY <1>0, <1>2, <2>2, <2>4, <2>a
  <2>6. Len(targs') + CountIn(wpc', Busy) + sem_main' =
          Len(targs) + CountIn(wpc, Busy) + sem_main
    BY <1>0, <1>2, <2>2, <2>4, <2>a
  <2>7. ~terminate_p' /\ sem_targs' \in Int /\ sem_main' \in Int /\ Len(targs') \in Int
    BY <1>0, <1>1, <2>2, <2>3, <2>4
  <2>. QED  BY <1>3, <2>2, <2>5, <2>6, <2>7
<1>7. CASE PostMain(w)
  <2>1. \A S : Shift("scan", "wait", S)
    BY <1>7, StepCounts DEF PostMain
  <2>2. /\ CountIn(wpc', Awake) = CountIn(wpc, Awake)
        /\ CountIn(wpc', Busy) = CountIn(wpc, Busy) - 1
        /\ CountIn(wpc', {"exited"}) = 0
    BY <1>1, <2>1 DEF Shift, Awake, Busy
  <2>3. sem_main' = sem_main + 1 /\ UNCHANGED <<sem_targs, targs, terminate_p>>
    BY <1>7 DEF PostMain
  <2>5. sem_targs' + CountIn(wpc', Awake) + Len(targs) =
          sem_targs + CountIn(wpc, Awake) + Len(targs')
    BY <1>0, <1>2, <2>2, <2>3
  <2>6. Len(targs') + CountIn(wpc', Busy) + sem_main' =
          Len(targs) + CountIn(wpc, Busy) + sem_main
    BY SMTT(30), <1>0, <1>2, <2>2, <2>3
  <2>7. ~terminate_p' /\ sem_targs' \in Int /\ sem_main' \in Int /\ Len(targs') \in Int
    BY <1>0, <1>1, <2>2, <2>3
  <2>. QED  BY <1>3, <2>2, <2>5, <2>6, <2>7
<1>8. CASE Quit(w)
  BY <1>1, <1>8 DEF Quit
<1>9. CASE GoOn(w)
  BY <1>4, <1>9 DEF GoOn, poolVars, Awake, Busy
<1>10. CASE LockPout(w)
  BY <1>4, <1>10 DEF LockPout, poolVars, Awake, Busy
<1>11. CASE DropEnclosed(w)
  BY <1>4, <1>11 DEF DropEnclosed, poolVars, Awake, Busy
<1>12. CASE Store(w)
  BY <1>4, <1>12 DEF Store, poolVars, Awake, Busy
<1>13. CASE Bump(w)
  BY <1>4, <1>13 DEF Bump, poolVars, Awake, Busy
<1>14. CASE SkipPosition(w) \/ RunMiner(w)
  <2>1. /\ UNCHANGED <<sem_targs, sem_main, targs, terminate_p>>
        /\ wpc' = wpc \/ Step(w, "scan", "lock")
    BY <1>14 DEF SkipPosition, RunMiner, Scanning, Step, poolVars
  <2>2. CASE wpc' = wpc
    BY <2>1, <2>2 DEF InNextTally
  <2>3. CASE Step(w, "scan", "lock")
    BY <1>4, <2>1, <2>3 DEF Awake, Busy
  <2>. QED  BY <2>1, <2>2, <2>3
<1>. QED  BY <1>5, <1>6, <1>7, <1>8, <1>9, <1>10, <1>11, <1>12, <1>13, <1>14 DEF ThreadStep

\* During destroy too
LEMMA ThreadInDestroy ==
  ASSUME TypeOK, NEW c \in Clients, InDestroyTally(c), NEW w \in Threads, ThreadStep(w),
         Posted(c)' = Posted(c), Joined(c)' = Joined(c)
  PROVE  InDestroyTally(c)'
<1>0. /\ sem_targs \in Nat /\ sem_main \in Nat /\ Posted(c) \in Int /\ Joined(c) \in Int
  BY TallyTypes DEF TypeOK
<1>1. /\ sem_targs + CountIn(wpc, {"check"}) + CountIn(wpc, {"exited"}) = Posted(c)
      /\ sem_main + Joined(c) = CountIn(wpc, {"exited"})
      /\ terminate_p /\ targs = <<>> /\ CountIn(wpc, {"pop"} \cup Busy) = 0
  BY DEF InDestroyTally
<1>2. CountIn(wpc, {"check"}) \in Nat /\ CountIn(wpc, {"exited"}) \in Nat
  BY CountNat
<1>3. CASE WaitTargs(w)
  <2>1. \A S : Shift("wait", "check", S)
    BY <1>3, StepCounts DEF WaitTargs
  <2>2. /\ CountIn(wpc', {"check"}) = CountIn(wpc, {"check"}) + 1
        /\ CountIn(wpc', {"exited"}) = CountIn(wpc, {"exited"})
        /\ CountIn(wpc', {"pop"} \cup Busy) = 0
    BY <1>1, <2>1 DEF Shift, Busy
  <2>3. sem_targs' = sem_targs - 1 /\ UNCHANGED <<sem_main, targs, terminate_p>>
    BY <1>3 DEF WaitTargs
  <2>4. sem_targs' + CountIn(wpc', {"check"}) + CountIn(wpc', {"exited"}) = Posted(c)
    BY <1>0, <1>1, <1>2, <2>2, <2>3
  <2>. QED  BY <1>1, <2>2, <2>3, <2>4 DEF InDestroyTally
<1>4. CASE Quit(w)
  <2>1. \A S : Shift("check", "exited", S)
    BY <1>4, StepCounts DEF Quit
  <2>2. /\ CountIn(wpc', {"check"}) = CountIn(wpc, {"check"}) - 1
        /\ CountIn(wpc', {"exited"}) = CountIn(wpc, {"exited"}) + 1
        /\ CountIn(wpc', {"pop"} \cup Busy) = 0
    BY <1>1, <2>1 DEF Shift, Busy
  <2>3. sem_main' = sem_main + 1 /\ UNCHANGED <<sem_targs, targs, terminate_p>>
    BY <1>4 DEF Quit
  <2>4. /\ sem_targs' + CountIn(wpc', {"check"}) + CountIn(wpc', {"exited"}) = Posted(c)
        /\ sem_main' + Joined(c) = CountIn(wpc', {"exited"})
    BY SMTT(30), <1>0, <1>1, <1>2, <2>2, <2>3
  <2>. QED  BY <1>1, <2>2, <2>3, <2>4 DEF InDestroyTally
<1>5. wpc[w] \notin {"pop"} \cup Busy /\ ~GoOn(w)
  BY <1>1, CountZero DEF GoOn
<1>. QED  BY <1>3, <1>4, <1>5, StepFrom

\* A step of a thread keeps the account of jobs and tokens.
LEMMA ThreadTally ==
  ASSUME TypeOK, Tally, NEW w \in Threads, ThreadStep(w)
  PROVE  Tally'
<1>1. /\ UNCHANGED <<mutex_extractor, cpc, frame, miners>>
      /\ \A c \in Clients : /\ Pushed(c)' = Pushed(c) /\ Collected(c)' = Collected(c)
                            /\ Unsignalled(c)' = Unsignalled(c) /\ Posted(c)' = Posted(c)
                            /\ Joined(c)' = Joined(c) /\ InNext(c)' = InNext(c)
  BY DEF ThreadStep, WaitTargs, Quit, GoOn, Pop, SkipPosition, RunMiner, LockPout,
         DropEnclosed, Store, Bump, PostMain, callerVars, poolVars, confVars, callVars,
         Pushed, Collected, Unsignalled, Posted, Joined, InNext
<1>2. mutex_extractor # Nobody
  BY IdleStuck DEF Tally
<1>3. ASSUME NEW c \in Clients, InNext(c)'
      PROVE  InNextTally(c)'
  BY <1>1, <1>3, ThreadInNext DEF Tally
<1>4. ASSUME NEW c \in Clients, cpc'[c] \in {"terminate", "join", "gone"}
      PROVE  InDestroyTally(c)'
  BY <1>1, <1>4, ThreadInDestroy DEF Tally
<1>. QED  BY <1>1, <1>2, <1>3, <1>4 DEF Tally

-----------------------------------------------------------------------------
(* Who holds mutex_extractor *)

\* No step lets two callers inside, and none leaves the mutex behind.
LEMMA HolderStep ==
  ASSUME TypeOK, Holder, [Next]_vars
  PROVE  Holder'
<1>0. /\ Nobody \notin Clients
      /\ cpc \in [Clients -> {"idle", "attach", "error", "push", "signal", "collect", "return",
                              "destroy", "terminate", "join", "gone"}]
  BY ConstantsAssumption DEF TypeOK
<1>1. ASSUME NEW c \in Clients, CallStep(c)
      PROVE  Holder'
  <2>1. CASE Attach(c)
    BY <2>1, <1>0 DEF Attach, Holder, Goto, callVars
  <2>2. CASE RefuseStream(c)
    BY <2>2, <1>0 DEF RefuseStream, Holder, Goto, callVars
  <2>3. CASE SetLastError(c)
    BY <2>3, <1>0 DEF SetLastError, Holder, Goto, callVars
  <2>4. CASE Push(c)
    BY <2>4, <1>0 DEF Push, Holder, Goto, callVars
  <2>5. CASE Signal(c)
    BY <2>5, <1>0 DEF Signal, Holder, Goto, callVars
  <2>6. CASE MoveStream(c)
    BY <2>6, <1>0 DEF MoveStream, Holder, Goto, callVars
  <2>7. CASE Collect(c)
    BY <2>7, <1>0 DEF Collect, Holder, Goto, callVars
  <2>8. CASE Finish(c)
    BY <2>8, <1>0 DEF Finish, Holder, Goto, callVars
  <2>9. CASE Return(c)
    BY <2>9, <1>0 DEF Return, Holder, Goto, callVars
  <2>10. CASE SetTerminate(c)
    BY <2>10, <1>0 DEF SetTerminate, Holder, Goto, callVars
  <2>11. CASE PostTerminate(c)
    BY <2>11, <1>0 DEF PostTerminate, Holder, Goto, callVars
  <2>12. CASE Join(c)
    BY <2>12, <1>0 DEF Join, Holder, Goto, callVars
  <2>13. CASE Teardown(c)
    BY <2>13, <1>0 DEF Teardown, Holder, Goto, callVars
  <2>. QED  BY <1>1, <2>1, <2>2, <2>3, <2>4, <2>5, <2>6, <2>7, <2>8, <2>9, <2>10, <2>11,
              <2>12, <2>13 DEF CallStep
<1>2. ASSUME NEW c \in Clients, Call(c)
      PROVE  Holder'
  <2>1. CASE \E m \in Miners : AddMiner(c, m)
    BY <2>1, <1>0 DEF AddMiner, Holder, Goto, callVars, AllIdle
  <2>2. CASE \E t \in Texts : SetStream(c, t)
    BY <2>2, <1>0 DEF SetStream, Holder, Goto, callVars, AllIdle
  <2>3. CASE UnsetStream(c)
    BY <2>3, <1>0 DEF UnsetStream, Holder, Goto, callVars, AllIdle
  <2>4. CASE \E fs \in FlagArgs, value \in BOOLEAN : SetFlags(c, fs, value)
    BY <2>4, <1>0 DEF SetFlags, Holder, Goto, callVars, AllIdle
  <2>5. CASE \E b \in Batches : NextEnter(c, b)
    BY <2>5, <1>0 DEF NextEnter, Holder, Goto, callVars, AllIdle
  <2>6. CASE Destroy(c)
    BY <2>6, <1>0 DEF Destroy, Holder, Goto, callVars, AllIdle
  <2>. QED  BY <1>2, <2>1, <2>2, <2>3, <2>4, <2>5, <2>6 DEF Call
<1>3. ASSUME NEW w \in Threads, ThreadStep(w)
      PROVE  Holder'
  <2>1. UNCHANGED <<mutex_extractor, cpc>>
    BY <1>3 DEF ThreadStep, WaitTargs, Quit, GoOn, Pop, SkipPosition, RunMiner, LockPout,
                DropEnclosed, Store, Bump, PostMain, callerVars, callVars
  <2>. QED  BY <2>1 DEF Holder
<1>4. CASE UNCHANGED vars
  BY <1>4 DEF vars, callVars, Holder
<1>. QED  BY <1>1, <1>2, <1>3, <1>4 DEF Next

-----------------------------------------------------------------------------
(* Loop counters *)

\* While the mutex is free no caller is inside.
LEMMA FreeMutex ==
  ASSUME Holder, mutex_extractor = Nobody
  PROVE  \A c \in Clients :
           cpc[c] \notin {"push", "signal", "collect", "terminate", "join", "gone"}
BY ConstantsAssumption DEF Holder

\* The loops of next and destroy stop at the miners and at the threads.
LEMMA LoopsStep ==
  ASSUME TypeOK, Holder, Loops, [Next]_vars
  PROVE  Loops'
<1>. DEFINE N == Cardinality(Threads)
<1>0. /\ N \in Nat /\ Len(miners) \in Nat
      /\ \A c \in Clients : frame[c].m \in Nat \ {0}
      /\ cpc \in [Clients -> {"idle", "attach", "error", "push", "signal", "collect", "return",
                              "destroy", "terminate", "join", "gone"}]
      /\ frame \in [Clients -> [text : Texts \cup {NoText}, batch : Nat, from : Nat,
                                m : Nat \ {0}, cap : Nat]]
  <2>1. N \in Nat
    BY FS_CardinalityType, ConstantsAssumption
  <2>2. Len(miners) \in Nat
    BY DEF TypeOK
  <2>3. /\ cpc \in [Clients -> {"idle", "attach", "error", "push", "signal", "collect",
                               "return", "destroy", "terminate", "join", "gone"}]
        /\ frame \in [Clients -> [text : Texts \cup {NoText}, batch : Nat, from : Nat,
                                  m : Nat \ {0}, cap : Nat]]
    BY DEF TypeOK
  <2>4. \A c \in Clients : frame[c].m \in Nat \ {0}
    BY <2>3
  <2>. QED  BY <2>1, <2>2, <2>3, <2>4
<1>. HIDE DEF N
<1>1. ASSUME NEW c \in Clients, CallStep(c)
      PROVE  Loops'
  <2>1. CASE Attach(c)
    BY <2>1, <1>0 DEF Attach, Loops, Goto, callVars, confVars, N
  <2>2. CASE RefuseStream(c)
    BY <2>2, <1>0 DEF RefuseStream, Loops, Goto, callVars, confVars, N
  <2>3. CASE SetLastError(c)
    BY <2>3, <1>0 DEF SetLastError, Loops, Goto, callVars, confVars, N
  <2>4. CASE Push(c)
    BY <2>4, <1>0 DEF Push, Loops, Goto, callVars, confVars, N
  <2>5. CASE Signal(c)
    BY <2>5, <1>0 DEF Signal, Loops, Goto, callVars, confVars, N
  <2>6. CASE MoveStream(c)
    BY <2>6, <1>0 DEF MoveStream, Loops, Goto, callVars, confVars, N
  <2>7. CASE Collect(c)
    BY <2>7, <1>0 DEF Collect, Loops, Goto, callVars, confVars, N
  <2>8. CASE Finish(c)
    BY <2>8, <1>0 DEF Finish, Loops, Goto, callVars, confVars, N
  <2>9. CASE Return(c)
    BY <2>9, <1>0 DEF Return, Loops, Goto, callVars, confVars, N
  <2>10. CASE SetTerminate(c)
    BY <2>10, <1>0 DEF SetTerminate, Loops, Goto, callVars, confVars, N
  <2>11. CASE PostTerminate(c)
    <3>1. CASE frame[c].m <= N
      <4>1. /\ cpc[c] = "terminate" /\ cpc' = cpc /\ miners' = miners
            /\ frame' = [frame EXCEPT ![c].m = @ + 1]
        BY <2>11, <3>1 DEF PostTerminate, confVars, N
      <4>. QED  BY <3>1, <4>1, <1>0 DEF Loops, N
    <3>2. CASE ~(frame[c].m <= N)
      <4>1. /\ cpc' = [cpc EXCEPT ![c] = "join"] /\ miners' = miners
            /\ frame' = [frame EXCEPT ![c].m = 1]
        BY <2>11, <3>2 DEF PostTerminate, Goto, confVars, N
      <4>. QED  BY <4>1, <1>0 DEF Loops, N
    <3>. QED  BY <3>1, <3>2
  <2>12. CASE Join(c)
    BY <2>12, <1>0 DEF Join, Loops, Goto, callVars, confVars, N
  <2>13. CASE Teardown(c)
    BY <2>13, <1>0 DEF Teardown, Loops, Goto, callVars, confVars, N
  <2>. QED  BY <1>1, <2>1, <2>2, <2>3, <2>4, <2>5, <2>6, <2>7, <2>8, <2>9, <2>10, <2>11,
              <2>12, <2>13 DEF CallStep
<1>2. ASSUME NEW c \in Clients, Call(c)
      PROVE  Loops'
  <2>1. CASE \E m \in Miners : AddMiner(c, m)
    BY <2>1 DEF AddMiner, AllIdle, Loops, callVars
  <2>2. CASE \E t \in Texts : SetStream(c, t)
    BY <2>2, <1>0 DEF SetStream, Loops, Goto, callVars, confVars
  <2>3. CASE UnsetStream(c)
    BY <2>3, <1>0 DEF UnsetStream, Loops, Goto, callVars, confVars
  <2>4. CASE \E fs \in FlagArgs, value \in BOOLEAN : SetFlags(c, fs, value)
    BY <2>4, <1>0 DEF SetFlags, Loops, Goto, callVars, confVars
  <2>5. CASE \E b \in Batches : NextEnter(c, b)
    BY <2>5, <1>0 DEF NextEnter, Loops, Goto, callVars, confVars
  <2>6. CASE Destroy(c)
    BY <2>6, <1>0 DEF Destroy, Loops, Goto, callVars, confVars
  <2>. QED  BY <1>2, <2>1, <2>2, <2>3, <2>4, <2>5, <2>6 DEF Call
<1>3. ASSUME NEW w \in Threads, ThreadStep(w)
      PROVE  Loops'
  <2>1. UNCHANGED <<miners, frame, cpc>>
    BY <1>3 DEF ThreadStep, WaitTargs, Quit, GoOn, Pop, SkipPosition, RunMiner, LockPout,
                DropEnclosed, Store, Bump, PostMain, callerVars, callVars,
                confVars
  <2>. QED  BY <2>1 DEF Loops
<1>4. CASE UNCHANGED vars
  BY <1>4 DEF vars, callVars, confVars, Loops
<1>. QED  BY <1>1, <1>2, <1>3, <1>4 DEF Next

-----------------------------------------------------------------------------
(* The tally across the steps of callers *)

Inside == {"push", "signal", "collect", "terminate", "join", "gone"}

\* A free mutex and an idle pool are a balanced account.
LEMMA FreeTally ==
  ASSUME Holder', Idle', mutex_extractor' = Nobody
  PROVE  Tally'
<1>1. \A c \in Clients : cpc'[c] \notin Inside
  BY ConstantsAssumption DEF Holder, Inside
<1>. QED  BY <1>1 DEF Tally, InNext, Inside

\* Otherwise only the account of the caller that holds the mutex matters.
LEMMA HeldTally ==
  ASSUME Holder', NEW c \in Clients, mutex_extractor' = c,
         InNext(c)' => InNextTally(c)',
         cpc'[c] \in {"terminate", "join", "gone"} => InDestroyTally(c)'
  PROVE  Tally'
<1>1. mutex_extractor' # Nobody
  BY ConstantsAssumption
<1>2. \A d \in Clients : d # c => cpc'[d] \notin Inside
  BY DEF Holder, Inside
<1>. QED  BY <1>1, <1>2 DEF Tally, InNext, Inside

\* A step of a call keeps the account while the mutex stays free.
LEMMA FreeSteps ==
  ASSUME Tally, Holder', mutex_extractor = Nobody, mutex_extractor' = Nobody,
         UNCHANGED <<sem_targs, sem_main, terminate_p, wpc>>,
         targs' \in {targs, <<>>}
  PROVE  Tally'
<1>1. Idle
  BY DEF Tally
<1>2. Idle'
  BY <1>1 DEF Idle
<1>. QED  BY <1>2, FreeTally

\* The steps of next keep the account.
LEMMA NextTally ==
  ASSUME TypeOK, Holder, Loops, Tally, Holder', NEW c \in Clients,
         \/ \E b \in Batches : NextEnter(c, b)
         \/ Push(c) \/ Signal(c) \/ MoveStream(c) \/ Collect(c) \/ Finish(c)
  PROVE  Tally'
<1>0. /\ cpc \in [Clients -> {"idle", "attach", "error", "push", "signal", "collect", "return",
                              "destroy", "terminate", "join", "gone"}]
      /\ frame \in [Clients -> [text : Texts \cup {NoText}, batch : Nat, from : Nat,
                                m : Nat \ {0}, cap : Nat]]
      /\ targs \in Seq(Job)
  BY DEF TypeOK
<1>n. /\ frame[c].m \in Nat /\ Len(miners) \in Nat /\ Len(targs) \in Nat
      /\ sem_targs \in Nat /\ sem_main \in Nat
  BY SMTT(30) DEF TypeOK
<1>c. CountIn(wpc, Awake) \in Nat /\ CountIn(wpc, Busy) \in Nat
  BY CountNat
<1>h. cpc[c] \in {"push", "signal", "collect"} => mutex_extractor = c /\ InNextTally(c)
  BY DEF Holder, Tally, InNext
<1>1. CASE \E b \in Batches : NextEnter(c, b)
  <2>1. PICK b \in Batches : NextEnter(c, b)
    BY <1>1
  <2>2. /\ Idle /\ mutex_extractor' = c /\ cpc'[c] = "push" /\ frame'[c].m = 1
        /\ UNCHANGED <<terminate_p, sem_targs, targs, wpc, miners>>
        /\ sem_main' = 0 \/ sem_main' = sem_main
    BY <2>1, <1>0 DEF NextEnter, Tally, Goto, confVars, workVars
  <2>3. /\ Pushed(c)' = 0 /\ Collected(c)' = 0 /\ Unsignalled(c)' = 0
    BY <2>2 DEF Pushed, Collected, Unsignalled
  <2>4. InNextTally(c)'
    BY <2>2, <2>3, IdleCounts DEF Idle, InNextTally
  <2>. QED  BY <2>2, <2>4, HeldTally
<1>2. CASE Push(c)
  <2>1. /\ cpc[c] = "push" /\ cpc'[c] = "signal" /\ frame' = frame
        /\ UNCHANGED <<mutex_extractor, terminate_p, sem_targs, sem_main, wpc, miners>>
    BY <1>2, <1>0 DEF Push, Goto, confVars, workVars
  <2>2. Len(targs') = Len(targs) + 1
    BY <1>2, <1>0 DEF Push
  <2>3. InNextTally(c) /\ mutex_extractor = c
    BY <2>1, <1>h
  <2>4. /\ Pushed(c) = frame[c].m - 1 /\ Collected(c) = 0 /\ Unsignalled(c) = 0
    BY <2>1 DEF Pushed, Collected, Unsignalled
  <2>5. /\ Pushed(c)' = frame[c].m /\ Collected(c)' = 0 /\ Unsignalled(c)' = 1
    BY <2>1 DEF Pushed, Collected, Unsignalled
  <2>6. /\ ~terminate_p' /\ CountIn(wpc', {"exited"}) = 0
        /\ CountIn(wpc', Awake) = CountIn(wpc, Awake)
        /\ CountIn(wpc', Busy) = CountIn(wpc, Busy)
        /\ sem_targs' = sem_targs /\ sem_main' = sem_main
    BY <2>1, <2>3 DEF InNextTally
  <2>7. sem_targs' + CountIn(wpc', Awake) + Unsignalled(c)' = Len(targs')
    BY SMTT(30), <2>1, <2>2, <2>3, <2>4, <2>5, <2>6, <1>n, <1>c DEF InNextTally
  <2>8. Len(targs') + CountIn(wpc', Busy) + sem_main' + Collected(c)' = Pushed(c)'
    <3>1. Len(targs) + CountIn(wpc, Busy) + sem_main + 0 = frame[c].m - 1
      BY <2>3, <2>4 DEF InNextTally
    <3>2. Len(targs') + CountIn(wpc', Busy) + sem_main' + 0 = frame[c].m
      BY SMTT(30), <3>1, <2>2, <2>6, <1>n, <1>c
    <3>. QED  BY <3>2, <2>5
  <2>9. InNextTally(c)'
    BY <2>6, <2>7, <2>8 DEF InNextTally
  <2>. QED  BY <2>1, <2>3, <2>9, HeldTally
<1>3. CASE Signal(c)
  <2>1. /\ cpc[c] = "signal" /\ cpc'[c] = "push" /\ frame'[c].m = frame[c].m + 1
        /\ sem_targs' = sem_targs + 1
        /\ UNCHANGED <<mutex_extractor, terminate_p, targs, sem_main, wpc, miners>>
    BY <1>3, <1>0 DEF Signal, Goto, confVars, workVars
  <2>3. InNextTally(c) /\ mutex_extractor = c
    BY <2>1, <1>h
  <2>4. /\ Pushed(c) = frame[c].m /\ Collected(c) = 0 /\ Unsignalled(c) = 1
    BY <2>1 DEF Pushed, Collected, Unsignalled
  <2>5. /\ Pushed(c)' = frame[c].m /\ Collected(c)' = 0 /\ Unsignalled(c)' = 0
    BY <2>1, <1>n DEF Pushed, Collected, Unsignalled
  <2>6. /\ ~terminate_p' /\ CountIn(wpc', {"exited"}) = 0
        /\ CountIn(wpc', Awake) = CountIn(wpc, Awake)
        /\ CountIn(wpc', Busy) = CountIn(wpc, Busy)
        /\ sem_targs' = sem_targs + 1 /\ sem_main' = sem_main /\ Len(targs') = Len(targs)
    BY <2>1, <2>3 DEF InNextTally
  <2>7. sem_targs' + CountIn(wpc', Awake) + Unsignalled(c)' = Len(targs')
    BY SMTT(30), <2>1, <2>3, <2>4, <2>5, <2>6, <1>n, <1>c DEF InNextTally
  <2>8. Len(targs') + CountIn(wpc', Busy) + sem_main' + Collected(c)' = Pushed(c)'
    BY <2>1, <2>3, <2>4, <2>5, <2>6, <1>n, <1>c DEF InNextTally
  <2>9. InNextTally(c)'
    BY <2>6, <2>7, <2>8 DEF InNextTally
  <2>. QED  BY <2>1, <2>3, <2>9, HeldTally
<1>4. CASE MoveStream(c)
  <2>1. /\ cpc[c] = "push" /\ cpc'[c] = "collect" /\ frame'[c].m = 1
        /\ frame[c].m > Len(miners)
        /\ UNCHANGED <<mutex_extractor, terminate_p, targs, sem_targs, sem_main, wpc, miners>>
    BY <1>4, <1>0 DEF MoveStream, Goto, poolVars, confVars, workVars
  <2>2. frame[c].m = Len(miners) + 1
    BY <2>1, <1>n DEF Loops
  <2>3. InNextTally(c) /\ mutex_extractor = c
    BY <2>1, <1>h
  <2>4. /\ Pushed(c) = Len(miners) /\ Collected(c) = 0 /\ Unsignalled(c) = 0
    BY <2>1, <2>2, <1>n DEF Pushed, Collected, Unsignalled
  <2>5. /\ Pushed(c)' = Len(miners) /\ Collected(c)' = 0 /\ Unsignalled(c)' = 0
    BY <2>1, <1>n DEF Pushed, Collected, Unsignalled
  <2>9. InNextTally(c)'
    BY <2>1, <2>3, <2>4, <2>5 DEF InNextTally
  <2>. QED  BY <2>1, <2>3, <2>9, HeldTally
<1>5. CASE Collect(c)
  <2>1. /\ cpc[c] = "collect" /\ cpc'[c] = "collect" /\ frame'[c].m = frame[c].m + 1
        /\ sem_main' = sem_main - 1
        /\ UNCHANGED <<mutex_extractor, terminate_p, targs, sem_targs, wpc, miners>>
    BY <1>5, <1>0 DEF Collect, confVars, workVars
  <2>3. InNextTally(c) /\ mutex_extractor = c
    BY <2>1, <1>h
  <2>4. /\ Pushed(c) = Len(miners) /\ Collected(c) = frame[c].m - 1 /\ Unsignalled(c) = 0
    BY <2>1, <1>n DEF Pushed, Collected, Unsignalled
  <2>5. /\ Pushed(c)' = Len(miners) /\ Collected(c)' = frame[c].m /\ Unsignalled(c)' = 0
    BY <2>1, <1>n DEF Pushed, Collected, Unsignalled
  <2>6. /\ ~terminate_p' /\ CountIn(wpc', {"exited"}) = 0
        /\ CountIn(wpc', Awake) = CountIn(wpc, Awake)
        /\ CountIn(wpc', Busy) = CountIn(wpc, Busy)
        /\ sem_targs' = sem_targs /\ sem_main' = sem_main - 1 /\ Len(targs') = Len(targs)
    BY <2>1, <2>3 DEF InNextTally
  <2>7. sem_targs' + CountIn(wpc', Awake) + Unsignalled(c)' = Len(targs')
    BY <2>1, <2>3, <2>4, <2>5, <2>6, <1>n, <1>c DEF InNextTally
  <2>8. Len(targs') + CountIn(wpc', Busy) + sem_main' + Collected(c)' = Pushed(c)'
    <3>1. Len(targs) + CountIn(wpc, Busy) + sem_main + (frame[c].m - 1) = Len(miners)
      BY <2>3, <2>4 DEF InNextTally
    <3>2. CountIn(wpc', Busy) = CountIn(wpc, Busy)
      BY <2>6
    <3>3. sem_main' = sem_main - 1 /\ Len(targs') = Len(targs)
      BY <2>6
    <3>4. Len(targs) + CountIn(wpc, Busy) + (sem_main - 1) + frame[c].m = Len(miners)
      BY SMTT(30), <3>1, <1>n, <1>c
    <3>5. Len(targs') + CountIn(wpc', Busy) + sem_main' + frame[c].m = Len(miners)
      BY <3>2, <3>3, <3>4
    <3>. QED  BY <3>5, <2>5
  <2>9. InNextTally(c)'
    BY <2>6, <2>7, <2>8 DEF InNextTally
  <2>. QED  BY <2>1, <2>3, <2>9, HeldTally
<1>6. CASE Finish(c)
  <2>1. /\ cpc[c] = "collect" /\ mutex_extractor' = Nobody
        /\ frame[c].m > Len(miners)
        /\ UNCHANGED <<terminate_p, targs, sem_targs, sem_main, wpc>>
    BY <1>6 DEF Finish, poolVars, workVars
  <2>2. frame[c].m = Len(miners) + 1
    BY <2>1, <1>n DEF Loops
  <2>3. InNextTally(c)
    BY <2>1, <1>h
  <2>4. /\ Pushed(c) = Len(miners) /\ Collected(c) = Len(miners) /\ Unsignalled(c) = 0
    BY <2>1, <2>2, <1>n DEF Pushed, Collected, Unsignalled
  <2>5. Len(targs) = 0 /\ CountIn(wpc, Busy) = 0 /\ sem_main = 0
    <3>1. Len(targs) + CountIn(wpc, Busy) + sem_main + Len(miners) = Len(miners)
      BY <2>3, <2>4 DEF InNextTally
    <3>. QED  BY <3>1, <1>n, <1>c
  <2>6. sem_targs = 0 /\ CountIn(wpc, Awake) = 0
    BY <2>3, <2>4, <2>5, <1>n, <1>c DEF InNextTally
  <2>7. ~terminate_p /\ CountIn(wpc, {"exited"}) = 0
    BY <2>3 DEF InNextTally
  <2>8. \A w \in Threads : wpc[w] \notin Awake \cup Busy \cup {"exited"}
    BY <2>5, <2>6, <2>7, CountZero
  <2>9. CountIn(wpc, Awake \cup Busy \cup {"exited"}) = 0
    BY <2>8, CountZero
  <2>10. targs = <<>>
    BY <2>5, <1>0, EmptySeq
  <2>11. Idle'
    BY <2>1, <2>5, <2>6, <2>7, <2>9, <2>10 DEF Idle
  <2>. QED  BY <2>1, <2>11, FreeTally
<1>. QED  BY <1>1, <1>2, <1>3, <1>4, <1>5, <1>6

\* The steps of destroy under the mutex keep the account.
LEMMA DestroyTally ==
  ASSUME TypeOK, Holder, Loops, Tally, Holder', NEW c \in Clients,
         SetTerminate(c) \/ PostTerminate(c) \/ Join(c) \/ Teardown(c)
  PROVE  Tally'
<1>. DEFINE N == Cardinality(Threads)
<1>0. /\ cpc \in [Clients -> {"idle", "attach", "error", "push", "signal", "collect", "return",
                              "destroy", "terminate", "join", "gone"}]
      /\ frame \in [Clients -> [text : Texts \cup {NoText}, batch : Nat, from : Nat,
                                m : Nat \ {0}, cap : Nat]]
  BY DEF TypeOK
<1>n. /\ frame[c].m \in Nat /\ N \in Nat
      /\ sem_targs \in Nat /\ sem_main \in Nat
  <2>1. N \in Nat
    BY FS_CardinalityType, ConstantsAssumption
  <2>2. sem_targs \in Nat /\ sem_main \in Nat
    BY DEF TypeOK
  <2>3. frame[c].m \in Nat
    BY <1>0
  <2>. QED  BY <2>1, <2>2, <2>3
<1>c. CountIn(wpc, {"check"}) \in Nat /\ CountIn(wpc, {"exited"}) \in Nat
  BY CountNat
<1>h. cpc[c] \in {"terminate", "join", "gone"} => mutex_extractor = c /\ InDestroyTally(c)
  BY DEF Holder, Tally
<1>1. CASE SetTerminate(c)
  <2>1. /\ Idle /\ mutex_extractor' = c /\ cpc'[c] = "terminate" /\ frame'[c].m = 1
        /\ terminate_p'
        /\ UNCHANGED <<sem_targs, sem_main, targs, wpc>>
    BY <1>1, <1>0 DEF SetTerminate, Tally, Goto, workVars
  <2>2. Posted(c)' = 0 /\ Joined(c)' = 0
    BY <2>1 DEF Posted, Joined
  <2>3. InDestroyTally(c)'
    BY <2>1, <2>2, IdleCounts DEF Idle, InDestroyTally
  <2>4. ~InNext(c)'
    BY <2>1 DEF InNext
  <2>. QED  BY <2>1, <2>3, <2>4, HeldTally
<1>2. CASE PostTerminate(c) /\ frame[c].m <= N
  <2>1. /\ cpc[c] = "terminate" /\ cpc' = cpc /\ frame'[c].m = frame[c].m + 1
        /\ sem_targs' = sem_targs + 1
        /\ UNCHANGED <<mutex_extractor, terminate_p, sem_main, targs, wpc>>
    BY <1>2, <1>0 DEF PostTerminate, workVars
  <2>2. InDestroyTally(c) /\ mutex_extractor' = c /\ ~InNext(c)'
    BY <2>1, <1>h DEF InNext
  <2>3. /\ Posted(c) = frame[c].m - 1 /\ Joined(c) = 0
        /\ Posted(c)' = frame[c].m /\ Joined(c)' = 0
    BY <2>1, <1>n DEF Posted, Joined
  <2>4. sem_targs + CountIn(wpc, {"check"}) + CountIn(wpc, {"exited"}) = frame[c].m - 1
    BY <2>2, <2>3 DEF InDestroyTally
  <2>5. (sem_targs + 1) + CountIn(wpc, {"check"}) + CountIn(wpc, {"exited"}) = frame[c].m
    BY <2>4, <1>n, <1>c
  <2>6. InDestroyTally(c)'
    BY <2>1, <2>2, <2>3, <2>5 DEF InDestroyTally
  <2>. QED  BY <2>2, <2>6, HeldTally
<1>3. CASE PostTerminate(c) /\ ~(frame[c].m <= N)
  <2>1. /\ cpc[c] = "terminate" /\ cpc'[c] = "join" /\ frame'[c].m = 1
        /\ UNCHANGED <<mutex_extractor, terminate_p, sem_targs, sem_main, targs, wpc>>
    BY <1>3, <1>0 DEF PostTerminate, Goto, workVars
  <2>2. InDestroyTally(c) /\ mutex_extractor' = c /\ ~InNext(c)'
    BY <2>1, <1>h DEF InNext
  <2>3. frame[c].m = N + 1
    BY <2>1, <1>3, <1>n DEF Loops
  <2>4. /\ Posted(c) = N /\ Joined(c) = 0 /\ Posted(c)' = N /\ Joined(c)' = 0
    BY <2>1, <2>3, <1>n DEF Posted, Joined
  <2>5. InDestroyTally(c)'
    BY <2>1, <2>2, <2>4 DEF InDestroyTally
  <2>. QED  BY <2>2, <2>5, HeldTally
<1>4. CASE Join(c)
  <2>1. /\ cpc[c] = "join" /\ cpc' = cpc /\ frame'[c].m = frame[c].m + 1
        /\ sem_main' = sem_main - 1
        /\ UNCHANGED <<mutex_extractor, terminate_p, sem_targs, targs, wpc>>
    BY <1>4, <1>0 DEF Join, workVars
  <2>2. InDestroyTally(c) /\ mutex_extractor' = c /\ ~InNext(c)'
    BY <2>1, <1>h DEF InNext
  <2>3. /\ Posted(c) = N /\ Joined(c) = frame[c].m - 1
        /\ Posted(c)' = N /\ Joined(c)' = frame[c].m
    BY <2>1, <1>n DEF Posted, Joined
  <2>4. sem_main + (frame[c].m - 1) = CountIn(wpc, {"exited"})
    BY <2>2, <2>3 DEF InDestroyTally
  <2>5. (sem_main - 1) + frame[c].m = CountIn(wpc, {"exited"})
    BY <2>4, <1>n, <1>c
  <2>6. InDestroyTally(c)'
    BY <2>1, <2>2, <2>3, <2>5 DEF InDestroyTally
  <2>. QED  BY <2>2, <2>6, HeldTally
<1>5. CASE Teardown(c)
  <2>1. /\ cpc[c] = "join" /\ cpc'[c] = "gone" /\ frame[c].m > N
        /\ UNCHANGED <<mutex_extractor, terminate_p, sem_targs, sem_main, targs, wpc, frame>>
    BY <1>5, <1>0 DEF Teardown, Goto, poolVars, workVars
  <2>2. InDestroyTally(c) /\ mutex_extractor' = c /\ ~InNext(c)'
    BY <2>1, <1>h DEF InNext
  <2>3. frame[c].m = N + 1
    BY <2>1, <1>n DEF Loops
  <2>4. /\ Posted(c) = N /\ Joined(c) = N /\ Posted(c)' = N /\ Joined(c)' = N
    BY <2>1, <2>3, <1>n DEF Posted, Joined
  <2>5. InDestroyTally(c)'
    BY <2>1, <2>2, <2>4 DEF InDestroyTally
  <2>. QED  BY <2>2, <2>5, HeldTally
<1>. QED  BY <1>1, <1>2, <1>3, <1>4, <1>5

\* SetFlags and Return touch neither the pool nor the mutex.
LEMMA OutsideTally ==
  ASSUME TypeOK, Tally, NEW c \in Clients,
         \/ \E fs \in FlagArgs, value \in BOOLEAN : SetFlags(c, fs, value)
         \/ Return(c)
  PROVE  Tally'
<1>1. /\ UNCHANGED <<mutex_extractor, sem_targs, sem_main, targs, terminate_p, wpc, frame,
                     miners>>
      /\ cpc' = cpc \/ (cpc[c] = "return" /\ cpc' = [cpc EXCEPT ![c] = "idle"])
  BY DEF SetFlags, Return, Goto, poolVars, confVars, callVars, workVars
<1>2. \A d \in Clients : cpc'[d] = cpc[d] \/ (cpc[d] = "return" /\ cpc'[d] = "idle")
  <2>1. DOMAIN cpc = Clients
    BY DEF TypeOK
  <2>2. CASE cpc' = cpc
    BY <2>2
  <2>3. CASE cpc[c] = "return" /\ cpc' = [cpc EXCEPT ![c] = "idle"]
    BY <2>1, <2>3
  <2>. QED  BY <1>1, <2>2, <2>3
<1>3. ASSUME NEW d \in Clients, cpc'[d] = cpc[d]
      PROVE  /\ InNextTally(d)' <=> InNextTally(d)
             /\ InDestroyTally(d)' <=> InDestroyTally(d)
  BY <1>1, <1>3 DEF InNextTally, InDestroyTally, Pushed, Collected, Unsignalled, Posted, Joined
<1>4. Idle' <=> Idle
  BY <1>1 DEF Idle
<1>5. ASSUME NEW d \in Clients, InNext(d)'
      PROVE  InNextTally(d)'
  BY <1>2, <1>3, <1>5 DEF Tally, InNext
<1>6. ASSUME NEW d \in Clients, cpc'[d] \in {"terminate", "join", "gone"}
      PROVE  InDestroyTally(d)'
  BY <1>2, <1>3, <1>6 DEF Tally
<1>. QED  BY <1>1, <1>4, <1>5, <1>6 DEF Tally

\* Every step keeps the account.
LEMMA TallyStep ==
  ASSUME TypeOK, Holder, Loops, Tally, Holder', [Next]_vars
  PROVE  Tally'
<1>1. ASSUME NEW c \in Clients, CallStep(c)
      PROVE  Tally'
  <2>1. CASE Attach(c) \/ RefuseStream(c) \/ SetLastError(c)
    <3>1. /\ mutex_extractor = Nobody
          /\ UNCHANGED <<mutex_extractor, sem_targs, sem_main, terminate_p, wpc, targs>>
      BY <2>1 DEF Attach, RefuseStream, SetLastError, poolVars, workVars
    <3>. QED  BY <3>1, FreeSteps
  <2>2. CASE Push(c) \/ Signal(c) \/ MoveStream(c) \/ Collect(c) \/ Finish(c)
    BY <2>2, NextTally
  <2>3. CASE SetTerminate(c) \/ PostTerminate(c) \/ Join(c) \/ Teardown(c)
    BY <2>3, DestroyTally
  <2>4. CASE Return(c)
    BY <2>4, OutsideTally
  <2>. QED  BY <1>1, <2>1, <2>2, <2>3, <2>4 DEF CallStep
<1>2. ASSUME NEW c \in Clients, Call(c)
      PROVE  Tally'
  <2>1. CASE (\E m \in Miners : AddMiner(c, m)) \/ (\E t \in Texts : SetStream(c, t))
             \/ UnsetStream(c) \/ Destroy(c)
    <3>1. /\ mutex_extractor = Nobody
          /\ UNCHANGED <<mutex_extractor, sem_targs, sem_main, terminate_p, wpc>>
          /\ targs' \in {targs, <<>>}
      BY <2>1 DEF AddMiner, SetStream, UnsetStream, Destroy, Unset, workVars
    <3>. QED  BY <3>1, FreeSteps
  <2>2. CASE \E fs \in FlagArgs, value \in BOOLEAN : SetFlags(c, fs, value)
    BY <2>2, OutsideTally
  <2>3. CASE \E b \in Batches : NextEnter(c, b)
    BY <2>3, NextTally
  <2>. QED  BY <1>2, <2>1, <2>2, <2>3 DEF Call
<1>3. ASSUME NEW w \in Threads, ThreadStep(w)
      PROVE  Tally'
  BY <1>3, ThreadTally
<1>4. CASE UNCHANGED vars
  <2>1. UNCHANGED <<mutex_extractor, sem_targs, sem_main, targs, terminate_p, wpc, frame,
                    miners, cpc>>
    BY <1>4 DEF vars, poolVars, confVars, callVars, workVars
  <2>. QED  BY <2>1 DEF Tally, Idle, InNext, InNextTally, InDestroyTally, Pushed, Collected,
                        Unsignalled, Posted, Joined
<1>. QED  BY <1>1, <1>2, <1>3, <1>4 DEF Next

-----------------------------------------------------------------------------
(* The array of jobs is allocated *)

\* Every step leaves room for a job of each miner while next may push.
LEMMA AllocatedStep ==
  ASSUME TypeOK, Holder, Allocated, [Next]_vars
  PROVE  Allocated'
<1>0. /\ cpc \in [Clients -> {"idle", "attach", "error", "push", "signal", "collect", "return",
                              "destroy", "terminate", "join", "gone"}]
      /\ Len(miners) \in Nat /\ targs_cap \in Nat /\ miners \in Seq(Miners)
  BY DEF TypeOK
<1>1. ASSUME NEW c \in Clients, CallStep(c)
      PROVE  Allocated'
  <2>1. CASE Attach(c)
    BY <2>1, <1>0 DEF Attach, Allocated, Goto, InNext, poolVars, confVars, callVars
  <2>2. CASE RefuseStream(c)
    BY <2>2, <1>0 DEF RefuseStream, Allocated, Goto, InNext, poolVars, confVars, callVars
  <2>3. CASE SetLastError(c)
    BY <2>3, <1>0 DEF SetLastError, Allocated, Goto, InNext, poolVars, confVars, callVars
  <2>4. CASE Push(c)
    BY <2>4, <1>0 DEF Push, Allocated, Goto, InNext, poolVars, confVars, callVars
  <2>5. CASE Signal(c)
    BY <2>5, <1>0 DEF Signal, Allocated, Goto, InNext, poolVars, confVars, callVars
  <2>6. CASE MoveStream(c)
    BY <2>6, <1>0 DEF MoveStream, Allocated, Goto, InNext, poolVars, confVars, callVars
  <2>7. CASE Collect(c)
    BY <2>7, <1>0 DEF Collect, Allocated, Goto, InNext, poolVars, confVars, callVars
  <2>8. CASE Finish(c)
    BY <2>8, <1>0 DEF Finish, Allocated, Goto, InNext, poolVars, confVars, callVars
  <2>9. CASE Return(c)
    BY <2>9, <1>0 DEF Return, Allocated, Goto, InNext, poolVars, confVars, callVars
  <2>10. CASE SetTerminate(c)
    BY <2>10, <1>0 DEF SetTerminate, Allocated, Goto, InNext, poolVars, confVars, callVars
  <2>11. CASE PostTerminate(c)
    BY <2>11, <1>0 DEF PostTerminate, Allocated, Goto, InNext, poolVars, confVars, callVars
  <2>12. CASE Join(c)
    BY <2>12, <1>0 DEF Join, Allocated, Goto, InNext, poolVars, confVars, callVars
  <2>13. CASE Teardown(c)
    BY <2>13, <1>0 DEF Teardown, Allocated, Goto, InNext, poolVars, confVars, callVars
  <2>. QED  BY <1>1, <2>1, <2>2, <2>3, <2>4, <2>5, <2>6, <2>7, <2>8, <2>9, <2>10, <2>11,
              <2>12, <2>13 DEF CallStep
<1>2. ASSUME NEW c \in Clients, Call(c)
      PROVE  Allocated'
  <2>1. CASE \E m \in Miners : AddMiner(c, m)
    <3>1. PICK m \in Miners : AddMiner(c, m)
      BY <2>1
    <3>. QED  BY <3>1, <1>0 DEF AddMiner, Allocated, AllIdle, InNext, callVars
  <2>2. CASE \E t \in Texts : SetStream(c, t)
    BY <2>2, <1>0 DEF SetStream, Allocated, AllIdle, Unset, Goto, InNext, poolVars, confVars, callVars
  <2>3. CASE UnsetStream(c)
    BY <2>3, <1>0 DEF UnsetStream, Allocated, AllIdle, Unset, Goto, InNext, poolVars, confVars, callVars
  <2>4. CASE \E fs \in FlagArgs, value \in BOOLEAN : SetFlags(c, fs, value)
    BY <2>4, <1>0 DEF SetFlags, Allocated, AllIdle, Unset, Goto, InNext, poolVars, confVars, callVars
  <2>5. CASE \E b \in Batches : NextEnter(c, b)
    BY <2>5, <1>0 DEF NextEnter, Allocated, AllIdle, Unset, Goto, InNext, poolVars, confVars, callVars
  <2>6. CASE Destroy(c)
    BY <2>6, <1>0 DEF Destroy, Allocated, AllIdle, Unset, Goto, InNext, poolVars, confVars, callVars
  <2>. QED  BY <1>2, <2>1, <2>2, <2>3, <2>4, <2>5, <2>6 DEF Call
<1>3. ASSUME NEW w \in Threads, ThreadStep(w)
      PROVE  Allocated'
  <2>1. UNCHANGED <<miners, cpc, threads_inited, targs_cap>>
    BY <1>3 DEF ThreadStep, WaitTargs, Quit, GoOn, Pop, SkipPosition, RunMiner, LockPout,
                DropEnclosed, Store, Bump, PostMain, callerVars, poolVars, callVars,
                confVars
  <2>. QED  BY <2>1 DEF Allocated, InNext
<1>4. CASE UNCHANGED vars
  BY <1>4 DEF vars, poolVars, callVars, confVars, Allocated, InNext
<1>. QED  BY <1>1, <1>2, <1>3, <1>4 DEF Next

-----------------------------------------------------------------------------
(* Miners are attached to the stream *)

\* Every step leaves the miners on the stream that is set.
LEMMA AttachedStep ==
  ASSUME TypeOK, Holder, Attached, [Next]_vars
  PROVE  Attached'
<1>0. /\ cpc \in [Clients -> {"idle", "attach", "error", "push", "signal", "collect", "return",
                              "destroy", "terminate", "join", "gone"}]
      /\ frame \in [Clients -> [text : Texts \cup {NoText}, batch : Nat, from : Nat,
                                m : Nat \ {0}, cap : Nat]]
      /\ miners \in Seq(Miners) /\ NoText \notin Texts
      /\ mstate \in [Miners -> [text : Texts \cup {NoText}, pos : Nat, end_last : Nat,
                                pos_last : Nat]]
  BY ConstantsAssumption DEF TypeOK
<1>1. ASSUME NEW c \in Clients, CallStep(c)
      PROVE  Attached'
  <2>1. CASE Attach(c)
    <3>1. /\ mutex_extractor = Nobody /\ stream' = frame[c].text /\ cpc[c] = "attach"
          /\ frame[c].text \notin Unreadable
          /\ UNCHANGED <<miners, frame>> /\ cpc' = [cpc EXCEPT ![c] = "idle"]
      BY <2>1 DEF Attach, Goto
    <3>2. \A i \in DOMAIN miners : mstate'[miners[i]].text = stream'
      BY <2>1, <1>0 DEF Attach, SeqRange
    <3>3. \A d \in Clients : ~InNext(d)'
      BY <3>1, <1>0, FreeMutex DEF InNext
    <3>. QED  BY <3>1, <3>2, <3>3, <1>0 DEF Attached
  <2>2. CASE RefuseStream(c)
    <3>1. /\ mutex_extractor = Nobody /\ stream' = frame[c].text
          /\ frame[c].text \in Unreadable
          /\ UNCHANGED <<miners, frame, mstate>> /\ cpc' = [cpc EXCEPT ![c] = "error"]
      BY <2>2 DEF RefuseStream, Goto, confVars
    <3>3. \A d \in Clients : ~InNext(d)'
      BY <3>1, <1>0, FreeMutex DEF InNext
    <3>. QED  BY <3>1, <3>3, <1>0 DEF Attached
  <2>3. CASE SetLastError(c)
    BY <2>3, <1>0 DEF SetLastError, Attached, Goto, InNext, poolVars, confVars, callVars
  <2>4. CASE Push(c)
    <3>1. /\ UNCHANGED <<frame, miners, stream>>
          /\ cpc' = [cpc EXCEPT ![c] = "signal"] /\ cpc[c] = "push"
          /\ mstate' = [mstate EXCEPT ![miners[frame[c].m]].pos = spos[stream]]
      BY <2>4 DEF Push, Goto, confVars
    <3>2. \A i \in DOMAIN miners : mstate'[miners[i]].text = mstate[miners[i]].text
      BY <3>1, <1>0
    <3>. QED  BY <3>1, <3>2, <1>0 DEF Attached, InNext
  <2>5. CASE Signal(c)
    BY <2>5, <1>0 DEF Signal, Attached, Goto, InNext, poolVars, confVars, callVars
  <2>6. CASE MoveStream(c)
    BY <2>6, <1>0 DEF MoveStream, Attached, Goto, InNext, poolVars, confVars, callVars
  <2>7. CASE Collect(c)
    BY <2>7, <1>0 DEF Collect, Attached, Goto, InNext, poolVars, confVars, callVars
  <2>8. CASE Finish(c)
    BY <2>8, <1>0 DEF Finish, Attached, Goto, InNext, poolVars, confVars, callVars
  <2>9. CASE Return(c)
    BY <2>9, <1>0 DEF Return, Attached, Goto, InNext, poolVars, confVars, callVars
  <2>10. CASE SetTerminate(c)
    BY <2>10, <1>0 DEF SetTerminate, Attached, Goto, InNext, poolVars, confVars, callVars
  <2>11. CASE PostTerminate(c)
    <3>1. /\ UNCHANGED <<miners, stream, mstate>> /\ cpc[c] = "terminate"
          /\ cpc' = cpc \/ cpc' = [cpc EXCEPT ![c] = "join"]
          /\ \/ frame' = [frame EXCEPT ![c].m = @ + 1]
             \/ frame' = [frame EXCEPT ![c].m = 1]
      BY <2>11 DEF PostTerminate, Goto, confVars
    <3>2. \A d \in Clients : frame'[d].text = frame[d].text
      <4>1. CASE frame' = [frame EXCEPT ![c].m = @ + 1]
        BY <4>1, <1>0
      <4>2. CASE frame' = [frame EXCEPT ![c].m = 1]
        BY <4>2, <1>0
      <4>. QED  BY <3>1, <4>1, <4>2
    <3>. QED  BY <3>1, <3>2, <1>0 DEF Attached, InNext
  <2>12. CASE Join(c)
    BY <2>12, <1>0 DEF Join, Attached, Goto, InNext, poolVars, confVars, callVars
  <2>13. CASE Teardown(c)
    BY <2>13, <1>0 DEF Teardown, Attached, Goto, InNext, poolVars, confVars, callVars
  <2>. QED  BY <1>1, <2>1, <2>2, <2>3, <2>4, <2>5, <2>6, <2>7, <2>8, <2>9, <2>10, <2>11,
              <2>12, <2>13 DEF CallStep
<1>2. ASSUME NEW c \in Clients, Call(c)
      PROVE  Attached'
  <2>1. CASE \E m \in Miners : AddMiner(c, m)
    BY <2>1, <1>0 DEF AddMiner, Attached, AllIdle, Unset, Goto, InNext, poolVars, confVars, callVars
  <2>2. CASE \E t \in Texts : SetStream(c, t)
    BY <2>2, <1>0 DEF SetStream, Attached, AllIdle, Unset, Goto, InNext, poolVars, confVars, callVars
  <2>3. CASE UnsetStream(c)
    BY <2>3, <1>0 DEF UnsetStream, Attached, AllIdle, Unset, Goto, InNext, poolVars, confVars, callVars
  <2>4. CASE \E fs \in FlagArgs, value \in BOOLEAN : SetFlags(c, fs, value)
    BY <2>4, <1>0 DEF SetFlags, Attached, AllIdle, Unset, Goto, InNext, poolVars, confVars, callVars
  <2>5. CASE \E b \in Batches : NextEnter(c, b)
    BY <2>5, <1>0 DEF NextEnter, Attached, AllIdle, Unset, Goto, InNext, poolVars, confVars, callVars
  <2>6. CASE Destroy(c)
    BY <2>6, <1>0 DEF Destroy, Attached, AllIdle, Unset, Goto, InNext, poolVars, confVars, callVars
  <2>. QED  BY <1>2, <2>1, <2>2, <2>3, <2>4, <2>5, <2>6 DEF Call
<1>3. ASSUME NEW w \in Threads, ThreadStep(w)
      PROVE  Attached'
  <2>1. UNCHANGED <<miners, cpc, frame, stream>>
    BY <1>3 DEF ThreadStep, WaitTargs, Quit, GoOn, Pop, SkipPosition, RunMiner, LockPout,
                DropEnclosed, Store, Bump, PostMain, callerVars, poolVars, callVars,
                confVars
  <2>2. \A m \in Miners : mstate'[m].text = mstate[m].text
    <3>1. CASE SkipPosition(w)
      BY <3>1, <1>0 DEF SkipPosition
    <3>2. CASE RunMiner(w)
      <4>. DEFINE r == Matcher[job[w].miner][State(w).text][State(w).pos]
      <4>1. mstate' = [mstate EXCEPT ![job[w].miner] = AfterRun(State(w), r)]
        BY <3>2 DEF RunMiner
      <4>. HIDE DEF r
      <4>2. \A m \in Miners : m = job[w].miner => State(w) = mstate[m]
        BY DEF State
      <4>3. \A m \in Miners : AfterRun(mstate[m], r).text = mstate[m].text
        BY <1>0 DEF AfterRun
      <4>. QED  BY <1>0, <4>1, <4>2, <4>3
    <3>3. CASE UNCHANGED mstate
      BY <3>3
    <3>. QED  BY <1>3, <3>1, <3>2, <3>3 DEF ThreadStep, WaitTargs, Quit, GoOn, Pop,
              LockPout, DropEnclosed, Store, Bump, PostMain
  <2>. QED  BY <2>1, <2>2, <1>0 DEF Attached, InNext
<1>4. CASE UNCHANGED vars
  BY <1>4 DEF vars, callVars, confVars, Attached, InNext
<1>. QED  BY <1>1, <1>2, <1>3, <1>4 DEF Next

-----------------------------------------------------------------------------
(* Types *)

\* The type invariant, by groups of variables
MutexOK == mutex_extractor \in Clients \cup {Nobody}
PoolOK ==
  /\ sem_targs \in Nat /\ sem_main \in Nat
  /\ targs \in Seq(Job) /\ targs_cap \in Nat
  /\ threads_inited \in BOOLEAN /\ terminate_p \in BOOLEAN
ConfOK ==
  /\ flags \subseteq Flags /\ miners \in Seq(Miners)
  /\ stream \in Texts \cup {NoText} /\ last_error \in BOOLEAN
ScanOK ==
  /\ last_max \in Nat
  /\ spos \in [Texts -> Nat]
  /\ mstate \in [Miners -> [text : Texts \cup {NoText}, pos : Nat, end_last : Nat,
                            pos_last : Nat]]
CallOK ==
  /\ cpc \in [Clients -> {"idle", "attach", "error", "push", "signal", "collect", "return",
                          "destroy", "terminate", "join", "gone"}]
  /\ frame \in [Clients -> [text : Texts \cup {NoText}, batch : Nat, from : Nat, m : Nat \ {0},
                            cap : Nat]]
BufOK ==
  /\ mutex_pout \in Threads \cup {Nobody}
  /\ out \in [Clients -> Seq(Occurrence)]
  /\ pout \in [Clients -> Nat]
WorkOK ==
  /\ wpc \in [Threads -> {"wait", "check", "pop", "scan", "lock", "store", "bump", "exited"}]
  /\ job \in [Threads -> Job \cup {NoJob}]
  /\ cur \in [Threads -> Occurrence \cup {NoOccurrence}]
HistOK == received \in Seq(Occurrence) /\ origin \in Nat /\ calls \in Nat

LEMMA TypeParts ==
  TypeOK <=> /\ MutexOK /\ PoolOK /\ ConfOK /\ ScanOK
             /\ CallOK /\ BufOK /\ WorkOK /\ HistOK
BY DEF TypeOK, MutexOK, PoolOK, ConfOK, ScanOK, CallOK, BufOK, WorkOK, HistOK

\* What is kept of a batch is a sequence of occurrences: the filter only drops
\* cells.
LEMMA KeptTypes ==
  ASSUME TypeOK, Buffer, NEW c \in Clients,
         NEW kept \in IF "E_NO_ENCLOSED_OCCURRENCES" \in flags
                      THEN Longest(SubSeq(out[c], 1, pout[c]))
                      ELSE {SubSeq(out[c], 1, pout[c])}
  PROVE  kept \in Seq(Occurrence) /\ Len(kept) \in Nat
<1>1. out[c] \in Seq(Occurrence) /\ pout[c] \in Nat
  BY DEF TypeOK
<1>2. SubSeq(out[c], 1, pout[c]) \in Seq(Occurrence)
  <2>1. Len(out[c]) \in Nat /\ (Len(out[c]) = pout[c] \/ Len(out[c]) = pout[c] + 1)
    BY <1>1 DEF Buffer
  <2>2. \A i \in 1 .. pout[c] : out[c][i] \in Occurrence
    BY <1>1, <2>1
  <2>. QED  BY <1>1, <2>2, SubSeqProperties
<1>3. ASSUME NEW s \in Seq(Occurrence), NEW k \in Longest(s)
      PROVE  k \in Seq(Occurrence)
  <2>. DEFINE keep == Unenclosed(s)
              n == Cardinality(keep)
  <2>1. keep \subseteq DOMAIN s /\ IsFiniteSet(DOMAIN s)
    BY FS_Interval DEF Unenclosed
  <2>2. n \in Nat
    BY <2>1, FS_Subset, FS_CardinalityType
  <2>3. PICK at \in [1 .. n -> keep] : k = [i \in 1 .. n |-> s[at[i]]]
    BY <1>3 DEF Longest, InOrder
  <2>. HIDE DEF n, keep
  <2>4. \A i \in 1 .. n : s[at[i]] \in Occurrence
    BY <2>1, <2>3
  <2>. QED  BY <2>2, <2>3, <2>4
<1>4. kept \in Seq(Occurrence)
  <2>1. CASE "E_NO_ENCLOSED_OCCURRENCES" \in flags
    BY <2>1, <1>2, <1>3
  <2>2. CASE "E_NO_ENCLOSED_OCCURRENCES" \notin flags
    BY <2>2, <1>2
  <2>. QED  BY <2>1, <2>2
<1>. QED  BY <1>4

\* A sort returns as many occurrences as it was given.
LEMMA OrdersTypes ==
  ASSUME NEW S, NEW s \in Seq(S), NEW r \in Orders(s)
  PROVE  r \in Seq(S) /\ Len(r) = Len(s)
<1>1. PICK p \in [DOMAIN s -> DOMAIN s] : r = [i \in DOMAIN s |-> s[p[i]]]
  BY DEF Orders
<1>2. DOMAIN s = 1 .. Len(s) /\ Len(s) \in Nat
  OBVIOUS
<1>3. \A i \in 1 .. Len(s) : s[p[i]] \in S
  BY <1>1, <1>2
<1>. QED  BY <1>1, <1>2, <1>3

\* What a run leaves in a miner is typed.
LEMMA AfterRunTypes ==
  ASSUME NEW s \in [text : Texts \cup {NoText}, pos : Nat, end_last : Nat, pos_last : Nat],
         NEW r \in [start : Nat, end : Nat, to : Nat]
  PROVE  AfterRun(s, r) \in [text : Texts \cup {NoText}, pos : Nat, end_last : Nat,
                             pos_last : Nat]
<1>1. MaxOf(r.to, s.pos + 1) \in Nat /\ MaxOf(r.end, r.to) \in Nat /\ r.end \in Nat
  BY DEF MaxOf
<1>. QED  BY <1>1 DEF AfterRun

\* What RunMiner computes from the matcher is typed.
LEMMA RunTypes ==
  ASSUME TypeOK, Jobs, Attached, NEW w \in Threads, Scanning(w)
  PROVE  /\ Matcher[job[w].miner][State(w).text][State(w).pos]
              \in [start : Nat, end : Nat, to : Nat]
         /\ State(w).pos \in Nat /\ State(w).end_last \in Nat
<1>1. /\ job[w] \in Job /\ Due(job[w]) /\ State(w).pos < Size[State(w).text]
  BY DEF Scanning, Jobs, Working
<1>2. job[w].miner \in Miners /\ job[w].pout \in Clients
  BY <1>1 DEF Job
<1>3. State(w).pos \in Nat /\ State(w).end_last \in Nat
  BY <1>2 DEF State, TypeOK
<1>4. stream \in Texts \ Unreadable
  BY <1>1, <1>2 DEF Due, Attached
<1>5. State(w).text = stream
  BY <1>1, <1>4 DEF Due, PushedMiners, Attached, State
<1>6. Size[stream] \in Nat
  BY <1>4, ConstantsAssumption
<1>7. State(w).pos \in 0 .. Size[stream] - 1
  BY <1>1, <1>3, <1>5, <1>6
<1>. QED  BY <1>2, <1>3, <1>4, <1>5, <1>7, MatcherAssumption

\* Nobody or a caller holds mutex_extractor.
LEMMA MutexTypes ==
  ASSUME TypeOK, [Next]_vars
  PROVE  MutexOK'
<1>0. MutexOK
  BY TypeParts
<1>1. ASSUME NEW c \in Clients, CallStep(c)
      PROVE  MutexOK'
  <2>1. CASE Finish(c)
    BY <1>0, <2>1 DEF Finish, MutexOK
  <2>2. CASE SetTerminate(c)
    BY <1>0, <2>2 DEF SetTerminate, MutexOK
  <2>3. CASE UNCHANGED mutex_extractor
    BY <1>0, <2>3 DEF MutexOK
  <2>. QED  BY <1>1, <2>1, <2>2, <2>3 DEF CallStep, Attach, RefuseStream, SetLastError, Push, Signal, MoveStream,
              Collect, Return, PostTerminate, Join, Teardown, poolVars, confVars,
              callVars, bufVars, workVars, histVars
<1>2. ASSUME NEW c \in Clients, Call(c)
      PROVE  MutexOK'
  <2>1. CASE \E b \in Batches : NextEnter(c, b)
    BY <1>0, <2>1 DEF NextEnter, MutexOK
  <2>2. CASE UNCHANGED mutex_extractor
    BY <1>0, <2>2 DEF MutexOK
  <2>. QED  BY <1>2, <2>1, <2>2 DEF Call, AddMiner, SetStream, UnsetStream, SetFlags, Destroy, Unset,
              poolVars, confVars, callVars, bufVars, workVars, histVars
<1>3. ASSUME NEW w \in Threads, ThreadStep(w)
      PROVE  MutexOK'
  <2>1. CASE UNCHANGED mutex_extractor
    BY <1>0, <2>1 DEF MutexOK
  <2>. QED  BY <1>3, <2>1 DEF ThreadStep, WaitTargs, Quit, GoOn, Pop, SkipPosition, RunMiner,
              LockPout, DropEnclosed, Store, Bump, PostMain, callerVars, poolVars,
              confVars, callVars, bufVars, workVars, histVars
<1>4. CASE UNCHANGED vars
  BY <1>0, <1>4 DEF vars, MutexOK
<1>. QED  BY <1>1, <1>2, <1>3, <1>4 DEF Next

\* The semaphores, the jobs and the pool's switches.
LEMMA PoolTypes ==
  ASSUME TypeOK, [Next]_vars
  PROVE  PoolOK'
<1>0. PoolOK
  BY TypeParts
<1>1. ASSUME NEW c \in Clients, CallStep(c)
      PROVE  PoolOK'
  <2>1. CASE Push(c)
    <3>1. PICK j \in Job : targs' = Append(targs, j)
      <4>0. frame[c].m \in Nat \ {0} /\ frame[c].batch \in Nat /\ Len(miners) \in Nat
        BY SMTT(30) DEF TypeOK
      <4>1. frame[c].m \in 1 .. Len(miners) /\ frame[c].batch \in Int
        BY <2>1, <4>0 DEF Push
      <4>2. miners[frame[c].m] \in Miners
        BY <4>1 DEF TypeOK
      <4>. QED  BY <2>1, <4>1, <4>2 DEF Push, Job
    <3>2. UNCHANGED <<sem_targs, sem_main, targs_cap, threads_inited, terminate_p>>
      BY <2>1 DEF Push
    <3>3. targs' \in Seq(Job)
      BY <1>0, <3>1 DEF PoolOK
    <3>. QED  BY <1>0, <3>2, <3>3 DEF PoolOK
  <2>2. CASE Signal(c)
    BY <1>0, <2>2 DEF Signal, PoolOK, poolVars
  <2>3. CASE Collect(c)
    BY <1>0, <2>3 DEF Collect, PoolOK, poolVars
  <2>4. CASE SetTerminate(c)
    BY <1>0, <2>4 DEF SetTerminate, PoolOK, poolVars
  <2>5. CASE PostTerminate(c)
    BY <1>0, <2>5 DEF PostTerminate, PoolOK, poolVars
  <2>6. CASE Join(c)
    BY <1>0, <2>6 DEF Join, PoolOK, poolVars
  <2>7. CASE UNCHANGED poolVars
    BY <1>0, <2>7 DEF PoolOK, poolVars
  <2>. QED  BY <1>1, <2>1, <2>2, <2>3, <2>4, <2>5, <2>6, <2>7 DEF CallStep, Attach, RefuseStream, SetLastError, MoveStream, Finish,
              Return, Teardown, poolVars, confVars, callVars, bufVars, workVars,
              histVars
<1>2. ASSUME NEW c \in Clients, Call(c)
      PROVE  PoolOK'
  <2>1. CASE \E m \in Miners : AddMiner(c, m)
    BY <1>0, <2>1 DEF AddMiner, PoolOK, poolVars
  <2>2. CASE \E t \in Texts : SetStream(c, t)
    <3>1. <<>> \in Seq(Job)
      BY EmptySeq
    <3>2. PICK t \in Texts : SetStream(c, t)
      BY <2>2
    <3>. QED  BY <1>0, <3>1, <3>2 DEF SetStream, PoolOK, Unset
  <2>3. CASE UnsetStream(c)
    <3>1. <<>> \in Seq(Job)
      BY EmptySeq
    <3>. QED  BY <1>0, <2>3, <3>1 DEF UnsetStream, PoolOK, Unset, poolVars
  <2>4. CASE \E b \in Batches : NextEnter(c, b)
    <3>1. /\ UNCHANGED <<sem_targs, targs, terminate_p>>
          /\ sem_main' = sem_main \/ sem_main' = 0
          /\ targs_cap' = targs_cap \/ targs_cap' = Len(miners)
          /\ threads_inited' = threads_inited \/ threads_inited' = TRUE
      BY <2>4 DEF NextEnter
    <3>2. Len(miners) \in Nat
      BY DEF TypeOK
    <3>3. sem_main' \in Nat /\ targs_cap' \in Nat
      BY <1>0, <3>1, <3>2 DEF PoolOK
    <3>4. threads_inited' \in BOOLEAN
      BY <1>0, <3>1 DEF PoolOK
    <3>. QED  BY <1>0, <3>1, <3>3, <3>4 DEF PoolOK
  <2>5. CASE Destroy(c)
    <3>1. <<>> \in Seq(Job)
      BY EmptySeq
    <3>. QED  BY <1>0, <2>5, <3>1 DEF Destroy, PoolOK, Unset, poolVars
  <2>6. CASE UNCHANGED poolVars
    BY <1>0, <2>6 DEF PoolOK, poolVars
  <2>. QED  BY <1>2, <2>1, <2>2, <2>3, <2>4, <2>5, <2>6 DEF Call, SetFlags, poolVars, confVars, callVars, bufVars, workVars,
              histVars
<1>3. ASSUME NEW w \in Threads, ThreadStep(w)
      PROVE  PoolOK'
  <2>1. CASE WaitTargs(w)
    BY <1>0, <2>1 DEF WaitTargs, PoolOK, Step, poolVars
  <2>2. CASE Quit(w)
    BY <1>0, <2>2 DEF Quit, PoolOK, Step, poolVars
  <2>3. CASE Pop(w)
    BY <1>0, <2>3 DEF Pop, PoolOK, Step, poolVars
  <2>4. CASE PostMain(w)
    BY <1>0, <2>4 DEF PostMain, PoolOK, Step, poolVars
  <2>5. CASE UNCHANGED poolVars
    BY <1>0, <2>5 DEF PoolOK, poolVars
  <2>. QED  BY <1>3, <2>1, <2>2, <2>3, <2>4, <2>5 DEF ThreadStep, GoOn, SkipPosition, RunMiner, LockPout, DropEnclosed,
              Store, Bump, poolVars, callerVars, confVars, callVars, bufVars,
              workVars, histVars
<1>4. CASE UNCHANGED vars
  BY <1>0, <1>4 DEF vars, PoolOK, poolVars
<1>. QED  BY <1>1, <1>2, <1>3, <1>4 DEF Next

\* The configuration.
LEMMA ConfTypes ==
  ASSUME TypeOK, Attached, [Next]_vars
  PROVE  ConfOK'
<1>0. ConfOK
  BY TypeParts
<1>1. ASSUME NEW c \in Clients, CallStep(c)
      PROVE  ConfOK'
  <2>1. CASE Attach(c)
    <3>1. frame[c].text \in Texts \cup {NoText}
      BY DEF TypeOK
    <3>. QED  BY <1>0, <2>1, <3>1 DEF Attach, ConfOK
  <2>2. CASE RefuseStream(c)
    <3>1. frame[c].text \in Texts \cup {NoText}
      BY DEF TypeOK
    <3>. QED  BY <1>0, <2>2, <3>1 DEF RefuseStream, ConfOK
  <2>3. CASE SetLastError(c)
    BY <1>0, <2>3 DEF SetLastError, ConfOK, confVars
  <2>4. CASE UNCHANGED confVars
    BY <1>0, <2>4 DEF ConfOK, confVars
  <2>. QED  BY <1>1, <2>1, <2>2, <2>3, <2>4 DEF CallStep, Push, Signal, MoveStream, Collect, Finish, Return,
              SetTerminate, PostTerminate, Join, Teardown, confVars, poolVars,
              callVars, bufVars, workVars, histVars
<1>2. ASSUME NEW c \in Clients, Call(c)
      PROVE  ConfOK'
  <2>1. CASE \E m \in Miners : AddMiner(c, m)
    BY <1>0, <2>1 DEF AddMiner, ConfOK, confVars
  <2>2. CASE \E t \in Texts : SetStream(c, t)
    BY <1>0, <2>2 DEF SetStream, ConfOK, Unset, confVars
  <2>3. CASE UnsetStream(c)
    BY <1>0, <2>3 DEF UnsetStream, ConfOK, Unset, confVars
  <2>4. CASE \E fs \in FlagArgs, value \in BOOLEAN : SetFlags(c, fs, value)
    BY <1>0, <2>4 DEF SetFlags, ConfOK, confVars
  <2>5. CASE Destroy(c)
    BY <1>0, <2>5 DEF Destroy, ConfOK, Unset, confVars
  <2>6. CASE UNCHANGED confVars
    BY <1>0, <2>6 DEF ConfOK, confVars
  <2>. QED  BY <1>2, <2>1, <2>2, <2>3, <2>4, <2>5, <2>6 DEF Call, NextEnter, confVars, poolVars, callVars, bufVars, workVars,
              histVars
<1>3. ASSUME NEW w \in Threads, ThreadStep(w)
      PROVE  ConfOK'
  <2>1. CASE UNCHANGED confVars
    BY <1>0, <2>1 DEF ConfOK, confVars
  <2>. QED  BY <1>3, <2>1 DEF ThreadStep, WaitTargs, Quit, GoOn, Pop, SkipPosition, RunMiner,
              LockPout, DropEnclosed, Store, Bump, PostMain, confVars, callerVars,
              poolVars, callVars, bufVars, workVars, histVars
<1>4. CASE UNCHANGED vars
  BY <1>0, <1>4 DEF vars, ConfOK, confVars
<1>. QED  BY <1>1, <1>2, <1>3, <1>4 DEF Next

\* Streams and miners.
LEMMA ScanTypes ==
  ASSUME TypeOK, Jobs, Buffer, Attached, [Next]_vars
  PROVE  ScanOK'
<1>0. ScanOK
  BY TypeParts
<1>1. ASSUME NEW c \in Clients, CallStep(c)
      PROVE  ScanOK'
  <2>1. CASE Attach(c)
    <3>1. /\ frame[c].text \in Texts /\ stream' = frame[c].text
          /\ UNCHANGED spos /\ last_max' = 0
      BY <2>1 DEF Attach, Attached
    <3>2. spos[stream'] \in Nat
      BY <1>0, <3>1 DEF ScanOK
    <3>. QED  BY <1>0, <2>1, <3>1, <3>2 DEF Attach, ScanOK
  <2>2. CASE Push(c)
    <3>1. stream \in Texts /\ frame[c].m \in 1 .. Len(miners)
      BY SMTT(30), <2>2 DEF Push, Attached, InNext, TypeOK
    <3>2. miners[frame[c].m] \in Miners /\ spos[stream] \in Nat
      BY <1>0, <3>1 DEF ScanOK, TypeOK
    <3>3. /\ UNCHANGED <<spos, last_max>>
          /\ mstate' = [mstate EXCEPT ![miners[frame[c].m]].pos = spos[stream]]
      BY <2>2 DEF Push
    <3>. QED  BY <1>0, <3>2, <3>3 DEF ScanOK
  <2>3. CASE MoveStream(c)
    <3>1. stream \in Texts /\ frame[c].batch \in Nat
      BY <2>3 DEF MoveStream, Attached, InNext, TypeOK
    <3>2. spos[stream] + frame[c].batch \in Nat /\ Size[stream] \in Nat
      BY <1>0, <3>1, ConstantsAssumption DEF ScanOK
    <3>3. MinOf(spos[stream] + frame[c].batch, Size[stream]) \in Nat
      BY <3>2 DEF MinOf
    <3>. QED  BY <1>0, <2>3, <3>3 DEF MoveStream, ScanOK
  <2>4. CASE Finish(c)
    <3>1. UNCHANGED <<spos, mstate>>
      BY <2>4 DEF Finish
    <3>2. PICK kept \in IF "E_NO_ENCLOSED_OCCURRENCES" \in flags
                       THEN Longest(SubSeq(out[c], 1, pout[c]))
                       ELSE {SubSeq(out[c], 1, pout[c])} :
            \/ last_max' = last_max
            \/ last_max' \in Maxima({last_max} \cup {kept[i].end : i \in DOMAIN kept})
      BY <2>4 DEF Finish
    <3>3. kept \in Seq(Occurrence)
      BY <3>2, KeptTypes
    <3>a. \A i \in DOMAIN kept : kept[i] \in Occurrence
      BY <3>3
    <3>4. \A i \in DOMAIN kept : kept[i].end \in Nat
      BY <3>a DEF Occurrence
    <3>5. last_max' \in Nat
      BY <1>0, <3>2, <3>4 DEF Maxima, ScanOK
    <3>. QED  BY <1>0, <3>1, <3>5 DEF ScanOK
  <2>5. CASE UNCHANGED <<last_max, spos, mstate>>
    BY <1>0, <2>5 DEF ScanOK
  <2>. QED  BY <1>1, <2>1, <2>2, <2>3, <2>4, <2>5 DEF CallStep, RefuseStream, SetLastError, Signal, Collect, Return,
              SetTerminate, PostTerminate, Join, Teardown, poolVars, confVars,
              callVars, bufVars, workVars, histVars
<1>2. ASSUME NEW c \in Clients, Call(c)
      PROVE  ScanOK'
  <2>1. CASE UNCHANGED <<last_max, spos, mstate>>
    BY <1>0, <2>1 DEF ScanOK
  <2>. QED  BY <1>2, <2>1 DEF Call, AddMiner, SetStream, UnsetStream, SetFlags, NextEnter, Destroy,
              Unset, poolVars, confVars, callVars, bufVars, workVars, histVars
<1>3. ASSUME NEW w \in Threads, ThreadStep(w)
      PROVE  ScanOK'
  <2>1. CASE SkipPosition(w)
    <3>1. /\ job[w].miner \in Miners /\ UNCHANGED <<spos, last_max>>
          /\ mstate' = [mstate EXCEPT ![job[w].miner].pos = @ + 1]
      BY <2>1 DEF SkipPosition, Scanning, callerVars, Jobs, Working, Job
    <3>. QED  BY <1>0, <3>1 DEF ScanOK
  <2>2. CASE RunMiner(w)
    <3>1. job[w].miner \in Miners /\ UNCHANGED <<spos, last_max>>
      BY <2>2 DEF RunMiner, Scanning, callerVars, Jobs, Working, Job
    <3>. DEFINE s == State(w)
                r == Matcher[job[w].miner][s.text][s.pos]
    <3>2. r \in [start : Nat, end : Nat, to : Nat] /\ s.pos \in Nat /\ s.end_last \in Nat
      BY <2>2, RunTypes DEF RunMiner
    <3>3. mstate' = [mstate EXCEPT ![job[w].miner] = AfterRun(s, r)]
      BY <2>2 DEF RunMiner
    <3>4. s \in [text : Texts \cup {NoText}, pos : Nat, end_last : Nat, pos_last : Nat]
      BY <1>0, <3>1 DEF State, ScanOK
    <3>. HIDE DEF s, r
    <3>5. AfterRun(s, r) \in [text : Texts \cup {NoText}, pos : Nat, end_last : Nat,
                              pos_last : Nat]
      BY <3>2, <3>4, AfterRunTypes
    <3>. QED  BY <1>0, <3>1, <3>3, <3>5 DEF ScanOK
  <2>3. CASE UNCHANGED <<last_max, spos, mstate>>
    BY <1>0, <2>3 DEF ScanOK
  <2>. QED  BY <1>3, <2>1, <2>2, <2>3 DEF ThreadStep, WaitTargs, Quit, GoOn, Pop, LockPout, DropEnclosed, Store,
              Bump, PostMain, callerVars, poolVars, confVars, callVars, bufVars,
              workVars, histVars
<1>4. CASE UNCHANGED vars
  BY <1>0, <1>4 DEF vars, ScanOK
<1>. QED  BY <1>1, <1>2, <1>3, <1>4 DEF Next

\* The callers.
LEMMA CallTypes ==
  ASSUME TypeOK, Attached, [Next]_vars
  PROVE  CallOK'
<1>0. CallOK
  BY TypeParts
<1>1. ASSUME NEW c \in Clients, CallStep(c)
      PROVE  CallOK'
  <2>1. CASE Attach(c)
    BY <1>0, <2>1 DEF Attach, CallOK, Goto, callVars
  <2>2. CASE RefuseStream(c)
    BY <1>0, <2>2 DEF RefuseStream, CallOK, Goto, callVars
  <2>3. CASE SetLastError(c)
    BY <1>0, <2>3 DEF SetLastError, CallOK, Goto, callVars
  <2>4. CASE Push(c)
    BY <1>0, <2>4 DEF Push, CallOK, Goto, callVars
  <2>5. CASE Signal(c)
    BY <1>0, <2>5 DEF Signal, CallOK, Goto, callVars
  <2>6. CASE MoveStream(c)
    <3>1. cpc' = [cpc EXCEPT ![c] = "collect"] /\ frame' = [frame EXCEPT ![c].m = 1]
      BY <2>6 DEF MoveStream, Goto
    <3>. QED  BY <1>0, <3>1 DEF CallOK
  <2>7. CASE Collect(c)
    <3>1. cpc' = cpc /\ frame' = [frame EXCEPT ![c].m = @ + 1]
      BY <2>7 DEF Collect
    <3>. QED  BY <1>0, <3>1 DEF CallOK
  <2>8. CASE Finish(c)
    BY <1>0, <2>8 DEF Finish, CallOK, Goto, callVars
  <2>9. CASE Return(c)
    BY <1>0, <2>9 DEF Return, CallOK, Goto, callVars
  <2>10. CASE SetTerminate(c)
    BY <1>0, <2>10 DEF SetTerminate, CallOK, Goto, callVars
  <2>11. CASE PostTerminate(c)
    BY <1>0, <2>11 DEF PostTerminate, CallOK, Goto, callVars
  <2>12. CASE Join(c)
    BY <1>0, <2>12 DEF Join, CallOK, Goto, callVars
  <2>13. CASE Teardown(c)
    BY <1>0, <2>13 DEF Teardown, CallOK, Goto, callVars
  <2>. QED  BY <1>1, <2>1, <2>2, <2>3, <2>4, <2>5, <2>6, <2>7, <2>8, <2>9, <2>10, <2>11,
              <2>12, <2>13 DEF CallStep
<1>2. ASSUME NEW c \in Clients, Call(c)
      PROVE  CallOK'
  <2>1. CASE \E t \in Texts : SetStream(c, t)
    <3>1. PICK t \in Texts : SetStream(c, t)
      BY <2>1
    <3>. QED  BY <1>0, <3>1 DEF SetStream, CallOK, Goto
  <2>2. CASE \E b \in Batches : NextEnter(c, b)
    <3>1. PICK b \in Batches : NextEnter(c, b)
      BY <2>2
    <3>2. b \in Nat /\ stream \in Texts /\ spos[stream] \in Nat
      BY <3>1, ConstantsAssumption DEF NextEnter, TypeOK
    <3>3. (b * Len(miners) + 1) % UintSpan \in Nat
      <4>1. Len(miners) \in Nat /\ UintSpan \in Nat \ {0} /\ b * Len(miners) + 1 \in Int
        BY <3>2, ConstantsAssumption DEF TypeOK
      <4>. HIDE <3>2
      <4>. DEFINE x == b * Len(miners) + 1
      <4>2. x \in Int
        BY <4>1
      <4>. HIDE DEF x
      <4>3. x % UintSpan \in Nat
        BY <4>1, <4>2
      <4>. QED  BY <4>3 DEF x
    <3>4. /\ cpc' = [cpc EXCEPT ![c] = "push"]
          /\ frame' = [frame EXCEPT ![c] = [text |-> stream, batch |-> b, from |-> spos[stream],
                                    m |-> 1, cap |-> (b * Len(miners) + 1) % UintSpan]]
      BY <3>1 DEF NextEnter, Goto
    <3>. DEFINE x == (b * Len(miners) + 1) % UintSpan
    <3>. HIDE DEF x
    <3>. QED  BY <1>0, <3>2, <3>3, <3>4 DEF CallOK, x
  <2>3. CASE Destroy(c)
    BY <1>0, <2>3 DEF Destroy, CallOK, Goto, Unset, callVars
  <2>4. CASE UNCHANGED callVars
    BY <1>0, <2>4 DEF CallOK, callVars
  <2>. QED  BY <1>2, <2>1, <2>2, <2>3, <2>4 DEF Call, AddMiner, UnsetStream, SetFlags, callVars, Unset, poolVars,
              confVars, bufVars, workVars, histVars
<1>3. ASSUME NEW w \in Threads, ThreadStep(w)
      PROVE  CallOK'
  <2>1. CASE UNCHANGED callVars
    BY <1>0, <2>1 DEF CallOK, callVars
  <2>. QED  BY <1>3, <2>1 DEF ThreadStep, WaitTargs, Quit, GoOn, Pop, SkipPosition, RunMiner,
              LockPout, DropEnclosed, Store, Bump, PostMain, callVars, callerVars,
              poolVars, confVars, bufVars, workVars, histVars
<1>4. CASE UNCHANGED vars
  BY <1>0, <1>4 DEF vars, CallOK, callVars
<1>. QED  BY <1>1, <1>2, <1>3, <1>4 DEF Next

\* The arrays that are handed out.
LEMMA BufTypes ==
  ASSUME TypeOK, Jobs, Buffer, [Next]_vars
  PROVE  BufOK'
<1>0. BufOK
  BY TypeParts
<1>1. ASSUME NEW c \in Clients, CallStep(c)
      PROVE  BufOK'
  <2>1. CASE Finish(c)
    <3>1. PICK kept \in IF "E_NO_ENCLOSED_OCCURRENCES" \in flags
                       THEN Longest(SubSeq(out[c], 1, pout[c]))
                       ELSE {SubSeq(out[c], 1, pout[c])} :
            out' = [out EXCEPT ![c] = kept] /\ pout' = [pout EXCEPT ![c] = Len(kept)]
      BY <2>1 DEF Finish
    <3>2. kept \in Seq(Occurrence) /\ Len(kept) \in Nat
      BY <3>1, KeptTypes
    <3>3. mutex_pout' = mutex_pout
      BY <2>1 DEF Finish
    <3>. QED  BY <1>0, <3>1, <3>2, <3>3 DEF BufOK
  <2>2. CASE Return(c)
    <3>1. /\ UNCHANGED <<mutex_pout, pout>>
          /\ out' = out \/ (\E s \in Orders(out[c]) : out' = [out EXCEPT ![c] = s])
      BY <2>2 DEF Return
    <3>2. \A s \in Orders(out[c]) : s \in Seq(Occurrence)
      BY <1>0, OrdersTypes DEF BufOK
    <3>. QED  BY <1>0, <3>1, <3>2 DEF BufOK
  <2>3. CASE UNCHANGED bufVars
    BY <1>0, <2>3 DEF BufOK, bufVars
  <2>. QED  BY <1>1, <2>1, <2>2, <2>3 DEF CallStep, Attach, RefuseStream, SetLastError, Push, Signal, MoveStream,
              Collect, SetTerminate, PostTerminate, Join, Teardown, bufVars,
              poolVars, confVars, callVars, workVars, histVars
<1>2. ASSUME NEW c \in Clients, Call(c)
      PROVE  BufOK'
  <2>1. CASE \E b \in Batches : NextEnter(c, b)
    BY <1>0, <2>1 DEF NextEnter, BufOK, bufVars
  <2>2. CASE UNCHANGED bufVars
    BY <1>0, <2>2 DEF BufOK, bufVars
  <2>. QED  BY <1>2, <2>1, <2>2 DEF Call, AddMiner, SetStream, UnsetStream, SetFlags, Destroy, bufVars,
              Unset, poolVars, confVars, callVars, workVars, histVars
<1>3. ASSUME NEW w \in Threads, ThreadStep(w)
      PROVE  BufOK'
  <2>1. CASE LockPout(w)
    BY <1>0, <2>1 DEF LockPout, BufOK, Step, bufVars
  <2>2. CASE DropEnclosed(w)
    BY <1>0, <2>2 DEF DropEnclosed, BufOK, Step, bufVars
  <2>3. CASE Store(w)
    <3>1. /\ UNCHANGED <<mutex_pout, pout>> /\ cur[w] \in Occurrence
          /\ out' = [out EXCEPT ![job[w].pout] = Put(@, pout[job[w].pout] + 1, cur[w])]
      BY <2>3 DEF Store, Step, Buffer
    <3>2. \A s \in Seq(Occurrence), i \in Nat \ {0} : Put(s, i, cur[w]) \in Seq(Occurrence)
      BY <3>1 DEF Put
    <3>3. \A c \in Clients : pout[c] + 1 \in Nat \ {0}
      BY <1>0 DEF BufOK
    <3>. QED  BY <1>0, <3>1, <3>2, <3>3 DEF BufOK
  <2>4. CASE Bump(w)
    <3>1. /\ out' = out /\ mutex_pout' = Nobody
          /\ pout' = [pout EXCEPT ![job[w].pout] = @ + 1]
      BY <2>4 DEF Bump
    <3>2. job[w].pout \in Clients
      BY <2>4 DEF Bump, Step, Jobs, Working, Job
    <3>3. pout' \in [Clients -> Nat]
      BY <1>0, <3>1, <3>2 DEF BufOK
    <3>. QED  BY <1>0, <3>1, <3>3 DEF BufOK
  <2>5. CASE UNCHANGED bufVars
    BY <1>0, <2>5 DEF BufOK, bufVars
  <2>. QED  BY <1>3, <2>1, <2>2, <2>3, <2>4, <2>5 DEF ThreadStep, WaitTargs, Quit, GoOn, Pop, SkipPosition, RunMiner,
              PostMain, bufVars, callerVars, poolVars, confVars, callVars, workVars,
              histVars
<1>4. CASE UNCHANGED vars
  BY <1>0, <1>4 DEF vars, BufOK, bufVars
<1>. QED  BY <1>1, <1>2, <1>3, <1>4 DEF Next

\* The threads.
LEMMA WorkTypes ==
  ASSUME TypeOK, Jobs, Attached, [Next]_vars
  PROVE  WorkOK'
<1>0. WorkOK
  BY TypeParts
<1>1. ASSUME NEW c \in Clients, CallStep(c)
      PROVE  WorkOK'
  <2>1. CASE UNCHANGED workVars
    BY <1>0, <2>1 DEF WorkOK, workVars
  <2>. QED  BY <1>1, <2>1 DEF CallStep, Attach, RefuseStream, SetLastError, Push, Signal, MoveStream,
              Collect, Finish, Return, SetTerminate, PostTerminate, Join, Teardown,
              workVars, poolVars, confVars, callVars, bufVars, histVars
<1>2. ASSUME NEW c \in Clients, Call(c)
      PROVE  WorkOK'
  <2>1. CASE UNCHANGED workVars
    BY <1>0, <2>1 DEF WorkOK, workVars
  <2>. QED  BY <1>2, <2>1 DEF Call, AddMiner, SetStream, UnsetStream, SetFlags, NextEnter, Destroy,
              workVars, Unset, poolVars, confVars, callVars, bufVars, histVars
<1>3. ASSUME NEW w \in Threads, ThreadStep(w)
      PROVE  WorkOK'
  <2>1. CASE WaitTargs(w)
    BY <1>0, <2>1 DEF WaitTargs, WorkOK, Step, workVars
  <2>2. CASE Quit(w)
    BY <1>0, <2>2 DEF Quit, WorkOK, Step, workVars
  <2>3. CASE GoOn(w)
    BY <1>0, <2>3 DEF GoOn, WorkOK, Step, workVars
  <2>4. CASE Pop(w)
    <3>1. /\ cur' = cur /\ wpc' = [wpc EXCEPT ![w] = "scan"]
          /\ job' = [job EXCEPT ![w] = targs[Len(targs)]] /\ targs # <<>>
      BY <2>4 DEF Pop, Step
    <3>2. targs[Len(targs)] \in Job
      BY <3>1, EmptySeq DEF TypeOK
    <3>. QED  BY <1>0, <3>1, <3>2 DEF WorkOK
  <2>5. CASE SkipPosition(w)
    <3>1. /\ UNCHANGED <<wpc, cur>> /\ job[w] \in Job
          /\ job' = [job EXCEPT ![w].batch = @ - 1]
      BY <2>5 DEF SkipPosition, Scanning, Jobs, Working
    <3>. QED  BY <1>0, <3>1 DEF WorkOK, Job
  <2>6. CASE RunMiner(w)
    <3>1. job[w] \in Job
      BY <2>6 DEF RunMiner, Scanning, Jobs, Working
    <3>. DEFINE s == State(w)
                r == Matcher[job[w].miner][s.text][s.pos]
                d == AfterRun(s, r).pos - s.pos
    <3>a. r \in [start : Nat, end : Nat, to : Nat] /\ s.pos \in Nat
      BY <2>6, RunTypes DEF RunMiner
    <3>b. job[w].miner \in Miners
      BY <3>1 DEF Job
    <3>c. s \in [text : Texts \cup {NoText}, pos : Nat, end_last : Nat, pos_last : Nat]
      BY <3>b DEF State, TypeOK
    <3>2. d \in Int
      BY <3>a, <3>c, AfterRunTypes
    <3>3. /\ job' = [job EXCEPT ![w].batch = @ - d]
          /\ \/ UNCHANGED <<cur, wpc>>
             \/ /\ cur' = [cur EXCEPT ![w] = [miner |-> job[w].miner, start |-> r.start,
                                              end |-> r.end]]
                /\ wpc' = [wpc EXCEPT ![w] = "lock"]
      BY <2>6 DEF RunMiner, State
    <3>4. [miner |-> job[w].miner, start |-> r.start, end |-> r.end] \in Occurrence
      BY <3>1, <3>a DEF Job, Occurrence
    <3>. HIDE DEF s, r, d
    <3>5. job' \in [Threads -> Job \cup {NoJob}]
      BY <1>0, <3>1, <3>2, <3>3 DEF WorkOK, Job
    <3>. QED  BY <1>0, <3>3, <3>4, <3>5 DEF WorkOK
  <2>7. CASE LockPout(w)
    BY <1>0, <2>7 DEF LockPout, WorkOK, Step, workVars
  <2>8. CASE DropEnclosed(w)
    BY <1>0, <2>8 DEF DropEnclosed, WorkOK, Step, workVars
  <2>9. CASE Store(w)
    BY <1>0, <2>9 DEF Store, WorkOK, Step, workVars
  <2>10. CASE Bump(w)
    BY <1>0, <2>10 DEF Bump, WorkOK, Step, workVars
  <2>11. CASE PostMain(w)
    BY <1>0, <2>11 DEF PostMain, WorkOK, Step, workVars
  <2>. QED  BY <1>3, <2>1, <2>2, <2>3, <2>4, <2>5, <2>6, <2>7, <2>8, <2>9, <2>10, <2>11 DEF ThreadStep
<1>4. CASE UNCHANGED vars
  BY <1>0, <1>4 DEF vars, WorkOK, workVars
<1>. QED  BY <1>1, <1>2, <1>3, <1>4 DEF Next

\* The history.
LEMMA HistTypes ==
  ASSUME TypeOK, Buffer, Attached, [Next]_vars
  PROVE  HistOK'
<1>0. HistOK
  BY TypeParts
<1>1. ASSUME NEW c \in Clients, CallStep(c)
      PROVE  HistOK'
  <2>1. CASE Attach(c)
    <3>1. /\ frame[c].text \in Texts /\ stream' = frame[c].text
          /\ UNCHANGED <<spos, received, calls>> /\ origin' = spos[stream']
      BY <2>1 DEF Attach, Attached
    <3>. QED  BY <1>0, <3>1 DEF HistOK, TypeOK
  <2>2. CASE Finish(c)
    <3>1. PICK kept \in IF "E_NO_ENCLOSED_OCCURRENCES" \in flags
                       THEN Longest(SubSeq(out[c], 1, pout[c]))
                       ELSE {SubSeq(out[c], 1, pout[c])} :
            received' = received \o kept
      BY <2>2 DEF Finish
    <3>2. kept \in Seq(Occurrence)
      BY <3>1, KeptTypes
    <3>3. UNCHANGED <<origin, calls>>
      BY <2>2 DEF Finish
    <3>. QED  BY <1>0, <3>1, <3>2, <3>3 DEF HistOK
  <2>3. CASE UNCHANGED histVars
    BY <1>0, <2>3 DEF HistOK, histVars
  <2>. QED  BY <1>1, <2>1, <2>2, <2>3 DEF CallStep, RefuseStream, SetLastError, Push, Signal, MoveStream,
              Collect, Return, SetTerminate, PostTerminate, Join, Teardown, histVars,
              poolVars, confVars, callVars, bufVars, workVars
<1>2. ASSUME NEW c \in Clients, Call(c)
      PROVE  HistOK'
  <2>1. CASE \E t \in Texts : SetStream(c, t)
    BY <1>0, <2>1 DEF SetStream, HistOK, Unset, histVars
  <2>2. CASE UnsetStream(c)
    BY <1>0, <2>2 DEF UnsetStream, HistOK, Unset, histVars
  <2>3. CASE \E b \in Batches : NextEnter(c, b)
    BY <1>0, <2>3 DEF NextEnter, HistOK, histVars
  <2>4. CASE Destroy(c)
    BY <1>0, <2>4 DEF Destroy, HistOK, Unset, histVars
  <2>5. CASE UNCHANGED histVars
    BY <1>0, <2>5 DEF HistOK, histVars
  <2>. QED  BY <1>2, <2>1, <2>2, <2>3, <2>4, <2>5 DEF Call, AddMiner, SetFlags, histVars, poolVars, confVars, callVars,
              bufVars, workVars
<1>3. ASSUME NEW w \in Threads, ThreadStep(w)
      PROVE  HistOK'
  <2>1. CASE UNCHANGED histVars
    BY <1>0, <2>1 DEF HistOK, histVars
  <2>. QED  BY <1>3, <2>1 DEF ThreadStep, WaitTargs, Quit, GoOn, Pop, SkipPosition, RunMiner,
              LockPout, DropEnclosed, Store, Bump, PostMain, histVars, callerVars,
              poolVars, confVars, callVars, bufVars, workVars
<1>4. CASE UNCHANGED vars
  BY <1>0, <1>4 DEF vars, HistOK, histVars
<1>. QED  BY <1>1, <1>2, <1>3, <1>4 DEF Next

\* Every step keeps the types.
LEMMA TypeStep ==
  ASSUME TypeOK, Jobs, Buffer, Attached, [Next]_vars
  PROVE  TypeOK'
<1>1. MutexOK' /\ PoolOK' /\ ConfOK' /\ ScanOK' /\ CallOK' /\ BufOK' /\ WorkOK' /\ HistOK'
  BY MutexTypes, PoolTypes, ConfTypes, ScanTypes, CallTypes, BufTypes, WorkTypes, HistTypes
<1>. QED  BY <1>1 DEF TypeOK, MutexOK, PoolOK, ConfOK, ScanOK, CallOK, BufOK, WorkOK, HistOK

-----------------------------------------------------------------------------
(* Jobs *)

\* Unless a caller is inside next there are no jobs, queued or in work.
LEMMA QuietOutsideNext ==
  ASSUME TypeOK, Holder, Tally, \A c \in Clients : ~InNext(c)
  PROVE  targs = <<>> /\ \A w \in Threads : wpc[w] \notin {"pop"} \cup Busy
<1>1. CASE mutex_extractor = Nobody
  <2>1. Idle
    BY <1>1 DEF Tally
  <2>2. CountIn(wpc, {"pop"} \cup Busy) = 0
    BY <2>1, IdleCounts
  <2>. QED  BY <2>1, <2>2, CountZero DEF Idle
<1>2. CASE mutex_extractor # Nobody
  <2>1. PICK c \in Clients : mutex_extractor = c
    BY <1>2 DEF TypeOK
  <2>2. cpc[c] \in {"terminate", "join", "gone"}
    BY <2>1 DEF Holder, InNext
  <2>3. InDestroyTally(c)
    BY <2>2 DEF Tally
  <2>. QED  BY <2>3, CountZero DEF InDestroyTally
<1>. QED  BY <1>1, <1>2

\* The same after a step
LEMMA QuietJobs ==
  ASSUME TypeOK', Holder', Tally', \A c \in Clients : ~InNext(c)',
         \A i, j \in DOMAIN miners' : miners'[i] = miners'[j] => i = j
  PROVE  Jobs'
<1>1. targs' = <<>> /\ \A w \in Threads : wpc'[w] \notin {"pop"} \cup Busy
  <2>1. CASE mutex_extractor' = Nobody
    <3>1. Idle'
      BY <2>1 DEF Tally
    <3>2. \A w \in Threads : wpc'[w] \notin Awake \cup Busy \cup {"exited"}
      BY <3>1, CountZero DEF Idle
    <3>. QED  BY <3>1, <3>2 DEF Idle, Awake
  <2>2. CASE mutex_extractor' # Nobody
    <3>1. PICK c \in Clients : mutex_extractor' = c
      BY <2>2 DEF TypeOK
    <3>2. cpc'[c] \in {"terminate", "join", "gone"}
      BY <3>1 DEF Holder, InNext
    <3>3. InDestroyTally(c)'
      BY <3>2 DEF Tally
    <3>. QED  BY <3>3, CountZero DEF InDestroyTally
  <2>. QED  BY <2>1, <2>2
<1>2. \A w \in Threads : ~Working(w)'
  BY <1>1 DEF Working, Busy
<1>. QED  BY <1>1, <1>2 DEF Jobs, OneThreadPerMiner

\* Jobs stay due while their caller goes on pushing.
LEMMA StillDue ==
  ASSUME NEW c \in Clients, mutex_extractor = c, mutex_extractor' = c, InNext(c)',
         PushedMiners(c) \subseteq PushedMiners(c)', NEW j, Due(j)
  PROVE  Due(j)'
BY DEF Due

\* A step of next keeps the jobs.
LEMMA NextJobs ==
  ASSUME TypeOK, Holder, Loops, Jobs, NEW c \in Clients,
         Push(c) \/ Signal(c) \/ MoveStream(c) \/ Collect(c)
  PROVE  Jobs'
<1>0. /\ cpc \in [Clients -> {"idle", "attach", "error", "push", "signal", "collect", "return",
                              "destroy", "terminate", "join", "gone"}]
      /\ frame \in [Clients -> [text : Texts \cup {NoText}, batch : Nat, from : Nat,
                                m : Nat \ {0}, cap : Nat]]
      /\ targs \in Seq(Job)
  BY DEF TypeOK
<1>n. /\ frame[c].m \in Nat \ {0} /\ Len(miners) \in Nat
      /\ DOMAIN miners = 1 .. Len(miners)
  BY SMTT(30) DEF TypeOK
<1>1. mutex_extractor = c /\ mutex_extractor' = c /\ miners' = miners
  BY DEF Push, Signal, MoveStream, Collect, Holder, confVars
<1>2. InNext(c)' /\ InNext(c) /\ Pushed(c) <= Pushed(c)'
  <2>1. CASE Push(c)
    <3>1. cpc[c] = "push" /\ cpc'[c] = "signal" /\ frame' = frame
      BY <2>1, <1>0, <1>n DEF Push, Goto
    <3>. QED  BY <3>1, <1>0, <1>n DEF InNext, Pushed
  <2>2. CASE Signal(c)
    <3>1. cpc[c] = "signal" /\ cpc'[c] = "push" /\ frame'[c].m = frame[c].m + 1
      BY <2>2, <1>0, <1>n DEF Signal, Goto
    <3>. QED  BY <3>1, <1>0, <1>n DEF InNext, Pushed
  <2>3. CASE MoveStream(c)
    <3>1. cpc[c] = "push" /\ cpc'[c] = "collect"
      BY <2>3, <1>0, <1>n DEF MoveStream, Goto
    <3>2. frame[c].m <= Len(miners) + 1
      BY <3>1 DEF Loops
    <3>. QED  BY <3>1, <3>2, <1>0, <1>n, <1>1 DEF InNext, Pushed
  <2>4. CASE Collect(c)
    <3>1. cpc[c] = "collect" /\ cpc'[c] = "collect"
      BY <2>4, <1>0, <1>n DEF Collect
    <3>. QED  BY <3>1, <1>0, <1>n, <1>1 DEF InNext, Pushed
  <2>. QED  BY <2>1, <2>2, <2>3, <2>4
<1>3. PushedMiners(c) \subseteq PushedMiners(c)'
  <2>1. Pushed(c) \in Int /\ Pushed(c)' \in Int
    <3>1. frame'[c].m \in Nat \/ frame' = frame
      BY <1>0, <1>n DEF Push, Signal, MoveStream, Collect
    <3>. QED  BY <3>1, <1>0, <1>n, <1>1 DEF Pushed
  <2>2. \A k \in DOMAIN miners : k <= Pushed(c) => k <= Pushed(c)'
    BY <2>1, <1>0, <1>n, <1>2
  <2>. QED  BY <2>2, <1>1 DEF PushedMiners
<1>4. \A j : Due(j) => Due(j)'
  BY <1>1, <1>2, <1>3, StillDue
<1>5. UNCHANGED <<wpc, job>> /\ \A w \in Threads : Working(w)' = Working(w)
  BY DEF Push, Signal, MoveStream, Collect, workVars, Working
<1>6. CASE UNCHANGED targs
  BY <1>1, <1>4, <1>5, <1>6 DEF Jobs, OneThreadPerMiner
<1>7. CASE Push(c)
  <2>. DEFINE n == Len(targs)
  <2>1. /\ cpc[c] = "push" /\ frame[c].m \in DOMAIN miners
        /\ cpc'[c] = "signal" /\ frame' = frame
    BY <1>7, <1>0, <1>n DEF Push, Goto
  <2>2. PICK j : /\ j = [miner |-> miners[frame[c].m], batch |-> frame[c].batch, pout |-> c]
                 /\ targs' = Append(targs, j)
    BY <1>7 DEF Push
  <2>3. j.miner = miners[frame[c].m] /\ j.pout = c
    BY <2>2
  <2>4. /\ n \in Nat /\ DOMAIN targs = 1 .. n /\ DOMAIN targs' = 1 .. n + 1
        /\ \A i \in 1 .. n : targs'[i] = targs[i]
        /\ targs'[n + 1] = j
    BY <2>2, <1>0
  <2>5. j.miner \notin PushedMiners(c)
    <3>1. Pushed(c) = frame[c].m - 1
      BY <2>1 DEF Pushed
    <3>2. ASSUME NEW k \in DOMAIN miners, k <= Pushed(c)
          PROVE  miners[k] # j.miner
      <4>1. k # frame[c].m
        BY <3>1, <3>2, <1>n
      <4>. QED  BY <4>1, <2>1, <2>3 DEF Jobs
    <3>. QED  BY <3>2 DEF PushedMiners
  <2>6. j.miner \in PushedMiners(c)'
    <3>1. Pushed(c)' = frame[c].m
      BY <2>1 DEF Pushed
    <3>. QED  BY <3>1, <2>1, <2>3, <1>n, <1>1 DEF PushedMiners
  <2>7. Due(j)'
    BY <2>3, <2>6, <1>1, <1>2 DEF Due
  <2>8. \A i \in DOMAIN targs : targs[i].miner # j.miner
    BY <2>5, <1>1 DEF Jobs, Due
  <2>9. \A w \in Threads : Working(w) => job[w].miner # j.miner
    BY <2>5, <1>1 DEF Jobs, Due
  <2>10. \A i \in DOMAIN targs' : i = n + 1 \/ (i \in DOMAIN targs /\ targs'[i] = targs[i])
    BY <2>4
  <2>11. ASSUME NEW i \in DOMAIN targs'
         PROVE  Due(targs[i])'
    <3>1. PICK x : x = targs'[i]
      OBVIOUS
    <3>2. x = j \/ Due(x)
      BY <3>1, <2>4, <2>10 DEF Jobs
    <3>3. Due(x)'
      BY <3>2, <2>7, <1>4
    <3>. QED  BY <3>1, <3>3 DEF Due
  <2>12. ASSUME NEW w \in Threads, Working(w)'
         PROVE  (job[w] \in Job /\ Due(job[w]))'
    <3>1. PICK x : x = job[w]
      OBVIOUS
    <3>2. x \in Job /\ Due(x)' /\ job'[w] = x
      BY <2>12, <3>1, <1>4, <1>5 DEF Jobs
    <3>. QED  BY <3>2 DEF Due
  <2>13. OneThreadPerMiner'
    <3>1. \A v, w \in Threads :
            Working(v)' /\ Working(w)' /\ job'[v].miner = job'[w].miner => v = w
      BY <1>5 DEF Jobs, OneThreadPerMiner
    <3>2. ASSUME NEW w \in Threads, NEW i \in DOMAIN targs', Working(w)'
          PROVE  targs'[i].miner # job'[w].miner
      <4>1. Working(w) /\ job'[w] = job[w]
        BY <3>2, <1>5
      <4>2. CASE i = n + 1
        BY <4>1, <4>2, <2>4, <2>9
      <4>3. CASE i \in DOMAIN targs /\ targs'[i] = targs[i]
        BY <4>1, <4>3 DEF Jobs, OneThreadPerMiner
      <4>. QED  BY <2>10, <4>2, <4>3
    <3>3. ASSUME NEW i \in DOMAIN targs', NEW k \in DOMAIN targs',
                 targs'[i].miner = targs'[k].miner
          PROVE  i = k
      <4>1. CASE i \in DOMAIN targs /\ targs'[i] = targs[i] /\ k \in DOMAIN targs
                 /\ targs'[k] = targs[k]
        BY <3>3, <4>1 DEF Jobs, OneThreadPerMiner
      <4>2. CASE i = n + 1 \/ k = n + 1
        BY <3>3, <4>2, <2>4, <2>8, <2>10
      <4>. QED  BY <2>10, <4>1, <4>2
    <3>. QED  BY <3>1, <3>2, <3>3 DEF OneThreadPerMiner
  <2>14. \A i, k \in DOMAIN miners' : miners'[i] = miners'[k] => i = k
    BY <1>1 DEF Jobs
  <2>. QED  BY <2>11, <2>12, <2>13, <2>14 DEF Jobs
<1>8. UNCHANGED targs \/ Push(c)
  BY DEF Signal, MoveStream, Collect, poolVars
<1>. QED  BY <1>6, <1>7, <1>8

\* Scanning uses up the budget of the job and changes nothing else of it.
LEMMA ScanKeepsJob ==
  ASSUME TypeOK, Jobs, Attached, NEW w \in Threads, SkipPosition(w) \/ RunMiner(w)
  PROVE  /\ job[w] \in Job
         /\ \E b \in Int : job' = [job EXCEPT ![w].batch = b]
<1>1. job[w] \in Job /\ Scanning(w)
  BY DEF SkipPosition, RunMiner, Scanning, Jobs, Working
<1>2. job[w].miner \in Miners /\ job[w].batch \in Int
  BY <1>1 DEF Job
<1>3. CASE SkipPosition(w)
  <2>1. job' = [job EXCEPT ![w].batch = job[w].batch - 1] /\ job[w].batch - 1 \in Int
    BY <1>2, <1>3 DEF SkipPosition
  <2>. QED  BY <2>1, <1>1
<1>4. CASE RunMiner(w)
  <2>. DEFINE s == State(w)
              r == Matcher[job[w].miner][s.text][s.pos]
              d == AfterRun(s, r).pos - s.pos
  <2>1. r \in [start : Nat, end : Nat, to : Nat] /\ s.pos \in Nat
    BY <1>1, RunTypes
  <2>2. s \in [text : Texts \cup {NoText}, pos : Nat, end_last : Nat, pos_last : Nat]
    BY <1>2 DEF State, TypeOK
  <2>3. d \in Int
    BY <2>1, <2>2, AfterRunTypes
  <2>4. job' = [job EXCEPT ![w].batch = @ - d]
    BY <1>4 DEF RunMiner, State
  <2>. HIDE DEF d
  <2>5. job' = [job EXCEPT ![w].batch = job[w].batch - d] /\ job[w].batch - d \in Int
    BY <2>3, <2>4, <1>2
  <2>. QED  BY <2>5, <1>1
<1>. QED  BY <1>1, <1>3, <1>4

\* A step of a thread keeps the jobs.
LEMMA ThreadJobs ==
  ASSUME TypeOK, Holder, Tally, Jobs, Attached, NEW w \in Threads, ThreadStep(w)
  PROVE  Jobs'
<1>0. /\ wpc \in [Threads -> {"wait", "check", "pop", "scan", "lock", "store", "bump", "exited"}]
      /\ job \in [Threads -> Job \cup {NoJob}]
      /\ targs \in Seq(Job)
  BY DEF TypeOK
<1>1. UNCHANGED <<mutex_extractor, cpc, frame, miners>>
  BY DEF ThreadStep, WaitTargs, Quit, GoOn, Pop, SkipPosition, RunMiner, LockPout,
         DropEnclosed, Store, Bump, PostMain, callerVars, confVars, callVars
<1>2. /\ \A i, j \in DOMAIN miners' : miners'[i] = miners'[j] => i = j
      /\ \A j : Due(j) => Due(j)'
  BY <1>1 DEF Jobs, Due, InNext, PushedMiners, Pushed
<1>3. ASSUME UNCHANGED targs,
             \A v \in Threads : Working(v)' =>
               /\ Working(v) /\ job'[v] \in Job
               /\ job'[v].miner = job[v].miner /\ job'[v].pout = job[v].pout
      PROVE  Jobs'
  <2>1. ASSUME NEW v \in Threads, Working(v)'
        PROVE  (job[v] \in Job /\ Due(job[v]))'
    <3>1. PICK x : x = job'[v]
      OBVIOUS
    <3>2. Due(x)
      BY <1>3, <2>1, <3>1 DEF Jobs, Due
    <3>3. Due(x)' /\ x \in Job
      BY <1>2, <1>3, <2>1, <3>1, <3>2
    <3>. QED  BY <3>1, <3>3 DEF Due
  <2>2. OneThreadPerMiner'
    BY <1>3 DEF Jobs, OneThreadPerMiner
  <2>3. (\A i \in DOMAIN targs : Due(targs[i]))'
    BY <1>2, <1>3 DEF Jobs
  <2>. QED  BY <1>2, <2>1, <2>2, <2>3 DEF Jobs
<1>4. ASSUME NEW from, NEW to, Step(w, from, to), UNCHANGED <<targs, job>>,
             to \in Busy => from \in Busy
      PROVE  Jobs'
  <2>1. \A v \in Threads : Working(v)' => Working(v)
    BY <1>0, <1>4 DEF Step, Working, Busy
  <2>2. \A v \in Threads : Working(v)' => job'[v] \in Job
    BY <1>4, <2>1 DEF Jobs
  <2>. QED  BY <1>3, <1>4, <2>1, <2>2
<1>5. CASE WaitTargs(w)
  BY <1>4, <1>5 DEF WaitTargs, Busy
<1>6. CASE Quit(w)
  BY <1>4, <1>6 DEF Quit, Busy
<1>7. CASE GoOn(w)
  BY <1>4, <1>7 DEF GoOn, Busy, poolVars
<1>8. CASE LockPout(w)
  BY <1>4, <1>8 DEF LockPout, Busy, poolVars
<1>9. CASE DropEnclosed(w)
  BY <1>4, <1>9 DEF DropEnclosed, Busy, poolVars
<1>10. CASE Store(w)
  BY <1>4, <1>10 DEF Store, Busy, poolVars
<1>11. CASE Bump(w)
  BY <1>4, <1>11 DEF Bump, Busy, poolVars
<1>12. CASE PostMain(w)
  <2>1. /\ UNCHANGED targs /\ wpc' = [wpc EXCEPT ![w] = "wait"]
        /\ job' = [job EXCEPT ![w] = NoJob]
    BY <1>12 DEF PostMain, Step
  <2>2. \A v \in Threads : Working(v)' => v # w /\ Working(v) /\ job'[v] = job[v]
    BY <1>0, <2>1 DEF Working
  <2>3. \A v \in Threads : Working(v)' => job'[v] \in Job
    BY <2>2 DEF Jobs
  <2>. QED  BY <1>3, <2>1, <2>2, <2>3
<1>13. CASE SkipPosition(w) \/ RunMiner(w)
  <2>1. /\ UNCHANGED targs
        /\ \A v \in Threads : Working(v)' => Working(v)
    <3>1. /\ \/ wpc' = wpc
             \/ wpc' = [wpc EXCEPT ![w] = "lock"] /\ wpc[w] = "scan"
          /\ UNCHANGED targs
      BY <1>13 DEF SkipPosition, RunMiner, Scanning, poolVars
    <3>2. CASE wpc' = wpc
      BY <3>2, <3>1 DEF Working
    <3>3. CASE wpc' = [wpc EXCEPT ![w] = "lock"] /\ wpc[w] = "scan"
      BY <3>3, <3>1, <1>0 DEF Working
    <3>. QED  BY <3>1, <3>2, <3>3
  <2>2. PICK b \in Int : job' = [job EXCEPT ![w].batch = b]
    BY <1>13, ScanKeepsJob
  <2>3. job[w] \in Job
    BY <1>13, ScanKeepsJob
  <2>4. \A v \in Threads : v # w => job'[v] = job[v]
    BY <2>2, <1>0
  <2>5. job'[w] = [job[w] EXCEPT !.batch = b]
    BY <2>2, <1>0
  <2>6. job'[w] \in Job /\ job'[w].miner = job[w].miner /\ job'[w].pout = job[w].pout
    BY <2>3, <2>5 DEF Job
  <2>7. \A v \in Threads : Working(v)' => job'[v] \in Job
    BY <2>1, <2>4, <2>6 DEF Jobs
  <2>. QED  BY <1>3, <2>1, <2>4, <2>6, <2>7
<1>14. CASE Pop(w)
  <2>. DEFINE n == Len(targs)
  <2>1. /\ wpc[w] = "pop" /\ wpc' = [wpc EXCEPT ![w] = "scan"] /\ targs # <<>>
        /\ job' = [job EXCEPT ![w] = targs[n]]
        /\ targs' = SubSeq(targs, 1, n - 1)
    BY <1>14 DEF Pop, Step
  <2>2. /\ n \in Nat \ {0} /\ targs' \in Seq(Job) /\ Len(targs') = n - 1
        /\ \A i \in 1 .. n - 1 : targs'[i] = targs[i]
    BY <2>1, <1>0, AllButLast
  <2>3. /\ DOMAIN targs = 1 .. n /\ DOMAIN targs' = 1 .. n - 1 /\ n \in DOMAIN targs
    BY <2>2, <1>0
  <2>4. \A i \in DOMAIN targs' : i \in DOMAIN targs /\ i # n /\ targs'[i] = targs[i]
    BY <2>2, <2>3
  <2>5. targs[n] \in Job /\ Due(targs[n])
    BY <2>3, <1>0 DEF Jobs
  <2>6. job'[w] = targs[n] /\ \A v \in Threads : v # w => job'[v] = job[v]
    BY <2>1, <1>0
  <2>7. \A v \in Threads : Working(v)' => v = w \/ Working(v)
    BY <2>1, <1>0 DEF Working
  <2>8. ~Working(w)
    BY <2>1 DEF Working
  <2>9. ASSUME NEW v \in Threads, Working(v)'
        PROVE  (job[v] \in Job /\ Due(job[v]))'
    <3>1. PICK x : x = job'[v]
      OBVIOUS
    <3>2. x \in Job /\ Due(x)
      BY <2>5, <2>6, <2>7, <2>9, <3>1 DEF Jobs
    <3>3. Due(x)'
      BY <1>2, <3>2
    <3>. QED  BY <3>1, <3>2, <3>3 DEF Due
  <2>10. ASSUME NEW i \in DOMAIN targs'
         PROVE  Due(targs[i])'
    <3>1. PICK x : x = targs'[i]
      OBVIOUS
    <3>2. Due(x)'
      BY <1>2, <2>4, <3>1 DEF Jobs
    <3>. QED  BY <3>1, <3>2 DEF Due
  <2>11. ASSUME NEW u \in Threads, NEW v \in Threads, Working(u)', Working(v)',
                job'[u].miner = job'[v].miner
         PROVE  u = v
    <3>1. CASE u = w /\ v # w
      BY <2>3, <2>6, <2>7, <2>11, <3>1 DEF Jobs, OneThreadPerMiner
    <3>2. CASE u # w /\ v = w
      BY <2>3, <2>6, <2>7, <2>11, <3>2 DEF Jobs, OneThreadPerMiner
    <3>3. CASE u # w /\ v # w
      BY <2>6, <2>7, <2>11, <3>3 DEF Jobs, OneThreadPerMiner
    <3>. QED  BY <3>1, <3>2, <3>3
  <2>12. ASSUME NEW v \in Threads, NEW i \in DOMAIN targs', Working(v)'
         PROVE  targs'[i].miner # job'[v].miner
    <3>1. CASE v = w
      BY <2>3, <2>4, <2>6, <3>1 DEF Jobs, OneThreadPerMiner
    <3>2. CASE v # w
      BY <2>4, <2>6, <2>7, <2>12, <3>2 DEF Jobs, OneThreadPerMiner
    <3>. QED  BY <3>1, <3>2
  <2>13. ASSUME NEW i \in DOMAIN targs', NEW j \in DOMAIN targs',
                targs'[i].miner = targs'[j].miner
         PROVE  i = j
    BY <2>4, <2>13 DEF Jobs, OneThreadPerMiner
  <2>14. OneThreadPerMiner'
    BY <2>11, <2>12, <2>13 DEF OneThreadPerMiner
  <2>. QED  BY <1>2, <2>9, <2>10, <2>14 DEF Jobs
<1>. QED  BY <1>5, <1>6, <1>7, <1>8, <1>9, <1>10, <1>11, <1>12, <1>13, <1>14 DEF ThreadStep

\* Every step keeps the jobs.
LEMMA JobsStep ==
  ASSUME TypeOK, Holder, Loops, Tally, Jobs, Attached, TypeOK', Holder', Tally', [Next]_vars
  PROVE  Jobs'
<1>0. /\ Nobody \notin Clients
      /\ cpc \in [Clients -> {"idle", "attach", "error", "push", "signal", "collect", "return",
                              "destroy", "terminate", "join", "gone"}]
  BY ConstantsAssumption DEF TypeOK
<1>a. ASSUME UNCHANGED <<mutex_extractor, targs, miners, frame, wpc, job>>,
             \A d \in Clients : InNext(d) => cpc'[d] = cpc[d]
      PROVE  Jobs'
  <2>1. \A j : j.pout \in Clients /\ Due(j) => Due(j)'
    BY <1>a DEF Due, InNext, PushedMiners, Pushed
  <2>2. ASSUME NEW i \in DOMAIN targs'
        PROVE  Due(targs[i])'
    <3>1. PICK x : x = targs[i] /\ x \in Job
      BY <1>a, <2>2 DEF TypeOK
    <3>2. Due(x)'
      BY <1>a, <2>1, <3>1 DEF Jobs, Job
    <3>. QED  BY <1>a, <3>1, <3>2 DEF Due
  <2>3. ASSUME NEW w \in Threads, Working(w)'
        PROVE  (job[w] \in Job /\ Due(job[w]))'
    <3>1. PICK x : x = job[w]
      OBVIOUS
    <3>2. x \in Job /\ Due(x)
      BY <1>a, <2>3, <3>1 DEF Jobs, Working
    <3>3. Due(x)'
      BY <2>1, <3>2 DEF Job
    <3>. QED  BY <1>a, <3>1, <3>2, <3>3 DEF Due
  <2>4. OneThreadPerMiner'
    BY <1>a DEF Jobs, OneThreadPerMiner, Working
  <2>. QED  BY <1>a, <2>2, <2>3, <2>4 DEF Jobs
<1>1. ASSUME NEW c \in Clients, CallStep(c)
      PROVE  Jobs'
  <2>1. CASE Push(c) \/ Signal(c) \/ MoveStream(c) \/ Collect(c)
    BY <2>1, NextJobs
  <2>2. CASE Attach(c) \/ RefuseStream(c) \/ SetLastError(c) \/ Finish(c)
    <3>1. mutex_extractor' = Nobody /\ miners' = miners
      BY <2>2 DEF Attach, RefuseStream, SetLastError, Finish, confVars
    <3>2. \A d \in Clients : ~InNext(d)'
      BY <3>1, <1>0 DEF Holder, InNext
    <3>3. \A i, j \in DOMAIN miners' : miners'[i] = miners'[j] => i = j
      BY <3>1 DEF Jobs
    <3>. QED  BY <3>2, <3>3, QuietJobs
  <2>3. CASE SetTerminate(c) \/ PostTerminate(c) \/ Join(c) \/ Teardown(c)
    <3>1. cpc'[c] \in {"terminate", "join", "gone"} /\ miners' = miners
      BY <2>3, <1>0 DEF SetTerminate, PostTerminate, Join, Teardown, Goto, confVars
    <3>2. mutex_extractor' = c
      BY <3>1 DEF Holder
    <3>3. \A d \in Clients : ~InNext(d)'
      BY <3>1, <3>2 DEF Holder, InNext
    <3>4. \A i, j \in DOMAIN miners' : miners'[i] = miners'[j] => i = j
      BY <3>1 DEF Jobs
    <3>. QED  BY <3>3, <3>4, QuietJobs
  <2>4. CASE Return(c)
    <3>1. UNCHANGED <<mutex_extractor, targs, miners, frame, wpc, job>>
      BY <2>4 DEF Return, poolVars, confVars, workVars
    <3>2. \A d \in Clients : InNext(d) => cpc'[d] = cpc[d]
      BY <2>4, <1>0 DEF Return, Goto, InNext
    <3>. QED  BY <3>1, <3>2, <1>a
  <2>. QED  BY <1>1, <2>1, <2>2, <2>3, <2>4 DEF CallStep
<1>2. ASSUME NEW c \in Clients, Call(c)
      PROVE  Jobs'
  <2>1. CASE \E fs \in FlagArgs, value \in BOOLEAN : SetFlags(c, fs, value)
    <3>1. UNCHANGED <<mutex_extractor, targs, miners, frame, wpc, job, cpc>>
      BY <2>1 DEF SetFlags, poolVars, callVars, workVars
    <3>. QED  BY <3>1, <1>a
  <2>2. CASE \E b \in Batches : NextEnter(c, b)
    <3>1. mutex_extractor = Nobody /\ UNCHANGED <<targs, miners, wpc>>
      BY <2>2 DEF NextEnter, confVars, workVars
    <3>2. \A d \in Clients : ~InNext(d)
      BY <3>1, FreeMutex DEF InNext
    <3>3. targs' = <<>> /\ \A w \in Threads : ~Working(w)'
      BY <3>1, <3>2, QuietOutsideNext DEF Working, Busy
    <3>. QED  BY <3>1, <3>3 DEF Jobs, OneThreadPerMiner
  <2>3. CASE (\E t \in Texts : SetStream(c, t)) \/ UnsetStream(c) \/ Destroy(c)
    <3>1. mutex_extractor' = Nobody /\ miners' = miners
      BY <2>3 DEF SetStream, UnsetStream, Destroy
    <3>2. \A d \in Clients : ~InNext(d)'
      BY <3>1, <1>0 DEF Holder, InNext
    <3>3. \A i, j \in DOMAIN miners' : miners'[i] = miners'[j] => i = j
      BY <3>1 DEF Jobs
    <3>. QED  BY <3>2, <3>3, QuietJobs
  <2>4. CASE \E m \in Miners : AddMiner(c, m)
    <3>1. PICK m \in Miners : AddMiner(c, m)
      BY <2>4
    <3>2. mutex_extractor' = Nobody /\ miners' = Append(miners, m) /\ m \notin SeqRange(miners)
      BY <3>1 DEF AddMiner
    <3>3. \A d \in Clients : ~InNext(d)'
      BY <3>2, <1>0 DEF Holder, InNext
    <3>4. miners \in Seq(Miners)
      BY DEF TypeOK
    <3>5. \A i, j \in DOMAIN miners' : miners'[i] = miners'[j] => i = j
      <4>1. \A i \in DOMAIN miners' : \/ i \in DOMAIN miners /\ miners'[i] = miners[i]
                                      \/ i = Len(miners) + 1 /\ miners'[i] = m
        BY <3>2, <3>4
      <4>2. \A i \in DOMAIN miners : miners[i] # m
        BY <3>2 DEF SeqRange
      <4>. QED  BY <4>1, <4>2 DEF Jobs
    <3>. QED  BY <3>3, <3>5, QuietJobs
  <2>. QED  BY <1>2, <2>1, <2>2, <2>3, <2>4 DEF Call
<1>3. ASSUME NEW w \in Threads, ThreadStep(w)
      PROVE  Jobs'
  BY <1>3, ThreadJobs
<1>4. CASE UNCHANGED vars
  <2>1. UNCHANGED <<mutex_extractor, targs, miners, frame, wpc, job, cpc>>
    BY <1>4 DEF vars, poolVars, confVars, callVars, workVars
  <2>. QED  BY <2>1, <1>a
<1>. QED  BY <1>1, <1>2, <1>3, <1>4 DEF Next

-----------------------------------------------------------------------------
(* The callers' arrays *)

\* In a step without a thread that counts a cell, cells and cursor agree.
LEMMA FullCursor ==
  ASSUME Buffer, NEW c \in Clients, \A w \in Threads : wpc[w] = "bump" => job[w].pout # c
  PROVE  Len(out[c]) = pout[c]
BY DEF Buffer

\* The threads leave an array and its cursor in step.
LEMMA ThreadBuffer ==
  ASSUME TypeOK, Jobs, Buffer, Attached, TypeOK', NEW w \in Threads, ThreadStep(w)
  PROVE  Buffer'
<1>0. /\ wpc \in [Threads -> {"wait", "check", "pop", "scan", "lock", "store", "bump", "exited"}]
      /\ job \in [Threads -> Job \cup {NoJob}]
      /\ cur \in [Threads -> Occurrence \cup {NoOccurrence}]
      /\ out \in [Clients -> Seq(Occurrence)] /\ pout \in [Clients -> Nat]
      /\ Nobody \notin Threads
  BY ConstantsAssumption DEF TypeOK
<1>a. ASSUME UNCHANGED <<out, pout, mutex_pout, cur>>, NEW from, NEW to, Step(w, from, to),
             from \notin {"store", "bump"}, to \notin {"lock", "store", "bump"},
             \A v \in Threads : wpc[v] = "bump" => job'[v] = job[v]
      PROVE  Buffer'
  <2>1. \A v \in Threads : (wpc'[v] \in {"store", "bump"} <=> wpc[v] \in {"store", "bump"})
                           /\ (wpc'[v] \in {"lock", "store"} => wpc[v] \in {"lock", "store"})
                           /\ (wpc'[v] = "bump" <=> wpc[v] = "bump")
    BY <1>a, <1>0 DEF Step
  <2>. QED  BY <1>a, <2>1 DEF Buffer
<1>1. CASE WaitTargs(w)
  BY <1>1, <1>a DEF WaitTargs, bufVars
<1>2. CASE Quit(w)
  BY <1>2, <1>a DEF Quit, bufVars
<1>3. CASE GoOn(w)
  BY <1>3, <1>a DEF GoOn, bufVars
<1>4. CASE Pop(w)
  <2>1. \A v \in Threads : wpc[v] = "bump" => job'[v] = job[v]
    BY <1>4, <1>0 DEF Pop, Step
  <2>. QED  BY <1>4, <2>1, <1>a DEF Pop, bufVars
<1>5. CASE PostMain(w)
  <2>1. \A v \in Threads : wpc[v] = "bump" => job'[v] = job[v]
    BY <1>5, <1>0 DEF PostMain, Step
  <2>. QED  BY <1>5, <2>1, <1>a DEF PostMain, bufVars
<1>6. CASE SkipPosition(w)
  <2>1. UNCHANGED <<out, pout, mutex_pout, wpc, cur>> /\ wpc[w] = "scan"
    BY <1>6 DEF SkipPosition, Scanning, bufVars
  <2>2. \A v \in Threads : wpc[v] = "bump" => job'[v] = job[v]
    BY <1>0, <1>6, <2>1 DEF SkipPosition
  <2>. QED  BY <2>1, <2>2 DEF Buffer
<1>7. CASE RunMiner(w)
  <2>1. UNCHANGED <<out, pout, mutex_pout>> /\ wpc[w] = "scan" /\ Scanning(w)
    BY <1>7 DEF RunMiner, Scanning, bufVars
  <2>2. \A v \in Threads : v # w => job'[v] = job[v]
    BY <1>0, <1>7 DEF RunMiner
  <2>3. \/ wpc' = wpc /\ cur' = cur
        \/ /\ wpc' = [wpc EXCEPT ![w] = "lock"]
           /\ \E o \in Occurrence : cur' = [cur EXCEPT ![w] = o]
    <3>. DEFINE r == Matcher[job[w].miner][State(w).text][State(w).pos]
                o == [miner |-> job[w].miner, start |-> r.start, end |-> r.end]
    <3>1. r \in [start : Nat, end : Nat, to : Nat]
      BY <2>1, RunTypes
    <3>2. o \in Occurrence
      BY <2>1, <3>1 DEF Jobs, Working, Job, Occurrence
    <3>3. \/ wpc' = wpc /\ cur' = cur
          \/ wpc' = [wpc EXCEPT ![w] = "lock"] /\ cur' = [cur EXCEPT ![w] = o]
      BY <1>7 DEF RunMiner
    <3>. QED  BY <3>2, <3>3
  <2>4. \A v \in Threads : (wpc'[v] \in {"store", "bump"} <=> wpc[v] \in {"store", "bump"})
                           /\ (wpc'[v] = "bump" <=> wpc[v] = "bump")
                           /\ (wpc'[v] = "bump" => job'[v] = job[v])
    BY <1>0, <2>1, <2>2, <2>3
  <2>5. \A v \in Threads : wpc'[v] \in {"lock", "store"} => cur'[v] \in Occurrence
    BY <1>0, <2>1, <2>3 DEF Buffer
  <2>. QED  BY <2>1, <2>4, <2>5 DEF Buffer
<1>8. CASE LockPout(w)
  <2>1. /\ UNCHANGED <<out, pout, cur, job>> /\ mutex_pout = Nobody /\ mutex_pout' = w
        /\ wpc[w] = "lock" /\ wpc' = [wpc EXCEPT ![w] = "store"]
    BY <1>8 DEF LockPout, Step
  <2>2. \A v \in Threads : wpc[v] \notin {"store", "bump"}
    BY <1>0, <2>1 DEF Buffer
  <2>3. \A v \in Threads : /\ wpc'[v] \in {"store", "bump"} <=> v = w
                           /\ wpc'[v] # "bump"
                           /\ wpc'[v] \in {"lock", "store"} => wpc[v] \in {"lock", "store"}
    BY <1>0, <2>1, <2>2
  <2>. QED  BY <2>1, <2>2, <2>3 DEF Buffer
<1>9. CASE DropEnclosed(w)
  <2>1. /\ UNCHANGED <<out, pout, job>> /\ mutex_pout' = Nobody
        /\ cur' = [cur EXCEPT ![w] = NoOccurrence]
        /\ wpc[w] = "store" /\ wpc' = [wpc EXCEPT ![w] = "scan"]
    BY <1>9 DEF DropEnclosed, Step
  <2>2. \A v \in Threads : v # w => wpc[v] \notin {"store", "bump"}
    BY <1>0, <2>1 DEF Buffer
  <2>3. \A v \in Threads : /\ wpc'[v] \notin {"store", "bump"} /\ wpc[v] # "bump"
                           /\ wpc'[v] \in {"lock", "store"} =>
                                wpc[v] \in {"lock", "store"} /\ cur'[v] = cur[v]
    BY <1>0, <2>1, <2>2
  <2>. QED  BY <1>0, <2>1, <2>3 DEF Buffer
<1>10. CASE Store(w)
  <2>. DEFINE c == job[w].pout
  <2>1. /\ UNCHANGED <<pout, job, mutex_pout>>
        /\ cur' = [cur EXCEPT ![w] = NoOccurrence]
        /\ out' = [out EXCEPT ![c] = Put(@, pout[c] + 1, cur[w])]
        /\ wpc[w] = "store" /\ wpc' = [wpc EXCEPT ![w] = "bump"]
    BY <1>10 DEF Store, Step
  <2>2. \A v \in Threads : v # w => wpc[v] \notin {"store", "bump"}
    BY <1>0, <2>1 DEF Buffer
  <2>3. \A d \in Clients : Len(out[d]) = pout[d]
    BY <2>1, <2>2, FullCursor
  <2>4. c \in Clients
    BY <2>1 DEF Jobs, Working, Job
  <2>. HIDE DEF c
  <2>5. Len(out'[c]) = pout'[c] + 1
    <3>1. out[c] \in Seq(Occurrence) /\ pout[c] \in Nat /\ pout[c] = Len(out[c])
      BY <2>3, <2>4, <1>0
    <3>2. Put(out[c], pout[c] + 1, cur[w]) = Append(out[c], cur[w])
      BY <3>1 DEF Put
    <3>3. out'[c] = Append(out[c], cur[w])
      BY <2>1, <2>4, <3>2, <1>0
    <3>. QED  BY <3>1, <3>3, <2>1
  <2>6. \A d \in Clients : d # c => Len(out'[d]) = pout'[d]
    BY <2>1, <2>3, <1>0
  <2>7. \A v \in Threads : /\ wpc'[v] \in {"store", "bump"} <=> wpc[v] \in {"store", "bump"}
                           /\ wpc'[v] = "bump" <=> v = w
                           /\ wpc'[v] \in {"lock", "store"} =>
                                wpc[v] \in {"lock", "store"} /\ cur'[v] = cur[v]
    BY <1>0, <2>1, <2>2
  <2>8. job'[w].pout = c
    BY <2>1 DEF c
  <2>. QED  BY <2>1, <2>5, <2>6, <2>7, <2>8 DEF Buffer
<1>11. CASE Bump(w)
  <2>. DEFINE c == job[w].pout
  <2>1. /\ UNCHANGED <<out, job, cur>> /\ mutex_pout' = Nobody
        /\ pout' = [pout EXCEPT ![c] = @ + 1]
        /\ wpc[w] = "bump" /\ wpc' = [wpc EXCEPT ![w] = "scan"]
    BY <1>11 DEF Bump, Step
  <2>2. \A v \in Threads : v # w => wpc[v] \notin {"store", "bump"}
    BY <1>0, <2>1 DEF Buffer
  <2>3. c \in Clients /\ Len(out[c]) = pout[c] + 1
    BY <2>1 DEF Jobs, Working, Job, Buffer
  <2>4. \A d \in Clients : d # c => Len(out[d]) = pout[d]
    BY <2>1, <2>2, FullCursor
  <2>. HIDE DEF c
  <2>5. \A d \in Clients : Len(out'[d]) = pout'[d]
    BY <1>0, <2>1, <2>3, <2>4
  <2>6. \A v \in Threads : /\ wpc'[v] \notin {"store", "bump"}
                           /\ wpc'[v] \in {"lock", "store"} => wpc[v] \in {"lock", "store"}
    BY <1>0, <2>1, <2>2
  <2>. QED  BY <1>0, <2>1, <2>5, <2>6 DEF Buffer
<1>. QED  BY <1>1, <1>2, <1>3, <1>4, <1>5, <1>6, <1>7, <1>8, <1>9, <1>10, <1>11 DEF ThreadStep

\* Every step keeps arrays and cursors in step.
LEMMA BufferStep ==
  ASSUME TypeOK, Holder, Tally, Jobs, Buffer, Attached, TypeOK', Tally', [Next]_vars
  PROVE  Buffer'
<1>0. /\ out \in [Clients -> Seq(Occurrence)] /\ pout \in [Clients -> Nat]
  BY DEF TypeOK
<1>a. ASSUME UNCHANGED <<bufVars, workVars>>
      PROVE  Buffer'
  <2>1. UNCHANGED <<out, pout, mutex_pout, wpc, job, cur>>
    BY <1>a DEF bufVars, workVars
  <2>. QED  BY <2>1 DEF Buffer
<1>b. ASSUME \A w \in Threads : wpc[w] \notin {"lock", "store", "bump"},
             UNCHANGED <<wpc, mutex_pout>>,
             NEW c \in Clients, NEW s, Len(s) \in Nat,
             out' = [out EXCEPT ![c] = s], pout' = [pout EXCEPT ![c] = Len(s)]
      PROVE  Buffer'
  <2>1. \A d \in Clients : Len(out[d]) = pout[d]
    BY <1>b, FullCursor
  <2>2. \A d \in Clients : Len(out'[d]) = pout'[d]
    BY <1>0, <1>b, <2>1
  <2>. QED  BY <1>b, <2>2 DEF Buffer
<1>1. ASSUME NEW c \in Clients, CallStep(c)
      PROVE  Buffer'
  <2>1. CASE Finish(c)
    <3>1. PICK kept \in IF "E_NO_ENCLOSED_OCCURRENCES" \in flags
                       THEN Longest(SubSeq(out[c], 1, pout[c]))
                       ELSE {SubSeq(out[c], 1, pout[c])} :
            out' = [out EXCEPT ![c] = kept] /\ pout' = [pout EXCEPT ![c] = Len(kept)]
      BY <2>1 DEF Finish
    <3>2. Len(kept) \in Nat
      BY <3>1, KeptTypes
    <3>3. mutex_extractor' = Nobody /\ UNCHANGED <<wpc, mutex_pout>>
      BY <2>1 DEF Finish, workVars
    <3>4. Idle'
      BY <3>3 DEF Tally
    <3>5. \A w \in Threads : wpc'[w] \notin Busy
      BY <3>4, CountZero DEF Idle
    <3>. QED  BY <3>1, <3>2, <3>3, <3>5, <1>b DEF Busy
  <2>2. CASE Return(c)
    <3>1. UNCHANGED <<wpc, job, cur, pout, mutex_pout>> /\ cpc[c] = "return"
      BY <2>2 DEF Return, workVars
    <3>2. out' = out \/ \E s \in Orders(out[c]) : out' = [out EXCEPT ![c] = s]
      BY <2>2 DEF Return
    <3>3. \A s \in Orders(out[c]) : Len(s) = Len(out[c])
      BY <1>0, OrdersTypes
    <3>4. \A d \in Clients : Len(out'[d]) = Len(out[d])
      BY <1>0, <3>2, <3>3
    <3>5. \A w \in Threads : wpc[w] = "bump" => job[w].pout \in Clients
      BY DEF Jobs, Working, Job
    <3>. QED  BY <3>1, <3>4, <3>5 DEF Buffer
  <2>3. CASE ~(Finish(c) \/ Return(c))
    <3>1. UNCHANGED <<bufVars, workVars>>
      BY <1>1, <2>3 DEF CallStep, Attach, RefuseStream, SetLastError, Push, Signal, MoveStream,
             Collect, SetTerminate, PostTerminate, Join, Teardown
    <3>. QED  BY <3>1, <1>a
  <2>. QED  BY <2>1, <2>2, <2>3
<1>2. ASSUME NEW c \in Clients, Call(c)
      PROVE  Buffer'
  <2>1. CASE \E b \in Batches : NextEnter(c, b)
    <3>1. /\ mutex_extractor = Nobody /\ UNCHANGED <<wpc, mutex_pout>>
          /\ out' = [out EXCEPT ![c] = <<>>] /\ pout' = [pout EXCEPT ![c] = 0]
      BY <2>1 DEF NextEnter, workVars
    <3>2. Idle
      BY <3>1 DEF Tally
    <3>3. \A w \in Threads : wpc[w] \notin Busy
      BY <3>2, CountZero DEF Idle
    <3>4. PICK s : s = <<>>
      OBVIOUS
    <3>5. Len(s) = 0
      BY <3>4
    <3>6. out' = [out EXCEPT ![c] = s] /\ pout' = [pout EXCEPT ![c] = Len(s)]
      BY <3>1, <3>4, <3>5
    <3>7. \A w \in Threads : wpc[w] \notin {"lock", "store", "bump"}
      BY <3>3 DEF Busy
    <3>8. UNCHANGED <<wpc, mutex_pout>> /\ Len(s) \in Nat
      BY <3>1, <3>5
    <3>. QED  BY <3>6, <3>7, <3>8, <1>b
  <2>2. CASE ~\E b \in Batches : NextEnter(c, b)
    <3>1. UNCHANGED <<bufVars, workVars>>
      BY <1>2, <2>2 DEF Call, AddMiner, SetStream, UnsetStream, SetFlags, Destroy
    <3>. QED  BY <3>1, <1>a
  <2>. QED  BY <2>1, <2>2
<1>3. ASSUME NEW w \in Threads, ThreadStep(w)
      PROVE  Buffer'
  BY <1>3, ThreadBuffer
<1>4. CASE UNCHANGED vars
  BY <1>4, <1>a DEF vars
<1>. QED  BY <1>1, <1>2, <1>3, <1>4 DEF Next

-----------------------------------------------------------------------------
(* The invariant and what follows from it *)

\* The invariant holds when extractor_c_new returns.
LEMMA InitInv ==
  Init => IInv
<1>. SUFFICES ASSUME Init PROVE IInv
  OBVIOUS
<1>1. \A c \in Clients : cpc[c] = "idle" /\ ~InNext(c)
  BY DEF Init, InNext
<1>2. \A w \in Threads : wpc[w] = "wait"
  BY DEF Init
<1>3. miners \in Seq(Miners) /\ \A i, j \in DOMAIN miners : miners[i] = miners[j] => i = j
  BY ConstantsAssumption DEF Init
<1>4. TypeOK
  <2>1. <<>> \in Seq(Job) /\ <<>> \in Seq(Occurrence)
    BY EmptySeq
  <2>2. MutexOK /\ ConfOK /\ ScanOK
    BY <1>3, ConstantsAssumption DEF Init, MutexOK, ConfOK, ScanOK, Flags
  <2>3. PoolOK /\ HistOK
    BY <2>1 DEF Init, PoolOK, HistOK
  <2>4. CallOK
    BY DEF Init, CallOK
  <2>5. BufOK /\ WorkOK
    BY <2>1 DEF Init, BufOK, WorkOK
  <2>. QED  BY <2>2, <2>3, <2>4, <2>5, TypeParts
<1>5. Holder /\ Loops
  BY <1>1, ConstantsAssumption DEF Init, Holder, Loops
<1>6. Idle
  <2>1. CountIn(wpc, Awake \cup Busy \cup {"exited"}) = 0
    BY <1>2, CountZero DEF Awake, Busy
  <2>. QED  BY <2>1 DEF Init, Idle
<1>7. Tally
  BY <1>1, <1>6 DEF Tally
<1>8. Jobs
  <2>1. targs = <<>> /\ \A w \in Threads : ~Working(w)
    BY <1>2 DEF Init, Working
  <2>. QED  BY <1>3, <2>1 DEF Jobs, OneThreadPerMiner
<1>9. Buffer
  <2>1. \A c \in Clients : Len(out[c]) = pout[c]
    BY EmptySeq DEF Init
  <2>2. mutex_pout \notin Threads
    BY ConstantsAssumption DEF Init
  <2>. QED  BY <1>2, <2>1, <2>2 DEF Buffer
<1>10. Attached /\ Allocated
  BY <1>1, ConstantsAssumption DEF Init, Attached, Allocated
<1>. QED  BY <1>4, <1>5, <1>7, <1>8, <1>9, <1>10 DEF IInv

\* Every step keeps the invariant.
LEMMA NextInv ==
  IInv /\ [Next]_vars => IInv'
<1>. SUFFICES ASSUME IInv, [Next]_vars PROVE IInv'
  OBVIOUS
<1>1. TypeOK /\ Holder /\ Loops /\ Tally /\ Jobs /\ Buffer /\ Attached /\ Allocated
  BY DEF IInv
<1>2. TypeOK'
  BY <1>1, TypeStep
<1>3. Holder' /\ Loops'
  BY <1>1, HolderStep, LoopsStep
<1>4. Tally'
  BY <1>1, <1>3, TallyStep
<1>5. Jobs'
  BY <1>1, <1>2, <1>3, <1>4, JobsStep
<1>6. Buffer'
  BY <1>1, <1>2, <1>4, BufferStep
<1>7. Attached' /\ Allocated'
  BY <1>1, AttachedStep, AllocatedStep
<1>. QED  BY <1>2, <1>3, <1>4, <1>5, <1>6, <1>7 DEF IInv

\* The pool of threads keeps its account of jobs and tokens, in every
\* interleaving of callers and threads.
THEOREM Invariance == Spec => []IInv
<1>. QED  BY InitInv, NextInv, PTL DEF Spec

\* Every variable keeps its type.
THEOREM TypeCorrect == Spec => []TypeOK
<1>1. IInv => TypeOK
  BY DEF IInv
<1>. QED  BY <1>1, Invariance, PTL

\* A thread that is about to pop a job finds one.
THEOREM PopsFindJobs == Spec => []PopFindsJob
<1>1. IInv => PopFindsJob
  <2>. SUFFICES ASSUME IInv, NEW w \in Threads, wpc[w] = "pop" PROVE targs # <<>>
    BY DEF PopFindsJob
  <2>1. TypeOK /\ Holder /\ Tally
    BY DEF IInv
  <2>2. PICK c \in Clients : InNext(c)
    BY <2>1, QuietOutsideNext
  <2>3. InNextTally(c)
    BY <2>1, <2>2 DEF Tally
  <2>4. CountIn(wpc, Awake) # 0 /\ CountIn(wpc, Awake) \in Nat
    <3>1. wpc[w] \in Awake
      BY DEF Awake
    <3>. QED  BY <3>1, CountZero, CountNat
  <2>5. Unsignalled(c) \in {0, 1} /\ sem_targs \in Nat
    BY <2>1 DEF Unsignalled, TypeOK
  <2>6. sem_targs + CountIn(wpc, Awake) + Unsignalled(c) = Len(targs)
    BY <2>3 DEF InNextTally
  <2>7. Len(targs) # 0
    BY <2>4, <2>5, <2>6
  <2>. QED  BY <2>7, EmptySeq
<1>. QED  BY <1>1, Invariance, PTL

\* A thread writes only for a caller that is inside next.
THEOREM NoLateWrites == Spec => []NoLateWriter
<1>1. IInv => NoLateWriter
  BY DEF IInv, Jobs, Due, NoLateWriter
<1>. QED  BY <1>1, Invariance, PTL

\* No miner is in two hands.
THEOREM MinersExclusive == Spec => []OneThreadPerMiner
<1>1. IInv => OneThreadPerMiner
  BY DEF IInv, Jobs
<1>. QED  BY <1>1, Invariance, PTL

\* Between calls the pool is quiet.
THEOREM PoolQuiet == Spec => []QuietBetweenCalls
<1>1. IInv => QuietBetweenCalls
  <2>. SUFFICES ASSUME IInv, mutex_extractor = Nobody
                PROVE  /\ sem_targs = 0 /\ sem_main = 0 /\ targs = <<>>
                       /\ \A w \in Threads : wpc[w] = "wait"
    BY DEF QuietBetweenCalls
  <2>1. Idle /\ TypeOK
    BY DEF IInv, Tally
  <2>2. \A w \in Threads : wpc[w] \notin Awake \cup Busy \cup {"exited"}
    BY <2>1, CountZero DEF Idle
  <2>3. \A w \in Threads : wpc[w] = "wait"
    BY <2>1, <2>2 DEF TypeOK, Awake, Busy
  <2>. QED  BY <2>1, <2>3 DEF Idle
<1>. QED  BY <1>1, Invariance, PTL

\* A push never writes past the array of jobs.
THEOREM PushesFit == Spec => []TargsFits
<1>1. IInv => TargsFits
  <2>. SUFFICES ASSUME IInv PROVE Len(targs) <= targs_cap
    BY DEF TargsFits
  <2>1. TypeOK /\ Holder /\ Tally
    BY DEF IInv
  <2>2. targs_cap \in Nat /\ Len(targs) \in Nat /\ Len(miners) \in Nat /\ sem_main \in Nat
    BY <2>1 DEF TypeOK
  <2>3. CASE \A c \in Clients : ~InNext(c)
    <3>1. targs = <<>>
      BY <2>1, <2>3, QuietOutsideNext
    <3>. QED  BY <3>1, <2>2, EmptySeq
  <2>4. CASE \E c \in Clients : InNext(c)
    <3>1. PICK c \in Clients : InNext(c)
      BY <2>4
    <3>2. targs_cap >= Len(miners)
      BY <3>1 DEF IInv, Allocated
    <3>3. frame[c].m \in Nat
      BY <2>1 DEF TypeOK
    <3>4. Pushed(c) \in Int /\ Pushed(c) <= Len(miners)
      BY <2>2, <3>1, <3>3 DEF IInv, Loops, Pushed, InNext
    <3>5. Collected(c) \in Int /\ Collected(c) >= 0
      <4>1. frame[c].m \in Nat \ {0}
        BY <2>1 DEF TypeOK
      <4>. QED  BY <4>1 DEF Collected
    <3>6. Len(targs) + CountIn(wpc, Busy) + sem_main + Collected(c) = Pushed(c)
      BY <2>1, <3>1 DEF Tally, InNextTally
    <3>7. CountIn(wpc, Busy) \in Nat
      BY CountNat
    <3>. QED  BY <2>2, <3>2, <3>4, <3>5, <3>6, <3>7
  <2>. QED  BY <2>3, <2>4
<1>. QED  BY <1>1, Invariance, PTL

\* When destroy frees the extractor every thread has left thread_fn.
THEOREM ThreadsEndFirst == Spec => []TeardownAfterThreads
<1>1. IInv => TeardownAfterThreads
  <2>. SUFFICES ASSUME IInv, NEW c \in Clients, cpc[c] = "gone"
                PROVE  \A w \in Threads : wpc[w] = "exited"
    BY DEF TeardownAfterThreads, Destroyed
  <2>1. InDestroyTally(c) /\ sem_main \in Nat
    BY DEF IInv, Tally, TypeOK
  <2>2. Joined(c) = Cardinality(Threads)
    BY DEF Joined
  <2>3. sem_main + Cardinality(Threads) = CountIn(wpc, {"exited"})
    BY <2>1, <2>2 DEF InDestroyTally
  <2>4. /\ CountIn(wpc, {"exited"}) <= Cardinality(Threads)
        /\ CountIn(wpc, {"exited"}) \in Nat /\ Cardinality(Threads) \in Nat
    BY CountBound, CountNat, FS_CardinalityType, ConstantsAssumption
  <2>5. CountIn(wpc, {"exited"}) = Cardinality(Threads)
    BY <2>1, <2>3, <2>4
  <2>. QED  BY <2>5, CountAll
<1>. QED  BY <1>1, Invariance, PTL

-----------------------------------------------------------------------------
(* Counting cells *)

\* If no more than b elements of T have the same one of n values there are no
\* more than b times n of them.
LEMMA FibreBound ==
  ASSUME NEW b \in Nat, NEW n \in Nat, NEW T, IsFiniteSet(T), NEW f,
         \A x \in T : f[x] \in 1 .. n,
         \A k \in 1 .. n : Cardinality({x \in T : f[x] = k}) <= b
  PROVE  Cardinality(T) <= b * n
<1>. DEFINE Upto(k) == {x \in T : f[x] <= k}
            S == {k \in Nat : k <= n => Cardinality(Upto(k)) <= b * k}
<1>1. 0 \in S
  <2>1. Upto(0) = {} /\ b * 0 = 0
    OBVIOUS
  <2>2. Cardinality(Upto(0)) <= b * 0
    BY <2>1, FS_EmptySet
  <2>. QED  BY <2>2
<1>2. ASSUME NEW k \in Nat, k \in S
      PROVE  k + 1 \in S
  <2>. SUFFICES ASSUME k + 1 <= n PROVE Cardinality(Upto(k + 1)) <= b * (k + 1)
    OBVIOUS
  <2>. DEFINE At == {x \in T : f[x] = k + 1}
  <2>1. Upto(k + 1) = Upto(k) \cup At
    OBVIOUS
  <2>2. IsFiniteSet(Upto(k)) /\ IsFiniteSet(At)
    BY FS_Subset
  <2>3. Cardinality(Upto(k)) <= b * k
    BY <1>2
  <2>4. Cardinality(At) <= b
    BY k + 1 \in 1 .. n
  <2>. HIDE DEF Upto, At
  <2>5. /\ Cardinality(Upto(k + 1)) =
             Cardinality(Upto(k)) + Cardinality(At) - Cardinality(Upto(k) \cap At)
        /\ IsFiniteSet(Upto(k) \cap At)
    BY <2>1, <2>2, FS_Union, FS_Intersection
  <2>6. /\ Cardinality(Upto(k)) \in Nat /\ Cardinality(At) \in Nat
        /\ Cardinality(Upto(k) \cap At) \in Nat
    BY <2>2, <2>5, FS_CardinalityType
  <2>7. b * (k + 1) = b * k + b /\ b * k \in Nat
    OBVIOUS
  <2>. QED  BY <2>3, <2>4, <2>5, <2>6, <2>7
<1>3. S \subseteq Nat
  OBVIOUS
<1>. HIDE DEF S
<1>4. n \in S
  BY <1>1, <1>2, <1>3, SetInduction
<1>5. Cardinality(Upto(n)) <= b * n
  BY <1>4 DEF S
<1>6. Upto(n) = T
  OBVIOUS
<1>. QED  BY <1>5, <1>6

\* A number below the modulus is its own remainder.
LEMMA SmallModulus ==
  ASSUME NEW a \in Nat, NEW n \in Nat, a < n
  PROVE  a % n = a
OBVIOUS

-----------------------------------------------------------------------------
(* What has been returned *)

\* A caller that is outside and stays there finds its array as it was.
LEMMA IdleArrayStays ==
  ASSUME IInv, [Next]_vars, NEW c \in Clients, cpc[c] = "idle", cpc'[c] = "idle"
  PROVE  out'[c] = out[c] /\ pout'[c] = pout[c]
<1>0. /\ cpc \in [Clients -> {"idle", "attach", "error", "push", "signal", "collect", "return",
                              "destroy", "terminate", "join", "gone"}]
      /\ out \in [Clients -> Seq(Occurrence)] /\ pout \in [Clients -> Nat]
      /\ job \in [Threads -> Job \cup {NoJob}]
  BY DEF IInv, TypeOK
<1>1. CASE UNCHANGED bufVars
  BY <1>1 DEF bufVars
<1>2. ASSUME NEW d \in Clients, d # c, NEW s, NEW n,
             out' = [out EXCEPT ![d] = s], pout' = [pout EXCEPT ![d] = n]
      PROVE  out'[c] = out[c] /\ pout'[c] = pout[c]
  BY <1>0, <1>2
<1>3. ASSUME NEW d \in Clients, CallStep(d)
      PROVE  out'[c] = out[c] /\ pout'[c] = pout[c]
  <2>1. CASE Finish(d)
    <3>1. d # c
      BY <2>1 DEF Finish
    <3>2. \E s, n : out' = [out EXCEPT ![d] = s] /\ pout' = [pout EXCEPT ![d] = n]
      BY <2>1 DEF Finish
    <3>. QED  BY <3>1, <3>2, <1>2
  <2>2. CASE Return(d)
    <3>1. d # c /\ UNCHANGED pout
      BY <2>2 DEF Return
    <3>2. out' = out \/ \E s : out' = [out EXCEPT ![d] = s]
      BY <2>2 DEF Return
    <3>. QED  BY <1>0, <3>1, <3>2
  <2>3. CASE ~(Finish(d) \/ Return(d))
    <3>1. UNCHANGED bufVars
      BY <1>3, <2>3 DEF CallStep, Attach, RefuseStream, SetLastError, Push, Signal, MoveStream,
             Collect, SetTerminate, PostTerminate, Join, Teardown
    <3>. QED  BY <3>1, <1>1
  <2>. QED  BY <2>1, <2>2, <2>3
<1>4. ASSUME NEW d \in Clients, Call(d)
      PROVE  out'[c] = out[c] /\ pout'[c] = pout[c]
  <2>1. CASE \E b \in Batches : NextEnter(d, b)
    <3>1. cpc'[d] = "push"
      BY <2>1, <1>0 DEF NextEnter, Goto
    <3>2. out' = [out EXCEPT ![d] = <<>>] /\ pout' = [pout EXCEPT ![d] = 0]
      BY <2>1 DEF NextEnter
    <3>3. d # c
      BY <3>1
    <3>. QED  BY <3>2, <3>3, <1>2
  <2>2. CASE ~\E b \in Batches : NextEnter(d, b)
    <3>1. UNCHANGED bufVars
      BY <1>4, <2>2 DEF Call, AddMiner, SetStream, UnsetStream, SetFlags, Destroy
    <3>. QED  BY <3>1, <1>1
  <2>. QED  BY <2>1, <2>2
<1>5. ASSUME NEW w \in Threads, ThreadStep(w)
      PROVE  out'[c] = out[c] /\ pout'[c] = pout[c]
  <2>1. CASE Store(w) \/ Bump(w)
    <3>1. Working(w)
      BY <2>1 DEF Store, Bump, Step, Working
    <3>2. InNext(job[w].pout)
      BY <3>1 DEF IInv, Jobs, Due
    <3>3. job[w].pout # c
      BY <3>2 DEF InNext
    <3>4. out' = out \/ \E s : out' = [out EXCEPT ![job[w].pout] = s]
      BY <2>1 DEF Store, Bump
    <3>5. pout' = pout \/ \E n : pout' = [pout EXCEPT ![job[w].pout] = n]
      BY <2>1 DEF Store, Bump
    <3>. QED  BY <1>0, <3>3, <3>4, <3>5
  <2>2. CASE ~(Store(w) \/ Bump(w))
    <3>1. UNCHANGED <<out, pout>>
      BY <1>5, <2>2 DEF ThreadStep, WaitTargs, Quit, GoOn, Pop, SkipPosition, RunMiner, LockPout,
             DropEnclosed, PostMain, bufVars
    <3>. QED  BY <3>1
  <2>. QED  BY <2>1, <2>2
<1>6. CASE UNCHANGED vars
  BY <1>6, <1>1 DEF vars
<1>. QED  BY <1>3, <1>4, <1>5, <1>6 DEF Next

\* An array that next has handed out changes no more, whatever the threads and
\* the other callers do.
THEOREM ReturnedArraysStay == Spec => ReturnedStays
<1>1. IInv /\ [Next]_vars =>
        [\A c \in Clients : cpc[c] = "idle" /\ cpc'[c] = "idle" =>
           out'[c] = out[c] /\ pout'[c] = pout[c]]_vars
  BY IdleArrayStays
<1>. QED  BY <1>1, Invariance, PTL DEF Spec, ReturnedStays

-----------------------------------------------------------------------------
(* The room in the caller's array *)

\* The cells a miner has filled are finitely many.
LEMMA CellsFinite ==
  ASSUME NEW s \in Seq(Occurrence), NEW m
  PROVE  /\ IsFiniteSet({i \in DOMAIN s : s[i].miner = m})
         /\ Cardinality({i \in DOMAIN s : s[i].miner = m}) \in Nat
<1>1. IsFiniteSet(DOMAIN s)
  BY FS_Interval
<1>. QED  BY <1>1, FS_Subset, FS_CardinalityType

\* A job that is due after a step is one of a caller inside next then.
LEMMA DueInNext ==
  ASSUME IInv'
  PROVE  /\ \A j \in SeqRange(targs)' : j \in Job /\ j.pout \in Clients /\ InNext(j.pout)'
         /\ \A w \in Threads : \A j : Working(w)' /\ j = job'[w] =>
              j \in Job /\ j.pout \in Clients /\ InNext(j.pout)'
<1>1. TypeOK' /\ Jobs'
  BY DEF IInv
<1>2. \A j \in Job : j.pout \in Clients
  BY DEF Job
<1>3. ASSUME NEW j \in SeqRange(targs)'
      PROVE  j \in Job /\ InNext(j.pout)'
  <2>1. PICK i \in DOMAIN targs' : j = targs'[i]
    BY <1>3 DEF SeqRange
  <2>2. j \in Job
    BY <1>1, <2>1 DEF TypeOK
  <2>3. Due(targs[i])'
    BY <1>1, <2>1 DEF Jobs
  <2>. QED  BY <2>1, <2>2, <2>3 DEF Due, InNext
<1>4. ASSUME NEW w \in Threads, NEW j, Working(w)', j = job'[w]
      PROVE  j \in Job /\ InNext(j.pout)'
  <2>1. (job[w] \in Job /\ Due(job[w]))'
    BY <1>1, <1>4 DEF Jobs
  <2>. QED  BY <1>4, <2>1 DEF Due, InNext
<1>. QED  BY <1>2, <1>3, <1>4

\* Outside next nothing is owed.
LEMMA SpentOutside ==
  ASSUME IInv', \A c \in Clients : ~InNext(c)'
  PROVE  Spent'
<1>1. \A j \in SeqRange(targs)' : FALSE
  BY DueInNext
<1>2. \A w \in Threads : ~Working(w)'
  BY DueInNext
<1>. QED  BY <1>1, <1>2 DEF Spent, Working

\* A step that leaves the threads and the arrays of callers inside next alone.
LEMMA CallerSpent ==
  ASSUME IInv, IInv', Spent, UNCHANGED <<miners, job, wpc, cur>>,
         \A d \in Clients : InNext(d)' =>
           /\ InNext(d) /\ out'[d] = out[d]
           /\ frame'[d].batch = frame[d].batch /\ frame'[d].cap = frame[d].cap
           /\ PushedMiners(d) \subseteq PushedMiners(d)',
         \A j \in SeqRange(targs)' : j \in SeqRange(targs) \/ Untouched(j)'
  PROVE  Spent'
<1>1. \A w \in Threads : Working(w)' = Working(w) /\ InHand(w)' = InHand(w)
  BY DEF Working, InHand
<1>2. \A m : \A d \in Clients : InNext(d)' => Cells(d, m)' = Cells(d, m)
  BY DEF Cells
<1>3. ASSUME NEW c \in Clients, InNext(c)'
      PROVE  /\ frame'[c].cap = (frame'[c].batch * Len(miners') + 1) % UintSpan
             /\ \A i \in DOMAIN out'[c] : out'[c][i].miner \in PushedMiners(c)'
             /\ \A m \in Miners : Cardinality(Cells(c, m)') <= frame'[c].batch
  <2>1. /\ InNext(c) /\ out'[c] = out[c] /\ miners' = miners
        /\ frame'[c].batch = frame[c].batch /\ frame'[c].cap = frame[c].cap
        /\ PushedMiners(c) \subseteq PushedMiners(c)'
    BY <1>3
  <2>2. frame'[c].cap = (frame'[c].batch * Len(miners') + 1) % UintSpan
    BY <2>1, Zenon DEF Spent
  <2>3. \A i \in DOMAIN out'[c] : out'[c][i].miner \in PushedMiners(c)'
    BY <2>1 DEF Spent
  <2>4. \A m \in Miners : Cardinality(Cells(c, m)') <= frame'[c].batch
    BY <2>1, <1>2, <1>3 DEF Spent
  <2>. QED  BY <2>2, <2>3, <2>4
<1>4. ASSUME NEW j \in SeqRange(targs)', j \in SeqRange(targs)
      PROVE  Untouched(j)'
  <2>1. j.pout \in Clients /\ InNext(j.pout)'
    BY DueInNext, <1>4
  <2>2. Cells(j.pout, j.miner)' = Cells(j.pout, j.miner)
    BY <2>1, <1>2
  <2>3. Untouched(j)
    BY <1>4 DEF Spent
  <2>. QED  BY <2>1, <2>2, <2>3 DEF Untouched
<1>5. ASSUME NEW w \in Threads, Working(w)'
      PROVE  Within(job[w], InHand(w))'
  <2>1. PICK j : j = job[w]
    OBVIOUS
  <2>2. j.pout \in Clients /\ InNext(j.pout)' /\ job'[w] = j
    BY <2>1, DueInNext, <1>5
  <2>3. Cells(j.pout, j.miner)' = Cells(j.pout, j.miner)
    BY <2>2, <1>2
  <2>4. PICK n : n = InHand(w)
    OBVIOUS
  <2>5. Within(j, n)
    BY <2>1, <2>4, <1>1, <1>5 DEF Spent
  <2>6. Within(j, n)'
    BY <2>2, <2>3, <2>5 DEF Within
  <2>7. InHand(w)' = n
    BY <1>1, <2>4
  <2>. QED  BY <2>2, <2>6, <2>7 DEF Within, Cells
<1>6. \A w \in Threads : wpc'[w] \in {"lock", "store"} => cur'[w].miner = job'[w].miner
  BY DEF Spent
<1>7. \A j \in SeqRange(targs)' : Untouched(j)'
  BY <1>4
<1>. QED  BY <1>3, <1>5, <1>6, <1>7 DEF Spent

\* A step of a thread that leaves the arrays alone
LEMMA ThreadAlone ==
  ASSUME IInv, IInv', Spent, NEW w \in Threads,
         UNCHANGED <<cpc, frame, miners, out>>, SeqRange(targs)' \subseteq SeqRange(targs),
         \A v \in Threads : v # w => /\ wpc'[v] = wpc[v] /\ job'[v] = job[v]
                                     /\ cur'[v] = cur[v],
         Working(w)' => Within(job[w], InHand(w))',
         wpc'[w] \in {"lock", "store"} => cur'[w].miner = job'[w].miner
  PROVE  Spent'
<1>1. \A d \in Clients : /\ InNext(d)' = InNext(d) /\ PushedMiners(d)' = PushedMiners(d)
                         /\ \A m : Cells(d, m)' = Cells(d, m)
  BY DEF InNext, PushedMiners, Pushed, Cells
<1>2. ASSUME NEW c \in Clients, InNext(c)'
      PROVE  /\ frame'[c].cap = (frame'[c].batch * Len(miners') + 1) % UintSpan
             /\ \A i \in DOMAIN out'[c] : out'[c][i].miner \in PushedMiners(c)'
             /\ \A m \in Miners : Cardinality(Cells(c, m)') <= frame'[c].batch
  <2>1. InNext(c) /\ frame' = frame /\ miners' = miners /\ out' = out
    BY <1>1, <1>2
  <2>2. frame'[c].cap = (frame'[c].batch * Len(miners') + 1) % UintSpan
    BY <2>1, Zenon DEF Spent
  <2>3. \A i \in DOMAIN out'[c] : out'[c][i].miner \in PushedMiners(c)'
    BY <2>1, <1>1 DEF Spent
  <2>4. \A m \in Miners : Cardinality(Cells(c, m)') <= frame'[c].batch
    BY <2>1, <1>1 DEF Spent
  <2>. QED  BY <2>2, <2>3, <2>4
<1>3. ASSUME NEW j \in SeqRange(targs)'
      PROVE  Untouched(j)'
  <2>1. Untouched(j)
    BY <1>3 DEF Spent
  <2>2. j.pout \in Clients
    BY <1>3, DueInNext
  <2>. QED  BY <2>1, <2>2, <1>1 DEF Untouched
<1>4. ASSUME NEW v \in Threads, Working(v)', v # w
      PROVE  Within(job[v], InHand(v))'
  <2>1. PICK j : j = job[v]
    OBVIOUS
  <2>2. PICK n : n = InHand(v)
    OBVIOUS
  <2>3. Within(j, n) /\ job'[v] = j /\ InHand(v)' = n
    BY <1>4, <2>1, <2>2 DEF Spent, Working, InHand
  <2>4. j.pout \in Clients
    BY <1>4, <2>3, DueInNext
  <2>5. Within(j, n)'
    BY <2>3, <2>4, <1>1 DEF Within
  <2>. QED  BY <2>3, <2>5 DEF Within, Cells
<1>5. \A v \in Threads : Working(v)' => Within(job[v], InHand(v))'
  BY <1>4
<1>6. \A v \in Threads : wpc'[v] \in {"lock", "store"} => cur'[v].miner = job'[v].miner
  BY DEF Spent
<1>7. \A j \in SeqRange(targs)' : Untouched(j)'
  BY <1>3
<1>. QED  BY <1>2, <1>5, <1>6, <1>7 DEF Spent

\* What a job owes it owes still when it has used up more of its batch than it
\* took into its hand.
LEMMA WithinLess ==
  ASSUME IInv, NEW j \in Job, NEW n \in 0 .. 1, NEW k, NEW l, Within(j, n),
         UNCHANGED <<frame, out>>, k \in Job, k.miner = j.miner, k.pout = j.pout,
         l \in 0 .. 1, l + MaxOf(k.batch, 0) <= n + MaxOf(j.batch, 0)
  PROVE  Within(k, l)'
<1>1. j.pout \in Clients /\ j.batch \in Int /\ k.batch \in Int
  BY DEF Job
<1>2. out[j.pout] \in Seq(Occurrence) /\ frame[j.pout].batch \in Nat
  BY <1>1 DEF IInv, TypeOK
<1>3. Cardinality(Cells(j.pout, j.miner)) \in Nat
  BY <1>2, CellsFinite DEF Cells
<1>4. Cells(k.pout, k.miner)' = Cells(j.pout, j.miner)
  BY DEF Cells
<1>5. frame'[k.pout].batch = frame[j.pout].batch
  OBVIOUS
<1>6. MaxOf(k.batch, 0) \in Int /\ MaxOf(j.batch, 0) \in Int
  BY <1>1 DEF MaxOf
<1>. DEFINE x == Cardinality(Cells(j.pout, j.miner))
            y == frame[j.pout].batch
            p == MaxOf(k.batch, 0)
            q == MaxOf(j.batch, 0)
<1>7. x + n + q <= y
  BY DEF Within
<1>. HIDE DEF x, y, p, q
<1>8. l + p <= n + q
  BY DEF p, q
<1>9. x \in Nat /\ y \in Nat /\ p \in Int /\ q \in Int
  BY <1>2, <1>3, <1>6 DEF x, y, p, q
<1>10. x + l + p <= y
  BY <1>7, <1>8, <1>9
<1>. QED  BY <1>4, <1>5, <1>10 DEF Within, x, y, p

\* A run of a matcher uses up a position at least.
LEMMA RunSpends ==
  ASSUME TypeOK, Jobs, Attached, NEW w \in Threads, RunMiner(w)
  PROVE  /\ job[w] \in Job /\ job[w].batch > 0
         /\ \E b \in Int : b < job[w].batch /\ job' = [job EXCEPT ![w].batch = b]
         /\ \/ UNCHANGED <<cur, wpc>>
            \/ \E o \in Occurrence : /\ o.miner = job[w].miner
                                     /\ wpc' = [wpc EXCEPT ![w] = "lock"]
                                     /\ cur' = [cur EXCEPT ![w] = o]
<1>1. Scanning(w) /\ job[w] \in Job /\ job[w].batch > 0
  BY DEF RunMiner, Scanning, Jobs, Working
<1>2. job[w].miner \in Miners /\ job[w].batch \in Int
  BY <1>1 DEF Job
<1>. DEFINE s == State(w)
            r == Matcher[job[w].miner][s.text][s.pos]
            d == AfterRun(s, r).pos - s.pos
            o == [miner |-> job[w].miner, start |-> r.start, end |-> r.end]
<1>3. r \in [start : Nat, end : Nat, to : Nat] /\ s.pos \in Nat
  BY <1>1, RunTypes
<1>4. s \in [text : Texts \cup {NoText}, pos : Nat, end_last : Nat, pos_last : Nat]
  BY <1>2 DEF State, TypeOK
<1>5. d \in Int /\ d >= 1
  <2>1. AfterRun(s, r).pos = MaxOf(r.to, s.pos + 1)
    BY <1>4 DEF AfterRun
  <2>2. r.to \in Nat
    BY <1>3
  <2>3. s.pos \in Nat
    BY <1>3
  <2>. HIDE DEF s, r
  <2>. QED  BY <2>1, <2>2, <2>3 DEF MaxOf
<1>6. job' = [job EXCEPT ![w].batch = @ - d]
  BY DEF RunMiner, State
<1>7. o \in Occurrence
  BY <1>2, <1>3 DEF Occurrence
<1>8. \/ UNCHANGED <<cur, wpc>>
      \/ wpc' = [wpc EXCEPT ![w] = "lock"] /\ cur' = [cur EXCEPT ![w] = o]
  BY DEF RunMiner, State
<1>9. o.miner = job[w].miner
  OBVIOUS
<1>. HIDE DEF d, o
<1>10. PICK b : b = job[w].batch - d
  OBVIOUS
<1>11. b \in Int /\ b < job[w].batch /\ job' = [job EXCEPT ![w].batch = b]
  BY <1>2, <1>5, <1>6, <1>10
<1>. QED  BY <1>1, <1>7, <1>8, <1>9, <1>11

\* Scanning a position or running the matcher leaves the account in order.
LEMMA ScanSpent ==
  ASSUME IInv, IInv', Spent, NEW w \in Threads, SkipPosition(w) \/ RunMiner(w)
  PROVE  Spent'
<1>0. /\ wpc \in [Threads -> {"wait", "check", "pop", "scan", "lock", "store", "bump", "exited"}]
      /\ job \in [Threads -> Job \cup {NoJob}]
      /\ cur \in [Threads -> Occurrence \cup {NoOccurrence}]
      /\ TypeOK /\ Jobs /\ Attached
  BY DEF IInv, TypeOK
<1>1. /\ wpc[w] = "scan" /\ job[w] \in Job /\ job[w].batch > 0
      /\ UNCHANGED <<cpc, frame, miners, out, targs>>
  BY <1>0 DEF SkipPosition, RunMiner, Scanning, Jobs, Working, callerVars, callVars, confVars,
              poolVars, bufVars
<1>2. \E b \in Int : b < job[w].batch /\ job' = [job EXCEPT ![w].batch = b]
  <2>1. CASE SkipPosition(w)
    <3>1. job' = [job EXCEPT ![w].batch = job[w].batch - 1]
      BY <2>1 DEF SkipPosition
    <3>2. job[w].batch \in Int
      BY <1>1 DEF Job
    <3>3. job[w].batch - 1 \in Int /\ job[w].batch - 1 < job[w].batch
      BY <3>2
    <3>. QED  BY <3>1, <3>3
  <2>2. CASE RunMiner(w)
    BY <2>2, <1>0, RunSpends
  <2>. QED  BY <2>1, <2>2
<1>3. \/ UNCHANGED <<cur, wpc>>
      \/ \E o \in Occurrence : /\ o.miner = job[w].miner
                               /\ wpc' = [wpc EXCEPT ![w] = "lock"]
                               /\ cur' = [cur EXCEPT ![w] = o]
  <2>1. CASE SkipPosition(w)
    BY <2>1 DEF SkipPosition
  <2>2. CASE RunMiner(w)
    BY <2>2, <1>0, RunSpends
  <2>. QED  BY <2>1, <2>2
<1>4. PICK b \in Int : b < job[w].batch /\ job' = [job EXCEPT ![w].batch = b]
  BY <1>2
<1>5. PICK j : j = job[w]
  OBVIOUS
<1>6. PICK k : k = job'[w]
  OBVIOUS
<1>7. /\ k = [j EXCEPT !.batch = b] /\ j \in Job /\ j.batch \in Int
      /\ \A v \in Threads : v # w => job'[v] = job[v]
  BY <1>0, <1>1, <1>4, <1>5, <1>6 DEF Job
<1>8. k \in Job /\ k.miner = j.miner /\ k.pout = j.pout /\ k.batch = b
  BY <1>7 DEF Job
<1>9. Within(j, 0)
  <2>1. Working(w) /\ InHand(w) = 0
    BY <1>1 DEF Working, InHand
  <2>2. Within(job[w], InHand(w))
    BY <2>1 DEF Spent
  <2>. QED  BY <2>1, <2>2, <1>5
<1>10. ASSUME NEW l \in 0 .. 1
       PROVE  Within(k, l)'
  <2>1. l + MaxOf(k.batch, 0) <= 0 + MaxOf(j.batch, 0)
    <3>1. j.batch > 0 /\ k.batch < j.batch
      BY <1>1, <1>4, <1>5, <1>8
    <3>. QED  BY <3>1, <1>7, <1>8 DEF MaxOf
  <2>2. UNCHANGED <<frame, out>>
    BY <1>1
  <2>3. 0 \in 0 .. 1
    OBVIOUS
  <2>. QED  BY <1>7, <1>8, <1>9, <1>10, <2>1, <2>2, <2>3, WithinLess
<1>11. Within(job[w], InHand(w))'
  <2>1. PICK l : l = InHand(w)'
    OBVIOUS
  <2>2. l \in 0 .. 1
    BY <2>1 DEF InHand
  <2>3. Within(k, l)'
    BY <2>2, <1>10
  <2>. QED  BY <2>1, <2>3, <1>6 DEF Within, Cells
<1>12. /\ \A v \in Threads : v # w => /\ wpc'[v] = wpc[v] /\ cur'[v] = cur[v]
       /\ wpc'[w] \in {"lock", "store"} => cur'[w].miner = job'[w].miner
  BY <1>0, <1>1, <1>3, <1>5, <1>6, <1>8
<1>13. SeqRange(targs)' \subseteq SeqRange(targs)
  BY <1>1 DEF SeqRange
<1>. QED  BY <1>1, <1>7, <1>11, <1>12, <1>13, ThreadAlone

\* Taking a job from the stack, a thread owes the whole of it.
LEMMA PopSpent ==
  ASSUME IInv, IInv', Spent, NEW w \in Threads, Pop(w)
  PROVE  Spent'
<1>0. /\ wpc \in [Threads -> {"wait", "check", "pop", "scan", "lock", "store", "bump", "exited"}]
      /\ job \in [Threads -> Job \cup {NoJob}]
      /\ targs \in Seq(Job)
  BY DEF IInv, TypeOK
<1>1. /\ wpc' = [wpc EXCEPT ![w] = "scan"] /\ targs # <<>>
      /\ job' = [job EXCEPT ![w] = targs[Len(targs)]]
      /\ targs' = SubSeq(targs, 1, Len(targs) - 1)
      /\ UNCHANGED <<cpc, frame, miners, out, cur>>
  BY DEF Pop, Step, callerVars, callVars, confVars, bufVars
<1>2. Len(targs) \in DOMAIN targs /\ SeqRange(targs)' \subseteq SeqRange(targs)
  <2>1. /\ targs' \in Seq(Job) /\ Len(targs') = Len(targs) - 1 /\ Len(targs) \in Nat \ {0}
        /\ \A i \in 1 .. Len(targs) - 1 : targs'[i] = targs[i]
    BY <1>0, <1>1, AllButLast
  <2>2. DOMAIN targs = 1 .. Len(targs) /\ DOMAIN targs' = 1 .. Len(targs) - 1
    BY <2>1, <1>0
  <2>. QED  BY <2>1, <2>2 DEF SeqRange
<1>3. PICK j : j = targs[Len(targs)]
  OBVIOUS
<1>4. j \in SeqRange(targs) /\ j \in Job /\ job'[w] = j
  BY <1>0, <1>1, <1>2, <1>3 DEF SeqRange
<1>5. Within(j, 0)'
  <2>1. Untouched(j)
    BY <1>4 DEF Spent
  <2>2. j.pout \in Clients
    BY <1>4 DEF Job
  <2>3. frame[j.pout].batch \in Nat
    BY <2>2 DEF IInv, TypeOK
  <2>4. Cardinality(Cells(j.pout, j.miner)) = 0 /\ j.batch = frame[j.pout].batch
    BY <2>1, FS_EmptySet DEF Untouched
  <2>5. Within(j, 0)
    BY <2>3, <2>4 DEF Within, MaxOf
  <2>. QED  BY <2>5, <1>1 DEF Within, Cells
<1>6. Within(job[w], InHand(w))'
  <2>1. InHand(w)' = 0
    BY <1>0, <1>1 DEF InHand
  <2>. QED  BY <2>1, <1>4, <1>5 DEF Within, Cells
<1>7. /\ \A v \in Threads : v # w => wpc'[v] = wpc[v] /\ job'[v] = job[v]
      /\ wpc'[w] \notin {"lock", "store"}
  BY <1>0, <1>1
<1>. QED  BY <1>1, <1>2, <1>6, <1>7, ThreadAlone

\* A store puts the occurrence in hand behind all that the array holds.
LEMMA StoreAppends ==
  ASSUME IInv, NEW w \in Threads, Store(w)
  PROVE  /\ wpc[w] = "store" /\ wpc' = [wpc EXCEPT ![w] = "bump"]
         /\ job[w] \in Job /\ Due(job[w]) /\ job[w].pout \in Clients
         /\ cur[w] \in Occurrence /\ cur' = [cur EXCEPT ![w] = NoOccurrence]
         /\ out' = [out EXCEPT ![job[w].pout] = Append(out[job[w].pout], cur[w])]
         /\ UNCHANGED <<cpc, frame, miners, targs, job, mstate, stream, received>>
<1>0. /\ wpc \in [Threads -> {"wait", "check", "pop", "scan", "lock", "store", "bump", "exited"}]
      /\ out \in [Clients -> Seq(Occurrence)] /\ pout \in [Clients -> Nat]
      /\ Nobody \notin Threads /\ Jobs /\ Buffer
  BY ConstantsAssumption DEF IInv, TypeOK
<1>1. /\ wpc[w] = "store" /\ wpc' = [wpc EXCEPT ![w] = "bump"]
      /\ cur' = [cur EXCEPT ![w] = NoOccurrence]
      /\ out' = [out EXCEPT ![job[w].pout] = Put(out[job[w].pout], pout[job[w].pout] + 1, cur[w])]
      /\ UNCHANGED <<cpc, frame, miners, targs, job, mstate, stream, received>>
  BY DEF Store, Step, callerVars, callVars, confVars, poolVars, histVars
<1>2. job[w] \in Job /\ Due(job[w]) /\ cur[w] \in Occurrence
  BY <1>0, <1>1 DEF Jobs, Working, Buffer
<1>3. PICK c : c = job[w].pout
  OBVIOUS
<1>4. c \in Clients
  BY <1>2, <1>3 DEF Job
<1>5. \A v \in Threads : wpc[v] # "bump"
  BY <1>0, <1>1 DEF Buffer
<1>6. Len(out[c]) = pout[c]
  BY <1>0, <1>4, <1>5, FullCursor
<1>7. Put(out[c], pout[c] + 1, cur[w]) = Append(out[c], cur[w])
  BY <1>0, <1>4, <1>6 DEF Put
<1>. QED  BY <1>1, <1>2, <1>3, <1>4, <1>7

\* Storing, a thread fills the cell that it owed.
LEMMA StoreSpent ==
  ASSUME IInv, IInv', Spent, NEW w \in Threads, Store(w)
  PROVE  Spent'
<1>0. /\ wpc \in [Threads -> {"wait", "check", "pop", "scan", "lock", "store", "bump", "exited"}]
      /\ out \in [Clients -> Seq(Occurrence)]
      /\ cur \in [Threads -> Occurrence \cup {NoOccurrence}]
      /\ Jobs
  BY DEF IInv, TypeOK
<1>1. /\ wpc[w] = "store" /\ wpc' = [wpc EXCEPT ![w] = "bump"]
      /\ job[w] \in Job /\ Due(job[w]) /\ job[w].pout \in Clients
      /\ cur[w] \in Occurrence /\ cur' = [cur EXCEPT ![w] = NoOccurrence]
      /\ out' = [out EXCEPT ![job[w].pout] = Append(out[job[w].pout], cur[w])]
      /\ UNCHANGED <<cpc, frame, miners, targs, job>>
  BY StoreAppends
<1>2. PICK c \in Clients : c = job[w].pout
  BY <1>1
<1>3. PICK m : m = job[w].miner
  OBVIOUS
<1>4. PICK s \in Seq(Occurrence) : s = out[c]
  BY <1>0
<1>5. PICK o \in Occurrence : o = cur[w]
  BY <1>1
<1>6. /\ out'[c] = Append(s, o) /\ \A d \in Clients : d # c => out'[d] = out[d]
      /\ o.miner = m /\ m \in Miners /\ m \in PushedMiners(c) /\ InNext(c)
  BY <1>0, <1>1, <1>2, <1>3, <1>4, <1>5 DEF Spent, Due, Job
<1>7. /\ Len(s) \in Nat /\ DOMAIN s = 1 .. Len(s) /\ DOMAIN Append(s, o) = 1 .. Len(s) + 1
      /\ \A i \in 1 .. Len(s) : Append(s, o)[i] = s[i]
      /\ Append(s, o)[Len(s) + 1] = o
  OBVIOUS
<1>8. Cells(c, m)' = Cells(c, m) \cup {Len(s) + 1} /\ Len(s) + 1 \notin Cells(c, m)
  BY <1>4, <1>6, <1>7 DEF Cells
<1>9. \A d \in Clients : \A x : d # c \/ x # m => Cells(d, x)' = Cells(d, x)
  BY SMTT(30), <1>4, <1>6, <1>7 DEF Cells
<1>10. IsFiniteSet(Cells(c, m)) /\ Cardinality(Cells(c, m)) \in Nat
  BY <1>4, CellsFinite DEF Cells
<1>11. Cardinality(Cells(c, m)') = Cardinality(Cells(c, m)) + 1
  BY <1>8, <1>10, FS_AddElement
<1>12. PICK j : j = job[w]
  OBVIOUS
<1>13. j.pout = c /\ j.miner = m /\ j.batch \in Int /\ job'[w] = j
  BY <1>1, <1>2, <1>3, <1>12 DEF Job
<1>14. Within(j, 1)
  <2>1. Working(w) /\ InHand(w) = 1
    BY <1>1 DEF Working, InHand
  <2>2. Within(job[w], InHand(w))
    BY <2>1 DEF Spent
  <2>. QED  BY <2>1, <2>2, <1>12
<1>15. Within(j, 0)' /\ Cardinality(Cells(c, m)') <= frame'[c].batch
  <2>. DEFINE x == Cardinality(Cells(c, m))
              q == MaxOf(j.batch, 0)
              y == frame[c].batch
  <2>1. x + 1 + q <= y /\ q \in Nat
    BY <1>13, <1>14 DEF Within, MaxOf
  <2>2. x \in Nat /\ y \in Nat
    BY <1>10 DEF IInv, TypeOK
  <2>3. Cardinality(Cells(c, m)') = x + 1 /\ frame'[c].batch = y
    BY <1>1, <1>11
  <2>. HIDE DEF x, y, q
  <2>4. x + 1 + 0 + q <= y /\ x + 1 <= y
    BY <2>1, <2>2
  <2>5. Cells(j.pout, j.miner)' = Cells(c, m)'
    BY <1>13
  <2>. QED  BY <1>13, <2>3, <2>4, <2>5 DEF Within, q
<1>16. \A d \in Clients : InNext(d)' = InNext(d) /\ PushedMiners(d)' = PushedMiners(d)
  BY <1>1 DEF InNext, PushedMiners, Pushed
<1>17. ASSUME NEW d \in Clients, InNext(d)'
       PROVE  /\ frame'[d].cap = (frame'[d].batch * Len(miners') + 1) % UintSpan
              /\ \A i \in DOMAIN out'[d] : out'[d][i].miner \in PushedMiners(d)'
              /\ \A x \in Miners : Cardinality(Cells(d, x)') <= frame'[d].batch
  <2>1. InNext(d) /\ frame' = frame /\ miners' = miners
    BY <1>1, <1>16, <1>17
  <2>2. frame'[d].cap = (frame'[d].batch * Len(miners') + 1) % UintSpan
    BY <2>1, Zenon DEF Spent
  <2>3. \A i \in DOMAIN out'[d] : out'[d][i].miner \in PushedMiners(d)'
    <3>1. \A i \in DOMAIN out[d] : out[d][i].miner \in PushedMiners(d)
      BY <2>1 DEF Spent
    <3>2. CASE d = c
      BY <3>1, <3>2, <1>4, <1>6, <1>7, <1>16
    <3>3. CASE d # c
      BY <3>1, <3>3, <1>6, <1>16
    <3>. QED  BY <3>2, <3>3
  <2>4. \A x \in Miners : Cardinality(Cells(d, x)') <= frame'[d].batch
    <3>1. \A x \in Miners : Cardinality(Cells(d, x)) <= frame'[d].batch
      BY <2>1 DEF Spent
    <3>. QED  BY <3>1, <1>9, <1>15
  <2>. QED  BY <2>2, <2>3, <2>4
<1>18. ASSUME NEW k \in SeqRange(targs)'
       PROVE  Untouched(k)'
  <2>1. k \in SeqRange(targs)
    BY <1>1, <1>18 DEF SeqRange
  <2>2. Untouched(k)
    BY <2>1 DEF Spent
  <2>3. k.miner # m /\ k.pout \in Clients
    <3>1. PICK i \in DOMAIN targs : k = targs[i]
      BY <2>1 DEF SeqRange
    <3>2. Working(w)
      BY <1>1 DEF Working
    <3>3. k.miner # m
      BY <3>1, <3>2, <1>0, <1>3 DEF Jobs, OneThreadPerMiner
    <3>. QED  BY <3>3, <1>18, DueInNext
  <2>4. Cells(k.pout, k.miner)' = Cells(k.pout, k.miner)
    BY <2>3, <1>9
  <2>. QED  BY <2>2, <2>4, <1>1 DEF Untouched
<1>19. ASSUME NEW v \in Threads, Working(v)'
       PROVE  Within(job[v], InHand(v))'
  <2>1. PICK k : k = job[v]
    OBVIOUS
  <2>2. job'[v] = k
    BY <1>1, <2>1
  <2>3. CASE v = w
    <3>1. InHand(v)' = 0 /\ k = j
      BY <2>1, <2>3, <1>0, <1>1, <1>12 DEF InHand
    <3>. QED  BY <2>2, <3>1, <1>15 DEF Within, Cells
  <2>4. CASE v # w
    <3>1. PICK n : n = InHand(v)
      OBVIOUS
    <3>2. Working(v) /\ Working(w) /\ InHand(v)' = n
      BY <2>4, <3>1, <1>0, <1>1, <1>19 DEF Working, InHand
    <3>3. k.miner # m /\ k.pout \in Clients
      BY <2>1, <2>2, <2>4, <3>2, <1>0, <1>3, <1>19, DueInNext DEF Jobs, OneThreadPerMiner
    <3>4. Cells(k.pout, k.miner)' = Cells(k.pout, k.miner)
      BY <3>3, <1>9
    <3>5. Within(k, n)
      BY <2>1, <3>1, <3>2 DEF Spent
    <3>6. Within(k, n)'
      BY <3>4, <3>5, <1>1 DEF Within
    <3>. QED  BY <2>2, <3>2, <3>6 DEF Within, Cells
  <2>. QED  BY <2>3, <2>4
<1>20. \A v \in Threads : wpc'[v] \in {"lock", "store"} => cur'[v].miner = job'[v].miner
  BY <1>0, <1>1 DEF Spent
<1>21. \A k \in SeqRange(targs)' : Untouched(k)'
  BY <1>18
<1>. QED  BY <1>17, <1>19, <1>20, <1>21 DEF Spent

\* A step of a thread leaves the account in order.
LEMMA ThreadSpent ==
  ASSUME IInv, IInv', Spent, NEW w \in Threads, ThreadStep(w)
  PROVE  Spent'
<1>0. /\ wpc \in [Threads -> {"wait", "check", "pop", "scan", "lock", "store", "bump", "exited"}]
      /\ job \in [Threads -> Job \cup {NoJob}]
      /\ cur \in [Threads -> Occurrence \cup {NoOccurrence}]
      /\ Jobs
  BY DEF IInv, TypeOK
<1>1. CASE SkipPosition(w) \/ RunMiner(w)
  BY <1>1, ScanSpent
<1>2. CASE Pop(w)
  BY <1>2, PopSpent
<1>3. CASE Store(w)
  BY <1>3, StoreSpent
<1>4. CASE WaitTargs(w) \/ Quit(w) \/ GoOn(w) \/ PostMain(w)
  <2>1. /\ UNCHANGED <<cpc, frame, miners, out, targs, cur>>
        /\ \E to \in {"wait", "check", "pop", "exited"} : wpc' = [wpc EXCEPT ![w] = to]
        /\ UNCHANGED job \/ job' = [job EXCEPT ![w] = NoJob]
    BY <1>4 DEF WaitTargs, Quit, GoOn, PostMain, Step, callerVars, callVars, confVars, poolVars,
                bufVars
  <2>2. /\ \A v \in Threads : v # w => wpc'[v] = wpc[v] /\ job'[v] = job[v] /\ cur'[v] = cur[v]
        /\ ~Working(w)' /\ wpc'[w] \notin {"lock", "store"}
    BY <1>0, <2>1 DEF Working
  <2>3. SeqRange(targs)' \subseteq SeqRange(targs)
    BY <2>1 DEF SeqRange
  <2>. QED  BY <2>1, <2>2, <2>3, ThreadAlone
<1>5. CASE LockPout(w) \/ DropEnclosed(w) \/ Bump(w)
  <2>1. /\ UNCHANGED <<cpc, frame, miners, out, targs, job>>
        /\ \/ wpc[w] = "lock" /\ wpc' = [wpc EXCEPT ![w] = "store"] /\ UNCHANGED cur
           \/ /\ wpc[w] \in {"store", "bump"} /\ wpc' = [wpc EXCEPT ![w] = "scan"]
              /\ UNCHANGED cur \/ cur' = [cur EXCEPT ![w] = NoOccurrence]
    BY <1>5 DEF LockPout, DropEnclosed, Bump, Step, callerVars, callVars, confVars, poolVars,
                bufVars
  <2>2. /\ \A v \in Threads : v # w => wpc'[v] = wpc[v] /\ job'[v] = job[v] /\ cur'[v] = cur[v]
        /\ wpc'[w] \in {"lock", "store"} =>
             wpc[w] \in {"lock", "store"} /\ cur'[w] = cur[w]
    BY <1>0, <2>1
  <2>3. SeqRange(targs)' \subseteq SeqRange(targs)
    BY <2>1 DEF SeqRange
  <2>4. PICK j : j = job[w]
    OBVIOUS
  <2>5. Working(w) /\ j \in Job /\ job'[w] = j
    BY <2>1, <2>4, <1>0 DEF Jobs, Working
  <2>6. PICK n : n = InHand(w)
    OBVIOUS
  <2>7. PICK l : l = InHand(w)'
    OBVIOUS
  <2>8. n \in 0 .. 1 /\ l \in 0 .. 1 /\ l <= n
    BY <1>0, <2>1, <2>6, <2>7 DEF InHand
  <2>9. Within(j, n)
    BY <2>4, <2>5, <2>6 DEF Spent
  <2>10. l + MaxOf(j.batch, 0) <= n + MaxOf(j.batch, 0)
    <3>1. MaxOf(j.batch, 0) \in Int
      BY <2>5 DEF Job, MaxOf
    <3>. QED  BY <2>8, <3>1
  <2>11. Within(j, l)'
    BY <2>1, <2>5, <2>8, <2>9, <2>10, WithinLess
  <2>12. Within(job[w], InHand(w))'
    BY <2>5, <2>7, <2>11 DEF Within, Cells
  <2>13. wpc'[w] \in {"lock", "store"} => cur'[w].miner = job'[w].miner
    BY <2>1, <2>2 DEF Spent
  <2>. QED  BY <2>1, <2>2, <2>3, <2>12, <2>13, ThreadAlone
<1>. QED  BY <1>1, <1>2, <1>3, <1>4, <1>5 DEF ThreadStep

\* The steps of next leave the account in order.
LEMMA NextSpent ==
  ASSUME IInv, IInv', Spent, NEW c \in Clients,
         Push(c) \/ Signal(c) \/ MoveStream(c) \/ Collect(c)
  PROVE  Spent'
<1>0. /\ cpc \in [Clients -> {"idle", "attach", "error", "push", "signal", "collect", "return",
                              "destroy", "terminate", "join", "gone"}]
      /\ frame \in [Clients -> [text : Texts \cup {NoText}, batch : Nat, from : Nat,
                                m : Nat \ {0}, cap : Nat]]
      /\ targs \in Seq(Job) /\ miners \in Seq(Miners)
      /\ Holder /\ Loops /\ Jobs
  BY DEF IInv, TypeOK
<1>1. /\ InNext(c) /\ mutex_extractor = c /\ UNCHANGED <<miners, job, wpc, cur, out>>
      /\ frame' = frame \/ \E n \in Nat \ {0} : frame' = [frame EXCEPT ![c].m = n]
  <2>1. frame[c].m + 1 \in Nat \ {0} /\ 1 \in Nat \ {0}
    BY <1>0
  <2>. QED  BY <2>1, <1>0 DEF Push, Signal, MoveStream, Collect, InNext, Holder, confVars,
                              workVars, bufVars
<1>2. /\ frame'[c].batch = frame[c].batch /\ frame'[c].cap = frame[c].cap
      /\ \A d \in Clients : d # c => frame'[d] = frame[d] /\ cpc'[d] = cpc[d]
  BY <1>0, <1>1 DEF Push, Signal, MoveStream, Collect, Goto
<1>3. \A d \in Clients : d # c => ~InNext(d) /\ ~InNext(d)'
  BY <1>1, <1>2, <1>0 DEF Holder, InNext
<1>4. PushedMiners(c) \subseteq PushedMiners(c)'
  <2>n. frame[c].m \in Nat \ {0} /\ Len(miners) \in Nat /\ DOMAIN miners = 1 .. Len(miners)
    BY <1>0
  <2>1. \A k \in DOMAIN miners : k <= Pushed(c) => k <= Pushed(c)'
    <3>1. CASE Push(c)
      <4>1. cpc[c] = "push" /\ cpc'[c] = "signal" /\ frame' = frame
        BY <3>1, <1>0 DEF Push, Goto
      <4>. QED  BY <4>1, <2>n DEF Pushed
    <3>2. CASE Signal(c)
      <4>1. cpc[c] = "signal" /\ cpc'[c] = "push" /\ frame'[c].m = frame[c].m + 1
        BY <3>2, <1>0 DEF Signal, Goto
      <4>. QED  BY <4>1, <2>n DEF Pushed
    <3>3. CASE MoveStream(c) \/ Collect(c)
      <4>1. cpc'[c] = "collect"
        BY <3>3, <1>0 DEF MoveStream, Collect, Goto
      <4>. QED  BY <4>1, <2>n, <1>1 DEF Pushed
    <3>. QED  BY <3>1, <3>2, <3>3
  <2>. QED  BY <2>1, <1>1 DEF PushedMiners
<1>5. ASSUME NEW j \in SeqRange(targs)', j \notin SeqRange(targs)
      PROVE  Untouched(j)'
  <2>1. Push(c)
    <3>1. targs' # targs
      BY <1>5 DEF SeqRange
    <3>. QED  BY <3>1 DEF Signal, MoveStream, Collect, poolVars
  <2>2. PICK k : /\ k = [miner |-> miners[frame[c].m], batch |-> frame[c].batch, pout |-> c]
                 /\ targs' = Append(targs, k)
    BY <2>1 DEF Push
  <2>3. j = k
    BY <1>0, <1>5, <2>2 DEF SeqRange
  <2>4. j.miner = miners[frame[c].m] /\ j.batch = frame[c].batch /\ j.pout = c
    BY <2>2, <2>3
  <2>5. j.miner \notin PushedMiners(c)
    <3>1. cpc[c] = "push" /\ frame[c].m \in 1 .. Len(miners) /\ frame[c].m \in DOMAIN miners
      BY <1>0, <2>1 DEF Push
    <3>2. Pushed(c) = frame[c].m - 1 /\ frame[c].m \in Nat
      BY <1>0, <3>1 DEF Pushed
    <3>3. ASSUME NEW x \in DOMAIN miners, x <= Pushed(c)
          PROVE  miners[x] # j.miner
      <4>1. x # frame[c].m
        BY <3>2, <3>3, <1>0
      <4>. QED  BY <4>1, <3>1, <2>4, <1>0 DEF Jobs
    <3>. QED  BY <3>3 DEF PushedMiners
  <2>6. Cells(c, j.miner) = {}
    BY <1>1, <2>5 DEF Spent, Cells
  <2>. QED  BY <2>4, <2>6, <1>1, <1>2 DEF Untouched, Cells
<1>6. \A d \in Clients : InNext(d)' =>
           /\ InNext(d) /\ out'[d] = out[d]
           /\ frame'[d].batch = frame[d].batch /\ frame'[d].cap = frame[d].cap
           /\ PushedMiners(d) \subseteq PushedMiners(d)'
  BY <1>1, <1>2, <1>3, <1>4
<1>. QED  BY <1>1, <1>5, <1>6, CallerSpent

\* A call of next starts with an empty array and the room for its batch.
LEMMA EnterSpent ==
  ASSUME IInv, IInv', NEW c \in Clients, NEW b \in Batches, NextEnter(c, b)
  PROVE  Spent'
<1>0. /\ cpc \in [Clients -> {"idle", "attach", "error", "push", "signal", "collect", "return",
                              "destroy", "terminate", "join", "gone"}]
      /\ frame \in [Clients -> [text : Texts \cup {NoText}, batch : Nat, from : Nat,
                                m : Nat \ {0}, cap : Nat]]
      /\ out \in [Clients -> Seq(Occurrence)] /\ b \in Nat
      /\ TypeOK /\ Holder /\ Tally
  BY ConstantsAssumption DEF IInv, TypeOK
<1>1. /\ mutex_extractor = Nobody /\ mutex_extractor' = c
      /\ frame' = [frame EXCEPT ![c] = [text |-> stream, batch |-> b, from |-> spos[stream],
                                        m |-> 1, cap |-> (b * Len(miners) + 1) % UintSpan]]
      /\ out' = [out EXCEPT ![c] = <<>>]
      /\ UNCHANGED <<miners, targs, wpc, job, cur>>
  BY DEF NextEnter, confVars, workVars
<1>2. \A d \in Clients : ~InNext(d)
  BY <1>0, <1>1, FreeMutex DEF InNext
<1>3. targs' = <<>> /\ \A w \in Threads : wpc'[w] \notin Busy
  BY <1>0, <1>1, <1>2, QuietOutsideNext
<1>4. ASSUME NEW d \in Clients, InNext(d)'
      PROVE  /\ frame'[d].cap = (frame'[d].batch * Len(miners') + 1) % UintSpan
             /\ \A i \in DOMAIN out'[d] : out'[d][i].miner \in PushedMiners(d)'
             /\ \A m \in Miners : Cardinality(Cells(d, m)') <= frame'[d].batch
  <2>1. d = c
    BY <1>1, <1>4 DEF IInv, Holder, InNext
  <2>2. /\ frame'[c].batch = b /\ frame'[c].cap = (b * Len(miners) + 1) % UintSpan
        /\ out'[c] = <<>>
    BY <1>0, <1>1
  <2>3. \A m : Cells(c, m)' = {}
    BY <2>2 DEF Cells
  <2>4. \A m \in Miners : Cardinality(Cells(c, m)') <= frame'[c].batch
    <3>1. ASSUME NEW m \in Miners PROVE Cardinality(Cells(c, m)') = 0
      BY <2>3, FS_EmptySet, Zenon
    <3>. QED  BY <3>1, <2>2, <1>0
  <2>. QED  BY <2>1, <2>2, <2>4, <1>1
<1>5. SeqRange(targs)' = {}
  BY <1>3 DEF SeqRange
<1>. QED  BY <1>3, <1>4, <1>5 DEF Spent, Working, Busy

\* Every step leaves the account in order.
LEMMA SpentStep ==
  ASSUME IInv, IInv', Spent, [Next]_vars
  PROVE  Spent'
<1>0. /\ cpc \in [Clients -> {"idle", "attach", "error", "push", "signal", "collect", "return",
                              "destroy", "terminate", "join", "gone"}]
      /\ out \in [Clients -> Seq(Occurrence)]
      /\ Nobody \notin Clients /\ Holder'
  BY ConstantsAssumption DEF IInv, TypeOK
<1>a. ASSUME UNCHANGED <<miners, targs, frame, workVars>>,
             \A d \in Clients : InNext(d)' => cpc'[d] = cpc[d] /\ out'[d] = out[d]
      PROVE  Spent'
  <2>1. UNCHANGED <<job, wpc, cur>> /\ \A j \in SeqRange(targs)' : j \in SeqRange(targs)
    BY <1>a DEF workVars, SeqRange
  <2>2. \A d \in Clients : InNext(d)' =>
           /\ InNext(d) /\ out'[d] = out[d]
           /\ frame'[d].batch = frame[d].batch /\ frame'[d].cap = frame[d].cap
           /\ PushedMiners(d) \subseteq PushedMiners(d)'
    BY <1>a DEF InNext, PushedMiners, Pushed
  <2>. QED  BY <2>1, <2>2, <1>a, CallerSpent
<1>b. ASSUME mutex_extractor' = Nobody
      PROVE  Spent'
  <2>1. \A d \in Clients : ~InNext(d)'
    BY <1>0, <1>b DEF Holder, InNext
  <2>. QED  BY <2>1, SpentOutside
<1>1. ASSUME NEW c \in Clients, CallStep(c)
      PROVE  Spent'
  <2>1. CASE Push(c) \/ Signal(c) \/ MoveStream(c) \/ Collect(c)
    BY <2>1, NextSpent
  <2>2. CASE Attach(c) \/ RefuseStream(c) \/ SetLastError(c) \/ Finish(c)
    <3>1. mutex_extractor' = Nobody
      BY <2>2 DEF Attach, RefuseStream, SetLastError, Finish
    <3>. QED  BY <3>1, <1>b
  <2>3. CASE SetTerminate(c) \/ PostTerminate(c) \/ Join(c) \/ Teardown(c)
    <3>1. cpc'[c] \in {"terminate", "join", "gone"}
      BY <2>3, <1>0 DEF SetTerminate, PostTerminate, Join, Teardown, Goto
    <3>2. \A d \in Clients : ~InNext(d)'
      BY <3>1, <1>0 DEF Holder, InNext
    <3>. QED  BY <3>2, SpentOutside
  <2>4. CASE Return(c)
    <3>1. UNCHANGED <<miners, targs, frame, workVars>>
      BY <2>4 DEF Return, poolVars, confVars
    <3>2. \A d \in Clients : d # c => cpc'[d] = cpc[d] /\ out'[d] = out[d]
      BY <2>4, <1>0 DEF Return, Goto
    <3>3. ~InNext(c)'
      BY <2>4, <1>0 DEF Return, Goto, InNext
    <3>. QED  BY <3>1, <3>2, <3>3, <1>a
  <2>. QED  BY <1>1, <2>1, <2>2, <2>3, <2>4 DEF CallStep
<1>2. ASSUME NEW c \in Clients, Call(c)
      PROVE  Spent'
  <2>1. CASE \E fs \in FlagArgs, value \in BOOLEAN : SetFlags(c, fs, value)
    <3>1. UNCHANGED <<miners, targs, frame, workVars, cpc, out>>
      BY <2>1 DEF SetFlags, poolVars, callVars, bufVars
    <3>. QED  BY <3>1, <1>a
  <2>2. CASE \E b \in Batches : NextEnter(c, b)
    BY <2>2, EnterSpent
  <2>3. CASE \/ \E t \in Texts : SetStream(c, t)
             \/ UnsetStream(c) \/ Destroy(c)
             \/ \E m \in Miners : AddMiner(c, m)
    <3>1. mutex_extractor' = Nobody
      BY <2>3 DEF SetStream, UnsetStream, Destroy, AddMiner
    <3>. QED  BY <3>1, <1>b
  <2>. QED  BY <1>2, <2>1, <2>2, <2>3 DEF Call
<1>3. ASSUME NEW w \in Threads, ThreadStep(w)
      PROVE  Spent'
  BY <1>3, ThreadSpent
<1>4. CASE UNCHANGED vars
  <2>1. UNCHANGED <<miners, targs, frame, workVars, cpc, out>>
    BY <1>4 DEF vars, poolVars, confVars, callVars, bufVars
  <2>. QED  BY <2>1, <1>a
<1>. QED  BY <1>1, <1>2, <1>3, <1>4 DEF Next

\* The account is in order at all times.
LEMMA SpentAlways == Spec => [](IInv /\ Spent)
<1>1. Init => IInv /\ Spent
  <2>. SUFFICES ASSUME Init PROVE IInv /\ Spent
    OBVIOUS
  <2>1. IInv
    BY InitInv
  <2>2. \A c \in Clients : ~InNext(c)
    BY DEF Init, InNext
  <2>3. SeqRange(targs) = {}
    BY DEF Init, SeqRange
  <2>4. \A w \in Threads : wpc[w] = "wait"
    BY DEF Init
  <2>. QED  BY <2>1, <2>2, <2>3, <2>4 DEF Spent, Working
<1>2. IInv /\ Spent /\ [Next]_vars => (IInv /\ Spent)'
  BY NextInv, SpentStep
<1>. QED  BY <1>1, <1>2, PTL DEF Spec

\* What the threads of a call write, with the NULL behind it, stays inside the
\* block that next allocates, unless its size has wrapped around.
THEOREM OutputsFit == Spec => []OutFits
<1>1. IInv /\ Spent => OutFits
  <2>. SUFFICES ASSUME IInv, Spent, NEW c \in Clients, InNext(c),
                       frame[c].batch * Len(miners) + 1 < UintSpan
                PROVE  Len(out[c]) < frame[c].cap
    BY DEF OutFits
  <2>. DEFINE b == frame[c].batch
              k == Len(miners)
              T == DOMAIN out[c]
              at == [m \in SeqRange(miners) |-> CHOOSE i \in DOMAIN miners : miners[i] = m]
              f == [i \in T |-> at[out[c][i].miner]]
  <2>1. /\ b \in Nat /\ k \in Nat /\ miners \in Seq(Miners) /\ out[c] \in Seq(Occurrence)
        /\ DOMAIN miners = 1 .. k /\ T = 1 .. Len(out[c])
    BY DEF IInv, TypeOK
  <2>2. \A m \in SeqRange(miners) : at[m] \in 1 .. k /\ miners[at[m]] = m
    <3>. SUFFICES ASSUME NEW m \in SeqRange(miners)
                  PROVE  at[m] \in 1 .. k /\ miners[at[m]] = m
      OBVIOUS
    <3>1. \E i \in DOMAIN miners : miners[i] = m
      BY DEF SeqRange
    <3>2. at[m] = CHOOSE i \in DOMAIN miners : miners[i] = m
      OBVIOUS
    <3>. QED  BY <3>1, <3>2, <2>1
  <2>3. \A i \in T : out[c][i].miner \in SeqRange(miners)
    BY DEF Spent, PushedMiners, SeqRange
  <2>4. \A i \in T : f[i] = at[out[c][i].miner]
    OBVIOUS
  <2>5. IsFiniteSet(T) /\ Cardinality(T) = Len(out[c]) /\ Len(out[c]) \in Nat
    <3>1. Len(out[c]) \in Nat
      BY <2>1
    <3>2. PICK n \in Nat : n = Len(out[c])
      BY <3>1
    <3>3. IsFiniteSet(1 .. n) /\ Cardinality(1 .. n) = n
      BY FS_Interval
    <3>. QED  BY <2>1, <3>2, <3>3
  <2>. HIDE DEF b, k, f, at, T
  <2>6. \A i \in T : f[i] \in 1 .. k
    BY <2>2, <2>3, <2>4
  <2>7. ASSUME NEW n \in 1 .. k
        PROVE  Cardinality({i \in T : f[i] = n}) <= b
    <3>1. PICK m \in Miners : m = miners[n]
      BY <2>1
    <3>2. {i \in T : f[i] = n} \subseteq Cells(c, m)
      BY <2>2, <2>3, <2>4, <3>1 DEF Cells, T
    <3>3. IsFiniteSet(Cells(c, m)) /\ Cardinality(Cells(c, m)) \in Nat
      BY <2>1, CellsFinite DEF Cells
    <3>4. Cardinality({i \in T : f[i] = n}) <= Cardinality(Cells(c, m))
      BY <3>2, <3>3, FS_Subset
    <3>5. Cardinality(Cells(c, m)) <= b
      BY DEF Spent, b
    <3>6. Cardinality({i \in T : f[i] = n}) \in Nat
      BY <3>2, <3>3, FS_Subset, FS_CardinalityType
    <3>. QED  BY <2>1, <3>3, <3>4, <3>5, <3>6
  <2>8. Cardinality(T) <= b * k
    BY <2>1, <2>5, <2>6, <2>7, FibreBound
  <2>9. b * k \in Nat
    BY <2>1
  <2>10. frame[c].cap = b * k + 1
    <3>1. b * k + 1 \in Nat /\ UintSpan \in Nat /\ b * k + 1 < UintSpan
      <4>1. b * k + 1 \in Nat /\ UintSpan \in Nat
        BY <2>9, ConstantsAssumption
      <4>2. b * k + 1 < UintSpan
        BY Zenon DEF b, k
      <4>. QED  BY <4>1, <4>2
    <3>2. (b * k + 1) % UintSpan = b * k + 1
      BY <3>1, SmallModulus
    <3>3. frame[c].cap = (b * k + 1) % UintSpan
      BY DEF Spent, b, k
    <3>. QED  BY <3>2, <3>3
  <2>. QED  BY <2>5, <2>8, <2>9, <2>10
<1>. QED  BY <1>1, SpentAlways, PTL

-----------------------------------------------------------------------------
(* No occurrence twice *)

\* While a stream is attached nobody else does anything but set flags.
LEMMA AttachingStep ==
  ASSUME IInv, Attaching, [Next]_vars
  PROVE  Attaching'
<1>0. /\ cpc \in [Clients -> {"idle", "attach", "error", "push", "signal", "collect", "return",
                              "destroy", "terminate", "join", "gone"}]
      /\ NoText \notin Texts
  BY ConstantsAssumption DEF IInv, TypeOK
<1>a. ASSUME NEW c \in Clients, cpc[c] = "attach", UNCHANGED <<cpc, received, stream>>
      PROVE  received' = <<>> /\ stream' = NoText /\ \A d \in Clients : d # c => cpc'[d] = "idle"
  BY <1>a DEF Attaching
<1>1. ASSUME NEW d \in Clients, CallStep(d), NEW c \in Clients, cpc'[c] = "attach"
      PROVE  FALSE
  <2>1. cpc[d] # "idle" /\ cpc'[d] # "attach"
    BY <1>0, <1>1 DEF CallStep, Attach, RefuseStream, SetLastError, Push, Signal, MoveStream,
         Collect, Finish, Return, SetTerminate, PostTerminate, Join, Teardown, Goto
  <2>2. cpc'[c] = cpc[c] \/ c = d
    BY <1>0, <1>1 DEF CallStep, Attach, RefuseStream, SetLastError, Push, Signal, MoveStream,
         Collect, Finish, Return, SetTerminate, PostTerminate, Join, Teardown, Goto
  <2>. QED  BY <2>1, <2>2, <1>1 DEF Attaching
<1>2. ASSUME NEW d \in Clients, Call(d), NEW c \in Clients, cpc'[c] = "attach"
      PROVE  received' = <<>> /\ stream' = NoText /\ \A e \in Clients : e # c => cpc'[e] = "idle"
  <2>1. CASE \E t \in Texts : SetStream(d, t)
    <3>1. /\ AllIdle /\ cpc' = [cpc EXCEPT ![d] = "attach"]
          /\ received' = <<>> /\ stream' = NoText
      BY <2>1 DEF SetStream, Unset, Goto
    <3>. QED  BY <3>1, <1>0, <1>2 DEF AllIdle
  <2>2. CASE \E fs \in FlagArgs, value \in BOOLEAN : SetFlags(d, fs, value)
    <3>1. UNCHANGED <<cpc, received, stream>>
      BY <2>2 DEF SetFlags, callVars, histVars
    <3>. QED  BY <3>1, <1>2, <1>a
  <2>3. CASE \E b \in Batches : NextEnter(d, b)
    <3>1. stream # NoText /\ cpc'[d] = "push" /\ (cpc'[c] = cpc[c] \/ c = d)
      BY <2>3, <1>0 DEF NextEnter, Goto
    <3>. QED  BY <3>1, <1>2 DEF Attaching
  <2>4. CASE \/ UnsetStream(d) \/ Destroy(d) \/ \E m \in Miners : AddMiner(d, m)
    <3>1. AllIdle /\ (UNCHANGED cpc \/ cpc' = [cpc EXCEPT ![d] = "destroy"])
      BY <2>4 DEF UnsetStream, Destroy, AddMiner, callVars, Goto
    <3>. QED  BY <3>1, <1>0, <1>2 DEF AllIdle
  <2>. QED  BY <1>2, <2>1, <2>2, <2>3, <2>4 DEF Call
<1>3. ASSUME NEW w \in Threads, ThreadStep(w)
      PROVE  UNCHANGED <<cpc, received, stream>>
  BY <1>3 DEF ThreadStep, WaitTargs, Quit, GoOn, Pop, SkipPosition, RunMiner, LockPout,
         DropEnclosed, Store, Bump, PostMain, callerVars, confVars, callVars, histVars
<1>4. CASE UNCHANGED vars
  <2>1. UNCHANGED <<cpc, received, stream>>
    BY <1>4 DEF vars, confVars, callVars, histVars
  <2>. QED  BY <2>1, <1>a DEF Attaching
<1>. QED  BY <1>a, <1>1, <1>2, <1>3, <1>4 DEF Next, Attaching

\* What the callers and the threads hold are occurrences.
LEMMA HeldTypes ==
  ASSUME IInv
  PROVE  /\ \A o \in SeqRange(received) : o \in Occurrence
         /\ \A c \in Clients : \A o \in SeqRange(out[c]) : o \in Occurrence
         /\ \A w \in Threads : wpc[w] \in {"lock", "store"} =>
              cur[w] \in Occurrence /\ job[w] \in Job /\ job[w].pout \in Clients
<1>1. received \in Seq(Occurrence) /\ out \in [Clients -> Seq(Occurrence)]
  BY DEF IInv, TypeOK
<1>2. \A w \in Threads : wpc[w] \in {"lock", "store"} =>
        cur[w] \in Occurrence /\ job[w] \in Job
  BY DEF IInv, Buffer, Jobs, Working
<1>. QED  BY <1>1, <1>2 DEF SeqRange, Job

\* Marks that move on keep what is noted.
LEMMA NotedStays ==
  ASSUME IInv, IInv', \A m \in Miners : mstate'[m].end_last >= mstate[m].end_last,
         NEW o \in Occurrence, Noted(o)
  PROVE  Noted(o)'
<1>1. o.miner \in Miners /\ o.start \in Nat /\ o.end \in Nat
  BY DEF Occurrence
<1>2. mstate[o.miner].end_last \in Nat /\ mstate'[o.miner].end_last \in Nat
  BY <1>1 DEF IInv, TypeOK
<1>. QED  BY <1>1, <1>2 DEF Noted

\* A step that stores and returns nothing: marks only move on, and what a thread
\* takes into its hand starts behind all that its miner found before.
LEMMA FreshKept ==
  ASSUME IInv, IInv', Fresh, Attaching', received' = received,
         \A m \in Miners : mstate'[m].end_last >= mstate[m].end_last,
         \A c \in Clients : InNext(c)' => out'[c] = <<>> \/ (InNext(c) /\ out'[c] = out[c]),
         \A w \in Threads : wpc'[w] \in {"lock", "store"} =>
           \/ /\ wpc[w] \in {"lock", "store"} /\ cur'[w] = cur[w]
              /\ job'[w].pout = job[w].pout
           \/ \E o \in Occurrence : /\ cur'[w] = o /\ Noted(o)'
                                    /\ o.start >= mstate[o.miner].end_last
  PROVE  Fresh'
<1>1. \A o \in SeqRange(received) : Noted(o)'
  BY HeldTypes, NotedStays DEF Fresh
<1>2. ASSUME NEW c \in Clients, InNext(c)'
      PROVE  /\ \A o \in SeqRange(out'[c]) : Noted(o)' /\ o \notin SeqRange(received)'
             /\ \A i, j \in DOMAIN out'[c] : out'[c][i] = out'[c][j] => i = j
  <2>1. CASE out'[c] = <<>>
    BY <2>1 DEF SeqRange
  <2>2. CASE InNext(c) /\ out'[c] = out[c]
    <3>1. \A o \in SeqRange(out[c]) : Noted(o)'
      BY <2>2, HeldTypes, NotedStays DEF Fresh
    <3>2. \A o \in SeqRange(out[c]) : o \notin SeqRange(received)'
      BY <2>2 DEF Fresh, SeqRange
    <3>3. \A i, j \in DOMAIN out[c] : out[c][i] = out[c][j] => i = j
      BY <2>2 DEF Fresh
    <3>. QED  BY <2>2, <3>1, <3>2, <3>3
  <2>. QED  BY <1>2, <2>1, <2>2
<1>3. ASSUME NEW w \in Threads, wpc'[w] \in {"lock", "store"}
      PROVE  /\ Noted(cur[w])'
             /\ cur'[w] \notin SeqRange(received)' \cup SeqRange(out[job[w].pout])'
  <2>1. PICK c : c = job'[w].pout
    OBVIOUS
  <2>2. c \in Clients /\ InNext(c)'
    BY <1>3, <2>1, DueInNext DEF Working
  <2>3. PICK x : x = cur'[w]
    OBVIOUS
  <2>4. SeqRange(out[c])' = {} \/ (InNext(c) /\ out'[c] = out[c])
    BY <2>2 DEF SeqRange
  <2>5. CASE /\ wpc[w] \in {"lock", "store"} /\ cur'[w] = cur[w]
             /\ job'[w].pout = job[w].pout
    <3>1. x \in Occurrence /\ Noted(x)
      BY <2>3, <2>5, HeldTypes DEF Fresh
    <3>2. Noted(x)'
      BY <3>1, NotedStays
    <3>3. x \notin SeqRange(received)
      BY <2>3, <2>5 DEF Fresh
    <3>4. x \notin SeqRange(out[c])'
      <4>1. CASE SeqRange(out[c])' = {}
        BY <4>1
      <4>2. CASE InNext(c) /\ out'[c] = out[c]
        <5>1. x = cur[w] /\ c = job[w].pout /\ wpc[w] \in {"lock", "store"}
          BY <2>1, <2>3, <2>5
        <5>2. x \notin SeqRange(out[c])
          BY <5>1 DEF Fresh
        <5>. QED  BY <4>2, <5>2 DEF SeqRange
      <4>. QED  BY <2>4, <4>1, <4>2
    <3>. QED  BY <2>1, <2>3, <3>2, <3>3, <3>4 DEF Noted, SeqRange
  <2>6. CASE \E o \in Occurrence : /\ cur'[w] = o /\ Noted(o)'
                                   /\ o.start >= mstate[o.miner].end_last
    <3>1. x \in Occurrence /\ Noted(x)' /\ x.start >= mstate[x.miner].end_last
      BY <2>3, <2>6
    <3>2. ASSUME NEW o \in Occurrence, Noted(o)
          PROVE  o # x
      <4>1. mstate[x.miner].end_last \in Nat /\ x.start \in Nat /\ x.end \in Nat
        BY <3>1 DEF IInv, TypeOK, Occurrence
      <4>2. x.start < x.end
        BY <3>1 DEF Noted
      <4>3. ~Noted(x)
        BY <3>1, <4>1, <4>2 DEF Noted
      <4>. QED  BY <3>2, <4>3
    <3>3. x \notin SeqRange(received)
      BY <3>2, HeldTypes DEF Fresh
    <3>4. x \notin SeqRange(out[c])'
      <4>1. CASE SeqRange(out[c])' = {}
        BY <4>1
      <4>2. CASE InNext(c) /\ out'[c] = out[c]
        <5>1. x \notin SeqRange(out[c])
          BY <2>2, <3>2, <4>2, HeldTypes DEF Fresh
        <5>. QED  BY <4>2, <5>1 DEF SeqRange
      <4>. QED  BY <2>4, <4>1, <4>2
    <3>. QED  BY <2>1, <2>3, <3>1, <3>3, <3>4 DEF Noted, SeqRange
  <2>. QED  BY <1>3, <2>5, <2>6
<1>4. NoDuplicate'
  BY DEF Fresh, NoDuplicate
<1>5. (\A o \in SeqRange(received) : Noted(o))'
  BY <1>1 DEF SeqRange, Noted
<1>6. \A c \in Clients : InNext(c)' =>
       /\ (\A o \in SeqRange(out[c]) : Noted(o) /\ o \notin SeqRange(received))'
       /\ (\A i, j \in DOMAIN out[c] : out[c][i] = out[c][j] => i = j)'
  BY <1>2 DEF SeqRange
<1>. QED  BY <1>3, <1>4, <1>5, <1>6 DEF Fresh

\* When nothing was returned and nobody is inside next there is no occurrence.
LEMMA FreshEmpty ==
  ASSUME IInv', Attaching', received' = <<>>, \A c \in Clients : ~InNext(c)'
  PROVE  Fresh'
<1>1. \A w \in Threads : ~Working(w)'
  BY DueInNext
<1>2. NoDuplicate' /\ SeqRange(received)' = {}
  BY DEF NoDuplicate, SeqRange
<1>. QED  BY <1>1, <1>2 DEF Fresh, Working

\* An occurrence that a run finds starts where the miner's last one ended or
\* later, and the run moves the mark to its end.
LEMMA RunFresh ==
  ASSUME NonEmpty, IInv, IInv', Fresh, Attaching', NEW w \in Threads, RunMiner(w)
  PROVE  Fresh'
<1>0. /\ wpc \in [Threads -> {"wait", "check", "pop", "scan", "lock", "store", "bump", "exited"}]
      /\ job \in [Threads -> Job \cup {NoJob}]
      /\ cur \in [Threads -> Occurrence \cup {NoOccurrence}]
      /\ mstate \in [Miners -> [text : Texts \cup {NoText}, pos : Nat, end_last : Nat,
                                pos_last : Nat]]
      /\ TypeOK /\ Jobs /\ Attached
  BY DEF IInv, TypeOK
<1>1. PICK m : m = job[w].miner
  OBVIOUS
<1>2. PICK s : s = State(w)
  OBVIOUS
<1>3. PICK r : r = Matcher[m][s.text][s.pos]
  OBVIOUS
<1>4. PICK o : o = [miner |-> m, start |-> r.start, end |-> r.end]
  OBVIOUS
<1>5. Scanning(w) /\ wpc[w] = "scan" /\ job[w] \in Job /\ Due(job[w])
  BY <1>0 DEF RunMiner, Scanning, Jobs, Working
<1>6. /\ m \in Miners /\ s = mstate[m]
      /\ s \in [text : Texts \cup {NoText}, pos : Nat, end_last : Nat, pos_last : Nat]
      /\ r \in [start : Nat, end : Nat, to : Nat]
  BY <1>0, <1>1, <1>2, <1>3, <1>5, RunTypes DEF Job, State
<1>7. Found(s, r) => r.start < r.end
  <2>1. s.text \in Texts /\ s.pos \in 0 .. Size[s.text] - 1
    <3>1. job[w].pout \in Clients /\ InNext(job[w].pout) /\ m \in PushedMiners(job[w].pout)
      BY <1>1, <1>5 DEF Due, Job
    <3>2. stream \in Texts \ Unreadable
      BY <3>1, <1>0 DEF Attached
    <3>3. s.text = stream
      BY <3>1, <3>2, <1>0, <1>6 DEF Attached, PushedMiners
    <3>4. s.pos < Size[s.text]
      BY <1>2, <1>5 DEF Scanning
    <3>5. Size[stream] \in Nat
      BY <3>2, ConstantsAssumption
    <3>. QED  BY <3>2, <3>3, <3>4, <3>5, <1>6
  <2>. QED  BY <2>1, <1>3, <1>6 DEF NonEmpty, Found
<1>8. /\ mstate' = [mstate EXCEPT ![m] = AfterRun(s, r)]
      /\ \/ ~Found(s, r) /\ UNCHANGED <<cur, wpc>>
         \/ Found(s, r) /\ cur' = [cur EXCEPT ![w] = o] /\ wpc' = [wpc EXCEPT ![w] = "lock"]
      /\ UNCHANGED <<cpc, out, received>>
  BY <1>1, <1>2, <1>3, <1>4 DEF RunMiner, State, callerVars, callVars, bufVars, histVars
<1>9. PICK b \in Int : job' = [job EXCEPT ![w].batch = b]
  BY <1>0, RunSpends
<1>10. mstate'[m].end_last = IF Found(s, r) THEN r.end ELSE s.end_last
  BY <1>0, <1>6, <1>8 DEF AfterRun
<1>11. \A n \in Miners : mstate'[n].end_last >= mstate[n].end_last
  <2>1. mstate'[m].end_last >= mstate[m].end_last
    <3>1. Found(s, r) => r.end >= s.end_last
      BY <1>6, <1>7 DEF Found
    <3>2. s.end_last \in Nat /\ r.end \in Nat
      BY <1>6
    <3>. QED  BY <3>1, <3>2, <1>6, <1>10
  <2>2. \A n \in Miners : n # m => mstate'[n] = mstate[n]
    BY <1>0, <1>8
  <2>3. \A n \in Miners : mstate[n].end_last \in Nat
    BY <1>0
  <2>. QED  BY <2>1, <2>2, <2>3
<1>12. ASSUME NEW v \in Threads, wpc'[v] \in {"lock", "store"}
       PROVE  \/ /\ wpc[v] \in {"lock", "store"} /\ cur'[v] = cur[v]
                 /\ job'[v].pout = job[v].pout
              \/ \E x \in Occurrence : /\ cur'[v] = x /\ Noted(x)'
                                       /\ x.start >= mstate[x.miner].end_last
  <2>1. CASE v # w
    BY <2>1, <1>0, <1>8, <1>9, <1>12
  <2>2. CASE v = w
    <3>1. Found(s, r) /\ cur'[w] = o
      BY <2>2, <1>0, <1>5, <1>8, <1>12
    <3>2. o \in Occurrence /\ o.miner = m /\ o.start = r.start /\ o.end = r.end
      BY <1>4, <1>6 DEF Occurrence
    <3>3. Noted(o)'
      BY <3>1, <3>2, <1>6, <1>7, <1>10 DEF Noted
    <3>4. o.start >= mstate[o.miner].end_last
      BY <3>1, <3>2, <1>6 DEF Found
    <3>. QED  BY <2>2, <3>1, <3>2, <3>3, <3>4
  <2>. QED  BY <2>1, <2>2
<1>13. \A c \in Clients : InNext(c)' => InNext(c) /\ out'[c] = out[c]
  BY <1>8 DEF InNext
<1>. QED  BY <1>8, <1>11, <1>12, <1>13, FreshKept

\* What a thread stores is not in the array yet, and no other thread has it in
\* hand, for no other thread runs the miner.
LEMMA StoreFresh ==
  ASSUME IInv, IInv', Spent, Fresh, Attaching', NEW w \in Threads, Store(w)
  PROVE  Fresh'
<1>0. /\ wpc \in [Threads -> {"wait", "check", "pop", "scan", "lock", "store", "bump", "exited"}]
      /\ out \in [Clients -> Seq(Occurrence)]
      /\ cur \in [Threads -> Occurrence \cup {NoOccurrence}]
      /\ Jobs
  BY DEF IInv, TypeOK
<1>1. /\ wpc[w] = "store" /\ wpc' = [wpc EXCEPT ![w] = "bump"]
      /\ job[w] \in Job /\ Due(job[w]) /\ job[w].pout \in Clients
      /\ cur[w] \in Occurrence /\ cur' = [cur EXCEPT ![w] = NoOccurrence]
      /\ out' = [out EXCEPT ![job[w].pout] = Append(out[job[w].pout], cur[w])]
      /\ UNCHANGED <<cpc, job, mstate, received>>
  BY StoreAppends
<1>2. PICK c \in Clients : c = job[w].pout
  BY <1>1
<1>3. PICK s \in Seq(Occurrence) : s = out[c]
  BY <1>0
<1>4. PICK o \in Occurrence : o = cur[w]
  BY <1>1
<1>5. /\ out'[c] = Append(s, o) /\ \A d \in Clients : d # c => out'[d] = out[d]
      /\ InNext(c)
  BY <1>0, <1>1, <1>2, <1>3, <1>4 DEF Due
<1>6. /\ Len(s) \in Nat /\ DOMAIN s = 1 .. Len(s) /\ DOMAIN Append(s, o) = 1 .. Len(s) + 1
      /\ \A i \in 1 .. Len(s) : Append(s, o)[i] = s[i]
      /\ Append(s, o)[Len(s) + 1] = o
  OBVIOUS
<1>7. SeqRange(Append(s, o)) = SeqRange(s) \cup {o}
  BY <1>6 DEF SeqRange
<1>8. Noted(o) /\ o \notin SeqRange(received) \cup SeqRange(s)
  BY <1>1, <1>2, <1>3, <1>4 DEF Fresh
<1>9. \A d \in Clients : InNext(d)' = InNext(d)
  BY <1>1 DEF InNext
<1>10. \A x : Noted(x)' = Noted(x)
  BY <1>1 DEF Noted
<1>11. ASSUME NEW d \in Clients, InNext(d)'
       PROVE  /\ \A x \in SeqRange(out'[d]) : Noted(x)' /\ x \notin SeqRange(received)
              /\ \A i, j \in DOMAIN out'[d] : out'[d][i] = out'[d][j] => i = j
  <2>1. /\ \A x \in SeqRange(out[d]) : Noted(x) /\ x \notin SeqRange(received)
        /\ \A i, j \in DOMAIN out[d] : out[d][i] = out[d][j] => i = j
    BY <1>9, <1>11 DEF Fresh
  <2>2. CASE d # c
    BY <2>1, <2>2, <1>5, <1>10
  <2>3. CASE d = c
    <3>1. \A x \in SeqRange(Append(s, o)) : Noted(x)' /\ x \notin SeqRange(received)
      BY <2>1, <2>3, <1>3, <1>7, <1>8, <1>10
    <3>2. \A i \in DOMAIN s : s[i] # o
      BY <1>8 DEF SeqRange
    <3>3. \A i, j \in DOMAIN Append(s, o) : Append(s, o)[i] = Append(s, o)[j] => i = j
      BY <2>1, <2>3, <3>2, <1>3, <1>6
    <3>. QED  BY <2>3, <3>1, <3>3, <1>5
  <2>. QED  BY <2>2, <2>3
<1>12. ASSUME NEW v \in Threads, wpc'[v] \in {"lock", "store"}
       PROVE  /\ Noted(cur[v])'
              /\ cur'[v] \notin SeqRange(received)' \cup SeqRange(out[job[v].pout])'
  <2>1. v # w /\ wpc[v] \in {"lock", "store"} /\ cur'[v] = cur[v] /\ job'[v] = job[v]
    BY <1>0, <1>1, <1>12
  <2>2. PICK x : x = cur[v]
    OBVIOUS
  <2>3. PICK d : d = job[v].pout
    OBVIOUS
  <2>4. Noted(x) /\ x \notin SeqRange(received) \cup SeqRange(out[d])
    BY <2>1, <2>2, <2>3 DEF Fresh
  <2>5. d \in Clients
    BY <2>1, <2>3, HeldTypes
  <2>6. x # o
    <3>1. Working(v) /\ Working(w)
      BY <2>1, <1>1 DEF Working
    <3>2. job[v].miner # job[w].miner
      BY <2>1, <3>1, <1>0 DEF Jobs, OneThreadPerMiner
    <3>3. cur[v].miner = job[v].miner /\ cur[w].miner = job[w].miner
      BY <2>1, <1>1 DEF Spent
    <3>. QED  BY <2>2, <3>2, <3>3, <1>4
  <2>7. x \notin SeqRange(out'[d])
    <3>1. CASE d # c
      BY <3>1, <2>4, <2>5, <1>5
    <3>2. CASE d = c
      BY <3>2, <2>4, <2>6, <1>3, <1>5, <1>7
    <3>. QED  BY <3>1, <3>2
  <2>. QED  BY ZenonT(30), <2>1, <2>2, <2>3, <2>4, <2>7, <1>1, <1>10 DEF Noted, SeqRange
<1>13. NoDuplicate' /\ (\A x \in SeqRange(received) : Noted(x))'
  BY <1>1, <1>10 DEF Fresh, NoDuplicate, SeqRange
<1>14. \A d \in Clients : InNext(d)' =>
       /\ (\A x \in SeqRange(out[d]) : Noted(x) /\ x \notin SeqRange(received))'
       /\ (\A i, j \in DOMAIN out[d] : out[d][i] = out[d][j] => i = j)'
  <2>. SUFFICES ASSUME NEW d \in Clients, InNext(d)'
                PROVE  /\ (\A x \in SeqRange(out[d]) : Noted(x) /\ x \notin SeqRange(received))'
                       /\ (\A i, j \in DOMAIN out[d] : out[d][i] = out[d][j] => i = j)'
    OBVIOUS
  <2>1. SeqRange(received)' = SeqRange(received)
    BY <1>1 DEF SeqRange
  <2>2. (\A x \in SeqRange(out[d]) : Noted(x) /\ x \notin SeqRange(received))'
    BY <2>1, <1>11
  <2>3. (\A i, j \in DOMAIN out[d] : out[d][i] = out[d][j] => i = j)'
    BY <1>11
  <2>. QED  BY <2>2, <2>3
<1>. QED  BY <1>12, <1>13, <1>14 DEF Fresh

\* What is kept of a batch is a choice of its cells, none of them twice.
LEMMA KeptCells ==
  ASSUME TypeOK, Buffer, NEW c \in Clients,
         NEW kept \in IF "E_NO_ENCLOSED_OCCURRENCES" \in flags
                      THEN Longest(SubSeq(out[c], 1, pout[c]))
                      ELSE {SubSeq(out[c], 1, pout[c])}
  PROVE  \E at \in [DOMAIN kept -> DOMAIN out[c]] :
           /\ \A k \in DOMAIN kept : kept[k] = out[c][at[k]]
           /\ \A k, l \in DOMAIN kept : at[k] = at[l] => k = l
<1>1. out[c] \in Seq(Occurrence) /\ pout[c] \in Nat /\ pout[c] <= Len(out[c])
  BY DEF TypeOK, Buffer
<1>2. PICK s : s = SubSeq(out[c], 1, pout[c])
  OBVIOUS
<1>3. /\ s \in Seq(Occurrence) /\ DOMAIN s = 1 .. pout[c]
      /\ \A i \in 1 .. pout[c] : s[i] = out[c][i]
  <2>1. \A i \in 1 .. pout[c] : out[c][i] \in Occurrence
    BY <1>1
  <2>. QED  BY <1>1, <1>2, <2>1, SubSeqProperties
<1>4. DOMAIN s \subseteq DOMAIN out[c] /\ \A i \in DOMAIN s : s[i] = out[c][i]
  BY <1>1, <1>3
<1>5. CASE "E_NO_ENCLOSED_OCCURRENCES" \notin flags
  <2>. DEFINE at == [k \in DOMAIN kept |-> k]
  <2>1. kept = s
    BY <1>2, <1>5
  <2>2. at \in [DOMAIN kept -> DOMAIN out[c]]
    BY <2>1, <1>4
  <2>3. \A k \in DOMAIN kept : at[k] = k
    OBVIOUS
  <2>. HIDE DEF at
  <2>. QED  BY <2>1, <2>2, <2>3, <1>4
<1>6. CASE "E_NO_ENCLOSED_OCCURRENCES" \in flags
  <2>1. kept \in Longest(s)
    BY <1>2, <1>6
  <2>. DEFINE keep == Unenclosed(s)
              n == Cardinality(keep)
  <2>2. keep \subseteq DOMAIN s
    BY DEF Unenclosed
  <2>3. n \in Nat
    <3>1. IsFiniteSet(DOMAIN s)
      BY <1>1, <1>3, FS_Interval
    <3>. QED  BY <2>2, <3>1, FS_Subset, FS_CardinalityType
  <2>4. PICK at \in [1 .. n -> keep] :
          /\ kept = [i \in 1 .. n |-> s[at[i]]]
          /\ \A k, l \in 1 .. n : k < l => at[k] < at[l]
    BY <2>1 DEF Longest, InOrder
  <2>. HIDE DEF n, keep
  <2>5. DOMAIN kept = 1 .. n /\ \A i \in 1 .. n : kept[i] = s[at[i]]
    BY <2>4
  <2>6. at \in [DOMAIN kept -> DOMAIN out[c]]
    BY <2>2, <2>4, <2>5, <1>4
  <2>7. \A k \in 1 .. n : at[k] \in Nat /\ at[k] \in DOMAIN s
    BY <2>2, <2>4, <1>1, <1>3
  <2>8. \A k, l \in DOMAIN kept : at[k] = at[l] => k = l
    <3>. SUFFICES ASSUME NEW k \in 1 .. n, NEW l \in 1 .. n, at[k] = at[l] PROVE k = l
      BY <2>5
    <3>1. ~(k < l) /\ ~(l < k)
      BY <2>4, <2>7
    <3>. QED  BY <3>1, <2>3
  <2>9. \A k \in DOMAIN kept : kept[k] = out[c][at[k]]
    BY <2>5, <2>7, <1>4
  <2>. QED  BY <2>6, <2>8, <2>9
<1>. QED  BY <1>5, <1>6

\* What a call returns was not returned before, and is in its array once.
LEMMA FinishFresh ==
  ASSUME IInv, IInv', Fresh, Attaching', NEW c \in Clients, Finish(c)
  PROVE  Fresh'
<1>0. TypeOK /\ Buffer /\ Holder' /\ received \in Seq(Occurrence) /\ Nobody \notin Clients
  BY ConstantsAssumption DEF IInv, TypeOK
<1>1. PICK kept \in IF "E_NO_ENCLOSED_OCCURRENCES" \in flags
                    THEN Longest(SubSeq(out[c], 1, pout[c]))
                    ELSE {SubSeq(out[c], 1, pout[c])} : received' = received \o kept
  BY DEF Finish
<1>2. InNext(c) /\ mutex_extractor' = Nobody /\ UNCHANGED mstate
  BY DEF Finish, InNext
<1>3. kept \in Seq(Occurrence)
  BY <1>0, <1>1, KeptTypes
<1>4. PICK at \in [DOMAIN kept -> DOMAIN out[c]] :
        /\ \A k \in DOMAIN kept : kept[k] = out[c][at[k]]
        /\ \A k, l \in DOMAIN kept : at[k] = at[l] => k = l
  BY <1>0, <1>1, KeptCells
<1>5. /\ \A o \in SeqRange(out[c]) : Noted(o) /\ o \notin SeqRange(received)
      /\ \A i, j \in DOMAIN out[c] : out[c][i] = out[c][j] => i = j
      /\ \A o \in SeqRange(received) : Noted(o)
      /\ \A i, j \in DOMAIN received : received[i] = received[j] => i = j
  BY <1>2 DEF Fresh, NoDuplicate
<1>6. \A k \in DOMAIN kept : Noted(kept[k]) /\ kept[k] \notin SeqRange(received)
  BY <1>4, <1>5 DEF SeqRange
<1>7. \A k, l \in DOMAIN kept : kept[k] = kept[l] => k = l
  BY <1>4, <1>5
<1>8. PICK n \in Nat : n = Len(received)
  BY <1>0
<1>9. /\ DOMAIN received = 1 .. n
      /\ \A i \in DOMAIN received' :
           \/ i \in DOMAIN received /\ received'[i] = received[i]
           \/ i - n \in DOMAIN kept /\ received'[i] = kept[i - n]
      /\ \A i \in DOMAIN received' : i \in Nat
  BY <1>0, <1>1, <1>3, <1>8
<1>10. ASSUME NEW i \in DOMAIN received', NEW j \in DOMAIN received', received'[i] = received'[j]
       PROVE  i = j
  <2>1. CASE i \in DOMAIN received /\ received'[i] = received[i]
    <3>1. received[i] \in SeqRange(received)
      BY <2>1 DEF SeqRange
    <3>2. j \in DOMAIN received /\ received'[j] = received[j]
      BY <2>1, <3>1, <1>6, <1>9, <1>10
    <3>. QED  BY <2>1, <3>2, <1>5, <1>10
  <2>2. CASE i - n \in DOMAIN kept /\ received'[i] = kept[i - n]
    <3>1. received'[i] \notin SeqRange(received)
      BY <2>2, <1>6
    <3>2. j - n \in DOMAIN kept /\ received'[j] = kept[j - n]
      BY <3>1, <1>9, <1>10 DEF SeqRange
    <3>3. i - n = j - n
      BY <2>2, <3>2, <1>7, <1>10
    <3>. QED  BY <3>3, <1>9
  <2>. QED  BY <2>1, <2>2, <1>9
<1>11. \A i \in DOMAIN received' : Noted(received'[i])
  BY <1>5, <1>6, <1>9 DEF SeqRange
<1>12. (\A o \in SeqRange(received) : Noted(o))'
  BY <1>2, <1>11 DEF SeqRange, Noted
<1>13. \A d \in Clients : ~InNext(d)'
  BY <1>0, <1>2 DEF Holder, InNext
<1>14. \A w \in Threads : ~Working(w)'
  BY <1>13, DueInNext
<1>15. NoDuplicate'
  BY <1>10 DEF NoDuplicate
<1>. QED  BY <1>12, <1>13, <1>14, <1>15 DEF Fresh, Working

\* Every step keeps the occurrences apart.
LEMMA FreshStep ==
  ASSUME NonEmpty, IInv, IInv', Spent, Fresh, [Next]_vars
  PROVE  Fresh'
<1>0. /\ cpc \in [Clients -> {"idle", "attach", "error", "push", "signal", "collect", "return",
                              "destroy", "terminate", "join", "gone"}]
      /\ wpc \in [Threads -> {"wait", "check", "pop", "scan", "lock", "store", "bump", "exited"}]
      /\ job \in [Threads -> Job \cup {NoJob}]
      /\ cur \in [Threads -> Occurrence \cup {NoOccurrence}]
      /\ out \in [Clients -> Seq(Occurrence)]
      /\ mstate \in [Miners -> [text : Texts \cup {NoText}, pos : Nat, end_last : Nat,
                                pos_last : Nat]]
      /\ Nobody \notin Clients /\ Holder' /\ Jobs /\ TypeOK
  BY ConstantsAssumption DEF IInv, TypeOK
<1>1. Attaching'
  BY AttachingStep DEF Fresh
<1>2. \A m \in Miners : mstate[m].end_last \in Nat
  BY <1>0
<1>a. ASSUME received' = received,
             \A m \in Miners : mstate'[m].end_last = mstate[m].end_last,
             \A d \in Clients : InNext(d)' => out'[d] = <<>> \/ (InNext(d) /\ out'[d] = out[d]),
             \A v \in Threads : wpc'[v] \in {"lock", "store"} =>
               /\ wpc[v] \in {"lock", "store"} /\ cur'[v] = cur[v]
               /\ job'[v].pout = job[v].pout
      PROVE  Fresh'
  <2>1. \A m \in Miners : mstate'[m].end_last >= mstate[m].end_last
    BY <1>2, <1>a
  <2>. QED  BY <1>1, <1>a, <2>1, FreshKept
<1>b. ASSUME received' = <<>>, mutex_extractor' = Nobody
      PROVE  Fresh'
  <2>1. \A d \in Clients : ~InNext(d)'
    BY <1>0, <1>b DEF Holder, InNext
  <2>. QED  BY <1>1, <1>b, <2>1, FreshEmpty
<1>3. ASSUME NEW c \in Clients, CallStep(c)
      PROVE  Fresh'
  <2>1. CASE Attach(c)
    <3>1. cpc[c] = "attach" /\ mutex_extractor' = Nobody /\ received' = received
      BY <2>1 DEF Attach
    <3>2. received = <<>>
      BY <3>1 DEF Fresh, Attaching
    <3>. QED  BY <3>1, <3>2, <1>b
  <2>2. CASE Finish(c)
    BY <2>2, <1>1, FinishFresh
  <2>3. CASE Push(c)
    <3>1. PICK m \in Miners, p \in Nat : mstate' = [mstate EXCEPT ![m].pos = p]
      <4>1. miners[frame[c].m] \in Miners /\ spos[stream] \in Nat
        <5>1. frame[c].m \in DOMAIN miners
          BY <2>3, <1>0 DEF Push, TypeOK
        <5>2. stream \in Texts
          BY <2>3 DEF Push, IInv, Attached, InNext
        <5>. QED  BY <5>1, <5>2, <1>0 DEF TypeOK
      <4>. QED  BY <2>3, <4>1 DEF Push
    <3>2. \A n \in Miners : mstate'[n].end_last = mstate[n].end_last
      BY <3>1, <1>0
    <3>3. /\ UNCHANGED <<received, out, wpc, cur, job>>
          /\ cpc[c] = "push" /\ cpc' = [cpc EXCEPT ![c] = "signal"]
      BY <2>3 DEF Push, histVars, bufVars, workVars, Goto
    <3>4. \A d \in Clients : InNext(d)' => InNext(d)
      BY <3>3, <1>0 DEF InNext
    <3>. QED  BY <3>2, <3>3, <3>4, <1>a
  <2>4. CASE Return(c)
    <3>1. /\ UNCHANGED <<received, mstate, wpc, cur, job>>
          /\ cpc' = [cpc EXCEPT ![c] = "idle"]
          /\ out' = out \/ \E s \in Orders(out[c]) : out' = [out EXCEPT ![c] = s]
      BY <2>4 DEF Return, histVars, workVars, Goto
    <3>2. \A d \in Clients : InNext(d)' => InNext(d) /\ out'[d] = out[d]
      BY <3>1, <1>0 DEF InNext
    <3>. QED  BY <3>1, <3>2, <1>a
  <2>5. CASE ~(Attach(c) \/ Finish(c) \/ Push(c) \/ Return(c))
    <3>1. UNCHANGED <<received, mstate, out, wpc, cur, job>>
      BY <1>3, <2>5 DEF CallStep, RefuseStream, SetLastError, Signal, MoveStream, Collect,
           SetTerminate, PostTerminate, Join, Teardown, histVars, bufVars, workVars
    <3>2. \A d \in Clients : InNext(d)' => InNext(d)
      BY <1>3, <2>5, <1>0 DEF CallStep, RefuseStream, SetLastError, Signal, MoveStream, Collect,
           SetTerminate, PostTerminate, Join, Teardown, Goto, InNext
    <3>. QED  BY <3>1, <3>2, <1>a
  <2>. QED  BY <2>1, <2>2, <2>3, <2>4, <2>5
<1>4. ASSUME NEW c \in Clients, Call(c)
      PROVE  Fresh'
  <2>1. CASE (\E t \in Texts : SetStream(c, t)) \/ UnsetStream(c) \/ Destroy(c)
    <3>1. received' = <<>> /\ mutex_extractor' = Nobody
      BY <2>1 DEF SetStream, UnsetStream, Destroy, Unset
    <3>. QED  BY <3>1, <1>b
  <2>2. CASE \/ \E fs \in FlagArgs, value \in BOOLEAN : SetFlags(c, fs, value)
             \/ \E m \in Miners : AddMiner(c, m)
    <3>1. UNCHANGED <<received, mstate, out, wpc, cur, job, cpc>>
      BY <2>2 DEF SetFlags, AddMiner, histVars, bufVars, workVars, callVars
    <3>. QED  BY <3>1, <1>a DEF InNext
  <2>3. CASE \E b \in Batches : NextEnter(c, b)
    <3>1. /\ UNCHANGED <<received, mstate, wpc, cur, job>>
          /\ cpc' = [cpc EXCEPT ![c] = "push"] /\ out' = [out EXCEPT ![c] = <<>>]
      BY <2>3 DEF NextEnter, workVars, Goto
    <3>2. \A d \in Clients :
            InNext(d)' => out'[d] = <<>> \/ (InNext(d) /\ out'[d] = out[d])
      BY <3>1, <1>0 DEF InNext
    <3>. QED  BY <3>1, <3>2, <1>a
  <2>. QED  BY <1>4, <2>1, <2>2, <2>3 DEF Call
<1>5. ASSUME NEW w \in Threads, ThreadStep(w)
      PROVE  Fresh'
  <2>1. CASE RunMiner(w)
    BY <2>1, <1>1, RunFresh
  <2>2. CASE Store(w)
    BY <2>2, <1>1, StoreFresh
  <2>3. CASE SkipPosition(w)
    <3>1. /\ UNCHANGED <<received, out, wpc, cur, cpc>> /\ wpc[w] = "scan"
          /\ job' = [job EXCEPT ![w].batch = @ - 1]
      BY <2>3 DEF SkipPosition, Scanning, callerVars, histVars, bufVars, callVars
    <3>2. \A v \in Threads : wpc'[v] \in {"lock", "store"} => job'[v] = job[v]
      BY <3>1, <1>0
    <3>3. job[w].miner \in Miners
      BY <3>1, <1>0 DEF Jobs, Working, Job
    <3>4. \A m \in Miners : mstate'[m].end_last = mstate[m].end_last
      BY <2>3, <3>3, <1>0 DEF SkipPosition
    <3>. QED  BY <3>1, <3>2, <3>4, <1>a DEF InNext
  <2>4. CASE \/ WaitTargs(w) \/ Quit(w) \/ GoOn(w) \/ Pop(w) \/ LockPout(w) \/ DropEnclosed(w)
             \/ Bump(w) \/ PostMain(w)
    <3>1. UNCHANGED <<received, mstate, out, cpc>>
      BY <2>4 DEF WaitTargs, Quit, GoOn, Pop, LockPout, DropEnclosed, Bump, PostMain, callerVars,
           histVars, bufVars, callVars
    <3>2. \A v \in Threads : wpc'[v] \in {"lock", "store"} =>
            wpc[v] \in {"lock", "store"} /\ cur'[v] = cur[v] /\ job'[v] = job[v]
      <4>1. CASE WaitTargs(w) \/ Quit(w) \/ GoOn(w)
        BY <4>1, <1>0 DEF WaitTargs, Quit, GoOn, Step
      <4>2. CASE Pop(w) \/ PostMain(w)
        BY <4>2, <1>0 DEF Pop, PostMain, Step
      <4>3. CASE LockPout(w) \/ DropEnclosed(w) \/ Bump(w)
        BY <4>3, <1>0 DEF LockPout, DropEnclosed, Bump, Step
      <4>. QED  BY <2>4, <4>1, <4>2, <4>3
    <3>. QED  BY <3>1, <3>2, <1>a DEF InNext
  <2>. QED  BY <1>5, <2>1, <2>2, <2>3, <2>4 DEF ThreadStep
<1>6. CASE UNCHANGED vars
  <2>1. UNCHANGED <<received, mstate, out, wpc, cur, job, cpc>>
    BY <1>6 DEF vars, histVars, bufVars, workVars, callVars
  <2>. QED  BY <2>1, <1>a DEF InNext
<1>. QED  BY <1>3, <1>4, <1>5, <1>6 DEF Next

\* Unless a matcher returns occurrences without characters, no occurrence
\* reaches the callers twice: not through two threads, two calls or the filter.
THEOREM OccurrencesOnce == NonEmpty => (Spec => []NoDuplicate)
<1>. SUFFICES ASSUME NonEmpty PROVE Spec => []NoDuplicate
  OBVIOUS
<1>1. Init => Fresh
  <2>. SUFFICES ASSUME Init PROVE Fresh
    OBVIOUS
  <2>1. received = <<>> /\ \A c \in Clients : cpc[c] = "idle" /\ ~InNext(c)
    BY DEF Init, InNext
  <2>2. \A w \in Threads : wpc[w] = "wait"
    BY DEF Init
  <2>3. SeqRange(received) = {}
    BY <2>1 DEF SeqRange
  <2>. QED  BY <2>1, <2>2, <2>3 DEF Fresh, Attaching, NoDuplicate
<1>2. IInv /\ Spent /\ Fresh /\ [Next]_vars => Fresh'
  <2>. SUFFICES ASSUME IInv, Spent, Fresh, [Next]_vars PROVE Fresh'
    OBVIOUS
  <2>1. IInv'
    BY NextInv
  <2>. QED  BY <2>1, FreshStep
<1>3. Fresh => NoDuplicate
  BY DEF Fresh
<1>. QED  BY <1>1, <1>2, <1>3, SpentAlways, PTL DEF Spec

-----------------------------------------------------------------------------
(* One scan of a text *)

ScanState == [at : Nat, on : Nat, last : Nat]

\* Of three numbers there is one that is furthest.
LEMMA FurthestOfThree ==
  ASSUME NEW a \in Nat, NEW b \in Nat, NEW c \in Nat
  PROVE  /\ M!Furthest({a, b, c}) \in {a, b, c}
         /\ M!Furthest({a, b, c}) >= a /\ M!Furthest({a, b, c}) >= b
         /\ M!Furthest({a, b, c}) >= c
<1> DEFINE S == {a, b, c}
<1>1. \E x \in S : \A y \in S : x >= y
  <2>1. CASE a >= b /\ a >= c
    BY <2>1
  <2>2. CASE b >= a /\ b >= c
    BY <2>2
  <2>3. CASE c >= a /\ c >= b
    BY <2>3
  <2> QED BY <2>1, <2>2, <2>3
<1>2. M!Furthest(S) \in S /\ \A y \in S : M!Furthest(S) >= y
  <2> HIDE DEF S
  <2> QED BY <1>1 DEF M!Furthest
<1> QED BY <1>2

\* What the matcher leaves, for a position of a text
LEMMA MatcherTypes ==
  ASSUME NEW m \in Miners, NEW t \in Texts, NEW p \in Nat, p < Size[t]
  PROVE  /\ Matcher[m][t][p] \in [start : Nat, end : Nat, to : Nat]
         /\ Matcher[m][t][p].to <= Size[t] /\ Matcher[m][t][p].end <= Size[t]
<1>1. Size[t] \in Nat
  BY ConstantsAssumption
<1>2. p \in 0 .. Size[t] - 1
  BY <1>1
<1> QED BY <1>2, MatcherAssumption

\* A scan passes one position.
LEMMA PassTypes ==
  ASSUME NEW m \in Miners, NEW t \in Texts, NEW s \in ScanState
  PROVE  M!Pass(m, t, s) \in ScanState
<1>0. Size[t] \in Nat /\ s.at \in Nat /\ s.on \in Nat /\ s.last \in Nat
  BY ConstantsAssumption DEF ScanState
<1> DEFINE r == Matcher[m][t][s.at]
<1>1. CASE M!Runs(t, s)
  <2>1. r.start \in Nat /\ r.end \in Nat /\ r.to \in Nat
    BY <1>0, <1>1, MatcherTypes DEF M!Runs
  <2>2. s.at + 1 \in Nat
    BY <1>0
  <2> HIDE DEF r
  <2>3. M!Furthest({r.end, r.to, s.at + 1}) \in Nat
    BY <2>1, <2>2, FurthestOfThree
  <2> QED BY <1>0, <1>1, <2>1, <2>2, <2>3 DEF M!Pass, ScanState, r
<1>2. CASE ~M!Runs(t, s)
  <2> HIDE DEF r
  <2> QED BY <1>0, <1>2 DEF M!Pass, ScanState
<1> QED BY <1>1, <1>2

\* The scan is the iteration of Pass.
LEMMA ScanIterates ==
  ASSUME NEW m \in Miners, NEW t \in Texts, NEW o \in Nat
  PROVE  /\ M!Scan(m, t, o)[0] = [at |-> o, on |-> o, last |-> 0]
         /\ \A n \in Nat : /\ M!Scan(m, t, o)[n] \in ScanState
                           /\ M!Scan(m, t, o)[n].at = o + n
                           /\ M!Scan(m, t, o)[n + 1] = M!Pass(m, t, M!Scan(m, t, o)[n])
<1> DEFINE first == [at |-> o, on |-> o, last |-> 0]
           step == [x \in ScanState |-> M!Pass(m, t, x)]
           s[n \in Nat] == IF n = 0 THEN [at |-> o, on |-> o, last |-> 0] ELSE M!Pass(m, t, s[n - 1])
<1>1. step \in [ScanState -> ScanState]
  BY PassTypes
<1>2. first \in ScanState
  BY DEF ScanState
<1>3. PICK f \in [Nat -> ScanState] : f[0] = first /\ \A n \in Nat : f[n + 1] = step[f[n]]
  <2> HIDE DEF step, first
  <2>1. Iterable(ScanState, first, step)
    BY <1>1, <1>2, IterationExists
  <2> QED BY <2>1 DEF Iterable
<1>4. ASSUME NEW n \in Nat
      PROVE  f[n] = IF n = 0 THEN [at |-> o, on |-> o, last |-> 0] ELSE M!Pass(m, t, f[n - 1])
  <2>1. CASE n = 0
    BY <1>3, <2>1
  <2>2. CASE n # 0
    <3>1. n - 1 \in Nat /\ (n - 1) + 1 = n
      BY <2>2
    <3>2. f[n] = step[f[n - 1]] /\ f[n - 1] \in ScanState
      BY <1>3, <3>1
    <3> QED BY <2>2, <3>2
  <2> QED BY <2>1, <2>2
<1>5. f = [n \in Nat |-> IF n = 0 THEN [at |-> o, on |-> o, last |-> 0] ELSE M!Pass(m, t, f[n - 1])]
  BY <1>3, <1>4
<1>6. s = [n \in Nat |-> IF n = 0 THEN [at |-> o, on |-> o, last |-> 0] ELSE M!Pass(m, t, s[n - 1])]
  BY <1>5
<1>7. M!Scan(m, t, o) = s
  BY DEF M!Scan
<1> HIDE DEF s
<1>8. s[0] = first
  BY <1>6
<1>9. ASSUME NEW n \in Nat PROVE s[n + 1] = M!Pass(m, t, s[n])
  <2>1. n + 1 \in Nat /\ n + 1 # 0 /\ (n + 1) - 1 = n
    OBVIOUS
  <2> QED BY <1>6, <2>1
<1> DEFINE Good == {n \in Nat : s[n] \in ScanState /\ s[n].at = o + n}
<1>10. 0 \in Good
  BY <1>2, <1>8
<1>11. ASSUME NEW n \in Nat, n \in Good PROVE n + 1 \in Good
  <2>1. s[n + 1] \in ScanState
    BY <1>9, <1>11, PassTypes
  <2>2. s[n + 1].at = s[n].at + 1
    <3>1. ASSUME NEW x PROVE M!Pass(m, t, x).at = x.at + 1
      BY DEF M!Pass
    <3> QED BY <1>9, <3>1
  <2>3. o + (n + 1) = (o + n) + 1
    OBVIOUS
  <2> QED BY <1>11, <2>1, <2>2, <2>3
<1>12. Nat \subseteq Good
  <2> HIDE DEF Good
  <2> QED BY <1>10, <1>11, SetInduction
<1> QED BY <1>7, <1>8, <1>9, <1>12

\* What the scan from o on knows at p
Known(m, t, o, p) == M!Scan(m, t, o)[p - o]

LEMMA ScanGoesOn ==
  ASSUME NEW m \in Miners, NEW t \in Texts, NEW o \in Nat, NEW p \in Nat, o <= p
  PROVE  /\ Known(m, t, o, p) \in ScanState /\ Known(m, t, o, p).at = p
         /\ Known(m, t, o, p + 1) = M!Pass(m, t, Known(m, t, o, p))
<1>1. /\ p - o \in Nat /\ o + (p - o) = p /\ (p - o) + 1 = (p + 1) - o
  OBVIOUS
<1>2. PICK n \in Nat : n = p - o /\ o + n = p /\ n + 1 = (p + 1) - o
  BY <1>1
<1>3. /\ M!Scan(m, t, o)[n] \in ScanState /\ M!Scan(m, t, o)[n].at = o + n
      /\ M!Scan(m, t, o)[n + 1] = M!Pass(m, t, M!Scan(m, t, o)[n])
  BY ScanIterates
<1> QED BY <1>2, <1>3 DEF Known

\* Where no run may start the scan learns and finds nothing.
LEMMA ScanPasses ==
  ASSUME NEW m \in Miners, NEW t \in Texts, NEW o \in Nat, NEW p \in Nat, o <= p,
         ~ (p < Size[t] /\ Known(m, t, o, p).on <= p)
  PROVE  /\ Known(m, t, o, p + 1).on = Known(m, t, o, p).on
         /\ Known(m, t, o, p + 1).last = Known(m, t, o, p).last
         /\ M!HitAt(m, t, o, p) = {}
<1>1. PICK s \in ScanState : s = Known(m, t, o, p) /\ s.at = p
  BY ScanGoesOn
<1>2. ~M!Runs(t, s)
  BY <1>1 DEF M!Runs
<1>3. M!Pass(m, t, s).on = s.on /\ M!Pass(m, t, s).last = s.last
  BY <1>2 DEF M!Pass
<1>4. M!HitAt(m, t, o, p) = {}
  BY <1>1, <1>2 DEF M!HitAt, Known
<1> QED BY <1>1, <1>3, <1>4, ScanGoesOn

\* A run, and what it finds
LEMMA ScanRuns ==
  ASSUME NEW m \in Miners, NEW t \in Texts, NEW o \in Nat, NEW p \in Nat, o <= p,
         p < Size[t], Known(m, t, o, p).on <= p
  PROVE  LET r == Matcher[m][t][p]
             s == Known(m, t, o, p)
             on == Known(m, t, o, p + 1).on
         IN /\ on \in {r.end, r.to, p + 1} /\ on >= r.end /\ on >= r.to /\ on >= p + 1
            /\ Known(m, t, o, p + 1).last =
                 IF r.end > 0 /\ r.start >= s.last THEN r.end ELSE s.last
            /\ M!HitAt(m, t, o, p) =
                 IF r.end > 0 /\ r.start >= s.last
                 THEN {[miner |-> m, start |-> r.start, end |-> r.end]} ELSE {}
<1>1. PICK s \in ScanState : s = Known(m, t, o, p) /\ s.at = p
  BY ScanGoesOn
<1>2. PICK r : r = Matcher[m][t][p]
  OBVIOUS
<1>3. r.end \in Nat /\ r.to \in Nat /\ p + 1 \in Nat
  BY <1>2, MatcherTypes
<1>4. M!Runs(t, s)
  BY <1>1 DEF M!Runs
<1>5. /\ M!Pass(m, t, s).on = M!Furthest({r.end, r.to, p + 1})
      /\ M!Pass(m, t, s).last = IF M!Returns(s, r) THEN r.end ELSE s.last
  BY <1>1, <1>2, <1>4 DEF M!Pass
<1>6. M!Returns(s, r) <=> r.end > 0 /\ r.start >= s.last
  BY DEF M!Returns
<1>7. M!HitAt(m, t, o, p) = {x \in {M!Occ(m, r)} : M!Returns(s, r)}
  BY <1>1, <1>2, <1>4 DEF M!HitAt, Known
<1>8. M!Occ(m, r) = [miner |-> m, start |-> r.start, end |-> r.end]
  BY DEF M!Occ
<1>9. PICK f : f = M!Furthest({r.end, r.to, p + 1})
  OBVIOUS
<1>10. f \in {r.end, r.to, p + 1} /\ f >= r.end /\ f >= r.to /\ f >= p + 1
  BY <1>3, <1>9, FurthestOfThree
<1>11. Known(m, t, o, p + 1) = M!Pass(m, t, s)
  BY <1>1, ScanGoesOn
<1> QED BY <1>1, <1>2, <1>5, <1>6, <1>7, <1>8, <1>9, <1>10, <1>11

\* What is found before p + 1 is found before p or at p.
LEMMA HitsGrow ==
  ASSUME NEW m, NEW t, NEW o, NEW lo \in Nat, NEW p \in Nat, lo <= p
  PROVE  M!HitsOf(m, t, o, lo, p + 1) = M!HitsOf(m, t, o, lo, p) \cup M!HitAt(m, t, o, p)
<1>1. lo .. (p + 1) - 1 = (lo .. p - 1) \cup {p}
  OBVIOUS
<1> QED BY <1>1 DEF M!HitsOf

LEMMA HitsNone ==
  ASSUME NEW m, NEW t, NEW o, NEW lo \in Nat
  PROVE  M!HitsOf(m, t, o, lo, lo) = {}
<1>1. lo .. lo - 1 = {}
  OBVIOUS
<1> QED BY <1>1 DEF M!HitsOf

\* Up to where the next run may start the scan learns and finds nothing.
LEMMA ScanRests ==
  ASSUME NEW m \in Miners, NEW t \in Texts, NEW o \in Nat, NEW p \in Nat, o <= p,
         NEW lo \in Nat, lo <= p, NEW q \in Nat, p <= q, q <= Known(m, t, o, p).on
  PROVE  /\ Known(m, t, o, q).on = Known(m, t, o, p).on
         /\ Known(m, t, o, q).last = Known(m, t, o, p).last
         /\ M!HitsOf(m, t, o, lo, q) = M!HitsOf(m, t, o, lo, p)
<1> DEFINE Same(k) == /\ Known(m, t, o, p + k).on = Known(m, t, o, p).on
                      /\ Known(m, t, o, p + k).last = Known(m, t, o, p).last
                      /\ M!HitsOf(m, t, o, lo, p + k) = M!HitsOf(m, t, o, lo, p)
           Good == {k \in Nat : p + k <= Known(m, t, o, p).on => Same(k)}
<1>0. Known(m, t, o, p).on \in Nat
  BY ScanGoesOn DEF ScanState
<1>1. 0 \in Good
  BY <1>0
<1>2. ASSUME NEW k \in Nat, k \in Good PROVE k + 1 \in Good
  <2>. SUFFICES ASSUME p + (k + 1) <= Known(m, t, o, p).on PROVE Same(k + 1)
    OBVIOUS
  <2>1. PICK n \in Nat : n = p + k /\ n + 1 = p + (k + 1) /\ o <= n /\ lo <= n
    OBVIOUS
  <2>2. n <= Known(m, t, o, p).on /\ ~ (Known(m, t, o, p).on <= n)
    BY <1>0, <2>1
  <2>3. Same(k)
    BY <1>2, <2>1, <2>2
  <2>4. ~ (n < Size[t] /\ Known(m, t, o, n).on <= n)
    BY <2>1, <2>2, <2>3
  <2>5. /\ Known(m, t, o, n + 1).on = Known(m, t, o, n).on
        /\ Known(m, t, o, n + 1).last = Known(m, t, o, n).last
        /\ M!HitAt(m, t, o, n) = {}
    BY <2>1, <2>4, ScanPasses
  <2>6. M!HitsOf(m, t, o, lo, n + 1) = M!HitsOf(m, t, o, lo, n)
    <3>1. M!HitsOf(m, t, o, lo, n + 1) = M!HitsOf(m, t, o, lo, n) \cup M!HitAt(m, t, o, n)
      BY SMTT(30), <2>1, HitsGrow
    <3> HIDE DEF Same
    <3> QED BY <2>5, <3>1
  <2> QED BY <2>1, <2>3, <2>5, <2>6
<1>3. Nat \subseteq Good
  <2> HIDE DEF Good
  <2> QED BY <1>1, <1>2, SetInduction
<1>4. q - p \in Nat /\ p + (q - p) = q
  OBVIOUS
<1>5. PICK k \in Nat : k = q - p /\ p + k = q
  BY <1>4
<1>6. Same(k)
  BY <1>3, <1>5
<1> QED BY <1>5, <1>6

-----------------------------------------------------------------------------
(* The marks of a miner and the scan *)

Marks == [text : Texts \cup {NoText}, pos : Nat, end_last : Nat, pos_last : Nat]

\* The marks that set_stream sets are those of a scan that begins.
LEMMA AgreeBegins ==
  ASSUME NEW m \in Miners, NEW t \in Texts, NEW o \in Nat, NEW x, x.end_last = 0,
         x.pos_last = 0, NEW hi \in Nat
  PROVE  Agree(x, Known(m, t, o, o), hi)
<1>1. o - o = 0
  OBVIOUS
<1>2. Known(m, t, o, o) = [at |-> o, on |-> o, last |-> 0]
  BY <1>1, ScanIterates DEF Known
<1>3. ASSUME NEW q \in o .. hi PROVE MayRun(x, q) <=> o <= q
  BY <1>3 DEF MayRun, MaxOf
<1> QED BY <1>2, <1>3 DEF Agree

\* A position that the miner skips is one where the scan does not run it.
LEMMA AgreeSkips ==
  ASSUME NEW m \in Miners, NEW t \in Texts, NEW o \in Nat, NEW p \in Nat, o <= p, p < Size[t],
         NEW lo \in Nat, lo <= p, NEW x, NEW y, Agree(x, Known(m, t, o, p), Size[t]),
         ~MayRun(x, p), y.end_last = x.end_last, y.pos_last = x.pos_last
  PROVE  /\ Agree(y, Known(m, t, o, p + 1), Size[t])
         /\ M!HitsOf(m, t, o, lo, p + 1) = M!HitsOf(m, t, o, lo, p)
<1>0. Size[t] \in Nat
  BY ConstantsAssumption
<1>1. /\ Known(m, t, o, p) \in ScanState /\ Known(m, t, o, p).at = p
      /\ Known(m, t, o, p + 1).at = p + 1
  BY ScanGoesOn
<1>2. ~ (Known(m, t, o, p).on <= p)
  <2>1. p \in p .. Size[t]
    BY <1>0
  <2> QED BY <1>1, <2>1 DEF Agree
<1>3. /\ Known(m, t, o, p + 1).on = Known(m, t, o, p).on
      /\ Known(m, t, o, p + 1).last = Known(m, t, o, p).last
      /\ M!HitAt(m, t, o, p) = {}
  BY <1>2, ScanPasses
<1>4. ASSUME NEW q \in p + 1 .. Size[t]
      PROVE  MayRun(y, q) <=> Known(m, t, o, p + 1).on <= q
  <2>1. q \in p .. Size[t]
    BY <1>0
  <2>2. MayRun(y, q) <=> MayRun(x, q)
    BY DEF MayRun
  <2> QED BY <1>1, <1>3, <2>1, <2>2 DEF Agree
<1>5. y.end_last = Known(m, t, o, p + 1).last
  BY <1>3 DEF Agree
<1>6. Agree(y, Known(m, t, o, p + 1), Size[t])
  BY <1>1, <1>4, <1>5 DEF Agree
<1>7. M!HitsOf(m, t, o, lo, p + 1) = M!HitsOf(m, t, o, lo, p) \cup M!HitAt(m, t, o, p)
  BY HitsGrow
<1> QED BY <1>3, <1>6, <1>7

\* A run of the miner is one of the scan, which comes with it to where the
\* miner stands, or to the end of the batch if the miner went past that.
LEMMA AgreeRuns ==
  ASSUME NEW m \in Miners, NEW t \in Texts, NEW o \in Nat, NEW p \in Nat, o <= p, p < Size[t],
         NEW lo \in Nat, lo <= p, NEW x \in Marks, x.pos = p,
         Agree(x, Known(m, t, o, p), Size[t]), MayRun(x, p),
         NEW r, r = Matcher[m][t][p], NEW y, y = AfterRun(x, r),
         NEW lim \in Nat, p < lim, lim <= Size[t], NEW q, q = MinOf(y.pos, lim)
  PROVE  /\ q \in Nat /\ p + 1 <= q /\ q <= y.pos
         /\ Agree(y, Known(m, t, o, q), Size[t])
         /\ M!HitsOf(m, t, o, lo, q) =
              M!HitsOf(m, t, o, lo, p) \cup
                IF Found(x, r) THEN {[miner |-> m, start |-> r.start, end |-> r.end]} ELSE {}
<1>0. /\ Size[t] \in Nat /\ x.end_last \in Nat /\ x.pos_last \in Nat
      /\ r.start \in Nat /\ r.end \in Nat /\ r.to \in Nat
  BY ConstantsAssumption, MatcherTypes DEF Marks
<1>1. PICK s \in ScanState : s = Known(m, t, o, p) /\ s.at = p
  BY ScanGoesOn
<1>2. s.on <= p /\ x.end_last = s.last
  <2>1. p \in p .. Size[t]
    BY <1>0
  <2> QED BY <1>1, <2>1 DEF Agree
<1>3. PICK n \in ScanState : n = Known(m, t, o, p + 1)
  <2>1. p + 1 \in Nat /\ o <= p + 1
    OBVIOUS
  <2> QED BY <2>1, ScanGoesOn
<1>4. Found(x, r) <=> r.end > 0 /\ r.start >= s.last
  BY <1>2 DEF Found
<1>5. /\ n.on \in {r.end, r.to, p + 1} /\ n.on >= r.end /\ n.on >= r.to /\ n.on >= p + 1
      /\ n.last = IF Found(x, r) THEN r.end ELSE s.last
      /\ M!HitAt(m, t, o, p) =
           IF Found(x, r) THEN {[miner |-> m, start |-> r.start, end |-> r.end]} ELSE {}
  BY <1>1, <1>2, <1>3, <1>4, ScanRuns
<1>6. /\ y.pos = MaxOf(r.to, p + 1) /\ y.pos_last = MaxOf(r.end, r.to)
      /\ y.end_last = IF Found(x, r) THEN r.end ELSE x.end_last
  BY DEF AfterRun, Marks
<1>7. q \in Nat /\ p + 1 <= q /\ q <= y.pos /\ q <= n.on
  BY <1>0, <1>5, <1>6 DEF MaxOf, MinOf
<1>8. /\ Known(m, t, o, q).on = n.on /\ Known(m, t, o, q).last = n.last
      /\ M!HitsOf(m, t, o, lo, q) = M!HitsOf(m, t, o, lo, p + 1)
  <2>1. p + 1 \in Nat /\ o <= p + 1 /\ lo <= p + 1
    OBVIOUS
  <2> QED BY <1>3, <1>7, <2>1, ScanRests
<1>9. M!HitsOf(m, t, o, lo, p + 1) = M!HitsOf(m, t, o, lo, p) \cup M!HitAt(m, t, o, p)
  BY HitsGrow
<1>10. x.end_last <= p
  BY <1>0 DEF MayRun, MaxOf
<1>11. ASSUME NEW k \in q .. Size[t] PROVE MayRun(y, k) <=> n.on <= k
  <2>1. k \in Int /\ p + 1 <= k
    BY <1>7, <1>0
  <2>2. n.on <= k <=> r.end <= k /\ r.to <= k
    BY <1>0, <1>5, <2>1
  <2>3. MayRun(y, k) <=> r.end <= k /\ r.to <= k
    BY <1>0, <1>6, <1>10, <2>1 DEF MayRun, MaxOf
  <2> QED BY <2>2, <2>3
<1>12. Known(m, t, o, q).at = q
  <2>1. o <= q
    BY <1>7
  <2> QED BY <1>7, <2>1, ScanGoesOn
<1>13. y.end_last = n.last
  BY <1>2, <1>5, <1>6
<1>14. Agree(y, Known(m, t, o, q), Size[t])
  BY <1>8, <1>11, <1>12, <1>13 DEF Agree
<1> QED BY <1>5, <1>7, <1>8, <1>9, <1>14

-----------------------------------------------------------------------------
(* Callers that set a stream or destroy, and where the streams stand *)

\* destroy has the extractor to itself, and no stream.
LEMMA EndingStep ==
  ASSUME IInv, Ending, [Next]_vars
  PROVE  Ending'
<1> DEFINE E == {"destroy", "terminate", "join", "gone"}
<1>0. /\ cpc \in [Clients -> {"idle", "attach", "error", "push", "signal", "collect", "return",
                              "destroy", "terminate", "join", "gone"}]
      /\ NoText \notin Texts
  BY ConstantsAssumption DEF IInv, TypeOK
<1>a. ASSUME NEW c \in Clients, cpc[c] \in E, stream' = stream,
             \A d \in Clients : d # c => cpc'[d] = cpc[d]
      PROVE  stream' = NoText /\ \A d \in Clients : d # c => cpc'[d] = "idle"
  BY <1>a DEF Ending
<1>1. ASSUME NEW d \in Clients, CallStep(d), NEW c \in Clients, cpc'[c] \in E
      PROVE  stream' = NoText /\ \A e \in Clients : e # c => cpc'[e] = "idle"
  <2>1. /\ cpc[d] # "idle" /\ \A e \in Clients : e # d => cpc'[e] = cpc[e]
        /\ cpc'[d] \in E => cpc[d] \in E
        /\ cpc[d] \in E => stream' = stream
    BY <1>0, <1>1 DEF CallStep, Attach, RefuseStream, SetLastError, Push, Signal, MoveStream,
         Collect, Finish, Return, SetTerminate, PostTerminate, Join, Teardown, Goto, confVars
  <2>2. cpc[c] \in E
    BY <1>1, <2>1
  <2>3. c = d
    BY <2>1, <2>2 DEF Ending
  <2>. QED  BY <2>1, <2>2, <2>3, <1>a
<1>2. ASSUME NEW d \in Clients, Call(d), NEW c \in Clients, cpc'[c] \in E
      PROVE  stream' = NoText /\ \A e \in Clients : e # c => cpc'[e] = "idle"
  <2>1. CASE Destroy(d)
    <3>1. /\ AllIdle /\ cpc' = [cpc EXCEPT ![d] = "destroy"] /\ stream' = NoText
      BY <2>1 DEF Destroy, Unset, Goto
    <3>. QED  BY <3>1, <1>0, <1>2 DEF AllIdle
  <2>2. CASE \E fs \in FlagArgs, value \in BOOLEAN : SetFlags(d, fs, value)
    <3>1. UNCHANGED <<cpc, stream>>
      BY <2>2 DEF SetFlags, callVars
    <3>. QED  BY <3>1, <1>2, <1>a
  <2>3. CASE \E b \in Batches : NextEnter(d, b)
    <3>1. stream # NoText /\ cpc'[d] = "push" /\ (cpc'[c] = cpc[c] \/ c = d)
      BY <2>3, <1>0 DEF NextEnter, Goto
    <3>. QED  BY <3>1, <1>2 DEF Ending
  <2>4. CASE \/ UnsetStream(d) \/ \E t \in Texts : SetStream(d, t)
             \/ \E m \in Miners : AddMiner(d, m)
    <3>1. AllIdle /\ (UNCHANGED cpc \/ cpc' = [cpc EXCEPT ![d] = "attach"])
      BY <2>4 DEF UnsetStream, SetStream, AddMiner, callVars, Goto
    <3>. QED  BY <3>1, <1>0, <1>2 DEF AllIdle
  <2>. QED  BY <1>2, <2>1, <2>2, <2>3, <2>4 DEF Call
<1>3. ASSUME NEW w \in Threads, ThreadStep(w)
      PROVE  UNCHANGED <<cpc, stream>>
  BY <1>3 DEF ThreadStep, WaitTargs, Quit, GoOn, Pop, SkipPosition, RunMiner, LockPout,
         DropEnclosed, Store, Bump, PostMain, callerVars, confVars, callVars
<1>4. CASE UNCHANGED vars
  <2>1. UNCHANGED <<cpc, stream>>
    BY <1>4 DEF vars, confVars, callVars
  <2>. QED  BY <2>1, <1>a DEF Ending
<1>. QED  BY <1>a, <1>1, <1>2, <1>3, <1>4 DEF Next, Ending

\* No stream is moved past its end, nor the one that is set moved back.
LEMMA InTextsStep ==
  ASSUME IInv, InTexts, [Next]_vars
  PROVE  InTexts'
<1>0. /\ spos \in [Texts -> Nat] /\ Size \in [Texts -> Nat] /\ NoText \notin Texts
      /\ frame \in [Clients -> [text : Texts \cup {NoText}, batch : Nat, from : Nat,
                                m : Nat \ {0}, cap : Nat]]
      /\ origin \in Nat
  BY ConstantsAssumption DEF IInv, TypeOK
<1>1. ASSUME NEW c \in Clients, MoveStream(c)
      PROVE  InTexts'
  <2>1. stream \in Texts /\ Readable /\ UNCHANGED <<stream, origin>>
    BY <1>1 DEF IInv, Attached, InNext, MoveStream, Readable, confVars, histVars
  <2>2. PICK x, p : x = MinOf(p + frame[c].batch, Size[stream]) /\ p = spos[stream]
    OBVIOUS
  <2>3. x <= Size[stream] /\ origin <= x
    <3>1. p \in Nat /\ frame[c].batch \in Nat /\ Size[stream] \in Nat
      BY <1>0, <2>1, <2>2
    <3>2. p <= Size[stream] /\ origin <= p
      BY <2>1, <2>2 DEF InTexts
    <3>. QED  BY <1>0, <2>2, <3>1, <3>2 DEF MinOf
  <2>4. spos' = [spos EXCEPT ![stream] = x]
    BY <1>1, <2>2 DEF MoveStream
  <2>5. \A t \in Texts : spos'[t] <= Size[t]
    BY <1>0, <2>1, <2>3, <2>4 DEF InTexts
  <2>6. origin' <= spos'[stream']
    BY <1>0, <2>1, <2>3, <2>4
  <2>. QED  BY <2>5, <2>6 DEF InTexts
<1>2. spos' = spos => \A t \in Texts : spos'[t] <= Size[t]
  BY DEF InTexts
<1>3. UNCHANGED <<spos, stream, origin>> => InTexts'
  BY DEF InTexts, Readable
<1>4. ASSUME NEW c \in Clients, CallStep(c), ~MoveStream(c)
      PROVE  InTexts'
  <2>1. CASE Attach(c)
    <3>1. frame[c].text \in Texts
      BY <2>1 DEF Attach, IInv, Attached
    <3>2. spos' = spos /\ stream' \in Texts /\ origin' = spos[stream']
      BY <2>1, <3>1 DEF Attach
    <3>. QED  BY <1>0, <1>2, <3>2 DEF InTexts
  <2>2. CASE RefuseStream(c)
    <3>1. spos' = spos /\ ~Readable'
      BY <2>2 DEF RefuseStream, Readable
    <3>. QED  BY <1>2, <3>1 DEF InTexts
  <2>3. CASE ~Attach(c) /\ ~RefuseStream(c)
    <3>1. UNCHANGED <<spos, stream, origin>>
      BY <1>4, <2>3 DEF CallStep, SetLastError, Push, Signal, Collect, Finish, Return,
           SetTerminate, PostTerminate, Join, Teardown, confVars, histVars
    <3>. QED  BY <1>3, <3>1
  <2>. QED  BY <2>1, <2>2, <2>3
<1>5. ASSUME NEW c \in Clients, Call(c)
      PROVE  InTexts'
  <2>1. spos' = spos /\ (UNCHANGED <<stream, origin>> \/ stream' = NoText)
    BY <1>5 DEF Call, AddMiner, SetStream, UnsetStream, SetFlags, NextEnter, Destroy, Unset,
         confVars, histVars
  <2>2. CASE UNCHANGED <<stream, origin>>
    BY <1>3, <2>1, <2>2
  <2>3. CASE stream' = NoText
    <3>1. ~Readable'
      BY <1>0, <2>3 DEF Readable
    <3>. QED  BY <1>2, <2>1, <3>1 DEF InTexts
  <2>. QED  BY <2>1, <2>2, <2>3
<1>6. ASSUME NEW w \in Threads, ThreadStep(w)
      PROVE  InTexts'
  <2>1. UNCHANGED <<spos, stream, origin>>
    BY <1>6 DEF ThreadStep, WaitTargs, Quit, GoOn, Pop, SkipPosition, RunMiner, LockPout,
         DropEnclosed, Store, Bump, PostMain, callerVars, confVars, histVars
  <2>. QED  BY <1>3, <2>1
<1>7. CASE UNCHANGED vars
  <2>1. UNCHANGED <<spos, stream, origin>>
    BY <1>7 DEF vars, confVars, histVars
  <2>. QED  BY <1>3, <2>1
<1>. QED  BY <1>1, <1>4, <1>5, <1>6, <1>7 DEF Next

-----------------------------------------------------------------------------
(* What a step leaves alone *)

\* What a miner's scan has come to is told by its marks.
LEMMA SameScanned ==
  ASSUME UNCHANGED <<stream, origin>>, NEW m, mstate'[m] = mstate[m], NEW p
  PROVE  Scanned(m, p)' <=> Scanned(m, p)
BY DEF Scanned

\* What is wanted of a miner is told by the call.
LEMMA SameWanted ==
  ASSUME UNCHANGED <<stream, origin>>, NEW c \in Clients, frame'[c].from = frame[c].from,
         frame'[c].batch = frame[c].batch, \A o : Enclosed(o)' <=> Enclosed(o)
  PROVE  Limit(c)' = Limit(c) /\ \A m, p : Wanted(c, m, p)' = Wanted(c, m, p)
<1>1. Limit(c)' = Limit(c)
  BY DEF Limit
<1>2. ASSUME NEW m, NEW p PROVE Wanted(c, m, p)' = Wanted(c, m, p)
  <2>1. PICK S : S = M!HitsOf(m, stream, origin, frame[c].from, p)
    OBVIOUS
  <2>2. S = M!HitsOf(m, stream, origin, frame[c].from, p)'
    BY <2>1
  <2>. QED  BY <2>1, <2>2 DEF Wanted
<1>. QED  BY <1>1, <1>2

\* One caller is inside next, and the jobs are its jobs.
LEMMA OneCaller ==
  ASSUME IInv, NEW c \in Clients, InNext(c)
  PROVE  /\ mutex_extractor = c
         /\ \A d \in Clients : InNext(d) => d = c
         /\ \A j \in SeqRange(targs) :
              j \in Job /\ j.pout = c /\ j.miner \in Miners /\ j.miner \in PushedMiners(c)
         /\ \A w \in Threads : Working(w) =>
              /\ job[w] \in Job /\ job[w].pout = c /\ job[w].miner \in Miners
              /\ job[w].miner \in PushedMiners(c)
         /\ PushedMiners(c) \subseteq SeqRange(miners) /\ SeqRange(miners) \subseteq Miners
<1>1. /\ mutex_extractor = c /\ \A d \in Clients : InNext(d) => d = c
  BY DEF IInv, Holder, InNext
<1>2. targs \in Seq(Job) /\ miners \in Seq(Miners)
  BY DEF IInv, TypeOK
<1>3. \A j : Due(j) => j.pout = c /\ j.miner \in PushedMiners(c)
  BY <1>1 DEF Due
<1>4. \A j \in SeqRange(targs) : j \in Job /\ Due(j)
  BY <1>2 DEF SeqRange, IInv, Jobs
<1>5. \A w \in Threads : Working(w) => job[w] \in Job /\ Due(job[w])
  BY DEF IInv, Jobs
<1>6. \A j \in Job : j.miner \in Miners
  BY DEF Job
<1>7. PushedMiners(c) \subseteq SeqRange(miners) /\ SeqRange(miners) \subseteq Miners
  BY <1>2 DEF PushedMiners, SeqRange
<1>. QED  BY <1>1, <1>3, <1>4, <1>5, <1>6, <1>7

\* In a call of next a step that concerns none but the miners of K keeps it for
\* the others.
LEMMA ProgressElsewhere ==
  ASSUME IInv, IInv', Progress, Attaching', Ending', InTexts',
         NEW c \in Clients, InNext(c), InNext(c)', NEW K,
         UNCHANGED <<stream, origin, miners>>,
         frame'[c].from = frame[c].from, frame'[c].batch = frame[c].batch, InCall(c)',
         \A o : Enclosed(o)' <=> Enclosed(o),
         \A m \in Miners \ K :
           /\ mstate'[m] = mstate[m] /\ Written(c, m)' = Written(c, m)
           /\ m \in PushedMiners(c)' <=> m \in PushedMiners(c),
         \A j : j.miner \in Miners \ K => (j \in SeqRange(targs)' <=> j \in SeqRange(targs)),
         \A w \in Threads : \A j : j.miner \in Miners \ K =>
           /\ Working(w)' /\ job'[w] = j <=> Working(w) /\ job[w] = j
           /\ Working(w) /\ job[w] = j => Hand(w)' = Hand(w),
         \A j \in SeqRange(targs)' : j.miner \in K => QueuedWell(j)',
         \A w \in Threads : \A m \in K : Working(w)' /\ job'[w].miner = m => WorkedWell(w, c, m)',
         \A m \in K : m \in SeqRange(miners) => DoneWell(c, m)'
  PROVE  Progress'
<1>1. /\ \A d \in Clients : InNext(d)' => d = c
      /\ \A j \in SeqRange(targs)' : j \in Job /\ j.pout = c /\ j.miner \in Miners
      /\ \A w \in Threads : \A j : Working(w)' /\ job'[w] = j =>
           j \in Job /\ j.pout = c /\ j.miner \in Miners
  <2>1. mutex_extractor' = c /\ \A d \in Clients : InNext(d)' => d = c
    BY DEF IInv, Holder, InNext
  <2>2. /\ \A j \in SeqRange(targs)' : j \in Job /\ j.pout \in Clients /\ InNext(j.pout)'
        /\ \A w \in Threads : \A j : Working(w)' /\ j = job'[w] =>
             j \in Job /\ j.pout \in Clients /\ InNext(j.pout)'
    BY DueInNext
  <2>3. \A j \in Job : j.miner \in Miners
    BY DEF Job
  <2>. QED  BY <2>1, <2>2, <2>3
<1>2. SeqRange(miners)' = SeqRange(miners) /\ SeqRange(miners) \subseteq Miners
  BY OneCaller
<1>3. /\ \A m \in Miners \ K : \A p : Scanned(m, p)' <=> Scanned(m, p)
      /\ Limit(c)' = Limit(c) /\ \A m, p : Wanted(c, m, p)' = Wanted(c, m, p)
  BY SameScanned, SameWanted
<1>4. \A m \in Miners \ K : \A p : Served(c, m, p)' <=> Served(c, m, p)
  BY <1>3 DEF Served
<1>5. ASSUME NEW m \in SeqRange(miners) PROVE DoneWell(c, m)'
  <2>1. CASE m \in K
    BY <2>1
  <2>2. CASE m \notin K
    <3>1. m \in Miners \ K
      BY <1>2, <2>2
    <3>2. Queued(m)' <=> Queued(m)
      BY <3>1 DEF Queued
    <3>3. InWork(m)' <=> InWork(m)
      <4>1. ASSUME NEW w \in Threads
            PROVE  Working(w)' /\ job'[w].miner = m <=> Working(w) /\ job[w].miner = m
        <5>1. PICK i, j : i = job[w] /\ j = job'[w]
          OBVIOUS
        <5>. QED  BY <3>1, <5>1
      <4>. QED  BY <4>1 DEF InWork
    <3>4. DoneWell(c, m)
      BY DEF Progress
    <3>5. PICK p : p = IF m \in PushedMiners(c) THEN Limit(c) ELSE frame[c].from
      OBVIOUS
    <3>6. p = IF m \in PushedMiners(c)' THEN Limit(c)' ELSE frame'[c].from
      BY <3>1, <3>5, <1>3
    <3>7. ~Queued(m) /\ ~InWork(m) => Served(c, m, p)
      BY <3>4, <3>5 DEF DoneWell
    <3>8. ~Queued(m)' /\ ~InWork(m)' => Served(c, m, p)'
      BY <3>1, <3>2, <3>3, <3>7, <1>4
    <3>. QED  BY <3>6, <3>8 DEF DoneWell
  <2>. QED  BY <2>1, <2>2
<1>6. ASSUME NEW j \in SeqRange(targs)' PROVE QueuedWell(j)'
  <2>1. j.pout = c /\ j.miner \in Miners
    BY <1>1
  <2>2. CASE j.miner \in K
    BY <2>2
  <2>3. CASE j.miner \notin K
    <3>1. j \in SeqRange(targs)
      BY <2>1, <2>3
    <3>2. QueuedWell(j)
      BY <3>1 DEF Progress
    <3>3. PICK m, p : m = j.miner /\ p = frame[c].from
      OBVIOUS
    <3>4. Served(c, m, p)' <=> Served(c, m, p)
      BY <2>1, <2>3, <3>3, <1>4
    <3>. QED  BY <2>1, <2>3, <3>2, <3>3, <3>4 DEF QueuedWell
  <2>. QED  BY <2>2, <2>3
<1>7. ASSUME NEW w \in Threads, NEW j, j = job'[w], Working(w)'
      PROVE  WorkedWell(w, c, j.miner)'
  <2>1. j.pout = c /\ j.miner \in Miners
    BY <1>1, <1>7
  <2>2. CASE j.miner \in K
    BY <2>2, <1>7
  <2>3. CASE j.miner \notin K
    <3>1. Working(w) /\ job[w] = j /\ Hand(w)' = Hand(w)
      BY <2>1, <2>3, <1>7
    <3>2. PICK m, p : m = j.miner /\ p = MinOf(mstate[m].pos, Limit(c))
      OBVIOUS
    <3>3. m \in Miners \ K /\ mstate'[m] = mstate[m] /\ job'[w].batch = job[w].batch
      BY <2>1, <2>3, <3>1, <3>2, <1>7
    <3>4. WorkedWell(w, c, m)
      BY <3>1, <3>2, <2>1 DEF Progress
    <3>5. p = MinOf(mstate'[m].pos, Limit(c)')
      BY <3>2, <3>3, <1>3
    <3>6. (Scanned(m, p)' <=> Scanned(m, p)) /\ Wanted(c, m, p)' = Wanted(c, m, p)
      BY <3>3, <1>3
    <3>7. Scanned(m, p) /\ Written(c, m) \cup Hand(w) = Wanted(c, m, p)
      BY <3>2, <3>4 DEF WorkedWell
    <3>8. Scanned(m, p)' /\ Written(c, m)' \cup Hand(w)' = Wanted(c, m, p)'
      BY <3>1, <3>3, <3>6, <3>7
    <3>9. /\ mstate'[m].pos + job'[w].batch = frame'[c].from + frame'[c].batch
          /\ frame'[c].from <= mstate'[m].pos
      BY <3>3, <3>4 DEF WorkedWell
    <3>. QED  BY <3>2, <3>5, <3>8, <3>9 DEF WorkedWell
  <2>. QED  BY <2>2, <2>3
<1>8. \A w \in Threads : Working(w)' => WorkedWell(w, job[w].pout, job[w].miner)'
  <2>. SUFFICES ASSUME NEW w \in Threads, Working(w)'
                PROVE  WorkedWell(w, job[w].pout, job[w].miner)'
    OBVIOUS
  <2>1. PICK j, m : j = job'[w] /\ m = j.miner
    OBVIOUS
  <2>2. j.pout = c /\ WorkedWell(w, c, m)'
    BY <2>1, <1>1, <1>7
  <2>. QED  BY <2>1, <2>2 DEF WorkedWell
<1>9. \A d \in Clients : InNext(d)' =>
        InCall(d)' /\ \A m \in SeqRange(miners)' : DoneWell(d, m)'
  BY <1>1, <1>2, <1>5
<1>. QED  BY <1>6, <1>8, <1>9 DEF Progress

\* Between calls all that counts is where the miners' scans have come to.
LEMMA ProgressOutside ==
  ASSUME IInv', Attaching', Ending', InTexts', \A c \in Clients : ~InNext(c)',
         Readable' => \A m \in SeqRange(miners)' : Scanned(m, spos[stream])'
  PROVE  Progress'
<1>1. \A j \in SeqRange(targs)' : FALSE
  BY DueInNext
<1>2. \A w \in Threads : ~Working(w)'
  BY DueInNext
<1>. QED  BY <1>1, <1>2 DEF Progress

\* A step that moves no miner and no job keeps it.
LEMMA ProgressKept ==
  ASSUME IInv, IInv', Progress, Attaching', Ending', InTexts',
         UNCHANGED <<stream, origin, miners, mstate, targs>>,
         \A c \in Clients : InNext(c)' <=> InNext(c),
         \A c \in Clients : InNext(c) =>
           /\ out'[c] = out[c] /\ frame'[c].from = frame[c].from
           /\ frame'[c].batch = frame[c].batch /\ PushedMiners(c)' = PushedMiners(c)
           /\ InCall(c)' /\ \A o : Enclosed(o)' <=> Enclosed(o),
         (\A c \in Clients : ~InNext(c)) => spos' = spos,
         \A w \in Threads :
           /\ Working(w)' <=> Working(w)
           /\ Working(w) => job'[w] = job[w] /\ Hand(w)' = Hand(w)
  PROVE  Progress'
<1>1. CASE \A c \in Clients : ~InNext(c)
  <2>1. Readable' <=> Readable
    BY DEF Readable
  <2>2. ASSUME NEW m, Scanned(m, spos[stream]) PROVE Scanned(m, spos[stream])'
    <3>1. PICK p : p = spos[stream]
      OBVIOUS
    <3>2. p = spos'[stream'] /\ Scanned(m, p)
      BY <1>1, <2>2, <3>1
    <3>3. Scanned(m, p)'
      BY <3>2, SameScanned
    <3>. QED  BY <3>2, <3>3 DEF Scanned
  <2>3. Readable => \A m \in SeqRange(miners) : Scanned(m, spos[stream])
    BY <1>1 DEF Progress
  <2>4. SeqRange(miners)' = SeqRange(miners)
    OBVIOUS
  <2>. QED  BY <1>1, <2>1, <2>2, <2>3, <2>4, ProgressOutside
<1>2. CASE \E c \in Clients : InNext(c)
  <2>1. PICK c \in Clients : InNext(c)
    BY <1>2
  <2>2. PICK K : K = {}
    OBVIOUS
  <2>3. \A m \in Miners \ K :
           /\ mstate'[m] = mstate[m] /\ Written(c, m)' = Written(c, m)
           /\ m \in PushedMiners(c)' <=> m \in PushedMiners(c)
    BY <2>1 DEF Written
  <2>4. \A w \in Threads : \A j : j.miner \in Miners \ K =>
           /\ Working(w)' /\ job'[w] = j <=> Working(w) /\ job[w] = j
           /\ Working(w) /\ job[w] = j => Hand(w)' = Hand(w)
    OBVIOUS
  <2>5. /\ \A j \in SeqRange(targs)' : j.miner \in K => QueuedWell(j)'
        /\ \A w \in Threads : \A m \in K :
             Working(w)' /\ job'[w].miner = m => WorkedWell(w, c, m)'
        /\ \A m \in K : m \in SeqRange(miners) => DoneWell(c, m)'
    BY <2>2
  <2>6. \A j : j.miner \in Miners \ K => (j \in SeqRange(targs)' <=> j \in SeqRange(targs))
    OBVIOUS
  <2>7. /\ InNext(c)' /\ InCall(c)' /\ \A o : Enclosed(o)' <=> Enclosed(o)
        /\ frame'[c].from = frame[c].from /\ frame'[c].batch = frame[c].batch
    BY <2>1
  <2>. QED  BY <2>1, <2>3, <2>4, <2>5, <2>6, <2>7, ProgressElsewhere
<1>. QED  BY <1>1, <1>2

\* The callers and what they have configured stay as they are.
LEMMA CallerStays ==
  ASSUME UNCHANGED callerVars
  PROVE  /\ UNCHANGED <<stream, origin, miners, frame, cpc, spos, flags, last_max, received>>
         /\ \A c \in Clients : /\ InNext(c)' <=> InNext(c)
                               /\ PushedMiners(c)' = PushedMiners(c)
                               /\ InCall(c)' <=> InCall(c)
         /\ \A o : Enclosed(o)' <=> Enclosed(o)
<1>1. /\ UNCHANGED <<stream, origin, miners, frame, cpc, spos, flags, last_max, received>>
  BY DEF callerVars, confVars, callVars, histVars
<1>2. ASSUME NEW c \in Clients
      PROVE  /\ InNext(c)' <=> InNext(c)
             /\ PushedMiners(c)' = PushedMiners(c)
             /\ InCall(c)' <=> InCall(c)
  <2>1. Pushed(c)' = Pushed(c)
    BY <1>1 DEF Pushed
  <2>. QED  BY <1>1, <2>1 DEF InNext, PushedMiners, InCall, InFlight, Limit
<1>. QED  BY <1>1, <1>2 DEF Enclosed

\* A step of a thread concerns one miner.
LEMMA ThreadConcerns ==
  ASSUME IInv, IInv', Progress, Attaching', Ending', InTexts',
         NEW c \in Clients, InNext(c), NEW k \in Miners, k \in PushedMiners(c),
         NEW w \in Threads, UNCHANGED callerVars,
         Working(w) => job[w].miner = k,
         \A v \in Threads : v # w =>
           /\ wpc'[v] = wpc[v] /\ job'[v] = job[v] /\ cur'[v] = cur[v]
           /\ Working(v) => job[v].miner # k,
         \A j : j.miner # k => (j \in SeqRange(targs)' <=> j \in SeqRange(targs)),
         \A j \in SeqRange(targs)' : j.miner # k,
         \A m \in Miners : m # k => mstate'[m] = mstate[m] /\ Written(c, m)' = Written(c, m),
         Working(w)' => job'[w].miner = k /\ WorkedWell(w, c, k)',
         ~Working(w)' => Served(c, k, Limit(c))'
  PROVE  Progress'
<1>1. /\ UNCHANGED <<stream, origin, miners, frame, cpc, spos, flags, last_max>>
      /\ InNext(c)' /\ PushedMiners(c)' = PushedMiners(c) /\ InCall(c)'
      /\ \A o : Enclosed(o)' <=> Enclosed(o)
  <2>1. InCall(c)
    BY DEF Progress
  <2>2. UNCHANGED <<stream, origin, miners, frame, cpc, spos, flags, last_max>>
    BY CallerStays
  <2>3. InNext(c)' /\ PushedMiners(c)' = PushedMiners(c) /\ InCall(c)'
    BY <2>1, CallerStays
  <2>4. \A o : Enclosed(o)' <=> Enclosed(o)
    BY CallerStays
  <2>. QED  BY <2>2, <2>3, <2>4
<1>2. PICK K : K = {k}
  OBVIOUS
<1>3. \A m \in Miners \ K :
        /\ mstate'[m] = mstate[m] /\ Written(c, m)' = Written(c, m)
        /\ m \in PushedMiners(c)' <=> m \in PushedMiners(c)
  BY <1>1, <1>2
<1>4. \A j : j.miner \in Miners \ K => (j \in SeqRange(targs)' <=> j \in SeqRange(targs))
  BY <1>2
<1>5. ASSUME NEW v \in Threads, NEW j, j.miner \in Miners \ K
      PROVE  /\ Working(v)' /\ job'[v] = j <=> Working(v) /\ job[v] = j
             /\ Working(v) /\ job[v] = j => Hand(v)' = Hand(v)
  <2>1. j.miner # k
    BY <1>2, <1>5
  <2>2. CASE v = w
    <3>1. ~ (Working(w) /\ job[w] = j)
      BY <2>1
    <3>2. ~ (Working(w)' /\ job'[w] = j)
      BY <2>1
    <3>. QED  BY <2>2, <3>1, <3>2
  <2>3. CASE v # w
    <3>1. wpc'[v] = wpc[v] /\ job'[v] = job[v] /\ cur'[v] = cur[v]
      BY <2>3
    <3>. QED  BY <3>1, <1>1 DEF Working, Hand
  <2>. QED  BY <2>2, <2>3
<1>6. \A j \in SeqRange(targs)' : j.miner \in K => QueuedWell(j)'
  BY <1>2
<1>7. ASSUME NEW v \in Threads, NEW m \in K, Working(v)' /\ job'[v].miner = m
      PROVE  WorkedWell(v, c, m)'
  <2>1. v = w
    <3>1. ASSUME v # w PROVE FALSE
      <4>1. wpc'[v] = wpc[v] /\ job'[v] = job[v] /\ (Working(v) => job[v].miner # k)
        BY <3>1
      <4>. QED  BY <4>1, <1>2, <1>7 DEF Working
    <3>. QED  BY <3>1
  <2>. QED  BY <2>1, <1>2, <1>7
<1>8. DoneWell(c, k)'
  <2>1. CASE Working(w)'
    <3>1. InWork(k)'
      BY <2>1 DEF InWork
    <3>. QED  BY <3>1 DEF DoneWell
  <2>2. CASE ~Working(w)'
    <3>1. k \in PushedMiners(c)'
      BY <1>1
    <3>. QED  BY <2>2, <3>1 DEF DoneWell
  <2>. QED  BY <2>1, <2>2
<1>9. \A m \in K : m \in SeqRange(miners) => DoneWell(c, m)'
  BY <1>2, <1>8
<1>. QED  BY <1>1, <1>3, <1>4, <1>5, <1>6, <1>7, <1>9, ProgressElsewhere

-----------------------------------------------------------------------------
(* The steps of the threads *)

\* What a call of next has to go by
LEMMA CallFacts ==
  ASSUME IInv, Progress, NEW c \in Clients, InNext(c)
  PROVE  /\ stream \in Texts /\ Readable /\ Size[stream] \in Nat
         /\ origin \in Nat /\ frame[c].from \in Nat /\ frame[c].batch \in Nat
         /\ Limit(c) \in Nat /\ origin <= frame[c].from
         /\ frame[c].from <= Limit(c) /\ Limit(c) <= Size[stream]
         /\ \A m \in SeqRange(miners) :
              m \in Miners /\ mstate[m] \in Marks /\ mstate[m].text = stream
<1>1. stream \in Texts \ Unreadable /\ Size[stream] \in Nat
  BY ConstantsAssumption DEF IInv, Attached
<1>2. /\ frame \in [Clients -> [text : Texts \cup {NoText}, batch : Nat, from : Nat,
                                m : Nat \ {0}, cap : Nat]]
      /\ origin \in Nat /\ miners \in Seq(Miners) /\ mstate \in [Miners -> Marks]
  BY DEF IInv, TypeOK, Marks
<1>3. frame[c].from \in Nat /\ frame[c].batch \in Nat
  BY <1>2
<1>4. origin <= frame[c].from /\ frame[c].from <= Size[stream]
  BY DEF Progress, InCall
<1>5. Limit(c) \in Nat /\ frame[c].from <= Limit(c) /\ Limit(c) <= Size[stream]
  BY <1>1, <1>3, <1>4 DEF Limit, MinOf
<1>6. \A m \in SeqRange(miners) :
        m \in Miners /\ mstate[m] \in Marks /\ mstate[m].text = stream
  <2>1. \A i \in DOMAIN miners : miners[i] \in Miners /\ mstate[miners[i]].text = stream
    BY <1>1, <1>2 DEF IInv, Attached
  <2>. QED  BY <1>2, <2>1 DEF SeqRange
<1>. QED  BY <1>1, <1>2, <1>3, <1>4, <1>5, <1>6 DEF Readable

\* What a thread at work has to go by
LEMMA WorkerFacts ==
  ASSUME IInv, Progress, NEW w \in Threads, Working(w)
  PROVE  LET c == job[w].pout
             k == job[w].miner
         IN /\ job[w] \in Job /\ job[w].batch \in Int
            /\ c \in Clients /\ InNext(c) /\ k \in Miners /\ k \in PushedMiners(c)
            /\ k \in SeqRange(miners)
            /\ \A v \in Threads : v # w /\ Working(v) => job[v].miner # k
            /\ \A j \in SeqRange(targs) : j.miner # k
            /\ WorkedWell(w, c, k)
<1>1. job[w] \in Job /\ Due(job[w])
  BY DEF IInv, Jobs
<1>2. job[w].batch \in Int /\ job[w].pout \in Clients /\ job[w].miner \in Miners
  BY <1>1 DEF Job
<1>3. InNext(job[w].pout) /\ job[w].miner \in PushedMiners(job[w].pout)
  BY <1>1 DEF Due
<1>4. job[w].miner \in SeqRange(miners)
  BY <1>2, <1>3, OneCaller
<1>5. \A v \in Threads : v # w /\ Working(v) => job[v].miner # job[w].miner
  BY DEF IInv, Jobs, OneThreadPerMiner
<1>6. \A j \in SeqRange(targs) : j.miner # job[w].miner
  BY DEF IInv, Jobs, OneThreadPerMiner, SeqRange
<1>7. WorkedWell(w, job[w].pout, job[w].miner)
  BY DEF Progress
<1>. QED  BY <1>1, <1>2, <1>3, <1>4, <1>5, <1>6, <1>7

\* A thread that wakes, ends, locks or counts moves no miner.
LEMMA QuietProgress ==
  ASSUME IInv, IInv', Progress, Attaching', Ending', InTexts', NEW w \in Threads,
         WaitTargs(w) \/ Quit(w) \/ GoOn(w) \/ LockPout(w) \/ Bump(w)
  PROVE  Progress'
<1>1. UNCHANGED callerVars /\ UNCHANGED <<mstate, targs, job, cur, out>>
  BY DEF WaitTargs, Quit, GoOn, LockPout, Bump, poolVars, bufVars
<1>2. wpc \in [Threads -> {"wait", "check", "pop", "scan", "lock", "store", "bump", "exited"}]
  BY DEF IInv, TypeOK
<1>3. \A v \in Threads : /\ Working(v)' <=> Working(v)
                         /\ wpc'[v] \in {"lock", "store"} <=> wpc[v] \in {"lock", "store"}
  BY <1>2 DEF Working, WaitTargs, Quit, GoOn, LockPout, Bump, Step
<1>4. /\ UNCHANGED <<stream, origin, miners, frame, spos>>
      /\ \A c \in Clients : InNext(c)' <=> InNext(c)
  BY <1>1, CallerStays
<1>5. \A o : Enclosed(o)' <=> Enclosed(o)
  BY <1>1, CallerStays
<1>6. \A v \in Threads : Working(v) => job'[v] = job[v] /\ Hand(v)' = Hand(v)
  BY <1>1, <1>3, <1>5 DEF Hand
<1>7. ASSUME NEW c \in Clients, InNext(c)
      PROVE  PushedMiners(c)' = PushedMiners(c) /\ InCall(c)'
  <2>1. InCall(c)
    BY <1>7 DEF Progress
  <2>. QED  BY <1>1, <2>1, CallerStays
<1>. QED  BY <1>1, <1>3, <1>4, <1>5, <1>6, <1>7, ProgressKept

\* A thread that scans has come to where its miner stands, short of the end of
\* the batch and of the text.
LEMMA ScanningFacts ==
  ASSUME IInv, Progress, NEW w \in Threads, wpc[w] = "scan",
         NEW c, c = job[w].pout, NEW k, k = job[w].miner, NEW p, p = mstate[k].pos
  PROVE  /\ p \in Nat /\ origin <= p /\ frame[c].from <= p /\ State(w) = mstate[k]
         /\ p + job[w].batch = frame[c].from + frame[c].batch
         /\ Scanning(w) => /\ p < Limit(c) /\ p < Size[stream]
                           /\ Agree(mstate[k], Known(k, stream, origin, p), Size[stream])
                           /\ Written(c, k) = Wanted(c, k, p)
         /\ ~Scanning(w) => Served(c, k, Limit(c))
<1>0. Working(w)
  BY DEF Working
<1>1. /\ job[w].batch \in Int /\ c \in Clients /\ InNext(c) /\ k \in SeqRange(miners)
      /\ WorkedWell(w, c, k)
  BY <1>0, WorkerFacts
<1>2. /\ Size[stream] \in Nat /\ origin \in Nat /\ frame[c].from \in Nat
      /\ frame[c].batch \in Nat /\ origin <= frame[c].from /\ Limit(c) \in Nat
      /\ mstate[k] \in Marks /\ mstate[k].text = stream
  BY <1>1, CallFacts
<1>3. p \in Nat
  BY <1>2 DEF Marks
<1>4. /\ p + job[w].batch = frame[c].from + frame[c].batch /\ frame[c].from <= p
      /\ Scanned(k, MinOf(p, Limit(c)))
      /\ Written(c, k) \cup Hand(w) = Wanted(c, k, MinOf(p, Limit(c)))
  BY <1>1 DEF WorkedWell
<1>5. Hand(w) = {}
  BY DEF Hand
<1>6. Limit(c) = MinOf(frame[c].from + frame[c].batch, Size[stream])
  BY DEF Limit
<1>7. State(w) = mstate[k]
  BY DEF State
<1>a. /\ p < Size[stream] /\ job[w].batch > 0 => p < Limit(c) /\ MinOf(p, Limit(c)) = p
      /\ p >= Size[stream] \/ job[w].batch <= 0 => MinOf(p, Limit(c)) = Limit(c)
  <2>1. /\ job[w].batch \in Int /\ frame[c].from \in Nat /\ frame[c].batch \in Nat
        /\ Limit(c) \in Nat /\ Size[stream] \in Nat
    BY <1>1, <1>2
  <2>2. p + job[w].batch = frame[c].from + frame[c].batch
    BY <1>4
  <2>. QED  BY SMT, <2>1, <2>2, <1>3, <1>6 DEF MinOf
<1>8. ASSUME Scanning(w)
      PROVE  /\ p < Limit(c) /\ p < Size[stream]
             /\ Agree(mstate[k], Known(k, stream, origin, p), Size[stream])
             /\ Written(c, k) = Wanted(c, k, p)
  <2>1. p < Size[stream] /\ job[w].batch > 0
    BY <1>2, <1>7, <1>8 DEF Scanning
  <2>2. p < Limit(c) /\ MinOf(p, Limit(c)) = p
    BY <2>1, <1>a
  <2>. QED  BY <1>4, <1>5, <2>1, <2>2 DEF Scanned, Known
<1>9. ASSUME ~Scanning(w) PROVE Served(c, k, Limit(c))
  <2>1. p >= Size[stream] \/ job[w].batch <= 0
    BY <1>1, <1>2, <1>3, <1>7, <1>9 DEF Scanning
  <2>2. MinOf(p, Limit(c)) = Limit(c)
    BY <2>1, <1>a
  <2>. QED  BY <1>4, <1>5, <2>2 DEF Served
<1>10. origin <= p
  BY <1>2, <1>3, <1>4
<1>. QED  BY <1>3, <1>4, <1>7, <1>8, <1>9, <1>10

\* A miner that has come to y is in the middle of its work there.
LEMMA WorksOn ==
  ASSUME IInv, Progress, NEW w \in Threads, wpc[w] = "scan", Scanning(w),
         NEW c, c = job[w].pout, NEW k, k = job[w].miner, NEW p, p = mstate[k].pos,
         NEW y, mstate'[k] = y, NEW q, q = MinOf(y.pos, Limit(c)), y.pos \in Nat, p < y.pos,
         UNCHANGED callerVars, UNCHANGED out,
         y.pos + job'[w].batch = p + job[w].batch, origin <= q,
         Agree(y, Known(k, stream, origin, q), Size[stream]),
         NEW new, Hand(w)' = {o \in new : ~Enclosed(o)},
         M!HitsOf(k, stream, origin, frame[c].from, q) =
           M!HitsOf(k, stream, origin, frame[c].from, p) \cup new
  PROVE  WorkedWell(w, c, k)'
<1>1. /\ p \in Nat /\ frame[c].from <= p /\ Written(c, k) = Wanted(c, k, p)
      /\ p + job[w].batch = frame[c].from + frame[c].batch
  BY ScanningFacts
<1>2. c \in Clients /\ InNext(c)
  BY WorkerFacts DEF Working
<1>2a. frame[c].from \in Nat
  BY <1>2, CallFacts
<1>3. UNCHANGED <<stream, origin, frame>> /\ \A o : Enclosed(o)' <=> Enclosed(o)
  BY CallerStays
<1>4. Limit(c)' = Limit(c) /\ \A m, n : Wanted(c, m, n)' = Wanted(c, m, n)
  BY <1>2, <1>3, SameWanted
<1>5. Wanted(c, k, q) = Written(c, k) \cup Hand(w)'
  BY <1>1 DEF Wanted
<1>6. Written(c, k)' = Written(c, k)
  BY DEF Written
<1>7. Scanned(k, q)'
  BY <1>3 DEF Scanned, Known
<1>8. q = MinOf(mstate'[k].pos, Limit(c)')
  BY <1>4
<1>9. /\ mstate'[k].pos + job'[w].batch = frame'[c].from + frame'[c].batch
      /\ frame'[c].from <= mstate'[k].pos
  BY <1>1, <1>2a, <1>3
<1>10. Written(c, k)' \cup Hand(w)' = Wanted(c, k, q)'
  BY <1>4, <1>5, <1>6
<1>. QED  BY <1>7, <1>8, <1>9, <1>10 DEF WorkedWell

LEMMA ScanProgress ==
  ASSUME IInv, IInv', Progress, Attaching', Ending', InTexts', NEW w \in Threads,
         SkipPosition(w) \/ RunMiner(w)
  PROVE  Progress'
<1>0. wpc[w] = "scan" /\ Scanning(w) /\ Working(w)
  BY DEF SkipPosition, RunMiner, Scanning, Working
<1>1. PICK c, k, p, x : c = job[w].pout /\ k = job[w].miner /\ p = mstate[k].pos /\ x = mstate[k]
  OBVIOUS
<1>2. /\ job[w] \in Job /\ job[w].batch \in Int
      /\ c \in Clients /\ InNext(c) /\ k \in Miners /\ k \in PushedMiners(c)
      /\ k \in SeqRange(miners)
      /\ \A v \in Threads : v # w /\ Working(v) => job[v].miner # k
      /\ \A j \in SeqRange(targs) : j.miner # k
  BY <1>0, <1>1, WorkerFacts
<1>3. /\ stream \in Texts /\ Size[stream] \in Nat /\ origin \in Nat
      /\ frame[c].from \in Nat /\ frame[c].batch \in Nat
      /\ Limit(c) \in Nat /\ Limit(c) <= Size[stream]
      /\ x \in Marks /\ x.text = stream
  BY <1>1, <1>2, CallFacts
<1>4. /\ p \in Nat /\ origin <= p /\ frame[c].from <= p /\ State(w) = x
      /\ p < Limit(c) /\ p < Size[stream] /\ Agree(x, Known(k, stream, origin, p), Size[stream])
  BY <1>0, <1>1, ScanningFacts
<1>5. UNCHANGED callerVars /\ UNCHANGED <<out, targs>>
  BY DEF SkipPosition, RunMiner, poolVars, bufVars
<1>6. /\ mstate \in [Miners -> Marks] /\ job \in [Threads -> Job \cup {NoJob}]
      /\ wpc \in [Threads -> {"wait", "check", "pop", "scan", "lock", "store", "bump", "exited"}]
      /\ cur \in [Threads -> Occurrence \cup {NoOccurrence}]
  BY DEF IInv, TypeOK, Marks
<1>7. /\ \A v \in Threads : v # w => wpc'[v] = wpc[v] /\ job'[v] = job[v] /\ cur'[v] = cur[v]
      /\ \A m \in Miners : m # k => mstate'[m] = mstate[m]
      /\ job'[w].miner = k /\ wpc'[w] \in {"scan", "lock"}
  <2>1. CASE SkipPosition(w)
    <3>1. /\ mstate' = [mstate EXCEPT ![k].pos = @ + 1] /\ UNCHANGED <<wpc, cur>>
          /\ job' = [job EXCEPT ![w].batch = @ - 1]
      BY <1>1, <2>1 DEF SkipPosition
    <3>. QED  BY <1>0, <1>1, <1>2, <1>6, <3>1
  <2>2. CASE RunMiner(w)
    <3>1. \E y, b, o : /\ mstate' = [mstate EXCEPT ![k] = y]
                       /\ job' = [job EXCEPT ![w].batch = b]
                       /\ \/ UNCHANGED <<wpc, cur>>
                          \/ wpc' = [wpc EXCEPT ![w] = "lock"] /\ cur' = [cur EXCEPT ![w] = o]
      BY <1>1, <2>2 DEF RunMiner
    <3>. QED  BY <1>0, <1>1, <1>2, <1>6, <3>1
  <2>. QED  BY <2>1, <2>2
<1>8. Working(w)'
  BY <1>7 DEF Working
<1>9. WorkedWell(w, c, k)'
  <2>1. CASE SkipPosition(w)
    <3>1. PICK y : y = [x EXCEPT !.pos = p + 1]
      OBVIOUS
    <3>2. /\ y.pos = p + 1 /\ y.end_last = x.end_last /\ y.pos_last = x.pos_last
      BY <3>1 DEF Marks
    <3>3. mstate' = [mstate EXCEPT ![k] = y] /\ job'[w].batch = job[w].batch - 1
          /\ wpc'[w] = "scan" /\ ~MayRun(x, p)
      BY <1>0, <1>1, <1>2, <1>4, <1>6, <2>1, <3>1 DEF SkipPosition
    <3>4. mstate'[k] = y /\ MinOf(y.pos, Limit(c)) = p + 1
      BY <1>2, <1>3, <1>4, <1>6, <3>2, <3>3 DEF MinOf
    <3>5. /\ Agree(y, Known(k, stream, origin, p + 1), Size[stream])
          /\ M!HitsOf(k, stream, origin, frame[c].from, p + 1) =
               M!HitsOf(k, stream, origin, frame[c].from, p)
      BY <1>2, <1>3, <1>4, <3>2, <3>3, AgreeSkips
    <3>6. PICK q, new : q = p + 1 /\ new = {}
      OBVIOUS
    <3>7. Hand(w)' = {o \in new : ~Enclosed(o)}
      BY <3>3, <3>6 DEF Hand
    <3>8. y.pos \in Nat /\ p < y.pos /\ origin <= q
          /\ y.pos + job'[w].batch = p + job[w].batch
      BY <1>2, <1>3, <1>4, <3>2, <3>3, <3>6
    <3>9. M!HitsOf(k, stream, origin, frame[c].from, q) =
            M!HitsOf(k, stream, origin, frame[c].from, p) \cup new
      BY <3>5, <3>6
    <3>10. q = MinOf(y.pos, Limit(c)) /\ Agree(y, Known(k, stream, origin, q), Size[stream])
      BY <3>4, <3>5, <3>6
    <3>11. mstate'[k] = y /\ UNCHANGED callerVars /\ UNCHANGED out
      BY <1>5, <3>4
    <3>. QED  BY ZenonT(30), <1>0, <1>1, <3>7, <3>8, <3>9, <3>10, <3>11, WorksOn
  <2>2. CASE RunMiner(w)
    <3>1. PICK r : r = Matcher[k][stream][p]
      OBVIOUS
    <3>2. PICK y : y = AfterRun(x, r)
      OBVIOUS
    <3>3. /\ r.start \in Nat /\ r.end \in Nat /\ r.to \in Nat
      BY <1>2, <1>3, <1>4, <3>1, MatcherTypes
    <3>4. /\ MayRun(x, p) /\ mstate' = [mstate EXCEPT ![k] = y]
          /\ job' = [job EXCEPT ![w].batch = @ - (y.pos - p)]
          /\ IF Found(x, r)
             THEN /\ cur' = [cur EXCEPT ![w] = [miner |-> k, start |-> r.start, end |-> r.end]]
                  /\ wpc' = [wpc EXCEPT ![w] = "lock"]
             ELSE UNCHANGED <<cur, wpc>>
      BY <1>1, <1>3, <1>4, <2>2, <3>1, <3>2 DEF RunMiner
    <3>5. mstate'[k] = y /\ job'[w].batch = job[w].batch - (y.pos - p)
      BY <1>2, <1>6, <3>4
    <3>6. y.pos = MaxOf(r.to, p + 1)
      BY <1>1, <3>2 DEF AfterRun, Marks
    <3>7. y.pos \in Nat /\ p < y.pos
      BY <1>4, <3>3, <3>6 DEF MaxOf
    <3>8. PICK q, new :
            /\ q = MinOf(y.pos, Limit(c))
            /\ new = IF Found(x, r)
                     THEN {[miner |-> k, start |-> r.start, end |-> r.end]} ELSE {}
      OBVIOUS
    <3>9. /\ q \in Nat /\ p + 1 <= q
          /\ Agree(y, Known(k, stream, origin, q), Size[stream])
          /\ M!HitsOf(k, stream, origin, frame[c].from, q) =
               M!HitsOf(k, stream, origin, frame[c].from, p) \cup new
      <4>1. PICK lo, lim : lo = frame[c].from /\ lim = Limit(c)
        OBVIOUS
      <4>2. /\ lo \in Nat /\ lo <= p /\ lim \in Nat /\ p < lim /\ lim <= Size[stream]
            /\ x.pos = p /\ q = MinOf(y.pos, lim) /\ MayRun(x, p)
        BY <1>1, <1>3, <1>4, <3>4, <3>8, <4>1
      <4>3. /\ q \in Nat /\ p + 1 <= q
            /\ Agree(y, Known(k, stream, origin, q), Size[stream])
            /\ M!HitsOf(k, stream, origin, lo, q) =
                 M!HitsOf(k, stream, origin, lo, p) \cup
                   IF Found(x, r) THEN {[miner |-> k, start |-> r.start, end |-> r.end]} ELSE {}
        BY <1>2, <1>3, <1>4, <3>1, <3>2, <4>2, AgreeRuns
      <4>. QED  BY <3>8, <4>1, <4>3
    <3>10. Hand(w)' = {o \in new : ~Enclosed(o)}
      <4>0. \A o : Enclosed(o)' <=> Enclosed(o)
        BY <1>5, CallerStays
      <4>1. CASE Found(x, r)
        <5>1. wpc'[w] = "lock" /\ new = {cur'[w]}
          BY <1>6, <3>4, <3>8, <4>1
        <5>. QED  BY <4>0, <5>1 DEF Hand
      <4>2. CASE ~Found(x, r)
        <5>1. wpc'[w] = "scan" /\ new = {}
          BY <1>0, <3>4, <3>8, <4>2
        <5>. QED  BY <5>1 DEF Hand
      <4>. QED  BY <4>1, <4>2
    <3>11. y.pos + job'[w].batch = p + job[w].batch /\ origin <= q
      BY <1>2, <1>3, <1>4, <3>5, <3>7, <3>9
    <3>12. /\ mstate'[k] = y /\ UNCHANGED callerVars /\ UNCHANGED out
           /\ q = MinOf(y.pos, Limit(c)) /\ Agree(y, Known(k, stream, origin, q), Size[stream])
      BY <1>5, <3>5, <3>8, <3>9
    <3>13. M!HitsOf(k, stream, origin, frame[c].from, q) =
             M!HitsOf(k, stream, origin, frame[c].from, p) \cup new
      BY <3>9
    <3>. QED  BY <1>0, <1>1, <3>7, <3>10, <3>11, <3>12, <3>13, WorksOn
  <2>. QED  BY <2>1, <2>2
<1>10. \A m \in Miners : m # k => mstate'[m] = mstate[m] /\ Written(c, m)' = Written(c, m)
  BY <1>5, <1>7 DEF Written
<1>11. \A v \in Threads : v # w =>
           /\ wpc'[v] = wpc[v] /\ job'[v] = job[v] /\ cur'[v] = cur[v]
           /\ Working(v) => job[v].miner # k
  BY <1>2, <1>7
<1>12. SeqRange(targs)' = SeqRange(targs)
  BY <1>5
<1>. QED  BY <1>1, <1>2, <1>5, <1>7, <1>8, <1>9, <1>10, <1>11, <1>12, ThreadConcerns

\* Whether an occurrence is in hand or in the array makes no difference.
LEMMA HandsOver ==
  ASSUME IInv, Progress, NEW w \in Threads, Working(w), NEW c, c = job[w].pout,
         NEW k, k = job[w].miner, UNCHANGED callerVars, UNCHANGED <<mstate, job>>,
         Written(c, k)' \cup Hand(w)' = Written(c, k) \cup Hand(w)
  PROVE  WorkedWell(w, c, k)'
<1>1. c \in Clients /\ WorkedWell(w, c, k)
  BY WorkerFacts
<1>2. UNCHANGED <<stream, origin, frame>> /\ \A o : Enclosed(o)' <=> Enclosed(o)
  BY CallerStays
<1>3. Limit(c)' = Limit(c) /\ \A m, n : Wanted(c, m, n)' = Wanted(c, m, n)
  BY <1>1, <1>2, SameWanted
<1>4. PICK p : p = MinOf(mstate[k].pos, Limit(c))
  OBVIOUS
<1>5. p = MinOf(mstate'[k].pos, Limit(c)')
  BY <1>3, <1>4
<1>6. Scanned(k, p) /\ Written(c, k)' \cup Hand(w)' = Wanted(c, k, p)
  BY <1>1, <1>4 DEF WorkedWell
<1>7. Scanned(k, p)' /\ Wanted(c, k, p)' = Wanted(c, k, p)
  BY <1>2, <1>3, <1>6, SameScanned
<1>8. /\ mstate'[k].pos + job'[w].batch = frame'[c].from + frame'[c].batch
      /\ frame'[c].from <= mstate'[k].pos
  BY <1>1, <1>2 DEF WorkedWell
<1>. QED  BY <1>5, <1>6, <1>7, <1>8 DEF WorkedWell

LEMMA StoreProgress ==
  ASSUME IInv, IInv', Spent, Progress, Attaching', Ending', InTexts', NEW w \in Threads,
         DropEnclosed(w) \/ Store(w)
  PROVE  Progress'
<1>0. wpc[w] = "store" /\ Working(w)
  BY DEF DropEnclosed, Store, Step, Working
<1>1. PICK c, k, o : c = job[w].pout /\ k = job[w].miner /\ o = cur[w]
  OBVIOUS
<1>2. /\ c \in Clients /\ InNext(c) /\ k \in Miners /\ k \in PushedMiners(c)
      /\ \A v \in Threads : v # w /\ Working(v) => job[v].miner # k
      /\ \A j \in SeqRange(targs) : j.miner # k
  BY <1>0, <1>1, WorkerFacts
<1>3. o.miner = k
  BY <1>0, <1>1 DEF Spent
<1>4. UNCHANGED callerVars /\ UNCHANGED <<mstate, job, targs>>
  BY DEF DropEnclosed, Store, poolVars
<1>5. /\ wpc \in [Threads -> {"wait", "check", "pop", "scan", "lock", "store", "bump", "exited"}]
      /\ cur \in [Threads -> Occurrence \cup {NoOccurrence}]
      /\ out \in [Clients -> Seq(Occurrence)]
  BY DEF IInv, TypeOK
<1>6. /\ \A v \in Threads : v # w => wpc'[v] = wpc[v] /\ job'[v] = job[v] /\ cur'[v] = cur[v]
      /\ wpc'[w] \in {"scan", "bump"}
  BY <1>4, <1>5 DEF DropEnclosed, Store, Step
<1>7. Working(w)' /\ Hand(w)' = {}
  BY <1>6 DEF Working, Hand
<1>8. Hand(w) = {x \in {o} : ~Enclosed(x)}
  BY <1>0, <1>1 DEF Hand
<1>9. /\ \A m \in Miners : m # k => Written(c, m)' = Written(c, m)
      /\ Written(c, k)' = Written(c, k) \cup Hand(w)
  <2>1. CASE DropEnclosed(w)
    <3>1. out' = out /\ Hand(w) = {}
      BY <1>1, <1>8, <2>1 DEF DropEnclosed
    <3>. QED  BY <3>1 DEF Written
  <2>2. CASE Store(w)
    <3>1. out'[c] = Append(out[c], o) /\ out[c] \in Seq(Occurrence) /\ o \in Occurrence
      BY <1>1, <1>2, <1>5, <2>2, StoreAppends
    <3>2. Hand(w) = {o}
      BY <1>1, <1>8, <2>2 DEF Store
    <3>3. SeqRange(out[c])' = SeqRange(out[c]) \cup {o}
      <4>1. PICK s, t : s = out[c] /\ t = out'[c]
        OBVIOUS
      <4>2. t = Append(s, o) /\ s \in Seq(Occurrence)
        BY <3>1, <4>1
      <4>3. SeqRange(t) = SeqRange(s) \cup {o}
        BY <3>1, <4>2 DEF SeqRange
      <4>. QED  BY <4>1, <4>3 DEF SeqRange
    <3>4. ASSUME NEW m PROVE Written(c, m)' = Written(c, m) \cup {x \in {o} : x.miner = m}
      BY <3>3 DEF Written
    <3>5. \A m : m # k => {x \in {o} : x.miner = m} = {}
      BY <1>3
    <3>6. {x \in {o} : x.miner = k} = {o}
      BY <1>3
    <3>. QED  BY <3>2, <3>4, <3>5, <3>6
  <2>. QED  BY <2>1, <2>2
<1>10. Written(c, k)' \cup Hand(w)' = Written(c, k) \cup Hand(w)
  BY <1>7, <1>9
<1>11. WorkedWell(w, c, k)'
  BY <1>0, <1>1, <1>4, <1>10, HandsOver
<1>12. SeqRange(targs)' = SeqRange(targs)
  BY <1>4
<1>13. \A m \in Miners : m # k => mstate'[m] = mstate[m] /\ Written(c, m)' = Written(c, m)
  BY <1>4, <1>9
<1>14. /\ \A v \in Threads : v # w => /\ wpc'[v] = wpc[v] /\ job'[v] = job[v] /\ cur'[v] = cur[v]
                                      /\ Working(v) => job[v].miner # k
       /\ job[w].miner = k /\ job'[w].miner = k /\ \A j \in SeqRange(targs)' : j.miner # k
  BY <1>1, <1>2, <1>4, <1>6, <1>12
<1>. QED  BY <1>2, <1>4, <1>7, <1>11, <1>12, <1>13, <1>14, ThreadConcerns

LEMMA PostProgress ==
  ASSUME IInv, IInv', Progress, Attaching', Ending', InTexts', NEW w \in Threads, PostMain(w)
  PROVE  Progress'
<1>0. wpc[w] = "scan" /\ Working(w) /\ ~Scanning(w)
  <2>1. wpc[w] = "scan" /\ (State(w).pos >= Size[State(w).text] \/ job[w].batch <= 0)
    BY DEF PostMain
  <2>2. Working(w)
    BY <2>1 DEF Working
  <2>3. /\ mstate[job[w].miner] \in Marks /\ mstate[job[w].miner].text = stream
        /\ Size[stream] \in Nat /\ job[w].batch \in Int
    BY <2>2, WorkerFacts, CallFacts
  <2>4. State(w).pos \in Nat /\ Size[State(w).text] \in Nat
    BY <2>3 DEF State, Marks
  <2>. QED  BY <2>1, <2>2, <2>3, <2>4 DEF Scanning
<1>1. PICK c, k : c = job[w].pout /\ k = job[w].miner
  OBVIOUS
<1>2. /\ c \in Clients /\ InNext(c) /\ k \in Miners /\ k \in PushedMiners(c)
      /\ \A v \in Threads : v # w /\ Working(v) => job[v].miner # k
      /\ \A j \in SeqRange(targs) : j.miner # k
  BY <1>0, <1>1, WorkerFacts
<1>3. UNCHANGED callerVars /\ UNCHANGED <<mstate, cur, out, targs>>
  BY DEF PostMain, bufVars
<1>4. /\ wpc \in [Threads -> {"wait", "check", "pop", "scan", "lock", "store", "bump", "exited"}]
      /\ job \in [Threads -> Job \cup {NoJob}]
  BY DEF IInv, TypeOK
<1>5. /\ \A v \in Threads : v # w => wpc'[v] = wpc[v] /\ job'[v] = job[v] /\ cur'[v] = cur[v]
      /\ wpc'[w] = "wait"
  BY <1>3, <1>4 DEF PostMain, Step
<1>6. ~Working(w)'
  BY <1>5 DEF Working
<1>7. Served(c, k, Limit(c))
  BY <1>0, <1>1, ScanningFacts
<1>8. Served(c, k, Limit(c))'
  <2>1. UNCHANGED <<stream, origin, frame>> /\ \A o : Enclosed(o)' <=> Enclosed(o)
    BY <1>3, CallerStays
  <2>2. Limit(c)' = Limit(c) /\ \A m, n : Wanted(c, m, n)' = Wanted(c, m, n)
    BY <1>2, <2>1, SameWanted
  <2>3. PICK p : p = Limit(c) /\ p = Limit(c)'
    BY <2>2
  <2>4. Scanned(k, p) /\ Written(c, k) = Wanted(c, k, p)
    BY <1>7, <2>3 DEF Served
  <2>5. Scanned(k, p)' /\ Written(c, k)' = Wanted(c, k, p)'
    BY <1>3, <2>1, <2>2, <2>4, SameScanned DEF Written
  <2>. QED  BY <2>3, <2>5 DEF Served
<1>9. \A m \in Miners : m # k => mstate'[m] = mstate[m] /\ Written(c, m)' = Written(c, m)
  BY <1>3 DEF Written
<1>10. SeqRange(targs)' = SeqRange(targs)
  BY <1>3
<1>11. /\ \A v \in Threads : v # w => /\ wpc'[v] = wpc[v] /\ job'[v] = job[v] /\ cur'[v] = cur[v]
                                      /\ Working(v) => job[v].miner # k
       /\ job[w].miner = k /\ \A j \in SeqRange(targs)' : j.miner # k
  BY <1>1, <1>2, <1>5, <1>10
<1>. QED  BY <1>2, <1>3, <1>6, <1>8, <1>9, <1>10, <1>11, ThreadConcerns

LEMMA PopProgress ==
  ASSUME IInv, IInv', Progress, Attaching', Ending', InTexts', NEW w \in Threads, Pop(w)
  PROVE  Progress'
<1>0. wpc[w] = "pop" /\ ~Working(w) /\ targs # <<>> /\ targs \in Seq(Job)
  BY DEF Pop, Step, Working, IInv, TypeOK
<1>1. PICK i, j : i = Len(targs) /\ j = targs[i]
  OBVIOUS
<1>2. PICK c, k : c = j.pout /\ k = j.miner
  OBVIOUS
<1>3. i \in DOMAIN targs /\ j \in Job /\ j \in SeqRange(targs) /\ i \in Nat \ {0}
  BY <1>0, <1>1 DEF SeqRange
<1>4. Due(j) /\ c \in Clients /\ k \in Miners
  BY <1>1, <1>2, <1>3 DEF IInv, Jobs, Job
<1>5. InNext(c) /\ k \in PushedMiners(c)
  BY <1>2, <1>4 DEF Due
<1>6. /\ \A v \in Threads : Working(v) => job[v].miner # k
      /\ \A a, b \in DOMAIN targs : targs[a].miner = targs[b].miner => a = b
  BY <1>1, <1>2, <1>3 DEF IInv, Jobs, OneThreadPerMiner
<1>7. /\ UNCHANGED callerVars /\ UNCHANGED <<mstate, cur, out>>
      /\ wpc' = [wpc EXCEPT ![w] = "scan"] /\ job' = [job EXCEPT ![w] = j]
      /\ targs' = SubSeq(targs, 1, i - 1)
  BY <1>1 DEF Pop, Step, bufVars
<1>8. /\ wpc \in [Threads -> {"wait", "check", "pop", "scan", "lock", "store", "bump", "exited"}]
      /\ job \in [Threads -> Job \cup {NoJob}]
  BY DEF IInv, TypeOK
<1>9. /\ \A v \in Threads : v # w => wpc'[v] = wpc[v] /\ job'[v] = job[v] /\ cur'[v] = cur[v]
      /\ wpc'[w] = "scan" /\ job'[w] = j
  BY <1>7, <1>8
<1>10. Working(w)' /\ Hand(w)' = {}
  BY <1>9 DEF Working, Hand
<1>11. /\ \A x : x \in SeqRange(targs)' <=> \E a \in 1 .. i - 1 : x = targs[a]
       /\ \A x : x \in SeqRange(targs) <=> x = j \/ \E a \in 1 .. i - 1 : x = targs[a]
  <2>1. PICK s, t : s = targs /\ t = targs'
    OBVIOUS
  <2>2. /\ DOMAIN t = 1 .. i - 1 /\ \A a \in 1 .. i - 1 : t[a] = s[a]
        /\ DOMAIN s = 1 .. i /\ 1 .. i = (1 .. i - 1) \cup {i}
    BY <1>0, <1>1, <1>3, <1>7, <2>1, AllButLast
  <2>3. SeqRange(targs)' = {t[a] : a \in 1 .. i - 1} /\ SeqRange(targs) = {s[a] : a \in 1 .. i}
    BY <2>1, <2>2 DEF SeqRange
  <2>4. ASSUME NEW x PROVE x \in SeqRange(targs)' <=> \E a \in 1 .. i - 1 : x = targs[a]
    BY <2>1, <2>2, <2>3
  <2>5. ASSUME NEW x
        PROVE  x \in SeqRange(targs) <=> x = j \/ \E a \in 1 .. i - 1 : x = targs[a]
    BY <1>1, <2>1, <2>2, <2>3
  <2>. QED  BY <2>4, <2>5
<1>12. \A x : x.miner # k => (x \in SeqRange(targs)' <=> x \in SeqRange(targs))
  BY <1>2, <1>11
<1>13. \A x \in SeqRange(targs)' : x.miner # k
  <2>1. ASSUME NEW a \in 1 .. i - 1 PROVE targs[a].miner # k
    <3>1. a \in DOMAIN targs /\ a # i
      BY <1>0, <1>1, <1>3
    <3>. QED  BY <1>1, <1>2, <1>3, <1>6, <3>1
  <2>. QED  BY <1>11, <2>1
<1>14. WorkedWell(w, c, k)'
  <2>1. UNCHANGED <<stream, origin, frame>> /\ \A o : Enclosed(o)' <=> Enclosed(o)
    BY <1>7, CallerStays
  <2>2. Limit(c)' = Limit(c) /\ \A m, n : Wanted(c, m, n)' = Wanted(c, m, n)
    BY <1>4, <2>1, SameWanted
  <2>3. QueuedWell(j)
    BY <1>3 DEF Progress
  <2>4. PICK p : p = frame[c].from
    OBVIOUS
  <2>5. /\ mstate[k].pos = p /\ j.batch = frame[c].batch
        /\ Scanned(k, p) /\ Written(c, k) = Wanted(c, k, p)
    BY <1>2, <2>3, <2>4 DEF QueuedWell, Served
  <2>6. p \in Nat /\ Limit(c) \in Nat /\ p <= Limit(c)
    BY <1>4, <1>5, <2>4, CallFacts
  <2>7. p = MinOf(mstate'[k].pos, Limit(c)')
    BY <1>7, <2>2, <2>5, <2>6 DEF MinOf
  <2>8. Scanned(k, p)' /\ Written(c, k)' \cup Hand(w)' = Wanted(c, k, p)'
    BY <1>7, <1>10, <2>1, <2>2, <2>5, SameScanned DEF Written
  <2>9. /\ mstate'[k].pos + job'[w].batch = frame'[c].from + frame'[c].batch
        /\ frame'[c].from <= mstate'[k].pos
    BY <1>7, <1>9, <2>1, <2>4, <2>5, <2>6
  <2>. QED  BY <2>7, <2>8, <2>9 DEF WorkedWell
<1>15. \A m \in Miners : m # k => mstate'[m] = mstate[m] /\ Written(c, m)' = Written(c, m)
  BY <1>7 DEF Written
<1>16. \A v \in Threads : v # w => /\ wpc'[v] = wpc[v] /\ job'[v] = job[v] /\ cur'[v] = cur[v]
                                   /\ Working(v) => job[v].miner # k
  BY <1>6, <1>9
<1>17. job'[w].miner = k
  BY <1>2, <1>9
<1>. QED  BY <1>0, <1>4, <1>5, <1>7, <1>10, <1>12, <1>13, <1>14, <1>15, <1>16, <1>17, ThreadConcerns

LEMMA ThreadProgress ==
  ASSUME IInv, IInv', Spent, Progress, Attaching', Ending', InTexts', NEW w \in Threads,
         ThreadStep(w)
  PROVE  Progress'
BY QuietProgress, ScanProgress, StoreProgress, PostProgress, PopProgress DEF ThreadStep

-----------------------------------------------------------------------------
(* The steps of the callers *)

\* A step of a caller that leaves the miners and the jobs alone
LEMMA CallerKept ==
  ASSUME IInv, IInv', Progress, Attaching', Ending', InTexts', NEW c \in Clients,
         UNCHANGED <<stream, origin, miners, mstate, targs, wpc, job, cur>>,
         \A d \in Clients : d # c =>
           frame'[d] = frame[d] /\ cpc'[d] = cpc[d] /\ out'[d] = out[d],
         InNext(c)' <=> InNext(c),
         InNext(c) => /\ out'[c] = out[c] /\ frame'[c].from = frame[c].from
                      /\ frame'[c].batch = frame[c].batch /\ Pushed(c)' = Pushed(c)
                      /\ InCall(c)',
         ~InNext(c) => spos' = spos,
         (\E d \in Clients : InNext(d)) => \A o : Enclosed(o)' <=> Enclosed(o)
  PROVE  Progress'
<1>1. \A d \in Clients : InNext(d)' <=> InNext(d)
  <2>1. ASSUME NEW d \in Clients, d # c PROVE InNext(d)' <=> InNext(d)
    BY <2>1 DEF InNext
  <2>. QED  BY <2>1
<1>2. ASSUME NEW d \in Clients, InNext(d)
      PROVE  /\ out'[d] = out[d] /\ frame'[d].from = frame[d].from
             /\ frame'[d].batch = frame[d].batch /\ PushedMiners(d)' = PushedMiners(d)
             /\ InCall(d)' /\ \A o : Enclosed(o)' <=> Enclosed(o)
  <2>1. CASE d = c
    <3>1. /\ out'[c] = out[c] /\ frame'[c].from = frame[c].from
          /\ frame'[c].batch = frame[c].batch /\ Pushed(c)' = Pushed(c)
          /\ InCall(c)' /\ InNext(c)
      BY <1>2, <2>1
    <3>2. PushedMiners(c)' = PushedMiners(c)
      BY <3>1 DEF PushedMiners
    <3>. QED  BY <2>1, <3>1, <3>2
  <2>2. CASE d # c
    <3>1. ~InNext(c)
      BY <1>2, <2>2, OneCaller
    <3>2. /\ frame'[d] = frame[d] /\ cpc'[d] = cpc[d] /\ out'[d] = out[d] /\ spos' = spos
      BY <2>2, <3>1
    <3>3. Pushed(d)' = Pushed(d)
      BY <3>2 DEF Pushed
    <3>4. PushedMiners(d)' = PushedMiners(d)
      BY <3>3 DEF PushedMiners
    <3>5. InCall(d)
      BY <1>2 DEF Progress
    <3>6. InCall(d)'
      BY <3>2, <3>5 DEF InCall, InFlight, Limit
    <3>. QED  BY <1>2, <3>2, <3>4, <3>6
  <2>. QED  BY <2>1, <2>2
<1>3. ASSUME NEW w \in Threads
      PROVE  /\ Working(w)' <=> Working(w)
             /\ Working(w) => job'[w] = job[w] /\ Hand(w)' = Hand(w)
  <2>1. Working(w)' <=> Working(w)
    BY DEF Working
  <2>2. ASSUME Working(w) PROVE Hand(w)' = Hand(w)
    <3>1. \E d \in Clients : InNext(d)
      BY <2>2, WorkerFacts
    <3>. QED  BY <3>1 DEF Hand
  <2>. QED  BY <2>1, <2>2
<1>4. (\A d \in Clients : ~InNext(d)) => spos' = spos
  OBVIOUS
<1>. QED  BY <1>1, <1>2, <1>3, <1>4, ProgressKept

\* next signals the jobs, moves the stream and collects.
LEMMA CollectProgress ==
  ASSUME IInv, IInv', Progress, Attaching', Ending', InTexts', NEW c \in Clients,
         Signal(c) \/ MoveStream(c) \/ Collect(c)
  PROVE  Progress'
<1>0. InNext(c)
  BY DEF Signal, MoveStream, Collect, InNext
<1>1. /\ UNCHANGED <<stream, origin, miners, mstate, targs, wpc, job, cur, out, flags, last_max>>
      /\ frame' = [frame EXCEPT ![c].m = frame'[c].m]
  <2>1. frame \in [Clients -> [text : Texts \cup {NoText}, batch : Nat, from : Nat,
                               m : Nat \ {0}, cap : Nat]]
    BY DEF IInv, TypeOK
  <2>. QED  BY <2>1 DEF Signal, MoveStream, Collect, confVars, histVars, bufVars, workVars, poolVars
<1>2. /\ frame \in [Clients -> [text : Texts \cup {NoText}, batch : Nat, from : Nat,
                                m : Nat \ {0}, cap : Nat]]
      /\ cpc \in [Clients -> {"idle", "attach", "error", "push", "signal", "collect", "return",
                              "destroy", "terminate", "join", "gone"}]
      /\ spos \in [Texts -> Nat] /\ miners \in Seq(Miners)
  BY DEF IInv, TypeOK
<1>3. /\ frame'[c].from = frame[c].from /\ frame'[c].batch = frame[c].batch
      /\ frame[c].m \in Nat
      /\ \A d \in Clients : d # c => frame'[d] = frame[d] /\ cpc'[d] = cpc[d]
  <2>1. cpc'= [cpc EXCEPT ![c] = cpc'[c]]
    BY <1>2 DEF Signal, MoveStream, Collect, Goto
  <2>2. \A d \in Clients : d # c => cpc'[d] = cpc[d]
    BY <1>2, <2>1
  <2>3. \A d \in Clients : d # c => frame'[d] = frame[d]
    BY <1>1, <1>2
  <2>4. frame'[c].from = frame[c].from /\ frame'[c].batch = frame[c].batch
    <3>1. PICK n : n = frame'[c].m
      OBVIOUS
    <3>2. frame' = [frame EXCEPT ![c].m = n]
      BY <1>1, <3>1
    <3>. QED  BY <1>2, <3>2
  <2>. QED  BY <1>2, <2>2, <2>3, <2>4
<1>4. InCall(c)
  BY <1>0 DEF Progress
<1>5. InNext(c)' /\ Pushed(c)' = Pushed(c) /\ InCall(c)'
  <2>1. CASE Signal(c)
    <3>1. /\ cpc[c] = "signal" /\ cpc'[c] = "push" /\ frame'[c].m = frame[c].m + 1 /\ spos' = spos
      BY <1>2, <2>1 DEF Signal, Goto
    <3>2. Pushed(c)' = Pushed(c)
      BY <1>3, <3>1 DEF Pushed
    <3>3. InCall(c)'
      BY <1>1, <1>3, <1>4, <3>1 DEF InCall, InFlight, Limit
    <3>. QED  BY <3>1, <3>2, <3>3 DEF InNext
  <2>2. CASE MoveStream(c)
    <3>1. /\ cpc[c] = "push" /\ cpc'[c] = "collect" /\ frame[c].m > Len(miners)
          /\ spos' = [spos EXCEPT ![stream] = MinOf(spos[stream] + frame[c].batch, Size[stream])]
      BY <1>2, <2>2 DEF MoveStream, Goto
    <3>2. Pushed(c)' = Pushed(c)
      <4>1. frame[c].m <= Len(miners) + 1 /\ Len(miners) \in Nat
        BY <1>2, <3>1 DEF IInv, Loops
      <4>. QED  BY <1>1, <1>3, <3>1, <4>1 DEF Pushed
    <3>3. stream \in Texts /\ spos[stream] = frame[c].from
      BY <1>0, <1>4, <3>1, CallFacts DEF InCall, InFlight
    <3>4. spos'[stream] = Limit(c)
      BY <1>2, <3>1, <3>3 DEF Limit
    <3>5. InFlight(c)' /\ Limit(c)' = Limit(c)
      BY <1>1, <1>3, <3>1 DEF InFlight, Limit
    <3>6. InCall(c)'
      BY <1>1, <1>3, <1>4, <3>4, <3>5 DEF InCall
    <3>. QED  BY <3>1, <3>2, <3>6 DEF InNext
  <2>3. CASE Collect(c)
    <3>1. /\ cpc[c] = "collect" /\ cpc'[c] = "collect" /\ spos' = spos
      BY <1>2, <2>3 DEF Collect
    <3>2. Pushed(c)' = Pushed(c)
      BY <1>1, <3>1 DEF Pushed
    <3>3. InCall(c)'
      BY <1>1, <1>3, <1>4, <3>1 DEF InCall, InFlight, Limit
    <3>. QED  BY <3>1, <3>2, <3>3 DEF InNext
  <2>. QED  BY <2>1, <2>2, <2>3
<1>6. \A o : Enclosed(o)' <=> Enclosed(o)
  BY <1>1 DEF Enclosed
<1>7. \A d \in Clients : d # c =>
           frame'[d] = frame[d] /\ cpc'[d] = cpc[d] /\ out'[d] = out[d]
  BY <1>1, <1>3
<1>. QED  BY <1>0, <1>1, <1>3, <1>5, <1>6, <1>7, CallerKept

\* A caller that sorts and returns, takes note of an error, or ends the threads
LEMMA AsideProgress ==
  ASSUME IInv, IInv', Progress, Attaching', Ending', InTexts', NEW c \in Clients,
         \/ Return(c) \/ SetLastError(c) \/ SetTerminate(c) \/ PostTerminate(c)
         \/ Join(c) \/ Teardown(c)
  PROVE  Progress'
<1>1. UNCHANGED <<stream, origin, miners, mstate, targs, wpc, job, cur, spos, flags, last_max>>
  BY DEF Return, SetLastError, SetTerminate, PostTerminate, Join, Teardown, confVars, histVars,
     workVars, poolVars
<1>2. /\ frame \in [Clients -> [text : Texts \cup {NoText}, batch : Nat, from : Nat,
                                m : Nat \ {0}, cap : Nat]]
      /\ cpc \in [Clients -> {"idle", "attach", "error", "push", "signal", "collect", "return",
                              "destroy", "terminate", "join", "gone"}]
      /\ out \in [Clients -> Seq(Occurrence)]
  BY DEF IInv, TypeOK
<1>3. ASSUME NEW d \in Clients, d # c
      PROVE  frame'[d] = frame[d] /\ cpc'[d] = cpc[d] /\ out'[d] = out[d]
  <2>1. out'[d] = out[d]
    BY <1>2, <1>3 DEF Return, SetLastError, SetTerminate, PostTerminate, Join, Teardown, bufVars
  <2>2. frame'[d] = frame[d] /\ cpc'[d] = cpc[d]
    BY <1>2, <1>3 DEF Return, SetLastError, SetTerminate, PostTerminate, Join, Teardown, Goto
  <2>. QED  BY <2>1, <2>2
<1>4. ~InNext(c) /\ ~InNext(c)'
  BY <1>2 DEF InNext, Return, SetLastError, SetTerminate, PostTerminate, Join, Teardown, Goto
<1>5. \A o : Enclosed(o)' <=> Enclosed(o)
  BY <1>1 DEF Enclosed
<1>. QED  BY <1>1, <1>3, <1>4, <1>5, CallerKept

\* The filter is not turned on or off during a call.
LEMMA FlagsProgress ==
  ASSUME KeepsFilter, IInv, IInv', Progress, Attaching', Ending', InTexts', NEW c \in Clients,
         NEW fs \in FlagArgs, NEW value \in BOOLEAN, SetFlags(c, fs, value)
  PROVE  Progress'
<1>1. /\ UNCHANGED <<stream, origin, miners, mstate, targs, wpc, job, cur, spos, last_max,
                     frame, cpc, out>>
      /\ cpc[c] = "idle" /\ flags' = IF value THEN flags \cup fs ELSE flags \ fs
  BY DEF SetFlags, histVars, workVars, poolVars, callVars, bufVars
<1>2. ~InNext(c) /\ ~InNext(c)'
  BY <1>1 DEF InNext
<1>3. ASSUME NEW d \in Clients, InNext(d) PROVE \A o : Enclosed(o)' <=> Enclosed(o)
  <2>1. Filtering' <=> Filtering
    BY <1>3 DEF KeepsFilter
  <2>. QED  BY <1>1, <2>1 DEF Enclosed, Filtering
<1>4. \A d \in Clients : d # c =>
           frame'[d] = frame[d] /\ cpc'[d] = cpc[d] /\ out'[d] = out[d]
  BY <1>1
<1>. QED  BY <1>1, <1>2, <1>3, <1>4, CallerKept

\* A miner that is pushed has done nothing for this call.
LEMMA PushProgress ==
  ASSUME IInv, IInv', Progress, Attaching', Ending', InTexts', NEW c \in Clients, Push(c)
  PROVE  Progress'
<1>1. PICK i, k : i = frame[c].m /\ k = miners[i]
  OBVIOUS
<1>2. /\ cpc[c] = "push" /\ i <= Len(miners) /\ cpc' = [cpc EXCEPT ![c] = "signal"]
      /\ mstate' = [mstate EXCEPT ![k].pos = spos[stream]]
      /\ targs' = Append(targs, [miner |-> k, batch |-> frame[c].batch, pout |-> c])
      /\ UNCHANGED <<stream, origin, miners, flags, last_max, spos, frame, out, wpc, job, cur>>
  BY <1>1 DEF Push, Goto, confVars, histVars, workVars, bufVars
<1>3. /\ frame \in [Clients -> [text : Texts \cup {NoText}, batch : Nat, from : Nat,
                                m : Nat \ {0}, cap : Nat]]
      /\ cpc \in [Clients -> {"idle", "attach", "error", "push", "signal", "collect", "return",
                              "destroy", "terminate", "join", "gone"}]
      /\ mstate \in [Miners -> Marks] /\ targs \in Seq(Job) /\ miners \in Seq(Miners)
  BY DEF IInv, TypeOK, Marks
<1>4. InNext(c) /\ InNext(c)' /\ cpc'[c] = "signal"
  BY <1>2, <1>3 DEF InNext
<1>5. i \in Nat \ {0} /\ i \in DOMAIN miners /\ k \in Miners /\ k \in SeqRange(miners)
  BY <1>1, <1>2, <1>3 DEF SeqRange
<1>6. Pushed(c) = i - 1 /\ Pushed(c)' = i
  BY <1>1, <1>2, <1>4 DEF Pushed
<1>7. PushedMiners(c)' = PushedMiners(c) \cup {k}
  <2>1. {n \in DOMAIN miners : n <= i} = {n \in DOMAIN miners : n <= i - 1} \cup {i}
    BY <1>3, <1>5
  <2>. QED  BY <1>1, <1>2, <1>6, <2>1 DEF PushedMiners
<1>8. k \notin PushedMiners(c)
  <2>1. \A n \in DOMAIN miners : miners[n] = miners[i] => n = i
    BY <1>5 DEF IInv, Jobs
  <2>. QED  BY <1>1, <1>5, <1>6, <2>1 DEF PushedMiners
<1>9. ~Queued(k) /\ ~InWork(k)
  BY <1>4, <1>8, OneCaller DEF Queued, InWork
<1>10. InCall(c) /\ spos[stream] = frame[c].from
  BY <1>2, <1>4 DEF Progress, InCall, InFlight
<1>11. Served(c, k, frame[c].from)
  <2>1. DoneWell(c, k)
    BY <1>4, <1>5 DEF Progress
  <2>. QED  BY <1>8, <1>9, <2>1 DEF DoneWell
<1>12. PICK j : j = [miner |-> k, batch |-> frame[c].batch, pout |-> c]
  OBVIOUS
<1>13. SeqRange(targs)' = SeqRange(targs) \cup {j}
  <2>1. PICK s, t : s = targs /\ t = targs'
    OBVIOUS
  <2>2. t = Append(s, j) /\ s \in Seq(Job) /\ j \in Job
    <3>1. frame[c].batch \in Int
      BY <1>3
    <3>. QED  BY <1>2, <1>3, <1>5, <1>12, <2>1, <3>1 DEF Job
  <2>3. SeqRange(t) = SeqRange(s) \cup {j}
    BY <2>2 DEF SeqRange
  <2>. QED  BY <2>1, <2>3 DEF SeqRange
<1>14. \A o : Enclosed(o)' <=> Enclosed(o)
  BY <1>2 DEF Enclosed
<1>15. /\ \A m \in Miners : m # k => mstate'[m] = mstate[m]
       /\ mstate'[k].pos = frame[c].from /\ mstate'[k].end_last = mstate[k].end_last
       /\ mstate'[k].pos_last = mstate[k].pos_last
  BY <1>2, <1>3, <1>5, <1>10 DEF Marks
<1>16. PICK K : K = {k}
  OBVIOUS
<1>17. QueuedWell(j)'
  <2>1. PICK p : p = frame[c].from
    OBVIOUS
  <2>2. Limit(c)' = Limit(c) /\ \A m, n : Wanted(c, m, n)' = Wanted(c, m, n)
    BY <1>2, <1>14, SameWanted
  <2>3. Scanned(k, p) /\ Written(c, k) = Wanted(c, k, p)
    BY <1>11, <2>1 DEF Served
  <2>4. PICK x, y : x = mstate[k] /\ y = mstate'[k]
    OBVIOUS
  <2>5. \A q : MayRun(y, q) <=> MayRun(x, q)
    BY <1>15, <2>4 DEF MayRun
  <2>6. \A s, hi : Agree(x, s, hi) => Agree(y, s, hi)
    BY <1>15, <2>4, <2>5 DEF Agree
  <2>7. /\ origin <= p /\ Agree(x, M!Scan(k, stream, origin)[p - origin], Size[stream])
    BY <2>3, <2>4 DEF Scanned
  <2>8. /\ origin <= p /\ Agree(y, M!Scan(k, stream, origin)[p - origin], Size[stream])
    BY <2>6, <2>7
  <2>9. Scanned(k, p)'
    BY <1>2, <2>4, <2>8 DEF Scanned
  <2>10. Written(c, k)' = Wanted(c, k, p)'
    BY <1>2, <2>2, <2>3 DEF Written
  <2>11. /\ j.miner = k /\ j.pout = c /\ j.batch = frame'[c].batch /\ p = frame'[c].from
         /\ mstate'[k].pos = p
    BY <1>2, <1>12, <1>15, <2>1
  <2>. QED  BY <2>9, <2>10, <2>11 DEF QueuedWell, Served
<1>18. DoneWell(c, k)'
  <2>1. Queued(k)'
    BY <1>12, <1>13 DEF Queued
  <2>. QED  BY <2>1 DEF DoneWell
<1>19. InCall(c)'
  BY <1>2, <1>4, <1>10 DEF InCall, InFlight, Limit
<1>20. \A m \in Miners \ K :
         /\ mstate'[m] = mstate[m] /\ Written(c, m)' = Written(c, m)
         /\ m \in PushedMiners(c)' <=> m \in PushedMiners(c)
  BY <1>2, <1>7, <1>15, <1>16 DEF Written
<1>21. \A x : x.miner \in Miners \ K => (x \in SeqRange(targs)' <=> x \in SeqRange(targs))
  BY <1>12, <1>13, <1>16
<1>22. \A w \in Threads : /\ Working(w)' <=> Working(w)
                          /\ Hand(w)' = Hand(w)
  BY <1>2, <1>14 DEF Working, Hand
<1>23. \A w \in Threads : \A x : x.miner \in Miners \ K =>
           /\ Working(w)' /\ job'[w] = x <=> Working(w) /\ job[w] = x
           /\ Working(w) /\ job[w] = x => Hand(w)' = Hand(w)
  BY <1>2, <1>22
<1>24. \A x \in SeqRange(targs)' : x.miner \in K => QueuedWell(x)'
  <2>1. \A x \in SeqRange(targs) : x.miner # k
    BY <1>9 DEF Queued
  <2>2. \A x : x = j => QueuedWell(x)'
    BY <1>17
  <2>. QED  BY <1>13, <1>16, <2>1, <2>2
<1>25. \A w \in Threads : \A m \in K : Working(w)' /\ job'[w].miner = m => WorkedWell(w, c, m)'
  BY <1>2, <1>9, <1>16, <1>22 DEF InWork
<1>26. \A m \in K : m \in SeqRange(miners) => DoneWell(c, m)'
  BY <1>16, <1>18
<1>27. frame'[c].from = frame[c].from /\ frame'[c].batch = frame[c].batch
  BY <1>2
<1>. QED  BY <1>2, <1>4, <1>14, <1>19, <1>20, <1>21, <1>23, <1>24, <1>25, <1>26, <1>27,
             ProgressElsewhere

\* A call of next begins where the miners' scans have come to.
LEMMA EnterProgress ==
  ASSUME IInv, IInv', Progress, Attaching', Ending', InTexts', NEW c \in Clients,
         NEW b \in Batches, NextEnter(c, b)
  PROVE  Progress'
<1>1. PICK p : p = spos[stream]
  OBVIOUS
<1>2. /\ mutex_extractor = Nobody /\ mutex_extractor' = c /\ Readable
      /\ cpc' = [cpc EXCEPT ![c] = "push"] /\ out' = [out EXCEPT ![c] = <<>>]
      /\ UNCHANGED <<stream, origin, miners, mstate, targs, wpc, job, cur, spos, flags, last_max>>
      /\ \E f : f.batch = b /\ f.from = p /\ f.m = 1 /\ frame' = [frame EXCEPT ![c] = f]
  BY <1>1 DEF NextEnter, Goto, confVars, workVars, Readable
<1>3. /\ frame \in [Clients -> [text : Texts \cup {NoText}, batch : Nat, from : Nat,
                                m : Nat \ {0}, cap : Nat]]
      /\ cpc \in [Clients -> {"idle", "attach", "error", "push", "signal", "collect", "return",
                              "destroy", "terminate", "join", "gone"}]
      /\ out \in [Clients -> Seq(Occurrence)] /\ spos \in [Texts -> Nat] /\ miners \in Seq(Miners)
      /\ stream \in Texts /\ origin \in Nat
  BY <1>2 DEF IInv, TypeOK, Readable
<1>4. /\ frame'[c].batch = b /\ frame'[c].from = p /\ frame'[c].m = 1 /\ cpc'[c] = "push"
      /\ out'[c] = <<>> /\ p \in Nat
  BY <1>1, <1>2, <1>3
<1>5. \A d \in Clients : ~InNext(d)
  BY <1>2, FreeMutex DEF IInv, InNext
<1>6. \A d \in Clients : InNext(d)' => d = c
  BY <1>2 DEF IInv, Holder, InNext
<1>7. targs = <<>> /\ \A w \in Threads : ~Working(w)
  BY <1>5, QuietOutsideNext DEF IInv, Working, Busy
<1>8. SeqRange(targs)' = {} /\ \A w \in Threads : ~Working(w)'
  BY <1>2, <1>7 DEF SeqRange, Working
<1>9. InCall(c)'
  <2>1. p <= Size[stream] /\ origin <= p
    BY <1>1, <1>2, <1>3 DEF Progress, InTexts
  <2>2. ~InFlight(c)'
    BY <1>4 DEF InFlight
  <2>. QED  BY <1>1, <1>2, <1>4, <2>1, <2>2 DEF InCall
<1>10. ASSUME NEW m \in SeqRange(miners) PROVE DoneWell(c, m)'
  <2>1. PushedMiners(c)' = {}
    <3>1. Pushed(c)' = 0
      BY <1>4 DEF Pushed
    <3>2. DOMAIN miners' = 1 .. Len(miners) /\ Len(miners) \in Nat
      BY <1>2, <1>3
    <3>. QED  BY <3>1, <3>2 DEF PushedMiners
  <2>2. Scanned(m, p)
    BY <1>1, <1>2, <1>5 DEF Progress
  <2>3. Scanned(m, p)'
    BY <1>2, <2>2, SameScanned
  <2>4. Written(c, m)' = {}
    BY <1>4 DEF Written, SeqRange
  <2>5. Wanted(c, m, p)' = {}
    <3>1. M!HitsOf(m, stream', origin', p, p) = {}
      BY <1>4, HitsNone
    <3>. QED  BY <1>4, <3>1 DEF Wanted
  <2>6. Served(c, m, p)'
    BY <2>3, <2>4, <2>5 DEF Served
  <2>. QED  BY <1>4, <2>1, <2>6 DEF DoneWell
<1>11. SeqRange(miners)' = SeqRange(miners)
  BY <1>2
<1>12. \A d \in Clients : InNext(d)' => InCall(d)' /\ \A m \in SeqRange(miners)' : DoneWell(d, m)'
  BY <1>6, <1>9, <1>10, <1>11
<1>13. InNext(c)'
  BY <1>4 DEF InNext
<1>. QED  BY <1>8, <1>12, <1>13 DEF Progress

\* When a call has collected every job, each miner has come to where the stream is.
LEMMA AllServed ==
  ASSUME IInv, Progress, NEW c \in Clients, cpc[c] = "collect", frame[c].m > Len(miners)
  PROVE  /\ spos[stream] = Limit(c)
         /\ \A m \in SeqRange(miners) : Served(c, m, Limit(c))
<1>1. InNext(c) /\ InFlight(c)
  BY DEF InNext, InFlight
<1>2. /\ frame[c].m <= Len(miners) + 1 /\ InNextTally(c)
  BY <1>1 DEF IInv, Loops, Tally
<1>3. frame[c].m \in Nat /\ Len(miners) \in Nat /\ Len(targs) \in Nat /\ sem_main \in Nat
      /\ targs \in Seq(Job)
  BY SMTT(30) DEF IInv, TypeOK
<1>4. Collected(c) = frame[c].m - 1 /\ Pushed(c) = Len(miners)
  BY DEF Collected, Pushed
<1>5. Len(targs) + CountIn(wpc, Busy) + sem_main + Collected(c) = Pushed(c)
  BY <1>2 DEF InNextTally
<1>6. Len(targs) = 0 /\ CountIn(wpc, Busy) = 0
  <2>1. CountIn(wpc, Busy) \in Nat
    BY CountNat
  <2>. QED  BY <1>2, <1>3, <1>4, <1>5, <2>1
<1>7. \A w \in Threads : ~Working(w)
  BY <1>6, CountZero DEF Working, Busy
<1>8. SeqRange(targs) = {}
  BY <1>3, <1>6 DEF SeqRange
<1>9. PushedMiners(c) = SeqRange(miners)
  <2>1. DOMAIN miners = 1 .. Len(miners)
    BY DEF IInv, TypeOK
  <2>2. {k \in DOMAIN miners : k <= Pushed(c)} = DOMAIN miners
    BY <2>1, <1>3, <1>4
  <2>. QED  BY <2>2, Zenon DEF PushedMiners, SeqRange
<1>10. ASSUME NEW m \in SeqRange(miners) PROVE Served(c, m, Limit(c))
  <2>1. DoneWell(c, m)
    BY <1>1 DEF Progress
  <2>2. ~Queued(m) /\ ~InWork(m)
    BY <1>7, <1>8 DEF Queued, InWork
  <2>. QED  BY <1>9, <2>1, <2>2 DEF DoneWell
<1>11. spos[stream] = Limit(c)
  BY <1>1 DEF Progress, InCall
<1>. QED  BY <1>10, <1>11

LEMMA FinishProgress ==
  ASSUME IInv, IInv', Progress, Attaching', Ending', InTexts', NEW c \in Clients, Finish(c)
  PROVE  Progress'
<1>1. /\ cpc[c] = "collect" /\ frame[c].m > Len(miners) /\ mutex_extractor' = Nobody
      /\ UNCHANGED <<stream, origin, miners, mstate, spos>>
  BY DEF Finish, confVars
<1>2. \A d \in Clients : ~InNext(d)'
  BY <1>1, ConstantsAssumption DEF IInv, Holder, InNext
<1>3. PICK p : p = Limit(c)
  OBVIOUS
<1>4. spos[stream] = p /\ \A m \in SeqRange(miners) : Scanned(m, p)
  BY <1>1, <1>3, AllServed DEF Served
<1>5. \A m \in SeqRange(miners) : Scanned(m, p)'
  BY <1>1, <1>4, SameScanned
<1>6. \A m \in SeqRange(miners)' : Scanned(m, spos[stream])'
  BY <1>1, <1>4, <1>5 DEF Scanned
<1>. QED  BY <1>2, <1>6, ProgressOutside

\* The miners begin to scan where the stream stands that is set.
LEMMA AttachProgress ==
  ASSUME IInv, IInv', Progress, Attaching', Ending', InTexts', NEW c \in Clients, Attach(c)
  PROVE  Progress'
<1>1. PICK t, o : t = frame[c].text /\ o = spos[t]
  OBVIOUS
<1>2. /\ cpc[c] = "attach" /\ cpc' = [cpc EXCEPT ![c] = "idle"] /\ stream' = t
      /\ origin' = o /\ spos' = spos /\ miners' = miners
      /\ mstate' = [m \in Miners |->
           IF m \in SeqRange(miners)
           THEN [text |-> stream', pos |-> spos[stream'], end_last |-> 0, pos_last |-> 0]
           ELSE mstate[m]]
  BY <1>1 DEF Attach, Goto
<1>3. /\ t \in Texts /\ o \in Nat /\ Size[t] \in Nat /\ miners \in Seq(Miners)
      /\ cpc \in [Clients -> {"idle", "attach", "error", "push", "signal", "collect", "return",
                              "destroy", "terminate", "join", "gone"}]
  BY <1>1, <1>2, ConstantsAssumption DEF IInv, TypeOK, Attached
<1>4. \A d \in Clients : ~InNext(d)'
  <2>1. \A d \in Clients : d # c => cpc[d] = "idle"
    BY <1>2 DEF Progress, Attaching
  <2>. QED  BY <1>2, <1>3, <2>1 DEF InNext
<1>5. ASSUME NEW m \in SeqRange(miners) PROVE Scanned(m, o)'
  <2>1. m \in Miners
    BY <1>3 DEF SeqRange
  <2>2. PICK x : x = mstate'[m]
    OBVIOUS
  <2>3. x.end_last = 0 /\ x.pos_last = 0
    BY <1>2, <2>1, <2>2
  <2>4. Agree(x, Known(m, t, o, o), Size[t])
    BY <1>3, <2>1, <2>3, AgreeBegins
  <2>5. o <= o
    BY <1>3
  <2>. QED  BY <1>2, <2>2, <2>4, <2>5 DEF Scanned, Known
<1>6. \A m \in SeqRange(miners)' : Scanned(m, spos[stream])'
  BY <1>1, <1>2, <1>5
<1>. QED  BY <1>4, <1>6, ProgressOutside

\* A caller that configures the extractor leaves it without a stream that is read.
LEMMA ConfigureProgress ==
  ASSUME IInv, IInv', Progress, Attaching', Ending', InTexts', NEW c \in Clients,
         \/ RefuseStream(c) \/ \E m \in Miners : AddMiner(c, m)
         \/ \E t \in Texts : SetStream(c, t)
         \/ UnsetStream(c) \/ Destroy(c)
  PROVE  Progress'
<1>0. /\ cpc \in [Clients -> {"idle", "attach", "error", "push", "signal", "collect", "return",
                              "destroy", "terminate", "join", "gone"}]
      /\ NoText \notin Texts
  BY ConstantsAssumption DEF IInv, TypeOK
<1>1. ~Readable'
  BY <1>0 DEF RefuseStream, AddMiner, SetStream, UnsetStream, Destroy, Unset, Readable
<1>2. \A d \in Clients : ~InNext(d)'
  <2>1. CASE RefuseStream(c)
    <3>1. cpc[c] = "attach" /\ cpc' = [cpc EXCEPT ![c] = "error"]
      BY <2>1 DEF RefuseStream, Goto
    <3>2. \A d \in Clients : d # c => cpc[d] = "idle"
      BY <3>1 DEF Progress, Attaching
    <3>. QED  BY <1>0, <3>1, <3>2 DEF InNext
  <2>2. CASE ~RefuseStream(c)
    <3>1. AllIdle /\ \/ cpc' = cpc \/ cpc' = [cpc EXCEPT ![c] = "attach"]
                     \/ cpc' = [cpc EXCEPT ![c] = "destroy"]
      BY <2>2 DEF AddMiner, SetStream, UnsetStream, Destroy, Goto, callVars
    <3>. QED  BY <1>0, <3>1 DEF InNext, AllIdle
  <2>. QED  BY <2>1, <2>2
<1>. QED  BY <1>1, <1>2, ProgressOutside

-----------------------------------------------------------------------------
(* In every state reached each miner's scan has come to where its job is *)

LEMMA ProgressInit ==
  ASSUME Init, IInv
  PROVE  Progress
<1>0. NoText \notin Texts /\ Size \in [Texts -> Nat]
  BY ConstantsAssumption
<1>1. Attaching /\ Ending
  BY DEF Init, Attaching, Ending
<1>2. ~Readable
  BY <1>0 DEF Init, Readable
<1>3. \A t \in Texts : spos[t] <= Size[t]
  <2>1. ASSUME NEW t \in Texts PROVE spos[t] <= Size[t]
    <3>1. spos[t] = 0 /\ Size[t] \in Nat
      BY <1>0 DEF Init
    <3>. QED  BY <3>1
  <2>. QED  BY <2>1
<1>4. \A c \in Clients : ~InNext(c)
  BY DEF Init, InNext
<1>5. SeqRange(targs) = {} /\ \A w \in Threads : ~Working(w)
  BY DEF Init, SeqRange, Working
<1>. QED  BY <1>1, <1>2, <1>3, <1>4, <1>5 DEF Progress, InTexts

LEMMA ProgressStep ==
  ASSUME [KeepsFilter]_vars, IInv, IInv', Spent, Progress, [Next]_vars
  PROVE  Progress'
<1>1. Attaching' /\ Ending' /\ InTexts'
  BY AttachingStep, EndingStep, InTextsStep DEF Progress
<1>2. ASSUME NEW c \in Clients, CallStep(c) PROVE Progress'
  BY <1>1, <1>2, CollectProgress, AsideProgress, PushProgress, FinishProgress, AttachProgress,
     ConfigureProgress DEF CallStep
<1>3. ASSUME NEW c \in Clients, Call(c) PROVE Progress'
  <2>1. CASE \E fs \in FlagArgs, value \in BOOLEAN : SetFlags(c, fs, value)
    <3>1. KeepsFilter
      <4>1. flags' = flags => KeepsFilter
        BY DEF KeepsFilter, Filtering
      <4>. QED  BY <4>1 DEF vars, confVars
    <3>. QED  BY <1>1, <2>1, <3>1, FlagsProgress
  <2>. QED  BY <1>1, <1>3, <2>1, EnterProgress, ConfigureProgress DEF Call
<1>4. ASSUME NEW w \in Threads, ThreadStep(w) PROVE Progress'
  BY <1>1, <1>4, ThreadProgress
<1>5. CASE UNCHANGED vars
  <2>1. UNCHANGED <<stream, origin, miners, mstate, targs, wpc, job, cur, spos, flags, last_max,
                    frame, cpc, out>>
    BY <1>5 DEF vars, confVars, histVars, workVars, callVars, bufVars, poolVars
  <2>2. \A c \in Clients : /\ InNext(c)' <=> InNext(c)
                           /\ PushedMiners(c)' = PushedMiners(c)
                           /\ InCall(c)' <=> InCall(c)
    <3>1. ASSUME NEW c \in Clients
          PROVE  /\ InNext(c)' <=> InNext(c)
                 /\ PushedMiners(c)' = PushedMiners(c)
                 /\ InCall(c)' <=> InCall(c)
      <4>1. Pushed(c)' = Pushed(c)
        BY <2>1 DEF Pushed
      <4>. QED  BY <2>1, <4>1 DEF InNext, PushedMiners, InCall, InFlight, Limit
    <3>. QED  BY <3>1
  <2>3. \A o : Enclosed(o)' <=> Enclosed(o)
    BY <2>1 DEF Enclosed
  <2>4. \A w \in Threads : (Working(w)' <=> Working(w)) /\ Hand(w)' = Hand(w)
    BY <2>1, <2>3 DEF Working, Hand
  <2>5. \A c \in Clients : InNext(c) => InCall(c)
    BY DEF Progress
  <2>. QED  BY <1>1, <2>1, <2>2, <2>3, <2>4, <2>5, ProgressKept
<1>. QED  BY <1>2, <1>3, <1>4, <1>5 DEF Next

LEMMA ProgressAlways == Spec /\ FilterKept => [](IInv /\ Progress)
<1>1. Init => IInv /\ Progress
  BY InitInv, ProgressInit
<1>2. IInv /\ IInv' /\ Spent /\ Progress /\ [Next]_vars /\ [KeepsFilter]_vars => Progress'
  BY ProgressStep
<1>3. Spec => [](IInv /\ Spent)
  BY SpentAlways
<1>. QED  BY <1>1, <1>2, <1>3, PTL DEF Spec, FilterKept

-----------------------------------------------------------------------------
(* What a call hands out *)

\* Longest keeps each cell that no other encloses, and no other cell.
LEMMA LongestRange ==
  ASSUME NEW s \in Seq(Occurrence), NEW kept \in Longest(s)
  PROVE  SeqRange(kept) = {s[i] : i \in Unenclosed(s)}
<1>. DEFINE keep == Unenclosed(s)
            n == Cardinality(keep)
<1>1. /\ keep \subseteq DOMAIN s /\ keep \subseteq Nat /\ IsFiniteSet(keep) /\ n \in Nat
  <2>1. DOMAIN s = 1 .. Len(s) /\ Len(s) \in Nat /\ keep \subseteq DOMAIN s
    BY DEF Unenclosed
  <2>2. IsFiniteSet(DOMAIN s)
    BY <2>1, FS_Interval
  <2>. QED  BY <2>1, <2>2, FS_Subset, FS_CardinalityType
<1>2. PICK at \in [1 .. n -> keep] :
        /\ kept = [k \in 1 .. n |-> s[at[k]]]
        /\ \A k, l \in 1 .. n : k < l => at[k] < at[l]
  BY DEF Longest, InOrder
<1>. HIDE DEF n, keep
<1>3. \A k, l \in 1 .. n : at[k] = at[l] => k = l
  <2>. SUFFICES ASSUME NEW k \in 1 .. n, NEW l \in 1 .. n, at[k] = at[l] PROVE k = l
    OBVIOUS
  <2>1. at[k] \in Nat /\ k \in Int /\ l \in Int
    BY <1>1, <1>2
  <2>2. ~(k < l) /\ ~(l < k)
    BY <1>2, <2>1
  <2>. QED  BY <2>1, <2>2
<1>4. ASSUME NEW y \in keep PROVE \E k \in 1 .. n : at[k] = y
  <2>. SUFFICES ASSUME \A k \in 1 .. n : at[k] # y PROVE FALSE
    OBVIOUS
  <2>1. at \in [1 .. n -> keep \ {y}]
    BY <1>2
  <2>2. IsFiniteSet(keep \ {y}) /\ Cardinality(keep \ {y}) = n - 1
    BY <1>1, FS_RemoveElement DEF n
  <2>3. IsFiniteSet(1 .. n) /\ Cardinality(1 .. n) = n
    BY <1>1, FS_Interval
  <2>4. \E k, l \in 1 .. n : k # l /\ at[k] = at[l]
    BY SMTT(30), <1>1, <2>1, <2>2, <2>3, FS_PigeonHole
  <2>. QED  BY <1>3, <2>4
<1>5. SeqRange(kept) = {s[at[k]] : k \in 1 .. n}
  BY <1>2 DEF SeqRange
<1>. QED  BY <1>2, <1>4, <1>5 DEF keep

\* They are the longest occurrences of the array, as a set.
LEMMA LongestSet ==
  ASSUME NEW s \in Seq(Occurrence)
  PROVE  {s[i] : i \in Unenclosed(s)} = M!Longest(SeqRange(s))
<1>1. ASSUME NEW i \in DOMAIN s
      PROVE  i \in Unenclosed(s) <=>
               \A j \in DOMAIN s :
                 s[j].start <= s[i].start /\ s[i].end <= s[j].end =>
                   s[j].start = s[i].start /\ s[j].end = s[i].end
  BY DEF Unenclosed, StrictlyEncloses, Encloses
<1>. QED  BY <1>1 DEF M!Longest, SeqRange, Unenclosed

\* Of two numbers that are the furthest of a set each is the other.
LEMMA OneFurthest ==
  ASSUME NEW S, S \subseteq Nat, NEW x \in Maxima(S)
  PROVE  x = M!Furthest(S)
<1>1. x \in S /\ \A y \in S : x >= y
  BY DEF Maxima
<1>2. M!Furthest(S) \in S /\ \A y \in S : M!Furthest(S) >= y
  BY <1>1 DEF M!Furthest
<1>3. x \in Nat /\ M!Furthest(S) \in Nat /\ x >= M!Furthest(S) /\ M!Furthest(S) >= x
  BY <1>1, <1>2
<1>. HIDE DEF M!Furthest
<1>. QED  BY <1>3

LEMMA ConcatRange ==
  ASSUME NEW S, NEW s \in Seq(S), NEW t \in Seq(S)
  PROVE  SeqRange(s \o t) = SeqRange(s) \cup SeqRange(t)
<1>1. /\ s \o t \in Seq(S) /\ Len(s \o t) = Len(s) + Len(t)
      /\ \A i \in 1 .. Len(s) + Len(t) :
           (s \o t)[i] = IF i <= Len(s) THEN s[i] ELSE t[i - Len(s)]
      /\ Len(s) \in Nat /\ Len(t) \in Nat
  BY ConcatProperties
<1>2. PICK u : u = s \o t
  OBVIOUS
<1>3. /\ DOMAIN u = 1 .. Len(s) + Len(t) /\ DOMAIN s = 1 .. Len(s) /\ DOMAIN t = 1 .. Len(t)
      /\ \A i \in 1 .. Len(s) + Len(t) : u[i] = IF i <= Len(s) THEN s[i] ELSE t[i - Len(s)]
  BY <1>1, <1>2
<1>4. ASSUME NEW x \in SeqRange(u) PROVE x \in SeqRange(s) \cup SeqRange(t)
  <2>1. PICK i \in 1 .. Len(s) + Len(t) : x = u[i]
    BY <1>3 DEF SeqRange
  <2>2. CASE i <= Len(s)
    BY <1>1, <1>3, <2>1, <2>2 DEF SeqRange
  <2>3. CASE ~(i <= Len(s))
    <3>1. i - Len(s) \in 1 .. Len(t)
      BY <1>1, <2>3
    <3>. QED  BY <1>3, <2>1, <2>3, <3>1 DEF SeqRange
  <2>. QED  BY <2>2, <2>3
<1>5. ASSUME NEW x \in SeqRange(s) PROVE x \in SeqRange(u)
  <2>1. PICK i \in 1 .. Len(s) : x = s[i]
    BY <1>3 DEF SeqRange
  <2>2. i \in 1 .. Len(s) + Len(t) /\ i <= Len(s)
    BY <1>1
  <2>. QED  BY <1>3, <2>1, <2>2 DEF SeqRange
<1>6. ASSUME NEW x \in SeqRange(t) PROVE x \in SeqRange(u)
  <2>1. PICK i \in 1 .. Len(t) : x = t[i]
    BY <1>3 DEF SeqRange
  <2>2. PICK j : j = Len(s) + i
    OBVIOUS
  <2>3. j \in 1 .. Len(s) + Len(t) /\ ~(j <= Len(s)) /\ j - Len(s) = i
    BY <1>1, <2>2
  <2>4. u[j] = x
    BY <1>3, <2>1, <2>3
  <2>. QED  BY <1>3, <2>3, <2>4 DEF SeqRange
<1>. QED  BY <1>2, <1>4, <1>5, <1>6

LEMMA HitTypes ==
  ASSUME NEW m \in Miners, NEW t \in Texts, NEW o \in Nat, NEW lo \in Nat, o <= lo, NEW hi \in Nat,
         NEW x \in M!HitsOf(m, t, o, lo, hi)
  PROVE  x.miner = m /\ x.end \in Nat
<1>1. PICK p \in lo .. hi - 1 : x \in M!HitAt(m, t, o, p)
  BY DEF M!HitsOf
<1>2. p \in Nat /\ o <= p
  OBVIOUS
<1>3. PICK s : s = Known(m, t, o, p)
  OBVIOUS
<1>4. s.at = p
  BY <1>2, <1>3, ScanGoesOn
<1>5. x = M!Occ(m, Matcher[m][t][p]) /\ M!Runs(t, s)
  BY <1>1, <1>3 DEF M!HitAt, Known
<1>6. p < Size[t]
  BY <1>4, <1>5 DEF M!Runs
<1>7. Matcher[m][t][p].end \in Nat
  BY <1>2, <1>6, MatcherTypes
<1>. QED  BY <1>5, <1>7 DEF M!Occ

\* What the miners find in the positions of c's batch
Batch(c) == UNION {M!HitsOf(m, stream, origin, frame[c].from, Limit(c)) : m \in SeqRange(miners)}

\* When the jobs are done c's array holds what the miners find in the batch and
\* no earlier batch encloses.
LEMMA AllWritten ==
  ASSUME IInv, Spent, Progress, NEW c \in Clients, cpc[c] = "collect", frame[c].m > Len(miners)
  PROVE  /\ SubSeq(out[c], 1, pout[c]) \in Seq(Occurrence)
         /\ SeqRange(SubSeq(out[c], 1, pout[c])) = {o \in Batch(c) : ~Enclosed(o)}
<1>1. InNext(c)
  BY DEF InNext
<1>2. out[c] \in Seq(Occurrence) /\ frame[c].m \in Nat /\ Len(miners) \in Nat
  BY DEF IInv, TypeOK
<1>3. \A w \in Threads : ~Working(w)
  <2>1. frame[c].m <= Len(miners) + 1 /\ InNextTally(c)
    BY <1>1 DEF IInv, Loops, Tally
  <2>2. /\ Collected(c) = frame[c].m - 1 /\ Pushed(c) = Len(miners)
        /\ Len(targs) + CountIn(wpc, Busy) + sem_main + Collected(c) = Pushed(c)
    BY <2>1 DEF Collected, Pushed, InNextTally
  <2>3. CountIn(wpc, Busy) \in Nat /\ Len(targs) \in Nat /\ sem_main \in Nat
    <3>1. targs \in Seq(Job) /\ sem_main \in Nat
      BY DEF IInv, TypeOK
    <3>2. Len(targs) \in Nat
      BY <3>1
    <3>3. CountIn(wpc, Busy) \in Nat
      BY CountNat
    <3>. QED  BY <3>1, <3>2, <3>3
  <2>4. CountIn(wpc, Busy) = 0
    BY <1>2, <2>1, <2>2, <2>3
  <2>. QED  BY <2>4, CountZero DEF Working, Busy
<1>4. pout[c] = Len(out[c])
  <2>1. \A w \in Threads : wpc[w] # "bump"
    BY <1>3 DEF Working
  <2>. QED  BY <2>1, FullCursor DEF IInv
<1>5. PICK s : s = SubSeq(out[c], 1, pout[c])
  OBVIOUS
<1>6. s \in Seq(Occurrence) /\ SeqRange(s) = SeqRange(out[c])
  <2>1. PICK a, n : a = out[c] /\ n = pout[c]
    OBVIOUS
  <2>2. a \in Seq(Occurrence) /\ n \in Nat /\ DOMAIN a = 1 .. n /\ s = SubSeq(a, 1, n)
    BY <1>2, <1>4, <1>5, <2>1
  <2>3. /\ s \in Seq(Occurrence) /\ DOMAIN s = 1 .. n /\ \A i \in 1 .. n : s[i] = a[i]
    <3>1. \A i \in 1 .. n : a[i] \in Occurrence
      BY <2>2
    <3>. QED  BY <2>2, <3>1, SubSeqProperties
  <2>. QED  BY <2>1, <2>2, <2>3 DEF SeqRange
<1>7. \A o \in SeqRange(out[c]) : o.miner \in SeqRange(miners)
  <2>1. \A i \in DOMAIN out[c] : out[c][i].miner \in PushedMiners(c)
    BY <1>1 DEF Spent
  <2>. QED  BY <1>1, <2>1, OneCaller DEF SeqRange
<1>8. ASSUME NEW m \in SeqRange(miners)
      PROVE  Written(c, m) = {o \in M!HitsOf(m, stream, origin, frame[c].from, Limit(c)) :
                                ~Enclosed(o)}
  BY <1>8, AllServed DEF Served, Wanted
<1>9. SeqRange(out[c]) = UNION {Written(c, m) : m \in SeqRange(miners)}
  BY <1>7 DEF Written
<1>10. UNION {Written(c, m) : m \in SeqRange(miners)} = {o \in Batch(c) : ~Enclosed(o)}
  BY <1>8 DEF Batch
<1>. QED  BY <1>5, <1>6, <1>9, <1>10

\* Where a call stands that has moved the stream already
LEMMA PositionInCall ==
  ASSUME IInv, Progress, NEW c \in Clients, InNext(c)
  PROVE  Position = frame[c].from
<1>1. Readable /\ \A d \in Clients : InFlight(d) => d = c
  BY CallFacts, OneCaller DEF InNext, InFlight
<1>2. CASE InFlight(c)
  <2>1. (CHOOSE d \in Clients : InFlight(d)) = c
    BY <1>1, <1>2
  <2>. QED  BY <1>1, <1>2, <2>1 DEF Position
<1>3. CASE ~InFlight(c)
  BY <1>1, <1>3 DEF Position, Progress, InCall
<1>. QED  BY <1>2, <1>3

LEMMA PositionOutside ==
  ASSUME \A c \in Clients : ~InFlight(c)
  PROVE  Position = IF Readable THEN spos[stream] ELSE 0
BY DEF Position

-----------------------------------------------------------------------------
(* Each step of the pool is one of Mining, or a stutter *)

\* next(batch) takes effect when it unlocks the mutex.
LEMMA FinishExtracts ==
  ASSUME IInv, IInv', Spent, Progress, NEW c \in Clients, Finish(c)
  PROVE  \E b \in Batches : M!Extract(b)
<1>1. /\ cpc[c] = "collect" /\ frame[c].m > Len(miners) /\ mutex_extractor' = Nobody
      /\ cpc' = [cpc EXCEPT ![c] = "return"]
      /\ UNCHANGED <<stream, origin, miners, flags, spos>>
  BY DEF Finish, confVars, Goto
<1>2. PICK kept :
        /\ kept \in IF "E_NO_ENCLOSED_OCCURRENCES" \in flags
                    THEN Longest(SubSeq(out[c], 1, pout[c])) ELSE {SubSeq(out[c], 1, pout[c])}
        /\ IF "E_NO_ENCLOSED_OCCURRENCES" \in flags
           THEN last_max' \in Maxima({last_max} \cup {kept[i].end : i \in DOMAIN kept})
           ELSE UNCHANGED last_max
        /\ received' = received \o kept
  BY DEF Finish
<1>3. InNext(c) /\ InFlight(c)
  BY <1>1 DEF InNext, InFlight
<1>4. /\ stream \in Texts /\ Readable /\ Size[stream] \in Nat /\ frame[c].from \in Nat
      /\ origin \in Nat /\ origin <= frame[c].from /\ Limit(c) \in Nat
      /\ frame[c].batch \in Nat /\ frame[c].batch \in Batches
      /\ SeqRange(miners) \subseteq Miners
  BY <1>3, CallFacts, OneCaller DEF Progress, InCall
<1>5. /\ received \in Seq(Occurrence) /\ last_max \in Nat /\ kept \in Seq(Occurrence)
      /\ cpc \in [Clients -> {"idle", "attach", "error", "push", "signal", "collect", "return",
                              "destroy", "terminate", "join", "gone"}]
  BY <1>2, KeptTypes DEF IInv, TypeOK
<1>6. ReadText = stream /\ ReadText' = stream /\ stream # NoText
  BY <1>1, <1>4, ConstantsAssumption DEF ReadText, Readable
<1>7. Alive /\ Alive'
  <2>1. \A d \in Clients : d # c => cpc[d] \notin {"terminate", "join", "gone"}
    BY <1>3, OneCaller DEF IInv, Holder
  <2>. QED  BY <1>1, <1>5, <2>1 DEF Alive
<1>8. Position = frame[c].from
  BY <1>3, PositionInCall
<1>9. Position' = Limit(c)
  <2>1. \A d \in Clients : ~InFlight(d)'
    BY <1>1, ConstantsAssumption DEF IInv, Holder, InFlight
  <2>2. Readable'
    BY <1>1, <1>4 DEF Readable
  <2>3. Position' = spos'[stream']
    BY <2>1, <2>2 DEF Position
  <2>. QED  BY <1>1, <2>3, AllServed
<1>10. Position' = IF Position + frame[c].batch < Size[ReadText]
                   THEN Position + frame[c].batch ELSE Size[ReadText]
  <2>1. PICK x, y : x = frame[c].from + frame[c].batch /\ y = Size[stream]
    OBVIOUS
  <2>2. x \in Nat /\ y \in Nat
    BY <1>4, <2>1
  <2>3. MinOf(x, y) = IF x < y THEN x ELSE y
    BY <2>2 DEF MinOf
  <2>. QED  BY <1>6, <1>8, <1>9, <2>1, <2>3 DEF Limit
<1>11. PICK F, S : F = Batch(c) /\ S = {o \in F : ~Enclosed(o)}
  OBVIOUS
<1>12. M!Hits(Position, Position') = F
  BY <1>6, <1>8, <1>9, <1>11 DEF M!Hits, Batch
<1>13. /\ SubSeq(out[c], 1, pout[c]) \in Seq(Occurrence)
       /\ SeqRange(SubSeq(out[c], 1, pout[c])) = S
  BY <1>1, <1>11, AllWritten
<1>14. SeqRange(received)' = SeqRange(received) \cup SeqRange(kept)
  <2>1. SeqRange(received \o kept) = SeqRange(received) \cup SeqRange(kept)
    BY <1>5, ConcatRange
  <2>2. SeqRange(received)' = SeqRange(received')
    BY DEF SeqRange
  <2>. QED  BY <1>2, <2>1, <2>2
<1>15. \A o \in F : o.end \in Nat
  BY <1>4, <1>11, HitTypes DEF Batch
<1>16. SeqRange(kept) = IF "E_NO_ENCLOSED_OCCURRENCES" \in flags THEN M!Unenclosed(F) ELSE F
  <2>1. CASE "E_NO_ENCLOSED_OCCURRENCES" \in flags
    <3>1. SeqRange(kept) = M!Longest(S)
      BY <1>2, <1>13, <2>1, LongestRange, LongestSet
    <3>2. S = {o \in F : last_max = 0 \/ o.end > last_max}
      <4>1. ASSUME NEW o \in F PROVE ~Enclosed(o) <=> last_max = 0 \/ o.end > last_max
        <5>1. o.end \in Nat
          BY <1>15
        <5>. QED  BY <1>5, <2>1, <5>1 DEF Enclosed
      <4>. QED  BY <1>11, <4>1
    <3>. QED  BY <2>1, <3>1, <3>2 DEF M!Unenclosed
  <2>2. CASE "E_NO_ENCLOSED_OCCURRENCES" \notin flags
    <3>1. S = F
      BY <1>11, <2>2 DEF Enclosed
    <3>. QED  BY <1>2, <1>13, <2>2, <3>1
  <2>. QED  BY <2>1, <2>2
<1>17. ASSUME NEW K, K = SeqRange(kept)
       PROVE  last_max' = IF "E_NO_ENCLOSED_OCCURRENCES" \in flags
                          THEN M!Furthest({last_max} \cup {o.end : o \in K}) ELSE last_max
  <2>1. CASE "E_NO_ENCLOSED_OCCURRENCES" \in flags
    <3>1. PICK E : E = {last_max} \cup {kept[i].end : i \in DOMAIN kept}
      OBVIOUS
    <3>2. E = {last_max} \cup {o.end : o \in K}
      BY <1>17, <3>1 DEF SeqRange
    <3>3. E \subseteq Nat
      <4>0. \A i \in DOMAIN kept : kept[i] \in Occurrence
        BY <1>5
      <4>1. \A i \in DOMAIN kept : kept[i].end \in Nat
        BY <4>0 DEF Occurrence
      <4>. QED  BY <1>5, <3>1, <4>1
    <3>4. last_max' \in Maxima(E)
      BY <1>2, <2>1, <3>1
    <3>5. last_max' = M!Furthest(E)
      BY <3>3, <3>4, OneFurthest
    <3>. QED  BY <2>1, <3>2, <3>5
  <2>2. CASE "E_NO_ENCLOSED_OCCURRENCES" \notin flags
    BY <1>2, <2>2
  <2>. QED  BY <2>1, <2>2
<1>18. /\ SeqRange(miners)' = SeqRange(miners) /\ ReadText' = ReadText /\ origin' = origin
       /\ flags' = flags /\ Alive' = Alive
  BY <1>1, <1>6, <1>7
<1>19. M!Extract(frame[c].batch)
  <2>1. ReadText # NoText
    BY <1>6
  <2>2. PICK K : K = SeqRange(kept)
    OBVIOUS
  <2>3. K = IF "E_NO_ENCLOSED_OCCURRENCES" \in flags
            THEN M!Unenclosed(M!Hits(Position, Position')) ELSE M!Hits(Position, Position')
    BY <1>12, <1>16, <2>2
  <2>4. SeqRange(received)' = SeqRange(received) \cup K
    BY <1>14, <2>2
  <2>5. last_max' = IF "E_NO_ENCLOSED_OCCURRENCES" \in flags
                    THEN M!Furthest({last_max} \cup {o.end : o \in K}) ELSE last_max
    BY <1>17, <2>2
  <2>. QED  BY <1>7, <1>10, <1>18, <2>1, <2>3, <2>4, <2>5 DEF M!Extract
<1>. QED  BY <1>4, <1>19

\* What Mining sees of the pool
View == <<SeqRange(miners), ReadText, Position, origin, flags, last_max, SeqRange(received), Alive>>

LEMMA ViewStays ==
  ASSUME UNCHANGED <<miners, stream, origin, flags, last_max, received>>, Position' = Position,
         Alive' <=> Alive
  PROVE  UNCHANGED View
<1>1. /\ SeqRange(miners)' = SeqRange(miners) /\ SeqRange(received)' = SeqRange(received)
      /\ ReadText' = ReadText
  BY DEF ReadText, Readable
<1>2. Alive' = Alive
  <2>1. Alive \in BOOLEAN /\ Alive' \in BOOLEAN
    BY DEF Alive
  <2>. QED  BY <2>1
<1>. QED  BY <1>1, <1>2 DEF View

\* A thread changes nothing that Mining sees.
LEMMA ThreadUnseen ==
  ASSUME NEW w \in Threads, ThreadStep(w)
  PROVE  UNCHANGED View
<1>1. UNCHANGED callerVars
  BY DEF ThreadStep, WaitTargs, Quit, GoOn, Pop, SkipPosition, RunMiner, LockPout,
         DropEnclosed, Store, Bump, PostMain
<1>2. UNCHANGED <<stream, origin, miners, frame, cpc, spos, flags, last_max, received>>
  BY <1>1, CallerStays
<1>3. Position' = Position /\ (Alive' <=> Alive)
  BY <1>2 DEF Position, Readable, InFlight, Alive
<1>. QED  BY <1>2, <1>3, ViewStays

\* Nor does a call of next before it unlocks the mutex.
LEMMA CallUnseen ==
  ASSUME IInv, IInv', Progress, Progress', NEW c \in Clients,
         \/ Push(c) \/ Signal(c) \/ MoveStream(c) \/ Collect(c)
         \/ \E b \in Batches : NextEnter(c, b)
  PROVE  UNCHANGED View
<1>1. /\ UNCHANGED <<miners, stream, origin, flags, last_max, received>>
      /\ InNext(c)' /\ cpc[c] \notin {"terminate", "join", "gone"}
  <2>1. cpc \in [Clients -> {"idle", "attach", "error", "push", "signal", "collect", "return",
                             "destroy", "terminate", "join", "gone"}]
    BY DEF IInv, TypeOK
  <2>. QED  BY <2>1 DEF Push, Signal, MoveStream, Collect, NextEnter, confVars, histVars, Goto,
            InNext
<1>2. \A d \in Clients : d # c => cpc'[d] = cpc[d]
  <2>1. cpc \in [Clients -> {"idle", "attach", "error", "push", "signal", "collect", "return",
                             "destroy", "terminate", "join", "gone"}]
    BY DEF IInv, TypeOK
  <2>. QED  BY <2>1 DEF Push, Signal, MoveStream, Collect, NextEnter, Goto
<1>3. Alive' <=> Alive
  BY <1>1, <1>2 DEF Alive, InNext
<1>4. Position' = frame'[c].from
  <2>1. /\ Readable' /\ \A d \in Clients : InFlight(d)' => d = c
    <3>1. stream' \in Texts \ Unreadable
      BY <1>1 DEF IInv, Attached
    <3>2. \A d \in Clients : InNext(d)' => d = c
      BY <1>1 DEF IInv, Holder, InNext
    <3>. QED  BY <3>1, <3>2 DEF Readable, InNext, InFlight
  <2>2. CASE InFlight(c)'
    <3>1. (CHOOSE d \in Clients : InFlight(d)') = c
      BY <2>1, <2>2
    <3>. QED  BY <2>1, <2>2, <3>1 DEF Position
  <2>3. CASE ~InFlight(c)'
    BY <1>1, <2>1, <2>3 DEF Position, Progress, InCall
  <2>. QED  BY <2>2, <2>3
<1>5. Position = frame'[c].from
  <2>1. CASE \E b \in Batches : NextEnter(c, b)
    <3>1. /\ mutex_extractor = Nobody /\ Readable /\ frame'[c].from = spos[stream]
      <4>1. frame \in [Clients -> [text : Texts \cup {NoText}, batch : Nat, from : Nat,
                                   m : Nat \ {0}, cap : Nat]]
        BY DEF IInv, TypeOK
      <4>. QED  BY <2>1, <4>1 DEF NextEnter, Readable
    <3>2. \A d \in Clients : ~InFlight(d)
      BY <3>1, FreeMutex DEF IInv, InFlight
    <3>. QED  BY <3>1, <3>2 DEF Position
  <2>2. CASE \/ Push(c) \/ Signal(c) \/ MoveStream(c) \/ Collect(c)
    <3>1. InNext(c)
      BY <2>2 DEF Push, Signal, MoveStream, Collect, InNext
    <3>2. frame'[c].from = frame[c].from
      <4>1. frame \in [Clients -> [text : Texts \cup {NoText}, batch : Nat, from : Nat,
                                   m : Nat \ {0}, cap : Nat]]
        BY DEF IInv, TypeOK
      <4>. QED  BY <2>2, <4>1 DEF Push, Signal, MoveStream, Collect
    <3>. QED  BY <3>1, <3>2, PositionInCall
  <2>. QED  BY <2>1, <2>2
<1>. QED  BY <1>1, <1>3, <1>4, <1>5, ViewStays

\* A caller that is done with next, notes an error or joins the threads has no
\* effect either.
LEMMA AsideUnseen ==
  ASSUME IInv, NEW c \in Clients,
         Return(c) \/ SetLastError(c) \/ PostTerminate(c) \/ Join(c) \/ Teardown(c)
  PROVE  UNCHANGED View
<1>1. UNCHANGED <<miners, stream, origin, flags, last_max, received, spos>>
  BY DEF Return, SetLastError, PostTerminate, Join, Teardown, confVars, histVars
<1>2. /\ frame \in [Clients -> [text : Texts \cup {NoText}, batch : Nat, from : Nat,
                                m : Nat \ {0}, cap : Nat]]
      /\ cpc \in [Clients -> {"idle", "attach", "error", "push", "signal", "collect", "return",
                              "destroy", "terminate", "join", "gone"}]
  BY DEF IInv, TypeOK
<1>3. /\ \A d \in Clients : d # c => cpc'[d] = cpc[d]
      /\ cpc[c] # "collect" /\ cpc'[c] # "collect"
      /\ cpc[c] \in {"terminate", "join", "gone"} <=> cpc'[c] \in {"terminate", "join", "gone"}
  BY <1>2 DEF Return, SetLastError, PostTerminate, Join, Teardown, Goto
<1>4. \A d \in Clients : d # c => frame'[d] = frame[d]
  BY <1>2 DEF Return, SetLastError, PostTerminate, Join, Teardown
<1>5. Alive' <=> Alive
  BY <1>3 DEF Alive
<1>6. \A d \in Clients : InFlight(d)' <=> InFlight(d)
  BY <1>3 DEF InFlight
<1>7. \A d \in Clients : InFlight(d) => frame'[d] = frame[d]
  BY <1>3, <1>4 DEF InFlight
<1>8. Position' = Position
  <2>1. CASE \E d \in Clients : InFlight(d)
    <3>1. PICK e : e = CHOOSE d \in Clients : InFlight(d)
      OBVIOUS
    <3>2. e \in Clients /\ InFlight(e)
      BY <2>1, <3>1
    <3>3. e = (CHOOSE d \in Clients : InFlight(d)')
      BY <1>6, <3>1
    <3>4. frame'[e] = frame[e]
      BY <1>7, <3>2
    <3>. QED  BY <1>1, <1>6, <2>1, <3>1, <3>3, <3>4 DEF Position, Readable
  <2>2. CASE \A d \in Clients : ~InFlight(d)
    BY <1>1, <1>6, <2>2 DEF Position, Readable
  <2>. QED  BY <2>1, <2>2
<1>. QED  BY <1>1, <1>5, <1>8, ViewStays

\* set_stream attaches the stream that Mining attaches, where it stands.
LEMMA AttachMaps ==
  ASSUME IInv, Progress, NEW c \in Clients, Attach(c)
  PROVE  \E t \in Texts \ Unreadable : M!Attach(t)
<1>1. PICK t : t = frame[c].text
  OBVIOUS
<1>2. /\ cpc[c] = "attach" /\ cpc' = [cpc EXCEPT ![c] = "idle"] /\ stream' = t
      /\ t \notin Unreadable /\ last_max' = 0 /\ origin' = spos[t]
      /\ UNCHANGED <<miners, flags, received, spos>>
  BY <1>1 DEF Attach, Goto
<1>3. /\ t \in Texts /\ NoText \notin Texts /\ spos[t] \in Nat /\ Size[t] \in Nat
      /\ cpc \in [Clients -> {"idle", "attach", "error", "push", "signal", "collect", "return",
                              "destroy", "terminate", "join", "gone"}]
  BY <1>1, <1>2, ConstantsAssumption DEF IInv, TypeOK, Attached
<1>4. stream = NoText /\ \A d \in Clients : d # c => cpc[d] = "idle"
  BY <1>2 DEF Progress, Attaching
<1>5. \A d \in Clients : cpc'[d] = "idle"
  BY <1>2, <1>3, <1>4
<1>6. ReadText = NoText /\ ReadText' = t
  BY <1>2, <1>3, <1>4 DEF ReadText, Readable
<1>7. Position' = spos[t]
  BY <1>2, <1>3, <1>5 DEF Position, Readable, InFlight
<1>8. spos[t] \in 0 .. Size[t]
  BY <1>3 DEF Progress, InTexts
<1>9. Alive /\ Alive'
  BY <1>2, <1>4, <1>5 DEF Alive
<1>10. Alive' = Alive
  BY <1>9 DEF Alive
<1>11. SeqRange(miners)' = SeqRange(miners) /\ SeqRange(received)' = SeqRange(received)
  BY <1>2
<1>12. M!Attach(t)
  BY <1>2, <1>6, <1>7, <1>8, <1>9, <1>10, <1>11 DEF M!Attach
<1>. QED  BY <1>2, <1>3, <1>12

\* A stream that could not be read is not one that Mining has.
LEMMA RefuseUnseen ==
  ASSUME IInv, Progress, NEW c \in Clients, RefuseStream(c)
  PROVE  UNCHANGED View
<1>1. /\ cpc[c] = "attach" /\ cpc' = [cpc EXCEPT ![c] = "error"] /\ stream' \in Unreadable
      /\ UNCHANGED <<miners, flags, last_max, origin, received>>
  BY DEF RefuseStream, Goto, histVars
<1>2. stream = NoText /\ \A d \in Clients : d # c => cpc[d] = "idle"
  BY <1>1 DEF Progress, Attaching
<1>3. /\ NoText \notin Texts
      /\ cpc \in [Clients -> {"idle", "attach", "error", "push", "signal", "collect", "return",
                              "destroy", "terminate", "join", "gone"}]
  BY ConstantsAssumption DEF IInv, TypeOK
<1>4. ~Readable /\ ~Readable'
  BY <1>1, <1>2, <1>3 DEF Readable
<1>5. ReadText' = ReadText /\ Position' = Position
  BY <1>4 DEF ReadText, Position
<1>6. Alive /\ Alive'
  BY <1>1, <1>2, <1>3 DEF Alive
<1>7. Alive' = Alive
  BY <1>6 DEF Alive
<1>8. SeqRange(miners)' = SeqRange(miners) /\ SeqRange(received)' = SeqRange(received)
  BY <1>1
<1>. QED  BY <1>1, <1>5, <1>7, <1>8 DEF View

\* The calls that configure the extractor are those of Mining.
LEMMA ConfigureMaps ==
  ASSUME IInv, NEW c \in Clients,
         \/ \E t \in Texts : SetStream(c, t)
         \/ UnsetStream(c) \/ Destroy(c)
  PROVE  M!Detach
<1>1. /\ AllIdle /\ stream' = NoText /\ origin' = 0 /\ received' = <<>>
      /\ UNCHANGED <<miners, flags, last_max>>
      /\ cpc' = cpc \/ cpc' = [cpc EXCEPT ![c] = "attach"] \/ cpc' = [cpc EXCEPT ![c] = "destroy"]
  BY DEF SetStream, UnsetStream, Destroy, Unset, Goto, callVars
<1>2. /\ NoText \notin Texts
      /\ cpc \in [Clients -> {"idle", "attach", "error", "push", "signal", "collect", "return",
                              "destroy", "terminate", "join", "gone"}]
  BY ConstantsAssumption DEF IInv, TypeOK
<1>3. ReadText' = NoText /\ Position' = 0
  BY <1>1, <1>2 DEF ReadText, Readable, Position
<1>4. Alive /\ Alive'
  BY <1>1, <1>2 DEF Alive, AllIdle
<1>5. Alive' = Alive
  BY <1>4 DEF Alive
<1>6. SeqRange(received)' = {} /\ SeqRange(miners)' = SeqRange(miners)
  BY <1>1 DEF SeqRange
<1>. QED  BY <1>1, <1>3, <1>4, <1>5, <1>6 DEF M!Detach

LEMMA AddMaps ==
  ASSUME IInv, NEW c \in Clients, NEW m \in Miners, AddMiner(c, m)
  PROVE  M!Add(m)
<1>1. /\ AllIdle /\ stream = NoText /\ m \notin SeqRange(miners) /\ miners' = Append(miners, m)
      /\ UNCHANGED <<stream, cpc, flags, last_max, origin, received>>
  BY DEF AddMiner, callVars, histVars
<1>2. NoText \notin Texts /\ miners \in Seq(Miners)
  BY ConstantsAssumption DEF IInv, TypeOK
<1>3. /\ ReadText = NoText /\ ReadText' = NoText /\ Position = 0 /\ Position' = 0
  BY <1>1, <1>2 DEF ReadText, Readable, Position
<1>4. Alive /\ Alive'
  BY <1>1 DEF Alive, AllIdle
<1>5. Alive' = Alive
  BY <1>4 DEF Alive
<1>6. SeqRange(miners)' = SeqRange(miners) \cup {m}
  <2>1. PICK s, t : s = miners /\ t = miners'
    OBVIOUS
  <2>2. t = Append(s, m) /\ s \in Seq(Miners)
    BY <1>1, <1>2, <2>1
  <2>3. SeqRange(t) = SeqRange(s) \cup {m}
    BY <2>2 DEF SeqRange
  <2>. QED  BY <2>1, <2>3 DEF SeqRange
<1>7. SeqRange(received)' = SeqRange(received)
  BY <1>1
<1>. QED  BY <1>1, <1>3, <1>4, <1>5, <1>6, <1>7 DEF M!Add

LEMMA FlagsMap ==
  ASSUME IInv, NEW c \in Clients, NEW fs \in FlagArgs, NEW value \in BOOLEAN,
         SetFlags(c, fs, value)
  PROVE  \E gs \in SUBSET Flags : M!SetFlags(gs)
<1>1. /\ UNCHANGED <<miners, stream, last_max, spos, cpc, frame, origin, received>>
      /\ fs \subseteq Flags /\ flags' = IF value THEN flags \cup fs ELSE flags \ fs
      /\ \A d \in Clients : cpc[d] \notin {"terminate", "join", "gone"}
  BY DEF SetFlags, callVars, histVars
<1>2. flags' \in SUBSET Flags
  BY <1>1 DEF IInv, TypeOK
<1>3. ReadText' = ReadText /\ Position' = Position
  BY <1>1 DEF ReadText, Position, Readable, InFlight
<1>4. Alive /\ Alive'
  BY <1>1 DEF Alive
<1>5. Alive' = Alive
  BY <1>4 DEF Alive
<1>6. SeqRange(received)' = SeqRange(received) /\ SeqRange(miners)' = SeqRange(miners)
  BY <1>1
<1>7. PICK gs : gs = flags'
  OBVIOUS
<1>8. M!SetFlags(gs)
  BY <1>1, <1>3, <1>4, <1>5, <1>6, <1>7 DEF M!SetFlags
<1>. QED  BY <1>2, <1>7, <1>8

LEMMA DestroyMaps ==
  ASSUME IInv, Progress, NEW c \in Clients, SetTerminate(c)
  PROVE  M!Destroy
<1>1. /\ cpc[c] = "destroy" /\ cpc' = [cpc EXCEPT ![c] = "terminate"]
      /\ UNCHANGED <<miners, stream, flags, last_max, origin, received>>
  BY DEF SetTerminate, Goto, confVars, histVars
<1>2. /\ NoText \notin Texts
      /\ cpc \in [Clients -> {"idle", "attach", "error", "push", "signal", "collect", "return",
                              "destroy", "terminate", "join", "gone"}]
  BY ConstantsAssumption DEF IInv, TypeOK
<1>3. stream = NoText /\ \A d \in Clients : d # c => cpc[d] = "idle"
  BY <1>1 DEF Progress, Ending
<1>4. Alive /\ ~Alive'
  BY <1>1, <1>2, <1>3 DEF Alive
<1>5. Alive' = FALSE
  BY <1>4 DEF Alive
<1>6. ReadText = NoText /\ ReadText' = NoText /\ Position = 0 /\ Position' = 0
  BY <1>1, <1>2, <1>3 DEF ReadText, Readable, Position
<1>7. SeqRange(received)' = SeqRange(received) /\ SeqRange(miners)' = SeqRange(miners)
  BY <1>1
<1>. QED  BY <1>1, <1>4, <1>5, <1>6, <1>7 DEF M!Destroy

LEMMA NextMaps ==
  ASSUME IInv, IInv', Spent, Progress, Progress', [Next]_vars
  PROVE  [M!Next]_View
<1>1. ASSUME NEW c \in Clients, CallStep(c)
      PROVE  M!Next \/ UNCHANGED View
  <2>1. CASE Finish(c)
    BY <2>1, FinishExtracts DEF M!Next
  <2>2. CASE Attach(c)
    BY <2>2, AttachMaps DEF M!Next
  <2>3. CASE RefuseStream(c)
    BY <2>3, RefuseUnseen
  <2>4. CASE SetTerminate(c)
    BY <2>4, DestroyMaps DEF M!Next
  <2>5. CASE Push(c) \/ Signal(c) \/ MoveStream(c) \/ Collect(c)
    BY <2>5, CallUnseen
  <2>6. CASE Return(c) \/ SetLastError(c) \/ PostTerminate(c) \/ Join(c) \/ Teardown(c)
    BY <2>6, AsideUnseen
  <2>. QED  BY <1>1, <2>1, <2>2, <2>3, <2>4, <2>5, <2>6 DEF CallStep
<1>2. ASSUME NEW c \in Clients, Call(c)
      PROVE  M!Next \/ UNCHANGED View
  <2>1. CASE \E m \in Miners : AddMiner(c, m)
    BY <2>1, AddMaps DEF M!Next
  <2>2. CASE (\E t \in Texts : SetStream(c, t)) \/ UnsetStream(c) \/ Destroy(c)
    BY <2>2, ConfigureMaps DEF M!Next
  <2>3. CASE \E fs \in FlagArgs, value \in BOOLEAN : SetFlags(c, fs, value)
    BY <2>3, FlagsMap DEF M!Next
  <2>4. CASE \E b \in Batches : NextEnter(c, b)
    BY <2>4, CallUnseen
  <2>. QED  BY <1>2, <2>1, <2>2, <2>3, <2>4 DEF Call
<1>3. ASSUME NEW w \in Threads, ThreadStep(w)
      PROVE  UNCHANGED View
  BY <1>3, ThreadUnseen
<1>4. CASE UNCHANGED vars
  <2>1. /\ UNCHANGED <<miners, stream, origin, flags, last_max, received>>
        /\ UNCHANGED <<cpc, frame, spos>>
    BY <1>4 DEF vars, confVars, callVars, histVars
  <2>2. Position' = Position /\ (Alive' <=> Alive)
    BY <2>1 DEF Position, Readable, InFlight, Alive
  <2>. QED  BY <2>1, <2>2, ViewStays
<1>. QED  BY <1>1, <1>2, <1>3, <1>4 DEF Next

LEMMA InitMaps ==
  ASSUME Init
  PROVE  M!Init
<1>1. /\ flags = {} /\ miners \in Given /\ stream = NoText /\ last_max = 0 /\ received = <<>>
      /\ origin = 0 /\ \A c \in Clients : cpc[c] = "idle"
  BY DEF Init
<1>2. ReadText = NoText /\ Position = 0
  BY <1>1, ConstantsAssumption DEF ReadText, Readable, Position
<1>3. Alive = TRUE
  BY <1>1 DEF Alive
<1>4. SeqRange(received) = {} /\ \E s \in Given : SeqRange(miners) = {s[i] : i \in DOMAIN s}
  BY <1>1 DEF SeqRange
<1>. QED  BY <1>1, <1>2, <1>3, <1>4 DEF M!Init

\* The pool implements Mining, for any number of threads, miners and callers and
\* any texts: each call of next(batch) hands out what one scan of the text by
\* each miner alone finds in the next batch positions, as long as no caller turns
\* the filter on or off while another one is inside next.
THEOREM MiningImplemented == Spec /\ FilterKept => ImplementsMining
<1>1. Init => M!Init
  BY InitMaps
<1>2. IInv /\ Spent /\ Progress /\ IInv' /\ Progress' /\ [Next]_vars =>
        [M!Next]_<<SeqRange(miners), ReadText, Position, origin, flags, last_max,
                   SeqRange(received), Alive>>
  BY NextMaps DEF View
<1>3. Spec => [](IInv /\ Spent)
  BY SpentAlways
<1>4. Spec /\ FilterKept => [](IInv /\ Progress)
  BY ProgressAlways
<1>. QED  BY <1>1, <1>2, <1>3, <1>4, PTL DEF Spec, ImplementsMining, M!Spec, M!mvars

\* One caller alone keeps the filter while it is inside next, and so do callers
\* that never turn it on: the callers that the runs have.
LEMMA FilterStays ==
  ASSUME SteadyFlags, IInv, [Next]_vars
  PROVE  [KeepsFilter]_vars
<1>1. ASSUME NEW c \in Clients, CallStep(c) PROVE flags' = flags
  BY <1>1 DEF CallStep, Attach, RefuseStream, SetLastError, Push, Signal, MoveStream, Collect,
       Finish, Return, SetTerminate, PostTerminate, Join, Teardown, confVars
<1>2. ASSUME NEW c \in Clients, Call(c) PROVE KeepsFilter
  <2>1. CASE \E fs \in FlagArgs, value \in BOOLEAN : SetFlags(c, fs, value)
    <3>1. PICK fs \in FlagArgs, value \in BOOLEAN : SetFlags(c, fs, value)
      BY <2>1
    <3>2. cpc[c] = "idle" /\ flags' = IF value THEN flags \cup fs ELSE flags \ fs
      BY <3>1 DEF SetFlags
    <3>3. CASE \A a, d \in Clients : a = d
      <4>1. \A d \in Clients : ~InNext(d)
        BY <3>2, <3>3 DEF InNext
      <4>. QED  BY <4>1 DEF KeepsFilter
    <3>4. CASE "E_NO_ENCLOSED_OCCURRENCES" \notin fs
      BY <3>2, <3>4 DEF KeepsFilter, Filtering
    <3>. QED  BY <3>3, <3>4 DEF SteadyFlags
  <2>2. flags' = flags => KeepsFilter
    BY DEF KeepsFilter, Filtering
  <2>. QED  BY <1>2, <2>1, <2>2 DEF Call, AddMiner, SetStream, UnsetStream, NextEnter, Destroy,
            confVars
<1>3. ASSUME NEW w \in Threads, ThreadStep(w) PROVE flags' = flags
  BY <1>3 DEF ThreadStep, WaitTargs, Quit, GoOn, Pop, SkipPosition, RunMiner, LockPout,
         DropEnclosed, Store, Bump, PostMain, callerVars, confVars
<1>4. flags' = flags => KeepsFilter
  BY DEF KeepsFilter, Filtering
<1>. QED  BY <1>1, <1>2, <1>3, <1>4 DEF Next

\* So the pool implements Mining for them whatever they do.
COROLLARY MiningOfSteadyCallers == SteadyFlags => (Spec => ImplementsMining)
<1>1. ASSUME SteadyFlags PROVE Spec => ImplementsMining
  <2>1. IInv /\ [Next]_vars => [KeepsFilter]_vars
    BY <1>1, FilterStays
  <2>2. Spec => FilterKept
    BY <2>1, Invariance, PTL DEF Spec, FilterKept
  <2>. QED  BY <2>2, MiningImplemented, PTL
<1>. QED  BY <1>1
===============================================================================
