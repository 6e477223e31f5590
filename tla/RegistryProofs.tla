---------------------------- MODULE RegistryProofs ----------------------------
(***************************************************************************)
(* Theorems about the table of loaded libraries, for any libraries, names  *)
(* and parameters and any number of calls, while the libraries may be      *)
(* written at any time; and that loading a module of regexes, built any    *)
(* number of times, is nothing but a use of that table.                    *)
(***************************************************************************)
EXTENDS RegexModule, Iteration, SequenceTheorems, TLAPS

Entry ==
  [path : Paths, name : Names, params : Params \cup {Null}, ldptr : Paths \cup {Null}]

RegistryTypes ==
  /\ dlsymbols \in Seq(Entry)
  /\ miners \in Seq(Paths \cup {Null})
  /\ opens \in [Paths -> Nat]
  /\ disk \in [Paths -> SUBSET Names] /\ image \in [Paths -> SUBSET Names]
  /\ pc \in {"open", "closing", "gone"}
  /\ closing \in Nat \ {0}

\* Until destroy an entry has the handle of its library, and the miner with
\* its number was made by it.
EntriesMadeMiners ==
  pc = "open" =>
    /\ Len(miners) = Len(dlsymbols)
    /\ \A i \in DOMAIN dlsymbols :
         /\ dlsymbols[i].ldptr = dlsymbols[i].path
         /\ miners[i] = IF dlsymbols[i].params \in Refused THEN Null ELSE dlsymbols[i].path

\* destroy has no miners, and no handles behind it.
NoneBehind ==
  pc # "open" =>
    /\ miners = <<>>
    /\ \A i \in DOMAIN dlsymbols : i < closing => dlsymbols[i].ldptr = Null

HandlesOpen ==
  \A i \in DOMAIN dlsymbols : dlsymbols[i].ldptr # Null => opens[dlsymbols[i].ldptr] > 0

\* What is true of the table, the miners and the counts of dlopen at any time,
\* in add_miner_so as well as in destroy
RegistryInv == RegistryTypes /\ EntriesMadeMiners /\ NoneBehind /\ HandlesOpen

\* A handle of a miner is the handle of its entry.
LEMMA LibrariesOpenLemma == ASSUME RegistryInv PROVE LibrariesStayOpen
<1> USE RegistryAssumption DEF RegistryInv
<1>1. \A i \in DOMAIN miners : miners[i] # Null => opens[miners[i]] > 0
  <2>1. CASE pc = "open"
    <3>1. SUFFICES ASSUME NEW i \in DOMAIN miners, miners[i] # Null
                   PROVE  opens[miners[i]] > 0
      OBVIOUS
    <3>2. i \in DOMAIN dlsymbols
      BY <2>1 DEF RegistryTypes, EntriesMadeMiners
    <3>3. miners[i] = dlsymbols[i].ldptr
      BY <2>1, <3>1, <3>2 DEF EntriesMadeMiners
    <3> QED BY <3>1, <3>2, <3>3 DEF HandlesOpen
  <2>2. CASE pc # "open"
    BY <2>2 DEF NoneBehind
  <2> QED BY <2>1, <2>2
<1> QED BY <1>1 DEF LibrariesStayOpen, HandlesOpen

\* A handle in the table is of a library.
LEMMA HandleOfLibrary ==
  ASSUME RegistryTypes, NEW i \in DOMAIN dlsymbols
  PROVE  dlsymbols[i] \in Entry /\ dlsymbols[i].ldptr \in Paths \cup {Null}
<1>1. dlsymbols[i] \in Entry
  BY ElementOfSeq, LenProperties DEF RegistryTypes
<1> QED BY <1>1 DEF Entry

\* The initial state
LEMMA RegistryBegins == ASSUME Init PROVE RegistryInv
BY EmptySeq, RegistryAssumption DEF Init, RegistryInv, RegistryTypes, EntriesMadeMiners, NoneBehind, HandlesOpen

\* dlopen is only ever called once more.
LEMMA OpenGrows ==
  ASSUME RegistryTypes, NEW path \in Paths, Open(path)
  PROVE  /\ opens' \in [Paths -> Nat]
         /\ disk' \in [Paths -> SUBSET Names] /\ image' \in [Paths -> SUBSET Names]
         /\ \A p \in Paths : opens'[p] >= opens[p]
         /\ ~LibraryFound(path) => opens'[path] > 0
<1>1. Exported(path) \in SUBSET Names
  BY DEF Exported, RegistryTypes
<1> QED BY <1>1 DEF Open, RegistryTypes

LEMMA SymbolFailsStep ==
  ASSUME RegistryInv, NEW path \in Paths, NEW name \in Names, NEW params \in Params \cup {Null},
         SymbolFails(path, name, params)
  PROVE  RegistryInv'
<1> USE DEF RegistryInv, SymbolFails, Call
<1>1. /\ opens' \in [Paths -> Nat]
      /\ disk' \in [Paths -> SUBSET Names] /\ image' \in [Paths -> SUBSET Names]
      /\ \A p \in Paths : opens'[p] >= opens[p]
  BY OpenGrows
<1>2. RegistryTypes'
  BY <1>1 DEF RegistryTypes
<1>3. EntriesMadeMiners' /\ NoneBehind'
  BY DEF EntriesMadeMiners, NoneBehind
<1>4. HandlesOpen'
  <2>1. SUFFICES ASSUME NEW i \in DOMAIN dlsymbols, dlsymbols[i].ldptr # Null
                 PROVE  opens'[dlsymbols[i].ldptr] > 0
    BY DEF HandlesOpen
  <2>2. dlsymbols[i].ldptr \in Paths
    BY <2>1, HandleOfLibrary
  <2>3. opens[dlsymbols[i].ldptr] > 0
    BY <2>1 DEF HandlesOpen
  <2> QED BY <1>1, <2>2, <2>3 DEF RegistryTypes
<1> QED BY <1>2, <1>3, <1>4

\* A miner that is added gets an entry with a handle that is open: of a new
\* call of dlopen, or of the entry the walk found.
LEMMA AddStep ==
  ASSUME RegistryInv, NEW path \in Paths, NEW name \in Names, NEW params \in Params \cup {Null},
         Add(path, name, params)
  PROVE  RegistryInv'
<1> DEFINE entry == [path |-> path, name |-> name, params |-> params, ldptr |-> path]
           miner == IF params \in Refused THEN Null ELSE path
<1> USE RegistryAssumption DEF RegistryInv
<1>1. pc = "open" /\ pc' = pc /\ closing' = closing
  BY DEF Add, Call
<1>2. /\ dlsymbols' = Append(dlsymbols, entry)
      /\ miners' = Append(miners, miner)
      /\ Open(path)
  BY DEF Add
<1>3. entry \in Entry /\ miner \in Paths \cup {Null}
  BY <1>1 DEF Entry
<1>4. /\ opens' \in [Paths -> Nat]
      /\ disk' \in [Paths -> SUBSET Names] /\ image' \in [Paths -> SUBSET Names]
      /\ \A p \in Paths : opens'[p] >= opens[p]
      /\ ~LibraryFound(path) => opens'[path] > 0
  BY <1>1, <1>2, OpenGrows
<1>5. /\ dlsymbols' \in Seq(Entry) /\ miners' \in Seq(Paths \cup {Null})
      /\ Len(dlsymbols') = Len(dlsymbols) + 1 /\ Len(miners') = Len(miners) + 1
      /\ \A i \in DOMAIN dlsymbols : dlsymbols'[i] = dlsymbols[i]
      /\ \A i \in DOMAIN miners : miners'[i] = miners[i]
      /\ dlsymbols'[Len(dlsymbols) + 1] = entry /\ miners'[Len(miners) + 1] = miner
  BY <1>2, <1>3, AppendProperties DEF RegistryTypes
<1>6. DOMAIN dlsymbols' = DOMAIN dlsymbols \cup {Len(dlsymbols) + 1}
  BY <1>5, LenProperties DEF RegistryTypes
<1>7. DOMAIN miners = DOMAIN dlsymbols /\ Len(miners) = Len(dlsymbols)
  BY <1>1 DEF EntriesMadeMiners, RegistryTypes
<1>8. RegistryTypes'
  BY <1>1, <1>4, <1>5 DEF RegistryTypes
<1>9. EntriesMadeMiners'
  <2>1. SUFFICES ASSUME NEW i \in DOMAIN dlsymbols'
                 PROVE  /\ dlsymbols'[i].ldptr = dlsymbols'[i].path
                        /\ miners'[i] = IF dlsymbols'[i].params \in Refused
                                        THEN Null ELSE dlsymbols'[i].path
    BY <1>5, <1>7 DEF EntriesMadeMiners
  <2>2. CASE i \in DOMAIN dlsymbols
    BY <1>1, <1>5, <1>7, <2>2 DEF EntriesMadeMiners
  <2>3. CASE i = Len(dlsymbols) + 1
    BY <1>5, <1>7, <2>3
  <2> QED BY <1>6, <2>2, <2>3
<1>10. NoneBehind'
  BY <1>1 DEF NoneBehind
<1>11. HandlesOpen'
  <2>1. SUFFICES ASSUME NEW i \in DOMAIN dlsymbols', dlsymbols'[i].ldptr # Null
                 PROVE  opens'[dlsymbols'[i].ldptr] > 0
    BY DEF HandlesOpen
  <2>2. \A j \in DOMAIN dlsymbols : dlsymbols[j].ldptr # Null => opens'[dlsymbols[j].ldptr] > 0
    <3>1. SUFFICES ASSUME NEW j \in DOMAIN dlsymbols, dlsymbols[j].ldptr # Null
                   PROVE  opens'[dlsymbols[j].ldptr] > 0
      OBVIOUS
    <3>2. dlsymbols[j].ldptr \in Paths /\ opens[dlsymbols[j].ldptr] > 0
      BY <3>1, HandleOfLibrary DEF HandlesOpen
    <3> QED BY <1>4, <3>2 DEF RegistryTypes
  <2>3. CASE i \in DOMAIN dlsymbols
    BY <1>5, <2>1, <2>2, <2>3
  <2>4. CASE i = Len(dlsymbols) + 1
    <3>1. dlsymbols'[i].ldptr = path
      BY <1>5, <2>4
    <3>2. CASE LibraryFound(path)
      <4>1. PICK j \in DOMAIN dlsymbols : dlsymbols[j].path = path
        BY <3>2 DEF LibraryFound, LibraryAt
      <4>2. dlsymbols[j].ldptr = path /\ path # Null
        BY <1>1, <4>1 DEF EntriesMadeMiners
      <4> QED BY <2>2, <3>1, <4>2
    <3>3. CASE ~LibraryFound(path)
      BY <1>4, <3>1, <3>3
    <3> QED BY <3>2, <3>3
  <2> QED BY <1>6, <2>3, <2>4
<1> QED BY <1>8, <1>9, <1>10, <1>11

\* destroy has got rid of the miners: their libraries may go.
LEMMA DestroyMinersStep == ASSUME RegistryInv, DestroyMiners PROVE RegistryInv'
<1> USE DEF RegistryInv, DestroyMiners, libraries
<1>1. RegistryTypes'
  BY EmptySeq DEF RegistryTypes
<1>2. EntriesMadeMiners' /\ HandlesOpen'
  BY DEF EntriesMadeMiners, HandlesOpen
<1>3. NoneBehind'
  BY LenProperties DEF NoneBehind, RegistryTypes
<1> QED BY <1>1, <1>2, <1>3

\* A library is closed once: every handle to it is struck out before.
LEMMA CloseLibraryStep == ASSUME RegistryInv, CloseLibrary PROVE RegistryInv'
<1> DEFINE ldptr == dlsymbols[closing].ldptr
<1> USE RegistryAssumption DEF RegistryInv
<1>1. /\ pc = "closing" /\ pc' = pc /\ miners' = miners /\ miners = <<>>
      /\ closing' = closing + 1 /\ dlsymbols \in Seq(Entry)
  BY DEF CloseLibrary, RegistryTypes, NoneBehind
<1>2. closing \in DOMAIN dlsymbols /\ ldptr \in Paths \cup {Null}
  <2>1. closing \in DOMAIN dlsymbols
    BY <1>1, LenProperties DEF CloseLibrary, RegistryTypes
  <2> QED BY <2>1, HandleOfLibrary
<1>3. EntriesMadeMiners'
  BY <1>1 DEF EntriesMadeMiners
<1>4. CASE ldptr = Null
  <2>1. UNCHANGED <<dlsymbols, disk, image, opens>>
    BY <1>4 DEF CloseLibrary
  <2>2. RegistryTypes' /\ HandlesOpen'
    BY <1>1, <2>1 DEF RegistryTypes, HandlesOpen
  <2>3. NoneBehind'
    BY <1>1, <1>2, <1>4, <2>1 DEF NoneBehind, RegistryTypes
  <2> QED BY <1>3, <2>2, <2>3
<1>5. CASE ldptr # Null
  <2>1. /\ dlsymbols' = StruckOut(ldptr)
        /\ opens' = [opens EXCEPT ![ldptr] = @ - 1]
        /\ disk' = disk
        /\ image' = IF opens[ldptr] = 1 THEN [image EXCEPT ![ldptr] = {}] ELSE image
    BY <1>5 DEF CloseLibrary
  <2>2. DOMAIN dlsymbols' = DOMAIN dlsymbols
    BY <2>1 DEF StruckOut
  <2>3. \A i \in DOMAIN dlsymbols :
          /\ dlsymbols'[i] \in Entry
          /\ dlsymbols'[i].ldptr = IF i >= closing /\ dlsymbols[i].ldptr = ldptr
                                   THEN Null ELSE dlsymbols[i].ldptr
    <3>1. SUFFICES ASSUME NEW i \in DOMAIN dlsymbols
                   PROVE  /\ dlsymbols'[i] \in Entry
                          /\ dlsymbols'[i].ldptr = IF i >= closing /\ dlsymbols[i].ldptr = ldptr
                                                   THEN Null ELSE dlsymbols[i].ldptr
      OBVIOUS
    <3>2. dlsymbols[i] \in Entry
      BY <1>1, <3>1
    <3>3. dlsymbols'[i] = IF i >= closing /\ dlsymbols[i].ldptr = ldptr
                          THEN [dlsymbols[i] EXCEPT !.ldptr = Null] ELSE dlsymbols[i]
      BY <2>1 DEF StruckOut
    <3> QED BY <3>2, <3>3 DEF Entry
  <2>4. dlsymbols' \in Seq(Entry)
    <3>1. DOMAIN dlsymbols = 1 .. Len(dlsymbols) /\ Len(dlsymbols) \in Nat
      BY <1>1, LenProperties
    <3>2. dlsymbols' = [i \in 1 .. Len(dlsymbols) |-> dlsymbols'[i]]
      BY <2>1, <3>1 DEF StruckOut
    <3>3. \A i \in 1 .. Len(dlsymbols) : dlsymbols'[i] \in Entry
      BY <2>3, <3>1
    <3> QED BY <3>1, <3>2, <3>3, SeqDef
  <2>5. ldptr \in Paths /\ opens[ldptr] > 0 /\ opens \in [Paths -> Nat]
    BY <1>1, <1>2, <1>5 DEF HandlesOpen, RegistryTypes
  <2>6. /\ opens' \in [Paths -> Nat]
        /\ \A p \in Paths : p # ldptr => opens'[p] = opens[p]
    BY <2>1, <2>5
  <2>7. RegistryTypes'
    BY <1>1, <2>1, <2>4, <2>6 DEF RegistryTypes
  <2>8. NoneBehind'
    <3>1. SUFFICES ASSUME NEW i \in DOMAIN dlsymbols, i < closing + 1
                   PROVE  dlsymbols'[i].ldptr = Null
      BY <1>1, <2>2 DEF NoneBehind
    <3>2. i \in Nat /\ closing \in Nat
      BY <1>1, LenProperties DEF RegistryTypes
    <3>3. CASE i = closing
      BY <2>3, <3>2, <3>3
    <3>4. CASE i < closing
      <4>1. dlsymbols[i].ldptr = Null
        BY <1>1, <3>4 DEF NoneBehind
      <4> QED BY <2>3, <4>1
    <3> QED BY <3>1, <3>2, <3>3, <3>4
  <2>9. HandlesOpen'
    <3>1. SUFFICES ASSUME NEW i \in DOMAIN dlsymbols, dlsymbols'[i].ldptr # Null
                   PROVE  opens'[dlsymbols'[i].ldptr] > 0
      BY <2>2 DEF HandlesOpen
    <3>2. i \in Nat /\ closing \in Nat
      BY <1>1, LenProperties DEF RegistryTypes
    <3>3. i >= closing
      BY <1>1, <2>3, <3>1, <3>2 DEF NoneBehind
    <3>4. /\ dlsymbols'[i].ldptr = dlsymbols[i].ldptr
          /\ dlsymbols[i].ldptr # ldptr /\ dlsymbols[i].ldptr # Null
      BY <2>3, <3>1, <3>3
    <3>5. dlsymbols[i].ldptr \in Paths /\ opens[dlsymbols[i].ldptr] > 0
      BY <1>1, <3>4, HandleOfLibrary DEF HandlesOpen
    <3> QED BY <2>6, <3>4, <3>5
  <2> QED BY <1>3, <2>7, <2>8, <2>9
<1> QED BY <1>4, <1>5

\* Every step of add_miner_so and of destroy keeps the invariant.
LEMMA RegistryStep == ASSUME RegistryInv, [Next]_vars PROVE RegistryInv'
<1>1. ASSUME NEW path \in Paths, NEW name \in Names, AlreadyFound(path, name)
      PROVE  RegistryInv'
  BY <1>1 DEF AlreadyFound, Call, libraries, RegistryInv, RegistryTypes, EntriesMadeMiners, NoneBehind, HandlesOpen
<1>2. ASSUME NEW path \in Paths, NEW name \in Names, NEW params \in Params \cup {Null},
             OpenFails(path, name, params)
      PROVE  RegistryInv'
  BY <1>2 DEF OpenFails, Call, libraries, RegistryInv, RegistryTypes, EntriesMadeMiners, NoneBehind, HandlesOpen
<1>3. ASSUME Destroyed PROVE RegistryInv'
  BY <1>3 DEF Destroyed, libraries, RegistryInv, RegistryTypes, EntriesMadeMiners, NoneBehind, HandlesOpen
<1>4. ASSUME UNCHANGED vars PROVE RegistryInv'
  BY <1>4 DEF vars, RegistryInv, RegistryTypes, EntriesMadeMiners, NoneBehind, HandlesOpen
<1>5. ASSUME NEW path \in Paths, NEW names \in SUBSET Names, Written(path, names)
      PROVE  RegistryInv'
  BY <1>5 DEF Written, RegistryInv, RegistryTypes, EntriesMadeMiners, NoneBehind, HandlesOpen
<1> QED
  BY <1>1, <1>2, <1>3, <1>4, <1>5, SymbolFailsStep, AddStep, DestroyMinersStep, CloseLibraryStep DEF Next

\* The invariant holds at all times.
THEOREM RegistryInvariance == Spec => []RegistryInv
<1>1. Init => RegistryInv
  BY RegistryBegins
<1>2. RegistryInv /\ [Next]_vars => RegistryInv'
  BY RegistryStep
<1> QED BY <1>1, <1>2, PTL DEF Spec

\* Whatever libraries share, and however add_miner_so failed in between: a
\* library is loaded while a miner of it exists or the table has its handle,
\* and destroy closes none twice.
THEOREM LibrariesOpen == Spec => []LibrariesStayOpen
<1>1. RegistryInv => LibrariesStayOpen
  BY LibrariesOpenLemma
<1> QED BY <1>1, RegistryInvariance, PTL

\* Where a name was found there is a miner, or the name is another library's.
LEMMA FoundTruly ==
  ASSUME RegistryInv, NEW path \in Paths, NEW name \in Names, AlreadyFound(path, name)
  PROVE  AnswersTruly'
<1> USE DEF AlreadyFound, Call
<1>1. PICK i \in DOMAIN dlsymbols, j \in DOMAIN dlsymbols :
        dlsymbols[i].path = path /\ i <= j /\ dlsymbols[j].name = name
  BY DEF NameFound, LibraryAt
<1>2. dlsymbols' = dlsymbols /\ miners' = miners
      /\ asked'.path = path /\ asked'.name = name /\ asked'.params = Null
  OBVIOUS
<1>3. CASE dlsymbols[j].path = path
  <2>1. miners[j] # Null \/ dlsymbols[j].params \in Refused
    BY <1>3, RegistryAssumption DEF RegistryInv, EntriesMadeMiners
  <2> QED BY <1>1, <1>2, <1>3, <2>1 DEF AnswersTruly
<1>4. CASE dlsymbols[j].path # path
  <2>1. i < j
    BY <1>1, <1>4, LenProperties DEF RegistryInv, RegistryTypes
  <2> QED BY <1>1, <1>2, <1>4, <2>1 DEF AnswersTruly
<1> QED BY <1>3, <1>4

\* A miner that was added is the last one.
LEMMA AddTruly ==
  ASSUME RegistryInv, NEW path \in Paths, NEW name \in Names, NEW params \in Params \cup {Null},
         Add(path, name, params)
  PROVE  AnswersTruly'
<1> DEFINE entry == [path |-> path, name |-> name, params |-> params, ldptr |-> path]
           miner == IF params \in Refused THEN Null ELSE path
           last  == Len(dlsymbols) + 1
<1>1. dlsymbols \in Seq(Entry) /\ miners \in Seq(Paths \cup {Null}) /\ Len(miners) = Len(dlsymbols)
  BY DEF RegistryInv, RegistryTypes, EntriesMadeMiners, Add, Call
<1>2. entry \in Entry /\ miner \in Paths \cup {Null}
  BY RegistryAssumption DEF Entry
<1>3. dlsymbols' = Append(dlsymbols, entry) /\ miners' = Append(miners, miner)
  BY DEF Add
<1>4. dlsymbols'[last] = entry /\ miners'[last] = miner /\ Len(dlsymbols') = last
  BY <1>1, <1>2, <1>3, AppendProperties
<1>5. last \in DOMAIN dlsymbols'
  BY <1>1, <1>2, <1>3, AppendProperties, LenProperties
<1>6. asked'.path = path /\ asked'.name = name /\ asked'.params = params
  BY DEF Add, Call
<1>7. /\ dlsymbols'[last].path = path /\ dlsymbols'[last].name = name
      /\ dlsymbols'[last].params = params
      /\ miners'[last] # Null \/ dlsymbols'[last].params \in Refused
  BY <1>2, <1>4, RegistryAssumption
<1> QED BY <1>4, <1>5, <1>6, <1>7 DEF AnswersTruly

\* An answer of true is always true, but for its two exceptions.
THEOREM AnswersAreTrue == Spec => []AnswersTruly
<1>1. Init => AnswersTruly
  BY DEF Init, AnswersTruly
<1>2. RegistryInv /\ AnswersTruly /\ [Next]_vars => AnswersTruly'
  <2> SUFFICES ASSUME RegistryInv, AnswersTruly, [Next]_vars PROVE AnswersTruly'
    OBVIOUS
  <2>1. ASSUME NEW path \in Paths, NEW name \in Names, NEW params \in Params \cup {Null},
               OpenFails(path, name, params) \/ SymbolFails(path, name, params)
        PROVE  AnswersTruly'
    BY <2>1 DEF OpenFails, SymbolFails, Call, AnswersTruly
  <2>2. ASSUME DestroyMiners \/ CloseLibrary \/ Destroyed PROVE AnswersTruly'
    BY <2>2 DEF DestroyMiners, CloseLibrary, Destroyed, AnswersTruly
  <2>3. ASSUME UNCHANGED vars PROVE AnswersTruly'
    BY <2>3 DEF vars, AnswersTruly
  <2>4. ASSUME NEW path \in Paths, NEW names \in SUBSET Names, Written(path, names)
        PROVE  AnswersTruly'
    BY <2>4 DEF Written, AnswersTruly
  <2> QED BY <2>1, <2>2, <2>3, <2>4, FoundTruly, AddTruly DEF Next
<1> QED BY <1>1, <1>2, RegistryInvariance, PTL DEF Spec

-----------------------------------------------------------------------------
\* What a module holds are namings that a library may have.
ExprsNamed == exprs \in Seq(Compiled)

LEMMA ExprsNamedStep ==
  ASSUME ExprsNamed, [ModuleNext]_<<vars, moduleVars>> PROVE ExprsNamed'
<1>1. ASSUME NEW regex \in Compiled \cup Failed, AddRegex(regex) PROVE ExprsNamed'
  BY <1>1, AppendProperties DEF AddRegex, ExprsNamed
<1>2. ASSUME exprs' = exprs PROVE ExprsNamed'
  BY <1>2 DEF ExprsNamed
<1> QED
  BY <1>1, <1>2 DEF ModuleNext, Build, StartLoad, LoadNext, LoadReturns, ProgramAdds, moduleVars

\* A step of a module is a step of the table, or none.
LEMMA ModuleStep ==
  ASSUME ExprsNamed, [ModuleNext]_<<vars, moduleVars>> PROVE [Next]_vars
<1> USE RegexModuleAssumption
<1>1. ASSUME NEW path \in Paths, NEW name \in Names, NEW params \in Params \cup {Null},
             AddMinerSo(path, name, params)
      PROVE  Next
  BY <1>1 DEF AddMinerSo, Next
<1>2. CASE LoadNext
  <2>1. exprs[loading] \in Names
    BY <1>2, ElementOfSeq, LenProperties DEF LoadNext, ExprsNamed
  <2> QED BY <1>1, <1>2, <2>1 DEF LoadNext
<1>3. ASSUME NEW call \in OwnCalls, ProgramAdds(call) PROVE Next
  BY <1>1, <1>3 DEF ProgramAdds
<1>4. CASE Build
  <2>1. ToSet(exprs) \in SUBSET Names
    BY ElementOfSeq, LenProperties DEF ToSet, ExprsNamed
  <2> QED BY <1>4, <2>1 DEF Build, Next
<1>5. ASSUME NEW regex \in Compiled \cup Failed, AddRegex(regex) PROVE UNCHANGED vars
  BY <1>5 DEF AddRegex, vars
<1>6. CASE StartLoad \/ LoadReturns \/ UNCHANGED <<vars, moduleVars>>
  BY <1>6 DEF StartLoad, LoadReturns, vars
<1>7. CASE DestroyMiners \/ CloseLibrary \/ Destroyed
  BY <1>7 DEF Next
<1> QED BY <1>2, <1>3, <1>4, <1>5, <1>6, <1>7 DEF ModuleNext

\* Whatever a program builds, and however often it loads: what it does with
\* the extractor is what Registry allows, so that its theorems hold of it.
THEOREM ModuleUsesRegistry == ModuleSpec => Spec
<1>1. ModuleInit => Init /\ ExprsNamed
  BY EmptySeq DEF ModuleInit, ExprsNamed
<1>2. ExprsNamed /\ [ModuleNext]_<<vars, moduleVars>> => ExprsNamed' /\ [Next]_vars
  BY ExprsNamedStep, ModuleStep
<1> QED BY <1>1, <1>2, PTL DEF ModuleSpec, Spec

-----------------------------------------------------------------------------
(* What load answers *)

\* A regex that is not to be had, and those of them that load has passed
Missing(i) == exprs[i] \notin image[ModulePath] /\ ~NameFound(ModulePath, exprs[i])

MissingSoFar == {i \in DOMAIN exprs : i < loading /\ Missing(i)}

\* A library that is not open has no constructors in the program.
ClosedAreEmpty == \A p \in Paths : opens[p] = 0 => image[p] = {}

\* No regex is in a module twice.
ExprsDiffer ==
  /\ \A i \in DOMAIN exprs : exprs[i] \in added
  /\ \A i, j \in DOMAIN exprs : exprs[i] = exprs[j] => i = j

\* During a load the errors it has noted are the regexes since the first that
\* was missing, and from its second turn on the library is as it will stay.
LoadTally ==
  loading > 0 =>
    /\ pc = "open" /\ loading <= Len(exprs) + 1
    /\ loading > 1 => image[ModulePath] = Exported(ModulePath)
    /\ MissingSoFar = {} => ret /\ errors = before
    /\ \A m \in MissingSoFar :
         (\A i \in MissingSoFar : m <= i) => ~ret /\ errors = (before + loading) - m

LoadInv ==
  /\ loading \in Nat /\ errors \in Nat /\ before \in Nat /\ ret \in BOOLEAN
  /\ ExprsNamed /\ ClosedAreEmpty /\ ExprsDiffer /\ LoadTally

\* Appending an entry, a call adds its own name and no other.
LEMMA NamesAppended ==
  ASSUME RegistryTypes, NEW e, e \in Entry, dlsymbols' = Append(dlsymbols, e)
  PROVE  /\ \A name : NameFound(e.path, name) => NameFound(e.path, name)'
         /\ \A name : NameFound(e.path, name)' /\ name # e.name => NameFound(e.path, name)
         /\ NameFound(e.path, e.name)'
<1>. DEFINE n == Len(dlsymbols)
<1>1. /\ n \in Nat /\ DOMAIN dlsymbols = 1 .. n /\ DOMAIN dlsymbols' = 1 .. n + 1
      /\ \A i \in 1 .. n : dlsymbols'[i] = dlsymbols[i]
      /\ dlsymbols'[n + 1] = e
  BY DEF RegistryTypes
<1>. HIDE DEF n
<1>2. LibraryAt(e.path)' = LibraryAt(e.path) \cup {n + 1}
  BY <1>1 DEF LibraryAt
<1>3. LibraryAt(e.path) \subseteq 1 .. n
  BY <1>1 DEF LibraryAt
<1>4. ASSUME NEW name, NameFound(e.path, name)
      PROVE  NameFound(e.path, name)'
  <2>1. PICK i \in LibraryAt(e.path), j \in 1 .. n : i <= j /\ dlsymbols[j].name = name
    BY <1>1, <1>4 DEF NameFound
  <2>2. i \in LibraryAt(e.path)' /\ j \in DOMAIN dlsymbols' /\ dlsymbols'[j].name = name
    BY <2>1, <1>1, <1>2
  <2>. QED  BY <2>1, <2>2 DEF NameFound
<1>5. ASSUME NEW name, NameFound(e.path, name)', name # e.name
      PROVE  NameFound(e.path, name)
  <2>1. PICK i \in LibraryAt(e.path)', j \in DOMAIN dlsymbols' :
          i <= j /\ dlsymbols'[j].name = name
    BY <1>5 DEF NameFound
  <2>2. j \in 1 .. n /\ dlsymbols[j].name = name
    BY <2>1, <1>1, <1>5
  <2>3. i \in LibraryAt(e.path)
    BY <2>1, <2>2, <1>1, <1>2
  <2>. QED  BY <2>1, <2>2, <2>3, <1>1 DEF NameFound
<1>6. NameFound(e.path, e.name)'
  <2>1. n + 1 \in LibraryAt(e.path)' /\ n + 1 \in DOMAIN dlsymbols' /\ n + 1 <= n + 1
    BY <1>1, <1>2
  <2>. QED  BY <2>1, <1>1 DEF NameFound
<1>. QED  BY <1>4, <1>5, <1>6

\* A call of add_miner_so answers true if and only if the name is to be had
\* then, and it takes nothing from what was to be had of the library.
LEMMA CallAnswers ==
  ASSUME RegistryInv, ClosedAreEmpty, NEW path \in Paths, NEW name \in Names, pc = "open",
         AddMinerSo(path, name, Null)
  PROVE  /\ ClosedAreEmpty' /\ pc' = "open"
         /\ image'[path] = Exported(path) /\ Exported(path)' = Exported(path)
         /\ \A x : NameFound(path, x) => NameFound(path, x)'
         /\ \A x : NameFound(path, x)' /\ x # name => NameFound(path, x)
         /\ answer' \in BOOLEAN
         /\ answer' <=> name \in image'[path] \/ NameFound(path, name)'
<1>0. /\ opens \in [Paths -> Nat] /\ image \in [Paths -> SUBSET Names]
      /\ disk \in [Paths -> SUBSET Names] /\ RegistryTypes
  BY DEF RegistryInv, RegistryTypes
<1>1. LibraryFound(path) => opens[path] > 0
  <2>. SUFFICES ASSUME NEW i \in DOMAIN dlsymbols, dlsymbols[i].path = path
                PROVE  opens[path] > 0
    BY DEF LibraryFound, LibraryAt
  <2>1. dlsymbols[i].ldptr = path
    BY DEF RegistryInv, EntriesMadeMiners
  <2>2. path # Null
    BY RegistryAssumption
  <2>. QED  BY <2>1, <2>2 DEF RegistryInv, HandlesOpen
<1>2. NameFound(path, name) => LibraryFound(path)
  BY DEF NameFound, LibraryFound
<1>3. opens[path] > 0 => Exported(path) = image[path]
  BY DEF Exported
<1>4. opens[path] = 0 => image[path] = {} /\ Exported(path) = disk[path]
  BY <1>0 DEF Exported, ClosedAreEmpty
<1>5. opens[path] \in Nat
  BY <1>0
<1>a. ASSUME UNCHANGED <<dlsymbols, libraries, pc>>, image[path] = Exported(path)
      PROVE  /\ ClosedAreEmpty' /\ pc' = "open"
             /\ image'[path] = Exported(path) /\ Exported(path)' = Exported(path)
             /\ \A x : NameFound(path, x)' <=> NameFound(path, x)
  BY <1>a DEF ClosedAreEmpty, Exported, NameFound, LibraryAt, libraries
<1>b. ASSUME Open(path)
      PROVE  ClosedAreEmpty' /\ image'[path] = Exported(path) /\ Exported(path)' = Exported(path)
  <2>1. opens'[path] > 0 /\ image'[path] = Exported(path)
    BY <1>b, <1>0, <1>1, <1>5 DEF Open
  <2>2. \A p \in Paths : p # path => opens'[p] = opens[p] /\ image'[p] = image[p]
    BY <1>b, <1>0 DEF Open
  <2>3. ClosedAreEmpty'
    BY <2>1, <2>2 DEF ClosedAreEmpty
  <2>. QED  BY <2>1, <2>3 DEF Exported
<1>6. CASE AlreadyFound(path, name)
  <2>1. answer' = TRUE /\ NameFound(path, name) /\ UNCHANGED <<dlsymbols, libraries, pc>>
    BY <1>6 DEF AlreadyFound, Call
  <2>2. image[path] = Exported(path)
    BY <2>1, <1>1, <1>2, <1>3
  <2>. QED  BY <2>1, <2>2, <1>a
<1>7. CASE OpenFails(path, name, Null)
  <2>1. /\ answer' = FALSE /\ ~LibraryFound(path) /\ Exported(path) = {}
        /\ UNCHANGED <<dlsymbols, libraries, pc>>
    BY <1>7 DEF OpenFails, Call
  <2>2. image[path] = Exported(path)
    BY <2>1, <1>3, <1>4, <1>5
  <2>. QED  BY <2>1, <2>2, <1>2, <1>a
<1>8. CASE SymbolFails(path, name, Null)
  <2>1. /\ answer' = FALSE /\ ~NameFound(path, name) /\ name \notin Exported(path)
        /\ Open(path) /\ UNCHANGED <<dlsymbols, pc>>
    BY <1>8 DEF SymbolFails, Call
  <2>2. \A x : NameFound(path, x)' <=> NameFound(path, x)
    BY <2>1 DEF NameFound, LibraryAt
  <2>. QED  BY <2>1, <2>2, <1>b
<1>9. CASE Add(path, name, Null)
  <2>1. PICK e : e = [path |-> path, name |-> name, params |-> Null, ldptr |-> path]
    OBVIOUS
  <2>2. e \in Entry /\ e.path = path /\ e.name = name
    BY <2>1 DEF Entry
  <2>3. /\ answer' = TRUE /\ name \in Exported(path) /\ Open(path) /\ pc' = pc
        /\ dlsymbols' = Append(dlsymbols, e)
    BY <1>9, <2>1 DEF Add, Call
  <2>4. /\ \A x : NameFound(path, x) => NameFound(path, x)'
        /\ \A x : NameFound(path, x)' /\ x # name => NameFound(path, x)
        /\ NameFound(path, name)'
    BY <2>2, <2>3, <1>0, NamesAppended
  <2>. QED  BY <2>3, <2>4, <1>b
<1>. QED  BY <1>6, <1>7, <1>8, <1>9 DEF AddMinerSo

\* A turn of load: the regex it is at joins those that are missing if and only
\* if the call answers false, and those behind it stay as they were.
LEMMA LoadNextStep ==
  ASSUME RegistryInv, LoadInv, LoadNext
  PROVE  LoadInv'
<1>. USE DEF LoadInv
<1>1. PICK n, l, name : n = Len(exprs) /\ l = loading /\ name = exprs[loading]
  OBVIOUS
<1>2. /\ n \in Nat /\ DOMAIN exprs = 1 .. n /\ l \in 1 .. n /\ exprs[l] = name
      /\ exprs' = exprs /\ loading' = l + 1 /\ loading = l /\ added' = added
  BY <1>1 DEF LoadNext, ExprsNamed
<1>3. ModulePath \in Paths /\ name \in Names
  <2>1. exprs[l] \in Compiled
    BY <1>2 DEF ExprsNamed
  <2>. QED  BY <1>2, <2>1, RegexModuleAssumption
<1>4. /\ AddMinerSo(ModulePath, name, Null) /\ ret' = (ret /\ answer') /\ before' = before
      /\ errors' = IF ret' THEN errors ELSE errors + 1
  BY <1>1 DEF LoadNext
<1>5. pc = "open"
  BY <1>2 DEF LoadTally
<1>6. /\ ClosedAreEmpty' /\ pc' = "open"
      /\ image'[ModulePath] = Exported(ModulePath)
      /\ Exported(ModulePath)' = Exported(ModulePath)
      /\ \A x : NameFound(ModulePath, x) => NameFound(ModulePath, x)'
      /\ \A x : NameFound(ModulePath, x)' /\ x # name => NameFound(ModulePath, x)
      /\ answer' \in BOOLEAN
      /\ answer' <=> name \in image'[ModulePath] \/ NameFound(ModulePath, name)'
  BY <1>3, <1>4, <1>5, CallAnswers
<1>7. Missing(l)' <=> ~answer'
  BY <1>2, <1>6 DEF Missing
<1>8. ASSUME NEW i \in 1 .. n, i < l PROVE Missing(i)' <=> Missing(i)
  <2>1. exprs[i] # name /\ exprs'[i] = exprs[i]
    BY <1>2, <1>8 DEF ExprsDiffer
  <2>2. image'[ModulePath] = image[ModulePath]
    <3>1. l > 1
      BY <1>2, <1>8
    <3>. QED  BY <3>1, <1>2, <1>6 DEF LoadTally
  <2>3. NameFound(ModulePath, exprs[i])' <=> NameFound(ModulePath, exprs[i])
    <3>1. PICK x : x = exprs[i]
      OBVIOUS
    <3>2. NameFound(ModulePath, x)' <=> NameFound(ModulePath, x)
      BY <3>1, <2>1, <1>6
    <3>3. NameFound(ModulePath, exprs[i])' <=> NameFound(ModulePath, x)'
      BY <3>1, <2>1 DEF NameFound, LibraryAt
    <3>. QED  BY <3>1, <3>2, <3>3
  <2>. QED  BY <2>1, <2>2, <2>3 DEF Missing
<1>9. MissingSoFar' = IF answer' THEN MissingSoFar ELSE MissingSoFar \cup {l}
  <2>1. \A i : i \in MissingSoFar' <=> i \in 1 .. n /\ i < l + 1 /\ Missing(i)'
    BY <1>2 DEF MissingSoFar
  <2>2. \A i : i \in MissingSoFar <=> i \in 1 .. n /\ i < l /\ Missing(i)
    BY <1>2 DEF MissingSoFar
  <2>3. \A i \in 1 .. n : i < l + 1 <=> i < l \/ i = l
    BY <1>2
  <2>4. l \in 1 .. n /\ ~ (l < l)
    BY <1>2
  <2>5. ASSUME NEW i PROVE i \in MissingSoFar' <=> i \in MissingSoFar \/ (i = l /\ ~answer')
    <3>1. CASE i = l
      BY <3>1, <2>1, <2>2, <2>3, <2>4, <1>7
    <3>2. CASE i # l
      BY <3>2, <2>1, <2>2, <2>3, <1>8
    <3>. QED  BY <3>1, <3>2
  <2>. QED  BY <2>5, <1>6
<1>10. ret \in BOOLEAN /\ errors \in Nat /\ before \in Nat /\ l \in Nat /\ l > 0
  BY <1>2
<1>11. \A i \in MissingSoFar : i \in Nat /\ i < l
  BY <1>2 DEF MissingSoFar
<1>12. ASSUME MissingSoFar = {} PROVE LoadTally'
  <2>1. ret /\ errors = before
    BY <1>12, <1>2, <1>10 DEF LoadTally
  <2>2. CASE answer'
    <3>1. MissingSoFar' = {} /\ ret' /\ errors' = before'
      BY <2>1, <2>2, <1>4, <1>9, <1>12
    <3>. QED  BY <3>1, <1>2, <1>6 DEF LoadTally
  <2>3. CASE ~answer'
    <3>1. MissingSoFar' = {l} /\ ~ret' /\ errors' = before + 1
      BY <2>1, <2>3, <1>4, <1>9, <1>12
    <3>2. (before + (l + 1)) - l = before + 1
      BY <1>10
    <3>. QED  BY <3>1, <3>2, <1>2, <1>4, <1>6 DEF LoadTally
  <2>. QED  BY <2>2, <2>3, <1>6
<1>13. ASSUME MissingSoFar # {} PROVE LoadTally'
  <2>1. PICK i \in MissingSoFar : i < l /\ i \in Nat
    BY <1>11, <1>13
  <2>2. MissingSoFar' # {}
    BY <1>9, <1>13
  <2>3. ASSUME NEW m \in MissingSoFar', \A k \in MissingSoFar' : m <= k
        PROVE  ~ret' /\ errors' = (before' + loading') - m
    <3>1. MissingSoFar \subseteq MissingSoFar'
      BY <1>9
    <3>2. m \in MissingSoFar /\ \A k \in MissingSoFar : m <= k
      <4>1. m # l
        BY <2>1, <2>3, <3>1, <1>10
      <4>. QED  BY <4>1, <2>3, <3>1, <1>9
    <3>3. ~ret /\ errors = (before + l) - m
      BY <3>2, <1>2, <1>10 DEF LoadTally
    <3>4. m \in Nat
      BY <3>2, <1>11
    <3>5. ~ret' /\ errors' = errors + 1
      BY <3>3, <1>4
    <3>. QED  BY <3>3, <3>4, <3>5, <1>2, <1>4, <1>10
  <2>. QED  BY <2>2, <2>3, <1>2, <1>6 DEF LoadTally
<1>14. LoadTally'
  BY <1>12, <1>13
<1>15. loading' \in Nat /\ errors' \in Nat /\ before' \in Nat /\ ret' \in BOOLEAN
  BY <1>2, <1>4, <1>6, <1>10
<1>16. ExprsNamed' /\ ExprsDiffer'
  BY <1>2 DEF ExprsNamed, ExprsDiffer
<1>. QED  BY <1>6, <1>14, <1>15, <1>16

\* dlopen and dlclose keep it so that what is not open has no constructors.
LEMMA OpenKeepsClosed ==
  ASSUME RegistryInv, ClosedAreEmpty, pc = "open", NEW path \in Paths, Open(path)
  PROVE  ClosedAreEmpty'
<1>1. opens \in [Paths -> Nat] /\ image \in [Paths -> SUBSET Names]
  BY DEF RegistryInv, RegistryTypes
<1>2. LibraryFound(path) => opens[path] > 0
  <2>. SUFFICES ASSUME NEW i \in DOMAIN dlsymbols, dlsymbols[i].path = path
                PROVE  opens[path] > 0
    BY DEF LibraryFound, LibraryAt
  <2>1. dlsymbols[i].ldptr = path /\ path # Null
    BY RegistryAssumption DEF RegistryInv, EntriesMadeMiners
  <2>. QED  BY <2>1 DEF RegistryInv, HandlesOpen
<1>3. opens'[path] > 0
  BY <1>1, <1>2 DEF Open
<1>4. \A p \in Paths : p # path => opens'[p] = opens[p] /\ image'[p] = image[p]
  BY <1>1 DEF Open
<1>. QED  BY <1>3, <1>4 DEF ClosedAreEmpty

LEMMA CloseKeepsClosed ==
  ASSUME RegistryInv, ClosedAreEmpty, CloseLibrary PROVE ClosedAreEmpty'
<1>1. /\ opens \in [Paths -> Nat] /\ image \in [Paths -> SUBSET Names] /\ RegistryTypes
      /\ closing \in Nat \ {0}
  BY DEF RegistryInv, RegistryTypes
<1>2. closing \in DOMAIN dlsymbols
  BY <1>1 DEF CloseLibrary, RegistryTypes
<1>3. PICK p : p = dlsymbols[closing].ldptr
  OBVIOUS
<1>4. p \in Paths \cup {Null}
  BY <1>1, <1>2, <1>3, HandleOfLibrary
<1>5. CASE p = Null
  BY <1>3, <1>5 DEF CloseLibrary, ClosedAreEmpty
<1>6. CASE p # Null
  <2>1. p \in Paths
    BY <1>4, <1>6
  <2>2. opens' = [opens EXCEPT ![p] = @ - 1]
        /\ image' = IF opens[p] = 1 THEN [image EXCEPT ![p] = {}] ELSE image
    BY <1>3, <1>6 DEF CloseLibrary
  <2>3. opens'[p] = 0 => image'[p] = {}
    <3>1. opens[p] \in Nat /\ opens'[p] = opens[p] - 1
      BY <2>1, <2>2, <1>1
    <3>. QED  BY <3>1, <2>1, <2>2, <1>1
  <2>4. \A q \in Paths : q # p => opens'[q] = opens[q] /\ image'[q] = image[q]
    BY <2>2, <1>1
  <2>. QED  BY <2>3, <2>4 DEF ClosedAreEmpty
<1>. QED  BY <1>5, <1>6

\* Any step of the program: it tells a turn of load from the other steps.
LEMMA LoadStep ==
  ASSUME RegistryInv, LoadInv, [ModuleNext]_<<vars, moduleVars>>
  PROVE  LoadInv'
<1>0. /\ loading \in Nat /\ errors \in Nat /\ before \in Nat /\ ret \in BOOLEAN
      /\ ExprsNamed /\ ClosedAreEmpty /\ ExprsDiffer /\ LoadTally
  BY DEF LoadInv
<1>1. ASSUME UNCHANGED moduleVars, loading = 0, ClosedAreEmpty' PROVE LoadInv'
  BY <1>0, <1>1 DEF LoadInv, moduleVars, ExprsNamed, ExprsDiffer, LoadTally
<1>2. ASSUME UNCHANGED <<vars, moduleVars>> PROVE LoadInv'
  <2>1. ClosedAreEmpty'
    BY <1>0, <1>2 DEF ClosedAreEmpty, vars
  <2>2. LoadTally'
    <3>1. MissingSoFar' = MissingSoFar
      BY <1>2 DEF MissingSoFar, Missing, NameFound, LibraryAt, vars, moduleVars
    <3>2. image'[ModulePath] = image[ModulePath] /\ Exported(ModulePath)' = Exported(ModulePath)
      BY <1>2 DEF Exported, vars
    <3>3. /\ loading' = loading /\ pc' = pc /\ exprs' = exprs /\ ret' = ret
          /\ errors' = errors /\ before' = before
      BY <1>2 DEF vars, moduleVars
    <3>. QED  BY <1>0, <3>1, <3>2, <3>3 DEF LoadTally
  <2>. QED  BY <1>0, <1>2, <2>1, <2>2 DEF LoadInv, moduleVars, ExprsNamed, ExprsDiffer
<1>3. ASSUME NEW regex \in Compiled \cup Failed, AddRegex(regex) PROVE LoadInv'
  <2>1. /\ loading = 0 /\ loading' = 0 /\ before' = before /\ ret' = ret
        /\ regex \notin added /\ added' = added \cup {regex} /\ UNCHANGED vars
    BY <1>3 DEF AddRegex, Idle
  <2>2. errors' \in Nat /\ ClosedAreEmpty' /\ LoadTally'
    BY <2>1, <1>0, <1>3 DEF AddRegex, ClosedAreEmpty, LoadTally, vars
  <2>3. ExprsNamed'
    BY <1>0, <1>3, ExprsNamedStep DEF ModuleNext
  <2>4. ExprsDiffer'
    <3>1. CASE exprs' = exprs
      BY <3>1, <2>1, <1>0 DEF ExprsDiffer
    <3>2. CASE exprs' = Append(exprs, regex)
      <4>1. PICK n : n = Len(exprs)
        OBVIOUS
      <4>2. /\ n \in Nat /\ DOMAIN exprs = 1 .. n /\ DOMAIN exprs' = 1 .. n + 1
            /\ \A i \in 1 .. n : exprs'[i] = exprs[i]
            /\ exprs'[n + 1] = regex
        BY <4>1, <3>2, <1>0 DEF ExprsNamed
      <4>3. \A i \in 1 .. n + 1 : i \in 1 .. n \/ i = n + 1
        BY <4>2
      <4>4. \A i \in 1 .. n : exprs[i] \in added /\ exprs[i] # regex
        BY <4>2, <2>1, <1>0 DEF ExprsDiffer
      <4>5. \A i, j \in 1 .. n : exprs[i] = exprs[j] => i = j
        BY <4>2, <1>0 DEF ExprsDiffer
      <4>6. \A i \in 1 .. n + 1 : exprs'[i] \in added'
        BY <4>2, <4>3, <4>4, <2>1
      <4>7. \A i, j \in 1 .. n + 1 : exprs'[i] = exprs'[j] => i = j
        BY <4>2, <4>3, <4>4, <4>5
      <4>. QED  BY <4>2, <4>6, <4>7 DEF ExprsDiffer
    <3>. QED  BY <3>1, <3>2, <1>3 DEF AddRegex
  <2>. QED  BY <2>1, <2>2, <2>3, <2>4, <1>0 DEF LoadInv
<1>4. CASE Build
  <2>1. /\ loading = 0 /\ loading' = 0 /\ before' = before /\ ret' = ret /\ added' = added
        /\ exprs' = exprs /\ UNCHANGED <<image, opens>>
    BY <1>4 DEF Build, Idle, Written, vars
  <2>2. errors' \in Nat
    BY <1>0, <1>4 DEF Build
  <2>. QED  BY <2>1, <2>2, <1>0 DEF LoadInv, ExprsNamed, ExprsDiffer, ClosedAreEmpty, LoadTally
<1>5. CASE StartLoad
  <2>1. /\ loading' = 1 /\ ret' = TRUE /\ before' = errors /\ errors' = errors /\ pc' = "open"
        /\ exprs' = exprs /\ added' = added /\ UNCHANGED <<image, opens>>
    BY <1>5 DEF StartLoad, Idle, vars
  <2>2. MissingSoFar' = {}
    BY <2>1, <1>0 DEF MissingSoFar, ExprsNamed
  <2>3. Len(exprs) \in Nat
    BY <1>0 DEF ExprsNamed
  <2>4. LoadTally'
    BY <2>1, <2>2, <2>3 DEF LoadTally
  <2>. QED  BY <2>1, <2>4, <1>0 DEF LoadInv, ExprsNamed, ExprsDiffer, ClosedAreEmpty
<1>6. CASE LoadNext
  BY <1>6, LoadNextStep
<1>7. CASE LoadReturns
  <2>1. loading' = 0 /\ UNCHANGED <<exprs, added, errors, before, ret, image, opens>>
    BY <1>7 DEF LoadReturns, vars
  <2>. QED  BY <2>1, <1>0 DEF LoadInv, ExprsNamed, ExprsDiffer, ClosedAreEmpty, LoadTally
<1>8. ASSUME NEW call \in OwnCalls, ProgramAdds(call) PROVE LoadInv'
  <2>1. /\ loading = 0 /\ pc = "open" /\ UNCHANGED moduleVars /\ call.path \in Paths
        /\ AddMinerSo(call.path, call.name, call.params)
    BY <1>8, RegexModuleAssumption DEF ProgramAdds, Idle
  <2>2. UNCHANGED <<image, opens>> \/ Open(call.path)
    BY <2>1 DEF AddMinerSo, AlreadyFound, OpenFails, SymbolFails, Add, libraries
  <2>3. ClosedAreEmpty'
    BY <2>1, <2>2, <1>0, OpenKeepsClosed DEF ClosedAreEmpty
  <2>. QED  BY <1>1, <2>1, <2>3
<1>9. CASE loading = 0 /\ DestroyMiners /\ UNCHANGED moduleVars
  BY <1>0, <1>1, <1>9 DEF DestroyMiners, libraries, ClosedAreEmpty
<1>10. ASSUME pc # "open" PROVE loading = 0
  BY <1>0, <1>10 DEF LoadTally
<1>11. CASE CloseLibrary /\ UNCHANGED moduleVars
  <2>1. pc # "open"
    BY <1>11 DEF CloseLibrary
  <2>. QED  BY <2>1, <1>0, <1>1, <1>10, <1>11, CloseKeepsClosed
<1>12. CASE Destroyed /\ UNCHANGED moduleVars
  <2>1. pc # "open" /\ ClosedAreEmpty'
    BY <1>0, <1>12 DEF Destroyed, libraries, ClosedAreEmpty
  <2>. QED  BY <2>1, <1>1, <1>10, <1>12
<1>. QED
  BY <1>2, <1>3, <1>4, <1>5, <1>6, <1>7, <1>8, <1>9, <1>11, <1>12 DEF ModuleNext

\* What the tally means once load is behind the last regex
LEMMA TallyAnswers == ASSUME RegistryInv, LoadInv PROVE LoadAnswers
<1>. SUFFICES ASSUME loading > Len(exprs) PROVE LoadAnswers
  BY DEF LoadAnswers
<1>1. /\ Len(exprs) \in Nat /\ DOMAIN exprs = 1 .. Len(exprs)
      /\ loading \in Nat /\ LoadTally
  BY DEF LoadInv, ExprsNamed
<1>2. loading = Len(exprs) + 1 /\ loading > 0
  BY <1>1 DEF LoadTally
<1>3. MissingSoFar = {i \in DOMAIN exprs : /\ exprs[i] \notin image[ModulePath]
                                           /\ ~NameFound(ModulePath, exprs[i])}
  BY <1>1, <1>2 DEF MissingSoFar, Missing
<1>4. before \in Nat /\ errors \in Nat
  BY DEF LoadInv
<1>5. CASE MissingSoFar = {}
  BY <1>1, <1>2, <1>3, <1>4, <1>5 DEF LoadAnswers, LoadTally
<1>6. CASE MissingSoFar # {}
  <2>1. PICK T : T = MissingSoFar
    OBVIOUS
  <2>2. T \subseteq Nat /\ T # {}
    BY <1>1, <1>6, <2>1 DEF MissingSoFar
  <2>3. \E x \in T : \A y \in T : x <= y
    BY <2>2, LeastExists
  <2>4. Min(T) \in T /\ \A y \in T : Min(T) <= y
    BY <2>3 DEF Min
  <2>5. ~ret /\ errors = (before + loading) - Min(T)
    BY <2>1, <2>4, <1>1, <1>2 DEF LoadTally
  <2>6. errors = before + (Len(exprs) + 1 - Min(T))
    <3>1. Min(T) \in Nat
      BY <2>2, <2>4
    <3>. QED  BY <3>1, <2>5, <1>1, <1>2, <1>4
  <2>. QED  BY <2>1, <2>2, <2>5, <2>6, <1>3 DEF LoadAnswers
<1>. QED  BY <1>5, <1>6

\* load answers 1 if and only if every regex of the module was in the library
\* as the program opened it first, and notes an error for the first that is
\* missing and each behind it: for any module and any libraries, built, loaded
\* and added to any number of times (regex_module_load).
THEOREM LoadsAnswerTruly == ModuleSpec => []LoadAnswers
<1>1. ModuleInit => LoadInv
  <2>1. ModuleInit => ClosedAreEmpty
    BY DEF ModuleInit, Init, ClosedAreEmpty
  <2>2. ModuleInit => ExprsNamed /\ ExprsDiffer /\ LoadTally
    BY EmptySeq DEF ModuleInit, ExprsNamed, ExprsDiffer, LoadTally
  <2>. QED  BY <2>1, <2>2 DEF ModuleInit, LoadInv
<1>2. RegistryInv /\ LoadInv /\ [ModuleNext]_<<vars, moduleVars>> => LoadInv'
  BY LoadStep
<1>3. RegistryInv /\ LoadInv => LoadAnswers
  BY TallyAnswers
<1>4. ModuleSpec => []RegistryInv
  BY ModuleUsesRegistry, RegistryInvariance, PTL
<1>. QED  BY <1>1, <1>2, <1>3, <1>4, PTL DEF ModuleSpec
===============================================================================
