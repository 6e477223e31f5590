------------------------------ MODULE RegexModule ------------------------------
(***************************************************************************)
(* regex_module_c: regexes are added to a module, a library is built from  *)
(* their code, and an extractor loads it with one call of add_miner_so per  *)
(* regex.  A program may add, build and load again, and call add_miner_so   *)
(* itself.  Every step is one of Registry, or leaves that alone.           *)
(* [faulty] marks an operator with a bug, as in module Extractor.           *)
(***************************************************************************)
EXTENDS Registry, FiniteSetsExt, SequencesExt

CONSTANTS
  Compiled,     \* the namings of the regexes that regex_compile took
  Failed,       \* those of the others, which have errors instead
  Valid,        \* those with code that the C compiler takes
  ModulePath,   \* so_path
  OwnCalls,     \* what the program passes to add_miner_so itself
  MaxErrors     \* bound: with as many a program builds and loads no more

ASSUME RegexModuleAssumption ==
  /\ Valid \subseteq Compiled /\ Compiled \subseteq Names
  /\ ModulePath \in Paths
  /\ OwnCalls \subseteq [path : Paths, name : Names, params : Params \cup {Null}]

VARIABLES
  added,        \* history: regexes passed to add_regex, each once
  exprs, state,
  errors,       \* how many there are
  built,        \* so_path is set
  loading,      \* the regex that load is at, or 0
  ret, before   \* what load will return, and errors when it began

moduleVars == <<added, exprs, state, errors, built, loading, ret, before>>

ModuleInit ==
  /\ Init
  /\ added = {} /\ exprs = <<>> /\ state = 1 /\ errors = 0 /\ built = FALSE
  /\ loading = 0 /\ ret = TRUE /\ before = 0

Idle == pc = "open" /\ loading = 0

\* A regex that was not compiled leaves only its errors.
AddRegex(regex) ==
  /\ Idle /\ regex \notin added
  /\ added' = added \cup {regex}
  /\ IF regex \in Compiled
     THEN exprs' = Append(exprs, regex) /\ UNCHANGED errors
     ELSE errors' = errors + 1 /\ UNCHANGED exprs
  /\ UNCHANGED <<vars, state, built, loading, ret, before>>

\* A build that fails leaves the library that was there.
Build ==
  /\ Idle /\ exprs # <<>> /\ errors < MaxErrors
  /\ built' = TRUE
  /\ IF ToSet(exprs) \subseteq Valid
     THEN Written(ModulePath, ToSet(exprs)) /\ UNCHANGED <<state, errors>>
     ELSE state' = 0 /\ errors' = errors + 1 /\ UNCHANGED vars
  /\ UNCHANGED <<added, exprs, loading, ret, before>>

StartLoad ==
  /\ Idle /\ built /\ errors < MaxErrors
  /\ loading' = 1 /\ ret' = TRUE /\ before' = errors
  /\ UNCHANGED <<vars, added, exprs, state, errors, built>>

\* A call of add_miner_so by whoever may call it
AddMinerSo(path, name, params) ==
  \/ params = Null /\ AlreadyFound(path, name)
  \/ OpenFails(path, name, params)
  \/ SymbolFails(path, name, params)
  \/ Add(path, name, params)

\* [faulty] Only the last answer counts.
LoadNextForgets ==
  /\ loading \in DOMAIN exprs
  /\ AddMinerSo(ModulePath, exprs[loading], Null)
  /\ ret' = answer'
  /\ errors' = IF ret' THEN errors ELSE errors + 1
  /\ loading' = loading + 1
  /\ UNCHANGED <<added, exprs, state, built, before>>

\* Once a call has failed an error is noted for every regex that follows.
LoadNext ==
  /\ loading \in DOMAIN exprs
  /\ AddMinerSo(ModulePath, exprs[loading], Null)
  /\ ret' = (ret /\ answer')
  /\ errors' = IF ret' THEN errors ELSE errors + 1
  /\ loading' = loading + 1
  /\ UNCHANGED <<added, exprs, state, built, before>>

LoadReturns ==
  /\ loading > Len(exprs)
  /\ loading' = 0
  /\ UNCHANGED <<vars, added, exprs, state, errors, built, ret, before>>

ProgramAdds(call) ==
  /\ Idle
  /\ AddMinerSo(call.path, call.name, call.params)
  /\ UNCHANGED moduleVars

ModuleNext ==
  \/ \E regex \in Compiled \cup Failed : AddRegex(regex)
  \/ Build
  \/ StartLoad \/ LoadNext \/ LoadReturns
  \/ \E call \in OwnCalls : ProgramAdds(call)
  \/ loading = 0 /\ DestroyMiners /\ UNCHANGED moduleVars
  \/ CloseLibrary /\ UNCHANGED moduleVars
  \/ Destroyed /\ UNCHANGED moduleVars
  \/ pc = "gone" /\ UNCHANGED <<vars, moduleVars>>

ModuleSpec == ModuleInit /\ [][ModuleNext]_<<vars, moduleVars>>

-----------------------------------------------------------------------------
\* load answers 1 if and only if each regex is in the library as the program
\* opened it first, however often it was built since: an extractor never gets
\* what a later build has added, nor what a failed one would have, though
\* build is asked to be called before.  (Or the walk found the naming at an
\* entry of another library.)  It notes an error for the first that is missing
\* and for all behind it, also those that are there.
LoadAnswers ==
  loading > Len(exprs) =>
    LET missing == {i \in DOMAIN exprs : /\ exprs[i] \notin image[ModulePath]
                                         /\ ~NameFound(ModulePath, exprs[i])}
    IN /\ ret <=> missing = {}
       /\ errors = before + IF missing = {} THEN 0 ELSE Len(exprs) + 1 - Min(missing)
===============================================================================
