------------------------------- MODULE Registry -------------------------------
(***************************************************************************)
(* The miners an extractor loads at run time: extractor_c_add_miner_from_so *)
(* with its table dlsymbols, and the part of extractor_c_destroy that       *)
(* closes the libraries.  Both run under mutex_extractor from end to end    *)
(* except for set_last_error, which takes it again.                         *)
(*                                                                         *)
(* dlopen answers for a library that is open with what it read when it     *)
(* opened it first, whatever the file has become since.                    *)
(***************************************************************************)
EXTENDS Integers, Sequences

CONSTANTS
  Paths,        \* what may be passed as path of a library
  Names,        \* names of constructors
  Files,        \* Files[p]: the constructors the library at p has at first, {}
                \* where dlopen finds none
  Params,       \* parameters other than NULL
  Refused,      \* those for which a constructor returns NULL
  Null,
  MaxAdds       \* bound: calls of add_miner_so

ASSUME RegistryAssumption ==
  /\ Files \in [Paths -> SUBSET Names]
  /\ Refused \subseteq Params /\ Null \notin Params \cup Paths
  /\ MaxAdds \in Nat

VARIABLES
  dlsymbols,    \* the table: path, name, params and handle of what was added
  miners,       \* one entry per miner: the library its code is in, or NULL
  disk,         \* disk[p]: the constructors of the library at p now
  image,        \* image[p]: those it has in the program, {} while not open
  opens,        \* opens[p]: calls of dlopen on p not undone by dlclose
  last_error,
  pc, closing,  \* destroy, and its index into dlsymbols
  asked, answer,
  adds

vars == <<dlsymbols, miners, disk, image, opens, last_error, pc, closing, asked, answer, adds>>

libraries == <<disk, image, opens>>

NoCall == [path |-> Null, name |-> Null, params |-> Null]

Init ==
  /\ dlsymbols = <<>> /\ miners = <<>>
  /\ disk = Files
  /\ image = [p \in Paths |-> {}] /\ opens = [p \in Paths |-> 0]
  /\ last_error = FALSE
  /\ pc = "open" /\ closing = 1
  /\ asked = NoCall /\ answer = TRUE
  /\ adds = 0

-----------------------------------------------------------------------------
(* add_miner_so *)

\* The walk finds the library at its first entry, and the name at any entry
\* from there on, whatever library that entry is of.
LibraryAt(path) == {i \in DOMAIN dlsymbols : dlsymbols[i].path = path}

LibraryFound(path) == LibraryAt(path) # {}

\* [faulty] The name is looked for in the whole table.
NameFoundAnywhere(path, name) == \E j \in DOMAIN dlsymbols : dlsymbols[j].name = name

NameFound(path, name) ==
  \E i \in LibraryAt(path), j \in DOMAIN dlsymbols : i <= j /\ dlsymbols[j].name = name

Call(path, name, params, value) ==
  /\ pc = "open" /\ adds < MaxAdds
  /\ asked' = [path |-> path, name |-> name, params |-> params]
  /\ answer' = value
  /\ adds' = adds + 1

AlreadyFound(path, name) ==
  /\ Call(path, name, Null, TRUE)
  /\ NameFound(path, name)
  /\ UNCHANGED <<dlsymbols, miners, libraries, last_error, pc, closing>>

\* What dlsym finds in the library, if dlopen opens it
Exported(path) == IF opens[path] > 0 THEN image[path] ELSE disk[path]

\* dlopen, unless the table has the library's handle
Open(path) ==
  /\ opens' = IF LibraryFound(path) THEN opens ELSE [opens EXCEPT ![path] = @ + 1]
  /\ image' = [image EXCEPT ![path] = Exported(path)]
  /\ UNCHANGED disk

OpenFails(path, name, params) ==
  /\ Call(path, name, params, FALSE)
  /\ ~LibraryFound(path) /\ Exported(path) = {}
  /\ last_error' = TRUE
  /\ UNCHANGED <<dlsymbols, miners, libraries, pc, closing>>

SymbolFails(path, name, params) ==
  /\ Call(path, name, params, FALSE)
  /\ params # Null \/ ~NameFound(path, name)
  /\ Exported(path) # {} /\ name \notin Exported(path)
  /\ Open(path)
  /\ last_error' = TRUE
  /\ UNCHANGED <<dlsymbols, miners, pc, closing>>

Add(path, name, params) ==
  /\ Call(path, name, params, TRUE)
  /\ params # Null \/ ~NameFound(path, name)
  /\ name \in Exported(path)
  /\ Open(path)
  /\ dlsymbols' = Append(dlsymbols,
       [path |-> path, name |-> name, params |-> params, ldptr |-> path])
  /\ miners' = Append(miners, IF params \in Refused THEN Null ELSE path)
  /\ UNCHANGED <<last_error, pc, closing>>

-----------------------------------------------------------------------------
(* destroy *)

\* The miners are destroyed before the first library is closed; a NULL one
\* would be dereferenced.
DestroyMiners ==
  /\ pc = "open"
  /\ \A i \in DOMAIN miners : miners[i] # Null
  /\ miners' = <<>>
  /\ pc' = "closing" /\ closing' = 1
  /\ UNCHANGED <<dlsymbols, libraries, last_error, asked, answer, adds>>

\* [faulty] Only the entry itself is struck out.
StruckOutOnce(ldptr) == [dlsymbols EXCEPT ![closing].ldptr = Null]

StruckOut(ldptr) ==
  [i \in DOMAIN dlsymbols |->
     IF i >= closing /\ dlsymbols[i].ldptr = ldptr
     THEN [dlsymbols[i] EXCEPT !.ldptr = Null] ELSE dlsymbols[i]]

\* An entry whose handle is still there: all its uses are struck out, then it
\* is closed once.
CloseLibrary ==
  /\ pc = "closing" /\ closing <= Len(dlsymbols)
  /\ LET ldptr == dlsymbols[closing].ldptr
     IN IF ldptr = Null THEN UNCHANGED <<dlsymbols, image, opens>>
        ELSE /\ dlsymbols' = StruckOut(ldptr)
             /\ opens' = [opens EXCEPT ![ldptr] = @ - 1]
             /\ image' = IF opens[ldptr] = 1 THEN [image EXCEPT ![ldptr] = {}] ELSE image
  /\ closing' = closing + 1
  /\ UNCHANGED <<miners, disk, last_error, pc, asked, answer, adds>>

Destroyed ==
  /\ pc = "closing" /\ closing > Len(dlsymbols)
  /\ pc' = "gone"
  /\ UNCHANGED <<dlsymbols, miners, libraries, last_error, closing, asked, answer, adds>>

\* Somebody writes a library: RegexModule does.
Written(path, names) ==
  /\ disk' = [disk EXCEPT ![path] = names]
  /\ UNCHANGED <<dlsymbols, miners, image, opens, last_error, pc, closing, asked, answer, adds>>

Next ==
  \/ \E path \in Paths, name \in Names :
       \/ AlreadyFound(path, name)
       \/ \E params \in Params \cup {Null} :
            \/ OpenFails(path, name, params) \/ SymbolFails(path, name, params)
            \/ Add(path, name, params)
  \/ DestroyMiners \/ CloseLibrary \/ Destroyed
  \/ \E path \in Paths, names \in SUBSET Names : Written(path, names)
  \/ pc = "gone" /\ UNCHANGED vars

Spec == Init /\ [][Next]_vars

-----------------------------------------------------------------------------
\* As long as a miner exists its library is loaded: the miner's functions and
\* its name are inside it.  A handle the table still holds is of an open
\* library, also while destroy closes them: none is closed twice, however many
\* entries share it.
LibrariesStayOpen ==
  /\ \A i \in DOMAIN miners : miners[i] # Null => opens[miners[i]] > 0
  /\ \A i \in DOMAIN dlsymbols : dlsymbols[i].ldptr # Null => opens[dlsymbols[i].ldptr] > 0

\* An answer of true means that there is a miner, made by the constructor
\* asked for in the library asked for: with two exceptions.  The constructor
\* may have given NULL; and the walk over the table takes the name from an
\* entry of any library, if that was added after one of the library asked for,
\* and then adds no miner.
AnswersTruly ==
  pc = "open" /\ answer /\ asked # NoCall =>
    \/ \E i \in DOMAIN dlsymbols :
         /\ dlsymbols[i].path = asked.path /\ dlsymbols[i].name = asked.name
         /\ miners[i] # Null \/ dlsymbols[i].params \in Refused
         /\ asked.params # Null => i = Len(dlsymbols) /\ dlsymbols[i].params = asked.params
    \/ /\ asked.params = Null
       /\ \E i, j \in DOMAIN dlsymbols :
            /\ i < j /\ dlsymbols[i].path = asked.path
            /\ dlsymbols[j].path # asked.path /\ dlsymbols[j].name = asked.name
===============================================================================
