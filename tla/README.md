# NativeExtractor: models, checks and proofs

NativeExtractor finds occurrences of entities in a UTF-8 text. A program makes
an *extractor*, gives it *miners* (statically, or by name from shared
libraries), sets a *stream* and calls `next(batch)` until the stream is at its
end; each call scans the next `batch` characters with every miner, in threads,
and returns an array of occurrences.

The modules here are TLA+ specifications of that code. TLC checks them on small
instances (the `.cfg` files), TLAPS proves theorems about the thread pool, the
streams, a miner's scan, the matchers of globs and names, the CSV parser, the
filter and the libraries for every value of their constants. `PROJECT.json` maps
every definition to the lines it models and lists the runs, the theorems, the
findings and the hazards.

## 1. Inventory

| Part | Source | State | Operations | Hard because |
|---|---|---|---|---|
| extractor | `src/src/extractor.c` | mutexes `mutex_extractor`, `mutex_pout`, `mutex_targs`; semaphores `sem_targs`, `sem_main`; the stack `targs`; `miners`, `stream`, `flags`, `last_max`, `terminate_p` | `extractor_c_new`, `add_miner_so`, `set_stream`, `unset_stream`, `set_flags`, `next`, `destroy`, the thread function | threads share a stack of jobs, one result array and the miners; one semaphore serves two protocols; results of a batch depend on what earlier batches did |
| miner registry | `extractor.c` 307-401, 425-453 | `dlsymbols`: path, name, params and handle per miner | the walk of `add_miner_so`, the closing loop of `destroy` | entries share handles; several ways to fail half-way |
| occurrence filter | `extractor.c` 145-203 | an array, labels set to NULL as marks | two nested loops, then packing in place | pairs are skipped once one side is marked; cells are freed while the array is packed |
| stream | `src/src/stream.c`, `stream.h` | `pos`, `unicode_offset`, flags | open, `move`, `next_char`, `prev_char`, `sync` | symbols of one to four bytes, both ends, a text cut inside a symbol |
| miner | `src/src/miner.c` | its own stream copy, marks `start`, `end`, and `end_last`, `pos_last` | `run`, `mark_*`, `reset_pos`, `move`, `match_*`, `make_occurrence` | arbitrary matchers call these in any order; the stream is put back at every batch |
| glob miner | `src/src/miners/glob_entities.c` | the glob in `params`, the miner's `end_last` and marks, saved and put back around each inner call | `match_glob_impl`, which calls itself for what follows a `*` | every level changes what the level above goes on with; where a failed run stops decides where the next one starts |
| trie | `src/src/patricia.c` | nodes, edges into a lookup string | insert, search, get, set, save, load | edge splits, two search methods, prefix matches |
| named entities | `src/src/ner.c`, `patricia_miner.c` | a trie | `match_named_entity`; making a miner from a CSV file | a token is accepted by how much of it the trie knows |
| CSV parser | `src/src/csv_parser.c` | a miner, three flags for how the last field ended, a byte array with an iterator | `match_csv`, the loop of `csv_parser_parse`, `csv_batch_*` | parsing goes on in the middle of a text; end of text after a delimiter; lengths are written as `size_t` and read as one byte |
| finite automaton | `src/src/finite_automaton.c` | nodes with chained edges, a list of mappings | adding nodes and edges, the powerset construction | a recursion that extends what its callers are working on; cycles of empty edges |
| regex generator | `src/src/regex_generator.c` | a parse tree; in a module: `exprs`, `errors`, `state`, `so_path` | cut into atoms, parse, transform in place, build an automaton, print C source; `add_regex`, `build`, `load` | operators take their operands from among their siblings; errors of one pass reach the next; the printed matcher never goes back; a library is rebuilt while an old one is open |
| code points | `src/src/unicode.c`, `unicode.h` | - | classification, symbol sizes | - |

How they interact: the program calls the extractor; `next` copies the
extractor's stream position into each miner's stream (`sync`), pushes a job per
miner on `targs` and posts `sem_targs`. A thread pops a job and runs the
miner's matcher along the stream; the matcher moves and marks the miner's
stream and returns an occurrence, which the thread writes through the caller's
pointer `pout`. When a job is done the thread posts `sem_main`; when all are
done `next` filters, updates `last_max`, unlocks, sorts and returns.

What makes each part correct:

- extractor: every job is taken once, by one thread; nobody writes to a result
  that was returned; nothing is written outside `targs` and the result array;
  calls and `destroy` come to an end; what `next` returns depends on the text
  and not on scheduling or on how it was cut into batches.
- registry: a library is loaded as long as code of it can be called, each
  handle is closed once, the answer of `add_miner_so` is true to what it did.
- filter: exactly the occurrences inside no other one are kept, in order.
- stream and miner: `pos` and `unicode_offset` describe one place; flags tell
  where the ends are; no position is run twice or left out; the occurrences
  of a miner are well-formed and do not overlap.
- trie: nodes form a tree and each is pointed to once although they move; the
  words it spells are those inserted; edges are sorted, so that both ways of
  searching them agree; `search` and `get` answer as the set of words would;
  a saved trie that is mapped answers as before.
- globs and named entities: a run answers as the glob demands, however the `*`
  share out the text; a scan reports every token that fits and no other.
- CSV: the rows of a text come out whole and once, whatever batches they are
  asked for in; an error cuts off what follows it and nothing before it.
- regular expressions: the automaton accepts what the expression means, an
  expression without meaning is refused somewhere on the way; compiling ends;
  the printed matcher finds only words, and it is known which ones it misses.
- regex modules: `load` answers for what is in the library the program has.

## 2. Modules

| Module | Models | Used by |
|---|---|---|
| `Extractor` | the pool: callers, threads, semaphores, jobs, result arrays, configuration | `ExtractorInv`, `ExtractorMining` |
| `ExtractorInv` | the inductive invariants of the pool: `IInv`, `Spent`, `Fresh` | `ExtractorMining`, `ExtractorProofs` |
| `Mining` | abstract: `next` as one step over one scan of the text | `ExtractorMining` |
| `ExtractorMining` | the refinement mapping from `Extractor` to `Mining`, and the invariant `Progress` | `MCExtractor`, `ExtractorProofs` |
| `ExtractorProofs` | theorems about jobs, tokens, threads, occurrences and result arrays, and the refinement of `Mining` | |
| `MCExtractor` | texts, and the table of what globs do on them | the runs `pool`, `callers`, `enclosed` |
| `Cursor` | the arithmetic of `stream_c`: movements over bytes, offsets, flags | `Stream`, `Scan` |
| `Characters` | abstract: heads over whole symbols | `Stream` |
| `Stream`, `StreamProofs` | a stream and the copy a miner moves, and theorems about it | `MCParts` |
| `Scan`, `ScanProofs` | one miner in the loop of `thread_fn`, with an arbitrary matcher, and theorems about it | `MCParts` |
| `Iteration`, `CursorProofs` | lemmas: functions defined by iteration; one movement of a cursor | `StreamProofs`, `ScanProofs`, `MatcherProofs`, `ExtractorProofs` |
| `MinerCalls` | the text and the miner of a matcher, and the functions of `miner_c` as it calls them | `GlobTexts`, `CsvTexts` |
| `Globs` | items of a glob, and the table of some globs on two texts | `GlobTexts`, `MCExtractor`, `MCMatchers` |
| `GlobTexts` | symbols, delimiters, what an item of a glob takes, and reference: where a glob can end | `Tokens` |
| `Tokens` | the glob matcher and the named entity matcher, and the loop of `thread_fn` around them | `MCMatchers`, `MatcherProofs` |
| `CsvTexts` | the symbols of a CSV text, the bytes of a batch, and reference: what a text consists of | `Csv` |
| `Csv` | the CSV matcher, parser and batches, and the program that reads them | `MCMatchers`, `MatcherProofs` |
| `MatcherProofs` | theorems about `Tokens` and about `Csv` | |
| `Registry`, `RegistryProofs` | `dlsymbols`, loading and closing libraries, and theorems about it | `RegexModule` |
| `RegexModule` | a module of regexes: added, built, loaded by an extractor | `MCRegistry`, `RegistryProofs` |
| `Filter`, `FilterProofs` | `filter_longest_occurrences`, and theorems about it | `MCParts` |
| `Patricia` | the trie of `patricia.c`, its data and its file | `MCPatricia` |
| `RegexAtoms` | how the text of an expression is cut into atoms, and what the code printed for one matches | `Regex` |
| `Regex` | from the text of an expression to its tree and the nondeterministic automaton | `RegexWords` |
| `RegexWords` | reference: what an expression means, and how a tree is written down | `Automaton` |
| `Automaton` | one expression compiled, made deterministic and matched | `MCAutomaton` |
| `MCParts` | `Stream`, `Scan` and `Filter` side by side: a behaviour is one of them, and the variables of the others keep their values | the run `parts` |

An operator whose comment starts with `[faulty]` is not part of a
specification. It is the definition that follows it with a plausible bug;
`PROJECT.json` pairs it with the property that must then fail.

### Extractor

One atomic action is one stretch of code between two points where another
thread can matter. A caller's place in `next`, `set_stream` and `destroy` is
`cpc`, a thread's place in `thread_fn` is `wpc`, the locals are in `frame`,
`out`, `pout`, `job` and `cur`.

- `NextEnter` (lock, allocate), `Push`, `Signal` (one turn of the loop over
  miners), `MoveStream`, `Collect` (one `sem_wait`), `Finish` (NULL, filter,
  `last_max`, unlock), `Return` (sort, after the unlock).
- `WaitTargs`, `Quit` or `GoOn`, `Pop`; `SkipPosition` or `RunMiner` for one
  turn of the scanning loop; `LockPout`, then `DropEnclosed`, or `Store` and
  `Bump` (the two statements `**pout = p; ++*pout`); `PostMain`.
- `SetStream` does `unset_stream` under one lock, `Attach` or `RefuseStream`
  (then `SetLastError`) the rest under the next. `SetFlags` takes no lock.
- `Destroy`, `SetTerminate`, `PostTerminate`, `Join`, `Teardown`.

`Pop` under `mutex_targs` is one step, and so is a push: nothing else happens
under that mutex. Writes to the result array are two steps, because a caller
could read between them. A position is a character and each is one byte;
`Cursor` has the bytes. What a matcher does at a position is the constant
`Matcher`, a table: marks of the occurrence and where it stops. `qsort` gets a
comparator for occurrences and an array of pointers, so the order it leaves is
any order (`Orders`).

Assumptions about the calling program, as in `README.md`, the examples and the
tests: miners are added while no stream is set; one caller at a time
configures, with no `next` under way (except `set_flags`); `next` is called on
a stream that `set_stream` accepted, and nothing is called after `destroy`.

### Mining, ExtractorMining

`Mining` has no threads, no jobs and no scanning state. `Scan` passes over the
text position by position, from where the stream was set, with the matcher of
one miner: it is run where the last run has left off, and an occurrence counts
that does not start before the last one ends. `HitsOf` is what that scan finds
in a range of positions; `Extract` hands out what all miners find in those of
the batch. The mapping makes `next` take effect at `Finish`, with the stream
counted as moved only then. A step of `Extractor` that is not the effect of a
call is a stutter.

### Cursor, Characters, Stream

A text is a sequence of bytes, each an ASCII byte, a continuation byte or the
first byte of a symbol of 2, 3 or 4 bytes. `Right` and `Left` are one turn of
the loops of `_move`, `Move` all of them, with the wrap-around of the unsigned
`unicode_offset` at `OffsetSpan`. `Stream` moves, syncs, marks and resets a
stream and a copy; `Characters` is what that should amount to. A text is
`CutShort` if its last symbol may lack bytes, as in a file that was cut or a
buffer that was read in blocks, and `WellFormed` if it does not. `_move` passes
over such an incomplete symbol without counting it (`stream.c` 123), so that
the distance it returns is one less (`Told`) and `unicode_offset` drifts by one
each time the end is left to the left; `pos` and the flags stay right.

### Scan

`thread_fn`'s loop around one miner, whose matcher may call `move`,
`mark_start`, `mark_end`, `mark_pos` and `reset_pos` up to `MaxSteps` times in
any order and then return NULL or what `make_occurrence` gives. It is the
justification of `Matcher` as a table in `Extractor`: marks never go back
behind the last occurrence, each position is run at most once. `ScanAssumption`
takes texts that are complete, for what `upos` and `ulen` say of one that was
cut is off by the drift above.

### MinerCalls, Globs, GlobTexts, Tokens

`MinerCalls` has the functions of `miner_c` over one-byte symbols, where a
position is an offset too. `Tokens` runs a matcher in the loop of `thread_fn`
(`Skip`, `Run`, `Returned`). The recursion of `match_glob_impl` is `stack`, one
frame per call with what the C function keeps in its locals: `CallGlob` enters
a call, `TakeSymbol`, `Mismatch`, `LastStar` and `CallRest` are the turns of its
loop, `RestFound` and `RestFailed` what follows the return of an inner call,
`EndOfGlob` its end. `params`, `end_last` and the marks are changed and put back
where the code does it. A glob is a sequence of items, whatever characters write
them. The matcher of named entities is one step over the words of a trie, which
`search` is taken to know as `Patricia` shows it. `GlobTexts` has what needs no
state: which symbol an item takes, where a run begins to look (`Begin`), and
`Reach`, the places a glob can come to. `Globs` is what both kinds of
instance need: the table `MCExtractor` takes for its matchers is checked against
`Tokens` by `TableAgrees`.

### Csv

`Parse` begins a call of `csv_parser_parse`; `StartQuoted` to `FieldFails` are
`match_csv` symbol by symbol with the flag it leaves, `TextEnds` and
`ReturnBatch` the end of the loop. A batch is a sequence of bytes: `SizeT` and
the field with its zero byte, a length of zero behind a row. `GetNext` reads a
length back as one byte, and a symbol that stands where a length is expected as
any number. The program goes on parsing until the stream has ended. The
constants, the bytes and the reference are in `CsvTexts`, where a separator is
what has an even number of quotes before it, and a field is quoted well if
every other symbol between its quotes has an odd number before it. `MCMatchers`
extends both `Tokens` and `Csv`, over the same text and miner.

### Registry, RegexModule

`AlreadyFound`, `OpenFails`, `SymbolFails` and `Add` are the four ways out of
`add_miner_so`; `DestroyMiners`, `CloseLibrary` (one entry) and `Destroyed` are
the part of `destroy` after the threads are gone. A constructor returns NULL
for a parameter in `Refused`, as `match_glob` does for an invalid glob; such a
NULL among the miners is dereferenced by `destroy`, so the model stops there.
A library is what is on `disk`, what of it is in the program (`image`), and how
often it was opened (`opens`): `dlopen` answers for an open library with what it
read first.

`RegexModule` is `regex_module_c` on top of that: `AddRegex`, `Build` (which
writes the library, or fails and leaves the one that was there), `StartLoad`,
`LoadNext` (one `add_miner_so` per regex) and `LoadReturns`; `ProgramAdds` is
the program calling `add_miner_so` itself. Each step is a step of `Registry` or
leaves that alone, so it is both a composition and a refinement.

### Filter

The two nested loops of the comparison, one pair at a time, and the packing
loop, one cell at a time. `Extractor` takes the result in one step (`Longest`).

### Patricia

The heap is a function from addresses to nodes. `InsertBelow` is `_insert`: the
first edge that shares a symbol with the word is followed, or split (`Split`)
and then followed, and where none does a leaf is added (`Grow`), for which
`realloc` moves the node and the pointer `addr` is updated. Moving always is
the harder case of what `realloc` may do. Edges are ranges of `lookup_str`, to which every insertion
appends its word, bytes of UTF-8. `SearchBelow` is `_search` with its two ways
of choosing an edge: `FindLinear`, and `Bisect` for nodes of more than
`LinearEdges` edges (5 in the code). A string ends with a zero byte, and may go
on behind the length that is searched for. `Set` takes keys with their
zero byte, as `get` looks for it. `Save` writes a node behind the nodes below it, with
places in the file in place of addresses (counted in records, not bytes);
`Reopen` maps the file and forbids insertion.

### RegexAtoms, Regex, RegexWords, Automaton

An expression is a string. `Atom` cuts the next atom off it as
`lex_atom_create` does; `Item` is `str_to_match_fn`, which says what test is
printed for an atom or for one item of a bracket: the call of a function, a
comparison with a literal, a test for the beginning or end of the stream, or
none. From that follow `HasCode` (the generator prints the test), `Compiles`
(the C compiler takes its literal) and `Matches` (the ASCII symbols it is true
for).

`ReadAtoms`, `MakePartial`, `PlaceClosures`, `PlaceAlternations`,
`CollapseConcats` and `BuildNfa` are the passes of `regex_compile`, each a
recursive operator of `Regex`, with the ways in which it refuses an expression
or dereferences a NULL. `Start`, `TrySymbol` and `ReturnImpl` are
`fa_create_powerset`: `stack` holds the calls of `fa_create_powerset_impl` with
the symbols each has left, and a turn of the loop adds an edge and enters the
next call. `Gather` fills the array `temp`; where it would recurse around a
cycle, `Overflow` is taken instead. `PrintCode` and `CompileCode` are where an
atom without a test, or with a bad literal, is found. `CallMatcher`, `TakeEdge`
and `Answer` run the functions that `edges_to_code` prints, over the text from
the position of the miner on, which the stream begins with or not; the edges of
a node are tried in the order of its chain, latest first, and an edge for `^` or
`$` reads nothing.

The reference in `RegexWords` takes derivatives of the tree an expression is
meant to have and never looks at an automaton; what an atom is meant to match
is the table `Meaning` of the instance, written without the tests of
`RegexAtoms`: for a class it is the list in the comment beside it in
`str_to_match_fn`. The run `automaton` has the classes and characters for which
these lists and the code agree, `classes` has a class for which they do not.

### Models beside the program

The operators that read text were compared with the compiled C code, outside of
TLC: the automata of 492 expressions without groups and of 13 with groups and up to
four symbols, edge by edge in their order, with the source `regex_compile` prints;
how expressions with wrong ranges and brackets end; 47 atoms over every ASCII symbol (state,
code, matches) with the printed tests; 20160 pairs of a glob and a text, 126 texts
with named entities and all CSV texts of up to 5 symbols in batches of 0, 1 and 2
with the miners and the parser. Each comparison found no difference. That an
open library keeps its old contents when its file is rebuilt, and that a failed
build leaves the old file, was tried as well.

## 3. Runs

| Run | Instance | Shows |
|---|---|---|
| `pool` | 1 client, 2 threads, miners "b b" and "b" over the text "b b", a stream that fails, 4 calls, batches 1 and 2, `E_NO_ENCLOSED_OCCURRENCES` on and off | the safety of the pool, `IInv`, refinement of `Mining`, `next` and `destroy` return |
| `callers` | 2 clients, 3 calls, `E_SORT_RESULTS` on and off at any time | the same refinement with concurrent callers; returned arrays stay |
| `parts` | `Stream` over a text of no bytes, three with symbols of 1 to 4 bytes, and one that is cut inside its only symbol, moves by -3, -1, 0, 1 and 2; `Scan` over a text of four one-byte symbols and one of symbols of 2, 1 and 2 bytes, batches 1 and 3, matchers of up to 4 calls, empty occurrences allowed; `Filter` of all arrays of up to 4 of 12 ranges, nested, crossing, equal and empty | offsets, flags, refinement of `Characters`; a miner's progress and occurrences; what the filter keeps |
| `registry` | 2 libraries with a common name, one that is missing, one where a module of 2 good regexes, one with bad code and one that is refused is built; 4 calls of `add_miner_so`, builds and loads until 2 errors | libraries stay loaded and are closed once, and when the answers of `add_miner_so` and `load` are true |
| `patricia` | 7 words of one-byte and two-byte symbols, 2 keys with 2 values, 4 insertions in any order, saving and reopening at any time | the heap is a tree, edges ascend, the words are held, `search` answers how much of a string some word begins with, `get` the latest data |
| `automaton` | expressions over "a" and "b" up to an operation on operations, with "." and with `^` and `$`; 18 other atoms of every kind but `\d` and `\D` over 14 characters, the space not among them, alone and in operations; 28 wrong ones; texts of up to 3 letters or 2 of the 14 | the automaton means what the expression does and has one node per set, what has no meaning is refused, compiling ends unless what may be empty is starred, what the matcher answers |
| `matchers` | globs of up to 3 items and five longer ones, and named entities, over texts of up to 4 symbols and some of 6; every CSV text of up to 5 of 5 symbols in up to 3 parses for 0, 1 or 2 rows | the matcher of globs answers rightly, scans find the tokens, the table of the extractor is right, rows come out whole, scans end |
| `enclosed`, `mixed`, `star` | | the findings below |
| `classes` | `\s`, `\w`, `\d` and their complements on texts of one of 4 characters | finding: `\d` is not what its comment says |
| `lost` | three expressions with a wrong range inside a bracket, two that are wrong outside of one | finding: the error is lost |

Why these bounds are enough. Two threads and two miners give every order of
two jobs, with a thread that gets both, and a thread that starts its job while
the other is at any of its steps; the text of three characters under batches
of 1 and 2 lets an occurrence reach into the next batch, end at it, and lets a
miner be behind or ahead of the stream. Four calls allow `set_stream`, `next`,
`set_stream`, `next` (a block of jobs freed and allocated again). The
globs' outcomes are those of `glob_entities.c` on these texts, small cases of
`tests/enclosed.c`. `UintSpan` is 64 in place of 2^32, well above what the
batches need. `OffsetSpan` is 17 in place of 2^64, more than twice the length of every text
and batch together, as the proofs ask: over the text that was cut the offset
drifts below zero and wraps, all the way around, and in a scan differences below
zero do. Four calls of a matcher are enough to mark a start, move, mark an end and
move on or come back. That `Stream`, `Scan` and `Filter` share a run loses none of
their behaviours: each starts from all of its initial states and takes all of its
steps, while the others rest.
In `patricia` `LinearEdges` is 1 in place of 5, so nodes of two to four edges
are bisected; the words end inside one another, split edges inside and at their
ends, and include the empty one. `SearchAnswers` speaks of strings in general
for tries of words of one width only, for which `mixed` shows it false; that
each word held is found it says of every trie.
In `matchers` three items allow a `*` with something on both sides, and the five
longer globs nest one inner call in another; four symbols are two tokens with a
delimiter, or one that is tried at every place. Five CSV symbols are a quoted
field with a doubled quote, or a row in the batch before and an empty field
behind a delimiter. A byte has 5 values in place of 256 and a `size_t` 2 bytes in
place of 8, so fields that do not fit are among the texts. In `registry` four calls
are two loads of a module, or one and two calls before or between them;
`Build` of a module without regexes is left out, as no library comes of it.
The 14 characters of `automaton` lie on both sides of every border that one of
its atoms draws.

Fairness. `FairSpec` assumes that the operating system schedules each thread
and each caller that can run, and that a matcher terminates (it is one step).
It is weak fairness per thread and per caller on what continues a call; no
caller has to call anything. Nothing assumes that a semaphore or a mutex is
handed out in any order. `MCSpec` of the matchers is one sequential program,
which goes on while it can.

`CHECK_DEADLOCK FALSE` in `registry.cfg`: with a NULL miner `destroy` crashes,
and the bounds on calls and errors may then stop the model. In the runs of `MCAutomaton`
because a behaviour ends with the answer of the matcher or the failure of a pass.

### Findings

- `enclosed`: `thread_fn` drops an occurrence that ends at or before
  `last_max`, whatever its start. In the run, the miner "a" returns the last
  character in one batch; the glob " a" finds the range from one before it in
  the next call, and it is dropped although nothing encloses it (repository
  `README.md` 214-216).
- `mixed`: `find_linear` and `find_log` step through an edge by the width of its
  first symbol, so narrower symbols behind it are not compared. With the words
  "éab" and "éabc" in the trie, `search` answers the full length for "éac",
  which is neither of them nor a beginning of one (`patricia.h` 138-139).

- `star`: an inner call of `match_glob_impl` that fails leaves the end it
  marked, `reset_pos` does not take it back, and `miner_c_run` sets `pos_last`
  from it, so that `thread_fn` goes on in the middle of a token. Scanning
  "a  bab" for `[ab]*b` does not report "bab" (repository `README.md` 387).
- `classes`: `\d` and `\D` are printed as `unicode_isalpha` and its negation,
  where the comments beside them say `[0-9]` and `[^0-9]` (`regex_generator.c`
  938, 945). In the run the matcher of `\d` answers NULL for a digit. `\s` differs
  as well: `unicode_isspace` takes the space, which the list in line 910 does not
  have. The run stops at the first difference and leaves the space out.
- `lost`: a wrong range makes the bracket around it NULL, `lex_to_partial_op`
  leaves NULL children out, and `regex_compile` ends with state 1, where the errors
  should show (`regex_generator.h` 60). In the run `a({2})` is compiled as "a";
  `a(b{,})` and `b(a{2,1}{2})` lose their brackets too.

What else differs from what is written, seen while modelling or in a run
that states what the code does:

- `E_SORT_RESULTS` does not sort (`README.md` 212): `occurrence_t_compare` is
  given pointers to the cells of the array and reads them as occurrences. It
  would also put the shorter of two with the same start first.
- `add_miner_so` answers true and adds nothing when an entry of another
  library, added later, has the name asked for; and a NULL from a constructor is
  counted as a miner (`extractor.h` 87; both are exceptions in `AnswersTruly`).
  A library whose symbol is missing is opened and never closed
  (`extractor.h` 96).
- `load` of a module that was built again gives what was built first, if the
  extractor has that open, and notes an error for every regex behind the first
  missing one (`LoadAnswers`).
- `regex_compile` uses up the stack for `(a*)*`, and the matcher of `^*a` calls
  itself without end (`OverflowsOnStarOfEmpty`); that of `a(bc)?` answers NULL
  for "ab", having read on for the longer word (`GreedyAnswer`).
- `stream_c_move` is said to return the new position (`stream.h` 79); it returns the
  distance, which its callers count on and `MovesBySymbols` states.
- A quote, an escaped backslash or a newline is put into a C literal as it is,
  so that the compiler refuses the module; `\b`, `[a^]`, `[a$]` and a wrong range
  are refused only when code is printed (`MeansExpression` says where each
  ends). A wrong range outside of brackets and a counterpart that closes nothing,
  as in `a)`, dereference NULL (two of the ways to end in "crashed").
- Globs of plain symbols match in either case, where `README.md` 385 says
  "exact"; `a*b` matches "a b" and "a xb", but not "ax b". `StartsWithDelimiter`
  is true of every bracket, as the code looks at the bracket itself.
- A CSV text that is one row ending in a delimiter gives NULL (`RowsRead`),
  which `patricia_c_create_from_stream` passes on (`patricia.c` 366-380); doubled
  quotes stay doubled; a malformed field behind a delimiter comes out empty
  (`ErrorsCutOff`).
- Over a text that ends inside a symbol (a file that was cut, a buffer read in
  blocks), the last movement to the right is not counted in `unicode_offset` and
  the first one back is (`stream.c` 123). `parts` has such a text;
  `TellsPlace` promises the offset of complete texts only, and `Characters` says
  which distance is reported.

## 4. Proofs

Eight modules hold theorems. Each theorem is of the form `Spec => ...` (or
says under which condition) and is proved for every value of the constants;
what is assumed of them are the named `ASSUME`s of the modules, which TLC
evaluates on every run.

### The pool

`ExtractorProofs` proves, for any finite set of threads
and any clients, miners, texts and matcher tables:

| Theorem | States |
|---|---|
| `Invariance` | `IInv` |
| `TypeCorrect` | `TypeOK` |
| `PopsFindJobs` | a thread that took a token finds a job |
| `NoLateWrites` | threads work only for a caller inside `next` |
| `MinersExclusive` | no miner is used by two threads |
| `PoolQuiet` | nothing is left over between calls |
| `PushesFit` | jobs fit into `targs` |
| `ThreadsEndFirst` | `destroy` frees after the threads have left |
| `ReturnedArraysStay` | a returned array is not written again |
| `OutputsFit` | what is written fits into the result array, unless its size wraps |
| `OccurrencesOnce` | no occurrence is handed out twice, if none is empty |
| `MiningImplemented` | `Spec /\ FilterKept => ImplementsMining` |
| `MiningOfSteadyCallers` | `SteadyFlags => (Spec => ImplementsMining)` |

They rest on `ConstantsAssumption` (the sets are disjoint where they must be,
`Threads` is finite, a miner list has no miner twice) and `MatcherAssumption`
(a matcher stops and marks within the text).

*Jobs and tokens.* The argument is one of counting. `PopFindsJob` alone is not
inductive: it needs that every token of `sem_targs`, and every thread that took
one and has not popped, stands for a job on the stack that was signalled
(`InNextTally`, first equation), and that each job pushed is on the stack, in
the hands of a thread, reported on `sem_main`, or collected (second
equation). Then when a caller has collected as many tokens as it pushed jobs,
the stack is empty and no thread works: the pool is quiet, no thread holds
`pout`, and the next call starts from zero. For `destroy` the same account is
kept with one token per thread (`InDestroyTally`). That a miner is in one job
follows because a call pushes each of its distinct miners once (`Due`,
`Jobs`); that a write goes to the counted cell because only the thread that
holds `mutex_pout` is between `Store` and `Bump` (`Buffer`). There is one lemma
per conjunct of `IInv`; each has a step per action that can disturb it.
`ReturnedArraysStay` follows from `NoLateWriter`: a cell is written for a caller
that is inside, and its array is not returned yet.

*Cells.* `OutFits` bounds the length of an array, which grows by any thread at
any time. `Spent` keeps the account per miner: the cells a miner has filled,
and one more if a thread has its occurrence in hand, do not exceed the
positions its job has used up. When every miner of the call has filled at
most `batch` cells, the array has at most `batch` times the number of miners:
`FibreBound`, a sum over the miners by cardinalities.

*No occurrence twice.* `Fresh` says of every occurrence that is received, is in
an array, or is in the hand of a thread that its miner has noted its end
(`Noted`), and that the three are apart. A new one starts at or behind
`end_last` and so ends behind all that are noted, if it has any characters.
That is the hypothesis `NonEmpty`, and it is needed: over a table whose matcher
marks an empty occurrence at one place in two runs, TLC finds `NoDuplicate`
violated, and nothing in `miner_c_make_occurrence` prevents it. The tables of the
instances, which are those of globs, satisfy it (`MCNonEmpty`).

*The refinement of `Mining`.* A result of `next` depends on what each miner's
marks remember of earlier batches, so an invariant about one call is not enough.
`Progress` compares the marks of each miner with the abstract scan: `Scanned(m,
p)` says that after the positions before `p` both know the same, the end of the
last occurrence and where the matcher may be run next. Between calls this holds
where the stream stands. Inside `next` each miner has its own place: that of its
queued job (`QueuedWell`), that of the thread that has it (`WorkedWell`), the
end of the batch once its job is done, or the beginning while it is not pushed
yet (`DoneWell`); and the occurrences of the miner in the array, with that in
hand, are those the scan finds up to there, less what `DropEnclosed` takes away
(`Written`, `Wanted`). One turn of the loop of `thread_fn` is one `Pass` of
the scan (`AgreeSkips`, `AgreeRuns`). When all jobs are collected
each miner has come to where the stream is (`AllServed`), so what `Finish` filters
is what `Extract` filters (`AllWritten`, `LongestSet`). TLC
checked `Progress` on the instances of `pool` and `callers` and on another table
of matchers before it was proved.

`FilterKept` says that `E_NO_ENCLOSED_OCCURRENCES` is switched only while no
caller is inside `next`. It is needed: `set_flags` takes no lock, and if
another caller switches the filter off between a thread's `DropEnclosed` and
`Finish`, an occurrence is missing from a result that is otherwise not filtered;
with two callers and that flag in `FlagArgs` TLC finds such a behaviour. One
caller alone keeps the condition, and so do callers that use the other flag
(`SteadyFlags`), which are the programs the runs have (`MCSteadyFlags`).

### Streams

`StreamProofs` proves, for any texts that are complete or cut inside the last
symbol and any sequence of operations:

| Theorem | States |
|---|---|
| `CursorsTellPlace` | `TellsPlace` |
| `StreamImplementsCharacters` | `MovesBySymbols`, the refinement of `Characters` |

They rest on `StreamAssumption`: texts are shorter than half of `OffsetSpan`
(2^63), so that a distance has the right sign. `Move` is a function defined by
iteration, as many turns as it is asked for. TLAPS knows such a function as a
CHOOSE; that it satisfies its definition (`IterationExists`), and what it
does after any number of turns, is proved in `Iteration` by induction over a
*set* of numbers (`SetInduction`), which comes from the least element of its
complement and needs no operator as a parameter. `CursorProofs` proves of
one turn that it goes to the next or the previous symbol (`RightStands`,
`LeftStands`), and of `Move` that it goes as many symbols as asked or to the end
(`MoveMoves`). The inductive invariant says more than `TellsPlace` about the
offset: in a text that was cut it may be anything below `OffsetSpan`, and yet the
distance that is reported is what `Told` says, because it is a difference.

### A miner's scan

`ScanProofs` proves, for any complete texts, batches and matchers:

| Theorem | States |
|---|---|
| `MatcherRunsOnce` | `RunsOnce` |
| `MatchesSound` | `OccurrencesSound` |
| `LoopAdvances` | `TurnsAdvance` |

The inductive invariant has six parts. `CountsInv`: the stream, the miner's
copy, its saved place and its marks are each at a place with the flags and the
offset of that place, whatever was synced or reset from what. `BatchInv`: what
is left of the batch is what is left to the stream, which next moved
beforehand, or ends with the text. `RanInv`: the runs go from left to right, none
behind the place of the loop, and `pos_last` and `end_last` together are where
the last one reached to. `CoverInv`: nothing before that place is left out.
`FoundInv`: occurrences are sound and none ends behind `end_last`, which is
what keeps the next one apart. They rest on `ScanAssumption`.

### Globs and names

`MatcherProofs` proves, for any texts, globs and names, however long:

| Theorem | States |
|---|---|
| `GlobInvariance` | `GlobInv` |
| `GlobsAnswerTruly` | `GlobAnswers` |
| `ScanInvariance` | `GlobInv /\ ScanInv` |
| `ScansFindTokens` | `TokensFound` |

*Answers.* `GlobAnswers` says of a finished run, and so nothing while
`match_glob_impl` is in a call inside a call. In `GlobInv` every call keeps a
promise. What a glob is to find is `Ends`, the places where a token ends that
the glob can come to. A call that reads its items has from where it stands
with what is left of its glob the same ends as the whole of it from where it
began (`Reading`); a call that waits for an inner one has them from its `*` on
(`WaitsWell`); and the inner one looks for what is behind that `*`
(`CallWell`, where `params` and `end_last` are also accounted for). A `*` can
stop here, or take one symbol and be a `*` there: `EndsByStar` splits the ends
accordingly, so if the inner call answers NULL, the first part is empty and the
wait goes on for the second; if it answers an end, that is one of them
(`Answering`). One that has failed has no ends, whatever it was inside of.
`EndsBySymbol` and `EndsByLastStar` are the same for the other items.
`Reach` is iterated over the items, so that these rest on `Iteration`.

*Scans.* `TokensFound` looks at the end of the text. `ScanInv` says of every
moment of the scan what has been found: while the loop of `thread_fn` or the
beginning of a run stands at a place, that is a border of tokens and exactly the
tokens before it that fit are in `found` (`LookingWell`); a run that stopped has
stopped at a later border and its answer makes that true there (`StoppedWell`).
That `thread_fn` never skips a position then follows, as `pos_last` is never
ahead of the miner (`MarkedWell`, `LookingWell`). Inside a run of a glob with
nothing behind a `*` no inner call is made, and the items in front of what is left
have taken the symbols of one token (`Taken`): so at an item that does not take
the next symbol, or at the end, whether the whole token fits is decided
(`SimpleTakes`, `TakenNoMore`). A run of the named entity matcher takes the
stretch up to the next space, or nothing (`OneName`, `NoName`). That a failed run
of a glob with something behind a `*` may stop inside a token is the finding
`star`; it is why the theorem is about the other globs.

They rest on `InputsAssumption` (texts are sequences of symbols, scanned from
a place in them), `UnmarkedAssumption` (NULL is no position) and
`CaseAssumption`: what is no delimiter is none in the other case, for a glob
compares in lower case and `tolower` leaves delimiters as they are. Which
words resemble a name is not looked into: the proofs hold for any `Resembles`,
and so for any trie.

### CSV

`MatcherProofs` proves, for texts of any length, any sizes of batches and any
number of calls:

| Theorem | States |
|---|---|
| `CsvInvariance` | `CsvInv` |
| `RowsComeOut` | `RowsRead` |
| `MalformedCutsOff` | `ErrorsCutOff` |

Both properties look at a parser that is idle. `CsvInv` says what holds on the
way there.

*Between two fields* (`Between(p)`): `p` is where a field starts, or the end of
the text; the fields before `p` are all proper; `was` is the delimiter exactly if
the last of them ends at a comma; and of what these fields give (`Proper`), what
was read is the first part and the bytes of the batch are the rest (`Fetched`).
A batch that begins in the middle of a text is thus no different from the
first one.

*In a field*: `PlainTo` and `QuotedTo` say what the matcher has passed since the
field began, by counting quotes: in a quoted field every place it comes to has
an odd number of them before it, so that no separator it passes is one of the
reference. Where it stops, `FieldEnd` and `IsField` are decided: `PlainEnds` and
`QuotedEnds` if a separator or the end of the text is there, `PlainFails`,
`QuotedFails` and `QuotedStaysOpen` if the field is malformed. `FieldAdded` then is
the step from one field border to the next.

*The end of the loop* (`EndWell`): the text has ended or a malformed field begins
there, and what the batch reaches up to is all the text gives (`Total`); or it
holds as many rows as were asked for, and ends with one (`Result`).
`ProperNext` and `TotalIs` are the facts about the reference that this needs:
`EntriesTo` joins the fields from left to right, which rests on `Iteration`.

*Reading*: `Laid` has the places where the entries of a batch begin. At such a
place `GetNext` yields exactly this entry and stands at the next one
(`ReadsNext`), which needs that a length fits in a byte, and that no symbol of
a field is the zero byte; it is at the end of the bytes when all entries are
read, and not before (`ReadsAll`).

The invariant follows a text that is well-formed, or one that was parsed only
once (`Followed`), as the properties do: a parser that is called again behind a
malformed field begins somewhere inside it. And it follows texts whose fields
are short enough for their lengths to be read back (`FieldsFit`); that longer
ones are torn is the hazard at `csv_parser.c:73`. The proofs rest on
`CsvAssumption` (the four symbols differ, no symbol is a number, NULL is no string,
numbers of rows are not negative) and `UnmarkedAssumption`.

### The filter

`FilterProofs` proves, for arrays of any length and any ranges:

| Theorem | States |
|---|---|
| `FilterInvariance` | `FilterInv` |
| `FilterCorrect` | the result is exactly the unenclosed occurrences |
| `OrderKept` | they are in the order they came in, also while the array is packed |
| `NoneFreed` | nothing is read or returned after it was freed |

The heart is `Witnessed`: an occurrence that lost its label lies inside one that
still has it. So the early `break` and `continue` lose nothing, because lying
inside is transitive (`InsideOrder`).

### Libraries

`RegistryProofs` proves, for any libraries, names, parameters and number of
calls:

| Theorem | States |
|---|---|
| `RegistryInvariance` | `RegistryInv` |
| `LibrariesOpen` | a library is open while a miner or an entry of the table needs it |
| `AnswersAreTrue` | an answer of true is true, but for the two exceptions |
| `ModuleUsesRegistry` | `ModuleSpec => Spec`: all of these hold with a module of regexes, which is nothing but a user of the table |
| `LoadsAnswerTruly` | what `load` answers, and how many errors it notes |

`LibrariesStayOpen` is not inductive: that a library is open when its handle is
closed, and the handles of the others still are afterwards, needs that miners and
entries belong together (`EntriesMadeMiners`: the miner of an entry is in the
library of its handle) and that while `destroy` walks, no entry behind `closing`
holds a handle any more (`NoneBehind`), so that a handle that is still there was
never closed. They rest on `RegistryAssumption` and `RegexModuleAssumption`.

`LoadAnswers` compares the answer with the library as it is in the program, which
the calls of one `load` may change by opening it. `LoadInv` adds that a
library nobody has open has nothing in the program (`ClosedAreEmpty`), that the
regexes of a module have different names (`ExprsDiffer`), and that while `load`
walks, what it has counted so far is right for the part it has walked
(`LoadTally`).

### Only model-checked

- Liveness under fairness (`NextReturns`, `DestroyReturns`, `ScansEnd`): neither
  ENABLED nor fairness is in the prover's reach.
- `Patricia`, `Regex` and `Automaton` and their properties: their code is
  recursive over trees and lists, and so are the models, with RECURSIVE
  operators, which the prover cannot be given. (Recursive functions it can:
  see `Iteration`.)
- `TableAgrees`, which is about a finite table: TLC has tried all of it.

## 5. Not modelled

- Opening and closing files, `mmap`, printing, `extract_meta`, the retry of
  `pthread_create`; allocation never fails.
- What `pthread_exit` does after a thread posted `sem_main`, and the
  destruction of a mutex that is held: outside the language of the models.
- `reset_pos` over no bytes: it would clear `STREAM_BOF`, but no matcher is ever
  run on such a stream (the guard of `ResetCopy` in `Stream`).
- Offsets of a miner over a text that is cut inside a symbol: `Stream` has such
  texts, `Scan` does not.
- What `next` should hand out if another caller switches
  `E_NO_ENCLOSED_OCCURRENCES` meanwhile: `Extractor` has the step, `Mining`
  promises nothing of it (`FilterKept` in section 4), and `callers` varies the
  other flag only.
- Products `batch * miners_count + 1` of 2^32 and more: `OutFits` is stated
  below that.
- A trie over a stream (`patricia_c_create(stream)`), insertion from a
  `str_start` other than 0, which `patricia_c_insert_no_lookup` does not
  look at when it copies, and nodes that a program keeps from `insert` across
  later insertions.
- `patricia_miner.c`, which only creates and destroys the objects whose
  operations `Csv`, `Patricia` and `Tokens` model.
- How `is_glob` and the matcher read the characters of a glob: a bracket or an
  escape that is not closed, which `is_glob` lets through, is read past the end
  of the glob.
- Of regular expressions: symbols outside ASCII (an escape in front of one cuts
  it after its first byte), and expressions that end in a backslash or leave a
  bracket open, which are read beyond their end; destroying trees, automata and
  modules.
- The components marked not modelled in `PROJECT.json`: the printing of
  occurrences, a pair of values, and the example programs, which only call the
  library. They have no state of their own to be right about.

## 6. Plan

1. Done: `Extractor`, `Mining`, `Cursor`, `Stream`, `Scan`, `Registry`,
   `Filter`, `Patricia`, `Regex`, `Automaton`; `Tokens`, `Csv`, which also give
   the table of `MCExtractor`; groups, classes, escapes and anchors of
   expressions; `RegexModule`.
2. Done: the invariants of `Extractor`, `Filter`, `Registry`, `Stream`, `Scan`,
   `Tokens` and `Csv` proved, and the refinements of `Mining`, `Characters` and
   `Registry`.
3. Proofs that are left: that a miner of `Scan` implements the turns of
   `thread_fn` in `Extractor`, so that the table `Matcher` rests on a proof;
   `Patricia` with one step of `_insert` as an action, to prove that the edges of
   a node never share a first symbol.
4. Models that are left: a trie over a stream.
