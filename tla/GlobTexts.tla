------------------------------- MODULE GlobTexts -------------------------------
(***************************************************************************)
(* What the calls of match_glob_impl are made from: the delimiters of a    *)
(* text, what an item of a glob takes, and how a failed call skips on.      *)
(* Reach says which places a glob may take a text to.                      *)
(* [faulty] marks an operator with a bug, as in module Extractor.           *)
(***************************************************************************)
EXTENDS MinerCalls, Globs, FiniteSetsExt, SequencesExt

CONSTANTS
  Inputs,       \* texts to search, each with a matcher, its glob and a start
  Spaces, Puncts, \* the symbols that are delimiters
  Lower         \* Lower[c]: symbol c in lower case

Items == [op : {"plain", "[", "?", "*"}, symbols : SUBSET DOMAIN Lower]

ASSUME InputsAssumption ==
  \A x \in Inputs :
    /\ x.matcher \in {"glob", "named"} /\ x.glob \in Seq(Items)
    /\ x.text \in Seq(DOMAIN Lower) /\ x.from \in 0 .. Len(x.text)

Delimiters == Spaces \cup Puncts

\* What is no delimiter is none in the other case.
ASSUME CaseAssumption ==
  \A c, d \in DOMAIN Lower : Lower[c] = Lower[d] => (c \in Delimiters <=> d \in Delimiters)

\* match_any_character, or match_character for one of the symbols
Takes(item, c) ==
  IF item = AnyOne THEN c \notin Delimiters
  ELSE \E s \in item.symbols : Lower[s] = Lower[c]

\* What starts_with_delimiter answers.  The character it looks at first in a
\* bracket is the bracket itself, which is punctuation; so is the end of the
\* glob, a control character.
StartsWithDelimiter(g) ==
  \/ g = <<>> \/ Head(g).op = "["
  \/ Head(g).op = "plain" /\ Head(g).symbols \subseteq Delimiters

\* The first place of text t from p on where a symbol is in the set, or the end
NextIn(t, symbols, p) ==
  Min({q \in p .. Len(t) - 1 : t[q + 1] \in symbols} \cup {LaterOf(p, Len(t))})

TokenFrom(t, p) ==
  Min({q \in p .. Len(t) - 1 : t[q + 1] \notin Delimiters} \cup {Len(t)})

TokenEnd(t, p) == NextIn(t, Delimiters, p)

\* Where a call at p begins: at the next token, unless the glob starts with
\* what may be none.
Begin(t, g, p) == IF StartsWithDelimiter(g) THEN p ELSE TokenFrom(t, p)

\* [faulty] retnul stops in front of the delimiter.
SkippedTo(t, p) == TokenEnd(t, p)

\* [faulty] retnul moves before it looks for one.
SkippedAfter(t, p) ==
  IF TokenEnd(t, p + 1) < Len(t) THEN TokenEnd(t, p + 1) + 1 ELSE Len(t)

\* retnul: behind the next delimiter
Skipped(t, p) == IF TokenEnd(t, p) < Len(t) THEN TokenEnd(t, p) + 1 ELSE Len(t)

-----------------------------------------------------------------------------
\* Where a * that does not end the glob may stop: it takes nothing, or one
\* symbol of any kind and then none that is a delimiter.
Stops(t, p) ==
  {p} \cup {r \in p + 1 .. Len(t) :
              \A k \in p + 2 .. r + 1 : k > Len(t) \/ t[k] \notin Delimiters}

\* The places the first item of a glob may take the text to from p.  What
\* follows a * needs a symbol, and is looked for at the next token if the *
\* stopped between two.
Onward(t, g, p) ==
  IF Head(g) # Star THEN {q \in {p + 1} : p < Len(t) /\ Takes(Head(g), t[q])}
  ELSE IF Len(g) = 1 THEN {TokenEnd(t, p)}
  ELSE {q \in {Begin(t, Tail(g), r) : r \in Stops(t, p)} : q < Len(t)}

\* The places that all items of a glob may take the text to from p
Reach(t, g, p) ==
  LET after[i \in 0 .. Len(g)] ==
        IF i = 0 THEN {p}
        ELSE UNION {Onward(t, SubSeq(g, i, Len(g)), q) : q \in after[i - 1]}
  IN after[Len(g)]
================================================================================
