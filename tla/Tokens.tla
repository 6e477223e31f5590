-------------------------------- MODULE Tokens --------------------------------
(***************************************************************************)
(* The two matchers of the library that look for tokens of a text:         *)
(* match_glob_impl of glob_entities.c, which calls itself for what follows *)
(* a *, and match_named_entity of ner.c, which asks a trie.  The loop of    *)
(* thread_fn runs one of them along a text.                                *)
(*                                                                         *)
(* The trie is what module Patricia shows search to be.                    *)
(* [faulty] marks an operator with a bug, as in module Extractor.           *)
(***************************************************************************)
EXTENDS GlobTexts

CONSTANT Names  \* the words of the trie

VARIABLES
  params,       \* m->params: what the next call of match_glob_impl reads
  mark,         \* where thread_fn ran the matcher
  stack,        \* the calls of match_glob_impl
  found

vars == <<input, params, m, mark, stack, pc, found>>

glob == input.glob      \* what match_glob was given

Init ==
  /\ input \in Inputs
  /\ params = glob
  /\ m = MinerAt(input.from) /\ mark = input.from
  /\ stack = <<>>
  /\ pc = "loop"
  /\ found = <<>>

-----------------------------------------------------------------------------
(* the loop of thread_fn *)

MayRun == m.pos >= LaterOf(m.pos_last, m.end_last)

Skip ==
  /\ pc = "loop" /\ ~AtEnd(text, m) /\ ~MayRun
  /\ m' = Moved(m, 1)
  /\ UNCHANGED <<input, params, mark, stack, pc, found>>

Run ==
  /\ pc = "loop" /\ ~AtEnd(text, m) /\ MayRun
  /\ mark' = m.pos
  /\ pc' = input.matcher
  /\ UNCHANGED <<input, params, m, stack, found>>

\* A run that consumed nothing is followed by a move.
Returned ==
  /\ pc \in {"made", "null"} /\ stack = <<>>
  /\ found' = IF pc = "made" THEN Append(found, [start |-> m.start, end |-> m.end]) ELSE found
  /\ m' = [RunOver(m) EXCEPT !.pos = IF m.pos > mark THEN m.pos ELSE mark + 1]
  /\ pc' = "loop"
  /\ UNCHANGED <<input, params, mark, stack>>

-----------------------------------------------------------------------------
(* match_glob_impl *)

Top == Last(stack)
WithTop(frame) == Append(Front(stack), frame)

ReturnNull(p) ==
  /\ m' = [m EXCEPT !.pos = p]
  /\ stack' = Front(stack)
  /\ pc' = "null"

\* Enter a call: skip to the next token, unless the glob starts with what may
\* be none, and mark the start if there is anything in the glob.
CallGlob ==
  /\ pc = "glob"
  /\ LET at == [m EXCEPT !.pos = Begin(text, params, m.pos)]
     IN /\ m' = IF params = <<>> \/ AtEnd(text, at) THEN at ELSE MarkStart(at)
        /\ IF AtEnd(text, at) THEN pc' = "null" /\ UNCHANGED stack
           ELSE /\ pc' = "items"
                /\ stack' = Append(stack,
                     [glob |-> params, startpos |-> at.pos, pos |-> at.pos,
                      params |-> params, end_last |-> m.end_last])
  /\ UNCHANGED <<input, params, mark, found>>

InItems == pc = "items" /\ Top.glob # <<>>
IsStar  == Head(Top.glob) = Star
Fitting == ~AtEnd(text, m) /\ Takes(Head(Top.glob), text[m.pos + 1])

TakeSymbol ==
  /\ InItems /\ ~IsStar /\ Fitting
  /\ m' = Moved(m, 1)
  /\ stack' = WithTop([Top EXCEPT !.glob = Tail(@)])
  /\ UNCHANGED <<input, params, mark, pc, found>>

Mismatch ==
  /\ InItems /\ ~IsStar /\ ~Fitting
  /\ ReturnNull(Skipped(text, m.pos))
  /\ UNCHANGED <<input, params, mark, found>>

\* A * that ends the glob takes the rest of the token.
LastStar ==
  /\ InItems /\ IsStar /\ Len(Top.glob) = 1
  /\ m' = [m EXCEPT !.pos = TokenEnd(text, m.pos)]
  /\ stack' = WithTop([Top EXCEPT !.glob = <<>>])
  /\ UNCHANGED <<input, params, mark, pc, found>>

\* For any other one the rest of the glob is tried here.
CallRest ==
  /\ InItems /\ IsStar /\ Len(Top.glob) > 1
  /\ stack' = WithTop([Top EXCEPT !.pos = m.pos, !.params = params, !.end_last = m.end_last])
  /\ params' = Tail(Top.glob)
  /\ pc' = "glob"
  /\ UNCHANGED <<input, m, mark, found>>

\* [faulty] end_last stays that of the inner occurrence.
RestFoundKeepsEnd ==
  /\ pc = "made" /\ stack # <<>>
  /\ params' = Top.params
  /\ LET outer == [MarkStart([m EXCEPT !.pos = Top.startpos]) EXCEPT !.pos = m.pos]
     IN m' = IF MayMake(outer, FALSE) THEN Made(outer) ELSE outer
  /\ stack' = Front(stack)
  /\ UNCHANGED <<input, mark, pc, found>>

\* The rest was found: its occurrence is thrown away for one that starts
\* where this call did.
RestFound ==
  /\ pc = "made" /\ stack # <<>>
  /\ params' = Top.params
  /\ LET back  == [m EXCEPT !.pos = Top.startpos, !.end_last = Top.end_last]
         outer == [MarkStart(back) EXCEPT !.pos = m.pos]
     IN /\ m' = IF MayMake(outer, FALSE) THEN Made(outer) ELSE outer
        /\ pc' = IF MayMake(outer, FALSE) THEN "made" ELSE "null"
  /\ stack' = Front(stack)
  /\ UNCHANGED <<input, mark, found>>

\* [faulty] The rest is tried again where it was not found.
SamePlace(p) == p

NextPlace(p) == p + 1

\* The rest was not found: go on one symbol further, unless that is a
\* delimiter.  Behind the text there may be one or not.
RestFailed ==
  /\ pc = "null" /\ stack # <<>>
  /\ LET p == Top.pos
         back == [m EXCEPT !.pos = p, !.end_last = Top.end_last]
     IN \/ /\ p = Len(text)
           /\ m' = back
           /\ params' = Top.params /\ stack' = Front(stack) /\ pc' = "null"
        \/ /\ p < Len(text)
           /\ TokenEnd(text, NextPlace(p)) = NextPlace(p)
           /\ m' = [back EXCEPT !.pos = Skipped(text, NextPlace(p))]
           /\ params' = Top.params /\ stack' = Front(stack) /\ pc' = "null"
        \/ /\ p < Len(text)
           /\ NextPlace(p) < Len(text) => TokenEnd(text, NextPlace(p)) # NextPlace(p)
           /\ m' = [back EXCEPT !.pos = NextPlace(p)]
           /\ params' = Tail(Top.glob) /\ stack' = WithTop([Top EXCEPT !.pos = NextPlace(p)])
           /\ pc' = "glob"
  /\ UNCHANGED <<input, mark, found>>

\* The glob is used up: the token has to end here.
EndOfGlob ==
  /\ pc = "items" /\ Top.glob = <<>>
  /\ LET marked == MarkEnd(m)
     IN IF AtEnd(text, m) \/ Sees(text, m, Delimiters)
        THEN LET behind == IF AtEnd(text, m) THEN marked ELSE Moved(marked, 1)
             IN /\ m' = IF MayMake(marked, FALSE) THEN Made(behind) ELSE behind
                /\ pc' = IF MayMake(marked, FALSE) THEN "made" ELSE "null"
        ELSE /\ m' = [marked EXCEPT !.pos = Skipped(text, m.pos)]
             /\ pc' = "null"
  /\ stack' = Front(stack)
  /\ UNCHANGED <<input, params, mark, found>>

-----------------------------------------------------------------------------
(* match_named_entity *)

\* How much of a word search finds in the trie
Search(word) ==
  Max({0} \cup {n \in 1 .. Len(word) : \E w \in Names : IsPrefix(SubSeq(word, 1, n), w)})

Resembles(word) == 4 * Search(word) >= 3 * Len(word)

\* A delimiter or the beginning of the text, then symbols up to a space or the
\* end.  A token that resembles no name is NULL like any other failure.
MatchNamedEntity ==
  /\ pc = "named"
  /\ LET first == IF Sees(text, m, Delimiters) THEN Moved(m, 1) ELSE m
         begun == MarkStart(first)
         ended == MarkEnd([begun EXCEPT !.pos = NextIn(text, Spaces, first.pos)])
     IN IF first = m /\ m.pos # 0 THEN pc' = "null" /\ UNCHANGED m
        ELSE IF ~MayMark(first) \/ AtEnd(text, first) \/ Sees(text, first, Spaces)
             THEN pc' = "null" /\ m' = begun
        ELSE IF Resembles(SubSeq(text, begun.start + 1, ended.end))
             THEN pc' = "made" /\ m' = Made(ended)
             ELSE pc' = "null" /\ m' = ended
  /\ UNCHANGED <<input, params, mark, stack, found>>

Done == pc = "loop" /\ AtEnd(text, m)

Next ==
  \/ Skip \/ Run \/ Returned
  \/ CallGlob \/ TakeSymbol \/ Mismatch \/ LastStar \/ CallRest
  \/ RestFound \/ RestFailed \/ EndOfGlob
  \/ MatchNamedEntity
  \/ Done /\ UNCHANGED vars

Spec == Init /\ [][Next]_vars

-----------------------------------------------------------------------------
Answered == pc \in {"made", "null"} /\ stack = <<>>

\* A run of match_glob_impl answers NULL if and only if the glob fits no
\* stretch of the text from the next token to the end of a token, and else one
\* of these stretches: however deep the recursion is, every way to share the
\* text out to the * is tried, and params, end_last and the marks come back as
\* they were.
GlobAnswers ==
  Answered /\ input.matcher = "glob" =>
    LET begin == Begin(text, glob, mark)
        ends  == {e \in Reach(text, glob, begin) : e > begin /\ TokenEnd(text, e) = e}
    IN /\ params = glob
       /\ pc = "made" => m.start = begin /\ m.end \in ends
       /\ pc = "null" => ends = {}

\* Globs that stay inside a token, and tell how much of it they need
Simple(g) ==
  /\ g # <<>>
  /\ \A i \in DOMAIN g : g[i].symbols \cap Delimiters = {} /\ (g[i] = Star => i = Len(g))

Fits(g, word) ==
  /\ Len(word) = Len(g) \/ (Last(g) = Star /\ Len(word) >= Len(g) - 1)
  /\ \A i \in DOMAIN g : i <= Len(word) /\ g[i] # Star => Takes(g[i], word[i])

\* The stretches of a text without one of the symbols, as long as they go
Stretches(t, symbols) ==
  {s \in [start : 0 .. Len(t), end : 0 .. Len(t)] :
     /\ s.start < s.end
     /\ \A k \in s.start + 1 .. s.end : t[k] \notin symbols
     /\ s.start = 0 \/ t[s.start] \in symbols
     /\ s.end = Len(t) \/ t[s.end + 1] \in symbols}

Word(t, span) == SubSeq(t, span.start + 1, span.end)

\* At the beginning of the text a delimiter is passed over, whatever it is.
NamedFrom(t, span) ==
  IF span.start = 0 /\ Sees(t, MinerAt(0), Delimiters) THEN [span EXCEPT !.start = 1] ELSE span

\* When the text has been scanned, every token that the glob fits has been
\* found, and every word between spaces that resembles a name, and nothing
\* else: a failed run stops exactly where the next one has to begin.
TokensFound ==
  Done /\ input.from = 0 =>
    /\ input.matcher = "glob" /\ Simple(glob) =>
         ToSet(found) = {s \in Stretches(text, Delimiters) : Fits(glob, Word(text, s))}
    /\ input.matcher = "named" =>
         ToSet(found) = {s \in {NamedFrom(text, x) : x \in Stretches(text, Spaces)} :
                          s.start < s.end /\ Resembles(Word(text, s))}

\* What the README says of ? and *: one symbol, and any number of symbols
FitsAsSaid(g, word) ==
  LET after[i \in 0 .. Len(g)] ==
        IF i = 0 THEN {0}
        ELSE IF g[i] = Star THEN UNION {q .. Len(word) : q \in after[i - 1]}
        ELSE {q + 1 : q \in {r \in after[i - 1] : r < Len(word) /\ Takes(g[i], word[r + 1])}}
  IN Len(word) \in after[Len(g)]

\* "any number of characters, including 0" (README.md): when the text has been
\* scanned, every token that fits a glob with a * inside was reported, or lies
\* in what was.
StarsFindTokens ==
  Done /\ input.matcher = "glob" =>
    \A s \in Stretches(text, Delimiters) :
      FitsAsSaid(glob, Word(text, s)) =>
        \E o \in ToSet(found) : o.start <= s.start /\ s.end <= o.end
===============================================================================
