------------------------------ MODULE MCMatchers ------------------------------
(***************************************************************************)
(* Instances of the matchers that read a text symbol by symbol: a glob or  *)
(* a named entity, searched for by the loop of thread_fn, or the CSV       *)
(* parser with the loop of its own.  A behaviour is one of them on one     *)
(* text; the variables of the other keep their values.                     *)
(***************************************************************************)
EXTENDS Tokens, Csv

parserVars == <<was, batch, row_count, batch_size, iter, parses, read>>
tokenVars  == <<params, mark, stack, found>>

MCInit ==
  \/ /\ CsvInit
     /\ params = <<>> /\ mark = 0 /\ stack = <<>> /\ found = <<>>
  \/ /\ Init
     /\ was = "nothing" /\ batch = <<>> /\ row_count = 0 /\ batch_size = 0 /\ iter = 0
     /\ parses = 0 /\ read = <<>>

\* The disjuncts of Csv and of Tokens: which can be taken follows from pc.
MCNext ==
  \/ \E size \in BatchSizes : Parse(size) /\ UNCHANGED tokenVars
  \/ StartQuoted /\ UNCHANGED tokenVars
  \/ StartPlain /\ UNCHANGED tokenVars
  \/ ReadQuoted /\ UNCHANGED tokenVars
  \/ ReadPlain /\ UNCHANGED tokenVars
  \/ CloseQuoted /\ UNCHANGED tokenVars
  \/ ClosePlain /\ UNCHANGED tokenVars
  \/ FieldEnds /\ UNCHANGED tokenVars
  \/ RowEnds /\ UNCHANGED tokenVars
  \/ FieldFails /\ UNCHANGED tokenVars
  \/ TextEnds /\ UNCHANGED tokenVars
  \/ ReturnBatch /\ UNCHANGED tokenVars
  \/ GetNext /\ UNCHANGED tokenVars
  \/ BatchRead /\ UNCHANGED tokenVars
  \/ Stopped /\ UNCHANGED tokenVars
  \/ Skip /\ UNCHANGED parserVars
  \/ Run /\ UNCHANGED parserVars
  \/ Returned /\ UNCHANGED parserVars
  \/ CallGlob /\ UNCHANGED parserVars
  \/ TakeSymbol /\ UNCHANGED parserVars
  \/ Mismatch /\ UNCHANGED parserVars
  \/ LastStar /\ UNCHANGED parserVars
  \/ CallRest /\ UNCHANGED parserVars
  \/ RestFound /\ UNCHANGED parserVars
  \/ RestFailed /\ UNCHANGED parserVars
  \/ EndOfGlob /\ UNCHANGED parserVars
  \/ MatchNamedEntity /\ UNCHANGED parserVars
  \/ Done /\ UNCHANGED <<vars, parserVars>>

MCVars == <<vars, parserVars>>

\* A program goes on while it can.
MCSpec == MCInit /\ [][MCNext]_MCVars /\ WF_MCVars(MCNext)

-----------------------------------------------------------------------------
(* The texts, globs and names *)

MCSpaces == {" ", "\n"}

MCLower == [c \in {"a", "b", "A", " ", "\n", "."} |-> IF c = "A" THEN "a" ELSE c]

MCTexts ==
  (BoundedSeq({"a", "b", " "}, 4) \ {<<>>}) \cup
  {<<"A", "b">>, <<".", "a", "b">>, <<"a", ".", "b">>, <<".", " ", "a">>, <<".", ".", "a">>,
   <<"a", " ", " ", "b", "a", "b">>}

MCItems == {Plain("a"), Plain(" "), Bracket({"a", "b"}), AnyOne, Star}

\* Up to three items, and more with more than one *
MCGlobs ==
  BoundedSeq(MCItems, 3) \cup
  {<<Star, Plain("a"), Star, Plain("b")>>,
   <<Plain("a"), Star, Plain("b"), Star>>,
   <<Star, AnyOne, Star, Plain("b")>>,
   <<Plain("a"), Star, Bracket({"a", "b"}), Star>>,
   <<Star, Plain("b"), Star, Plain(" "), Plain("a")>>}

MCNames == {<<"a", "b", "a">>, <<"b", "b">>}

TableText == [b_b |-> <<"b", " ", "b">>, n_a |-> <<"\n", " ", "a">>]

TableGlob ==
  [bb |-> <<Plain("b"), Plain(" "), Plain("b")>>, b |-> <<Plain("b")>>,
   a |-> <<Plain("a")>>, _a |-> <<Plain(" "), Plain("a")>>]

Searches(matcher, globs, texts, places) ==
  [text : texts, matcher : {matcher}, glob : globs, from : places]

MCInputs ==
  Searches("glob", MCGlobs, MCTexts, {0})
  \cup Searches("glob", {TableGlob[g] : g \in DOMAIN TableGlob},
              {TableText[t] : t \in DOMAIN TableText}, 0 .. 2)
  \cup Searches("named", {<<>>}, MCTexts, {0})

\* One symbol, a * and another, over all texts
MCStarInputs ==
  Searches("glob", {<<Bracket({"a", "b"}), Star, Plain("b")>>, <<Plain("a"), Star, Plain("b")>>}, MCTexts, {0})

-----------------------------------------------------------------------------
\* The table that Extractor takes for its matchers is what match_glob_impl
\* does on these texts from every position: the answer, the marks and where
\* the run stops; and a run without an occurrence marks no end further on.
TableAgrees ==
  Answered /\ input.matcher = "glob" =>
    \A t \in DOMAIN TableText, g \in DOMAIN TableGlob :
      text = TableText[t] /\ input.glob = TableGlob[g] =>
        /\ GlobTable[t][g][mark] =
             IF pc = "made" THEN Hit(m.start, m.end, m.pos) ELSE Miss(m.pos)
        /\ pc = "null" => m.end = Unmarked \/ m.end <= m.pos

\* Scanning a text ends, and so does parsing one: no call of match_glob_impl
\* tries the same place twice, however many * share the text out, no failing
\* matcher leaves the loop of thread_fn where it was, and reading a batch
\* comes to its end although a length may be read wrong.
ScansEnd == <>(Done \/ (pc = "idle" /\ parses > 0 /\ (parses = MaxParses \/ AtEnd(text, m))))
===============================================================================
