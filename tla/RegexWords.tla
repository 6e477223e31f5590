------------------------------ MODULE RegexWords ------------------------------
(***************************************************************************)
(* What a regular expression means: the reference for Regex and Automaton. *)
(* It never looks at an automaton: membership is decided by taking the     *)
(* expression apart symbol by symbol (partial derivatives), and Spelled    *)
(* writes a tree down with the brackets it needs.                          *)
(***************************************************************************)
EXTENDS Regex

CONSTANT Meaning    \* the characters each atom stands for; ^ and $ stand for none

\* Whether a text begins or ends where an expression is tried
Nowhere == [begin |-> FALSE, end |-> FALSE]
Everywhere == [begin |-> TRUE, end |-> TRUE]

RECURSIVE AcceptsEmpty(_, _)
AcceptsEmpty(t, at) ==
  CASE t.op = "identity" -> (t.symbol = "^" /\ at.begin) \/ (t.symbol = "$" /\ at.end)
    [] t.op = "concat" -> \A i \in DOMAIN t.kids : AcceptsEmpty(t.kids[i], at)
    [] t.op = "alternation" -> \E i \in DOMAIN t.kids : AcceptsEmpty(t.kids[i], at)
    [] t.op = "closure" -> t.symbol # "+" \/ AcceptsEmpty(t.kids[1], at)
    [] t.op = "range" -> t.lo = 0 \/ AcceptsEmpty(t.kids[1], at)

Then(heads, t) == {Op("concat", "(", <<h, t>>) : h \in heads}

\* The expressions for what may follow the character c in a word of t.
RECURSIVE Follow(_, _, _)
Follow(t, c, begin) ==
  LET empty(u) == AcceptsEmpty(u, [begin |-> begin, end |-> FALSE])
  IN CASE t.op = "identity" ->
            IF c \in Meaning[t.symbol] THEN {Op("concat", "(", <<>>)} ELSE {}
       [] t.op = "concat" ->
            IF t.kids = <<>> THEN {}
            ELSE LET rest == Op("concat", "(", Tail(t.kids))
                 IN Then(Follow(Head(t.kids), c, begin), rest)
                      \cup IF empty(Head(t.kids)) THEN Follow(rest, c, begin) ELSE {}
       [] t.op = "alternation" -> UNION {Follow(t.kids[i], c, begin) : i \in DOMAIN t.kids}
       [] t.op = "closure" ->
            IF t.symbol = "?" THEN Follow(t.kids[1], c, begin)
            ELSE Then(Follow(t.kids[1], c, begin), Op("closure", "*", t.kids))
       [] t.op = "range" ->
            IF t.hi = 0 THEN {}
            ELSE Then(Follow(t.kids[1], c, begin),
                      Range_t(IF t.lo = 0 \/ empty(t.kids[1]) THEN 0 ELSE t.lo - 1,
                              IF t.hi = -1 THEN -1 ELSE t.hi - 1, t.kids[1]))

FollowWord(t, word, begin) ==
  FoldLeftDomain(LAMBDA ts, i : UNION {Follow(u, word[i], begin /\ i = 1) : u \in ts}, {t}, word)

\* Whether the word, which has the beginning of a text before it or its end
\* behind it or neither, is one of t.
IsWord(t, word, at) ==
  \E u \in FollowWord(t, word, at.begin) :
    AcceptsEmpty(u, [begin |-> at.begin /\ word = <<>>, end |-> at.end])
BeginsWord(t, word) == FollowWord(t, word, FALSE) # {}

\* A part that is repeated without bound and accepts the empty word.
RECURSIVE StarOfEmpty(_, _)
StarOfEmpty(t, at) ==
  IF t.op = "range" /\ t.hi = 0 THEN FALSE
  ELSE \/ t.op = "closure" /\ t.symbol # "?" /\ AcceptsEmpty(t.kids[1], at)
       \/ t.op = "range" /\ t.hi = -1 /\ AcceptsEmpty(t.kids[1], at)
       \/ \E i \in DOMAIN t.kids : StarOfEmpty(t.kids[i], at)

-------------------------------------------------------------------------------
Bracketed(text) == "(" \o text \o ")"

\* The text of the tree t, bracketed where another reading would take it
\* apart.  A range binds before a closure does: (a*){2} needs its brackets.
RECURSIVE Spelled(_)
Spelled(t) ==
  LET Part(kid, loose) == IF kid.op \in loose THEN Bracketed(Spelled(kid)) ELSE Spelled(kid)
      Bounds == ToString(t.lo) \o IF t.hi = t.lo THEN "" ELSE "," \o IF t.hi = -1 THEN "" ELSE ToString(t.hi)
  IN CASE t.op = "identity" -> t.symbol
       [] t.op = "concat" ->
            FoldLeft(LAMBDA text, kid : text \o Part(kid, {"alternation"}), "", t.kids)
       [] t.op = "alternation" -> Spelled(t.kids[1]) \o "|" \o Spelled(t.kids[2])
       [] t.op = "closure" -> Part(t.kids[1], {"concat", "alternation"}) \o t.symbol
       [] t.op = "range" ->
            Part(t.kids[1], {"concat", "alternation", "closure"}) \o "{" \o Bounds \o "}"
===============================================================================
