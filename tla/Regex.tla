--------------------------------- MODULE Regex ---------------------------------
(***************************************************************************)
(* How regex_generator.c reads an expression and turns it into a           *)
(* nondeterministic automaton: lex_tree_create, lex_to_op,                 *)
(* op_tree_collapse_concats and regex_to_nfa.                              *)
(*                                                                         *)
(* An expression is its text, from which RegexAtoms cuts the atoms.        *)
(* Brackets have a counterpart: the code reads on past the end of an       *)
(* expression that leaves one open.                                        *)
(*                                                                         *)
(* The operators are recursive, so nothing here is the subject of a        *)
(* theorem.                                                                *)
(***************************************************************************)
EXTENDS RegexAtoms, SequencesExt, TLC

Opening == {"(", "{"}
Closing == [b \in Opening |-> IF b = "(" THEN ")" ELSE "}"]
ClosureSymbols == {"*", "+", "?"}

Value(d) == CHOOSE n \in 0 .. 9 : ToString(n) = d

\* A node of the tree of operations; lo and hi are the range_t of a range.
Op(op, symbol, kids) == [op |-> op, symbol |-> symbol, lo |-> 0, hi |-> 0, kids |-> kids]
Range_t(lo, hi, kid) ==
  [op |-> "range", symbol |-> "{", lo |-> lo, hi |-> hi, kids |-> <<kid>>]

\* What a function answers, in place of a node, when it returns NULL.
Nothing == Op("nothing", "", <<>>)

(* lex_tree_create_impl: the children of one bracket, what is left of the  *)
(* expression behind the counterpart, and how the reading ended: refused   *)
(* when the counterpart is of the other kind, or an atom is NULL; crashed  *)
(* when a counterpart stands outside of all brackets, where the root has   *)
(* no data to compare it with.                                             *)
RECURSIVE LexTree(_, _)
LexTree(open, text) ==
  LET s == Atom(text)
      behind == SubSeq(text, Len(s) + 1, Len(text))
  IN IF s \in {"", ")", "}"}
     THEN [kids |-> <<>>,
           rest |-> behind,
           end |-> CASE text = "" -> "read"
                     [] text # "" /\ s = "" -> "refused"
                     [] s # "" /\ open = "" -> "crashed"
                     [] s # "" /\ open # "" -> IF Closing[open] = s THEN "read" ELSE "refused"]
     ELSE LET inner == IF s \in Opening THEN LexTree(s, behind)
                       ELSE [kids |-> <<>>, rest |-> behind, end |-> "read"]
              after == IF inner.end = "read" THEN LexTree(open, inner.rest) ELSE inner
          IN [kids |-> <<[symbol |-> s, kids |-> inner.kids]>> \o after.kids,
              rest |-> after.rest,
              end |-> after.end]

(* op_parse_int and op_get_range over the symbols between the braces.      *)
Number(ds) == FoldLeft(LAMBDA n, d : 10 * n + Value(d), 0, ds)
LeadingDigits(s) ==
  LET other == SelectInSeq(s, LAMBDA c : c \notin isdigit)
  IN IF other = 0 THEN Len(s) ELSE other - 1

GetRange(s, kid) ==
  LET l == LeadingDigits(s)
      low == Number(SubSeq(s, 1, l))
      comma == l < Len(s) /\ s[l + 1] = ","
      upper == SubSeq(s, l + 2, Len(s))
      h == LeadingDigits(upper)
      high == IF ~comma THEN low ELSE IF h = 0 THEN -1 ELSE Number(SubSeq(upper, 1, h))
      spent == IF comma THEN l + 1 + h ELSE l
  IN IF l = 0 \/ spent < Len(s) \/ (high # -1 /\ low > high)
     THEN Nothing
     ELSE Range_t(low, high, kid)

(* lex_to_partial_op: closures and alternations still stand between their  *)
(* operands; a range takes the operation before it.  A child that is NULL  *)
(* is left out; the first range that is wrong makes its parent NULL, and   *)
(* what stands behind it is not looked at.                                 *)
RECURSIVE PartialOp(_)
PartialOp(lex) ==
  LET Type(s) ==
        CASE s \in {"", "("} -> "concat" [] s = "{" -> "range" [] s = "|" -> "alternation"
          [] s \in ClosureSymbols -> "closure" [] OTHER -> "identity"
      Add(out, child) ==
        LET dup == PartialOp(child)
        IN CASE Contains(out, Nothing) \/ dup = Nothing -> out
             [] ~Contains(out, Nothing) /\ dup.op \notin {"nothing", "range"} -> Append(out, dup)
             [] OTHER ->
                  IF out = <<>> \/ dup.kids = <<>> THEN Append(out, Nothing)
                  ELSE Append(Front(out),
                              GetRange([i \in DOMAIN dup.kids |-> dup.kids[i].symbol],
                                       Last(out)))
      kids == FoldLeft(Add, <<>>, lex.kids)
  IN IF Contains(kids, Nothing) THEN Nothing ELSE Op(Type(lex.symbol), lex.symbol, kids)

(* transform_closures: a closure takes the sibling before it.              *)
RECURSIVE TransformClosures(_)
TransformClosures(node) ==
  LET Take(out, k) ==
        CASE k.op # "closure" -> Append(out, TransformClosures(k))
          [] k.op = "closure" /\ out = <<>> -> <<Nothing>>
          [] OTHER -> Append(Front(out), Op("closure", k.symbol, <<Last(out)>>))
  IN [node EXCEPT !.kids = FoldLeft(Take, <<>>, node.kids)]

(* transform_alternation: an alternation takes all siblings before it and  *)
(* all behind it, as two concatenations (concat_context).                  *)
RECURSIVE TransformAlternation(_)
TransformAlternation(node) ==
  LET RECURSIVE Branches(_)
      Branches(kids) ==
        LET i == SelectInSeq(kids, LAMBDA k : k.op = "alternation")
        IN IF i = 0 THEN kids
           ELSE IF i = 1 \/ i = Len(kids) THEN <<Nothing>>
           ELSE << Op("alternation", "|",
                      << Op("concat", "(", SubSeq(kids, 1, i - 1)),
                         Op("concat", "(", Branches(SubSeq(kids, i + 1, Len(kids)))) >>) >>
      deeper == [i \in DOMAIN node.kids |-> TransformAlternation(node.kids[i])]
  IN [node EXCEPT !.kids = Branches(deeper)]

(* op_tree_collapse_concats.                                               *)
RECURSIVE Collapse(_)
Collapse(node) ==
  LET kids == [i \in DOMAIN node.kids |-> Collapse(node.kids[i])]
  IN IF node.op = "concat" /\ Len(kids) = 1 THEN kids[1] ELSE [node EXCEPT !.kids = kids]

RECURSIVE Subtrees(_)
Subtrees(node) == {node} \cup UNION {Subtrees(node.kids[i]) : i \in DOMAIN node.kids}

-------------------------------------------------------------------------------
(* Automata (finite_automaton.h).  Nodes are numbered from 0; the edges of *)
(* a node are chained latest first.                                        *)

EPS == "eps"
fa_create == [nodes |-> 0, edges |-> <<>>]
AddNodes(fa, k) == [fa EXCEPT !.nodes = @ + k]
AddEdge(fa, from, symbol, to) ==
  [fa EXCEPT !.edges = Append(@, [from |-> from, symbol |-> symbol, to |-> to])]
EdgesOf(fa, node) == Reverse(SelectSeq(fa.edges, LAMBDA e : e.from = node))

(* re_op_to_nfa: fa with a part for the tree, which leads from a to b.     *)
RECURSIVE ReOpToNfa(_, _)

Behind(part, tree) ==
  LET pair == ReOpToNfa(tree, part.fa)
  IN [fa |-> AddEdge(pair.fa, part.b, EPS, pair.a), a |-> part.a, b |-> pair.b]

IdentityToNfa(tree, fa) ==
  [fa |-> AddEdge(AddNodes(fa, 2), fa.nodes, tree.symbol, fa.nodes + 1),
   a |-> fa.nodes, b |-> fa.nodes + 1]

ConcatToNfa(tree, fa) ==
  FoldLeft(Behind, ReOpToNfa(Head(tree.kids), fa), Tail(tree.kids))

AlternationToNfa(tree, fa) ==
  LET from == fa.nodes
      to == fa.nodes + 1
      Beside(all, kid) ==
        LET pair == ReOpToNfa(kid, all)
        IN AddEdge(AddEdge(pair.fa, from, EPS, pair.a), pair.b, EPS, to)
  IN [fa |-> FoldLeft(Beside, AddNodes(fa, 2), tree.kids), a |-> from, b |-> to]

\* [faulty] A ? loops too.
LoopsAlways(symbol) == TRUE

MaySkip(symbol) == symbol # "+"
MayLoop(symbol) == symbol # "?"

ClosureToNfa(tree, fa) ==
  LET from == fa.nodes
      to == fa.nodes + 1
      ends == AddNodes(fa, 2)
      pair == ReOpToNfa(tree.kids[1],
                        IF MaySkip(tree.symbol) THEN AddEdge(ends, from, EPS, to) ELSE ends)
      through == AddEdge(AddEdge(pair.fa, from, EPS, pair.a), pair.b, EPS, to)
  IN [fa |-> IF MayLoop(tree.symbol) THEN AddEdge(through, pair.b, EPS, pair.a) ELSE through,
      a |-> from, b |-> to]

\* The copies range_to_nfa chains: lo plain ones, then a star or optional ones.
Copies(tree) ==
  LET kid == tree.kids[1]
  IN [i \in 1 .. tree.lo |-> kid]
       \o IF tree.hi = -1 THEN <<Op("closure", "*", <<kid>>)>>
          ELSE [i \in 1 .. tree.hi - tree.lo |-> Op("closure", "?", <<kid>>)]

RangeToNfa(tree, fa) ==
  LET ends == [fa |-> AddNodes(fa, 2), a |-> fa.nodes, b |-> fa.nodes]
      chain == FoldLeft(Behind, ends, Copies(tree))
  IN [fa |-> AddEdge(chain.fa, chain.b, EPS, fa.nodes + 1), a |-> fa.nodes, b |-> fa.nodes + 1]

ReOpToNfa(tree, fa) ==
  CASE tree.op = "identity" -> IdentityToNfa(tree, fa)
    [] tree.op = "concat" -> ConcatToNfa(tree, fa)
    [] tree.op = "alternation" -> AlternationToNfa(tree, fa)
    [] tree.op = "closure" -> ClosureToNfa(tree, fa)
    [] tree.op = "range" -> RangeToNfa(tree, fa)

RegexToNfa(form) == ReOpToNfa(form, fa_create)
===============================================================================
