------------------------------- MODULE Automaton -------------------------------
(***************************************************************************)
(* One expression on its way from text to matcher: regex_compile parses it *)
(* and builds the nondeterministic automaton (Regex), fa_create_powerset   *)
(* makes it deterministic, depth first and one recursive call at a time,   *)
(* edges_to_code prints the tests of its edges, and the function that      *)
(* regex_dfa_to_code makes of them walks over a text once it is compiled.  *)
(*                                                                         *)
(* The matcher has one C function per node, which tries its edges latest   *)
(* first, follows the first one whose test is true here and answers        *)
(* is_final when there is none.  It never comes back from an edge it took. *)
(***************************************************************************)
EXTENDS RegexWords, FiniteSets

CONSTANTS
  Regexes       \* expressions: their text, the tree they are meant to have, and
                \* the characters and the length of the texts they are tried on

VARIABLES
  regex,        \* the expression, never changed
  phase,        \* how far it is
  tree,         \* its tree, from lex_tree_create to internal_form
  nfa,          \* [fa, a, b]: a is_starting, b is_final
  dfa,          \* the automaton under construction
  finals,       \* its nodes that are is_final
  mapping,      \* fa_mapping_t: the nodes of nfa that a node of dfa stands for
  stack,        \* the calls of fa_create_powerset_impl, latest last
  match         \* the run of the matcher: text, whether the stream begins with it,
                \* node and position

Texts == UNION {[1 .. n -> regex.chars] : n \in 0 .. regex.longest}

vars == <<regex, phase, tree, nfa, dfa, finals, mapping, stack, match>>


NoMatch == [text |-> <<>>, begin |-> FALSE, node |-> 0, pos |-> 0]

Init ==
  /\ regex \in Regexes
  /\ phase = "parse"
  /\ tree = Nothing
  /\ nfa = [fa |-> fa_create, a |-> 0, b |-> 0]
  /\ dfa = fa_create
  /\ finals = {}
  /\ mapping = <<>>
  /\ stack = <<>>
  /\ match = NoMatch

-------------------------------------------------------------------------------
(* regex_compile, one pass over the tree after the other.  A pass that     *)
(* fails ends it, except that lex_to_op does not look whether the root is  *)
(* NULL, nor the collapsing of concatenations whether there is a child.    *)
Pass(before, result, fails, end, after) ==
  /\ phase = before
  /\ tree' = result
  /\ phase' = IF fails THEN end ELSE after
  /\ UNCHANGED <<regex, nfa, dfa, finals, mapping, stack, match>>

ReadAtoms == Pass("parse", LexTree("", regex.text), tree'.end # "read", tree'.end, "read")
MakePartial ==
  Pass("read", PartialOp([symbol |-> "", kids |-> tree.kids]), tree' = Nothing, "crashed", "partial")
PlaceClosures ==
  Pass("partial", TransformClosures(tree), Nothing \in Subtrees(tree'), "refused", "closures")
PlaceAlternations ==
  Pass("closures", TransformAlternation(tree), Nothing \in Subtrees(tree'), "refused", "form")
CollapseConcats ==
  Pass("form", Collapse(tree), \E n \in Subtrees(tree) : n.op = "concat" /\ n.kids = <<>>,
       "crashed", "collapsed")

BuildNfa ==
  /\ phase = "collapsed"
  /\ nfa' = RegexToNfa(tree)
  /\ phase' = "powerset"
  /\ UNCHANGED <<regex, tree, dfa, finals, mapping, stack, match>>

-------------------------------------------------------------------------------
(* fa_gather_transition_nodes appends the nodes that are reached from node *)
(* by symbol to temp, each with what empty edges reach from it.  It does   *)
(* not stop at a node it has already added.                                *)
RECURSIVE Gather(_, _, _)
Gather(node, symbol, temp) ==
  FoldLeft(LAMBDA t, e :
             IF e.symbol # symbol THEN t
             ELSE IF Contains(t, e.to) THEN Gather(e.to, EPS, t)
             ELSE Gather(e.to, EPS, Append(t, e.to)),
           temp, EdgesOf(nfa.fa, node))

\* The nodes that edges of these symbols reach
RECURSIVE Reach(_, _, _)
Reach(fa, nodes, symbols) ==
  LET more == nodes \cup {e.to : e \in {x \in ToSet(fa.edges) : x.symbol \in symbols /\ x.from \in nodes}}
  IN IF more = nodes THEN nodes ELSE Reach(fa, more, symbols)

EmptyReach(fa, nodes) == Reach(fa, nodes, {EPS})

Targets(fa, nodes, symbol) ==
  {e.to : e \in {x \in ToSet(fa.edges) : x.symbol = symbol /\ x.from \in nodes}}

\* The recursion comes back to a node it is in: it runs until the stack is full.
NeverReturns(nodes, symbol) ==
  \E n \in EmptyReach(nfa.fa, Targets(nfa.fa, nodes, symbol)) :
    n \in EmptyReach(nfa.fa, Targets(nfa.fa, {n}, EPS))

GatherAll(nodes, symbol, temp) ==
  FoldLeft(LAMBDA t, n : Gather(n, symbol, t), temp, nodes)

EdgeSymbols(nodes) ==
  LET Symbols(n) ==
        SelectSeq([i \in DOMAIN EdgesOf(nfa.fa, n) |-> EdgesOf(nfa.fa, n)[i].symbol],
                  LAMBDA s : s # EPS)
      AddNew(all, s) == IF Contains(all, s) THEN all ELSE Append(all, s)
  IN FoldLeft(LAMBDA all, n : FoldLeft(AddNew, all, Symbols(n)), <<>>, nodes)

\* [faulty] The nodes are compared place by place.
SamePlaces(from, nodes) == from = nodes

\* fa_mapping_find_from: as many nodes and each of them; 0 stands for NULL.
SameNodes(from, nodes) == Len(from) = Len(nodes) /\ ToSet(from) = ToSet(nodes)
FindFrom(nodes) == SelectInSeq(mapping, LAMBDA from : SameNodes(from, nodes))

\* What a call of fa_create_powerset_impl does before its loop.
Entered(node, nodes) == [node |-> node, symbols |-> EdgeSymbols(nodes)]
FinalsWith(node, nodes) == IF Contains(nodes, nfa.b) THEN finals \cup {node} ELSE finals

Overflow ==
  /\ \/ phase = "powerset" /\ stack = <<>> /\ NeverReturns({nfa.a}, EPS)
     \/ /\ phase = "powerset"
        /\ stack # <<>>
        /\ Last(stack).symbols # <<>>
        /\ NeverReturns(ToSet(mapping[Last(stack).node + 1]), Head(Last(stack).symbols))
  /\ phase' = "overflow"
  /\ UNCHANGED <<regex, tree, nfa, dfa, finals, mapping, stack, match>>

Start ==
  /\ phase = "powerset"
  /\ dfa.nodes = 0
  /\ ~NeverReturns({nfa.a}, EPS)
  /\ LET nodes == Gather(nfa.a, EPS, <<nfa.a>>)
     IN /\ mapping' = <<nodes>>
        /\ finals' = FinalsWith(0, nodes)
        /\ stack' = <<Entered(0, nodes)>>
  /\ dfa' = AddNodes(dfa, 1)
  /\ UNCHANGED <<regex, phase, tree, nfa, match>>

HasEdge(fa, node, symbol) == \E e \in ToSet(fa.edges) : e.from = node /\ e.symbol = symbol

\* One turn of the loop over the symbols of the latest call.
TrySymbol ==
  /\ phase = "powerset"
  /\ stack # <<>>
  /\ Last(stack).symbols # <<>>
  /\ LET node == Last(stack).node
         symbol == Head(Last(stack).symbols)
         rest == [stack EXCEPT ![Len(stack)].symbols = Tail(@)]
         reached == GatherAll(mapping[node + 1], symbol, <<>>)
         found == FindFrom(reached)
         nodes == IF found # 0 THEN mapping[found] ELSE reached
         to == IF found # 0 THEN found - 1 ELSE dfa.nodes
     IN IF HasEdge(dfa, node, symbol)
        THEN stack' = rest /\ UNCHANGED <<dfa, finals, mapping>>
        ELSE /\ ~NeverReturns(ToSet(mapping[node + 1]), symbol)
             /\ dfa' = AddEdge(IF found # 0 THEN dfa ELSE AddNodes(dfa, 1), node, symbol, to)
             /\ mapping' = IF found # 0 THEN mapping ELSE Append(mapping, nodes)
             /\ finals' = FinalsWith(to, nodes)
             /\ stack' = Append(rest, Entered(to, nodes))
  /\ UNCHANGED <<regex, phase, tree, nfa, match>>

ReturnImpl ==
  /\ phase = "powerset"
  /\ stack # <<>>
  /\ Last(stack).symbols = <<>>
  /\ stack' = Front(stack)
  /\ phase' = IF Len(stack) = 1 THEN "deterministic" ELSE phase
  /\ UNCHANGED <<regex, tree, nfa, dfa, finals, mapping, match>>

-------------------------------------------------------------------------------
(* regex_dfa_to_code gives up when an edge has no code, and what it prints  *)
(* is compiled when the module is built.                                   *)
PrintCode ==
  /\ phase = "deterministic"
  /\ phase' = IF \A e \in ToSet(dfa.edges) : HasCode(e.symbol) THEN "printed" ELSE "refused"
  /\ UNCHANGED <<regex, tree, nfa, dfa, finals, mapping, stack, match>>

CompileCode ==
  /\ phase = "printed"
  /\ phase' = IF \A e \in ToSet(dfa.edges) : Compiles(e.symbol) THEN "ready" ELSE "unbuilt"
  /\ UNCHANGED <<regex, tree, nfa, dfa, finals, mapping, stack, match>>

(* The matcher, started on a text: what is left of the stream, or all of it. *)
CallMatcher ==
  /\ phase = "ready"
  /\ \E text \in Texts, begin \in BOOLEAN :
       match' = [NoMatch EXCEPT !.text = text, !.begin = begin]
  /\ phase' = "matching"
  /\ UNCHANGED <<regex, tree, nfa, dfa, finals, mapping, stack>>

\* Tests that read nothing
Anchors == {"^", "$"}
Holds(anchor, begin, end) == (anchor = "^" /\ begin) \/ (anchor = "$" /\ end)

Fits(e) ==
  IF e.symbol \in Anchors
  THEN Holds(e.symbol, match.begin /\ match.pos = 0, match.pos = Len(match.text))
  ELSE match.pos < Len(match.text) /\ match.text[match.pos + 1] \in Matches(e.symbol)

\* The first edge, in the order of the code, that fits here; 0 if none.
Fitting(edges) == SelectInSeq(edges, Fits)

TakeEdge ==
  /\ phase = "matching"
  /\ LET edges == EdgesOf(dfa, match.node)
     IN /\ Fitting(edges) # 0
        /\ LET e == edges[Fitting(edges)]
           IN match' = [match EXCEPT !.node = e.to,
                                     !.pos = IF e.symbol \in Anchors THEN @ ELSE @ + 1]
  /\ UNCHANGED <<regex, phase, tree, nfa, dfa, finals, mapping, stack>>

\* [faulty] A final node answers before it has tried its edges.
AnswerAtFinal ==
  /\ phase = "matching"
  /\ match.node \in finals \/ Fitting(EdgesOf(dfa, match.node)) = 0
  /\ phase' = IF match.node \in finals THEN "matched" ELSE "failed"
  /\ UNCHANGED <<regex, tree, nfa, dfa, finals, mapping, stack, match>>

Answer ==
  /\ phase = "matching"
  /\ Fitting(EdgesOf(dfa, match.node)) = 0
  /\ phase' = IF match.node \in finals THEN "matched" ELSE "failed"
  /\ UNCHANGED <<regex, tree, nfa, dfa, finals, mapping, stack, match>>

Next ==
  \/ ReadAtoms \/ MakePartial \/ PlaceClosures \/ PlaceAlternations \/ CollapseConcats
  \/ BuildNfa \/ Overflow \/ Start \/ TrySymbol \/ ReturnImpl
  \/ PrintCode \/ CompileCode
  \/ CallMatcher \/ TakeEdge \/ Answer

Spec == Init /\ [][Next]_vars

-------------------------------------------------------------------------------
(* Properties.                                                             *)

\* The classes match the characters that the comment beside each of them lists:
\* a matcher that is one atom finds a text of one character exactly when the
\* atom stands for that character (str_to_match_fn, printed by edges_to_code).
AtomsAsListed ==
  phase \in {"matched", "failed"} /\ regex.tree.op = "identity" /\ Len(match.text) = 1 =>
    (phase = "matched" <=> match.text[1] \in Meaning[regex.tree.symbol])

\* regex_compile says in state whether it took the expression: with state 1, when
\* the matcher is printed, the expression means something.
ErrorsShow == phase = "printed" => regex.tree # Nothing

\* Every edge the construction has added leads to the node that stands for
\* all that its symbol and then empty edges reach, and for nothing else.  No
\* two edges of a node have the same symbol, and no two nodes stand for the
\* same nodes, though calls of fa_create_powerset_impl that are under way
\* extend the node, the edges and the mapping their callers work on.
PowersetSound ==
  /\ mapping # <<>> => ToSet(mapping[1]) = EmptyReach(nfa.fa, {nfa.a})
  /\ \A e \in ToSet(dfa.edges) :
       ToSet(mapping[e.to + 1]) =
         EmptyReach(nfa.fa, Targets(nfa.fa, ToSet(mapping[e.from + 1]), e.symbol))
  /\ \A i, j \in DOMAIN dfa.edges :
       /\ dfa.edges[i].from = dfa.edges[j].from
       /\ dfa.edges[i].symbol = dfa.edges[j].symbol
       => i = j
  /\ \A i, j \in DOMAIN mapping : ToSet(mapping[i]) = ToSet(mapping[j]) => i = j

\* The automaton of an expression accepts the words the expression means, no
\* others, with its atoms as the printed code tests them: precedence, ranges,
\* closures of closures, groups, classes and escapes, and the powerset
\* construction together.  An expression is refused, crashes regex_compile or
\* has code that no compiler takes if and only if it has no meaning.
MeansExpression ==
  /\ phase \in {"refused", "crashed", "unbuilt"} => regex.tree = Nothing
  /\ phase = "ready" =>
       /\ regex.tree # Nothing
       /\ \A word \in Texts, begin, end \in BOOLEAN :
            LET Still(nodes, b, e) == Reach(dfa, nodes, {a \in Anchors : Holds(a, b, e)})
                Read(nodes, i) ==
                  LET to == {e.to : e \in {x \in ToSet(dfa.edges) :
                               x.from \in nodes /\ word[i] \in Matches(x.symbol)}}
                  IN Still(to, FALSE, end /\ i = Len(word))
            IN IsWord(regex.tree, word, [begin |-> begin, end |-> end]) <=>
                 FoldLeftDomain(Read, Still({0}, begin, end /\ word = <<>>), word) \cap finals # {}

\* The automaton leads in a circle where the matcher reads nothing.
Circles ==
  \E e \in ToSet(dfa.edges) : e.symbol \in Anchors /\ e.from \in Reach(dfa, {e.to}, Anchors)

\* fa_create_powerset returns for exactly those expressions that nowhere repeat,
\* without a bound, what may be empty; for the others its recursion, which
\* does not look for nodes it has been at, uses up the stack.  What is empty
\* only where the text begins or ends it takes, and if that is repeated the
\* matcher goes round in a circle.
OverflowsOnStarOfEmpty ==
  regex.tree # Nothing =>
    /\ phase = "overflow" => StarOfEmpty(regex.tree, Nowhere)
    /\ phase = "ready" => /\ ~StarOfEmpty(regex.tree, Nowhere)
                          /\ Circles <=> StarOfEmpty(regex.tree, Everywhere)

\* No character is one that two atoms of the expression stand for, and every
\* atom reads one.
Apart(t) ==
  LET symbols == {u.symbol : u \in {x \in Subtrees(t) : x.op = "identity"}}
  IN \A s, u \in symbols : s \notin Anchors /\ (s # u => Meaning[s] \cap Meaning[u] = {})

\* What the matcher finds is a word.  It reads the longest beginning of the
\* text that begins some word, and if that is not a word itself it answers NULL
\* though a shorter one may be: there is no way back to a final node.
GreedyAnswer ==
  phase \in {"matched", "failed"} =>
    LET Read(n) == SubSeq(match.text, 1, n)
        Found == IsWord(regex.tree, Read(match.pos),
                        [begin |-> match.begin, end |-> match.pos = Len(match.text)])
    IN /\ phase = "matched" => Found
       /\ Apart(regex.tree) =>
            /\ \A n \in 0 .. Len(match.text) : BeginsWord(regex.tree, Read(n)) <=> n <= match.pos
            /\ phase = "matched" <=> Found
===============================================================================
