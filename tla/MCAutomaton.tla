------------------------------ MODULE MCAutomaton ------------------------------
(***************************************************************************)
(* Instances of Automaton: expressions over two characters, up to an       *)
(* operation on operations, each written down from the tree it is meant to *)
(* have; atoms of every kind, over characters they tell apart; and         *)
(* expressions that are wrong.  Apart from these, for the runs in which    *)
(* the code is not what its comments say: the classes they list, and       *)
(* brackets with an error inside.                                          *)
(***************************************************************************)
EXTENDS Automaton

\* Characters on both sides of every border that an atom below draws
Tried == {"a", "b", "c", "d", "B", "1", "3", "_", "-", "^", ".", "]", "\t", "\n"}

\* What the atoms are meant to match, of the classes what the comments beside
\* them in str_to_match_fn list
MCMeaning ==
  LET words == SymbolsIn("abcdefghijklmnopqrstuvwxyzABCDEFGHIJKLMNOPQRSTUVWXYZ0123456789_")
      spaces == SymbolsIn("\r\n\t\f")
      digits == SymbolsIn("0123456789")
  IN [s \in {"a", "b"} |-> {s}] @@ [s \in Anchors |-> {}]
       @@ "." :> Tried \ {"\n"}
       @@ "[.]" :> {"."} @@ "\\." :> {"."}
       @@ "[ab]" :> {"a", "b"} @@ "[^ab]" :> Tried \ {"a", "b"}
       @@ "[b-d1-3]" :> {"b", "c", "d", "1", "3"} @@ "[^b-d]" :> Tried \ {"b", "c", "d"}
       @@ "[-a]" :> {"-", "a"} @@ "[a\\-d]" :> {"-", "a", "d"} @@ "[_-a]" :> {"_", "-", "a"}
       @@ "[\\^\\]]" :> {"^", "]"} @@ "[^\\]]" :> Tried \ {"]"}
       @@ "\\s" :> spaces @@ "\\S" :> Ascii \ spaces @@ "[\\n]" :> {"\n"}
       @@ "\\w" :> words @@ "\\W" :> Ascii \ words @@ "[^\\w\\s]" :> Ascii \ (words \cup spaces)
       @@ "\\d" :> digits @@ "\\D" :> Ascii \ digits

Atom1(s) == Op("identity", s, <<>>)
Letters == {Atom1("a"), Atom1("b")}

Repeated(ts) ==
  {Op("closure", s, <<t>>) : s \in ClosureSymbols, t \in ts}
    \cup {Range_t(r[1], r[2], t) : r \in {<<0, 1>>, <<1, 2>>, <<2, -1>>, <<2, 2>>}, t \in ts}

Joined(ts, us) ==
  {Op(op, IF op = "concat" THEN "(" ELSE "|", <<t, u>>) :
     op \in {"concat", "alternation"}, t \in ts, u \in us}

Small == Letters \cup Repeated(Letters) \cup Joined(Letters, Letters)

Overlapping ==
  Joined({Atom1(".")} \cup Repeated({Atom1(".")}), {Atom1("a")} \cup Repeated({Atom1("a")}))

Anchored ==
  LET begin == {Atom1("^")} end == {Atom1("$")}
  IN Joined(begin, Small) \cup Joined(Small, end) \cup Joined(Joined(begin, Letters), end)
       \cup Repeated(begin \cup end) \cup Joined(Repeated(begin), Letters)
       \cup Repeated(Joined(begin, {Atom1("a")})) \cup Joined(Letters, begin)

Trees == Small \cup Repeated(Small) \cup Joined(Small, Letters) \cup Joined(Letters, Small)
           \cup Overlapping \cup Anchored

Classed ==
  LET atoms == {Atom1(s) : s \in DOMAIN MCMeaning \ (Anchors \cup {"\\d", "\\D"})}
  IN atoms \cup Joined({Atom1("[ab]"), Atom1("\\w")}, Repeated({Atom1("[^\\w\\s]"), Atom1("[-a]")}))

\* Refused, dereferenced, or with code that does not compile
Wrong ==
  {"*a", "a|", "a{2,1}", "a*{2}", "(a}", "", "a()", "{2}",
   "a)", ")", "a}", "a{2,1}{2}",
   "a[]", "[^]", "[a", "a]", "[b-a]", "a|[a-B]", "[1-a]", "[a-]", "[a^]", "[\\]^]", "[a$]", "a\\b",
   "\"", "a|[\"]", "\\\\", "a\n"}

Tested(text, t, chars, longest) ==
  [text |-> text, tree |-> t, chars |-> chars, longest |-> longest]

MCRegexes ==
  {Tested(Spelled(t), t, {"a", "b"}, 3) : t \in Trees}
    \cup {Tested(Spelled(t), t, Tried, 2) : t \in Classed}
    \cup {Tested(w, Nothing, {}, 0) : w \in Wrong}

\* The classes that the comments list
ClassRegexes ==
  {Tested(s, Atom1(s), {"a", "1", "_", "\n"}, 1) :
     s \in {"\\s", "\\S", "\\w", "\\W", "\\d", "\\D"}}

\* A range that is wrong makes the bracket around it NULL.
BracketRegexes ==
  {Tested(w, Nothing, {"a", "b"}, 3) : w \in {"a({2})", "a(b{,})", "b(a{2,1}{2})", "a{2,1}", "(a}"}}
===============================================================================
