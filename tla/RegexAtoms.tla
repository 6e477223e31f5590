------------------------------ MODULE RegexAtoms ------------------------------
(***************************************************************************)
(* The atoms of a regular expression: how lex_atom_create cuts them off    *)
(* its text, and what the code that edges_to_code prints for one matches.  *)
(* A text is a string of one-byte symbols.  What an atom matches is the    *)
(* set of symbols for which its printed test is true.                      *)
(***************************************************************************)
EXTENDS Integers, Sequences

SymbolsIn(s) == {SubSeq(s, i, i) : i \in 1 .. Len(s)}

\* A string in memory ends with \0, which is "" here.
SymbolAt(s, i) == IF i <= Len(s) THEN SubSeq(s, i, i) ELSE ""

\* The predicates of unicode.c, for ASCII
isdigit == SymbolsIn("0123456789")
isupper == SymbolsIn("ABCDEFGHIJKLMNOPQRSTUVWXYZ")
isalpha == isupper \cup SymbolsIn("abcdefghijklmnopqrstuvwxyz")
isalnum == isalpha \cup isdigit
isw == isalnum \cup {"_"}
isspace == SymbolsIn(" \t\n\f\r")
\* but for the backquote, which a string of TLA+ cannot have
Ascii == isw \cup isspace \cup SymbolsIn("!\"#$%&'()*+,-./:;<=>?@[\\]^{|}~")

\* unicode_to_int, as far as letters and digits are compared by it
Code(c) ==
  LET inOrder == "0123456789ABCDEFGHIJKLMNOPQRSTUVWXYZabcdefghijklmnopqrstuvwxyz"
  IN CHOOSE i \in 1 .. Len(inOrder) : SymbolAt(inOrder, i) = c

-------------------------------------------------------------------------------
(* lex_atom_create *)

\* parse_character_group: where the ] is that closes the [ before i, or 0
RECURSIVE GroupEnd(_, _)
GroupEnd(text, i) ==
  CASE SymbolAt(text, i) = "" -> 0
    [] SymbolAt(text, i) = "\\" -> GroupEnd(text, i + 2)
    [] SymbolAt(text, i) = "]" -> i
    [] OTHER -> GroupEnd(text, i + 1)

\* The atom that text begins with; "" where the function returns NULL.  A \ has
\* something behind it: the code reads on past the end of a text that it ends.
Atom(text) ==
  LET first == SymbolAt(text, 1)
      group == SubSeq(text, 1, GroupEnd(text, 2))
  IN CASE first = "[" -> IF group \in {"[]", "[^]"} THEN "" ELSE group
       [] first = "]" -> ""
       [] first = "\\" -> SubSeq(text, 1, 2)
       [] OTHER -> first

-------------------------------------------------------------------------------
(* str_to_match_fn: one item of a group, or an atom that is none.  The test *)
(* is a call of a function, a comparison with a literal (raw when its       *)
(* symbol is printed as it is), or one for the beginning or end of the      *)
(* stream.                                                                  *)

Classes ==
  [s |-> isspace, S |-> Ascii \ isspace, w |-> isw, W |-> Ascii \ isw,
   d |-> isalpha, D |-> Ascii \ isalpha,
   n |-> {"\n"}, t |-> {"\t"}, r |-> {"\r"}, v |-> {}]

RangeFits(from, to) ==
  /\ to \in isalnum
  /\ Code(from) <= Code(to)
  /\ from \in isalpha <=> to \in isalpha
  /\ from \in isupper <=> to \in isupper

Item(s, i, is_group) ==
  LET c == SymbolAt(s, i)
      second == SymbolAt(s, i + 1)
      third == SymbolAt(s, i + 2)
      Test(kind, symbols, len) == [kind |-> kind, symbols |-> symbols, next |-> i + len]
  IN CASE c = "^" -> Test("begin", {}, 1)
       [] c = "$" -> Test("end", {}, 1)
       [] c = "." -> Test("call", IF is_group THEN {"."} ELSE Ascii \ {"\n"}, 1)
       [] c = "\\" ->
            CASE second \in DOMAIN Classes -> Test("call", Classes[second], 2)
              [] second = "b" -> Test("fails", {}, 1)
              [] OTHER -> Test("raw", {second}, 2)
       [] is_group /\ c \in isalnum /\ second = "-" ->
            IF RangeFits(c, third)
            THEN Test("call", {x \in isalnum : Code(c) <= Code(x) /\ Code(x) <= Code(third)}, 3)
            ELSE Test("fails", {}, 3)
       [] OTHER -> Test("raw", {c}, 1)

RECURSIVE GroupItems(_, _)
GroupItems(s, i) ==
  LET item == Item(s, i, TRUE)
  IN IF SymbolAt(s, i) = "]" THEN {}
     ELSE {item} \cup IF item.kind = "fails" THEN {} ELSE GroupItems(s, item.next)

IsGroup(s) == SymbolAt(s, 1) = "["
IsNegation(s) == IsGroup(s) /\ SymbolAt(s, 2) = "^"

Items(s) ==
  IF IsGroup(s) THEN GroupItems(s, IF IsNegation(s) THEN 3 ELSE 2)
                ELSE {Item(s, 1, FALSE)}

\* edges_to_code returns NULL for an item that has no test, and in a group for
\* one that tests for the beginning or the end.
HasCode(s) ==
  \A item \in Items(s) :
    item.kind # "fails" /\ (IsGroup(s) => item.kind \notin {"begin", "end"})

\* The literals the C compiler takes
Compiles(s) ==
  \A item \in Items(s) : item.kind = "raw" => item.symbols \cap {"\"", "\\", "\n"} = {}

\* [faulty] A negated group matches what it names.
MatchesNamed(s) == UNION {item.symbols : item \in Items(s)}

Matches(s) ==
  LET named == UNION {item.symbols : item \in Items(s)}
  IN IF IsNegation(s) THEN Ascii \ named ELSE named
===============================================================================
