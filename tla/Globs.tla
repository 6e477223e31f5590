--------------------------------- MODULE Globs ---------------------------------
(***************************************************************************)
(* Globs of glob_entities.c, and what some of them do on two texts, small  *)
(* cases of tests/enclosed.c: the text "b b", and the text of a newline, a *)
(* space and an "a"; the globs "b b", "b", "a" and " a".  Extractor takes  *)
(* it as its matchers; MCMatchers checks that it is what Tokens computes.  *)
(***************************************************************************)
EXTENDS Integers, TLC

(* A glob is a sequence of items, however many characters write one: a plain *)
(* or escaped symbol, the symbols of a bracket with its ranges written out, *)
(* ? and *.                                                                 *)
Plain(c)    == [op |-> "plain", symbols |-> {c}]
Bracket(cs) == [op |-> "[", symbols |-> cs]
AnyOne        == [op |-> "?", symbols |-> {}]
Star        == [op |-> "*", symbols |-> {}]

\* A run's occurrence and where it stops, and a run without one
Hit(s, e, t) == [start |-> s, end |-> e, to |-> t]
Miss(t) == Hit(0, 0, t)

\* For the positions 0, 1 and 2
Row(x, y, z) == (0 :> x) @@ (1 :> y) @@ (2 :> z)

GlobTable ==
  [b_b |-> [bb |-> Row(Hit(0, 3, 3), Miss(3), Miss(3)),
            b  |-> Row(Hit(0, 1, 2), Hit(2, 3, 3), Hit(2, 3, 3)),
            a  |-> Row(Miss(2), Miss(3), Miss(3)),
            _a |-> Row(Miss(2), Miss(3), Miss(3))],
   n_a |-> [bb |-> Row(Miss(3), Miss(3), Miss(3)),
            b  |-> Row(Miss(3), Miss(3), Miss(3)),
            a  |-> Row(Hit(2, 3, 3), Hit(2, 3, 3), Hit(2, 3, 3)),
            _a |-> Row(Miss(1), Hit(1, 3, 3), Miss(3))]]
================================================================================
