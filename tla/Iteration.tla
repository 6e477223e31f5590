------------------------------- MODULE Iteration -------------------------------
(***************************************************************************)
(* Lemmas about functions defined by iteration, such as the turns of the   *)
(* loop of _move: f[0] is where it starts, f[n] is one step from f[n - 1].  *)
(* The definition of such a function is a CHOOSE of a solution; that there *)
(* is one has to be proved, by induction over a set of numbers, which here *)
(* comes from the minimal element of its complement.                       *)
(***************************************************************************)
EXTENDS Integers, WellFoundedInduction, TLAPS

\* The order of the natural numbers, as a set of pairs
Below == {p \in Nat \X Nat : p[1] < p[2]}

\* It is well-founded.
LEMMA BelowWellFounded == IsWellFoundedOn(Below, Nat)
<1>1. OpToRel(<, Nat) = Below
  BY Zenon DEF OpToRel, Below
<1> QED BY <1>1, NatLessThanWellFounded, Zenon

\* Every non-empty set of numbers has a least element.
LEMMA LeastExists ==
  ASSUME NEW T, T \subseteq Nat, T # {}
  PROVE  \E x \in T : \A y \in T : x <= y
<1>1. PICK x \in T : \A y \in T : ~ (<<y, x>> \in Below)
  BY WFMin, BelowWellFounded
<1>2. ASSUME NEW y \in T PROVE x <= y
  <2>1. x \in Nat /\ y \in Nat
    OBVIOUS
  <2>2. ~ (y < x)
    BY <1>1, <2>1 DEF Below
  <2> QED BY <2>1, <2>2
<1> QED BY <1>2

\* Every non-empty set of numbers that does not exceed n has a greatest element.
LEMMA GreatestExists ==
  ASSUME NEW n \in Nat, NEW T, T \subseteq 0 .. n, T # {}
  PROVE  \E x \in T : \A y \in T : y <= x
<1> DEFINE U == {k \in 0 .. n : n - k \in T}
<1>1. PICK z \in T : TRUE
  OBVIOUS
<1>2. n - z \in U
  <2>1. z \in 0 .. n /\ n - (n - z) = z /\ n - z \in 0 .. n
    BY <1>1
  <2> QED BY <2>1, <1>1
<1>3. PICK x \in U : \A y \in U : x <= y
  <2>1. U \subseteq Nat
    OBVIOUS
  <2>2. U # {}
    BY <1>2
  <2> HIDE DEF U
  <2> QED BY <2>1, <2>2, LeastExists
<1>4. ASSUME NEW y \in T PROVE y <= n - x
  <2>1. y \in 0 .. n /\ n - (n - y) = y /\ n - y \in 0 .. n
    OBVIOUS
  <2>2. n - y \in U
    BY <2>1
  <2>3. x <= n - y /\ x \in 0 .. n
    BY <2>2, <1>3
  <2> QED BY <2>1, <2>3
<1> QED BY <1>3, <1>4

\* Induction: a set with 0 and the successor of each of its numbers has all.
LEMMA SetInduction ==
  ASSUME NEW S, 0 \in S, \A n \in Nat : n \in S => n + 1 \in S
  PROVE  Nat \subseteq S
<1> DEFINE T == Nat \ S
<1>1. SUFFICES ASSUME T # {} PROVE FALSE
  OBVIOUS
<1>2. PICK x \in T : \A y \in T : x <= y
  BY <1>1, LeastExists
<1>3. x # 0 /\ x - 1 \in Nat
  OBVIOUS
<1>4. x - 1 \notin T
  BY <1>2, <1>3
<1>5. x - 1 \in S /\ (x - 1) + 1 = x
  BY <1>3, <1>4
<1> QED BY <1>3, <1>5

\* f is what n applications of step to s give, for each n up to the bound.
Iterates(n, f, s, step) ==
  f[0] = s /\ \A i \in 0 .. n - 1 : f[i + 1] = step[f[i]]

\* Two runs of the same iteration agree as far as the shorter one goes.
LEMMA IteratesAgree ==
  ASSUME NEW s, NEW step, NEW k \in Nat, NEW l \in Nat, k <= l, NEW f, NEW g,
         Iterates(k, f, s, step), Iterates(l, g, s, step)
  PROVE  f[k] = g[k]
<1> DEFINE Same == {n \in Nat : n <= k => f[n] = g[n]}
<1>1. 0 \in Same
  BY DEF Iterates
<1>2. ASSUME NEW n \in Nat, n \in Same PROVE n + 1 \in Same
  <2>1. CASE n + 1 <= k
    <3>1. n \in 0 .. k - 1 /\ n \in 0 .. l - 1 /\ f[n] = g[n]
      BY <1>2, <2>1
    <3>2. f[n + 1] = step[f[n]] /\ g[n + 1] = step[g[n]]
      BY <3>1 DEF Iterates
    <3> QED BY <3>1, <3>2
  <2> QED BY <2>1
<1>3. Nat \subseteq Same
  BY <1>1, <1>2, SetInduction
<1> QED BY <1>3

\* An iteration can be run for any number of steps.
LEMMA IteratesExist ==
  ASSUME NEW S, NEW s \in S, NEW step \in [S -> S]
  PROVE  \A n \in Nat : \E f \in [0 .. n -> S] : Iterates(n, f, s, step)
<1> DEFINE Good == {n \in Nat : \E f \in [0 .. n -> S] : Iterates(n, f, s, step)}
<1>1. 0 \in Good
  <2>1. Iterates(0, [i \in 0 .. 0 |-> s], s, step)
    BY DEF Iterates
  <2> QED BY <2>1
<1>2. ASSUME NEW n \in Nat, n \in Good PROVE n + 1 \in Good
  <2>1. PICK f \in [0 .. n -> S] : Iterates(n, f, s, step)
    BY <1>2
  <2> DEFINE g == [i \in 0 .. n + 1 |-> IF i <= n THEN f[i] ELSE step[f[n]]]
  <2>2. g \in [0 .. n + 1 -> S]
    BY <2>1
  <2>3. Iterates(n + 1, g, s, step)
    BY <2>1, <2>2 DEF Iterates
  <2> QED BY <2>2, <2>3
<1>3. Nat \subseteq Good
  BY <1>1, <1>2, SetInduction
<1> QED BY <1>3

\* There is an iteration without end.
Iterable(S, s, step) ==
  \E f \in [Nat -> S] : f[0] = s /\ \A n \in Nat : f[n + 1] = step[f[n]]

\* A function defined by iteration exists: the LET of Move, in module Cursor,
\* defines what it says.
LEMMA IterationExists ==
  ASSUME NEW S, NEW s \in S, NEW step \in [S -> S]
  PROVE  Iterable(S, s, step)
<1> DEFINE F(n) == CHOOSE f \in [0 .. n -> S] : Iterates(n, f, s, step)
           h == [n \in Nat |-> F(n)[n]]
<1>1. ASSUME NEW n \in Nat PROVE F(n) \in [0 .. n -> S] /\ Iterates(n, F(n), s, step)
  BY IteratesExist
<1> HIDE DEF F
<1>2. h \in [Nat -> S] /\ h[0] = s
  <2>1. ASSUME NEW n \in Nat PROVE F(n)[n] \in S
    BY <1>1
  <2>2. F(0)[0] = s
    BY <1>1 DEF Iterates
  <2> QED BY <2>1, <2>2
<1>3. ASSUME NEW n \in Nat PROVE h[n + 1] = step[h[n]]
  <2>1. Iterates(n, F(n), s, step) /\ Iterates(n + 1, F(n + 1), s, step)
    BY <1>1
  <2>2. F(n)[n] = F(n + 1)[n]
    <3>1. n <= n + 1 /\ n + 1 \in Nat
      OBVIOUS
    <3> QED BY <2>1, <3>1, IteratesAgree
  <2>3. F(n + 1)[n + 1] = step[F(n + 1)[n]]
    BY <2>1 DEF Iterates
  <2> QED BY <2>2, <2>3
<1> QED BY <1>2, <1>3 DEF Iterable
================================================================================
