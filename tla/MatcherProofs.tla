----------------------------- MODULE MatcherProofs -----------------------------
(***************************************************************************)
(* Proofs about the matchers: that a run of match_glob_impl answers as the *)
(* glob demands, for any text and any glob, however deep the calls for     *)
(* what follows a * are; that a scan with either matcher finds every token *)
(* or name of a text, and nothing else; and that the fields and row ends   *)
(* of a CSV text come out of the parser's batches, each once and in order. *)
(***************************************************************************)
EXTENDS Tokens, Csv, Iteration, SequenceTheorems, FiniteSetTheorems

Places(t) == 0 .. Len(t)

-----------------------------------------------------------------------------
(* Delimiters and tokens of a text *)

\* Min is the least element.
LEMMA MinLeast ==
  ASSUME NEW S, S \subseteq Nat, S # {}
  PROVE  Min(S) \in S /\ \A y \in S : Min(S) <= y
BY LeastExists DEF Min

\* NextIn finds the first symbol of the set, or the end.
LEMMA NextInFinds ==
  ASSUME NEW T, NEW t \in Seq(T), NEW symbols, NEW p \in Places(t)
  PROVE  /\ NextIn(t, symbols, p) \in p .. Len(t)
         /\ NextIn(t, symbols, p) < Len(t) => t[NextIn(t, symbols, p) + 1] \in symbols
         /\ \A q \in p .. NextIn(t, symbols, p) - 1 : t[q + 1] \notin symbols
<1> DEFINE S == {q \in p .. Len(t) - 1 : t[q + 1] \in symbols}
<1>1. Len(t) \in Nat /\ p \in Nat /\ p <= Len(t)
  BY DEF Places
<1>2. NextIn(t, symbols, p) = Min(S \cup {Len(t)})
  <2>1. LaterOf(p, Len(t)) = Len(t)
    BY <1>1 DEF LaterOf
  <2> QED BY <2>1 DEF NextIn
<1>3. S \cup {Len(t)} \subseteq Nat
  BY <1>1
<1>4. PICK n \in S \cup {Len(t)} :
        /\ n = Min(S \cup {Len(t)})
        /\ \A y \in S \cup {Len(t)} : n <= y
  <2> HIDE DEF S
  <2> QED BY <1>3, MinLeast
<1>5. n \in p .. Len(t) /\ (n < Len(t) => t[n + 1] \in symbols)
  BY <1>1
<1>6. ASSUME NEW q \in p .. n - 1 PROVE t[q + 1] \notin symbols
  <2>1. q \in p .. Len(t) - 1 /\ ~(n <= q)
    BY <1>1, <1>5
  <2>2. q \notin S
    BY <2>1, <1>4
  <2> QED BY <2>1, <2>2
<1>7. n = NextIn(t, symbols, p)
  BY <1>2, <1>4
<1> QED BY <1>5, <1>6, <1>7

\* A token goes on to the next delimiter.
LEMMA TokenEndFinds ==
  ASSUME NEW T, NEW t \in Seq(T), NEW p \in Places(t)
  PROVE  /\ TokenEnd(t, p) \in p .. Len(t)
         /\ TokenEnd(t, p) < Len(t) => t[TokenEnd(t, p) + 1] \in Delimiters
         /\ \A q \in p .. TokenEnd(t, p) - 1 : t[q + 1] \notin Delimiters
BY NextInFinds DEF TokenEnd

\* A token ends in front of a delimiter and at the end of the text.
LEMMA TokenEndsHere ==
  ASSUME NEW T, NEW t \in Seq(T), NEW p \in Places(t)
  PROVE  /\ TokenEnd(t, p) = p <=> (p = Len(t) \/ t[p + 1] \in Delimiters)
         /\ TokenEnd(t, TokenEnd(t, p)) = TokenEnd(t, p)
<1>1. ASSUME NEW q \in Places(t)
      PROVE  TokenEnd(t, q) = q <=> (q = Len(t) \/ t[q + 1] \in Delimiters)
  <2>1. Len(t) \in Nat /\ q \in Nat /\ q <= Len(t)
    BY DEF Places
  <2> QED BY <2>1, TokenEndFinds
<1>2. TokenEnd(t, p) \in Places(t)
  BY TokenEndFinds DEF Places
<1>3. TokenEnd(t, p) = Len(t) \/ t[TokenEnd(t, p) + 1] \in Delimiters
  BY <1>2, TokenEndFinds DEF Places
<1> QED BY <1>1, <1>2, <1>3

\* The next token is behind delimiters only.
LEMMA TokenFromFinds ==
  ASSUME NEW T, NEW t \in Seq(T), NEW p \in Places(t)
  PROVE  /\ TokenFrom(t, p) \in p .. Len(t)
         /\ TokenFrom(t, p) < Len(t) => t[TokenFrom(t, p) + 1] \notin Delimiters
         /\ \A q \in p .. TokenFrom(t, p) - 1 : t[q + 1] \in Delimiters
<1> DEFINE S == {q \in p .. Len(t) - 1 : t[q + 1] \notin Delimiters}
<1>1. Len(t) \in Nat /\ p \in Nat /\ p <= Len(t)
  BY DEF Places
<1>2. TokenFrom(t, p) = Min(S \cup {Len(t)})
  BY DEF TokenFrom
<1>3. S \cup {Len(t)} \subseteq Nat
  BY <1>1
<1>4. PICK n \in S \cup {Len(t)} :
        /\ n = Min(S \cup {Len(t)})
        /\ \A y \in S \cup {Len(t)} : n <= y
  <2> HIDE DEF S
  <2> QED BY <1>3, MinLeast
<1>5. n \in p .. Len(t) /\ (n < Len(t) => t[n + 1] \notin Delimiters)
  BY <1>1
<1>6. ASSUME NEW q \in p .. n - 1 PROVE t[q + 1] \in Delimiters
  <2>1. q \in p .. Len(t) - 1 /\ ~(n <= q)
    BY <1>1, <1>5
  <2>2. q \notin S
    BY <2>1, <1>4
  <2> QED BY <2>1, <2>2
<1>7. n = TokenFrom(t, p)
  BY <1>2, <1>4
<1> QED BY <1>5, <1>6, <1>7

\* A call begins at a symbol its glob may take, or at the end of the text.
LEMMA BeginFinds ==
  ASSUME NEW T, NEW t \in Seq(T), NEW g, NEW p \in Places(t)
  PROVE  /\ Begin(t, g, p) \in p .. Len(t)
         /\ Begin(t, g, p) < Len(t) =>
              StartsWithDelimiter(g) \/ TokenEnd(t, Begin(t, g, p)) # Begin(t, g, p)
<1>1. CASE StartsWithDelimiter(g)
  BY <1>1 DEF Begin, Places
<1>2. CASE ~StartsWithDelimiter(g)
  <2>1. Begin(t, g, p) = TokenFrom(t, p)
    BY <1>2 DEF Begin
  <2>2. Begin(t, g, p) \in p .. Len(t) /\ Begin(t, g, p) \in Places(t)
    BY <2>1, TokenFromFinds DEF Places
  <2>3. Begin(t, g, p) < Len(t) => t[Begin(t, g, p) + 1] \notin Delimiters
    BY <2>1, TokenFromFinds
  <2>4. Len(t) \in Nat
    OBVIOUS
  <2> QED BY <2>2, <2>3, <2>4, TokenEndsHere
<1> QED BY <1>1, <1>2

\* retnul stays in the text.
LEMMA SkippedStays ==
  ASSUME NEW T, NEW t \in Seq(T), NEW p \in Places(t)
  PROVE  Skipped(t, p) \in Places(t)
BY TokenEndFinds DEF Skipped, Places

-----------------------------------------------------------------------------
(* What the items of a glob may take *)

\* The items of a glob from one on.
LEMMA RestOfGlob ==
  ASSUME NEW S, NEW g \in Seq(S), g # <<>>
  PROVE  /\ SubSeq(g, 1, Len(g)) = g /\ Len(g) \in Nat \ {0}
         /\ Tail(g) \in Seq(S) /\ Len(Tail(g)) = Len(g) - 1
         /\ \A i \in 1 .. Len(g) : SubSeq(g, i, Len(g)) \in Seq(S) \ {<<>>}
         /\ \A i \in 1 .. Len(g) - 1 :
              SubSeq(Tail(g), i, Len(Tail(g))) = SubSeq(g, i + 1, Len(g))
<1>1. SubSeq(g, 1, Len(g)) = g
  BY SubSeqFull
<1>2. Len(g) \in Nat \ {0}
  BY EmptySeq
<1>3. Tail(g) \in Seq(S) /\ Len(Tail(g)) = Len(g) - 1 /\ Tail(g) = SubSeq(g, 2, Len(g))
  BY HeadTailProperties, TailIsSubSeq
<1>4. ASSUME NEW i \in 1 .. Len(g) PROVE SubSeq(g, i, Len(g)) \in Seq(S) \ {<<>>}
  <2>1. \A k \in i .. Len(g) : g[k] \in S
    BY <1>2
  <2>2. SubSeq(g, i, Len(g)) \in Seq(S) /\ Len(SubSeq(g, i, Len(g))) = Len(g) - i + 1
    BY <1>2, <2>1, SubSeqProperties
  <2>3. Len(SubSeq(g, i, Len(g))) # 0
    BY <2>2, <1>2
  <2>4. SubSeq(g, i, Len(g)) # <<>>
    BY <2>2, <2>3, EmptySeq
  <2> QED BY <2>2, <2>4, Zenon
<1>5. ASSUME NEW i \in 1 .. Len(g) - 1
      PROVE  SubSeq(Tail(g), i, Len(Tail(g))) = SubSeq(g, i + 1, Len(g))
  <2> DEFINE n == Len(g)
  <2>1. n \in Nat /\ n >= 2 /\ 2 \in 1 .. n /\ n \in 1 .. n
    BY <1>2
  <2>2. i \in 1 .. n - 2 + 1 /\ n - 1 \in 1 .. n - 2 + 1
    BY <2>1
  <2>3. SubSeq(SubSeq(g, 2, n), i, n - 1) = SubSeq(g, 2 + i - 1, 2 + (n - 1) - 1)
    <3> HIDE DEF n
    <3>1. n = Len(g)
      BY DEF n
    <3> QED BY <2>1, <2>2, <3>1, SubSeqOfSubSeq
  <2>4. 2 + i - 1 = i + 1 /\ 2 + (n - 1) - 1 = n
    BY <2>1
  <2>5. SubSeq(SubSeq(g, 2, n), i, n - 1) = SubSeq(g, i + 1, n)
    BY <2>3, <2>4
  <2> QED BY <2>5, <1>3
<1> QED BY <1>1, <1>2, <1>3, <1>4, <1>5

\* An item stays in the text.
LEMMA OnwardStays ==
  ASSUME NEW T, NEW t \in Seq(T), NEW S, NEW g \in Seq(S), g # <<>>, NEW p \in Places(t)
  PROVE  Onward(t, g, p) \subseteq Places(t)
<1>1. Len(t) \in Nat /\ p \in Nat /\ p <= Len(t)
  BY DEF Places
<1>2. CASE Head(g) # Star
  BY <1>1, <1>2 DEF Onward, Places
<1>3. CASE Head(g) = Star /\ Len(g) = 1
  <2>1. TokenEnd(t, p) \in Places(t)
    BY TokenEndFinds DEF Places
  <2> QED BY <1>3, <2>1 DEF Onward
<1>4. CASE Head(g) = Star /\ Len(g) # 1
  <2>1. Stops(t, p) \subseteq Places(t)
    BY <1>1 DEF Stops, Places
  <2>2. \A r \in Places(t) : Begin(t, Tail(g), r) \in Places(t)
    BY BeginFinds DEF Places
  <2> QED BY <1>4, <2>1, <2>2 DEF Onward
<1> QED BY <1>2, <1>3, <1>4

\* f is the LET of Reach.
Steps(t, g, p, n, f) ==
  /\ f[0] = {p}
  /\ \A i \in 1 .. n : f[i] = UNION {Onward(t, SubSeq(g, i, Len(g)), q) : q \in f[i - 1]}

Stepping(t, g, p, n) ==
  \E f \in [0 .. n -> SUBSET Places(t)] : Steps(t, g, p, n, f)

\* One can go through a glob item by item.
LEMMA StepsExist ==
  ASSUME NEW T, NEW t \in Seq(T), NEW S, NEW g \in Seq(S), NEW p \in Places(t)
  PROVE  Stepping(t, g, p, Len(g))
<1> DEFINE Z == {n \in Nat : n <= Len(g) => Stepping(t, g, p, n)}
<1>1. 0 \in Z
  <2> DEFINE f == [i \in 0 .. 0 |-> {p}]
  <2>1. f \in [0 .. 0 -> SUBSET Places(t)] /\ Steps(t, g, p, 0, f)
    BY DEF Steps
  <2> QED BY <2>1 DEF Stepping
<1>2. ASSUME NEW n \in Nat, n \in Z PROVE n + 1 \in Z
  <2> SUFFICES ASSUME n + 1 <= Len(g) PROVE Stepping(t, g, p, n + 1)
    OBVIOUS
  <2>1. PICK f \in [0 .. n -> SUBSET Places(t)] : Steps(t, g, p, n, f)
    BY <1>2 DEF Stepping
  <2> DEFINE Q == UNION {Onward(t, SubSeq(g, n + 1, Len(g)), q) : q \in f[n]}
             h == [i \in 0 .. n + 1 |-> IF i <= n THEN f[i] ELSE Q]
  <2>2. Q \in SUBSET Places(t)
    <3>1. g # <<>> /\ n + 1 \in 1 .. Len(g) /\ f[n] \in SUBSET Places(t)
      OBVIOUS
    <3>2. SubSeq(g, n + 1, Len(g)) \in Seq(S) \ {<<>>}
      BY <3>1, RestOfGlob
    <3>3. \A q \in f[n] : Onward(t, SubSeq(g, n + 1, Len(g)), q) \subseteq Places(t)
      BY <3>1, <3>2, OnwardStays
    <3> QED BY <3>3
  <2> HIDE DEF Q
  <2>3. h \in [0 .. n + 1 -> SUBSET Places(t)]
    BY <2>2
  <2>4. h[0] = {p}
    BY <2>1 DEF Steps
  <2>5. ASSUME NEW i \in 1 .. n + 1
        PROVE  h[i] = UNION {Onward(t, SubSeq(g, i, Len(g)), q) : q \in h[i - 1]}
    <3>1. CASE i <= n
      <4>1. i \in 1 .. n /\ h[i] = f[i] /\ h[i - 1] = f[i - 1]
        BY <3>1
      <4> HIDE DEF h
      <4> QED BY <4>1, <2>1 DEF Steps
    <3>2. CASE ~(i <= n)
      <4>1. i = n + 1 /\ h[i] = Q /\ h[i - 1] = f[n]
        BY <3>2
      <4> HIDE DEF h
      <4> QED BY <4>1 DEF Q
    <3> QED BY <3>1, <3>2
  <2> HIDE DEF h
  <2>6. Steps(t, g, p, n + 1, h)
    BY <2>4, <2>5 DEF Steps
  <2> QED BY <2>3, <2>6 DEF Stepping
<1>3. Len(g) \in Z
  <2> HIDE DEF Z
  <2> QED BY <1>1, <1>2, SetInduction
<1> QED BY <1>3

\* There is one way only.
LEMMA StepsAgree ==
  ASSUME NEW t, NEW g, NEW p, NEW n \in Nat, NEW f, NEW h,
         Steps(t, g, p, n, f), Steps(t, g, p, n, h)
  PROVE  f[n] = h[n]
<1> DEFINE Z == {k \in Nat : k <= n => f[k] = h[k]}
<1>1. 0 \in Z
  BY DEF Steps
<1>2. ASSUME NEW k \in Nat, k \in Z PROVE k + 1 \in Z
  <2> SUFFICES ASSUME k + 1 <= n PROVE f[k + 1] = h[k + 1]
    OBVIOUS
  <2>1. k + 1 \in 1 .. n /\ (k + 1) - 1 = k /\ f[k] = h[k]
    BY <1>2
  <2>2. /\ f[k + 1] = UNION {Onward(t, SubSeq(g, k + 1, Len(g)), q) : q \in f[k]}
        /\ h[k + 1] = UNION {Onward(t, SubSeq(g, k + 1, Len(g)), q) : q \in h[k]}
    BY <2>1 DEF Steps
  <2> QED BY <2>1, <2>2
<1>3. n \in Z
  <2> HIDE DEF Z
  <2> QED BY <1>1, <1>2, SetInduction
<1> QED BY <1>3

\* Reach is where the last step arrives.
LEMMA ReachIsLast ==
  ASSUME NEW T, NEW t \in Seq(T), NEW S, NEW g \in Seq(S), NEW p \in Places(t), NEW f,
         Steps(t, g, p, Len(g), f)
  PROVE  Reach(t, g, p) = f[Len(g)]
<1> DEFINE after[i \in 0 .. Len(g)] ==
             IF i = 0 THEN {p}
             ELSE UNION {Onward(t, SubSeq(g, i, Len(g)), q) : q \in after[i - 1]}
<1>1. PICK h \in [0 .. Len(g) -> SUBSET Places(t)] : Steps(t, g, p, Len(g), h)
  BY StepsExist DEF Stepping
<1>2. h = [i \in 0 .. Len(g) |->
             IF i = 0 THEN {p}
             ELSE UNION {Onward(t, SubSeq(g, i, Len(g)), q) : q \in h[i - 1]}]
  <2>1. ASSUME NEW i \in 0 .. Len(g)
        PROVE  h[i] = IF i = 0 THEN {p}
                      ELSE UNION {Onward(t, SubSeq(g, i, Len(g)), q) : q \in h[i - 1]}
    BY <1>1 DEF Steps
  <2> QED BY <2>1
<1>3. after = [i \in 0 .. Len(g) |->
                 IF i = 0 THEN {p}
                 ELSE UNION {Onward(t, SubSeq(g, i, Len(g)), q) : q \in after[i - 1]}]
  BY <1>2
<1>4. Reach(t, g, p) = after[Len(g)]
  BY DEF Reach
<1> HIDE DEF after
<1>5. Steps(t, g, p, Len(g), after)
  <2>1. Len(g) \in Nat
    OBVIOUS
  <2>2. after[0] = {p}
    BY <1>3, <2>1
  <2>3. ASSUME NEW i \in 1 .. Len(g)
        PROVE  after[i] = UNION {Onward(t, SubSeq(g, i, Len(g)), q) : q \in after[i - 1]}
    <3>1. i \in 0 .. Len(g) /\ i # 0
      BY <2>1
    <3> QED BY <1>3, <3>1, Zenon
  <2> QED BY <2>2, <2>3 DEF Steps
<1>6. after[Len(g)] = f[Len(g)]
  BY <1>5, StepsAgree, LenProperties
<1> QED BY <1>4, <1>6

\* So does a glob.
LEMMA ReachStays ==
  ASSUME NEW T, NEW t \in Seq(T), NEW S, NEW g \in Seq(S), NEW p \in Places(t)
  PROVE  Reach(t, g, p) \subseteq Places(t)
<1>1. PICK f \in [0 .. Len(g) -> SUBSET Places(t)] : Steps(t, g, p, Len(g), f)
  BY StepsExist DEF Stepping
<1>2. Reach(t, g, p) = f[Len(g)]
  BY <1>1, ReachIsLast
<1>3. Len(g) \in 0 .. Len(g)
  BY LenProperties
<1> QED BY <1>1, <1>2, <1>3

\* No item, no move.
LEMMA ReachNothing ==
  ASSUME NEW T, NEW t \in Seq(T), NEW p \in Places(t)
  PROVE  Reach(t, <<>>, p) = {p}
<1>1. <<>> \in Seq(T) /\ Len(<<>>) = 0
  OBVIOUS
<1>2. PICK f \in [0 .. Len(<<>>) -> SUBSET Places(t)] : Steps(t, <<>>, p, Len(<<>>), f)
  BY <1>1, StepsExist DEF Stepping
<1>3. Reach(t, <<>>, p) = f[Len(<<>>)]
  BY <1>1, <1>2, ReachIsLast
<1> QED BY <1>1, <1>2, <1>3 DEF Steps

\* The first item, and then the rest of the glob from wherever that goes.
LEMMA ReachByFirst ==
  ASSUME NEW T, NEW t \in Seq(T), NEW S, NEW g \in Seq(S), g # <<>>, NEW p \in Places(t)
  PROVE  Reach(t, g, p) = UNION {Reach(t, Tail(g), q) : q \in Onward(t, g, p)}
<1> DEFINE n == Len(g) - 1
           first == Onward(t, g, p)
           Taken(q, h) == Steps(t, Tail(g), q, n, h)
           H(q) == CHOOSE h : Taken(q, h)
<1>1. /\ Len(g) \in Nat \ {0} /\ n \in Nat /\ SubSeq(g, 1, Len(g)) = g
      /\ Tail(g) \in Seq(S) /\ Len(Tail(g)) = n
      /\ \A i \in 1 .. n : SubSeq(Tail(g), i, n) = SubSeq(g, i + 1, Len(g))
  BY RestOfGlob
<1>2. first \subseteq Places(t)
  BY OnwardStays
<1>3. PICK f : Steps(t, g, p, Len(g), f)
  BY StepsExist DEF Stepping
<1>4. ASSUME NEW q \in first
      PROVE  Taken(q, H(q)) /\ Reach(t, Tail(g), q) = H(q)[n]
  <2>1. Stepping(t, Tail(g), q, n)
    BY <1>1, <1>2, StepsExist
  <2>2. \E h : Taken(q, h)
    BY <2>1 DEF Stepping
  <2>3. Taken(q, H(q))
    <3> HIDE DEF Taken
    <3> QED BY <2>2
  <2> HIDE DEF H
  <2>4. q \in Places(t) /\ Steps(t, Tail(g), q, Len(Tail(g)), H(q))
    BY <2>3, <1>1, <1>2
  <2>5. Reach(t, Tail(g), q) = H(q)[Len(Tail(g))]
    BY <2>4, <1>1, ReachIsLast
  <2> QED BY <2>3, <2>5, <1>1
<1> HIDE DEF H
<1> DEFINE Z == {i \in Nat : i <= n => f[i + 1] = UNION {H(q)[i] : q \in first}}
<1>5. 0 \in Z
  <2>1. f[1] = UNION {Onward(t, SubSeq(g, 1, Len(g)), x) : x \in f[0]} /\ f[0] = {p}
    <3>1. 1 \in 1 .. Len(g) /\ 1 - 1 = 0
      BY <1>1
    <3> QED BY <1>3, <3>1 DEF Steps
  <2>2. f[1] = first
    BY <2>1, <1>1
  <2>3. \A q \in first : H(q)[0] = {q}
    BY <1>4 DEF Steps
  <2>4. UNION {H(q)[0] : q \in first} = first
    <3> HIDE DEF first
    <3> QED BY <2>3
  <2> QED BY <2>2, <2>4
<1>6. ASSUME NEW i \in Nat, i \in Z PROVE i + 1 \in Z
  <2> SUFFICES ASSUME i + 1 <= n
               PROVE  f[(i + 1) + 1] = UNION {H(q)[i + 1] : q \in first}
    OBVIOUS
  <2> DEFINE rest == SubSeq(g, (i + 1) + 1, Len(g))
  <2>1. f[i + 1] = UNION {H(q)[i] : q \in first}
    BY <1>6
  <2>2. f[(i + 1) + 1] = UNION {Onward(t, rest, x) : x \in f[i + 1]}
    <3>1. (i + 1) + 1 \in 1 .. Len(g) /\ ((i + 1) + 1) - 1 = i + 1
      BY <1>1
    <3> QED BY <1>3, <3>1 DEF Steps
  <2>3. ASSUME NEW q \in first
        PROVE  H(q)[i + 1] = UNION {Onward(t, rest, x) : x \in H(q)[i]}
    <3>1. i + 1 \in 1 .. n /\ (i + 1) - 1 = i
      BY <1>1
    <3>2. SubSeq(Tail(g), i + 1, Len(Tail(g))) = rest
      BY <1>1, <3>1
    <3>3. H(q)[i + 1] = UNION {Onward(t, SubSeq(Tail(g), i + 1, Len(Tail(g))), x) : x \in H(q)[i]}
      <4>1. Steps(t, Tail(g), q, n, H(q))
        BY <1>4
      <4> HIDE DEF n
      <4> QED BY <3>1, <4>1 DEF Steps
    <3> HIDE DEF rest
    <3> QED BY <3>2, <3>3
  <2> HIDE DEF rest, first
  <2> QED BY <2>1, <2>2, <2>3
<1>7. n \in Z
  <2> HIDE DEF Z, n
  <2> QED BY <1>1, <1>5, <1>6, SetInduction
<1>8. Reach(t, g, p) = f[Len(g)] /\ Len(g) = n + 1
  BY <1>1, <1>3, ReachIsLast
<1>9. f[n + 1] = UNION {H(q)[n] : q \in first}
  BY <1>7, <1>1
<1> HIDE DEF first, n
<1>10. UNION {H(q)[n] : q \in first} = UNION {Reach(t, Tail(g), q) : q \in first}
  BY <1>4
<1> QED BY <1>8, <1>9, <1>10 DEF first

-----------------------------------------------------------------------------
(* The ends of tokens that a glob reaches *)

\* The ends of tokens that a glob may take a text to from p
Ends(t, g, p) == {e \in Reach(t, g, p) : TokenEnd(t, e) = e}

\* The same for a call of match_glob_impl at p
Called(t, g, p) ==
  IF Begin(t, g, p) < Len(t) THEN Ends(t, g, Begin(t, g, p)) ELSE {}

\* Without an item the token ends here or not at all.
LEMMA EndsOfNothing ==
  ASSUME NEW T, NEW t \in Seq(T), NEW p \in Places(t)
  PROVE  Ends(t, <<>>, p) = IF TokenEnd(t, p) = p THEN {p} ELSE {}
BY ReachNothing DEF Ends

\* What follows the first item decides.
LEMMA EndsByFirst ==
  ASSUME NEW T, NEW t \in Seq(T), NEW S, NEW g \in Seq(S), g # <<>>, NEW p \in Places(t)
  PROVE  Ends(t, g, p) = UNION {Ends(t, Tail(g), q) : q \in Onward(t, g, p)}
<1>1. Reach(t, g, p) = UNION {Reach(t, Tail(g), q) : q \in Onward(t, g, p)}
  BY ReachByFirst
<1> QED BY <1>1 DEF Ends

\* A symbol is taken first.
LEMMA EndsBySymbol ==
  ASSUME NEW T, NEW t \in Seq(T), NEW S, NEW g \in Seq(S), g # <<>>, NEW p \in Places(t),
         Head(g) # Star
  PROVE  Ends(t, g, p) = IF p < Len(t) /\ Takes(Head(g), t[p + 1])
                         THEN Ends(t, Tail(g), p + 1) ELSE {}
<1>1. Onward(t, g, p) = IF p < Len(t) /\ Takes(Head(g), t[p + 1]) THEN {p + 1} ELSE {}
  BY DEF Onward
<1>2. Ends(t, g, p) = UNION {Ends(t, Tail(g), q) : q \in Onward(t, g, p)}
  BY EndsByFirst
<1> QED BY <1>1, <1>2

\* A * at the end takes the rest of the token.
LEMMA EndsByLastStar ==
  ASSUME NEW T, NEW t \in Seq(T), NEW S, NEW g \in Seq(S), NEW p \in Places(t),
         Head(g) = Star, Len(g) = 1
  PROVE  Ends(t, g, p) = Ends(t, <<>>, TokenEnd(t, p))
<1>1. g # <<>>
  <2>1. Len(<<>>) = 0 /\ Len(g) # 0
    BY EmptySeq
  <2> QED BY <2>1
<1>2. Tail(g) = <<>>
  <2>1. Tail(g) \in Seq(S) /\ Len(Tail(g)) = 0
    BY <1>1, HeadTailProperties
  <2> QED BY <2>1, EmptySeq
<1>3. Onward(t, g, p) = {TokenEnd(t, p)}
  BY DEF Onward
<1>4. Ends(t, g, p) = UNION {Ends(t, Tail(g), q) : q \in Onward(t, g, p)}
  BY <1>1, EndsByFirst
<1> QED BY <1>2, <1>3, <1>4

\* A * at p may go on from p if p is in the text and no other token begins
\* behind the next symbol.
GoesOn(t, p) == p < Len(t) /\ (p + 1 < Len(t) => TokenEnd(t, p + 1) # p + 1)

\* Where a * stops: here, or where it stops from the next symbol on.
LEMMA StopsByOne ==
  ASSUME NEW T, NEW t \in Seq(T), NEW p \in Places(t)
  PROVE  Stops(t, p) = {p} \cup IF GoesOn(t, p) THEN Stops(t, p + 1) ELSE {}
<1>1. Len(t) \in Nat /\ p \in Nat /\ p <= Len(t)
  BY DEF Places
<1>2. CASE p = Len(t)
  BY <1>1, <1>2 DEF Stops, GoesOn
<1>3. CASE p < Len(t)
  <2>1. p + 1 \in Places(t)
    BY <1>1, <1>3 DEF Places
  <2>2. GoesOn(t, p) <=> (p + 1 = Len(t) \/ t[(p + 1) + 1] \notin Delimiters)
    BY <1>1, <1>3, <2>1, TokenEndsHere DEF GoesOn
  <2>3. CASE GoesOn(t, p)
    <3>1. ASSUME NEW r \in Stops(t, p), r # p PROVE r \in Stops(t, p + 1)
      BY <1>1, <3>1 DEF Stops
    <3>2. ASSUME NEW r \in Stops(t, p + 1) PROVE r \in Stops(t, p)
      <4>1. r \in p + 1 .. Len(t)
        BY <1>1, <1>3, <3>2 DEF Stops
      <4>2. ASSUME NEW k \in p + 2 .. r + 1 PROVE k > Len(t) \/ t[k] \notin Delimiters
        <5>1. CASE k = p + 2
          BY <1>1, <1>3, <2>2, <2>3, <5>1
        <5>2. CASE k # p + 2
          BY <1>1, <3>2, <4>1, <4>2, <5>2 DEF Stops
        <5> QED BY <5>1, <5>2
      <4> QED BY <4>1, <4>2 DEF Stops
    <3>3. p \in Stops(t, p)
      BY DEF Stops
    <3> QED BY <2>3, <3>1, <3>2, <3>3
  <2>4. CASE ~GoesOn(t, p)
    <3>1. ASSUME NEW r \in Stops(t, p), r # p PROVE FALSE
      <4>1. r \in p + 1 .. Len(t) /\ \A k \in p + 2 .. r + 1 : k > Len(t) \/ t[k] \notin Delimiters
        BY <3>1 DEF Stops
      <4>2. p + 2 \in p + 2 .. r + 1 /\ ~(p + 2 > Len(t)) /\ t[p + 2] \in Delimiters
        BY <1>1, <1>3, <2>2, <2>4, <4>1
      <4> QED BY <4>1, <4>2
    <3> QED BY <2>4, <3>1 DEF Stops
  <2> QED BY <2>3, <2>4
<1> QED BY <1>1, <1>2, <1>3

\* The rest of the glob is looked for here, or from the next symbol on.
LEMMA EndsByStar ==
  ASSUME NEW T, NEW t \in Seq(T), NEW S, NEW g \in Seq(S), NEW p \in Places(t),
         Head(g) = Star, Len(g) > 1
  PROVE  Ends(t, g, p) = Called(t, Tail(g), p)
                           \cup IF GoesOn(t, p) THEN Ends(t, g, p + 1) ELSE {}
<1>0. Len(g) # 1
  <2> DEFINE n == Len(g)
  <2>1. n > 1 /\ n \in Nat
    BY LenProperties
  <2> HIDE DEF n
  <2>2. n # 1
    BY <2>1
  <2> QED BY <2>2 DEF n
<1> DEFINE Of(Q) == {q \in {Begin(t, Tail(g), r) : r \in Q} : q < Len(t)}
           E(Q) == UNION {Ends(t, Tail(g), q) : q \in Of(Q)}
<1>1. g # <<>>
  BY EmptySeq
<1>2. ASSUME NEW q \in Places(t) PROVE Ends(t, g, q) = E(Stops(t, q))
  <2>1. Onward(t, g, q) = Of(Stops(t, q))
    <3> QED BY <1>0 DEF Onward
  <2>2. Ends(t, g, q) = UNION {Ends(t, Tail(g), x) : x \in Onward(t, g, q)}
    BY <1>1, EndsByFirst
  <2> QED BY <2>1, <2>2
<1>3. E({p}) = Called(t, Tail(g), p)
  BY DEF Called
<1>4. ASSUME NEW Q PROVE E({p} \cup Q) = E({p}) \cup E(Q)
  OBVIOUS
<1>5. E({}) = {}
  OBVIOUS
<1>6. GoesOn(t, p) => p + 1 \in Places(t)
  BY DEF GoesOn, Places
<1>7. Stops(t, p) = {p} \cup IF GoesOn(t, p) THEN Stops(t, p + 1) ELSE {}
  BY StopsByOne
<1> HIDE DEF E
<1> QED BY <1>2, <1>3, <1>4, <1>5, <1>6, <1>7

-----------------------------------------------------------------------------
(* The invariant *)

FramesOf(t) ==
  [glob : Seq(Items), startpos : Places(t), pos : Places(t), params : Seq(Items), end_last : Nat]

MinersOf(t) ==
  [pos : Places(t), start : Nat \cup {Unmarked}, end : Nat \cup {Unmarked},
   end_last : Nat, pos_last : Nat]

TypeOK ==
  /\ input \in Inputs
  /\ params \in Seq(Items)
  /\ m \in MinersOf(text)
  /\ mark \in Places(text)
  /\ stack \in Seq(FramesOf(text))
  /\ pc \in {"loop", "glob", "named", "items", "made", "null"}

\* A run begins in the text.  There are calls only of a glob, and without one
\* params is the glob.
StackInv ==
  /\ pc # "loop" => mark < Len(text)
  /\ pc = "loop" => stack = <<>> /\ m.start = Unmarked
  /\ pc = "named" => stack = <<>> /\ input.matcher = "named"
  /\ pc \in {"glob", "items"} \/ stack # <<>> => input.matcher = "glob"
  /\ stack = <<>> => params = glob

\* What is matched inside the waiting calls s of a run of glob g at p, and where
InnerGlob(s, g)  == IF s = <<>> THEN g ELSE Tail(Last(s).glob)
InnerPlace(s, p) == IF s = <<>> THEN p ELSE Last(s).pos

\* f is a call inside s.
CallWell(t, f, s, g, p) ==
  /\ f.params = InnerGlob(s, g)
  /\ f.startpos = Begin(t, f.params, InnerPlace(s, p))
  /\ f.end_last <= p /\ p <= f.startpos /\ f.startpos < Len(t)

\* While a call waits, what it looks for are the ends that its glob has from the
\* * on.
WaitsWell(t, f) ==
  /\ Len(f.glob) > 1 /\ Head(f.glob) = Star /\ f.startpos <= f.pos
  /\ Ends(t, f.glob, f.pos) = Ends(t, f.params, f.startpos)

Calls(t, s, g, p) ==
  \A i \in 1 .. Len(s) :
    CallWell(t, s[i], SubSeq(s, 1, i - 1), g, p) /\ WaitsWell(t, s[i])

\* All calls wait but one that reads its items.
FramesWell ==
  LET waiting == IF pc = "items" THEN Front(stack) ELSE stack
  IN /\ Calls(text, waiting, glob, mark)
     /\ pc = "items" => stack # <<>> /\ CallWell(text, Top, waiting, glob, mark)

\* That call has from here the ends its glob had where it began, which it left,
\* or begins with a symbol it may take.
Reading ==
  pc = "items" =>
    /\ params = Top.params /\ m.end_last <= mark
    /\ Ends(text, Top.glob, m.pos) = Ends(text, params, Top.startpos)
    /\ m.start = IF params = <<>> THEN Unmarked ELSE Top.startpos
    /\ \/ Top.startpos < m.pos
       \/ /\ Top.startpos = m.pos /\ Top.glob = params
          /\ StartsWithDelimiter(params) \/ TokenEnd(text, m.pos) # m.pos

Calling ==
  pc = "glob" =>
    /\ params = InnerGlob(stack, glob) /\ m.pos = InnerPlace(stack, mark)
    /\ m.end_last <= mark
    /\ stack = <<>> => m.start = Unmarked

\* What the inner call has answered the one that waits for it, or the outermost
\* one thread_fn
Answering ==
  input.matcher = "glob" =>
    LET inner == InnerGlob(stack, glob)
        at    == InnerPlace(stack, mark)
    IN /\ pc = "null" => inner = <<>> \/ Called(text, inner, at) = {}
       /\ pc = "made" => /\ m.end \in Called(text, inner, at)
                         /\ Begin(text, inner, at) < m.end
                         /\ stack = <<>> => m.start = Begin(text, inner, at)

GlobInv ==
  TypeOK /\ StackInv /\ FramesWell /\ Reading /\ Calling /\ Answering

-----------------------------------------------------------------------------
(* Stacks *)

\* All but the last element of a stack, and that.
LEMMA PopStack ==
  ASSUME NEW S, NEW s \in Seq(S), s # <<>>
  PROVE  /\ Last(s) \in S /\ Front(s) \in Seq(S)
         /\ Len(s) \in Nat \ {0} /\ Last(s) = s[Len(s)]
         /\ Len(Front(s)) = Len(s) - 1
         /\ Front(s) = SubSeq(s, 1, Len(s) - 1)
         /\ \A i \in 1 .. Len(s) - 1 :
              Front(s)[i] = s[i] /\ SubSeq(Front(s), 1, i - 1) = SubSeq(s, 1, i - 1)
<1> DEFINE n == Len(s) - 1
<1>1. Len(s) \in Nat \ {0} /\ n \in Nat
  BY EmptySeq
<1>2. Last(s) = s[Len(s)] /\ Front(s) = SubSeq(s, 1, n)
  BY DEF Last, Front
<1>3. Last(s) \in S /\ \A i \in 1 .. n : s[i] \in S
  BY <1>1, <1>2
<1>4. /\ SubSeq(s, 1, n) \in Seq(S)
      /\ Len(SubSeq(s, 1, n)) = IF 1 <= n THEN n - 1 + 1 ELSE 0
      /\ \A i \in 1 .. n - 1 + 1 : SubSeq(s, 1, n)[i] = s[1 + i - 1]
  <2> HIDE DEF n
  <2> QED BY <1>1, <1>3, SubSeqProperties
<1>5. Front(s) \in Seq(S) /\ Len(Front(s)) = n /\ \A i \in 1 .. n : Front(s)[i] = s[i]
  <2> HIDE DEF n
  <2> QED BY <1>1, <1>2, <1>4
<1>6. ASSUME NEW i \in 1 .. n PROVE SubSeq(Front(s), 1, i - 1) = SubSeq(s, 1, i - 1)
  <2>1. CASE i = 1
    <3>1. i - 1 = 0
      BY <2>1
    <3>2. SubSeq(Front(s), 1, 0) = <<>> /\ SubSeq(s, 1, 0) = <<>>
      BY SubSeqEmpty
    <3> QED BY <3>1, <3>2
  <2>2. CASE i # 1
    <3>1. /\ 1 \in 1 .. Len(s) /\ n \in 1 .. Len(s)
          /\ 1 \in 1 .. n - 1 + 1 /\ i - 1 \in 1 .. n - 1 + 1
      BY <1>1, <2>2
    <3>2. SubSeq(SubSeq(s, 1, n), 1, i - 1) = SubSeq(s, 1 + 1 - 1, 1 + (i - 1) - 1)
      <4> HIDE DEF n
      <4> QED BY <3>1, SubSeqOfSubSeq
    <3>3. 1 + 1 - 1 = 1 /\ 1 + (i - 1) - 1 = i - 1
      BY <1>1
    <3>4. SubSeq(SubSeq(s, 1, n), 1, i - 1) = SubSeq(s, 1, i - 1)
      BY <3>2, <3>3
    <3> QED BY <1>2, <3>4
  <2> QED BY <2>1, <2>2
<1> QED BY <1>1, <1>2, <1>3, <1>5, <1>6

\* A stack with one element more.
LEMMA PushStack ==
  ASSUME NEW S, NEW s \in Seq(S), NEW e \in S
  PROVE  /\ Append(s, e) \in Seq(S) /\ Append(s, e) # <<>>
         /\ Last(Append(s, e)) = e /\ Front(Append(s, e)) = s
         /\ Len(Append(s, e)) = Len(s) + 1 /\ Len(s) \in Nat
         /\ \A i \in 1 .. Len(s) : Append(s, e)[i] = s[i]
         /\ Append(s, e)[Len(s) + 1] = e
<1>1. /\ Append(s, e) \in Seq(S) /\ Append(s, e) # <<>>
      /\ Len(Append(s, e)) = Len(s) + 1
      /\ \A i \in 1 .. Len(s) : Append(s, e)[i] = s[i]
      /\ Append(s, e)[Len(s) + 1] = e
  BY AppendProperties
<1>2. Len(s) \in Nat /\ (Len(s) + 1) - 1 = Len(s)
  BY LenProperties
<1>3. Last(Append(s, e)) = e
  BY <1>1 DEF Last
<1>4. Front(Append(s, e)) = s
  <2> DEFINE f == Front(Append(s, e))
  <2>1. f \in Seq(S) /\ Len(f) = Len(s) /\ \A i \in 1 .. Len(s) : f[i] = s[i]
    <3>1. f \in Seq(S) /\ Len(f) = Len(Append(s, e)) - 1
      BY <1>1, PopStack
    <3>2. \A i \in 1 .. Len(Append(s, e)) - 1 : f[i] = Append(s, e)[i]
      BY <1>1, PopStack
    <3> QED BY <3>1, <3>2, <1>1, <1>2
  <2> HIDE DEF f
  <2>2. f = s
    BY <2>1, SeqEqual
  <2> QED BY <2>2 DEF f
<1> QED BY <1>1, <1>2, <1>3, <1>4

\* The innermost of the waiting calls is a call inside the others.
LEMMA PopCall ==
  ASSUME NEW t, NEW S, NEW s \in Seq(S), s # <<>>, NEW g, NEW p, Calls(t, s, g, p)
  PROVE  /\ Calls(t, Front(s), g, p)
         /\ CallWell(t, Last(s), Front(s), g, p) /\ WaitsWell(t, Last(s))
<1>1. /\ Len(s) \in Nat \ {0} /\ Last(s) = s[Len(s)] /\ Len(Front(s)) = Len(s) - 1
      /\ Front(s) = SubSeq(s, 1, Len(s) - 1)
      /\ \A i \in 1 .. Len(s) - 1 :
           Front(s)[i] = s[i] /\ SubSeq(Front(s), 1, i - 1) = SubSeq(s, 1, i - 1)
  BY PopStack
<1>2. Calls(t, Front(s), g, p)
  <2> SUFFICES ASSUME NEW i \in 1 .. Len(s) - 1
               PROVE  /\ CallWell(t, Front(s)[i], SubSeq(Front(s), 1, i - 1), g, p)
                      /\ WaitsWell(t, Front(s)[i])
    BY <1>1 DEF Calls
  <2>1. i \in 1 .. Len(s)
    BY <1>1
  <2>2. CallWell(t, s[i], SubSeq(s, 1, i - 1), g, p) /\ WaitsWell(t, s[i])
    BY <2>1 DEF Calls
  <2> QED BY <1>1, <2>2
<1>3. CallWell(t, Last(s), Front(s), g, p) /\ WaitsWell(t, Last(s))
  <2>1. Len(s) \in 1 .. Len(s)
    BY <1>1
  <2>2. /\ CallWell(t, s[Len(s)], SubSeq(s, 1, Len(s) - 1), g, p)
        /\ WaitsWell(t, s[Len(s)])
    BY <2>1 DEF Calls
  <2> QED BY <1>1, <2>2
<1> QED BY <1>2, <1>3

\* A call inside waiting calls that waits is one of them.
LEMMA PushCall ==
  ASSUME NEW t, NEW S, NEW s \in Seq(S), NEW f \in S, NEW g, NEW p,
         Calls(t, s, g, p), CallWell(t, f, s, g, p), WaitsWell(t, f)
  PROVE  Calls(t, Append(s, f), g, p)
<1> DEFINE r == Append(s, f)
<1>1. /\ r \in Seq(S) /\ r # <<>> /\ Front(r) = s
      /\ Len(r) = Len(s) + 1 /\ Len(s) \in Nat
      /\ \A i \in 1 .. Len(s) : r[i] = s[i]
      /\ r[Len(s) + 1] = f
  BY PushStack
<1> HIDE DEF r
<1>2. /\ Front(r) = SubSeq(r, 1, Len(r) - 1)
      /\ \A i \in 1 .. Len(r) - 1 : SubSeq(Front(r), 1, i - 1) = SubSeq(r, 1, i - 1)
  BY <1>1, PopStack
<1>3. ASSUME NEW i \in 1 .. Len(r)
      PROVE  CallWell(t, r[i], SubSeq(r, 1, i - 1), g, p) /\ WaitsWell(t, r[i])
  <2>1. CASE i = Len(r)
    <3>1. r[i] = f /\ SubSeq(r, 1, i - 1) = s
      BY <1>1, <1>2, <2>1
    <3> QED BY <3>1
  <2>2. CASE i # Len(r)
    <3>1. i \in 1 .. Len(s) /\ i \in 1 .. Len(r) - 1
      BY <1>1, <2>2
    <3>2. r[i] = s[i] /\ SubSeq(r, 1, i - 1) = SubSeq(s, 1, i - 1)
      BY <1>1, <1>2, <3>1
    <3>3. CallWell(t, s[i], SubSeq(s, 1, i - 1), g, p) /\ WaitsWell(t, s[i])
      BY <3>1 DEF Calls
    <3> QED BY <3>2, <3>3
  <2> QED BY <2>1, <2>2
<1> QED BY <1>3 DEF Calls, r

-----------------------------------------------------------------------------
(* Every step keeps the invariant *)

\* What TypeOK says of the text, the glob, the miner and the mark.
LEMMA TypeFacts ==
  ASSUME TypeOK
  PROVE  /\ text \in Seq(DOMAIN Lower) /\ Len(text) \in Nat
         /\ glob \in Seq(Items) /\ input.matcher \in {"glob", "named"}
         /\ m.pos \in Places(text) /\ m.pos \in Nat
         /\ mark \in Places(text) /\ mark \in Nat
         /\ m.end_last \in Nat /\ m.pos_last \in Nat
         /\ m.start \in Nat \cup {Unmarked} /\ m.end \in Nat \cup {Unmarked}
<1>1. /\ text \in Seq(DOMAIN Lower) /\ glob \in Seq(Items)
      /\ input.matcher \in {"glob", "named"}
  BY InputsAssumption DEF TypeOK, text, glob
<1>2. Len(text) \in Nat
  BY <1>1, LenProperties
<1> QED BY <1>1, <1>2 DEF TypeOK, MinersOf, Places

\* What is matched inside waiting calls is something, and nowhere before the run.
LEMMA InnerFacts ==
  ASSUME NEW T, NEW t \in Seq(T), NEW s \in Seq(FramesOf(t)), NEW g \in Seq(Items),
         NEW p \in Places(t), Calls(t, s, g, p)
  PROVE  /\ InnerGlob(s, g) \in Seq(Items) /\ (s # <<>> => InnerGlob(s, g) # <<>>)
         /\ InnerPlace(s, p) \in Places(t) /\ p <= InnerPlace(s, p)
<1>1. CASE s = <<>>
  BY <1>1 DEF InnerGlob, InnerPlace, Places
<1>2. CASE s # <<>>
  <2> DEFINE f == Last(s)
  <2>1. f \in FramesOf(t)
    BY <1>2, PopStack
  <2>2. CallWell(t, f, Front(s), g, p) /\ WaitsWell(t, f)
    BY <1>2, PopCall
  <2>3. InnerGlob(s, g) = Tail(f.glob) /\ InnerPlace(s, p) = f.pos
    BY <1>2 DEF InnerGlob, InnerPlace
  <2> HIDE DEF f
  <2>4. f.glob \in Seq(Items) /\ f.pos \in Places(t) /\ f.startpos \in Places(t)
    BY <2>1 DEF FramesOf
  <2>5. Len(f.glob) > 1 /\ f.startpos <= f.pos /\ p <= f.startpos
    BY <2>2 DEF WaitsWell, CallWell
  <2>6. Tail(f.glob) \in Seq(Items) /\ Tail(f.glob) # <<>>
    <3> DEFINE h == f.glob
    <3>1. h \in Seq(Items) /\ Len(h) > 1 /\ Len(h) \in Nat
      BY <2>4, <2>5, LenProperties
    <3> HIDE DEF h
    <3>2. h # <<>>
      BY <3>1, EmptySeq
    <3>3. Tail(h) \in Seq(Items) /\ Len(Tail(h)) = Len(h) - 1
      BY <3>1, <3>2, HeadTailProperties
    <3>4. Tail(h) # <<>>
      <4> DEFINE n == Len(h)  k == Len(Tail(h))
      <4>1. n \in Nat /\ n > 1 /\ k = n - 1
        BY <3>1, <3>3
      <4>2. Len(<<>>) = 0
        OBVIOUS
      <4> HIDE DEF n, k
      <4>3. k # 0
        BY <4>1
      <4> QED BY <4>2, <4>3, Zenon DEF k
    <3> QED BY <3>3, <3>4 DEF h
  <2>7. p <= f.pos
    BY <2>4, <2>5 DEF Places
  <2> QED BY <1>2, <2>3, <2>4, <2>6, <2>7
<1> QED BY <1>1, <1>2

\* What a call looks for.
LEMMA CallLooksFor ==
  ASSUME NEW t, NEW f, NEW s, NEW g, NEW p, CallWell(t, f, s, g, p)
  PROVE  /\ Called(t, InnerGlob(s, g), InnerPlace(s, p)) = Ends(t, f.params, f.startpos)
         /\ Begin(t, InnerGlob(s, g), InnerPlace(s, p)) = f.startpos
BY DEF CallWell, Called

\* What a call looks for is in the text.
LEMMA CalledStays ==
  ASSUME NEW T, NEW t \in Seq(T), NEW S, NEW g \in Seq(S), NEW p \in Places(t)
  PROVE  Called(t, g, p) \subseteq Places(t) /\ Ends(t, g, p) \subseteq Places(t)
<1>1. ASSUME NEW q \in Places(t) PROVE Ends(t, g, q) \subseteq Places(t)
  BY ReachStays DEF Ends
<1>2. Begin(t, g, p) \in Places(t)
  BY BeginFinds DEF Places
<1> QED BY <1>1, <1>2 DEF Called

\* The invariant holds before the first run.
LEMMA GlobInit == Init => GlobInv
<1> SUFFICES ASSUME Init PROVE GlobInv
  OBVIOUS
<1>1. /\ input \in Inputs /\ params = glob /\ m = MinerAt(input.from) /\ mark = input.from
      /\ stack = <<>> /\ pc = "loop"
  BY DEF Init
<1>2. glob \in Seq(Items) /\ input.from \in Places(text)
  BY <1>1, InputsAssumption DEF text, glob, Places
<1>3. TypeOK
  <2>1. m \in MinersOf(text)
    BY <1>1, <1>2 DEF MinerAt, MinersOf
  <2>2. stack \in Seq(FramesOf(text))
    BY <1>1
  <2> QED BY <1>1, <1>2, <2>1, <2>2 DEF TypeOK
<1>4. StackInv
  BY <1>1 DEF StackInv, MinerAt
<1>5. FramesWell
  BY <1>1 DEF FramesWell, Calls
<1> QED BY <1>1, <1>3, <1>4, <1>5 DEF GlobInv, Reading, Calling, Answering

\* Where there is no call, FramesWell says nothing.
LEMMA NoCalls ==
  ASSUME stack = <<>>, pc # "items" PROVE FramesWell
BY DEF FramesWell, Calls

\* The loop, and the matcher for names.
LEMMA LoopKeeps ==
  ASSUME GlobInv, Skip \/ Run \/ Returned \/ MatchNamedEntity
  PROVE  GlobInv'
<1>1. /\ text \in Seq(DOMAIN Lower) /\ Len(text) \in Nat
      /\ glob \in Seq(Items) /\ input.matcher \in {"glob", "named"}
      /\ m.pos \in Places(text) /\ m.pos \in Nat /\ m.end_last \in Nat /\ m.pos_last \in Nat
      /\ mark \in Places(text) /\ mark \in Nat
      /\ m.start \in Nat \cup {Unmarked} /\ m.end \in Nat \cup {Unmarked}
      /\ m \in MinersOf(text)
  BY TypeFacts DEF GlobInv, TypeOK
<1>2. stack = <<>> /\ params = glob /\ stack' = <<>> /\ params' = glob /\ input' = input
  BY DEF GlobInv, StackInv, Skip, Run, Returned, MatchNamedEntity
<1>3. text' = text /\ glob' = glob
  BY <1>2 DEF text, glob
<1>4. CASE Skip
  <2>1. m' \in MinersOf(text) /\ m'.start = m.start
    BY <1>1, <1>4 DEF Skip, Moved, AtEnd, MinersOf, Places
  <2>2. TypeOK' /\ StackInv'
    BY <1>2, <1>3, <1>4, <2>1 DEF GlobInv, TypeOK, StackInv, Skip
  <2> QED
    BY <1>2, <1>4, <2>2
       DEF Skip, GlobInv, StackInv, FramesWell, Calls, Reading, Calling, Answering
<1>5. CASE Run
  <2>1. m.end_last <= m.pos
    BY <1>1, <1>5 DEF Run, MayRun, LaterOf
  <2>2. pc' = input.matcher /\ mark' = m.pos /\ m' = m /\ pc = "loop" /\ m.start = Unmarked
    BY <1>5 DEF Run, GlobInv, StackInv
  <2>6. mark' < Len(text)
    BY <1>1, <1>5, <2>2 DEF Run, AtEnd
  <2>3. TypeOK' /\ StackInv'
    BY <1>1, <1>2, <1>3, <2>2, <2>6 DEF GlobInv, TypeOK, StackInv
  <2>4. FramesWell' /\ Reading' /\ Answering'
    BY <1>1, <1>2, <2>2 DEF FramesWell, Calls, Reading, Answering
  <2>5. Calling'
    BY <1>2, <1>3, <2>1, <2>2 DEF Calling, InnerGlob, InnerPlace
  <2> QED BY <2>3, <2>4, <2>5 DEF GlobInv
<1>6. CASE Returned
  <2>1. m' \in MinersOf(text) /\ m'.start = Unmarked
    <3>1. mark < Len(text)
      BY <1>6 DEF Returned, GlobInv, StackInv
    <3> DEFINE over == RunOver(m)
               to == IF m.pos > mark THEN m.pos ELSE mark + 1
    <3>2. over \in MinersOf(text) /\ over.start = Unmarked
      BY <1>1 DEF RunOver, LaterOf, MinersOf
    <3>3. to \in Places(text)
      BY <1>1, <3>1 DEF Places
    <3>4. m' = [over EXCEPT !.pos = to]
      BY <1>6 DEF Returned
    <3> HIDE DEF over, to
    <3> QED BY <3>2, <3>3, <3>4 DEF MinersOf
  <2> QED
    BY <1>2, <1>3, <1>6, <2>1
       DEF Returned, GlobInv, TypeOK, StackInv, FramesWell, Calls, Reading, Calling, Answering
<1>7. CASE MatchNamedEntity
  <2>1. m' \in MinersOf(text) /\ pc' \in {"made", "null"} /\ mark' = mark
    <3> DEFINE first == IF Sees(text, m, Delimiters) THEN Moved(m, 1) ELSE m
               begun == MarkStart(first)
               to    == NextIn(text, Spaces, first.pos)
               ended == MarkEnd([begun EXCEPT !.pos = to])
    <3>1. first \in MinersOf(text)
      BY <1>1 DEF Sees, AtEnd, Moved, MinersOf, Places
    <3>2. first.pos \in Places(text) /\ first.pos \in Nat /\ first.end_last \in Nat
      BY <3>1 DEF MinersOf, Places
    <3> HIDE DEF first
    <3>3. begun \in MinersOf(text) /\ begun.end_last = first.end_last
      BY <3>1, <3>2 DEF MarkStart, MinersOf
    <3>4. to \in Places(text) /\ first.pos <= to /\ to \in Nat
      BY <1>1, <3>2, NextInFinds DEF Places
    <3> HIDE DEF to, begun
    <3> DEFINE there == [begun EXCEPT !.pos = to]
    <3>5. /\ there \in MinersOf(text) /\ there.pos = to
           /\ there.end_last = first.end_last
      BY <3>3, <3>4 DEF MinersOf
    <3>6. ended = MarkEnd(there)
      OBVIOUS
    <3> HIDE DEF ended, there
    <3>7. ended \in MinersOf(text) /\ (MayMark(first) => ended.end = to)
      <4>1. MayMark(first) => MayMark(there)
        BY <3>2, <3>4, <3>5 DEF MayMark
      <4> QED BY <3>4, <3>5, <3>6, <4>1 DEF MarkEnd, MinersOf
    <3>8. MayMark(first) => Made(ended) \in MinersOf(text)
      BY <3>4, <3>7 DEF Made, MinersOf
    <3>9. /\ \/ m' = m \/ m' = begun \/ m' = ended
             \/ MayMark(first) /\ m' = Made(ended)
          /\ pc' \in {"made", "null"} /\ mark' = mark
      BY <1>7 DEF MatchNamedEntity, first, begun, to, ended
    <3> QED BY <1>1, <3>3, <3>7, <3>8, <3>9
  <2>2. input.matcher = "named"
    BY <1>7 DEF MatchNamedEntity, GlobInv, StackInv
  <2>3. mark < Len(text)
    BY <1>7 DEF MatchNamedEntity, GlobInv, StackInv
  <2> QED
    BY <1>2, <1>3, <2>1, <2>2, <2>3
       DEF GlobInv, TypeOK, StackInv, FramesWell, Calls, Reading, Calling, Answering
<1> QED BY <1>4, <1>5, <1>6, <1>7

\* A call that reads its items: what it looks for are the ends from here on.
LEMMA ReadingFacts ==
  ASSUME GlobInv, pc = "items"
  PROVE  /\ stack # <<>> /\ Top \in FramesOf(text) /\ Front(stack) \in Seq(FramesOf(text))
         /\ Calls(text, Front(stack), glob, mark)
         /\ CallWell(text, Top, Front(stack), glob, mark)
         /\ params = Top.params /\ params = InnerGlob(Front(stack), glob)
         /\ Top.glob \in Seq(Items) /\ params \in Seq(Items)
         /\ Called(text, params, InnerPlace(Front(stack), mark)) = Ends(text, Top.glob, m.pos)
         /\ Ends(text, params, Top.startpos) = Ends(text, Top.glob, m.pos)
         /\ Begin(text, params, InnerPlace(Front(stack), mark)) = Top.startpos
         /\ Top.startpos \in Nat /\ mark <= Top.startpos /\ Top.startpos <= m.pos
         /\ m.end_last <= mark
         /\ m.start = IF params = <<>> THEN Unmarked ELSE Top.startpos
         /\ input.matcher = "glob" /\ mark < Len(text)
<1>1. /\ stack # <<>> /\ Calls(text, Front(stack), glob, mark)
      /\ CallWell(text, Top, Front(stack), glob, mark)
  BY DEF GlobInv, FramesWell
<1>2. Top \in FramesOf(text) /\ Front(stack) \in Seq(FramesOf(text))
  BY <1>1, PopStack DEF GlobInv, TypeOK, Top
<1>3. /\ Top.glob \in Seq(Items) /\ params \in Seq(Items)
      /\ Top.startpos \in Nat /\ m.pos \in Nat
  BY <1>2, TypeFacts DEF FramesOf, GlobInv, TypeOK, Places
<1>4. params = Top.params /\ params = InnerGlob(Front(stack), glob) /\ mark <= Top.startpos
  BY <1>1 DEF GlobInv, Reading, CallWell
<1>5. Ends(text, params, Top.startpos) = Ends(text, Top.glob, m.pos)
  BY DEF GlobInv, Reading
<1>6. /\ Called(text, params, InnerPlace(Front(stack), mark)) = Ends(text, params, Top.startpos)
      /\ Begin(text, params, InnerPlace(Front(stack), mark)) = Top.startpos
  <2>1. /\ Called(text, InnerGlob(Front(stack), glob), InnerPlace(Front(stack), mark))
             = Ends(text, Top.params, Top.startpos)
        /\ Begin(text, InnerGlob(Front(stack), glob), InnerPlace(Front(stack), mark))
             = Top.startpos
    BY <1>1, CallLooksFor
  <2>2. params = Top.params /\ InnerGlob(Front(stack), glob) = params
    BY <1>4
  <2> QED BY <2>1, <2>2, Zenon
<1>7. /\ Top.startpos <= m.pos /\ m.end_last <= mark
      /\ m.start = IF params = <<>> THEN Unmarked ELSE Top.startpos
  BY <1>3 DEF GlobInv, Reading
<1>8. input.matcher = "glob" /\ mark < Len(text)
  BY DEF GlobInv, StackInv
<1> QED BY <1>1, <1>2, <1>3, <1>4, <1>5, <1>6, <1>7, <1>8

\* A call that got an answer to what follows its *.
LEMMA WaitingFacts ==
  ASSUME GlobInv, pc \in {"null", "made"}, stack # <<>>
  PROVE  /\ Top \in FramesOf(text) /\ Front(stack) \in Seq(FramesOf(text))
         /\ Calls(text, Front(stack), glob, mark)
         /\ CallWell(text, Top, Front(stack), glob, mark) /\ WaitsWell(text, Top)
         /\ Top.params = InnerGlob(Front(stack), glob)
         /\ Top.glob \in Seq(Items) /\ Top.params \in Seq(Items) /\ Tail(Top.glob) \in Seq(Items)
         /\ Called(text, Top.params, InnerPlace(Front(stack), mark)) = Ends(text, Top.glob, Top.pos)
         /\ Begin(text, Top.params, InnerPlace(Front(stack), mark)) = Top.startpos
         /\ Top.startpos \in Places(text) /\ Top.pos \in Places(text)
         /\ mark <= Top.startpos /\ Top.startpos <= Top.pos
         /\ Top.end_last \in Nat /\ Top.end_last <= mark
         /\ Head(Top.glob) = Star /\ Len(Top.glob) > 1
         /\ input.matcher = "glob" /\ mark < Len(text)
         /\ pc = "null" => Called(text, Tail(Top.glob), Top.pos) = {}
         /\ pc = "made" => /\ m.end \in Called(text, Tail(Top.glob), Top.pos)
                           /\ Begin(text, Tail(Top.glob), Top.pos) < m.end
<1>1. Calls(text, stack, glob, mark)
  BY DEF GlobInv, FramesWell
<1>2. stack \in Seq(FramesOf(text))
  BY DEF GlobInv, TypeOK
<1>3. Top \in FramesOf(text) /\ Front(stack) \in Seq(FramesOf(text))
  BY <1>2, PopStack DEF Top
<1>4. /\ Calls(text, Front(stack), glob, mark)
      /\ CallWell(text, Top, Front(stack), glob, mark) /\ WaitsWell(text, Top)
  BY <1>1, <1>2, PopCall DEF Top
<1>5. /\ Top.params = InnerGlob(Front(stack), glob)
      /\ mark <= Top.startpos /\ Top.startpos <= Top.pos /\ Top.end_last <= mark
      /\ Head(Top.glob) = Star /\ Len(Top.glob) > 1
      /\ Ends(text, Top.glob, Top.pos) = Ends(text, Top.params, Top.startpos)
  BY <1>4 DEF CallWell, WaitsWell
<1>6. /\ Called(text, Top.params, InnerPlace(Front(stack), mark)) = Ends(text, Top.glob, Top.pos)
      /\ Begin(text, Top.params, InnerPlace(Front(stack), mark)) = Top.startpos
  BY <1>4, <1>5, CallLooksFor
<1>7. /\ Top.glob \in Seq(Items) /\ Top.params \in Seq(Items)
      /\ Top.startpos \in Places(text) /\ Top.pos \in Places(text) /\ Top.end_last \in Nat
  BY <1>3 DEF FramesOf
<1>8. input.matcher = "glob" /\ mark < Len(text)
  BY DEF GlobInv, StackInv
<1>9. /\ InnerGlob(stack, glob) = Tail(Top.glob) /\ InnerPlace(stack, mark) = Top.pos
      /\ InnerGlob(stack, glob) \in Seq(Items) \ {<<>>}
  <2>1. /\ text \in Seq(DOMAIN Lower) /\ glob \in Seq(Items) /\ mark \in Places(text)
    BY TypeFacts DEF GlobInv
  <2>2. InnerGlob(stack, glob) \in Seq(Items) /\ InnerGlob(stack, glob) # <<>>
    BY <1>1, <1>2, <2>1, InnerFacts
  <2> QED BY <2>2, Zenon DEF InnerGlob, InnerPlace, Top
<1>10. /\ pc = "null" => Called(text, Tail(Top.glob), Top.pos) = {}
       /\ pc = "made" => /\ m.end \in Called(text, Tail(Top.glob), Top.pos)
                         /\ Begin(text, Tail(Top.glob), Top.pos) < m.end
  BY <1>8, <1>9 DEF GlobInv, Answering
<1> QED BY <1>3, <1>4, <1>5, <1>6, <1>7, <1>8, <1>9, <1>10

\* A call that returns leaves the others waiting, gives params back, and answers
\* the one around it.
LEMMA ReturnKeeps ==
  ASSUME GlobInv, stack # <<>>, input' = input, mark' = mark, stack' = Front(stack),
         CallWell(text, Top, Front(stack), glob, mark), Calls(text, Front(stack), glob, mark),
         params' = Top.params, pc' \in {"null", "made"}, m' \in MinersOf(text),
         pc' = "null" => params' = <<>>
                           \/ Called(text, params', InnerPlace(Front(stack), mark)) = {},
         pc' = "made" => /\ m'.end \in Called(text, params', InnerPlace(Front(stack), mark))
                         /\ m'.start = Top.startpos /\ Top.startpos < m'.end
  PROVE  GlobInv'
<1>1. text' = text /\ glob' = glob
  BY DEF text, glob
<1>2. Top \in FramesOf(text) /\ stack' \in Seq(FramesOf(text))
  BY PopStack DEF GlobInv, TypeOK, Top
<1>3. /\ params' = InnerGlob(stack', glob')
      /\ Begin(text, params', InnerPlace(Front(stack), mark)) = Top.startpos
  BY <1>1, CallLooksFor DEF CallWell
<1>4. params' \in Seq(Items)
  BY <1>2 DEF FramesOf
<1>5. TypeOK'
  BY <1>1, <1>2, <1>4 DEF TypeOK, GlobInv
<1>6. input.matcher = "glob" /\ mark < Len(text)
  BY DEF GlobInv, StackInv, FramesWell, CallWell
<1>7. stack' = <<>> => params' = glob
  BY <1>1, <1>3 DEF InnerGlob
<1>8. StackInv'
  BY <1>1, <1>6, <1>7 DEF StackInv
<1>9. FramesWell' /\ Reading' /\ Calling'
  BY <1>1 DEF FramesWell, Reading, Calling
<1>10. Answering'
  <2>1. InnerPlace(stack', mark') = InnerPlace(Front(stack), mark)
    OBVIOUS
  <2> QED BY <1>1, <1>3, <2>1 DEF Answering
<1> QED BY <1>5, <1>8, <1>9, <1>10 DEF GlobInv

\* A miner that is put elsewhere.
LEMMA MinerMoves ==
  ASSUME NEW t, NEW x \in MinersOf(t), NEW p \in Places(t)
  PROVE  /\ [x EXCEPT !.pos = p] \in MinersOf(t)
         /\ [x EXCEPT !.pos = p].pos = p /\ [x EXCEPT !.pos = p].start = x.start
         /\ [x EXCEPT !.pos = p].end = x.end /\ [x EXCEPT !.pos = p].end_last = x.end_last
BY DEF MinersOf

\* Entering a call
LEMMA CallGlobKeeps ==
  ASSUME GlobInv, CallGlob PROVE GlobInv'
<1> DEFINE begin == Begin(text, params, m.pos)
           at    == [m EXCEPT !.pos = begin]
           f     == [glob |-> params, startpos |-> begin, pos |-> begin,
                     params |-> params, end_last |-> m.end_last]
<1>1. /\ text \in Seq(DOMAIN Lower) /\ Len(text) \in Nat /\ glob \in Seq(Items)
      /\ m.pos \in Places(text) /\ m.pos \in Nat /\ m.end_last \in Nat
      /\ mark \in Places(text) /\ mark \in Nat
  BY TypeFacts DEF GlobInv
<1>2. /\ pc = "glob" /\ input' = input /\ params' = params /\ mark' = mark
      /\ text' = text /\ glob' = glob
  BY DEF CallGlob, text, glob
<1>3. /\ stack \in Seq(FramesOf(text)) /\ params \in Seq(Items) /\ m \in MinersOf(text)
      /\ input.matcher = "glob" /\ mark < Len(text) /\ (stack = <<>> => params = glob)
      /\ Calls(text, stack, glob, mark)
      /\ params = InnerGlob(stack, glob) /\ m.pos = InnerPlace(stack, mark)
      /\ m.end_last <= mark
      /\ stack = <<>> => m.start = Unmarked
  BY <1>2 DEF GlobInv, TypeOK, StackInv, FramesWell, Calling
<1>4. /\ begin \in m.pos .. Len(text) /\ begin \in Places(text)
      /\ begin < Len(text) => StartsWithDelimiter(params) \/ TokenEnd(text, begin) # begin
  BY <1>1, BeginFinds DEF Places
<1>5. mark <= m.pos /\ (stack # <<>> => params # <<>>)
  <2>1. /\ mark <= InnerPlace(stack, mark)
        /\ stack # <<>> => InnerGlob(stack, glob) # <<>>
    BY <1>1, <1>3, InnerFacts
  <2> QED BY <1>3, <2>1
<1>6. mark <= begin /\ m.end_last <= begin
  BY <1>1, <1>3, <1>4, <1>5
<1>7. /\ at \in MinersOf(text) /\ at.pos = begin /\ at.start = m.start
      /\ at.end_last = m.end_last
  BY <1>3, <1>4, MinerMoves
<1>8. AtEnd(text, at) <=> begin = Len(text)
  BY <1>1, <1>4, <1>7 DEF AtEnd
<1>9. /\ m' = IF params = <<>> \/ AtEnd(text, at) THEN at ELSE MarkStart(at)
      /\ AtEnd(text, at) => pc' = "null" /\ stack' = stack
      /\ ~AtEnd(text, at) => pc' = "items" /\ stack' = Append(stack, f)
  <2>1. at.pos = begin
    BY <1>7
  <2> HIDE DEF begin
  <2> QED BY <2>1 DEF CallGlob, begin
<1> HIDE DEF at
<1>10. CASE AtEnd(text, at)
  <2>1. m' = at /\ pc' = "null" /\ stack' = stack
    BY <1>9, <1>10
  <2>2. TypeOK' /\ StackInv' /\ FramesWell' /\ Reading' /\ Calling'
    BY <1>2, <1>3, <1>7, <2>1
       DEF GlobInv, TypeOK, StackInv, FramesWell, Reading, Calling
  <2>3. Called(text, params, m.pos) = {}
    BY <1>1, <1>8, <1>10 DEF Called
  <2>4. Answering'
    BY <1>2, <1>3, <2>1, <2>3 DEF Answering
  <2> QED BY <2>2, <2>4 DEF GlobInv
<1>11. CASE ~AtEnd(text, at)
  <2>1. pc' = "items" /\ stack' = Append(stack, f) /\ begin < Len(text)
    BY <1>1, <1>4, <1>8, <1>9, <1>11
  <2>2. f \in FramesOf(text)
    BY <1>1, <1>3, <1>4 DEF FramesOf
  <2>3. /\ stack' \in Seq(FramesOf(text)) /\ stack' # <<>>
        /\ Last(stack') = f /\ Front(stack') = stack
    BY <1>3, <2>1, <2>2, PushStack
  <2>4. /\ m' \in MinersOf(text) /\ m'.pos = begin /\ m'.end_last = m.end_last
        /\ m'.start = IF params = <<>> THEN Unmarked ELSE begin
    <3>1. MayMark(at)
      BY <1>6, <1>7 DEF MayMark
    <3>2. CASE params = <<>>
      BY <1>3, <1>5, <1>7, <1>9, <3>2
    <3>3. CASE params # <<>>
      <4>1. m' = [at EXCEPT !.start = at.pos]
        BY <1>9, <1>11, <3>1, <3>3 DEF MarkStart
      <4>2. begin \in Nat
        BY <1>4 DEF Places
      <4> HIDE DEF begin
      <4> QED BY <1>7, <3>3, <4>1, <4>2 DEF MinersOf
    <3> QED BY <3>2, <3>3
  <2>5. CallWell(text, f, stack, glob, mark)
    <3>1. /\ f.params = params /\ f.startpos = Begin(text, params, m.pos)
          /\ f.end_last = m.end_last /\ f.startpos = begin
      OBVIOUS
    <3> HIDE DEF f, begin
    <3> QED BY <1>3, <1>6, <2>1, <3>1 DEF CallWell
  <2>6. f.glob = params /\ f.params = params /\ f.startpos = begin
    OBVIOUS
  <2> HIDE DEF f, begin
  <2>7. TypeOK' /\ StackInv'
    BY <1>2, <1>3, <2>1, <2>3, <2>4, <1>1 DEF GlobInv, TypeOK, StackInv
  <2>8. FramesWell'
    <3>1. Top' = f /\ Front(stack)' = stack
      BY <2>3 DEF Top
    <3> QED BY <1>2, <1>3, <2>1, <2>3, <2>5, <3>1 DEF FramesWell
  <2>9. Reading'
    <3>1. Top' = f
      BY <2>3 DEF Top
    <3>2. StartsWithDelimiter(params) \/ TokenEnd(text, begin) # begin
      BY <1>4, <2>1
    <3> QED BY <1>2, <1>3, <2>1, <2>4, <2>6, <3>1, <3>2 DEF Reading
  <2>10. Calling' /\ Answering'
    BY <2>1 DEF Calling, Answering
  <2> QED BY <2>7, <2>8, <2>9, <2>10 DEF GlobInv
<1> QED BY <1>10, <1>11

\* A call that takes an item and goes on, behind where it began.
LEMMA ItemKeeps ==
  ASSUME GlobInv, pc = "items", NEW g \in Seq(Items), NEW q \in Places(text),
         input' = input, params' = params, mark' = mark, pc' = "items",
         m' = [m EXCEPT !.pos = q], stack' = WithTop([Top EXCEPT !.glob = g]),
         Top.startpos < q, Ends(text, g, q) = Ends(text, Top.glob, m.pos)
  PROVE  GlobInv'
<1> DEFINE f == [Top EXCEPT !.glob = g]
           s == Front(stack)
<1>1. text' = text /\ glob' = glob
  BY DEF text, glob
<1>2. /\ Top \in FramesOf(text) /\ s \in Seq(FramesOf(text))
      /\ Calls(text, s, glob, mark) /\ CallWell(text, Top, s, glob, mark)
      /\ params = Top.params /\ m.end_last <= mark
      /\ Ends(text, params, Top.startpos) = Ends(text, Top.glob, m.pos)
      /\ m.start = IF params = <<>> THEN Unmarked ELSE Top.startpos
      /\ input.matcher = "glob" /\ mark < Len(text)
  BY ReadingFacts
<1>3. /\ f \in FramesOf(text) /\ f.glob = g /\ f.params = Top.params
      /\ f.startpos = Top.startpos /\ f.end_last = Top.end_last
  BY <1>2 DEF FramesOf
<1>4. CallWell(text, f, s, glob, mark)
  <2> HIDE DEF f
  <2> QED BY <1>2, <1>3 DEF CallWell
<1>5. stack' = Append(s, f)
  BY DEF WithTop
<1> HIDE DEF f, s
<1>6. /\ stack' \in Seq(FramesOf(text)) /\ stack' # <<>>
      /\ Top' = f /\ Front(stack)' = s
  <2>1. /\ stack' \in Seq(FramesOf(text)) /\ stack' # <<>>
        /\ Last(stack') = f /\ Front(stack') = s
    <3>1. s \in Seq(FramesOf(text)) /\ f \in FramesOf(text)
      BY <1>2, <1>3
    <3>2. /\ Append(s, f) \in Seq(FramesOf(text)) /\ Append(s, f) # <<>>
          /\ Last(Append(s, f)) = f /\ Front(Append(s, f)) = s
      BY <3>1, PushStack
    <3> QED BY <1>5, <3>2
  <2> QED BY <2>1 DEF Top
<1>7. /\ m' \in MinersOf(text) /\ m'.pos = q /\ m'.start = m.start
      /\ m'.end_last = m.end_last
  BY MinerMoves DEF GlobInv, TypeOK
<1>8. TypeOK' /\ StackInv'
  BY <1>1, <1>2, <1>6, <1>7 DEF GlobInv, TypeOK, StackInv
<1>9. FramesWell'
  BY <1>1, <1>2, <1>4, <1>6 DEF FramesWell
<1>10. Reading'
  BY <1>1, <1>2, <1>3, <1>6, <1>7 DEF Reading
<1>11. Calling' /\ Answering'
  BY DEF Calling, Answering
<1> QED BY <1>8, <1>9, <1>10, <1>11 DEF GlobInv

\* A symbol is taken: the ends from the next item on are the ones from here.
LEMMA TakeSymbolKeeps ==
  ASSUME GlobInv, TakeSymbol PROVE GlobInv'
<1> DEFINE g == Top.glob
<1>1. /\ pc = "items" /\ g # <<>> /\ Head(g) # Star
      /\ m.pos < Len(text) /\ Takes(Head(g), text[m.pos + 1])
  <2>1. text \in Seq(DOMAIN Lower) /\ m.pos \in Nat /\ Len(text) \in Nat
    BY TypeFacts DEF GlobInv
  <2> QED BY <2>1 DEF TakeSymbol, InItems, IsStar, Fitting, AtEnd
<1>2. /\ text \in Seq(DOMAIN Lower) /\ Len(text) \in Nat
      /\ m.pos \in Places(text) /\ m.pos \in Nat
  BY TypeFacts DEF GlobInv
<1>3. g \in Seq(Items) /\ Top.startpos \in Nat /\ Top.startpos <= m.pos
  BY <1>1, ReadingFacts
<1>4. Tail(g) \in Seq(Items)
  <2> HIDE DEF g
  <2> QED BY <1>1, <1>3, HeadTailProperties
<1>5. m.pos + 1 \in Places(text) /\ Top.startpos < m.pos + 1
  BY <1>1, <1>2, <1>3 DEF Places
<1>6. Ends(text, Tail(g), m.pos + 1) = Ends(text, g, m.pos)
  <2> HIDE DEF g
  <2> QED BY <1>1, <1>2, <1>3, EndsBySymbol
<1>7. /\ input' = input /\ params' = params /\ mark' = mark /\ pc' = "items"
      /\ m' = [m EXCEPT !.pos = m.pos + 1]
      /\ stack' = WithTop([Top EXCEPT !.glob = Tail(g)])
  BY <1>1 DEF TakeSymbol, Moved
<1> QED BY <1>1, <1>4, <1>5, <1>6, <1>7, ItemKeeps

\* A * at the end: it has one end, and that is where the token ends.
LEMMA LastStarKeeps ==
  ASSUME GlobInv, LastStar PROVE GlobInv'
<1> DEFINE g == Top.glob
           q == TokenEnd(text, m.pos)
<1>1. pc = "items" /\ Head(g) = Star /\ Len(g) = 1
  BY DEF LastStar, InItems, IsStar
<1>2. /\ text \in Seq(DOMAIN Lower) /\ Len(text) \in Nat
      /\ m.pos \in Places(text) /\ m.pos \in Nat
  BY TypeFacts DEF GlobInv
<1>3. /\ g \in Seq(Items) /\ Top.startpos \in Nat /\ Top.startpos <= m.pos
      /\ params = Top.params
  BY <1>1, ReadingFacts
<1>4. q \in m.pos .. Len(text) /\ q \in Places(text)
  BY <1>2, TokenEndFinds DEF Places
<1>5. Top.startpos < q
  <2>1. \/ Top.startpos < m.pos
        \/ Top.glob = params /\ (StartsWithDelimiter(params) \/ q # m.pos)
    BY <1>1 DEF GlobInv, Reading
  <2>2. ~StartsWithDelimiter(g)
    <3>1. g # <<>>
      <4>1. Len(<<>>) = 0 /\ Len(g) # 0
        BY <1>1
      <4> QED BY <4>1
    <3> HIDE DEF g
    <3> QED BY <1>1, <3>1 DEF StartsWithDelimiter, Star
  <2> QED BY <1>2, <1>3, <1>4, <2>1, <2>2
<1>6. Ends(text, <<>>, q) = Ends(text, g, m.pos)
  <2> HIDE DEF g
  <2> QED BY <1>1, <1>2, <1>3, EndsByLastStar
<1>7. /\ input' = input /\ params' = params /\ mark' = mark /\ pc' = "items"
      /\ m' = [m EXCEPT !.pos = q]
      /\ stack' = WithTop([Top EXCEPT !.glob = <<>>])
  BY <1>1 DEF LastStar
<1>8. <<>> \in Seq(Items)
  OBVIOUS
<1> HIDE DEF q
<1> QED BY <1>1, <1>4, <1>5, <1>6, <1>7, <1>8, ItemKeeps

\* The item does not fit: from here there are no ends.
LEMMA MismatchKeeps ==
  ASSUME GlobInv, Mismatch PROVE GlobInv'
<1> DEFINE g == Top.glob
           q == Skipped(text, m.pos)
<1>1. /\ pc = "items" /\ g # <<>> /\ Head(g) # Star
      /\ ~(m.pos < Len(text) /\ Takes(Head(g), text[m.pos + 1]))
  <2>1. text \in Seq(DOMAIN Lower) /\ m.pos \in Nat /\ Len(text) \in Nat
    BY TypeFacts DEF GlobInv
  <2> QED BY <2>1 DEF Mismatch, InItems, IsStar, Fitting, AtEnd
<1>2. text \in Seq(DOMAIN Lower) /\ m.pos \in Places(text)
  BY TypeFacts DEF GlobInv
<1>3. /\ stack # <<>> /\ Calls(text, Front(stack), glob, mark)
      /\ CallWell(text, Top, Front(stack), glob, mark)
      /\ params = Top.params /\ g \in Seq(Items)
      /\ Called(text, params, InnerPlace(Front(stack), mark)) = Ends(text, g, m.pos)
  BY <1>1, ReadingFacts
<1>4. Ends(text, g, m.pos) = {}
  <2> HIDE DEF g
  <2> QED BY <1>1, <1>2, <1>3, EndsBySymbol
<1>5. /\ input' = input /\ params' = params /\ mark' = mark /\ pc' = "null"
      /\ m' = [m EXCEPT !.pos = q] /\ stack' = Front(stack)
  BY DEF Mismatch, ReturnNull
<1>6. m' \in MinersOf(text)
  <2>1. q \in Places(text)
    BY <1>2, SkippedStays
  <2> HIDE DEF q
  <2> QED BY <1>5, <2>1, MinerMoves DEF GlobInv, TypeOK
<1> QED BY <1>3, <1>4, <1>5, <1>6, ReturnKeeps

\* At a * the rest of the glob is called for, and the call waits.
LEMMA CallRestKeeps ==
  ASSUME GlobInv, CallRest PROVE GlobInv'
<1> DEFINE f == [Top EXCEPT !.pos = m.pos, !.params = params, !.end_last = m.end_last]
           s == Front(stack)
<1>1. /\ pc = "items" /\ Head(Top.glob) = Star /\ Len(Top.glob) > 1
      /\ input' = input /\ m' = m /\ mark' = mark /\ pc' = "glob"
      /\ params' = Tail(Top.glob) /\ stack' = WithTop(f)
  BY DEF CallRest, InItems, IsStar
<1>2. text' = text /\ glob' = glob
  BY <1>1 DEF text, glob
<1>3. /\ Top \in FramesOf(text) /\ s \in Seq(FramesOf(text))
      /\ Calls(text, s, glob, mark) /\ CallWell(text, Top, s, glob, mark)
      /\ params = Top.params /\ Top.glob \in Seq(Items) /\ m.end_last <= mark
      /\ Ends(text, params, Top.startpos) = Ends(text, Top.glob, m.pos)
      /\ Top.startpos <= m.pos /\ input.matcher = "glob" /\ mark < Len(text)
  BY <1>1, ReadingFacts
<1>4. m.pos \in Places(text) /\ m.end_last \in Nat
  BY TypeFacts DEF GlobInv
<1>5. /\ f \in FramesOf(text) /\ f.glob = Top.glob /\ f.params = params
      /\ f.startpos = Top.startpos /\ f.end_last = m.end_last /\ f.pos = m.pos
  BY <1>3, <1>4 DEF FramesOf
<1> HIDE DEF f, s
<1>6. CallWell(text, f, s, glob, mark) /\ WaitsWell(text, f)
  BY <1>1, <1>3, <1>5 DEF CallWell, WaitsWell
<1>7. stack' = Append(s, f)
  BY <1>1 DEF WithTop, s
<1>8. /\ stack' \in Seq(FramesOf(text)) /\ stack' # <<>> /\ Last(stack') = f
  BY <1>3, <1>5, <1>7, PushStack
<1>9. Calls(text, stack', glob, mark)
  BY <1>3, <1>5, <1>6, <1>7, PushCall
<1>10. Tail(Top.glob) \in Seq(Items)
  <2>1. Top.glob # <<>>
    BY <1>1 DEF CallRest, InItems
  <2> QED BY <1>3, <2>1, HeadTailProperties
<1>11. TypeOK' /\ StackInv'
  BY <1>1, <1>2, <1>3, <1>8, <1>10 DEF GlobInv, TypeOK, StackInv
<1>12. FramesWell' /\ Reading' /\ Answering'
  BY <1>1, <1>2, <1>9 DEF FramesWell, Reading, Answering
<1>13. Calling'
  <2>1. InnerGlob(stack', glob') = Tail(Top.glob) /\ InnerPlace(stack', mark') = m.pos
    BY <1>5, <1>8 DEF InnerGlob, InnerPlace
  <2> QED BY <1>1, <1>3, <1>8, <2>1 DEF Calling
<1> QED BY <1>11, <1>12, <1>13 DEF GlobInv

\* The rest was found: so was the glob of this call.
LEMMA RestFoundKeeps ==
  ASSUME GlobInv, RestFound PROVE GlobInv'
<1> DEFINE back  == [m EXCEPT !.pos = Top.startpos, !.end_last = Top.end_last]
           outer == [MarkStart(back) EXCEPT !.pos = m.pos]
           g == Top.glob
<1>1. /\ pc = "made" /\ stack # <<>> /\ params' = Top.params /\ stack' = Front(stack)
      /\ input' = input /\ mark' = mark
      /\ m' = IF MayMake(outer, FALSE) THEN Made(outer) ELSE outer
      /\ pc' = IF MayMake(outer, FALSE) THEN "made" ELSE "null"
  BY DEF RestFound
<1>2. /\ CallWell(text, Top, Front(stack), glob, mark)
      /\ Calls(text, Front(stack), glob, mark)
      /\ g \in Seq(Items) /\ Tail(g) \in Seq(Items) /\ Head(g) = Star /\ Len(g) > 1
      /\ Called(text, Top.params, InnerPlace(Front(stack), mark)) = Ends(text, g, Top.pos)
      /\ Top.startpos \in Places(text) /\ Top.pos \in Places(text) /\ Top.end_last \in Nat
      /\ mark <= Top.startpos /\ Top.startpos <= Top.pos /\ Top.end_last <= mark
      /\ m.end \in Called(text, Tail(g), Top.pos)
      /\ Begin(text, Tail(g), Top.pos) < m.end
  BY <1>1, WaitingFacts
<1>3. /\ text \in Seq(DOMAIN Lower) /\ mark \in Nat /\ m \in MinersOf(text)
      /\ m.pos \in Places(text)
  BY TypeFacts DEF GlobInv, TypeOK
<1>4. m.end \in Places(text) /\ m.end \in Nat /\ Top.startpos < m.end
  <2>1. m.end \in Places(text)
    <3> HIDE DEF g
    <3> QED BY <1>2, <1>3, CalledStays
  <2>2. Begin(text, Tail(g), Top.pos) \in Top.pos .. Len(text)
    <3> HIDE DEF g
    <3> QED BY <1>2, <1>3, BeginFinds
  <2> QED BY <1>2, <2>1, <2>2 DEF Places
<1>5. m.end \in Ends(text, g, Top.pos)
  <2> HIDE DEF g
  <2> QED BY <1>2, <1>3, EndsByStar
<1>6. /\ outer \in MinersOf(text) /\ outer.start = Top.startpos /\ outer.end = m.end
  <2>1. /\ back \in MinersOf(text) /\ back.pos = Top.startpos /\ back.end = m.end
        /\ back.end_last = Top.end_last
    BY <1>2, <1>3 DEF MinersOf
  <2> HIDE DEF back
  <2>2. MayMark(back) /\ Top.startpos \in Nat
    BY <1>2, <1>3, <2>1 DEF MayMark, Places
  <2>3. MarkStart(back) = [back EXCEPT !.start = Top.startpos]
    BY <2>1, <2>2 DEF MarkStart
  <2> QED BY <1>3, <2>1, <2>2, <2>3 DEF MinersOf
<1> HIDE DEF outer
<1>7. MayMake(outer, FALSE)
  <2>1. Top.startpos \in Nat
    BY <1>2 DEF Places
  <2> QED BY <1>4, <1>6, <2>1, UnmarkedAssumption DEF MayMake
<1>8. /\ pc' = "made" /\ m' \in MinersOf(text)
      /\ m'.end = m.end /\ m'.start = Top.startpos
  BY <1>1, <1>4, <1>6, <1>7 DEF Made, MinersOf
<1> QED BY <1>1, <1>2, <1>4, <1>5, <1>8, ReturnKeeps

\* The rest was not found: it is tried at the next place, if a * may go on.
LEMMA RestFailedKeeps ==
  ASSUME GlobInv, RestFailed PROVE GlobInv'
<1> DEFINE p == Top.pos
           g == Top.glob
           s == Front(stack)
           back == [m EXCEPT !.pos = p, !.end_last = Top.end_last]
<1>1. pc = "null" /\ stack # <<>> /\ input' = input /\ mark' = mark
  BY DEF RestFailed
<1>2. /\ Top \in FramesOf(text) /\ s \in Seq(FramesOf(text))
      /\ CallWell(text, Top, s, glob, mark) /\ WaitsWell(text, Top)
      /\ Calls(text, s, glob, mark)
      /\ g \in Seq(Items) /\ Tail(g) \in Seq(Items) /\ Head(g) = Star /\ Len(g) > 1
      /\ Called(text, Top.params, InnerPlace(s, mark)) = Ends(text, g, p)
      /\ Top.startpos \in Places(text) /\ p \in Places(text) /\ Top.end_last \in Nat
      /\ mark <= Top.startpos /\ Top.startpos <= p /\ Top.end_last <= mark
      /\ Called(text, Tail(g), p) = {}
      /\ input.matcher = "glob" /\ mark < Len(text)
  BY <1>1, WaitingFacts
<1>3. /\ text \in Seq(DOMAIN Lower) /\ mark \in Nat /\ m \in MinersOf(text)
      /\ Len(text) \in Nat
  BY TypeFacts DEF GlobInv, TypeOK
<1>4. Ends(text, g, p) = IF GoesOn(text, p) THEN Ends(text, g, p + 1) ELSE {}
  <2>1. Ends(text, g, p) = Called(text, Tail(g), p)
                             \cup IF GoesOn(text, p) THEN Ends(text, g, p + 1) ELSE {}
    <3> HIDE DEF g, p
    <3> QED BY <1>2, <1>3, EndsByStar
  <2> QED BY <1>2, <2>1
<1>5. ASSUME Ends(text, g, p) = {}, NEW q \in Places(text), m' = [back EXCEPT !.pos = q],
             params' = Top.params, stack' = s, pc' = "null"
      PROVE  GlobInv'
  <2>1. m' \in MinersOf(text)
    <3>1. back \in MinersOf(text)
      BY <1>2, <1>3 DEF MinersOf
    <3> HIDE DEF back
    <3> QED BY <1>5, <3>1, MinerMoves
  <2> QED BY <1>1, <1>2, <1>5, <2>1, ReturnKeeps
<1>6. CASE /\ p = Len(text) /\ m' = back
           /\ params' = Top.params /\ stack' = s /\ pc' = "null"
  <2>1. ~GoesOn(text, p)
    BY <1>3, <1>6 DEF GoesOn
  <2>2. m' = [back EXCEPT !.pos = p]
    BY <1>6, <1>3 DEF MinersOf
  <2> QED BY <1>2, <1>4, <1>5, <1>6, <2>1, <2>2
<1>7. CASE /\ p < Len(text) /\ TokenEnd(text, p + 1) = p + 1
           /\ m' = [back EXCEPT !.pos = Skipped(text, p + 1)]
           /\ params' = Top.params /\ stack' = s /\ pc' = "null"
  <2>1. p + 1 \in Places(text)
    BY <1>2, <1>3, <1>7 DEF Places
  <2>2. Skipped(text, p + 1) \in Places(text)
    BY <1>3, <2>1, SkippedStays
  <2>3. Ends(text, g, p) = {}
    <3>1. CASE p + 1 < Len(text)
      BY <1>4, <1>7, <3>1 DEF GoesOn
    <3>2. CASE p + 1 = Len(text)
      <4>1. ~GoesOn(text, p + 1)
        BY <1>3, <3>2 DEF GoesOn
      <4>2. Called(text, Tail(g), p + 1) = {}
        <5>1. Begin(text, Tail(g), p + 1) \in p + 1 .. Len(text)
          BY <1>3, <2>1, BeginFinds
        <5>2. ~(Begin(text, Tail(g), p + 1) < Len(text))
          BY <1>3, <3>2, <5>1
        <5> QED BY <5>2 DEF Called
      <4>3. Ends(text, g, p + 1) = {}
        <5>1. Ends(text, g, p + 1) = Called(text, Tail(g), p + 1)
                \cup IF GoesOn(text, p + 1) THEN Ends(text, g, (p + 1) + 1) ELSE {}
          <6> HIDE DEF g, p
          <6> QED BY <1>2, <1>3, <2>1, EndsByStar
        <5> QED BY <4>1, <4>2, <5>1
      <4> QED BY <1>4, <4>3
    <3>3. p + 1 \in Nat /\ p + 1 <= Len(text)
      BY <2>1 DEF Places
    <3> QED BY <1>3, <3>1, <3>2, <3>3
  <2> QED BY <1>5, <1>7, <2>2, <2>3
<1>8. CASE /\ p < Len(text) /\ (p + 1 < Len(text) => TokenEnd(text, p + 1) # p + 1)
           /\ m' = [back EXCEPT !.pos = p + 1]
           /\ params' = Tail(g) /\ stack' = WithTop([Top EXCEPT !.pos = p + 1])
           /\ pc' = "glob"
  <2> DEFINE f == [Top EXCEPT !.pos = p + 1]
  <2>1. p + 1 \in Places(text) /\ p + 1 \in Nat
    BY <1>2, <1>3, <1>8 DEF Places
  <2>2. Ends(text, g, p + 1) = Ends(text, g, p)
    BY <1>4, <1>8 DEF GoesOn
  <2>3. /\ f \in FramesOf(text) /\ f.glob = g /\ f.params = Top.params
        /\ f.startpos = Top.startpos /\ f.end_last = Top.end_last /\ f.pos = p + 1
    BY <1>2, <2>1 DEF FramesOf
  <2>4. stack' = Append(s, f)
    BY <1>8 DEF WithTop
  <2>5. text' = text /\ glob' = glob
    BY <1>1 DEF text, glob
  <2>6. Top.startpos <= p + 1
    BY <1>2, <2>1 DEF Places
  <2>7. /\ m' \in MinersOf(text) /\ m'.pos = p + 1 /\ m'.end_last = Top.end_last
    BY <1>2, <1>3, <1>8, <2>1 DEF MinersOf
  <2>8. params' = Tail(g) /\ pc' = "glob"
    BY <1>8
  <2> HIDE DEF f
  <2>9. CallWell(text, f, s, glob, mark) /\ WaitsWell(text, f)
    BY <1>2, <2>2, <2>3, <2>6 DEF CallWell, WaitsWell
  <2>10. /\ stack' \in Seq(FramesOf(text)) /\ stack' # <<>> /\ Last(stack') = f
    <3> HIDE DEF s
    <3> QED BY <1>2, <2>3, <2>4, PushStack
  <2>11. Calls(text, stack', glob, mark)
    <3> HIDE DEF s
    <3> QED BY <1>2, <2>3, <2>4, <2>9, PushCall
  <2>12. TypeOK' /\ StackInv'
    BY <1>1, <1>2, <2>5, <2>7, <2>8, <2>10 DEF GlobInv, TypeOK, StackInv
  <2>13. FramesWell' /\ Reading' /\ Answering'
    BY <1>1, <2>5, <2>8, <2>11 DEF FramesWell, Reading, Answering
  <2>14. Calling'
    <3>1. InnerGlob(stack', glob') = Tail(g) /\ InnerPlace(stack', mark') = p + 1
      BY <2>3, <2>10 DEF InnerGlob, InnerPlace
    <3> QED BY <1>1, <1>2, <2>7, <2>8, <2>10, <3>1 DEF Calling
  <2> QED BY <2>12, <2>13, <2>14 DEF GlobInv
<1>9. \/ /\ p = Len(text) /\ m' = back
         /\ params' = Top.params /\ stack' = s /\ pc' = "null"
      \/ /\ p < Len(text) /\ TokenEnd(text, p + 1) = p + 1
         /\ m' = [back EXCEPT !.pos = Skipped(text, p + 1)]
         /\ params' = Top.params /\ stack' = s /\ pc' = "null"
      \/ /\ p < Len(text) /\ (p + 1 < Len(text) => TokenEnd(text, p + 1) # p + 1)
         /\ m' = [back EXCEPT !.pos = p + 1]
         /\ params' = Tail(g) /\ stack' = WithTop([Top EXCEPT !.pos = p + 1])
         /\ pc' = "glob"
  BY DEF RestFailed, NextPlace
<1> QED BY <1>6, <1>7, <1>8, <1>9

\* The items are used up: the answer is whether a token ends here.
LEMMA EndOfGlobKeeps ==
  ASSUME GlobInv, EndOfGlob PROVE GlobInv'
<1> DEFINE marked == MarkEnd(m)
           behind == IF AtEnd(text, m) THEN marked ELSE Moved(marked, 1)
           here   == AtEnd(text, m) \/ Sees(text, m, Delimiters)
<1>1. pc = "items" /\ Top.glob = <<>> /\ stack' = Front(stack)
      /\ input' = input /\ params' = params /\ mark' = mark
  BY DEF EndOfGlob
<1>2. /\ text \in Seq(DOMAIN Lower) /\ Len(text) \in Nat /\ m \in MinersOf(text)
      /\ m.pos \in Places(text) /\ m.pos \in Nat /\ mark \in Nat /\ m.end_last \in Nat
  BY TypeFacts DEF GlobInv, TypeOK
<1>3. /\ stack # <<>> /\ Calls(text, Front(stack), glob, mark)
      /\ CallWell(text, Top, Front(stack), glob, mark)
      /\ params = Top.params
      /\ Called(text, params, InnerPlace(Front(stack), mark)) = Ends(text, <<>>, m.pos)
      /\ Top.startpos \in Nat /\ mark <= Top.startpos /\ Top.startpos <= m.pos
      /\ m.end_last <= mark
      /\ m.start = IF params = <<>> THEN Unmarked ELSE Top.startpos
  BY <1>1, ReadingFacts
<1>4. Ends(text, <<>>, m.pos) = IF here THEN {m.pos} ELSE {}
  <2>1. TokenEnd(text, m.pos) = m.pos <=> (m.pos = Len(text) \/ text[m.pos + 1] \in Delimiters)
    BY <1>2, TokenEndsHere
  <2>2. here <=> (m.pos = Len(text) \/ text[m.pos + 1] \in Delimiters)
    BY <1>2 DEF AtEnd, Sees, Places
  <2> HIDE DEF here
  <2> QED BY <1>2, <2>1, <2>2, EndsOfNothing
<1>5. /\ marked \in MinersOf(text) /\ marked.end = m.pos /\ marked.start = m.start
      /\ marked.pos = m.pos
  BY <1>2, <1>3 DEF MarkEnd, MayMark, MinersOf
<1>6. params # <<>> => Top.startpos < m.pos
  <2>1. Top.startpos < m.pos \/ Top.glob = params
    BY <1>1 DEF GlobInv, Reading
  <2> QED BY <1>1, <2>1
<1>7. MayMake(marked, FALSE) <=> params # <<>>
  <2> HIDE DEF marked
  <2>1. CASE params = <<>>
    BY <1>3, <1>5, <2>1 DEF MayMake
  <2>2. CASE params # <<>>
    BY <1>2, <1>3, <1>5, <1>6, <2>2, UnmarkedAssumption DEF MayMake
  <2> QED BY <2>1, <2>2
<1>8. CASE here
  <2>1. /\ m' = IF MayMake(marked, FALSE) THEN Made(behind) ELSE behind
        /\ pc' = IF MayMake(marked, FALSE) THEN "made" ELSE "null"
    BY <1>8 DEF EndOfGlob
  <2>2. /\ behind \in MinersOf(text) /\ behind.end = m.pos /\ behind.start = m.start
    <3>1. ~AtEnd(text, m) => m.pos + 1 \in Places(text)
      BY <1>2 DEF AtEnd, Places
    <3>2. ~AtEnd(text, m) => behind = [marked EXCEPT !.pos = m.pos + 1]
      <4> HIDE DEF marked
      <4> QED BY <1>5 DEF Moved
    <3> HIDE DEF marked
    <3> QED BY <1>5, <3>1, <3>2 DEF MinersOf
  <2>3. Made(behind) \in MinersOf(text) /\ Made(behind).end = m.pos
        /\ Made(behind).start = m.start
    <3> HIDE DEF behind
    <3> QED BY <1>2, <2>2 DEF Made, MinersOf
  <2> HIDE DEF behind, marked
  <2>4. m' \in MinersOf(text) /\ m'.end = m.pos /\ m'.start = m.start
    BY <2>1, <2>2, <2>3
  <2>5. pc' \in {"null", "made"} /\ (pc' = "made" <=> params # <<>>)
    BY <1>7, <2>1
  <2>6. m.pos \in Called(text, params, InnerPlace(Front(stack), mark))
    BY <1>3, <1>4, <1>8
  <2>7. pc' = "made" => /\ m'.end \in Called(text, params', InnerPlace(Front(stack), mark))
                        /\ m'.start = Top.startpos /\ Top.startpos < m'.end
    BY <1>1, <1>3, <1>6, <2>4, <2>5, <2>6
  <2>8. pc' = "null" => params' = <<>>
    BY <1>1, <2>5
  <2> QED BY <1>1, <1>3, <2>4, <2>5, <2>7, <2>8, ReturnKeeps
<1>9. CASE ~here
  <2>1. m' = [marked EXCEPT !.pos = Skipped(text, m.pos)] /\ pc' = "null"
    BY <1>9 DEF EndOfGlob
  <2>2. m' \in MinersOf(text)
    <3>1. Skipped(text, m.pos) \in Places(text)
      BY <1>2, SkippedStays
    <3> HIDE DEF marked
    <3> QED BY <1>5, <2>1, <3>1, MinerMoves
  <2>3. Called(text, params', InnerPlace(Front(stack), mark)) = {}
    BY <1>1, <1>3, <1>4, <1>9
  <2> QED BY <1>1, <1>3, <2>1, <2>2, <2>3, ReturnKeeps
<1> QED BY <1>8, <1>9

-----------------------------------------------------------------------------
\* The matchers keep the invariant.
LEMMA GlobStep == GlobInv /\ [Next]_vars => GlobInv'
<1> SUFFICES ASSUME GlobInv, [Next]_vars PROVE GlobInv'
  OBVIOUS
<1>1. CASE Skip \/ Run \/ Returned \/ MatchNamedEntity
  BY <1>1, LoopKeeps
<1>2. CASE CallGlob
  BY <1>2, CallGlobKeeps
<1>3. CASE TakeSymbol
  BY <1>3, TakeSymbolKeeps
<1>4. CASE Mismatch
  BY <1>4, MismatchKeeps
<1>5. CASE LastStar
  BY <1>5, LastStarKeeps
<1>6. CASE CallRest
  BY <1>6, CallRestKeeps
<1>7. CASE RestFound
  BY <1>7, RestFoundKeeps
<1>8. CASE RestFailed
  BY <1>8, RestFailedKeeps
<1>9. CASE EndOfGlob
  BY <1>9, EndOfGlobKeeps
<1>10. CASE UNCHANGED vars
  BY <1>10
     DEF vars, GlobInv, TypeOK, StackInv, FramesWell, Reading, Calling, Answering,
         Top, text, glob
<1> QED
  BY <1>1, <1>2, <1>3, <1>4, <1>5, <1>6, <1>7, <1>8, <1>9, <1>10 DEF Next

\* GlobInv is an invariant of the matchers.
THEOREM GlobInvariance == Spec => []GlobInv
<1> QED BY GlobInit, GlobStep, PTL DEF Spec

\* The answer to the outermost call is what GlobAnswers asks for.
LEMMA InvAnswers == GlobInv => GlobAnswers
<1> SUFFICES ASSUME GlobInv, Answered, input.matcher = "glob"
             PROVE  LET begin == Begin(text, glob, mark)
                        ends  == {e \in Reach(text, glob, begin) :
                                    e > begin /\ TokenEnd(text, e) = e}
                    IN /\ params = glob
                       /\ pc = "made" => m.start = begin /\ m.end \in ends
                       /\ pc = "null" => ends = {}
  BY DEF GlobAnswers
<1> DEFINE begin == Begin(text, glob, mark)
<1>1. /\ text \in Seq(DOMAIN Lower) /\ Len(text) \in Nat /\ glob \in Seq(Items)
      /\ mark \in Places(text)
  BY TypeFacts DEF GlobInv
<1>2. stack = <<>> /\ params = glob
  BY DEF Answered, GlobInv, StackInv
<1>3. /\ pc = "null" => glob = <<>> \/ Called(text, glob, mark) = {}
      /\ pc = "made" => /\ m.end \in Called(text, glob, mark)
                        /\ begin < m.end /\ m.start = begin
  BY <1>2 DEF GlobInv, Answering, InnerGlob, InnerPlace
<1>4. begin \in Places(text) /\ begin \in Nat
  BY <1>1, BeginFinds DEF Places
<1>5. Reach(text, glob, begin) \subseteq Places(text)
  <2> HIDE DEF begin
  <2> QED BY <1>1, <1>4, ReachStays
<1>6. CASE pc = "made"
  <2>1. m.end \in Ends(text, glob, begin)
    BY <1>3, <1>6 DEF Called
  <2> HIDE DEF begin
  <2>2. m.end \in Reach(text, glob, begin) /\ TokenEnd(text, m.end) = m.end
    BY <2>1 DEF Ends
  <2>3. m.end \in Nat
    BY <1>5, <2>2 DEF Places
  <2>4. m.end > begin
    BY <1>3, <1>4, <1>6, <2>3
  <2> QED BY <1>2, <1>3, <1>6, <2>2, <2>4 DEF begin
<1>7. CASE pc = "null"
  <2>1. ASSUME NEW e \in Reach(text, glob, begin), e > begin, TokenEnd(text, e) = e
        PROVE  FALSE
    <3>1. CASE glob = <<>>
      <4>1. Reach(text, <<>>, begin) = {begin}
        <5> HIDE DEF begin
        <5> QED BY <1>1, <1>4, ReachNothing
      <4>2. e = begin
        BY <2>1, <3>1, <4>1
      <4> HIDE DEF begin
      <4> QED BY <1>4, <2>1, <4>2
    <3>2. CASE Called(text, glob, mark) = {}
      <4>1. e \in Ends(text, glob, begin)
        BY <2>1 DEF Ends
      <4>2. e \in Nat /\ e <= Len(text)
        BY <1>5, <2>1 DEF Places
      <4>3. begin < Len(text)
        <5> HIDE DEF begin
        <5> QED BY <1>1, <1>4, <2>1, <4>2
      <4> QED BY <3>2, <4>1, <4>3 DEF Called
    <3> QED BY <1>3, <1>7, <3>1, <3>2
  <2> QED BY <1>2, <1>7, <2>1
<1> QED BY <1>2, <1>6, <1>7

\* A run of match_glob_impl answers NULL if and only if the glob fits no stretch
\* of the text from the next token to the end of a token, and else one of
\* these: for every text and glob, however deep the calls for what follows a *
\* are and however many of them fail.
THEOREM GlobsAnswerTruly == Spec => []GlobAnswers
<1> QED BY GlobInvariance, InvAnswers, PTL

-----------------------------------------------------------------------------
(* The tokens of a text, and what a scan has found of them *)

\* A token may begin here.
OnBorder(t, p) == p = 0 \/ p = Len(t) \/ t[p] \in Delimiters

\* The matcher of names goes on here.
OnSpace(t, p) == p = 0 \/ p = Len(t) \/ t[p + 1] \in Spaces

\* What is to be found before a place
TokensTo(t, g, p) ==
  {s \in Stretches(t, Delimiters) : s.start < p /\ Fits(g, Word(t, s))}

\* The names among some stretches between spaces, and those before a place
NamesAmong(t, stretches) ==
  {s \in {NamedFrom(t, x) : x \in stretches} : s.start < s.end /\ Resembles(Word(t, s))}

NamesTo(t, p) == NamesAmong(t, {y \in Stretches(t, Spaces) : y.start < p})

Span(b, e) == [start |-> b, end |-> e]

\* From b to e goes a stretch, and no other one starts up to e.
LEMMA OneStretch ==
  ASSUME NEW T, NEW t \in Seq(T), NEW symbols, NEW b \in Places(t), NEW e \in Places(t), b < e,
         \A k \in b + 1 .. e : t[k] \notin symbols,
         b = 0 \/ t[b] \in symbols, e = Len(t) \/ t[e + 1] \in symbols
  PROVE  /\ Span(b, e) \in Stretches(t, symbols)
         /\ \A s \in Stretches(t, symbols) : s.start \in b .. e => s = Span(b, e)
<1>1. Len(t) \in Nat /\ b \in Nat /\ e \in Nat /\ e <= Len(t)
  BY LenProperties DEF Places
<1>2. Span(b, e) \in Stretches(t, symbols)
  BY DEF Stretches, Places, Span
<1>3. ASSUME NEW s \in Stretches(t, symbols), s.start \in b .. e
      PROVE  s = Span(b, e)
  <2>1. /\ s \in [start : 0 .. Len(t), end : 0 .. Len(t)] /\ s.start < s.end
        /\ \A k \in s.start + 1 .. s.end : t[k] \notin symbols
        /\ s.start = 0 \/ t[s.start] \in symbols
        /\ s.end = Len(t) \/ t[s.end + 1] \in symbols
    BY <1>3 DEF Stretches
  <2>2. s.start \in Nat /\ s.end \in Nat /\ s.end <= Len(t) /\ s = Span(s.start, s.end)
    BY <1>1, <2>1 DEF Span
  <2>3. s.start = b
    <3>1. CASE s.start > b
      <4>1. s.start \in b + 1 .. e /\ s.start # 0
        BY <1>1, <1>3, <2>2, <3>1
      <4> QED BY <2>1, <4>1
    <3> QED BY <1>1, <1>3, <2>2, <3>1
  <2>4. s.end = e
    <3>1. CASE s.end < e
      <4>1. s.end + 1 \in b + 1 .. e /\ s.end # Len(t)
        BY <1>1, <2>1, <2>2, <2>3, <3>1
      <4> QED BY <2>1, <4>1
    <3>2. CASE s.end > e
      <4>1. e + 1 \in s.start + 1 .. s.end /\ e # Len(t)
        BY <1>1, <2>2, <2>3, <3>2
      <4> QED BY <2>1, <4>1
    <3> QED BY <1>1, <2>2, <3>1, <3>2
  <2> QED BY <2>2, <2>3, <2>4
<1> QED BY <1>2, <1>3

\* A stretch is in the text and starts in front of a symbol that is not in the set.
LEMMA StretchStarts ==
  ASSUME NEW T, NEW t \in Seq(T), NEW symbols, NEW s \in Stretches(t, symbols)
  PROVE  /\ s.start \in Nat /\ s.end \in Nat /\ s.start < s.end /\ s.end <= Len(t)
         /\ t[s.start + 1] \notin symbols /\ s = Span(s.start, s.end)
<1>1. /\ s \in [start : 0 .. Len(t), end : 0 .. Len(t)] /\ s.start < s.end
      /\ \A k \in s.start + 1 .. s.end : t[k] \notin symbols
  BY DEF Stretches
<1>2. Len(t) \in Nat
  BY LenProperties
<1>3. s.start + 1 \in s.start + 1 .. s.end
  BY <1>1, <1>2
<1> QED BY <1>1, <1>2, <1>3 DEF Span

\* The symbols of a word.
LEMMA WordOf ==
  ASSUME NEW T, NEW t \in Seq(T), NEW b \in Places(t), NEW e \in Places(t), b <= e
  PROVE  /\ Word(t, Span(b, e)) = SubSeq(t, b + 1, e)
         /\ Len(Word(t, Span(b, e))) = e - b
         /\ \A i \in 1 .. e - b : Word(t, Span(b, e))[i] = t[b + i]
<1>1. Len(t) \in Nat /\ b \in Nat /\ e \in Nat /\ e <= Len(t)
  BY LenProperties DEF Places
<1>2. Word(t, Span(b, e)) = SubSeq(t, b + 1, e)
  BY DEF Word, Span
<1>3. b + 1 \in Nat /\ \A i \in b + 1 .. e : t[i] \in T
  BY <1>1
<1>4. /\ Len(SubSeq(t, b + 1, e)) = IF b + 1 <= e THEN e - (b + 1) + 1 ELSE 0
      /\ \A i \in 1 .. e - (b + 1) + 1 : SubSeq(t, b + 1, e)[i] = t[(b + 1) + i - 1]
  <2> DEFINE a == b + 1
  <2> HIDE DEF a
  <2>1. a \in Nat /\ \A i \in a .. e : t[i] \in T
    BY <1>3 DEF a
  <2>2. /\ Len(SubSeq(t, a, e)) = IF a <= e THEN e - a + 1 ELSE 0
        /\ \A i \in 1 .. e - a + 1 : SubSeq(t, a, e)[i] = t[a + i - 1]
    BY <1>1, <2>1, SubSeqProperties
  <2> QED BY <2>2 DEF a
<1>5. e - (b + 1) + 1 = e - b /\ \A i \in 1 .. e - b : (b + 1) + i - 1 = b + i
  BY <1>1
<1> QED BY <1>1, <1>2, <1>4, <1>5

\* Where no token starts that fits, nothing more is to be found.
LEMMA NoToken ==
  ASSUME NEW T, NEW t \in Seq(T), NEW g, NEW p \in Places(t), NEW q \in Places(t), p <= q,
         \A s \in Stretches(t, Delimiters) : s.start \in p .. q - 1 => ~Fits(g, Word(t, s))
  PROVE  TokensTo(t, g, q) = TokensTo(t, g, p)
<1>1. p \in Nat /\ q \in Nat
  BY DEF Places
<1>2. ASSUME NEW s \in Stretches(t, Delimiters), Fits(g, Word(t, s))
      PROVE  s.start < q <=> s.start < p
  <2>1. s.start \in Nat
    BY StretchStarts
  <2>2. ~(s.start \in p .. q - 1)
    BY <1>2
  <2> QED BY <1>1, <2>1, <2>2
<1> QED BY <1>2 DEF TokensTo

\* In front of delimiters none does.
LEMMA NoTokenInDelimiters ==
  ASSUME NEW T, NEW t \in Seq(T), NEW g, NEW p \in Places(t), NEW q \in Places(t), p <= q,
         \A k \in p .. q - 1 : t[k + 1] \in Delimiters
  PROVE  TokensTo(t, g, q) = TokensTo(t, g, p)
<1>1. ASSUME NEW s \in Stretches(t, Delimiters) PROVE ~(s.start \in p .. q - 1)
  BY StretchStarts
<1> QED BY <1>1, NoToken

\* What is to be found is one token more if that fits.
LEMMA OneToken ==
  ASSUME NEW T, NEW t \in Seq(T), NEW g, NEW b \in Places(t), NEW e \in Places(t), b < e,
         NEW q \in Places(t), b < q, q <= e + 1,
         \A k \in b + 1 .. e : t[k] \notin Delimiters,
         OnBorder(t, b), TokenEnd(t, e) = e
  PROVE  TokensTo(t, g, q) =
           TokensTo(t, g, b) \cup IF Fits(g, Word(t, Span(b, e))) THEN {Span(b, e)} ELSE {}
<1>1. Len(t) \in Nat /\ b \in Nat /\ e \in Nat /\ e <= Len(t) /\ q \in Nat
  BY LenProperties DEF Places
<1>2. (b = 0 \/ t[b] \in Delimiters) /\ (e = Len(t) \/ t[e + 1] \in Delimiters)
  BY <1>1, TokenEndsHere DEF OnBorder
<1>3. /\ Span(b, e) \in Stretches(t, Delimiters)
      /\ \A s \in Stretches(t, Delimiters) : s.start \in b .. e => s = Span(b, e)
  BY <1>2, OneStretch
<1>4. ASSUME NEW s \in Stretches(t, Delimiters)
      PROVE  s.start < q <=> s.start < b \/ s = Span(b, e)
  <2>1. s.start \in Nat
    BY StretchStarts
  <2>2. CASE s = Span(b, e)
    BY <1>1, <2>2 DEF Span
  <2>3. CASE s # Span(b, e)
    <3>1. ~(s.start \in b .. e)
      BY <1>3, <2>3
    <3> QED BY <1>1, <2>1, <2>3, <3>1
  <2> QED BY <2>2, <2>3
<1> HIDE DEF Span
<1>5. \A s : s \in TokensTo(t, g, q) <=>
               s \in TokensTo(t, g, b) \/ (s = Span(b, e) /\ Fits(g, Word(t, Span(b, e))))
  BY <1>3, <1>4 DEF TokensTo
<1> QED BY <1>5

-----------------------------------------------------------------------------
(* How far a glob without a * inside has taken a token *)

\* The items of glob g in front of the rest have taken the symbols of t from b
\* to p, all of one token.
Taken(t, g, rest, b, p) ==
  LET k == Len(g) - Len(rest)
  IN /\ Len(rest) <= Len(g) /\ \A i \in 1 .. Len(rest) : rest[i] = g[k + i]
     /\ \A q \in b + 1 .. p : t[q] \notin Delimiters
     /\ \A i \in 1 .. k : g[i] # Star => b + i <= p /\ Takes(g[i], t[b + i])
     /\ \/ p = b + k /\ \A i \in 1 .. k : g[i] # Star
        \/ /\ rest = <<>> /\ Last(g) = Star
           /\ b + k - 1 <= p /\ TokenEnd(t, p) = p

\* An item of a simple glob takes no delimiter.
LEMMA SimpleTakes ==
  ASSUME NEW g \in Seq(Items), Simple(g), NEW i \in 1 .. Len(g),
         NEW c \in DOMAIN Lower, Takes(g[i], c)
  PROVE  c \notin Delimiters
<1>1. g[i] \in Items /\ g[i].symbols \cap Delimiters = {}
  BY DEF Simple
<1>2. CASE g[i] = AnyOne
  BY <1>2 DEF Takes
<1>3. CASE g[i] # AnyOne
  <2>1. PICK s \in g[i].symbols : Lower[s] = Lower[c]
    BY <1>3 DEF Takes
  <2>2. s \in DOMAIN Lower
    BY <1>1 DEF Items
  <2> QED BY <1>1, <2>1, <2>2, CaseAssumption
<1> QED BY <1>2, <1>3

\* The rest of a glob: its first item, and what follows that.
LEMMA RestItems ==
  ASSUME NEW S, NEW rest \in Seq(S), rest # <<>>
  PROVE  /\ Len(rest) \in Nat \ {0} /\ Head(rest) = rest[1] /\ Len(Tail(rest)) = Len(rest) - 1
         /\ Tail(rest) \in Seq(S) /\ \A i \in 1 .. Len(rest) - 1 : Tail(rest)[i] = rest[i + 1]
<1>1. Len(rest) \in Nat \ {0}
  BY EmptySeq
<1> QED BY <1>1, HeadTailProperties

\* Before anything is taken.
LEMMA TakenNothing ==
  ASSUME NEW T, NEW t \in Seq(T), NEW g \in Seq(Items), NEW b \in Places(t)
  PROVE  Taken(t, g, g, b, b)
<1>1. Len(g) \in Nat /\ b \in Nat
  BY LenProperties DEF Places
<1>2. Len(g) - Len(g) = 0 /\ b + 1 .. b = {} /\ 1 .. 0 = {}
  BY <1>1
<1> QED BY <1>1, <1>2 DEF Taken

\* One more symbol.
LEMMA TakenSymbol ==
  ASSUME NEW t \in Seq(DOMAIN Lower), NEW g \in Seq(Items), Simple(g), NEW rest \in Seq(Items),
         NEW b \in Places(t), NEW p \in Places(t), Taken(t, g, rest, b, p),
         rest # <<>>, Head(rest) # Star, p < Len(t), Takes(Head(rest), t[p + 1])
  PROVE  Taken(t, g, Tail(rest), b, p + 1)
<1> DEFINE k == Len(g) - Len(rest)
           l == Len(g) - Len(Tail(rest))
<1>1. /\ Len(rest) \in Nat \ {0} /\ Head(rest) = rest[1] /\ Len(Tail(rest)) = Len(rest) - 1
      /\ \A i \in 1 .. Len(rest) - 1 : Tail(rest)[i] = rest[i + 1]
  BY RestItems
<1>2. Len(g) \in Nat /\ b \in Nat /\ p \in Nat /\ Len(t) \in Nat
  BY LenProperties DEF Places
<1>3. /\ Len(rest) <= Len(g) /\ \A i \in 1 .. Len(rest) : rest[i] = g[k + i]
      /\ \A q \in b + 1 .. p : t[q] \notin Delimiters
      /\ \A i \in 1 .. k : g[i] # Star => b + i <= p /\ Takes(g[i], t[b + i])
      /\ p = b + k /\ \A i \in 1 .. k : g[i] # Star
  BY DEF Taken
<1>4. k \in Nat /\ l = k + 1 /\ k + 1 \in 1 .. Len(g)
  BY <1>1, <1>2, <1>3
<1>5. Head(rest) = g[k + 1]
  <2>1. 1 \in 1 .. Len(rest)
    BY <1>1
  <2> QED BY <1>1, <1>3, <2>1
<1> HIDE DEF k, l
<1>6. t[p + 1] \in DOMAIN Lower
  BY <1>2
<1>7. t[p + 1] \notin Delimiters
  BY <1>4, <1>5, <1>6, SimpleTakes
<1>8. \A q \in b + 1 .. p + 1 : t[q] \notin Delimiters
  <2>1. ASSUME NEW q \in b + 1 .. p + 1 PROVE q \in b + 1 .. p \/ q = p + 1
    BY <1>2
  <2> QED BY <1>3, <1>7, <2>1
<1>9. ASSUME NEW i \in 1 .. l PROVE g[i] # Star /\ b + i <= p + 1 /\ Takes(g[i], t[b + i])
  <2>1. CASE i = k + 1
    <3>1. b + i = p + 1
      BY <1>2, <1>3, <1>4, <2>1
    <3> QED BY <1>2, <1>5, <2>1, <3>1
  <2>2. CASE i # k + 1
    <3>1. i \in 1 .. k
      BY <1>4, <2>2
    <3> QED BY <1>2, <1>3, <3>1
  <2> QED BY <2>1, <2>2
<1>10. ASSUME NEW i \in 1 .. Len(Tail(rest)) PROVE Tail(rest)[i] = g[l + i]
  <2>1. i \in 1 .. Len(rest) - 1 /\ i + 1 \in 1 .. Len(rest) /\ k + (i + 1) = l + i
    BY <1>1, <1>4
  <2> QED BY <1>1, <1>3, <2>1
<1>11. Len(Tail(rest)) <= Len(g) /\ p + 1 = b + l
  BY <1>1, <1>2, <1>3, <1>4
<1> QED BY <1>8, <1>9, <1>10, <1>11 DEF Taken, l

\* A * that ends the glob.
LEMMA TakenLastStar ==
  ASSUME NEW t \in Seq(DOMAIN Lower), NEW g \in Seq(Items), NEW rest \in Seq(Items),
         NEW b \in Places(t), NEW p \in Places(t), Taken(t, g, rest, b, p),
         Head(rest) = Star, Len(rest) = 1
  PROVE  Taken(t, g, <<>>, b, TokenEnd(t, p))
<1> DEFINE n == Len(g)
           e == TokenEnd(t, p)
<1>1. rest # <<>>
  <2>1. Len(<<>>) = 0 /\ Len(rest) # 0
    OBVIOUS
  <2> QED BY <2>1
<1>2. n \in Nat /\ b \in Nat /\ p \in Nat /\ Len(t) \in Nat
  BY LenProperties DEF Places
<1>3. /\ n >= 1 /\ rest[1] = g[n - 1 + 1]
      /\ \A q \in b + 1 .. p : t[q] \notin Delimiters
      /\ \A i \in 1 .. n - 1 : g[i] # Star => b + i <= p /\ Takes(g[i], t[b + i])
      /\ p = b + (n - 1)
  <2>1. 1 \in 1 .. Len(rest) /\ Len(rest) <= n
    BY DEF Taken
  <2> QED BY <1>1, <1>2, <2>1 DEF Taken
<1>4. g[n] = Star
  <2>1. n - 1 + 1 = n
    BY <1>2
  <2> QED BY <1>1, <1>3, <2>1, RestItems
<1>5. Last(g) = Star
  BY <1>4 DEF Last
<1>6. /\ e \in p .. Len(t) /\ TokenEnd(t, e) = e
      /\ \A q \in p .. e - 1 : t[q + 1] \notin Delimiters
  BY TokenEndFinds, TokenEndsHere
<1> HIDE DEF n, e
<1>7. ASSUME NEW q \in b + 1 .. e PROVE t[q] \notin Delimiters
  <2>1. CASE q <= p
    BY <1>2, <1>3, <2>1
  <2>2. CASE q > p
    <3>1. q - 1 \in p .. e - 1 /\ (q - 1) + 1 = q
      BY <1>2, <1>6, <2>2
    <3> QED BY <1>6, <3>1
  <2> QED BY <1>2, <2>1, <2>2
<1>8. ASSUME NEW i \in 1 .. n, g[i] # Star PROVE b + i <= e /\ Takes(g[i], t[b + i])
  <2>1. i \in 1 .. n - 1
    BY <1>2, <1>4, <1>8
  <2>2. b + i <= p /\ Takes(g[i], t[b + i])
    BY <1>3, <1>8, <2>1
  <2> QED BY <1>2, <1>6, <2>2
<1>9. Len(<<>>) = 0 /\ n - 0 = n /\ b + n - 1 <= e /\ 0 <= n /\ 1 .. 0 = {}
  BY <1>2, <1>3, <1>6
<1> QED BY <1>5, <1>6, <1>7, <1>8, <1>9 DEF Taken, n, e

\* The glob takes a whole token.
LEMMA TakenFits ==
  ASSUME NEW t \in Seq(DOMAIN Lower), NEW g \in Seq(Items), g # <<>>,
         NEW b \in Places(t), NEW p \in Places(t), Taken(t, g, <<>>, b, p), b < p
  PROVE  Fits(g, Word(t, Span(b, p)))
<1> DEFINE n == Len(g)
           w == Word(t, Span(b, p))
<1>1. n \in Nat /\ b \in Nat /\ p \in Nat /\ Len(t) \in Nat
  BY LenProperties DEF Places
<1>2. Len(w) = p - b /\ \A i \in 1 .. p - b : w[i] = t[b + i]
  <2>1. b <= p
    BY <1>1
  <2> QED BY <2>1, WordOf
<1>3. /\ \A i \in 1 .. n : g[i] # Star => b + i <= p /\ Takes(g[i], t[b + i])
      /\ p = b + n \/ (Last(g) = Star /\ b + n - 1 <= p)
  <2>1. Len(<<>>) = 0 /\ n - 0 = n
    BY <1>1
  <2> QED BY <2>1 DEF Taken
<1>4. DOMAIN g = 1 .. n
  OBVIOUS
<1> HIDE DEF n, w
<1>5. Len(w) = n \/ (Last(g) = Star /\ Len(w) >= n - 1)
  BY <1>1, <1>2, <1>3
<1>6. ASSUME NEW i \in 1 .. n, g[i] # Star PROVE Takes(g[i], w[i])
  <2>1. b + i <= p /\ Takes(g[i], t[b + i])
    BY <1>3, <1>6
  <2>2. i \in 1 .. p - b
    BY <1>1, <2>1
  <2> QED BY <1>2, <2>1, <2>2
<1> QED BY <1>4, <1>5, <1>6 DEF Fits, n, w

\* Where the glob fits no further, or its token goes on behind it, the token does
\* not fit, and the next one is behind the delimiter that is skipped.
LEMMA TakenNoMore ==
  ASSUME NEW t \in Seq(DOMAIN Lower), NEW g \in Seq(Items), Simple(g), NEW rest \in Seq(Items),
         NEW b \in Places(t), NEW p \in Places(t), Taken(t, g, rest, b, p),
         OnBorder(t, b), b <= p, b < Len(t),
         \/ /\ rest # <<>> /\ Head(rest) # Star
            /\ ~(p < Len(t) /\ Takes(Head(rest), t[p + 1]))
         \/ rest = <<>> /\ TokenEnd(t, p) # p
  PROVE  /\ TokensTo(t, g, Skipped(t, p)) = TokensTo(t, g, b)
         /\ p <= Skipped(t, p) /\ b < Skipped(t, p) /\ OnBorder(t, Skipped(t, p))
<1> DEFINE n == Len(g)
           k == n - Len(rest)
           e == TokenEnd(t, p)
           q == Skipped(t, p)
<1>1. /\ n \in Nat \ {0} /\ Len(rest) \in Nat /\ b \in Nat /\ p \in Nat /\ p <= Len(t)
      /\ Len(t) \in Nat
  <2>1. g # <<>>
    BY DEF Simple
  <2> QED BY <2>1, LenProperties, EmptySeq DEF Places
<1>2. /\ Len(rest) <= n /\ \A i \in 1 .. Len(rest) : rest[i] = g[k + i]
      /\ \A j \in b + 1 .. p : t[j] \notin Delimiters
      /\ p = b + k /\ \A i \in 1 .. k : g[i] # Star
  BY DEF Taken
<1>3. /\ e \in p .. Len(t)
      /\ e < Len(t) => t[e + 1] \in Delimiters
      /\ \A j \in p .. e - 1 : t[j + 1] \notin Delimiters
      /\ TokenEnd(t, e) = e /\ (e = p <=> (p = Len(t) \/ t[p + 1] \in Delimiters))
  BY TokenEndFinds, TokenEndsHere
<1>4. q = IF e < Len(t) THEN e + 1 ELSE Len(t)
  BY DEF Skipped
<1> HIDE DEF n, k, e, q
<1>5. k \in Nat /\ e \in Nat /\ e <= Len(t) /\ e \in Places(t)
  BY <1>1, <1>2, <1>3 DEF Places, k
<1>6. q \in Places(t) /\ b < q /\ p <= q /\ q <= e + 1 /\ q \in Nat
  BY <1>1, <1>3, <1>4, <1>5 DEF Places
<1>7. OnBorder(t, q)
  BY <1>3, <1>4, <1>5 DEF OnBorder
<1>8. CASE e = b
  <2>1. e = p /\ e < Len(t) /\ q = b + 1
    BY <1>1, <1>3, <1>4, <1>8
  <2>2. \A j \in b .. q - 1 : t[j + 1] \in Delimiters
    <3>1. p = b /\ p # Len(t)
      BY <1>1, <1>8, <2>1
    <3>2. t[b + 1] \in Delimiters
      BY <1>3, <2>1, <3>1
    <3>3. \A j \in b .. q - 1 : j = b
      BY <1>1, <2>1
    <3> QED BY <3>2, <3>3
  <2>3. b <= q
    BY <1>1, <1>6
  <2>4. TokensTo(t, g, q) = TokensTo(t, g, b)
    BY <1>6, <2>2, <2>3, NoTokenInDelimiters
  <2> QED BY <1>6, <1>7, <2>4 DEF q
<1>9. CASE e # b
  <2> DEFINE w == Word(t, Span(b, e))
  <2>1. b < e
    BY <1>1, <1>3, <1>5, <1>9
  <2>2. b <= e
    BY <1>1, <1>5, <2>1
  <2>3. Len(w) = e - b /\ \A i \in 1 .. e - b : w[i] = t[b + i]
    BY <1>5, <2>2, WordOf
  <2> HIDE DEF w
  <2>4. ASSUME Fits(g, w) PROVE FALSE
    <3>1. /\ Len(w) = n \/ (Last(g) = Star /\ Len(w) >= n - 1)
          /\ \A i \in 1 .. n : i <= Len(w) /\ g[i] # Star => Takes(g[i], w[i])
      BY <2>4 DEF Fits, n
    <3>2. Last(g) = g[n]
      BY DEF Last, n
    <3>3. CASE rest = <<>>
      <4>1. k = n /\ p < e
        <5>1. Len(<<>>) = 0
          OBVIOUS
        <5>2. e # p
          BY <3>3 DEF e
        <5> QED BY <1>1, <1>3, <1>5, <3>3, <5>1, <5>2 DEF k
      <4>2. n \in 1 .. k
        BY <1>1, <4>1
      <4>3. g[n] # Star
        BY <1>2, <4>2
      <4> QED BY <1>1, <1>2, <1>5, <2>3, <3>1, <3>2, <4>1, <4>3
    <3>4. CASE rest # <<>>
      <4>1. Len(rest) # 0 /\ rest[1] # Star /\ ~(p < Len(t) /\ Takes(rest[1], t[p + 1]))
        BY <3>4, RestItems
      <4>2. 1 \in 1 .. Len(rest) /\ k + 1 \in 1 .. n
        BY <1>1, <1>2, <1>5, <4>1 DEF k
      <4>3. rest[1] = g[k + 1]
        BY <1>2, <4>2
      <4>4. CASE p < e
        <5>1. k + 1 \in 1 .. e - b /\ b + (k + 1) = p + 1 /\ p < Len(t)
          BY <1>1, <1>2, <1>3, <1>5, <4>4
        <5>2. w[k + 1] = t[p + 1] /\ k + 1 <= Len(w)
          BY <1>1, <1>5, <2>3, <5>1
        <5>3. Takes(g[k + 1], w[k + 1])
          BY <3>1, <4>1, <4>2, <4>3, <5>2
        <5> QED BY <4>1, <4>3, <5>1, <5>2, <5>3
      <4>5. CASE p = e
        <5>1. Len(w) = k
          BY <1>1, <1>2, <1>5, <2>3, <4>5
        <5>2. k + 1 = n /\ Last(g) = Star
          BY <1>1, <1>5, <3>1, <4>2, <5>1
        <5> QED BY <3>2, <4>1, <4>3, <5>2
      <4> QED BY <1>1, <1>3, <1>5, <4>4, <4>5
    <3> QED BY <3>3, <3>4
  <2>5. \A j \in b + 1 .. e : t[j] \notin Delimiters
    <3> SUFFICES ASSUME NEW j \in b + 1 .. e PROVE t[j] \notin Delimiters
      OBVIOUS
    <3>1. CASE j <= p
      BY <1>1, <1>2, <1>5, <3>1
    <3>2. CASE j > p
      <4>1. j - 1 \in p .. e - 1 /\ (j - 1) + 1 = j
        BY <1>1, <1>5, <3>2
      <4> QED BY <1>3, <4>1
    <3> QED BY <1>1, <1>5, <3>1, <3>2
  <2>6. TokensTo(t, g, q) = TokensTo(t, g, b) \cup IF Fits(g, w) THEN {Span(b, e)} ELSE {}
    BY <1>3, <1>5, <1>6, <2>1, <2>5, OneToken DEF w
  <2>7. TokensTo(t, g, q) = TokensTo(t, g, b)
    BY <2>4, <2>6
  <2> QED BY <1>6, <1>7, <2>7 DEF q
<1> QED BY <1>8, <1>9

-----------------------------------------------------------------------------
(* A scan of a whole text *)

\* The scans that TokensFound is about
Whole == input.from = 0 /\ (input.matcher = "glob" => Simple(glob))

Border(p) == IF input.matcher = "glob" THEN OnBorder(text, p) ELSE OnSpace(text, p)

ToFind(p) == IF input.matcher = "glob" THEN TokensTo(text, glob, p) ELSE NamesTo(text, p)

Spans == [start : Nat \cup {Unmarked}, end : Nat \cup {Unmarked}]

\* What thread_fn has received once the run is over
Received == IF pc = "made" THEN Append(found, Span(m.start, m.end)) ELSE found

\* Nothing is marked behind the miner, and no end before there is an answer.
MarkedWell ==
  /\ m.end_last <= m.pos
  /\ m.end = Unmarked \/ (pc \in {"made", "null"} /\ m.end <= m.pos)

\* In the loop, and in a run until it has an answer, what is found is what there
\* is before the place the run began at, and the next run may begin.
LookingWell ==
  /\ pc = "loop" => m.pos_last <= m.pos
  /\ pc \in {"glob", "named"} => stack = <<>> /\ m.pos = mark
  /\ pc \in {"loop", "glob", "named"} => Border(m.pos) /\ ToSet(found) = ToFind(m.pos)

\* The one call of match_glob_impl reads on in one token.
TakingWell ==
  pc = "items" =>
    /\ Front(stack) = <<>>
    /\ OnBorder(text, Top.startpos) /\ ToSet(found) = ToFind(Top.startpos)
    /\ Taken(text, glob, Top.glob, Top.startpos, m.pos)

\* With its answer all is found up to where it stopped, which is further on.
StoppedWell ==
  pc \in {"made", "null"} =>
    stack = <<>> /\ mark < m.pos /\ Border(m.pos) /\ ToSet(Received) = ToFind(m.pos)

ScanWell == MarkedWell /\ LookingWell /\ TakingWell /\ StoppedWell

ScanInv == found \in Seq(Spans) /\ (Whole => ScanWell)

\* The elements of a sequence with one more.
LEMMA ToSetAppend ==
  ASSUME NEW S, NEW s \in Seq(S), NEW e \in S
  PROVE  /\ ToSet(Append(s, e)) = ToSet(s) \cup {e}
         /\ Append(s, e) \in Seq(S)
<1> DEFINE r == Append(s, e)
<1>1. /\ Len(s) \in Nat /\ r \in Seq(S) /\ Len(r) = Len(s) + 1
      /\ \A i \in 1 .. Len(s) : r[i] = s[i]
      /\ r[Len(s) + 1] = e
  BY PushStack
<1>2. DOMAIN r = 1 .. Len(r) /\ DOMAIN s = 1 .. Len(s)
  BY <1>1
<1> HIDE DEF r
<1>3. ASSUME NEW x PROVE x \in ToSet(r) <=> x \in ToSet(s) \cup {e}
  <2>1. ASSUME x \in ToSet(r) PROVE x \in ToSet(s) \cup {e}
    <3>1. PICK i \in 1 .. Len(s) + 1 : x = r[i]
      BY <1>1, <1>2, <2>1 DEF ToSet
    <3>2. CASE i = Len(s) + 1
      BY <1>1, <3>1, <3>2
    <3>3. CASE i # Len(s) + 1
      <4>1. i \in 1 .. Len(s)
        BY <1>1, <3>3
      <4> QED BY <1>1, <1>2, <3>1, <4>1 DEF ToSet
    <3> QED BY <3>2, <3>3
  <2>2. ASSUME x \in ToSet(s) PROVE x \in ToSet(r)
    <3>1. PICK i \in 1 .. Len(s) : x = s[i]
      BY <1>2, <2>2 DEF ToSet
    <3>2. i \in 1 .. Len(r) /\ r[i] = x
      BY <1>1, <3>1
    <3> QED BY <1>2, <3>2 DEF ToSet
  <2>3. e \in ToSet(r)
    <3>1. Len(s) + 1 \in 1 .. Len(r)
      BY <1>1
    <3> QED BY <1>1, <1>2, <3>1 DEF ToSet
  <2> QED BY <2>1, <2>2, <2>3
<1> QED BY <1>1, <1>3 DEF r

\* Before the text there is nothing to be found.
LEMMA NothingBefore ==
  ASSUME NEW T, NEW t \in Seq(T), NEW g
  PROVE  TokensTo(t, g, 0) = {} /\ NamesTo(t, 0) = {}
<1>1. ASSUME NEW symbols, NEW s \in Stretches(t, symbols) PROVE ~(s.start < 0)
  BY StretchStarts
<1>2. {y \in Stretches(t, Spaces) : y.start < 0} = {}
  BY <1>1
<1> QED BY <1>1, <1>2 DEF TokensTo, NamesTo, NamesAmong

\* Nothing is found before the first run, and nothing is there to be.
LEMMA ScanInit == Init => ScanInv
<1> SUFFICES ASSUME Init PROVE ScanInv
  OBVIOUS
<1>1. /\ input \in Inputs /\ m = MinerAt(input.from) /\ stack = <<>> /\ pc = "loop"
      /\ found = <<>> /\ text \in Seq(DOMAIN Lower) /\ input.from \in Nat
  BY InputsAssumption DEF Init, text
<1>2. ToSet(found) = {} /\ found \in Seq(Spans)
  BY <1>1 DEF ToSet
<1>3. m.pos = input.from /\ m.end_last = 0 /\ m.pos_last = 0 /\ m.end = Unmarked
  BY <1>1 DEF MinerAt
<1>4. ASSUME input.from = 0 PROVE Border(m.pos) /\ ToSet(found) = ToFind(m.pos)
  BY <1>1, <1>2, <1>3, <1>4, NothingBefore DEF Border, OnBorder, OnSpace, ToFind
<1> QED
  BY <1>1, <1>2, <1>3, <1>4
     DEF ScanInv, Whole, ScanWell, MarkedWell, LookingWell, TakingWell, StoppedWell

\* The type of what is found is kept by every step.
LEMMA FoundTyped ==
  ASSUME TypeOK, found \in Seq(Spans), [Next]_vars
  PROVE  found' \in Seq(Spans)
<1>1. Span(m.start, m.end) \in Spans
  BY DEF Span, Spans, TypeOK, MinersOf
<1>2. CASE Returned
  BY <1>1, <1>2, ToSetAppend DEF Returned, Span
<1>3. CASE ~Returned
  BY <1>3
     DEF Next, vars, Skip, Run, CallGlob, TakeSymbol, Mismatch, LastStar, CallRest, RestFound,
         RestFailed, EndOfGlob, MatchNamedEntity
<1> QED BY <1>2, <1>3

\* A loop that is where it should be does not skip: what is behind it is done.
LEMMA LoopScans ==
  ASSUME GlobInv, Whole, ScanWell, found \in Seq(Spans), Skip \/ Run \/ Returned
  PROVE  ScanWell'
<1>1. /\ m.pos \in Nat /\ m.end_last \in Nat /\ m.pos_last \in Nat /\ mark \in Nat
      /\ m \in MinersOf(text) /\ input.matcher \in {"glob", "named"} /\ Unmarked \notin Nat
  BY TypeFacts, UnmarkedAssumption DEF GlobInv, TypeOK
<1>2. input' = input /\ text' = text /\ glob' = glob /\ stack' = stack
  BY DEF Skip, Run, Returned, text, glob
<1>3. CASE Skip
  BY <1>1, <1>3 DEF Skip, MayRun, LaterOf, ScanWell, MarkedWell, LookingWell
<1>4. CASE Run
  <2>1. /\ pc = "loop" /\ stack = <<>> /\ m' = m /\ mark' = m.pos /\ found' = found
        /\ pc' \in {"glob", "named"}
    BY <1>1, <1>4 DEF Run, GlobInv, StackInv
  <2> QED
    BY <1>2, <2>1
       DEF ScanWell, MarkedWell, LookingWell, TakingWell, StoppedWell, Border, ToFind
<1>5. CASE Returned
  <2>1. /\ pc \in {"made", "null"} /\ stack = <<>> /\ pc' = "loop" /\ found' = Received
        /\ mark < m.pos /\ Border(m.pos) /\ ToSet(Received) = ToFind(m.pos)
        /\ m.end_last <= m.pos /\ (m.end = Unmarked \/ m.end <= m.pos)
    BY <1>5
       DEF Returned, ScanWell, StoppedWell, MarkedWell, Received, Span
  <2>2. /\ m'.pos = m.pos /\ m'.end_last = m.end_last /\ m'.end = Unmarked
        /\ m'.pos_last = LaterOf(IF m.end = Unmarked THEN 0 ELSE m.end, m.pos)
    BY <1>1, <1>5, <2>1 DEF Returned, RunOver, MinersOf
  <2>3. m'.pos_last <= m'.pos
    BY <1>1, <2>1, <2>2 DEF LaterOf, MinersOf
  <2> QED
    BY <1>2, <2>1, <2>2, <2>3
       DEF ScanWell, MarkedWell, LookingWell, TakingWell, StoppedWell, Border, ToFind
<1> QED BY <1>3, <1>4, <1>5

\* A run has one call only: a glob whose * is its last item never calls for the
\* rest of one.
LEMMA NoInnerCalls ==
  ASSUME GlobInv, Whole, ScanWell, CallRest \/ RestFound \/ RestFailed
  PROVE  FALSE
<1>1. CASE CallRest
  <2> DEFINE g == Top.glob
             b == Top.startpos
  <2>1. /\ pc = "items" /\ Head(g) = Star /\ Len(g) > 1
    BY <1>1 DEF CallRest, InItems, IsStar
  <2>2. g \in Seq(Items) /\ input.matcher = "glob"
    BY <2>1, ReadingFacts
  <2>3. glob \in Seq(Items)
    BY TypeFacts DEF GlobInv
  <2>4. Simple(glob) /\ Taken(text, glob, g, b, m.pos)
    BY <2>1, <2>2 DEF Whole, ScanWell, TakingWell
  <2> HIDE DEF g, b
  <2>5. Len(g) <= Len(glob) /\ \A i \in 1 .. Len(g) : g[i] = glob[Len(glob) - Len(g) + i]
    BY <2>4 DEF Taken
  <2>6. Len(g) \in Nat /\ Len(glob) \in Nat
    BY <2>2, <2>3, LenProperties
  <2>7. g # <<>>
    <3>1. Len(<<>>) = 0 /\ Len(g) # 0
      BY <2>1, <2>6
    <3> QED BY <3>1
  <2>8. g[1] = Star /\ 1 \in 1 .. Len(g)
    BY <2>1, <2>2, <2>6, <2>7, RestItems
  <2> DEFINE i == Len(glob) - Len(g) + 1
  <2>9. glob[i] = Star
    BY <2>5, <2>8
  <2>10. i \in DOMAIN glob /\ i # Len(glob)
    BY <2>1, <2>3, <2>5, <2>6
  <2> QED BY <2>4, <2>9, <2>10 DEF Simple
<1>2. CASE RestFound
  BY <1>2 DEF RestFound, ScanWell, StoppedWell
<1>3. CASE RestFailed
  BY <1>3 DEF RestFailed, ScanWell, StoppedWell
<1> QED BY <1>1, <1>2, <1>3

\* The call begins with the next token, or not at all.
LEMMA CallScans ==
  ASSUME GlobInv, Whole, ScanWell, CallGlob PROVE ScanWell'
<1> DEFINE begin == Begin(text, glob, mark)
           at    == [m EXCEPT !.pos = begin]
           f     == [glob |-> glob, startpos |-> begin, pos |-> begin,
                     params |-> glob, end_last |-> m.end_last]
<1>1. /\ text \in Seq(DOMAIN Lower) /\ Len(text) \in Nat /\ glob \in Seq(Items)
      /\ mark \in Places(text) /\ mark \in Nat /\ m.end_last \in Nat /\ m.pos \in Nat
      /\ m \in MinersOf(text)
  BY TypeFacts DEF GlobInv, TypeOK
<1>2. /\ pc = "glob" /\ input' = input /\ mark' = mark /\ found' = found
      /\ text' = text /\ glob' = glob
  BY DEF CallGlob, text, glob
<1>3. /\ stack = <<>> /\ params = glob /\ m.pos = mark /\ input.matcher = "glob"
      /\ mark < Len(text) /\ Simple(glob) /\ OnBorder(text, mark)
      /\ ToSet(found) = TokensTo(text, glob, mark)
      /\ m.end_last <= mark /\ m.end = Unmarked
  BY <1>1, <1>2
     DEF GlobInv, StackInv, Whole, ScanWell, MarkedWell, LookingWell, Border, ToFind
<1>4. /\ begin \in Places(text) /\ begin \in Nat /\ mark <= begin /\ begin <= Len(text)
  BY <1>1, BeginFinds DEF Places
<1>5. \A k \in mark .. begin - 1 : text[k + 1] \in Delimiters
  <2>1. CASE StartsWithDelimiter(glob)
    <3>1. begin = mark
      BY <2>1 DEF Begin
    <3> HIDE DEF begin
    <3>2. mark .. begin - 1 = {}
      BY <1>1, <3>1
    <3> QED BY <3>2
  <2>2. CASE ~StartsWithDelimiter(glob)
    BY <1>1, <2>2, TokenFromFinds DEF Begin
  <2> QED BY <2>1, <2>2
<1>6. at \in MinersOf(text) /\ at.pos = begin /\ at.end = Unmarked /\ at.end_last = m.end_last
  <2> HIDE DEF begin
  <2> QED BY <1>1, <1>3, <1>4, MinerMoves
<1>7. IF AtEnd(text, at) THEN m' = at /\ pc' = "null" /\ stack' = <<>>
      ELSE /\ m'.pos = begin /\ m'.end = Unmarked /\ m'.end_last = m.end_last
           /\ pc' = "items" /\ stack' = Append(<<>>, f)
  <2>1. /\ MarkStart(at).pos = at.pos /\ MarkStart(at).end = at.end
        /\ MarkStart(at).end_last = at.end_last
    <3> HIDE DEF at
    <3> QED BY <1>6 DEF MarkStart, MinersOf
  <2>2. glob # <<>>
    BY <1>3 DEF Simple
  <2>3. /\ m' = IF AtEnd(text, at) THEN at ELSE MarkStart(at)
        /\ IF AtEnd(text, at) THEN pc' = "null" /\ stack' = stack
           ELSE pc' = "items" /\ stack' = Append(stack, f)
    <3>1. [m EXCEPT !.pos = Begin(text, params, m.pos)] = at
      BY <1>3
    <3>2. [glob |-> params, startpos |-> at.pos, pos |-> at.pos,
           params |-> params, end_last |-> m.end_last] = f
      BY <1>3, <1>6
    <3> HIDE DEF at, f
    <3> QED BY <1>3, <2>2, <3>1, <3>2 DEF CallGlob
  <2> HIDE DEF at, f
  <2> QED BY <1>3, <1>6, <2>1, <2>3
<1> HIDE DEF begin, at
<1>8. TokensTo(text, glob, begin) = TokensTo(text, glob, mark)
  BY <1>1, <1>4, <1>5, NoTokenInDelimiters
<1>9. OnBorder(text, begin)
  <2>1. CASE begin = mark
    BY <1>3, <2>1
  <2>2. CASE begin # mark
    <3>1. begin - 1 \in mark .. begin - 1 /\ (begin - 1) + 1 = begin
      BY <1>1, <1>4, <2>2
    <3>2. text[begin] \in Delimiters
      BY <1>5, <3>1
    <3> QED BY <3>2 DEF OnBorder
  <2> QED BY <2>1, <2>2
<1>10. CASE AtEnd(text, at)
  <2>1. m'.pos = begin /\ m'.end = Unmarked /\ m'.end_last = m.end_last /\ begin = Len(text)
    BY <1>1, <1>4, <1>6, <1>7, <1>10 DEF AtEnd
  <2> QED
    BY <1>1, <1>2, <1>3, <1>4, <1>7, <1>8, <1>9, <1>10, <2>1
       DEF ScanWell, MarkedWell, LookingWell, TakingWell, StoppedWell, Border, ToFind, Received
<1>11. CASE ~AtEnd(text, at)
  <2>1. f.glob = glob /\ f.startpos = begin
    OBVIOUS
  <2> HIDE DEF f
  <2>2. Last(stack') = f /\ Front(stack') = <<>>
    <3>1. <<>> \in Seq({f}) /\ f \in {f}
      OBVIOUS
    <3>2. Last(Append(<<>>, f)) = f /\ Front(Append(<<>>, f)) = <<>>
      BY <3>1, PushStack
    <3> QED BY <1>7, <1>11, <3>2
  <2>3. Taken(text, glob, glob, begin, begin)
    BY <1>1, <1>4, TakenNothing
  <2>4. Top' = f
    BY <2>2 DEF Top
  <2> QED
    BY <1>1, <1>2, <1>3, <1>4, <1>7, <1>8, <1>9, <1>11, <2>2, <2>1, <2>3, <2>4
       DEF ScanWell, MarkedWell, LookingWell, TakingWell, StoppedWell, ToFind
<1> QED BY <1>10, <1>11

\* What is known of the one call while it reads its items.
LEMMA TakingFacts ==
  ASSUME GlobInv, Whole, ScanWell, pc = "items"
  PROVE  /\ text \in Seq(DOMAIN Lower) /\ Len(text) \in Nat
         /\ glob \in Seq(Items) /\ Simple(glob) /\ Top.glob \in Seq(Items)
         /\ m.pos \in Places(text) /\ m.pos \in Nat /\ m \in MinersOf(text)
         /\ Top.startpos \in Places(text) /\ Top.startpos \in Nat
         /\ mark \in Nat /\ mark <= Top.startpos /\ Top.startpos <= m.pos
         /\ Top.startpos < Len(text) /\ m.end_last \in Nat /\ m.end_last <= mark
         /\ input.matcher = "glob" /\ Front(stack) = <<>> /\ m.end = Unmarked
         /\ m.start = Top.startpos
         /\ OnBorder(text, Top.startpos)
         /\ ToSet(found) = TokensTo(text, glob, Top.startpos)
         /\ Taken(text, glob, Top.glob, Top.startpos, m.pos)
<1>1. /\ text \in Seq(DOMAIN Lower) /\ Len(text) \in Nat /\ glob \in Seq(Items)
      /\ m.pos \in Places(text) /\ m.pos \in Nat /\ m \in MinersOf(text)
      /\ mark \in Nat /\ m.end_last \in Nat
  BY TypeFacts DEF GlobInv, TypeOK
<1>2. /\ Top \in FramesOf(text) /\ Top.glob \in Seq(Items)
      /\ CallWell(text, Top, Front(stack), glob, mark)
      /\ params = InnerGlob(Front(stack), glob)
      /\ Top.startpos \in Nat /\ mark <= Top.startpos /\ Top.startpos <= m.pos
      /\ m.end_last <= mark /\ input.matcher = "glob"
      /\ m.start = IF params = <<>> THEN Unmarked ELSE Top.startpos
  BY ReadingFacts
<1>3. Simple(glob) /\ glob # <<>>
  BY <1>2 DEF Whole, Simple
<1>4. /\ Front(stack) = <<>> /\ m.end = Unmarked
      /\ OnBorder(text, Top.startpos) /\ ToSet(found) = TokensTo(text, glob, Top.startpos)
      /\ Taken(text, glob, Top.glob, Top.startpos, m.pos)
  BY <1>2 DEF ScanWell, TakingWell, MarkedWell, ToFind
<1>5. m.start = Top.startpos
  BY <1>2, <1>3, <1>4 DEF InnerGlob
<1>6. Top.startpos \in Places(text) /\ Top.startpos < Len(text)
  BY <1>2 DEF FramesOf, CallWell
<1> QED BY <1>1, <1>2, <1>3, <1>4, <1>5, <1>6

\* An item is taken.
LEMMA TakingGoesOn ==
  ASSUME GlobInv, Whole, ScanWell, pc = "items", NEW g \in Seq(Items), NEW q \in Places(text),
         input' = input, found' = found, pc' = "items",
         m' = [m EXCEPT !.pos = q], stack' = WithTop([Top EXCEPT !.glob = g]),
         m.pos <= q, Taken(text, glob, g, Top.startpos, q)
  PROVE  ScanWell'
<1> DEFINE f == [Top EXCEPT !.glob = g]
<1>1. text' = text /\ glob' = glob
  BY DEF text, glob
<1>2. /\ m.pos \in Nat /\ Top.startpos \in Nat /\ mark \in Nat /\ m.end_last \in Nat
      /\ m.end_last <= mark /\ mark <= Top.startpos /\ Top.startpos <= m.pos
      /\ m \in MinersOf(text) /\ input.matcher = "glob" /\ Front(stack) = <<>>
      /\ m.end = Unmarked /\ OnBorder(text, Top.startpos)
      /\ ToSet(found) = TokensTo(text, glob, Top.startpos)
  BY TakingFacts
<1>3. Top \in FramesOf(text)
  BY ReadingFacts
<1>4. f \in FramesOf(text) /\ f.glob = g /\ f.startpos = Top.startpos
  <2>1. Top \in [glob : Seq(Items), startpos : Places(text), pos : Places(text),
                 params : Seq(Items), end_last : Nat]
    BY <1>3 DEF FramesOf
  <2> QED BY <2>1 DEF FramesOf
<1> HIDE DEF f
<1>5. stack' = Append(<<>>, f)
  BY <1>2 DEF WithTop, f
<1>6. Top' = f /\ Front(stack') = <<>>
  <2>1. <<>> \in Seq({f}) /\ f \in {f}
    OBVIOUS
  <2>2. Last(Append(<<>>, f)) = f /\ Front(Append(<<>>, f)) = <<>>
    BY <2>1, PushStack
  <2> QED BY <1>5, <2>2 DEF Top
<1>7. m'.pos = q /\ m'.end = Unmarked /\ m'.end_last = m.end_last /\ q \in Nat
  BY <1>2, MinerMoves DEF Places
<1>8. m.end_last <= q
  BY <1>2, <1>7
<1> QED
  BY <1>1, <1>2, <1>4, <1>6, <1>7, <1>8
     DEF ScanWell, MarkedWell, LookingWell, TakingWell, StoppedWell, ToFind

\* The call answers, with an occurrence or without.
LEMMA TakingStops ==
  ASSUME GlobInv, Whole, ScanWell, pc = "items",
         input' = input, mark' = mark, found' = found, stack' = Front(stack),
         pc' \in {"made", "null"}, m' \in MinersOf(text),
         Top.startpos < m'.pos, m'.end_last <= m'.pos,
         m'.end = Unmarked \/ m'.end <= m'.pos, OnBorder(text, m'.pos),
         pc' = "null" => TokensTo(text, glob, m'.pos) = TokensTo(text, glob, Top.startpos),
         pc' = "made" => TokensTo(text, glob, m'.pos) =
                           TokensTo(text, glob, Top.startpos) \cup {Span(m'.start, m'.end)},
         found \in Seq(Spans)
  PROVE  ScanWell'
<1>1. text' = text /\ glob' = glob
  BY DEF text, glob
<1>2. /\ Top.startpos \in Nat /\ mark \in Nat /\ mark <= Top.startpos
      /\ input.matcher = "glob" /\ Front(stack) = <<>>
      /\ ToSet(found) = TokensTo(text, glob, Top.startpos)
  BY TakingFacts
<1>3. m'.pos \in Nat
  BY DEF MinersOf, Places
<1>4. mark' < m'.pos
  BY <1>2, <1>3
<1>5. ToSet(Received') = TokensTo(text, glob, m'.pos)
  <2>1. CASE pc' = "null"
    <3>1. Received' = found
      BY <2>1 DEF Received
    <3> QED BY <1>2, <2>1, <3>1
  <2>2. CASE pc' = "made"
    <3>1. Span(m'.start, m'.end) \in Spans
      BY DEF MinersOf, Span, Spans
    <3>2. Received' = Append(found, Span(m'.start, m'.end))
      BY <2>2 DEF Received, Span
    <3>3. ToSet(Append(found, Span(m'.start, m'.end))) = ToSet(found) \cup {Span(m'.start, m'.end)}
      <4> DEFINE s == Span(m'.start, m'.end)
      <4> HIDE DEF s
      <4>1. s \in Spans
        BY <3>1 DEF s
      <4>2. ToSet(Append(found, s)) = ToSet(found) \cup {s}
        BY <4>1, ToSetAppend
      <4> QED BY <4>2 DEF s
    <3> QED BY <1>2, <2>2, <3>2, <3>3
  <2> QED BY <2>1, <2>2
<1> QED
  BY <1>1, <1>2, <1>4, <1>5
     DEF ScanWell, MarkedWell, LookingWell, TakingWell, StoppedWell, Border, ToFind

\* TakeSymbol, LastStar
LEMMA ItemScans ==
  ASSUME GlobInv, Whole, ScanWell, TakeSymbol \/ LastStar PROVE ScanWell'
<1> DEFINE g == Top.glob
           b == Top.startpos
           q == TokenEnd(text, m.pos)
<1>1. pc = "items" /\ g # <<>>
  BY DEF TakeSymbol, LastStar, InItems
<1>2. /\ text \in Seq(DOMAIN Lower) /\ Len(text) \in Nat
      /\ glob \in Seq(Items) /\ Simple(glob) /\ g \in Seq(Items)
      /\ m.pos \in Places(text) /\ m.pos \in Nat /\ m \in MinersOf(text)
      /\ b \in Places(text) /\ Taken(text, glob, g, b, m.pos)
  BY <1>1, TakingFacts
<1>3. CASE TakeSymbol
  <2>1. Head(g) # Star /\ m.pos < Len(text) /\ Takes(Head(g), text[m.pos + 1])
    BY <1>2, <1>3 DEF TakeSymbol, IsStar, Fitting, AtEnd
  <2>2. m' = [m EXCEPT !.pos = m.pos + 1] /\ stack' = WithTop([Top EXCEPT !.glob = Tail(g)])
    BY <1>3 DEF TakeSymbol, Moved
  <2>3. input' = input /\ found' = found /\ pc' = "items"
    BY <1>1, <1>3 DEF TakeSymbol
  <2> HIDE DEF g, b
  <2>4. Taken(text, glob, Tail(g), b, m.pos + 1)
    BY <1>1, <1>2, <2>1, TakenSymbol
  <2>5. Tail(g) \in Seq(Items) /\ m.pos + 1 \in Places(text) /\ m.pos <= m.pos + 1
    BY <1>1, <1>2, <2>1, RestItems DEF Places
  <2> DEFINE r == Tail(g)
             to == m.pos + 1
  <2>6. /\ r \in Seq(Items) /\ to \in Places(text) /\ m.pos <= to
        /\ Taken(text, glob, r, Top.startpos, to)
        /\ m' = [m EXCEPT !.pos = to] /\ stack' = WithTop([Top EXCEPT !.glob = r])
    BY <2>2, <2>4, <2>5 DEF b
  <2> HIDE DEF r, to
  <2> QED BY <1>1, <2>3, <2>6, TakingGoesOn
<1>4. CASE LastStar
  <2>1. Head(g) = Star /\ Len(g) = 1 /\ m' = [m EXCEPT !.pos = q]
        /\ stack' = WithTop([Top EXCEPT !.glob = <<>>])
    BY <1>4 DEF LastStar, IsStar
  <2>2. input' = input /\ found' = found /\ pc' = "items"
    BY <1>1, <1>4 DEF LastStar
  <2>3. Taken(text, glob, <<>>, b, q)
    <3> HIDE DEF g, b
    <3> QED BY <1>2, <2>1, TakenLastStar
  <2>4. q \in Places(text) /\ m.pos <= q
    BY <1>2, TokenEndFinds DEF Places
  <2> DEFINE r == <<>>
  <2>5. r \in Seq(Items) /\ Taken(text, glob, r, Top.startpos, q)
        /\ stack' = WithTop([Top EXCEPT !.glob = r])
    BY <2>1, <2>3
  <2> HIDE DEF r, q
  <2> QED BY <1>1, <2>1, <2>2, <2>4, <2>5, TakingGoesOn
<1> QED BY <1>3, <1>4

\* The glob does not fit here.
LEMMA MismatchScans ==
  ASSUME GlobInv, Whole, ScanWell, found \in Seq(Spans), Mismatch PROVE ScanWell'
<1> DEFINE g == Top.glob
           b == Top.startpos
           q == Skipped(text, m.pos)
<1>1. /\ pc = "items" /\ g # <<>> /\ Head(g) # Star
      /\ m' = [m EXCEPT !.pos = q] /\ stack' = Front(stack) /\ pc' = "null"
      /\ input' = input /\ mark' = mark /\ found' = found
  BY DEF Mismatch, InItems, IsStar, ReturnNull
<1>2. /\ text \in Seq(DOMAIN Lower) /\ Len(text) \in Nat
      /\ glob \in Seq(Items) /\ Simple(glob) /\ g \in Seq(Items)
      /\ m.pos \in Places(text) /\ m.pos \in Nat /\ m \in MinersOf(text)
      /\ b \in Places(text) /\ b \in Nat /\ b <= m.pos /\ b < Len(text)
      /\ mark \in Nat /\ mark <= b /\ m.end_last \in Nat /\ m.end_last <= mark
      /\ m.end = Unmarked /\ OnBorder(text, b) /\ Taken(text, glob, g, b, m.pos)
  BY <1>1, TakingFacts
<1>3. ~(m.pos < Len(text) /\ Takes(Head(g), text[m.pos + 1]))
  BY <1>2 DEF Mismatch, Fitting, AtEnd
<1> HIDE DEF g
<1>4. /\ TokensTo(text, glob, q) = TokensTo(text, glob, b)
      /\ b < q /\ OnBorder(text, q)
  <2> HIDE DEF b
  <2> QED BY <1>1, <1>2, <1>3, TakenNoMore
<1>5. q \in Places(text) /\ q \in Nat
  BY <1>2, SkippedStays DEF Places
<1> HIDE DEF q
<1>6. /\ m' \in MinersOf(text) /\ m'.pos = q /\ m'.end = Unmarked
      /\ m'.end_last = m.end_last
  BY <1>1, <1>2, <1>5, MinerMoves
<1>7. m'.end_last <= m'.pos
  BY <1>2, <1>4, <1>5, <1>6
<1> QED BY <1>1, <1>4, <1>6, <1>7, TakingStops

\* The glob is used up: its token ends here and is found, or goes on.
LEMMA EndScans ==
  ASSUME GlobInv, Whole, ScanWell, found \in Seq(Spans), EndOfGlob PROVE ScanWell'
<1> DEFINE b == Top.startpos
           p == m.pos
           marked == MarkEnd(m)
           behind == IF AtEnd(text, m) THEN marked ELSE Moved(marked, 1)
<1>1. /\ pc = "items" /\ Top.glob = <<>> /\ stack' = Front(stack)
      /\ input' = input /\ mark' = mark /\ found' = found
  BY DEF EndOfGlob
<1>2. /\ text \in Seq(DOMAIN Lower) /\ Len(text) \in Nat
      /\ glob \in Seq(Items) /\ Simple(glob) /\ glob # <<>>
      /\ p \in Places(text) /\ p \in Nat /\ p <= Len(text) /\ m \in MinersOf(text)
      /\ b \in Places(text) /\ b \in Nat /\ b <= p /\ b < Len(text)
      /\ mark \in Nat /\ mark <= b /\ m.end_last \in Nat /\ m.end_last <= mark
      /\ m.start = b /\ OnBorder(text, b) /\ Taken(text, glob, <<>>, b, p)
  <2>1. p \in Places(text) => p <= Len(text)
    BY DEF Places
  <2> QED BY <1>1, <2>1, TakingFacts DEF Simple
<1>3. /\ marked = [m EXCEPT !.end = p] /\ m.end_last <= p
  <2>1. m.end_last <= p
    BY <1>2
  <2> QED BY <2>1 DEF MarkEnd, MayMark
<1>4. /\ marked \in MinersOf(text) /\ marked.pos = p /\ marked.start = b /\ marked.end = p
      /\ marked.end_last = m.end_last
  BY <1>2, <1>3 DEF MinersOf
<1>5. b < p
  <2>1. \/ b < p
        \/ Top.glob = params
    BY <1>1 DEF GlobInv, Reading
  <2>2. params # <<>>
    <3>1. params = InnerGlob(Front(stack), glob) /\ Front(stack) = <<>>
      BY <1>1, ReadingFacts, TakingFacts
    <3> QED BY <1>2, <3>1 DEF InnerGlob
  <2> QED BY <1>1, <2>1, <2>2
<1> HIDE DEF marked
<1>6. MayMake(marked, FALSE)
  BY <1>2, <1>4, <1>5, UnmarkedAssumption DEF MayMake
<1>7. (AtEnd(text, m) \/ Sees(text, m, Delimiters)) <=> TokenEnd(text, p) = p
  <2>1. TokenEnd(text, p) = p <=> (p = Len(text) \/ text[p + 1] \in Delimiters)
    BY <1>2, TokenEndsHere
  <2> QED BY <1>2, <2>1 DEF AtEnd, Sees
<1>8. CASE TokenEnd(text, p) = p
  <2> DEFINE to == IF AtEnd(text, m) THEN p ELSE p + 1
  <2>1. to \in Places(text) /\ p <= to /\ to <= p + 1 /\ b < to /\ to \in Nat
    BY <1>2, <1>5 DEF AtEnd, Places
  <2>2. behind = [marked EXCEPT !.pos = to]
    BY <1>2, <1>4 DEF Moved, MinersOf
  <2>3. m' = Made(behind) /\ pc' = "made"
    BY <1>6, <1>7, <1>8 DEF EndOfGlob, marked
  <2> HIDE DEF to, behind
  <2>4. /\ m' \in MinersOf(text) /\ m'.pos = to /\ m'.start = b /\ m'.end = p
        /\ m'.end_last = p
    BY <1>2, <1>4, <2>1, <2>2, <2>3 DEF Made, MinersOf
  <2>5. Fits(glob, Word(text, Span(b, p)))
    BY <1>2, <1>5, TakenFits
  <2>6. \A k \in b + 1 .. p : text[k] \notin Delimiters
    BY <1>2 DEF Taken
  <2>7. TokensTo(text, glob, to) = TokensTo(text, glob, b) \cup {Span(b, p)}
    <3> HIDE DEF b, p
    <3>1. TokensTo(text, glob, to) =
            TokensTo(text, glob, b)
              \cup IF Fits(glob, Word(text, Span(b, p))) THEN {Span(b, p)} ELSE {}
      <4>1. /\ text \in Seq(DOMAIN Lower) /\ b \in Places(text) /\ p \in Places(text)
            /\ to \in Places(text) /\ b < p /\ b < to /\ to <= p + 1
            /\ OnBorder(text, b) /\ TokenEnd(text, p) = p
        BY <1>2, <1>5, <1>8, <2>1
      <4> QED BY <2>6, <4>1, OneToken
    <3> QED BY <2>5, <3>1
  <2>8. OnBorder(text, to)
    <3>1. TokenEnd(text, p) = p <=> (p = Len(text) \/ text[p + 1] \in Delimiters)
      BY <1>2, TokenEndsHere
    <3>2. IF p = Len(text) THEN to = p ELSE to = p + 1
      BY <1>2 DEF to, AtEnd
    <3> HIDE DEF p
    <3> QED BY <1>8, <3>1, <3>2 DEF OnBorder
  <2> QED BY <1>1, <2>1, <2>3, <2>4, <2>7, <2>8, TakingStops
<1>9. CASE TokenEnd(text, p) # p
  <2> DEFINE q == Skipped(text, p)
  <2>1. m' = [marked EXCEPT !.pos = q] /\ pc' = "null"
    BY <1>7, <1>9 DEF EndOfGlob, marked
  <2>2. /\ TokensTo(text, glob, q) = TokensTo(text, glob, b)
        /\ p <= q /\ b < q /\ OnBorder(text, q)
    <3> HIDE DEF b, p
    <3> DEFINE rest == <<>>
    <3>1. rest \in Seq(Items) /\ rest = <<>> /\ Taken(text, glob, rest, b, p)
      BY <1>2
    <3> HIDE DEF rest
    <3>2. /\ text \in Seq(DOMAIN Lower) /\ glob \in Seq(Items) /\ Simple(glob)
          /\ b \in Places(text) /\ p \in Places(text) /\ OnBorder(text, b)
          /\ b <= p /\ b < Len(text) /\ TokenEnd(text, p) # p
      BY <1>2, <1>9
    <3> QED BY <3>1, <3>2, TakenNoMore
  <2>3. q \in Places(text) /\ q \in Nat
    BY <1>2, SkippedStays DEF Places
  <2> HIDE DEF q
  <2>4. /\ m' \in MinersOf(text) /\ m'.pos = q /\ m'.end = p /\ m'.end_last = m.end_last
    BY <1>4, <2>1, <2>3, MinerMoves
  <2>5. m'.end_last <= m'.pos /\ m'.end <= m'.pos
    BY <1>2, <2>2, <2>3, <2>4
  <2> QED BY <1>1, <2>1, <2>2, <2>4, <2>5, TakingStops
<1> QED BY <1>8, <1>9

-----------------------------------------------------------------------------
(* The matcher of names *)

\* Where a name begins that is looked for at p: behind a delimiter.
NameFrom(t, p) == IF p < Len(t) /\ t[p + 1] \in Delimiters THEN p + 1 ELSE p

\* A delimiter and then a space, or nothing: no name starts here.
LEMMA NoName ==
  ASSUME NEW T, NEW t \in Seq(T), NEW p \in Places(t), p < Len(t), OnSpace(t, p),
         t[p + 1] \in Delimiters, p + 1 = Len(t) \/ t[p + 2] \in Spaces
  PROVE  NamesTo(t, p + 1) = NamesTo(t, p) /\ OnSpace(t, p + 1)
<1>1. p \in Nat /\ Len(t) \in Nat /\ p + 1 \in Places(t) /\ (p + 1) + 1 = p + 2
  BY LenProperties DEF Places
<1>2. OnSpace(t, p + 1)
  BY <1>1 DEF OnSpace
<1> DEFINE before == {y \in Stretches(t, Spaces) : y.start < p}
           upto   == {y \in Stretches(t, Spaces) : y.start < p + 1}
<1>3. CASE t[p + 1] \in Spaces
  <2>1. ASSUME NEW y \in Stretches(t, Spaces) PROVE y.start < p + 1 <=> y.start < p
    BY <1>1, <1>3, StretchStarts
  <2>2. upto = before
    BY <2>1
  <2> QED BY <1>2, <2>2 DEF NamesTo
<1>4. CASE t[p + 1] \notin Spaces
  <2>1. p = 0
    BY <1>1, <1>4 DEF OnSpace
  <2>2. \A y \in Stretches(t, Spaces) : y.start \in 0 .. 1 => y = Span(0, 1)
    <3> DEFINE b == 0
               e == 1
    <3>1. /\ b \in Places(t) /\ e \in Places(t) /\ b < e
          /\ \A k \in b + 1 .. e : t[k] \notin Spaces
          /\ b = 0 \/ t[b] \in Spaces
          /\ e = Len(t) \/ t[e + 1] \in Spaces
      BY <1>1, <1>4, <2>1 DEF Places
    <3> HIDE DEF b, e
    <3>2. \A y \in Stretches(t, Spaces) : y.start \in b .. e => y = Span(b, e)
      BY <3>1, OneStretch
    <3> QED BY <3>2 DEF b, e
  <2>3. ASSUME NEW y \in upto PROVE NamedFrom(t, y) = Span(1, 1)
    <3>1. y.start \in 0 .. 1
      BY <2>1, StretchStarts
    <3>2. y = Span(0, 1)
      BY <2>2, <3>1
    <3>3. Sees(t, MinerAt(0), Delimiters)
      BY <1>1, <2>1 DEF Sees, AtEnd, MinerAt
    <3> QED BY <3>2, <3>3 DEF NamedFrom, Span
  <2>4. before = {}
    BY <2>1, StretchStarts
  <2>5. NamesAmong(t, upto) = {} /\ NamesAmong(t, {}) = {}
    <3>1. ~(Span(1, 1).start < Span(1, 1).end)
      BY DEF Span
    <3> HIDE DEF upto
    <3>2. \A y \in upto : ~(NamedFrom(t, y).start < NamedFrom(t, y).end)
      BY <2>3, <3>1
    <3> QED BY <3>2 DEF NamesAmong
  <2> QED BY <1>2, <2>4, <2>5 DEF NamesTo
<1> QED BY <1>3, <1>4

\* What is looked at from p on is one name, or none, up to the next space.
LEMMA OneName ==
  ASSUME NEW T, NEW t \in Seq(T), NEW p \in Places(t), p < Len(t), OnSpace(t, p),
         NameFrom(t, p) < Len(t), t[NameFrom(t, p) + 1] \notin Spaces
  PROVE  LET b == NameFrom(t, p)
             q == NextIn(t, Spaces, b)
         IN /\ q \in Places(t) /\ b < q /\ p <= b /\ p < q /\ OnSpace(t, q)
            /\ NamesTo(t, q) =
                 NamesTo(t, p) \cup IF Resembles(Word(t, Span(b, q))) THEN {Span(b, q)} ELSE {}
<1> DEFINE b == NameFrom(t, p)
           q == NextIn(t, Spaces, b)
           a == IF t[p + 1] \in Spaces THEN p + 1 ELSE p
<1>1. p \in Nat /\ Len(t) \in Nat
  BY LenProperties DEF Places
<1>2. /\ b \in {p, p + 1} /\ (b = p + 1 <=> t[p + 1] \in Delimiters)
      /\ b \in Places(t) /\ b \in Nat
  BY <1>1 DEF NameFrom, Places
<1>3. /\ q \in b .. Len(t)
      /\ q < Len(t) => t[q + 1] \in Spaces
      /\ \A r \in b .. q - 1 : t[r + 1] \notin Spaces
  <2> HIDE DEF b
  <2> QED BY <1>2, NextInFinds
<1>4. b < Len(t) /\ t[b + 1] \notin Spaces
  OBVIOUS
<1>5. a = b \/ (a = 0 /\ b = 1 /\ p = 0 /\ t[1] \notin Spaces)
  BY <1>1, <1>2 DEF OnSpace, Delimiters
<1>6. /\ a \in Nat /\ p <= a /\ (a = 0 \/ t[a] \in Spaces)
      /\ p < a => t[p + 1] \in Spaces /\ a = p + 1
  BY <1>1 DEF OnSpace
<1> HIDE DEF a, b, q
<1>7. q \in Nat /\ b < q /\ q \in Places(t) /\ a < q /\ p < q /\ p <= b /\ a \in Places(t)
  BY <1>1, <1>2, <1>3, <1>4, <1>5, <1>6 DEF Places
<1>8. \A k \in a + 1 .. q : t[k] \notin Spaces
  <2> SUFFICES ASSUME NEW k \in a + 1 .. q PROVE t[k] \notin Spaces
    OBVIOUS
  <2>1. CASE k > b
    <3>1. k - 1 \in b .. q - 1 /\ (k - 1) + 1 = k
      BY <1>2, <1>6, <1>7, <2>1
    <3> QED BY <1>3, <3>1
  <2>2. CASE k <= b
    <3>1. k = 1 /\ t[1] \notin Spaces
      BY <1>2, <1>5, <1>6, <2>2
    <3> QED BY <3>1
  <2> QED BY <1>2, <1>6, <1>7, <2>1, <2>2
<1>9. q = Len(t) \/ t[q + 1] \in Spaces
  BY <1>1, <1>3, <1>7
<1>10. /\ Span(a, q) \in Stretches(t, Spaces)
       /\ \A s \in Stretches(t, Spaces) : s.start \in a .. q => s = Span(a, q)
  BY <1>6, <1>7, <1>8, <1>9, OneStretch
<1> DEFINE before == {y \in Stretches(t, Spaces) : y.start < p}
           upto   == {y \in Stretches(t, Spaces) : y.start < q}
<1>11. ASSUME NEW y \in Stretches(t, Spaces)
       PROVE  y.start < q <=> y.start < p \/ y = Span(a, q)
  <2>1. y.start \in Nat /\ t[y.start + 1] \notin Spaces
    BY StretchStarts
  <2>2. CASE y = Span(a, q)
    BY <1>7, <2>2 DEF Span
  <2>3. CASE y # Span(a, q)
    <3>1. ~(y.start \in a .. q)
      BY <1>10, <2>3
    <3>2. p < a => y.start # p
      BY <1>6, <2>1
    <3> QED BY <1>1, <1>6, <1>7, <2>1, <2>3, <3>1, <3>2
  <2> QED BY <2>2, <2>3
<1>12. upto = before \cup {Span(a, q)}
  BY <1>10, <1>11
<1>13. NamedFrom(t, Span(a, q)) = Span(b, q)
  <2>1. Sees(t, MinerAt(0), Delimiters) <=> 0 < Len(t) /\ t[1] \in Delimiters
    BY <1>1 DEF Sees, AtEnd, MinerAt
  <2>2. Span(a, q).start = a /\ [Span(a, q) EXCEPT !.start = 1] = Span(1, q)
    BY DEF Span
  <2>3. CASE a = 0
    <3>1. p = 0
      BY <1>1, <1>6, <2>3
    <3> QED BY <1>1, <1>2, <2>1, <2>2, <2>3, <3>1 DEF NamedFrom
  <2>4. CASE a # 0
    BY <1>5, <2>2, <2>4 DEF NamedFrom
  <2> QED BY <2>3, <2>4
<1>14. NamesAmong(t, before \cup {Span(a, q)}) =
         NamesAmong(t, before)
           \cup IF Resembles(Word(t, Span(b, q))) THEN {Span(b, q)} ELSE {}
  <2>1. Span(b, q).start < Span(b, q).end
    BY <1>7 DEF Span
  <2> DEFINE s == Span(a, q)
             r == Span(b, q)
  <2>2. NamedFrom(t, s) = r /\ r.start < r.end
    BY <1>13, <2>1
  <2> HIDE DEF before, s, r
  <2>3. NamesAmong(t, before \cup {s}) =
          NamesAmong(t, before) \cup IF Resembles(Word(t, r)) THEN {r} ELSE {}
    BY <2>2 DEF NamesAmong
  <2> QED BY <2>3 DEF s, r
<1>15. NamesTo(t, q) =
         NamesTo(t, p) \cup IF Resembles(Word(t, Span(b, q))) THEN {Span(b, q)} ELSE {}
  BY <1>12, <1>14 DEF NamesTo
<1>16. OnSpace(t, q)
  BY <1>9 DEF OnSpace
<1> QED BY <1>7, <1>15, <1>16 DEF b, q

\* match_named_entity
LEMMA NameScans ==
  ASSUME GlobInv, Whole, ScanWell, found \in Seq(Spans), MatchNamedEntity PROVE ScanWell'
<1> DEFINE p == m.pos
           b == NameFrom(text, p)
           q == NextIn(text, Spaces, b)
           first == IF Sees(text, m, Delimiters) THEN Moved(m, 1) ELSE m
           begun == MarkStart(first)
           there == [begun EXCEPT !.pos = q]
           ended == MarkEnd(there)
<1>1. /\ text \in Seq(DOMAIN Lower) /\ Len(text) \in Nat
      /\ p \in Places(text) /\ p \in Nat /\ m \in MinersOf(text) /\ m.end_last \in Nat
  BY TypeFacts DEF GlobInv, TypeOK
<1>2. /\ pc = "named" /\ input' = input /\ mark' = mark /\ found' = found /\ stack' = stack
      /\ text' = text /\ glob' = glob
  BY DEF MatchNamedEntity, text, glob
<1>3. /\ stack = <<>> /\ p = mark /\ input.matcher = "named" /\ p < Len(text)
      /\ OnSpace(text, p) /\ ToSet(found) = NamesTo(text, p)
      /\ m.end_last <= p /\ m.end = Unmarked
  BY <1>2
     DEF GlobInv, StackInv, ScanWell, MarkedWell, LookingWell, Border, ToFind
<1>4. /\ b \in Places(text) /\ b \in Nat /\ b \in {p, p + 1}
      /\ (b = p + 1 <=> text[p + 1] \in Delimiters)
  BY <1>1, <1>3 DEF NameFrom, Places
<1>5. first = [m EXCEPT !.pos = b]
  <2>1. Sees(text, m, Delimiters) <=> text[p + 1] \in Delimiters
    BY <1>1, <1>3 DEF Sees, AtEnd
  <2>2. b = IF text[p + 1] \in Delimiters THEN p + 1 ELSE p
    BY <1>3 DEF NameFrom
  <2> HIDE DEF b
  <2> QED BY <1>1, <2>1, <2>2 DEF Moved, MinersOf
<1> HIDE DEF b, first
<1>6. /\ first \in MinersOf(text) /\ first.pos = b /\ first.start = m.start
      /\ first.end = Unmarked /\ first.end_last = m.end_last
  BY <1>1, <1>3, <1>4, <1>5, MinerMoves
<1>7. MayMark(first) /\ begun = [first EXCEPT !.start = b]
  <2>1. MayMark(first)
    BY <1>1, <1>3, <1>4, <1>6 DEF MayMark
  <2> QED BY <1>6, <2>1 DEF MarkStart
<1>8. /\ begun \in MinersOf(text) /\ begun.pos = b /\ begun.start = b
      /\ begun.end = Unmarked /\ begun.end_last = m.end_last
  BY <1>4, <1>6, <1>7 DEF MinersOf
<1> HIDE DEF begun
<1>9. ~(first = m /\ m.pos # 0)
  <2> SUFFICES ASSUME first = m, m.pos # 0 PROVE FALSE
    OBVIOUS
  <2>1. b = p
    BY <1>6
  <2>2. text[p + 1] \in Spaces
    BY <1>3 DEF OnSpace
  <2> QED BY <1>1, <1>4, <2>1, <2>2 DEF Delimiters
<1> HIDE DEF p
<1>10. CASE AtEnd(text, first) \/ Sees(text, first, Spaces)
  <2>1. pc' = "null" /\ m' = begun
    BY <1>9, <1>10 DEF MatchNamedEntity, first, begun
  <2>2. b = Len(text) \/ text[b + 1] \in Spaces
    BY <1>1, <1>3, <1>4, <1>6, <1>10 DEF AtEnd, Sees
  <2>3. b = p + 1 /\ text[p + 1] \in Delimiters
    BY <1>1, <1>3, <1>4, <2>2 DEF Delimiters
  <2>4. p + 1 = Len(text) \/ text[p + 2] \in Spaces
    <3>1. (p + 1) + 1 = p + 2
      BY <1>1
    <3> QED BY <2>2, <2>3, <3>1
  <2>5. NamesTo(text, b) = NamesTo(text, p) /\ OnSpace(text, b)
    BY <1>1, <1>3, <2>3, <2>4, NoName
  <2>6. m'.end_last <= m'.pos /\ mark < m'.pos
    BY <1>1, <1>3, <1>8, <2>1, <2>3
  <2> QED
    BY <1>2, <1>3, <1>8, <2>1, <2>5, <2>6
       DEF ScanWell, MarkedWell, LookingWell, TakingWell, StoppedWell, Border, ToFind, Received
<1>11. CASE ~(AtEnd(text, first) \/ Sees(text, first, Spaces))
  <2>1. b < Len(text) /\ text[b + 1] \notin Spaces
    BY <1>1, <1>4, <1>6, <1>11 DEF AtEnd, Sees
  <2>2. /\ q \in Places(text) /\ b < q /\ p < q /\ OnSpace(text, q)
        /\ NamesTo(text, q) =
             NamesTo(text, p) \cup IF Resembles(Word(text, Span(b, q))) THEN {Span(b, q)} ELSE {}
    BY <1>1, <1>3, <2>1, OneName DEF b
  <2>3. IF Resembles(SubSeq(text, begun.start + 1, ended.end))
        THEN pc' = "made" /\ m' = Made(ended) ELSE pc' = "null" /\ m' = ended
    <3>1. /\ begun = MarkStart(first)
          /\ ended = MarkEnd([begun EXCEPT !.pos = NextIn(text, Spaces, first.pos)])
      BY <1>6 DEF begun
    <3> HIDE DEF ended
    <3> QED BY <1>7, <1>9, <1>11, <3>1 DEF MatchNamedEntity, first
  <2>4. q \in Nat
    BY <2>2 DEF Places
  <2> HIDE DEF q
  <2>5. /\ there \in MinersOf(text) /\ there.pos = q /\ there.start = b
        /\ there.end_last = m.end_last
    BY <1>8, <2>2, MinerMoves
  <2> HIDE DEF there
  <2>6. ended = [there EXCEPT !.end = q]
    <3>1. MayMark(there)
      BY <1>1, <1>3, <2>2, <2>4, <2>5 DEF MayMark
    <3> QED BY <2>5, <3>1 DEF MarkEnd
  <2>7. /\ ended \in MinersOf(text) /\ ended.pos = q /\ ended.start = b /\ ended.end = q
        /\ ended.end_last = m.end_last
    BY <2>4, <2>5, <2>6 DEF MinersOf
  <2> HIDE DEF ended
  <2>8. SubSeq(text, begun.start + 1, ended.end) = Word(text, Span(b, q))
    BY <1>8, <2>7 DEF Word, Span
  <2>9. /\ m'.pos = q /\ m'.start = b /\ m'.end = q /\ m'.end_last <= q
        /\ pc' = IF Resembles(Word(text, Span(b, q))) THEN "made" ELSE "null"
    <3>1. m.end_last <= q
      BY <1>1, <1>3, <2>2, <2>4
    <3>2. /\ Made(ended).pos = q /\ Made(ended).start = b /\ Made(ended).end = q
          /\ Made(ended).end_last = q
      BY <2>7 DEF Made, MinersOf
    <3>3. q <= q
      BY <2>4
    <3> HIDE DEF Resembles
    <3> QED BY <2>3, <2>7, <2>8, <3>1, <3>2, <3>3
  <2>10. ToSet(Received') = NamesTo(text, q)
    <3>1. CASE pc' = "made"
      <4> DEFINE s == Span(b, q)
      <4>1. s \in Spans
        BY <1>4, <2>4 DEF Spans, Span
      <4>2. Received' = Append(found, s)
        BY <1>2, <2>9, <3>1 DEF Received
      <4> HIDE DEF s
      <4>3. ToSet(Append(found, s)) = ToSet(found) \cup {s}
        BY <4>1, ToSetAppend
      <4>4. NamesTo(text, q) = NamesTo(text, p) \cup {s}
        BY <2>2, <2>9, <3>1 DEF s
      <4> QED BY <1>3, <4>2, <4>3, <4>4
    <3>2. CASE pc' = "null"
      <4>1. Received' = found
        BY <1>2, <3>2 DEF Received
      <4>2. NamesTo(text, q) = NamesTo(text, p)
        BY <2>2, <2>9, <3>2
      <4> QED BY <1>3, <4>1, <4>2
    <3> QED BY <2>9, <3>1, <3>2
  <2>11. pc' \in {"made", "null"} /\ m'.end <= m'.pos /\ mark' < m'.pos
    BY <1>2, <1>3, <2>2, <2>4, <2>9
  <2> QED
    BY <1>2, <1>3, <2>2, <2>9, <2>10, <2>11
       DEF ScanWell, MarkedWell, LookingWell, TakingWell, StoppedWell, Border, ToFind
<1> QED BY <1>10, <1>11

\* Every step keeps it.
LEMMA ScanStep ==
  ASSUME GlobInv, ScanInv, [Next]_vars PROVE ScanInv'
<1>1. found \in Seq(Spans) /\ found' \in Seq(Spans)
  BY FoundTyped DEF ScanInv, GlobInv
<1>2. input' = input /\ (Whole' <=> Whole)
  <2>1. input' = input
    BY DEF Next, vars, Skip, Run, Returned, CallGlob, TakeSymbol, Mismatch, LastStar, CallRest,
           RestFound, RestFailed, EndOfGlob, MatchNamedEntity
  <2> QED BY <2>1 DEF Whole, glob
<1>3. ASSUME Whole PROVE ScanWell'
  <2>1. ScanWell
    BY <1>3 DEF ScanInv
  <2>2. CASE Skip \/ Run \/ Returned
    BY <1>1, <1>3, <2>1, <2>2, LoopScans
  <2>3. CASE CallGlob
    BY <1>3, <2>1, <2>3, CallScans
  <2>4. CASE TakeSymbol \/ LastStar
    BY <1>3, <2>1, <2>4, ItemScans
  <2>5. CASE Mismatch
    BY <1>1, <1>3, <2>1, <2>5, MismatchScans
  <2>6. CASE CallRest \/ RestFound \/ RestFailed
    BY <1>3, <2>1, <2>6, NoInnerCalls
  <2>7. CASE EndOfGlob
    BY <1>1, <1>3, <2>1, <2>7, EndScans
  <2>8. CASE MatchNamedEntity
    BY <1>1, <1>3, <2>1, <2>8, NameScans
  <2>9. CASE UNCHANGED vars
    <3>1. m' = m /\ pc' = pc /\ stack' = stack /\ found' = found /\ mark' = mark
      BY <2>9 DEF vars
    <3> QED
      BY <1>2, <2>1, <3>1
         DEF ScanWell, MarkedWell, LookingWell, TakingWell, StoppedWell, Border, ToFind,
             Received, Top, text, glob
  <2> QED BY <2>2, <2>3, <2>4, <2>5, <2>6, <2>7, <2>8, <2>9 DEF Next
<1> QED BY <1>1, <1>2, <1>3 DEF ScanInv

\* ScanInv, with GlobInv, is an invariant of the matchers.
THEOREM ScanInvariance == Spec => [](GlobInv /\ ScanInv)
<1>1. GlobInv /\ ScanInv /\ [Next]_vars => ScanInv'
  BY ScanStep
<1> QED BY GlobInvariance, ScanInit, <1>1, PTL DEF Spec

\* At the end of the text everything is before the loop.
LEMMA ScanFindsAll ==
  ASSUME GlobInv, ScanInv PROVE TokensFound
<1> SUFFICES ASSUME Done, input.from = 0
             PROVE  /\ input.matcher = "glob" /\ Simple(glob) =>
                         ToSet(found) =
                           {s \in Stretches(text, Delimiters) : Fits(glob, Word(text, s))}
                    /\ input.matcher = "named" =>
                         ToSet(found) =
                           {s \in {NamedFrom(text, x) : x \in Stretches(text, Spaces)} :
                              s.start < s.end /\ Resembles(Word(text, s))}
  BY DEF TokensFound
<1>1. text \in Seq(DOMAIN Lower) /\ m.pos \in Nat /\ m.pos >= Len(text) /\ Len(text) \in Nat
  BY TypeFacts DEF GlobInv, Done, AtEnd
<1>2. ASSUME Whole PROVE ToSet(found) = ToFind(m.pos)
  BY <1>2 DEF ScanInv, ScanWell, LookingWell, Done
<1>3. ASSUME NEW symbols, NEW s \in Stretches(text, symbols) PROVE s.start < m.pos
  BY <1>1, StretchStarts
<1>4. CASE input.matcher = "glob" /\ Simple(glob)
  BY <1>2, <1>3, <1>4 DEF Whole, ToFind, TokensTo
<1>5. CASE input.matcher = "named"
  <2>1. {y \in Stretches(text, Spaces) : y.start < m.pos} = Stretches(text, Spaces)
    BY <1>3
  <2> QED BY <1>2, <1>5, <2>1 DEF Whole, ToFind, NamesTo, NamesAmong
<1> QED BY <1>4, <1>5

\* A scan from the beginning of a text finds every token that a glob without a *
\* inside fits, and nothing else, and so does one for the names of a trie: for
\* every text, no run stops in front of or behind the place where the next one
\* has to begin.
THEOREM ScansFindTokens == Spec => []TokensFound
<1> QED BY ScanInvariance, ScanFindsAll, PTL

-----------------------------------------------------------------------------
(* Separators and fields of a CSV text *)

\* There is no quote in front of the text.
LEMMA OutsideFirst == ASSUME NEW t PROVE Outside(t, 0)
<1>1. {k \in 1 .. 0 : t[k] = Quote} = {}
  OBVIOUS
<1>2. Cardinality({}) = 0
  BY FS_EmptySet
<1>3. 0 % 2 = 0
  OBVIOUS
<1> QED BY <1>1, <1>2, <1>3 DEF Outside

\* A quote that is passed changes sides.
LEMMA OutsideNext ==
  ASSUME NEW t, NEW p \in Nat
  PROVE  Outside(t, p + 1) <=> (Outside(t, p) <=> t[p + 1] # Quote)
<1> DEFINE Q(n) == {k \in 1 .. n : t[k] = Quote}
<1>1. IsFiniteSet(Q(p)) /\ Cardinality(Q(p)) \in Nat
  <2>1. IsFiniteSet(1 .. p)
    BY FS_Interval
  <2>2. IsFiniteSet(Q(p))
    BY <2>1, FS_Subset
  <2> HIDE DEF Q
  <2> QED BY <2>2, FS_CardinalityType
<1>2. CASE t[p + 1] = Quote
  <2>1. Q(p + 1) = Q(p) \cup {p + 1} /\ p + 1 \notin Q(p)
    BY <1>2
  <2>2. Cardinality(Q(p + 1)) = Cardinality(Q(p)) + 1
    <3> HIDE DEF Q
    <3> QED BY <1>1, <2>1, FS_AddElement
  <2>3. \A n \in Nat : (n + 1) % 2 = 0 <=> ~(n % 2 = 0)
    OBVIOUS
  <2>4. Cardinality(Q(p + 1)) % 2 = 0 <=> ~(Cardinality(Q(p)) % 2 = 0)
    <3> HIDE DEF Q
    <3> QED BY <1>1, <2>2, <2>3
  <2> QED BY <1>2, <2>4 DEF Outside
<1>3. CASE t[p + 1] # Quote
  <2>1. Q(p + 1) = Q(p)
    BY <1>3
  <2> QED BY <1>3, <2>1 DEF Outside
<1> QED BY <1>2, <1>3

\* A part of a sequence
LEMMA PartOf ==
  ASSUME NEW T, NEW t \in Seq(T), NEW a \in Nat \ {0}, NEW b \in 0 .. Len(t), a <= b + 1
  PROVE  /\ SubSeq(t, a, b) \in Seq(T) /\ Len(SubSeq(t, a, b)) = b - a + 1
         /\ \A i \in 1 .. b - a + 1 : SubSeq(t, a, b)[i] = t[a + i - 1]
<1>1. Len(t) \in Nat /\ a \in Int /\ b \in Int
  OBVIOUS
<1>2. \A i \in a .. b : t[i] \in T
  BY <1>1
<1>3. /\ SubSeq(t, a, b) \in Seq(T)
      /\ Len(SubSeq(t, a, b)) = IF a <= b THEN b - a + 1 ELSE 0
      /\ \A i \in 1 .. b - a + 1 : SubSeq(t, a, b)[i] = t[a + i - 1]
  BY <1>1, <1>2, SubSeqProperties
<1>4. Len(SubSeq(t, a, b)) = b - a + 1
  BY <1>1, <1>3
<1> QED BY <1>3, <1>4

\* A string of two symbols is seen if they are the next two.
LEMMA SeesTwo ==
  ASSUME NEW T, NEW t \in Seq(T), NEW miner, NEW p \in Nat, miner.pos = p, NEW a, NEW b
  PROVE  SeesString(t, miner, <<a, b>>) <=> p + 2 <= Len(t) /\ t[p + 1] = a /\ t[p + 2] = b
<1>1. Len(<<a, b>>) = 2
  OBVIOUS
<1>2. SeesString(t, miner, <<a, b>>) <=>
        p + 2 <= Len(t) /\ SubSeq(t, p + 1, p + 2) = <<a, b>>
  BY <1>1 DEF SeesString
<1>3. ASSUME p + 2 <= Len(t)
      PROVE  SubSeq(t, p + 1, p + 2) = <<a, b>> <=> t[p + 1] = a /\ t[p + 2] = b
  <2> DEFINE u == SubSeq(t, p + 1, p + 2)
  <2>1. u \in Seq(T) /\ Len(u) = 2 /\ u[1] = t[p + 1] /\ u[2] = t[p + 2]
    <3> DEFINE c == p + 1  d == p + 2
    <3>1. /\ c \in Nat \ {0} /\ d \in 0 .. Len(t) /\ c <= d + 1
          /\ d - c + 1 = 2 /\ c + 1 - 1 = c /\ c + 2 - 1 = d
      BY <1>3
    <3> HIDE DEF c, d
    <3>2. /\ SubSeq(t, c, d) \in Seq(T) /\ Len(SubSeq(t, c, d)) = d - c + 1
          /\ \A i \in 1 .. d - c + 1 : SubSeq(t, c, d)[i] = t[c + i - 1]
      BY <3>1, PartOf
    <3>3. /\ Len(SubSeq(t, c, d)) = 2 /\ SubSeq(t, c, d)[1] = t[c] /\ SubSeq(t, c, d)[2] = t[d]
      BY <3>1, <3>2
    <3> QED BY <3>2, <3>3 DEF c, d
  <2> HIDE DEF u
  <2>2. ASSUME u[1] = a, u[2] = b PROVE u = <<a, b>>
    <3>1. a \in T /\ b \in T
      <4>1. 1 \in 1 .. Len(u) /\ 2 \in 1 .. Len(u)
        BY <2>1
      <4> QED BY <2>1, <2>2, <4>1, ElementOfSeq
    <3>2. <<a, b>> \in Seq(T)
      BY <3>1
    <3> QED BY <2>1, <2>2, <3>2, SeqEqual
  <2>3. ASSUME u = <<a, b>> PROVE u[1] = a /\ u[2] = b
    BY <2>3
  <2>4. u = <<a, b>> <=> t[p + 1] = a /\ t[p + 2] = b
    BY <2>1, <2>2, <2>3
  <2> QED BY <2>4 DEF u
<1> QED BY <1>2, <1>3

\* Where there is a separator
LEMMA SeparatorAt ==
  ASSUME NEW T, NEW t \in Seq(T), NEW p \in Separators(t)
  PROVE  /\ p \in 0 .. Len(t) - 1 /\ t[p + 1] \in {Comma, CR, LF} /\ Outside(t, p)
         /\ Behind(t, p) \in {p + 1, p + 2} /\ Behind(t, p) \in Places(t)
         /\ Behind(t, p) = p + 2 <=> p + 2 <= Len(t) /\ t[p + 1] = CR /\ t[p + 2] = LF
<1>1. p \in 0 .. Len(t) - 1 /\ t[p + 1] \in {Comma, CR, LF} /\ Outside(t, p)
  BY DEF Separators
<1>2. SeesString(t, MinerAt(p), <<CR, LF>>) <=>
        p + 2 <= Len(t) /\ t[p + 1] = CR /\ t[p + 2] = LF
  <2>1. MinerAt(p).pos = p /\ p \in Nat
    BY <1>1 DEF MinerAt
  <2> QED BY <2>1, SeesTwo
<1>3. Behind(t, p) = IF p + 2 <= Len(t) /\ t[p + 1] = CR /\ t[p + 2] = LF THEN p + 2 ELSE p + 1
  BY <1>2 DEF Behind
<1> QED BY <1>1, <1>3 DEF Places

\* Fields start outside quotes.
LEMMA StartsOutside ==
  ASSUME NEW T, NEW t \in Seq(T), NEW s \in FieldStarts(t)
  PROVE  s \in 0 .. Len(t) - 1 /\ Outside(t, s)
<1>1. CASE s = 0
  BY <1>1, OutsideFirst DEF FieldStarts
<1>2. CASE s # 0
  <2>1. PICK p \in Separators(t) : s = Behind(t, p)
    BY <1>2 DEF FieldStarts
  <2>2. /\ p \in 0 .. Len(t) - 1 /\ t[p + 1] \in {Comma, CR, LF} /\ Outside(t, p)
        /\ s \in {p + 1, p + 2} /\ s < Len(t)
        /\ s = p + 2 => t[p + 2] = LF
    BY <2>1, SeparatorAt DEF FieldStarts
  <2>3. Outside(t, p + 1)
    BY <2>2, OutsideNext, CsvAssumption
  <2>4. s = p + 2 => Outside(t, s)
    <3>1. (p + 1) + 1 = p + 2 /\ p + 1 \in Nat
      BY <2>2
    <3> QED BY <2>2, <2>3, <3>1, OutsideNext, CsvAssumption
  <2> QED BY <2>2, <2>3, <2>4
<1> QED BY <1>1, <1>2

\* There is no separator between a field's start and its end.
LEMMA FieldEndFinds ==
  ASSUME NEW T, NEW t \in Seq(T), NEW s \in Places(t)
  PROVE  /\ FieldEnd(t, s) \in s .. Len(t)
         /\ FieldEnd(t, s) < Len(t) => FieldEnd(t, s) \in Separators(t)
         /\ \A p \in s .. FieldEnd(t, s) - 1 : p \notin Separators(t)
<1> DEFINE P == {p \in Separators(t) : p >= s}
<1>1. P \subseteq 0 .. Len(t) - 1 /\ Len(t) \in Nat /\ s \in 0 .. Len(t)
  BY DEF Separators, Places
<1>2. P \cup {Len(t)} \subseteq Nat
  BY <1>1
<1>3. /\ FieldEnd(t, s) \in P \cup {Len(t)}
      /\ \A y \in P \cup {Len(t)} : FieldEnd(t, s) <= y
  <2>1. FieldEnd(t, s) = Min(P \cup {Len(t)})
    BY DEF FieldEnd
  <2> HIDE DEF P
  <2> QED BY <1>2, <2>1, MinLeast
<1>4. FieldEnd(t, s) \in s .. Len(t)
  BY <1>1, <1>3
<1>5. FieldEnd(t, s) < Len(t) => FieldEnd(t, s) \in Separators(t)
  BY <1>3
<1>6. ASSUME NEW p \in s .. FieldEnd(t, s) - 1 PROVE p \notin Separators(t)
  <2>1. ~(FieldEnd(t, s) <= p) /\ p >= s
    BY <1>1, <1>4
  <2> QED BY <1>3, <2>1
<1> QED BY <1>4, <1>5, <1>6

\* A place is the end of a field if it may be one and the first.
LEMMA FieldEndIs ==
  ASSUME NEW T, NEW t \in Seq(T), NEW s \in Places(t), NEW e \in s .. Len(t),
         \A p \in s .. e - 1 : p \notin Separators(t)
  PROVE  /\ e <= FieldEnd(t, s)
         /\ e = Len(t) \/ e \in Separators(t) => FieldEnd(t, s) = e
<1> DEFINE f == FieldEnd(t, s)
<1>1. /\ f \in s .. Len(t) /\ (f < Len(t) => f \in Separators(t))
      /\ \A p \in s .. f - 1 : p \notin Separators(t)
  BY FieldEndFinds
<1>2. s \in Nat /\ Len(t) \in Nat
  BY DEF Places
<1> HIDE DEF f
<1>3. e <= f
  BY <1>1, <1>2
<1>4. ASSUME e < f PROVE e # Len(t) /\ e \notin Separators(t)
  BY <1>1, <1>2, <1>4
<1>5. e = f \/ e < f
  BY <1>1, <1>2, <1>3
<1> QED BY <1>3, <1>4, <1>5 DEF f
\* Behind a field
BehindField(t, s) == IF FieldEnd(t, s) < Len(t) THEN Behind(t, FieldEnd(t, s)) ELSE Len(t)

\* The next field, if there is one, starts there.
LEMMA BehindStarts ==
  ASSUME NEW T, NEW t \in Seq(T), NEW s \in FieldStarts(t)
  PROVE  /\ BehindField(t, s) \in s + 1 .. Len(t)
         /\ BehindField(t, s) = Len(t) \/ BehindField(t, s) \in FieldStarts(t)
<1> DEFINE e == FieldEnd(t, s)
<1>1. s \in 0 .. Len(t) - 1 /\ s \in Places(t) /\ Len(t) \in Nat
  BY StartsOutside DEF Places
<1>2. e \in s .. Len(t) /\ (e < Len(t) => e \in Separators(t))
  BY <1>1, FieldEndFinds
<1> HIDE DEF e
<1>3. CASE e < Len(t)
  <2>1. Behind(t, e) \in {e + 1, e + 2} /\ Behind(t, e) \in 0 .. Len(t)
    BY <1>2, <1>3, SeparatorAt DEF Places
  <2>2. BehindField(t, s) = Behind(t, e)
    BY <1>3 DEF BehindField, e
  <2>3. Behind(t, e) = Len(t) \/ Behind(t, e) \in FieldStarts(t)
    BY <1>2, <1>3, <2>1 DEF FieldStarts
  <2> QED BY <1>1, <1>2, <2>1, <2>2, <2>3
<1>4. CASE ~(e < Len(t))
  <2>1. BehindField(t, s) = Len(t)
    BY <1>4 DEF BehindField, e
  <2> QED BY <1>1, <2>1
<1> QED BY <1>3, <1>4

\* No field starts between CR and LF.
LEMMA StartsWhole ==
  ASSUME NEW T, NEW t \in Seq(T), NEW s \in FieldStarts(t)
  PROVE  ~(s > 0 /\ t[s] = CR /\ t[s + 1] = LF)
<1>1. SUFFICES ASSUME s > 0, t[s] = CR, t[s + 1] = LF PROVE FALSE
  OBVIOUS
<1>2. s \in 0 .. Len(t) - 1 /\ Len(t) \in Nat
  BY StartsOutside
<1>3. PICK q \in Separators(t) : s = Behind(t, q)
  BY <1>1, <1>2 DEF FieldStarts
<1>4. /\ q \in 0 .. Len(t) - 1 /\ s \in {q + 1, q + 2}
      /\ s = q + 2 <=> q + 2 <= Len(t) /\ t[q + 1] = CR /\ t[q + 2] = LF
  BY <1>3, SeparatorAt
<1>5. CASE s = q + 1
  BY <1>1, <1>2, <1>4, <1>5
<1>6. CASE s = q + 2
  <2>1. t[s] = LF
    BY <1>4, <1>6
  <2> QED BY <1>1, <2>1, CsvAssumption
<1> QED BY <1>4, <1>5, <1>6

\* No field starts before.
LEMMA StartsApart ==
  ASSUME NEW T, NEW t \in Seq(T), NEW s \in FieldStarts(t), NEW r \in FieldStarts(t), s < r
  PROVE  BehindField(t, s) <= r
<1> DEFINE e == FieldEnd(t, s)
<1>1. s \in 0 .. Len(t) - 1 /\ r \in 0 .. Len(t) - 1 /\ s \in Places(t) /\ Len(t) \in Nat
  BY StartsOutside DEF Places
<1>2. /\ e \in s .. Len(t) /\ (e < Len(t) => e \in Separators(t))
      /\ \A p \in s .. e - 1 : p \notin Separators(t)
  BY <1>1, FieldEndFinds
<1>3. PICK p \in Separators(t) : r = Behind(t, p)
  BY <1>1 DEF FieldStarts
<1>4. /\ p \in 0 .. Len(t) - 1 /\ r \in {p + 1, p + 2}
      /\ r = p + 2 <=> p + 2 <= Len(t) /\ t[p + 1] = CR /\ t[p + 2] = LF
  BY <1>3, SeparatorAt
<1>5. s <= p
  <2>1. SUFFICES ASSUME p < s PROVE FALSE
    BY <1>1, <1>4
  <2>2. s > 0 /\ t[s] = CR /\ t[s + 1] = LF
    <3>1. r = s + 1 /\ r = p + 2 /\ p + 1 = s
      BY <1>1, <1>4, <2>1
    <3> QED BY <1>1, <1>4, <3>1
  <2> QED BY <2>2, StartsWhole
<1> HIDE DEF e
<1>6. e <= p
  BY <1>1, <1>2, <1>4, <1>5
<1>7. e < Len(t) /\ e \in Separators(t) /\ BehindField(t, s) = Behind(t, e)
  BY <1>1, <1>2, <1>4, <1>6 DEF BehindField, e
<1>8. CASE e = p
  BY <1>1, <1>3, <1>7, <1>8
<1>9. CASE e < p
  <2>1. /\ Behind(t, e) \in {e + 1, e + 2}
    BY <1>7, SeparatorAt
  <2> QED BY <1>1, <1>2, <1>4, <1>7, <1>9, <2>1
<1> QED BY <1>2, <1>4, <1>6, <1>8, <1>9

\* The fields before p are known and proper, and one may start at p.
FieldBorder(t, p) ==
  /\ p \in Places(t)
  /\ p = Len(t) \/ p \in FieldStarts(t)
  /\ \A r \in FieldStarts(t) : r < p => IsField(t, r)

\* The last field before p ends at a delimiter.
AfterComma(t, p) ==
  \E s \in FieldStarts(t) :
    /\ s < p /\ RowGoesOn(t, s)
    /\ \A r \in FieldStarts(t) : r < p => r <= s

\* A text begins with a border.
LEMMA FirstBorder ==
  ASSUME NEW T, NEW t \in Seq(T)
  PROVE  FieldBorder(t, 0) /\ ~AfterComma(t, 0)
<1>1. \A s \in FieldStarts(t) : s \in Nat
  BY StartsOutside
<1>2. 0 = Len(t) \/ 0 \in FieldStarts(t)
  BY DEF FieldStarts
<1> QED BY <1>1, <1>2 DEF FieldBorder, AfterComma, Places

\* Behind a field is the next one.
LEMMA NextBorder ==
  ASSUME NEW T, NEW t \in Seq(T), NEW s \in FieldStarts(t),
         FieldBorder(t, s), IsField(t, s)
  PROVE  /\ FieldBorder(t, BehindField(t, s))
         /\ AfterComma(t, BehindField(t, s)) <=> RowGoesOn(t, s)
<1> DEFINE q == BehindField(t, s)
<1>1. q \in s + 1 .. Len(t) /\ (q = Len(t) \/ q \in FieldStarts(t)) /\ s \in Nat
  BY BehindStarts, StartsOutside
<1>2. \A r \in FieldStarts(t) : r \in Nat /\ (s < r => q <= r)
  BY StartsOutside, StartsApart
<1> HIDE DEF q
<1>3. \A r \in FieldStarts(t) : r < q => r <= s
  BY <1>1, <1>2
<1>4. FieldBorder(t, q)
  BY <1>1, <1>2, <1>3 DEF FieldBorder, Places
<1>5. ASSUME AfterComma(t, q) PROVE RowGoesOn(t, s)
  <2>1. PICK r \in FieldStarts(t) :
          /\ r < q /\ RowGoesOn(t, r)
          /\ \A x \in FieldStarts(t) : x < q => x <= r
    BY <1>5 DEF AfterComma
  <2>2. r = s
    BY <1>1, <1>2, <1>3, <2>1
  <2> QED BY <2>1, <2>2
<1>6. ASSUME RowGoesOn(t, s) PROVE AfterComma(t, q)
  BY <1>1, <1>3, <1>6 DEF AfterComma
<1> QED BY <1>4, <1>5, <1>6 DEF q

-----------------------------------------------------------------------------
(* What reading the fields gives *)

\* What is read of a batch
Entry == Seq(Symbols) \cup {EndOfRow}

\* What a field holds is a string, and so are the entries.
LEMMA ContentIs ==
  ASSUME NEW t \in Seq(Symbols), NEW s \in FieldStarts(t)
  PROVE  /\ Content(t, s) \in Seq(Symbols) /\ Content(t, s) # EndOfRow
         /\ Entries(t, s) \in Seq(Entry)
<1>1. s \in 0 .. Len(t) - 1 /\ s \in Places(t) /\ Len(t) \in Nat
  BY StartsOutside DEF Places
<1>2. FieldEnd(t, s) \in s .. Len(t)
  BY <1>1, FieldEndFinds
<1>3. ASSUME NEW a \in Int, NEW b \in Int, a >= 1, b <= Len(t)
      PROVE  SubSeq(t, a, b) \in Seq(Symbols)
  <2>1. \A i \in a .. b : t[i] \in Symbols
    BY <1>1, <1>3
  <2> QED BY <2>1, SubSeqProperties
<1>4. Content(t, s) \in Seq(Symbols)
  BY <1>1, <1>2, <1>3 DEF Content
<1>5. Content(t, s) # EndOfRow
  BY <1>4, CsvAssumption
<1>6. Entries(t, s) \in Seq(Entry)
  <2> DEFINE c == Content(t, s)
  <2>1. c \in Entry /\ EndOfRow \in Entry
    BY <1>4 DEF Entry
  <2> HIDE DEF c
  <2>2. <<c>> \in Seq(Entry) /\ <<c, EndOfRow>> \in Seq(Entry)
    BY <2>1
  <2> QED BY <2>2 DEF Entries, c
<1> QED BY <1>4, <1>5, <1>6

\* f is the LET of EntriesTo as far as n.
Joins(t, starts, n, f) ==
  /\ f[0] = <<>>
  /\ \A p \in 1 .. n :
       f[p] = IF p - 1 \in starts THEN f[p - 1] \o Entries(t, p - 1) ELSE f[p - 1]

Joined(t, starts, n) == \E f \in [0 .. n -> Seq(Entry)] : Joins(t, starts, n, f)

\* The entries can be joined field by field.
LEMMA JoinsExist ==
  ASSUME NEW t \in Seq(Symbols), NEW starts, starts \subseteq FieldStarts(t)
  PROVE  Joined(t, starts, Len(t))
<1> DEFINE Z == {n \in Nat : n <= Len(t) => Joined(t, starts, n)}
<1>1. 0 \in Z
  <2> DEFINE f == [i \in 0 .. 0 |-> <<>>]
  <2>1. f \in [0 .. 0 -> Seq(Entry)] /\ Joins(t, starts, 0, f)
    BY DEF Joins
  <2> QED BY <2>1 DEF Joined
<1>2. ASSUME NEW n \in Nat, n \in Z PROVE n + 1 \in Z
  <2> SUFFICES ASSUME n + 1 <= Len(t) PROVE Joined(t, starts, n + 1)
    OBVIOUS
  <2>1. PICK f \in [0 .. n -> Seq(Entry)] : Joins(t, starts, n, f)
    BY <1>2 DEF Joined
  <2> DEFINE x == IF n \in starts THEN f[n] \o Entries(t, n) ELSE f[n]
             h == [p \in 0 .. n + 1 |-> IF p <= n THEN f[p] ELSE x]
  <2>2. x \in Seq(Entry)
    <3>1. f[n] \in Seq(Entry) /\ (n \in starts => Entries(t, n) \in Seq(Entry))
      BY <2>1, ContentIs
    <3> QED BY <3>1, ConcatProperties
  <2> HIDE DEF x
  <2>3. h \in [0 .. n + 1 -> Seq(Entry)]
    BY <2>1, <2>2
  <2>4. h[0] = <<>>
    BY <2>1 DEF Joins
  <2>5. ASSUME NEW p \in 1 .. n + 1
        PROVE  h[p] = IF p - 1 \in starts THEN h[p - 1] \o Entries(t, p - 1) ELSE h[p - 1]
    <3>1. CASE p <= n
      <4>1. p \in 1 .. n /\ h[p] = f[p] /\ h[p - 1] = f[p - 1]
        BY <3>1
      <4> HIDE DEF h
      <4> QED BY <4>1, <2>1 DEF Joins
    <3>2. CASE ~(p <= n)
      <4>1. p = n + 1 /\ p - 1 = n /\ h[p] = x /\ h[p - 1] = f[n]
        BY <3>2
      <4> HIDE DEF h
      <4> QED BY <4>1 DEF x
    <3> QED BY <3>1, <3>2
  <2> HIDE DEF h
  <2>6. Joins(t, starts, n + 1, h)
    BY <2>4, <2>5 DEF Joins
  <2> QED BY <2>3, <2>6 DEF Joined
<1>3. Len(t) \in Z
  <2> HIDE DEF Z
  <2> QED BY <1>1, <1>2, SetInduction
<1> QED BY <1>3

\* EntriesTo joins them.
LEMMA EntriesJoin ==
  ASSUME NEW t \in Seq(Symbols), NEW starts, starts \subseteq FieldStarts(t)
  PROVE  /\ EntriesTo(t, starts) \in [Places(t) -> Seq(Entry)]
         /\ Joins(t, starts, Len(t), EntriesTo(t, starts))
<1> DEFINE to[p \in 0 .. Len(t)] ==
             IF p = 0 THEN <<>>
             ELSE IF p - 1 \in starts THEN to[p - 1] \o Entries(t, p - 1)
             ELSE to[p - 1]
<1>1. PICK h \in [0 .. Len(t) -> Seq(Entry)] : Joins(t, starts, Len(t), h)
  BY JoinsExist DEF Joined
<1>2. h = [p \in 0 .. Len(t) |->
             IF p = 0 THEN <<>>
             ELSE IF p - 1 \in starts THEN h[p - 1] \o Entries(t, p - 1)
             ELSE h[p - 1]]
  <2>1. ASSUME NEW p \in 0 .. Len(t)
        PROVE  h[p] = IF p = 0 THEN <<>>
                      ELSE IF p - 1 \in starts THEN h[p - 1] \o Entries(t, p - 1)
                      ELSE h[p - 1]
    <3>1. CASE p = 0
      BY <1>1, <3>1 DEF Joins
    <3>2. CASE p # 0
      <4>1. p \in 1 .. Len(t)
        BY <3>2
      <4> QED BY <1>1, <3>2, <4>1 DEF Joins
    <3> QED BY <3>1, <3>2
  <2> QED BY <2>1
<1>3. to = [p \in 0 .. Len(t) |->
              IF p = 0 THEN <<>>
              ELSE IF p - 1 \in starts THEN to[p - 1] \o Entries(t, p - 1)
              ELSE to[p - 1]]
  BY <1>2
<1>4. EntriesTo(t, starts) = to
  BY DEF EntriesTo
<1> HIDE DEF to
<1>5. Len(t) \in Nat
  OBVIOUS
<1>6. Joins(t, starts, Len(t), to)
  <2>1. to[0] = <<>>
    BY <1>3, <1>5
  <2>2. ASSUME NEW p \in 1 .. Len(t)
        PROVE  to[p] = IF p - 1 \in starts THEN to[p - 1] \o Entries(t, p - 1) ELSE to[p - 1]
    <3>1. p \in 0 .. Len(t) /\ p # 0
      BY <1>5
    <3> QED BY <1>3, <3>1, Zenon
  <2> QED BY <2>1, <2>2 DEF Joins
<1>7. to \in [0 .. Len(t) -> Seq(Entry)]
  <2> DEFINE Z == {n \in Nat : n <= Len(t) => to[n] = h[n]}
  <2>1. 0 \in Z
    BY <1>1, <1>6 DEF Joins
  <2>2. ASSUME NEW n \in Nat, n \in Z PROVE n + 1 \in Z
    <3> SUFFICES ASSUME n + 1 <= Len(t) PROVE to[n + 1] = h[n + 1]
      OBVIOUS
    <3>1. n + 1 \in 1 .. Len(t) /\ (n + 1) - 1 = n /\ to[n] = h[n]
      BY <1>5, <2>2
    <3>2. /\ to[n + 1] = IF n \in starts THEN to[n] \o Entries(t, n) ELSE to[n]
          /\ h[n + 1] = IF n \in starts THEN h[n] \o Entries(t, n) ELSE h[n]
      BY <1>1, <1>6, <3>1 DEF Joins
    <3> QED BY <3>1, <3>2
  <2>3. \A n \in 0 .. Len(t) : to[n] = h[n]
    <3>1. Nat \subseteq Z
      <4> HIDE DEF Z
      <4> QED BY <2>1, <2>2, SetInduction
    <3> QED BY <3>1
  <2>4. \A n \in 0 .. Len(t) : to[n] \in Seq(Entry)
    BY <1>1, <2>3
  <2> QED BY <1>3, <2>4
<1> QED BY <1>4, <1>6, <1>7 DEF Places
\* The entries before p, and all of them
Proper(t, p) == EntriesTo(t, ProperFields(t))[p]

Total(t) == AllEntries(t, ProperFields(t))

\* They are entries, and none before the text.
LEMMA ProperTyped ==
  ASSUME NEW t \in Seq(Symbols)
  PROVE  /\ \A p \in Places(t) : Proper(t, p) \in Seq(Entry)
         /\ Proper(t, 0) = <<>>
<1>1. ProperFields(t) \subseteq FieldStarts(t)
  BY DEF ProperFields
<1>2. /\ EntriesTo(t, ProperFields(t)) \in [Places(t) -> Seq(Entry)]
      /\ Joins(t, ProperFields(t), Len(t), EntriesTo(t, ProperFields(t)))
  BY <1>1, EntriesJoin
<1> QED BY <1>2 DEF Proper, Joins

\* Where no proper field starts nothing is added.
LEMMA ProperStays ==
  ASSUME NEW t \in Seq(Symbols), NEW p \in Places(t), NEW q \in Places(t), p <= q,
         \A r \in ProperFields(t) : r < p \/ q <= r
  PROVE  Proper(t, q) = Proper(t, p)
<1> DEFINE Z == {n \in Nat : p + n <= q => Proper(t, p + n) = Proper(t, p)}
<1>1. p \in Nat /\ q \in Nat /\ Len(t) \in Nat /\ q <= Len(t)
  BY DEF Places
<1>2. Joins(t, ProperFields(t), Len(t), EntriesTo(t, ProperFields(t)))
  BY EntriesJoin DEF ProperFields
<1>3. 0 \in Z
  BY <1>1
<1>4. ASSUME NEW n \in Nat, n \in Z PROVE n + 1 \in Z
  <2> SUFFICES ASSUME p + (n + 1) <= q PROVE Proper(t, p + (n + 1)) = Proper(t, p)
    OBVIOUS
  <2> DEFINE k == p + (n + 1)
  <2>1. k \in 1 .. Len(t) /\ k - 1 = p + n /\ p <= k - 1 /\ k - 1 < q
    BY <1>1
  <2>2. k - 1 \notin ProperFields(t)
    <3>1. ~(k - 1 < p \/ q <= k - 1)
      BY <1>1, <2>1
    <3> QED BY <3>1
  <2>3. Proper(t, k - 1) = Proper(t, p)
    BY <1>1, <1>4, <2>1
  <2> HIDE DEF k
  <2>4. Proper(t, k) = Proper(t, k - 1)
    BY <1>2, <2>1, <2>2 DEF Joins, Proper
  <2> QED BY <2>3, <2>4 DEF k
<1> DEFINE n == q - p
<1>5. n \in Nat /\ p + n = q /\ p + n <= q
  BY <1>1
<1>6. n \in Z
  <2> HIDE DEF Z, n
  <2> QED BY <1>3, <1>4, <1>5, SetInduction
<1>7. Proper(t, p + n) = Proper(t, p)
  <2> HIDE DEF n
  <2> QED BY <1>5, <1>6
<1> HIDE DEF n
<1> QED BY <1>5, <1>7

\* A field adds its own.
LEMMA ProperNext ==
  ASSUME NEW t \in Seq(Symbols), NEW s \in FieldStarts(t), FieldBorder(t, s), IsField(t, s)
  PROVE  Proper(t, BehindField(t, s)) = Proper(t, s) \o Entries(t, s)
<1> DEFINE q == BehindField(t, s)
<1>1. /\ q \in s + 1 .. Len(t) /\ s \in 0 .. Len(t) - 1
      /\ \A r \in FieldStarts(t) : r \in Nat /\ (s < r => q <= r)
  BY BehindStarts, StartsOutside, StartsApart
<1>2. s \in ProperFields(t)
  <2>1. \A r \in FieldStarts(t) : r <= s => r < s \/ r = s
    BY <1>1
  <2> QED BY <2>1 DEF FieldBorder, ProperFields
<1>3. Proper(t, s + 1) = Proper(t, s) \o Entries(t, s)
  <2>1. Joins(t, ProperFields(t), Len(t), EntriesTo(t, ProperFields(t)))
    BY EntriesJoin DEF ProperFields
  <2>2. s + 1 \in 1 .. Len(t) /\ (s + 1) - 1 = s
    BY <1>1
  <2> QED BY <1>2, <2>1, <2>2 DEF Joins, Proper
<1> HIDE DEF q
<1>4. Proper(t, q) = Proper(t, s + 1)
  <2> DEFINE n == s + 1
  <2>1. n \in Places(t) /\ q \in Places(t) /\ n <= q
    BY <1>1 DEF Places
  <2>2. \A r \in ProperFields(t) : r < n \/ q <= r
    BY <1>1 DEF ProperFields
  <2> HIDE DEF n
  <2>3. Proper(t, q) = Proper(t, n)
    BY <2>1, <2>2, ProperStays
  <2> QED BY <2>3 DEF n
<1> QED BY <1>3, <1>4 DEF q

\* Max is the greatest element.
LEMMA MaxIs ==
  ASSUME NEW S, NEW x \in S, S \subseteq Nat, \A y \in S : y <= x
  PROVE  Max(S) = x
<1>1. \E z \in S : \A y \in S : z >= y
  OBVIOUS
<1>2. Max(S) \in S /\ \A y \in S : Max(S) >= y
  BY <1>1 DEF Max
<1> DEFINE n == Max(S)
<1>3. n \in Nat /\ x \in Nat /\ n >= x /\ n <= x
  BY <1>2
<1> HIDE DEF n
<1> QED BY <1>3 DEF n

\* At the end of the text, or where a field is none, all entries are known, but
\* for an empty one behind a delimiter.
LEMMA TotalIs ==
  ASSUME NEW t \in Seq(Symbols), NEW p, FieldBorder(t, p),
         p = Len(t) \/ (p \in FieldStarts(t) /\ ~IsField(t, p))
  PROVE  /\ AfterComma(t, p) => Total(t) = Append(Proper(t, p), <<>>)
         /\ ~AfterComma(t, p) => Total(t) = Proper(t, p)
<1> DEFINE F == ProperFields(t)
<1>1. p \in Places(t) /\ Len(t) \in Places(t) /\ Len(t) \in Nat
  BY DEF FieldBorder, Places
<1>2. \A r \in FieldStarts(t) : r \in Nat /\ r < Len(t)
  BY StartsOutside
<1>3. F = {r \in FieldStarts(t) : r < p}
  <2>1. ASSUME NEW r \in FieldStarts(t), r < p PROVE r \in F
    <3>1. \A x \in FieldStarts(t) : x <= r => x < p
      BY <1>1, <1>2, <2>1 DEF Places
    <3> QED BY <3>1 DEF ProperFields, FieldBorder
  <2>2. ASSUME NEW r \in F PROVE r \in FieldStarts(t) /\ r < p
    <3>1. r \in FieldStarts(t) /\ \A x \in FieldStarts(t) : x <= r => IsField(t, x)
      BY DEF ProperFields
    <3>2. CASE p = Len(t)
      BY <1>2, <3>1, <3>2
    <3>3. CASE p \in FieldStarts(t) /\ ~IsField(t, p)
      <4>1. ~(p <= r)
        BY <3>1, <3>3
      <4> QED BY <1>1, <1>2, <3>1, <4>1 DEF Places
    <3> QED BY <3>2, <3>3
  <2> QED BY <2>1, <2>2
<1> HIDE DEF F
<1>4. Proper(t, Len(t)) = Proper(t, p)
  <2>1. p <= Len(t) /\ \A r \in ProperFields(t) : r < p \/ Len(t) <= r
    BY <1>1, <1>3 DEF F, Places
  <2> QED BY <1>1, <2>1, ProperStays
<1>5. Proper(t, p) \in Seq(Entry) /\ <<>> \in Entry
  BY <1>1, ProperTyped DEF Entry
<1>6. Total(t) = Proper(t, p) \o IF F # {} /\ RowGoesOn(t, Max(F)) THEN <<<<>>>> ELSE <<>>
  BY <1>4 DEF Total, AllEntries, Proper, F
<1>7. AfterComma(t, p) <=> F # {} /\ RowGoesOn(t, Max(F))
  <2>1. ASSUME AfterComma(t, p) PROVE F # {} /\ RowGoesOn(t, Max(F))
    <3>1. PICK s \in FieldStarts(t) :
            /\ s < p /\ RowGoesOn(t, s)
            /\ \A r \in FieldStarts(t) : r < p => r <= s
      BY <2>1 DEF AfterComma
    <3>2. s \in F /\ F \subseteq Nat /\ \A r \in F : r <= s
      BY <1>2, <1>3, <3>1
    <3>3. Max(F) = s
      BY <3>2, MaxIs
    <3> QED BY <3>1, <3>2, <3>3
  <2>2. ASSUME F # {}, RowGoesOn(t, Max(F)) PROVE AfterComma(t, p)
    <3>1. F \subseteq 0 .. Len(t)
      BY <1>2, <1>3
    <3>2. PICK s \in F : \A r \in F : r <= s
      BY <1>1, <2>2, <3>1, GreatestExists
    <3>3. Max(F) = s
      <4>1. F \subseteq Nat
        BY <3>1
      <4> QED BY <3>2, <4>1, MaxIs
    <3>4. s \in FieldStarts(t) /\ s < p /\ \A r \in FieldStarts(t) : r < p => r <= s
      BY <1>3, <3>2
    <3> QED BY <2>2, <3>3, <3>4 DEF AfterComma
  <2> QED BY <2>1, <2>2
<1>8. CASE AfterComma(t, p)
  <2>1. Total(t) = Proper(t, p) \o <<<<>>>>
    BY <1>6, <1>7, <1>8
  <2> QED BY <1>5, <1>8, <2>1, AppendIsConcat
<1>9. CASE ~AfterComma(t, p)
  <2>1. Total(t) = Proper(t, p) \o <<>>
    BY <1>6, <1>7, <1>9
  <2> QED BY <1>5, <1>9, <2>1, ConcatEmptySeq
<1> QED BY <1>8, <1>9

\* ClosedRows takes away what has no end.
LEMMA ClosedIs ==
  ASSUME NEW xs \in Seq(Entry), NEW n \in 0 .. Len(xs), n = 0 \/ xs[n] = EndOfRow,
         \A i \in n + 1 .. Len(xs) : xs[i] # EndOfRow
  PROVE  ClosedRows(xs) = SubSeq(xs, 1, n)
<1> DEFINE S == {0} \cup {i \in DOMAIN xs : xs[i] = EndOfRow}
<1>1. DOMAIN xs = 1 .. Len(xs) /\ Len(xs) \in Nat
  OBVIOUS
<1>2. n \in S /\ S \subseteq Nat /\ \A y \in S : y <= n
  BY <1>1
<1>3. ClosedRows(xs) = SubSeq(xs, 1, Max(S))
  BY DEF ClosedRows
<1> HIDE DEF S
<1> QED BY <1>2, <1>3, MaxIs

\* A row that ends is left.
LEMMA ClosedStays ==
  ASSUME NEW xs \in Seq(Entry), NEW j \in 1 .. Len(xs), xs[j] = EndOfRow
  PROVE  ClosedRows(xs) # <<>>
<1> DEFINE S == {0} \cup {i \in DOMAIN xs : xs[i] = EndOfRow}
<1>1. DOMAIN xs = 1 .. Len(xs) /\ Len(xs) \in Nat
  OBVIOUS
<1>2. j \in S /\ S \subseteq 0 .. Len(xs)
  BY <1>1
<1>3. ClosedRows(xs) = SubSeq(xs, 1, Max(S))
  BY DEF ClosedRows
<1> HIDE DEF S
<1>4. PICK n \in S : \A y \in S : y <= n
  BY <1>1, <1>2, GreatestExists
<1>5. Max(S) = n
  <2>1. S \subseteq Nat
    BY <1>2
  <2> QED BY <1>4, <2>1, MaxIs
<1>6. n \in 1 .. Len(xs)
  BY <1>1, <1>2, <1>4
<1>7. Len(SubSeq(xs, 1, n)) = n - 1 + 1
  BY <1>1, <1>6, PartOf
<1>8. n - 1 + 1 # Len(<<>>)
  BY <1>6
<1> QED BY <1>3, <1>5, <1>7, <1>8

\* So are all of them.
LEMMA TotalTyped ==
  ASSUME NEW t \in Seq(Symbols)
  PROVE  Total(t) \in Seq(Entry)
<1> DEFINE xs == Proper(t, Len(t))
           last == IF ProperFields(t) # {} /\ RowGoesOn(t, Max(ProperFields(t)))
                   THEN <<<<>>>> ELSE <<>>
<1>1. xs \in Seq(Entry)
  BY ProperTyped DEF Places
<1>2. last \in Seq(Entry)
  <2>1. <<>> \in Entry
    BY DEF Entry
  <2>2. <<<<>>>> \in Seq(Entry) /\ <<>> \in Seq(Entry)
    BY <2>1
  <2> QED BY <2>2
<1>3. Total(t) = xs \o last
  BY DEF Total, AllEntries, Proper
<1> HIDE DEF xs, last
<1> QED BY <1>1, <1>2, <1>3, ConcatProperties
-----------------------------------------------------------------------------
(* How far the matcher has read a field *)

\* A plain field from s on, as far as p
PlainTo(t, s, p) ==
  /\ ~IsQuoted(t, s) /\ p \in s .. Len(t) /\ Outside(t, p)
  /\ \A k \in s + 1 .. p : t[k] \notin {Quote, Comma, CR, LF}

\* The quotes that start at s are still open at p.
QuotedTo(t, s, p) ==
  /\ IsQuoted(t, s) /\ p \in s + 1 .. Len(t) /\ ~Outside(t, p)
  /\ \A q \in s .. p - 1 : q \notin Separators(t)
  /\ \A k \in s + 2 .. p : t[k] = Quote \/ ~Outside(t, k - 1)

\* Where a field may begin
LEMMA FieldBegins ==
  ASSUME NEW T, NEW t \in Seq(T), NEW s \in FieldStarts(t)
  PROVE  /\ ~IsQuoted(t, s) => PlainTo(t, s, s)
         /\ IsQuoted(t, s) => QuotedTo(t, s, s + 1)
<1>1. s \in 0 .. Len(t) - 1 /\ Outside(t, s) /\ Len(t) \in Nat
  BY StartsOutside
<1>2. ASSUME ~IsQuoted(t, s) PROVE PlainTo(t, s, s)
  BY <1>1, <1>2 DEF PlainTo
<1>3. ASSUME IsQuoted(t, s) PROVE QuotedTo(t, s, s + 1)
  <2>1. t[s + 1] = Quote
    BY <1>3 DEF IsQuoted
  <2>2. ~Outside(t, s + 1)
    BY <1>1, <2>1, OutsideNext
  <2>3. s \notin Separators(t)
    BY <2>1, CsvAssumption DEF Separators
  <2>4. \A q \in s .. (s + 1) - 1 : q \notin Separators(t)
    BY <1>1, <2>3
  <2>5. s + 1 \in s + 1 .. Len(t) /\ s + 2 .. s + 1 = {}
    BY <1>1
  <2> QED BY <1>3, <2>2, <2>4, <2>5 DEF QuotedTo
<1> QED BY <1>2, <1>3

\* A symbol more
LEMMA PlainNext ==
  ASSUME NEW T, NEW t \in Seq(T), NEW s \in FieldStarts(t), NEW p, PlainTo(t, s, p),
         p < Len(t), t[p + 1] \notin {Quote, Comma, CR, LF}
  PROVE  PlainTo(t, s, p + 1)
<1>1. s \in 0 .. Len(t) - 1 /\ p \in s .. Len(t) /\ Len(t) \in Nat
  BY StartsOutside DEF PlainTo
<1>2. Outside(t, p + 1)
  <2>1. Outside(t, p) /\ t[p + 1] # Quote /\ p \in Nat
    BY <1>1 DEF PlainTo
  <2> QED BY <2>1, OutsideNext
<1>3. ASSUME NEW k \in s + 1 .. p + 1 PROVE t[k] \notin {Quote, Comma, CR, LF}
  <2>1. k = p + 1 \/ k \in s + 1 .. p
    BY <1>1
  <2> QED BY <2>1 DEF PlainTo
<1> QED BY <1>1, <1>2, <1>3 DEF PlainTo

\* ... also between quotes
LEMMA QuotedNext ==
  ASSUME NEW T, NEW t \in Seq(T), NEW s \in FieldStarts(t), NEW p, QuotedTo(t, s, p),
         p < Len(t), t[p + 1] # Quote
  PROVE  QuotedTo(t, s, p + 1)
<1>1. s \in 0 .. Len(t) - 1 /\ p \in s + 1 .. Len(t) /\ Len(t) \in Nat
  BY StartsOutside DEF QuotedTo
<1>2. ~Outside(t, p) /\ ~Outside(t, p + 1)
  BY <1>1, OutsideNext DEF QuotedTo
<1>3. ASSUME NEW q \in s .. (p + 1) - 1 PROVE q \notin Separators(t)
  <2>1. q = p \/ q \in s .. p - 1
    BY <1>1
  <2>2. p \notin Separators(t)
    BY <1>2 DEF Separators
  <2> QED BY <2>1, <2>2 DEF QuotedTo
<1>4. ASSUME NEW k \in s + 2 .. p + 1 PROVE t[k] = Quote \/ ~Outside(t, k - 1)
  <2>1. (k = p + 1 /\ k - 1 = p) \/ k \in s + 2 .. p
    BY <1>1
  <2> QED BY <1>2, <2>1 DEF QuotedTo
<1> QED BY <1>1, <1>2, <1>3, <1>4 DEF QuotedTo

\* A doubled quote
LEMMA QuotedDoubled ==
  ASSUME NEW T, NEW t \in Seq(T), NEW s \in FieldStarts(t), NEW p, QuotedTo(t, s, p),
         p + 2 <= Len(t), t[p + 1] = Quote, t[p + 2] = Quote
  PROVE  QuotedTo(t, s, p + 2)
<1>1. s \in 0 .. Len(t) - 1 /\ p \in s + 1 .. Len(t) /\ Len(t) \in Nat
  BY StartsOutside DEF QuotedTo
<1>2. ~Outside(t, p + 2)
  <2>1. p \in Nat /\ p + 1 \in Nat /\ (p + 1) + 1 = p + 2
    BY <1>1
  <2>2. ~Outside(t, p)
    BY DEF QuotedTo
  <2>3. Outside(t, p + 1) <=> (Outside(t, p) <=> t[p + 1] # Quote)
    BY <2>1, OutsideNext
  <2>4. Outside(t, p + 1)
    BY <2>2, <2>3, Zenon
  <2> QED BY <2>1, <2>4, OutsideNext
<1>3. ASSUME NEW q \in s .. (p + 2) - 1 PROVE q \notin Separators(t)
  <2>1. q = p \/ (q = p + 1 /\ q + 1 = p + 2) \/ q \in s .. p - 1
    BY <1>1
  <2>2. p \notin Separators(t)
    BY CsvAssumption DEF Separators
  <2>3. ASSUME q = p + 1 PROVE q \notin Separators(t)
    <3>1. t[q + 1] = Quote
      BY <1>1, <2>3
    <3> QED BY <3>1, CsvAssumption DEF Separators
  <2> QED BY <2>1, <2>2, <2>3 DEF QuotedTo
<1>4. ASSUME NEW k \in s + 2 .. p + 2 PROVE t[k] = Quote \/ ~Outside(t, k - 1)
  <2>1. k = p + 1 \/ k = p + 2 \/ k \in s + 2 .. p
    BY <1>1
  <2> QED BY <2>1 DEF QuotedTo
<1> QED BY <1>1, <1>2, <1>3, <1>4 DEF QuotedTo

\* The matcher stops in front of a separator.
LEMMA PlainEnds ==
  ASSUME NEW T, NEW t \in Seq(T), NEW s \in FieldStarts(t), NEW p, PlainTo(t, s, p),
         p = Len(t) \/ t[p + 1] \in {Comma, CR, LF}
  PROVE  /\ FieldEnd(t, s) = p /\ IsField(t, s)
         /\ Content(t, s) = SubSeq(t, s + 1, p)
<1>1. s \in 0 .. Len(t) - 1 /\ p \in s .. Len(t) /\ Len(t) \in Nat /\ s \in Places(t)
  BY StartsOutside DEF PlainTo, Places
<1>2. ASSUME NEW q \in s .. p - 1 PROVE q \notin Separators(t)
  <2>1. q + 1 \in s + 1 .. p
    BY <1>1
  <2> QED BY <2>1 DEF PlainTo, Separators
<1>3. ASSUME p # Len(t) PROVE p \in Separators(t)
  <2>1. p \in 0 .. Len(t) - 1
    BY <1>1, <1>3
  <2>2. ~(p > 0 /\ t[p] = CR /\ t[p + 1] = LF)
    <3>1. CASE p = s
      BY <3>1, StartsWhole
    <3>2. CASE p # s
      <4>1. p \in s + 1 .. p
        BY <1>1, <3>2
      <4> QED BY <4>1 DEF PlainTo
    <3> QED BY <3>1, <3>2
  <2> QED BY <1>3, <2>1, <2>2 DEF PlainTo, Separators
<1>4. FieldEnd(t, s) = p
  BY <1>1, <1>2, <1>3, FieldEndIs
<1>5. IsField(t, s)
  BY <1>4 DEF IsField, PlainTo
<1> QED BY <1>4, <1>5 DEF Content, PlainTo

\* The matcher stops behind the quote that closes the field.
LEMMA QuotedEnds ==
  ASSUME NEW T, NEW t \in Seq(T), NEW s \in FieldStarts(t), NEW p, QuotedTo(t, s, p),
         p < Len(t), t[p + 1] = Quote, p + 1 = Len(t) \/ t[p + 2] \in {Comma, CR, LF}
  PROVE  /\ FieldEnd(t, s) = p + 1 /\ IsField(t, s)
         /\ Content(t, s) = SubSeq(t, s + 2, p)
<1>1. s \in 0 .. Len(t) - 1 /\ p \in s + 1 .. Len(t) - 1 /\ Len(t) \in Nat /\ s \in Places(t)
  <2>1. s \in 0 .. Len(t) - 1 /\ Len(t) \in Nat
    BY StartsOutside
  <2>2. p \in s + 1 .. Len(t)
    BY DEF QuotedTo
  <2> QED BY <2>1, <2>2 DEF Places
<1> DEFINE e == p + 1
<1>2. e \in s .. Len(t) /\ e > s + 1 /\ e - 1 = p /\ e + 1 = p + 2
  BY <1>1
<1>3. Outside(t, e)
  <2>1. p \in Nat /\ ~Outside(t, p)
    BY <1>1 DEF QuotedTo
  <2>2. Outside(t, p + 1)
    BY <2>1, OutsideNext
  <2> QED BY <2>2
<1>4. ASSUME NEW q \in s .. e - 1 PROVE q \notin Separators(t)
  <2>1. q = p \/ q \in s .. p - 1
    BY <1>1
  <2>2. p \notin Separators(t)
    BY CsvAssumption DEF Separators
  <2> QED BY <2>1, <2>2 DEF QuotedTo
<1>5. ASSUME e # Len(t) PROVE e \in Separators(t)
  <2>1. e \in 0 .. Len(t) - 1 /\ t[e] # CR /\ t[e + 1] \in {Comma, CR, LF}
    BY <1>1, <1>2, <1>5, CsvAssumption
  <2> HIDE DEF e
  <2> QED BY <1>3, <2>1 DEF Separators
<1> HIDE DEF e
<1>6. FieldEnd(t, s) = e
  BY <1>1, <1>2, <1>4, <1>5, FieldEndIs
<1>7. t[e] = Quote
  BY DEF e
<1>8. IsField(t, s)
  BY <1>2, <1>3, <1>6, <1>7 DEF IsField, QuotedTo
<1>9. Content(t, s) = SubSeq(t, s + 2, p)
  BY <1>2, <1>6 DEF Content, QuotedTo
<1> QED BY <1>6, <1>8, <1>9 DEF e

\* If there is another symbol, the field is none
LEMMA PlainFails ==
  ASSUME NEW T, NEW t \in Seq(T), NEW s \in FieldStarts(t), NEW p, PlainTo(t, s, p),
         p < Len(t), t[p + 1] = Quote
  PROVE  ~IsField(t, s)
<1>1. s \in 0 .. Len(t) - 1 /\ p \in s .. Len(t) - 1 /\ Len(t) \in Nat /\ s \in Places(t)
  BY StartsOutside DEF PlainTo, Places
<1>2. ASSUME NEW q \in s .. (p + 1) - 1 PROVE q \notin Separators(t)
  <2>1. q = p \/ q + 1 \in s + 1 .. p
    BY <1>1
  <2>2. p \notin Separators(t)
    BY CsvAssumption DEF Separators
  <2> QED BY <2>1, <2>2 DEF PlainTo, Separators
<1> DEFINE e == p + 1
<1>3. e \in s .. Len(t) /\ e \in s + 1 .. Len(t)
  BY <1>1
<1>4. e <= FieldEnd(t, s)
  <2> HIDE DEF e
  <2>1. \A q \in s .. e - 1 : q \notin Separators(t)
    BY <1>2 DEF e
  <2> QED BY <1>1, <1>3, <2>1, FieldEndIs
<1>5. FieldEnd(t, s) \in s .. Len(t)
  BY <1>1, FieldEndFinds
<1>6. e \in s + 1 .. FieldEnd(t, s)
  BY <1>1, <1>3, <1>4, <1>5
<1> QED BY <1>6 DEF IsField, PlainTo

\* ... or behind the closing quote
LEMMA QuotedFails ==
  ASSUME NEW T, NEW t \in Seq(T), NEW s \in FieldStarts(t), NEW p, QuotedTo(t, s, p),
         p + 1 < Len(t), t[p + 1] = Quote, t[p + 2] \notin {Quote, Comma, CR, LF}
  PROVE  ~IsField(t, s)
<1>1. s \in 0 .. Len(t) - 1 /\ p \in s + 1 .. Len(t) - 2 /\ Len(t) \in Nat /\ s \in Places(t)
  <2>1. s \in 0 .. Len(t) - 1 /\ Len(t) \in Nat
    BY StartsOutside
  <2>2. p \in s + 1 .. Len(t)
    BY DEF QuotedTo
  <2> QED BY <2>1, <2>2 DEF Places
<1> DEFINE k == p + 2
<1>2. k \in s .. Len(t) /\ k \in s + 2 .. Len(t) /\ k - 1 = p + 1
  BY <1>1
<1>3. Outside(t, k - 1)
  <2>1. p \in Nat /\ ~Outside(t, p)
    BY <1>1 DEF QuotedTo
  <2>2. Outside(t, p + 1)
    BY <2>1, OutsideNext
  <2> QED BY <1>2, <2>2
<1>4. ASSUME NEW q \in s .. k - 1 PROVE q \notin Separators(t)
  <2>1. q = p \/ (q = p + 1 /\ q + 1 = p + 2) \/ q \in s .. p - 1
    BY <1>1
  <2>2. p \notin Separators(t)
    BY CsvAssumption DEF Separators
  <2>3. ASSUME q = p + 1 PROVE q \notin Separators(t)
    <3>1. t[q + 1] \notin {Comma, CR, LF}
      BY <1>1, <2>3
    <3> QED BY <3>1 DEF Separators
  <2> QED BY <2>1, <2>2, <2>3 DEF QuotedTo
<1> HIDE DEF k
<1>5. k <= FieldEnd(t, s) /\ FieldEnd(t, s) \in s .. Len(t)
  BY <1>1, <1>2, <1>4, FieldEndIs, FieldEndFinds
<1>6. t[k] # Quote
  BY DEF k
<1>7. k = FieldEnd(t, s) \/ k \in s + 2 .. FieldEnd(t, s) - 1
  BY <1>1, <1>2, <1>5
<1> QED BY <1>3, <1>6, <1>7 DEF IsField, QuotedTo

\* ... or none, and the quotes are open
LEMMA QuotedStaysOpen ==
  ASSUME NEW T, NEW t \in Seq(T), NEW s \in FieldStarts(t), QuotedTo(t, s, Len(t))
  PROVE  ~IsField(t, s)
<1>1. s \in Places(t) /\ Len(t) \in s .. Len(t)
  BY StartsOutside DEF Places
<1>2. FieldEnd(t, s) = Len(t)
  BY <1>1, FieldEndIs DEF QuotedTo
<1> QED BY <1>2 DEF IsField, QuotedTo
-----------------------------------------------------------------------------
(* The bytes of a batch *)

Byte == Symbols \cup Nat

EntryBytes(x) == IF x = EndOfRow THEN SizeT(0) ELSE SizeT(Len(x) + 1) \o x \o <<0>>

\* Its length is read back as a byte.
Short(x) == x # EndOfRow => Len(x) + 1 < ByteSpan

\* The entries of xs behind the n-th are in bytes, the j-th up to at[j].
Laid(bytes, xs, n, at) ==
  /\ bytes \in Seq(Byte) /\ xs \in Seq(Entry) /\ n \in 0 .. Len(xs)
  /\ at \in [n .. Len(xs) -> 0 .. Len(bytes)]
  /\ at[n] = 0 /\ at[Len(xs)] = Len(bytes)
  /\ \A j \in n + 1 .. Len(xs) :
       /\ Short(xs[j])
       /\ at[j] = at[j - 1] + Len(EntryBytes(xs[j]))
       /\ \A k \in 1 .. Len(EntryBytes(xs[j])) : bytes[at[j - 1] + k] = EntryBytes(xs[j])[k]

\* A number that fits is its own first byte.
LEMMA SizeIs ==
  ASSUME NEW n \in Nat, n < ByteSpan
  PROVE  SizeT(n) = <<n, 0>>
<1>1. ByteSpan \in Nat \ {0}
  BY CsvAssumption
<1>2. \A b \in Nat \ {0} : n < b => n % b = n /\ n \div b = 0
  OBVIOUS
<1>3. n % ByteSpan = n /\ n \div ByteSpan = 0
  BY <1>1, <1>2
<1> QED BY <1>3 DEF SizeT

\* A row's end is two bytes of zero,
LEMMA RowBytes ==
  /\ EntryBytes(EndOfRow) = <<0, 0>>
  /\ EntryBytes(EndOfRow) \in Seq(Byte) /\ Len(EntryBytes(EndOfRow)) = 2
  /\ EntryBytes(EndOfRow)[1] = 0
<1>1. EntryBytes(EndOfRow) = <<0, 0>>
  BY SizeIs, CsvAssumption DEF EntryBytes
<1>2. 0 \in Byte
  BY DEF Byte
<1>3. <<0, 0>> \in Seq(Byte) /\ Len(<<0, 0>>) = 2 /\ <<0, 0>>[1] = 0
  BY <1>2
<1> QED BY <1>1, <1>3

\* ... and a field its length, the symbols and a zero.
LEMMA FieldBytes ==
  ASSUME NEW x \in Seq(Symbols), Len(x) + 1 < ByteSpan
  PROVE  /\ EntryBytes(x) = SizeT(Len(x) + 1) \o x \o <<0>>
         /\ EntryBytes(x) \in Seq(Byte) /\ Len(EntryBytes(x)) = Len(x) + 3
         /\ EntryBytes(x)[1] = Len(x) + 1
         /\ \A i \in 1 .. Len(x) : EntryBytes(x)[i + 2] = x[i]
         /\ EntryBytes(x)[Len(x) + 3] = 0
<1> DEFINE n == Len(x)  s == SizeT(n + 1)  u == s \o x  v == u \o <<0>>
<1>1. n \in Nat /\ n + 1 \in Nat /\ n + 1 < ByteSpan
  OBVIOUS
<1>2. s = <<n + 1, 0>>
  <2> HIDE DEF n
  <2> QED BY <1>1, SizeIs
<1>3. n + 1 \in Byte /\ 0 \in Byte
  BY <1>1 DEF Byte
<1>4. s \in Seq(Byte) /\ Len(s) = 2 /\ s[1] = n + 1
  <2> HIDE DEF n, s
  <2> QED BY <1>2, <1>3
<1>5. x \in Seq(Byte)
  BY SeqMonotonic DEF Byte
<1> HIDE DEF s
<1>6. /\ u \in Seq(Byte) /\ Len(u) = 2 + n
      /\ \A i \in 1 .. 2 + n : u[i] = IF i <= 2 THEN s[i] ELSE x[i - 2]
  <2>1. /\ s \o x \in Seq(Byte) /\ Len(s \o x) = Len(s) + Len(x)
        /\ \A i \in 1 .. Len(s) + Len(x) :
             (s \o x)[i] = IF i <= Len(s) THEN s[i] ELSE x[i - Len(s)]
    BY <1>4, <1>5, ConcatProperties
  <2> QED BY <1>4, <2>1
<1> HIDE DEF u, n
<1>7. <<0>> \in Seq(Byte) /\ Len(<<0>>) = 1 /\ <<0>>[1] = 0
  BY <1>3
<1>8. /\ v \in Seq(Byte) /\ Len(v) = Len(u) + Len(<<0>>)
      /\ \A i \in 1 .. Len(u) + Len(<<0>>) : v[i] = IF i <= Len(u) THEN u[i] ELSE <<0>>[i - Len(u)]
  BY <1>6, <1>7, ConcatProperties
<1> HIDE DEF v
<1>9. Len(v) = n + 3 /\ \A i \in 1 .. n + 3 : v[i] = IF i <= 2 + n THEN u[i] ELSE <<0>>[i - (2 + n)]
  BY <1>1, <1>6, <1>7, <1>8
<1>10. v[1] = n + 1
  BY <1>1, <1>4, <1>6, <1>9
<1>11. ASSUME NEW i \in 1 .. n PROVE v[i + 2] = x[i]
  <2> DEFINE k == i + 2
  <2>1. k \in 1 .. n + 3 /\ k \in 1 .. 2 + n /\ ~(k <= 2) /\ k - 2 = i
    BY <1>1
  <2> HIDE DEF k
  <2>2. v[k] = x[i]
    BY <1>6, <1>9, <2>1
  <2> QED BY <2>2 DEF k
<1>12. v[n + 3] = 0
  <2> DEFINE k == n + 3
  <2>1. k \in 1 .. n + 3 /\ ~(k <= 2 + n) /\ k - (2 + n) = 1
    BY <1>1
  <2> HIDE DEF k
  <2>2. v[k] = 0
    BY <1>7, <1>9, <2>1
  <2> QED BY <2>2 DEF k
<1>13. x # EndOfRow
  BY CsvAssumption
<1>14. EntryBytes(x) = v
  BY <1>13 DEF EntryBytes, v, u, s, n
<1> QED BY <1>8, <1>9, <1>10, <1>11, <1>12, <1>14 DEF v, u, s, n

\* Every entry is at least a length.
LEMMA EntryBytesTyped ==
  ASSUME NEW x \in Entry, Short(x)
  PROVE  EntryBytes(x) \in Seq(Byte) /\ Len(EntryBytes(x)) >= 2
<1>1. CASE x = EndOfRow
  BY <1>1, RowBytes
<1>2. CASE x # EndOfRow
  <2>1. x \in Seq(Symbols) /\ Len(x) + 1 < ByteSpan
    BY <1>2 DEF Entry, Short
  <2> QED BY <2>1, FieldBytes
<1> QED BY <1>1, <1>2

\* Nothing is in an empty batch.
LEMMA LaidNothing ==
  ASSUME NEW xs \in Seq(Entry)
  PROVE  \E at : Laid(<<>>, xs, Len(xs), at)
<1> DEFINE n == Len(xs)  at == [j \in n .. n |-> 0]
<1>1. n \in Nat /\ Len(<<>>) = 0 /\ <<>> \in Seq(Byte)
  OBVIOUS
<1> HIDE DEF n
<1>2. at \in [n .. n -> 0 .. 0] /\ at[n] = 0 /\ n + 1 .. n = {} /\ n \in 0 .. n
  BY <1>1
<1>3. Laid(<<>>, xs, n, at)
  <2> HIDE DEF at
  <2> QED BY <1>1, <1>2 DEF Laid, n
<1> QED BY <1>3 DEF n

\* One entry more
LEMMA LaidMore ==
  ASSUME NEW bytes, NEW xs, NEW n, \E at : Laid(bytes, xs, n, at), NEW x \in Entry, Short(x)
  PROVE  \E at : Laid(bytes \o EntryBytes(x), Append(xs, x), n, at)
<1>1. PICK at : Laid(bytes, xs, n, at)
  OBVIOUS
<1> DEFINE e == EntryBytes(x)  ys == Append(xs, x)  more == bytes \o e
           l == Len(xs)  b == Len(bytes)  c == Len(e)
           to == [j \in n .. l + 1 |-> IF j <= l THEN at[j] ELSE b + c]
<1>2. /\ bytes \in Seq(Byte) /\ xs \in Seq(Entry) /\ n \in 0 .. l
      /\ at \in [n .. l -> 0 .. b] /\ at[n] = 0 /\ at[l] = b
      /\ \A j \in n + 1 .. l :
           /\ Short(xs[j])
           /\ at[j] = at[j - 1] + Len(EntryBytes(xs[j]))
           /\ \A k \in 1 .. Len(EntryBytes(xs[j])) : bytes[at[j - 1] + k] = EntryBytes(xs[j])[k]
  BY <1>1 DEF Laid
<1>3. l \in Nat /\ b \in Nat /\ c \in Nat /\ e \in Seq(Byte)
  <2>1. e \in Seq(Byte)
    BY EntryBytesTyped
  <2> QED BY <1>2, <2>1, LenProperties
<1>4. /\ ys \in Seq(Entry) /\ Len(ys) = l + 1
      /\ \A j \in 1 .. l : ys[j] = xs[j]
      /\ ys[l + 1] = x
  BY <1>2, AppendProperties
<1>5. /\ more \in Seq(Byte) /\ Len(more) = b + c
      /\ \A i \in 1 .. b + c : more[i] = IF i <= b THEN bytes[i] ELSE e[i - b]
  <2> HIDE DEF e
  <2> QED BY <1>2, <1>3, ConcatProperties
<1> HIDE DEF e, ys, more, l, b, c
<1>6. /\ to \in [n .. l + 1 -> 0 .. b + c]
      /\ \A j \in n .. l : to[j] = at[j]
      /\ to[l + 1] = b + c
  <2>1. ASSUME NEW j \in n .. l + 1 PROVE (IF j <= l THEN at[j] ELSE b + c) \in 0 .. b + c
    <3>1. CASE j <= l
      <4>1. j \in n .. l
        BY <1>2, <1>3, <3>1
      <4>2. at[j] \in 0 .. b
        BY <1>2, <4>1
      <4> QED BY <1>3, <3>1, <4>2
    <3>2. CASE ~(j <= l)
      BY <1>3, <3>2
    <3> QED BY <3>1, <3>2
  <2>2. l + 1 \in n .. l + 1 /\ ~(l + 1 <= l) /\ n .. l \subseteq n .. l + 1
    BY <1>2, <1>3
  <2> QED BY <2>1, <2>2
<1> HIDE DEF to
<1>7. ASSUME NEW j \in n + 1 .. l + 1
      PROVE  /\ Short(ys[j])
             /\ to[j] = to[j - 1] + Len(EntryBytes(ys[j]))
             /\ \A k \in 1 .. Len(EntryBytes(ys[j])) : more[to[j - 1] + k] = EntryBytes(ys[j])[k]
  <2>1. CASE j <= l
    <3>1. j \in n + 1 .. l /\ j \in 1 .. l /\ j \in n .. l /\ j - 1 \in n .. l
      BY <1>2, <1>3, <2>1
    <3>2. /\ ys[j] = xs[j] /\ to[j] = at[j] /\ to[j - 1] = at[j - 1]
          /\ at[j] \in 0 .. b /\ at[j - 1] \in 0 .. b
      BY <1>2, <1>4, <1>6, <3>1
    <3> DEFINE y == EntryBytes(xs[j])
    <3>3. /\ Short(xs[j]) /\ at[j] = at[j - 1] + Len(y)
          /\ \A k \in 1 .. Len(y) : bytes[at[j - 1] + k] = y[k]
      BY <1>2, <3>1
    <3>4. Len(y) \in Nat
      <4>1. xs[j] \in Entry
        BY <1>2, <3>1 DEF l
      <4> QED BY <3>3, <4>1, EntryBytesTyped, LenProperties
    <3> HIDE DEF y
    <3>5. ASSUME NEW k \in 1 .. Len(y) PROVE more[at[j - 1] + k] = y[k]
      <4>1. at[j - 1] + k \in 1 .. b + c /\ at[j - 1] + k <= b
        BY <1>3, <3>2, <3>3, <3>4
      <4> QED BY <1>5, <3>3, <4>1
    <3> QED BY <3>2, <3>3, <3>5 DEF y
  <2>2. CASE ~(j <= l)
    <3>1. j = l + 1 /\ j - 1 = l /\ l \in n .. l
      BY <1>2, <1>3, <2>2
    <3>2. ys[j] = x /\ to[j] = b + c /\ to[j - 1] = b /\ EntryBytes(ys[j]) = e
      BY <1>2, <1>4, <1>6, <3>1 DEF e
    <3>3. ASSUME NEW k \in 1 .. c PROVE more[b + k] = e[k]
      <4>1. b + k \in 1 .. b + c /\ ~(b + k <= b) /\ (b + k) - b = k
        BY <1>3
      <4> QED BY <1>5, <4>1
    <3> QED BY <3>2, <3>3 DEF c
  <2> QED BY <2>1, <2>2
<1>8. to[n] = 0 /\ to[Len(ys)] = Len(more) /\ n \in 0 .. l + 1
  <2>1. n \in n .. l
    BY <1>2
  <2> QED BY <1>2, <1>3, <1>4, <1>5, <1>6, <2>1
<1>9. Laid(more, ys, n, to)
  BY <1>4, <1>5, <1>6, <1>7, <1>8 DEF Laid
<1> QED BY <1>9 DEF more, e, ys
\* A part that has the symbols of x is x.
LEMMA SliceIs ==
  ASSUME NEW T, NEW t \in Seq(T), NEW x \in Seq(T), NEW c \in Nat, c + Len(x) <= Len(t),
         \A h \in 1 .. Len(x) : t[c + h] = x[h]
  PROVE  SubSeq(t, c + 1, c + Len(x)) = x
<1> PICK l : l = Len(x)
  OBVIOUS
<1> PICK f : f = c + 1
  OBVIOUS
<1> PICK g : g = c + l
  OBVIOUS
<1> DEFINE y == SubSeq(t, f, g)
<1>1. l \in Nat /\ f \in Nat \ {0} /\ g \in 0 .. Len(t) /\ f <= g + 1 /\ g - f + 1 = l
      /\ Len(t) \in Nat
  OBVIOUS
<1>2. /\ y \in Seq(T) /\ Len(y) = g - f + 1
      /\ \A h \in 1 .. g - f + 1 : y[h] = t[f + h - 1]
  BY <1>1, PartOf
<1> HIDE DEF y
<1>3. ASSUME NEW h \in 1 .. l PROVE y[h] = x[h]
  <2>1. f + h - 1 = c + h /\ h \in 1 .. g - f + 1
    BY <1>1
  <2> QED BY <1>2, <2>1
<1>4. y = x
  BY <1>1, <1>2, <1>3, SeqEqual
<1> QED BY <1>4 DEF y

\* Reading on at at[k] gives the entry behind the k-th, and stands at at[k + 1].
LEMMA ReadsNext ==
  ASSUME NEW xs, NEW n, NEW at, Laid(batch, xs, n, at), NEW k \in n .. Len(xs) - 1,
         NEW len \in LengthsAt(at[k])
  PROVE  /\ at[k] < Len(batch)
         /\ at[k] + WordBytes + len = at[k + 1]
         /\ xs[k + 1] = IF len > 0 THEN StringAt(at[k] + WordBytes) ELSE EndOfRow
<1> DEFINE i == at[k]  x == xs[k + 1]  b == Len(batch)  e == EntryBytes(x)
<1>1. /\ batch \in Seq(Byte) /\ xs \in Seq(Entry) /\ n \in 0 .. Len(xs)
      /\ at \in [n .. Len(xs) -> 0 .. b]
      /\ \A j \in n + 1 .. Len(xs) :
           /\ Short(xs[j])
           /\ at[j] = at[j - 1] + Len(EntryBytes(xs[j]))
           /\ \A h \in 1 .. Len(EntryBytes(xs[j])) : batch[at[j - 1] + h] = EntryBytes(xs[j])[h]
  BY DEF Laid
<1>2. k + 1 \in n + 1 .. Len(xs) /\ k + 1 \in 1 .. Len(xs) /\ (k + 1) - 1 = k
      /\ k \in n .. Len(xs) /\ k + 1 \in n .. Len(xs)
  <2> PICK l : l = Len(xs)
    OBVIOUS
  <2>1. l \in Nat /\ n \in 0 .. l /\ k \in n .. l - 1
    BY <1>1
  <2>2. k + 1 \in n + 1 .. l /\ k + 1 \in 1 .. l /\ (k + 1) - 1 = k
        /\ k \in n .. l /\ k + 1 \in n .. l
    BY <2>1
  <2> QED BY <2>2
<1>3. /\ Short(x) /\ at[k + 1] = i + Len(e)
      /\ \A h \in 1 .. Len(e) : batch[i + h] = e[h]
  BY <1>1, <1>2
<1>4. i \in Nat /\ at[k + 1] <= b /\ b \in Nat /\ x \in Entry
  <2>1. b \in Nat /\ x \in Entry
    BY <1>1, <1>2
  <2>2. at[k] \in 0 .. b /\ at[k + 1] \in 0 .. b
    BY <1>1, <1>2
  <2> HIDE DEF b
  <2> QED BY <2>1, <2>2
<1>5. CASE x = EndOfRow
  <2>1. Len(e) = 2 /\ e[1] = 0
    BY <1>5, RowBytes
  <2>2. batch[i + 1] = 0 /\ at[k + 1] = i + 2
    <3>1. 1 \in 1 .. Len(e)
      BY <2>1
    <3> HIDE DEF e, i
    <3> QED BY <1>3, <2>1, <3>1
  <2>3. len = 0
    <3>1. 0 \notin Symbols
      BY CsvAssumption
    <3> QED BY <2>2, <3>1 DEF LengthsAt
  <2> HIDE DEF i, x
  <2>4. i < b /\ i + WordBytes + len = i + 2
    BY <1>4, <2>2, <2>3 DEF WordBytes
  <2>5. ~(len > 0)
    BY <2>3
  <2> QED BY <1>5, <2>2, <2>4, <2>5 DEF i, x
<1>6. CASE x # EndOfRow
  <2> DEFINE l == Len(x)
  <2>1. x \in Seq(Symbols) /\ l + 1 < ByteSpan
    BY <1>3, <1>4, <1>6 DEF Entry, Short
  <2>2. /\ Len(e) = l + 3 /\ e[1] = l + 1
        /\ \A h \in 1 .. l : e[h + 2] = x[h]
        /\ e[l + 3] = 0
    BY <2>1, FieldBytes
  <2>3. l \in Nat /\ \A h \in 1 .. l : x[h] \in Symbols
    BY <2>1
  <2> HIDE DEF i, x, e, l, b
  <2>4. batch[i + 1] = l + 1 /\ batch[i + (l + 3)] = 0 /\ at[k + 1] = i + (l + 3)
    <3>1. 1 \in 1 .. Len(e) /\ l + 3 \in 1 .. Len(e)
      BY <2>2, <2>3
    <3> QED BY <1>3, <2>2, <3>1
  <2>5. \A h \in 1 .. l : batch[i + (h + 2)] = x[h]
    <3>1. \A h \in 1 .. l : h + 2 \in 1 .. Len(e)
      BY <2>2, <2>3
    <3> QED BY <1>3, <2>2, <3>1
  <2>6. len = l + 1
    <3>1. batch[i + 1] \notin Symbols
      BY <2>3, <2>4, CsvAssumption
    <3> QED BY <2>4, <3>1 DEF LengthsAt, i
  <2> DEFINE c == i + WordBytes  ends == {q \in c + 1 .. Len(batch) : batch[q] = 0}  z == c + l + 1
  <2>7. c \in Nat /\ z \in c + 1 .. b /\ i + (l + 3) = z /\ c = i + 2
    BY <1>4, <2>3, <2>4 DEF WordBytes
  <2>8. z \in ends
    BY <2>4, <2>7 DEF b
  <2>9. \A y \in ends : z <= y
    <3> SUFFICES ASSUME NEW y \in ends, ~(z <= y) PROVE FALSE
      OBVIOUS
    <3> DEFINE h == y - c
    <3>1. y \in c + 1 .. b /\ batch[y] = 0
      BY DEF b
    <3>2. h \in 1 .. l /\ i + (h + 2) = y
      <4>1. ~(c + l + 1 <= y) /\ c \in Nat /\ c = i + 2
        BY <2>7
      <4> HIDE DEF c
      <4> QED BY <1>4, <2>3, <3>1, <4>1
    <3> HIDE DEF h
    <3>3. 0 \in Symbols
      BY <2>3, <2>5, <3>1, <3>2
    <3> QED BY <3>3, CsvAssumption
  <2>10. ends \subseteq Nat
    <3>1. \A q \in c + 1 .. Len(batch) : q \in Nat
      BY <1>4, <2>7 DEF b
    <3> QED BY <3>1
  <2>11. Min(ends) = z
    <3> HIDE DEF ends, z
    <3>1. Min(ends) \in ends /\ Min(ends) <= z
      BY <2>8, <2>10, MinLeast
    <3>2. z <= Min(ends) /\ Min(ends) \in Nat /\ z \in Nat
      BY <2>8, <2>9, <2>10, <3>1
    <3> QED BY <3>1, <3>2
  <2> HIDE DEF c, ends
  <2>12. StringAt(c) = SubSeq(batch, c + 1, c + l)
    <3>1. ends # {} /\ z - 1 = c + l
      BY <2>3, <2>7, <2>8
    <3> HIDE DEF z
    <3> QED BY <2>11, <3>1 DEF StringAt, ends
  <2>13. SubSeq(batch, c + 1, c + l) = x
    <3>1. c + l <= Len(batch)
      BY <2>3, <2>7 DEF b
    <3>2. \A h \in 1 .. l : batch[c + h] = x[h]
      <4>1. \A h \in 1 .. l : c + h = i + (h + 2)
        BY <1>4, <2>3, <2>7
      <4> QED BY <2>5, <4>1
    <3>3. x \in Seq(Byte)
      BY <2>1, SeqMonotonic DEF Byte
    <3> QED BY <1>1, <2>7, <3>1, <3>2, <3>3, SliceIs DEF l
  <2>14. i < b /\ c + len = at[k + 1] /\ len > 0
    BY <1>4, <2>3, <2>4, <2>6, <2>7
  <2> QED BY <2>12, <2>13, <2>14 DEF i, x, b, c
<1> QED BY <1>5, <1>6

\* All has been read at the end of the bytes, and not before.
LEMMA ReadsAll ==
  ASSUME NEW xs, NEW n, NEW at, Laid(batch, xs, n, at), NEW k \in n .. Len(xs)
  PROVE  at[k] >= Len(batch) => k = Len(xs)
<1> SUFFICES ASSUME k # Len(xs) PROVE at[k] < Len(batch)
  <2>1. Len(batch) \in Nat /\ at[k] \in Int
    BY DEF Laid
  <2> QED BY <2>1
<1> DEFINE i == at[k]  e == EntryBytes(xs[k + 1])
<1>1. xs \in Seq(Entry) /\ n \in 0 .. Len(xs) /\ at \in [n .. Len(xs) -> 0 .. Len(batch)]
      /\ Len(batch) \in Nat
  BY DEF Laid
<1>2. k + 1 \in n + 1 .. Len(xs) /\ k + 1 \in 1 .. Len(xs) /\ (k + 1) - 1 = k
      /\ k + 1 \in n .. Len(xs)
  <2>1. Len(xs) \in Nat
    BY <1>1
  <2> QED BY <1>1, <2>1
<1>3. Short(xs[k + 1]) /\ at[k + 1] = i + Len(e)
  BY <1>2 DEF Laid
<1>4. Len(e) \in Nat /\ Len(e) >= 2
  <2>1. xs[k + 1] \in Entry
    BY <1>1, <1>2
  <2>2. e \in Seq(Byte) /\ Len(e) >= 2
    BY <1>3, <2>1, EntryBytesTyped
  <2> QED BY <2>2, LenProperties
<1>5. i \in Nat /\ at[k + 1] \in 0 .. Len(batch)
  BY <1>1, <1>2
<1> HIDE DEF i, e
<1>6. i < Len(batch)
  BY <1>1, <1>3, <1>4, <1>5
<1> QED BY <1>6 DEF i

-----------------------------------------------------------------------------
(* The invariant *)

CsvTypeOK ==
  /\ text \in Seq(Symbols)
  /\ m \in MinersOf(text)
  /\ row_count \in Nat /\ batch_size \in Nat /\ parses \in Nat
  /\ pc \in {"idle", "rows", "quoted", "plain", "field", "end", "reading"}
  /\ pc # "idle" => parses > 0

\* What has been read are the first of the entries xs.
Begins(xs) ==
  /\ xs \in Seq(Entry) /\ read \in Seq(Entry) /\ Len(read) <= Len(xs)
  /\ \A i \in 1 .. Len(read) : read[i] = xs[i]

\* The others are in the batch, which begins with a row and has so many.
Fetched(xs, bytes, rows) ==
  /\ Begins(xs)
  /\ read = <<>> \/ read[Len(read)] = EndOfRow
  /\ parses = 1 => read = <<>>
  /\ rows = 0 <=> \A j \in Len(read) + 1 .. Len(xs) : xs[j] # EndOfRow
  /\ \E at : Laid(bytes, xs, Len(read), at)

\* The fields before p, and no others, are in the batches.
Between(p) ==
  /\ FieldBorder(text, p)
  /\ was = "delimiter" <=> AfterComma(text, p)
  /\ Fetched(Proper(text, p), batch, row_count)

RowsWell == pc = "rows" => Between(m.pos)

\* A field is being read, and those before it are known.
QuotedWell ==
  pc = "quoted" =>
    \E s \in FieldStarts(text) :
      Between(s) /\ m.start = s + 1 /\ QuotedTo(text, s, m.pos)

PlainWell ==
  pc = "plain" =>
    \E s \in FieldStarts(text) :
      Between(s) /\ m.start = s /\ PlainTo(text, s, m.pos)

\* It has been read.
PlainRead(s) ==
  /\ m.start = s /\ m.end = m.pos /\ PlainTo(text, s, m.pos)
  /\ m.pos < Len(text) => text[m.pos + 1] \in {Quote, Comma, CR, LF}

QuotedRead(s) ==
  /\ m.start = s + 1 /\ m.end \in Nat /\ m.pos = m.end + 1 /\ QuotedTo(text, s, m.end)
  /\ text[m.pos] = Quote
  /\ m.pos < Len(text) => text[m.pos + 1] # Quote

FieldWell ==
  pc = "field" => \E s \in FieldStarts(text) : Between(s) /\ (PlainRead(s) \/ QuotedRead(s))

\* Nothing more comes out of the text.
AllRead == AtEnd(text, m) \/ ~WellFormed(text)

EndsWithRow(xs) == xs # <<>> /\ xs[Len(xs)] = EndOfRow

\* The loop ends at the end of the text or at a malformed field, or because
\* there are as many rows as were asked for.
EndWell ==
  pc = "end" =>
    \/ \E p \in Places(text) :
         /\ Between(p)
         /\ (p = Len(text) /\ m.pos = p) \/ (p \in FieldStarts(text) /\ ~IsField(text, p))
    \/ /\ batch_size > 0 /\ row_count > 0 /\ was # "delimiter"
       /\ Between(m.pos) /\ EndsWithRow(Proper(text, m.pos))

\* The entries xs are what a batch with rows reaches up to.
Result(xs) ==
  /\ row_count > 0 /\ \E j \in 1 .. Len(xs) : xs[j] = EndOfRow
  /\ \/ xs = Total(text) /\ AllRead
     \/ /\ batch_size > 0 /\ FieldBorder(text, m.pos) /\ ~AfterComma(text, m.pos)
        /\ xs = Proper(text, m.pos) /\ EndsWithRow(xs)

ReadingWell ==
  pc = "reading" =>
    \E xs : /\ Result(xs) /\ Begins(xs)
            /\ \E n \in 0 .. Len(read) : \E at :
                 Laid(batch, xs, n, at) /\ iter = at[Len(read)]

IdleWell ==
  pc = "idle" =>
    IF parses = 0 THEN m.pos = 0 /\ read = <<>> /\ row_count = 0
    ELSE \/ /\ row_count = 0 /\ read = ClosedRows(Total(text)) /\ AllRead
            /\ parses = 1 => read = <<>>
         \/ Result(read)

CsvWell ==
  /\ RowsWell /\ QuotedWell /\ PlainWell /\ FieldWell /\ EndWell /\ ReadingWell /\ IdleWell

\* The texts that the properties speak of: a program that goes on behind a
\* malformed field is left alone.
Followed == FieldsFit(text) /\ (WellFormed(text) \/ parses <= 1)

CsvInv == CsvTypeOK /\ (Followed => CsvWell)

-----------------------------------------------------------------------------
(* The first states, and types *)

\* The program has not parsed yet.
LEMMA CsvFirst == CsvInit => CsvInv
<1> SUFFICES ASSUME CsvInit PROVE CsvInv
  OBVIOUS
<1>1. text \in BoundedSeq(Symbols, MaxText)
  BY DEF CsvInit, text
<1>2. text \in Seq(Symbols)
  <2>1. PICK n \in 0 .. MaxText : text \in [1 .. n -> Symbols]
    BY <1>1 DEF BoundedSeq, SeqOf
  <2>2. n \in Nat
    BY <2>1, CsvAssumption
  <2> QED BY <2>1, <2>2
<1>3. Len(text) \in Nat
  BY <1>2
<1>4. m \in MinersOf(text) /\ m.pos = 0
  BY <1>3 DEF CsvInit, MinerAt, MinersOf, Places
<1>5. CsvTypeOK
  BY <1>2, <1>4 DEF CsvInit, CsvTypeOK
<1>6. CsvWell
  BY <1>4 DEF CsvInit, CsvWell, RowsWell, QuotedWell, PlainWell, FieldWell, EndWell,
              ReadingWell, IdleWell
<1> QED BY <1>5, <1>6 DEF CsvInv

\* What happens to a miner
LEMMA MinerChanges ==
  ASSUME NEW t, NEW x \in MinersOf(t)
  PROVE  /\ MayMark(x) => /\ MarkStart(x) \in MinersOf(t) /\ MarkEnd(x) \in MinersOf(t)
                          /\ MarkStart(x) = [x EXCEPT !.start = x.pos]
                          /\ MarkEnd(x) = [x EXCEPT !.end = x.pos]
         /\ MayMake(x, TRUE) => Made(x) \in MinersOf(t)
         /\ Made(x).pos = x.pos
         /\ RunOver(x) \in MinersOf(t) /\ RunOver(x).pos = x.pos
<1>1. x.pos \in Nat
  BY DEF MinersOf, Places
<1>2. MayMark(x) => /\ MarkStart(x) \in MinersOf(t) /\ MarkEnd(x) \in MinersOf(t)
                    /\ MarkStart(x) = [x EXCEPT !.start = x.pos]
                    /\ MarkEnd(x) = [x EXCEPT !.end = x.pos]
  BY <1>1 DEF MarkStart, MarkEnd, MinersOf
<1>3. MayMake(x, TRUE) => Made(x) \in MinersOf(t)
  BY DEF MayMake, Made, MinersOf
<1>4. Made(x).pos = x.pos
  BY DEF Made, MinersOf
<1>5. RunOver(x) \in MinersOf(t) /\ RunOver(x).pos = x.pos
  BY <1>1 DEF RunOver, LaterOf, MinersOf
<1> QED BY <1>2, <1>3, <1>4, <1>5

\* ... when it moves
LEMMA MinerMovesBy ==
  ASSUME NEW t, NEW x \in MinersOf(t), NEW n \in Nat, Len(t) \in Nat, x.pos + n <= Len(t)
  PROVE  /\ Moved(x, n) \in MinersOf(t) /\ Moved(x, n).pos = x.pos + n
         /\ Moved(x, n).start = x.start /\ Moved(x, n).end = x.end
<1>1. x.pos \in Nat /\ x.pos + n \in Places(t)
  BY DEF MinersOf, Places
<1>2. Moved(x, n) = [x EXCEPT !.pos = x.pos + n]
  BY DEF Moved
<1> QED BY <1>1, <1>2 DEF MinersOf

\* CR and LF are one newline, or each is one.
LEMMA NewlineIs ==
  ASSUME text \in Seq(Symbols), m \in MinersOf(text)
  PROVE  /\ NewlineWidth \in 0 .. 2 /\ m.pos + NewlineWidth <= Len(text)
         /\ NewlineWidth > 0 <=> m.pos < Len(text) /\ text[m.pos + 1] \in {CR, LF}
         /\ NewlineWidth > 0 => Behind(text, m.pos) = m.pos + NewlineWidth
<1>1. m.pos \in Nat /\ m.pos <= Len(text) /\ Len(text) \in Nat
  BY DEF MinersOf, Places
<1> DEFINE p == m.pos
           both == p + 2 <= Len(text) /\ text[p + 1] = CR /\ text[p + 2] = LF
<1>2. SeesString(text, m, <<CR, LF>>) <=> both
  BY <1>1, SeesTwo
<1>3. SeesString(text, MinerAt(p), <<CR, LF>>) <=> both
  <2>1. MinerAt(p).pos = p
    BY DEF MinerAt
  <2> QED BY <1>1, <2>1, SeesTwo
<1>4. Sees(text, m, {CR, LF}) <=> p < Len(text) /\ text[p + 1] \in {CR, LF}
  BY <1>1 DEF Sees, AtEnd
<1>5. NewlineWidth = IF both THEN 2 ELSE IF Sees(text, m, {CR, LF}) THEN 1 ELSE 0
  BY <1>2 DEF NewlineWidth
<1>6. Behind(text, p) = IF both THEN p + 2 ELSE p + 1
  BY <1>3 DEF Behind
<1>7. CASE both
  BY <1>1, <1>5, <1>6, <1>7
<1>8. CASE ~both
  BY <1>1, <1>4, <1>5, <1>6, <1>8
<1> QED BY <1>7, <1>8

\* Types are kept, the text stays, and the parses become no fewer.
LEMMA CsvTypes ==
  ASSUME CsvTypeOK, [CsvNext]_csvVars
  PROVE  CsvTypeOK' /\ input' = input /\ text' = text /\ (Followed' => Followed)
<1>1. input' = input
  BY DEF CsvNext, csvVars, Parse, StartQuoted, StartPlain, ReadQuoted, ReadPlain, Read,
         CloseQuoted, ClosePlain, FieldEnds, RowEnds, EndField, FieldFails, TextEnds,
         ReturnBatch, GetNext, BatchRead, Stopped
<1>2. text' = text
  BY <1>1 DEF text
<1>3. /\ text \in Seq(Symbols) /\ Len(text) \in Nat /\ m \in MinersOf(text)
      /\ m.pos \in Nat /\ m.pos <= Len(text)
      /\ row_count \in Nat /\ batch_size \in Nat /\ parses \in Nat
  BY DEF CsvTypeOK, MinersOf, Places
<1>4. /\ row_count' \in Nat /\ batch_size' \in Nat /\ parses' \in Nat
      /\ parses' >= parses
      /\ pc' \in {"idle", "rows", "quoted", "plain", "field", "end", "reading"}
      /\ pc' # "idle" => parses' > 0
  <2>1. CASE \E size \in BatchSizes : Parse(size)
    BY <1>3, <2>1, CsvAssumption DEF Parse
  <2>2. CASE RowEnds
    <3>1. parses > 0
      BY <2>2 DEF RowEnds, EndField, CsvTypeOK
    <3>2. /\ row_count' = row_count + 1 /\ batch_size' = batch_size /\ parses' = parses
          /\ pc' \in {"end", "rows"}
      BY <2>2 DEF RowEnds, EndField
    <3> QED BY <1>3, <3>1, <3>2
  <2>3. CASE \/ StartQuoted \/ StartPlain \/ ReadQuoted \/ ReadPlain \/ CloseQuoted \/ ClosePlain
    <3>1. pc # "idle" /\ pc' \in {"quoted", "plain", "field"}
      BY <2>3 DEF StartQuoted, StartPlain, InRows, ReadQuoted, ReadPlain, Read, CloseQuoted,
                  ClosePlain
    <3>2. UNCHANGED <<row_count, batch_size, parses>>
      BY <2>3 DEF StartQuoted, StartPlain, ReadQuoted, ReadPlain, Read, CloseQuoted, ClosePlain
    <3> QED BY <1>3, <3>1, <3>2 DEF CsvTypeOK
  <2>4. CASE FieldEnds \/ FieldFails \/ TextEnds \/ ReturnBatch \/ GetNext \/ BatchRead
    <3>1. pc # "idle" /\ pc' \in {"rows", "end", "idle", "reading"}
      BY <2>4 DEF FieldEnds, EndField, FieldFails, TextEnds, ReturnBatch, GetNext, BatchRead
    <3>2. UNCHANGED <<row_count, batch_size, parses>>
      BY <2>4 DEF FieldEnds, EndField, FieldFails, TextEnds, ReturnBatch, GetNext, BatchRead
    <3> QED BY <1>3, <3>1, <3>2 DEF CsvTypeOK
  <2>5. CASE UNCHANGED csvVars
    BY <1>3, <2>5 DEF CsvTypeOK, csvVars
  <2>6. Stopped => UNCHANGED csvVars
    BY DEF Stopped
  <2> QED BY <2>1, <2>2, <2>3, <2>4, <2>5, <2>6 DEF CsvNext
<1>5. m' \in MinersOf(text)
  <2>1. CASE m' = m
    BY <1>3, <2>1
  <2>2. CASE StartQuoted
    <3>1. Moved(m, 1) \in MinersOf(text)
      BY <1>3, <2>2, MinerMovesBy DEF StartQuoted, Sees, AtEnd
    <3> QED BY <2>2, <3>1, MinerChanges DEF StartQuoted
  <2>3. CASE StartPlain
    BY <1>3, <2>3, MinerChanges DEF StartPlain
  <2>4. CASE ReadQuoted
    <3>1. CASE Doubled /\ Read(2)
      <4>1. m.pos + 2 <= Len(text)
        BY <1>3, <3>1, SeesTwo DEF Doubled
      <4> QED BY <1>3, <3>1, <4>1, MinerMovesBy DEF Read
    <3>2. CASE Sees(text, m, Symbols \ {Quote}) /\ Read(1)
      BY <1>3, <3>2, MinerMovesBy DEF Read, Sees, AtEnd
    <3> QED BY <2>4, <3>1, <3>2 DEF ReadQuoted
  <2>5. CASE ReadPlain
    BY <1>3, <2>5, MinerMovesBy DEF ReadPlain, Read, Sees, AtEnd
  <2>6. CASE CloseQuoted
    <3>1. MarkEnd(m) \in MinersOf(text) /\ MarkEnd(m).pos = m.pos
      <4>1. MarkEnd(m) \in MinersOf(text) /\ MarkEnd(m) = [m EXCEPT !.end = m.pos]
        BY <1>3, <2>6, MinerChanges DEF CloseQuoted
      <4> QED BY <1>3, <4>1 DEF MinersOf
    <3>2. m.pos + 1 <= Len(text)
      BY <1>3, <2>6 DEF CloseQuoted, Sees, AtEnd
    <3> QED BY <1>3, <2>6, <3>1, <3>2, MinerMovesBy DEF CloseQuoted
  <2>7. CASE ClosePlain
    BY <1>3, <2>7, MinerChanges DEF ClosePlain
  <2>8. CASE FieldEnds \/ RowEnds
    <3>1. PICK n \in Nat : m.pos + n <= Len(text) /\ MayMake(m, TRUE)
                           /\ m' = RunOver(Moved(Made(m), n))
      <4>1. CASE FieldEnds
        <5>1. m.pos + 1 <= Len(text)
          BY <1>3, <4>1 DEF FieldEnds, Sees, AtEnd
        <5> QED BY <4>1, <5>1 DEF FieldEnds, EndField
      <4>2. CASE RowEnds
        <5>1. NewlineWidth \in Nat /\ m.pos + NewlineWidth <= Len(text) /\ m.pos + 0 <= Len(text)
          BY <1>3, NewlineIs
        <5> HIDE DEF NewlineWidth
        <5> QED BY <4>2, <5>1 DEF RowEnds, EndField
      <4> QED BY <2>8, <4>1, <4>2
    <3>2. Made(m) \in MinersOf(text) /\ Made(m).pos = m.pos
      BY <1>3, <3>1, MinerChanges
    <3>3. Moved(Made(m), n) \in MinersOf(text)
      BY <1>3, <3>1, <3>2, MinerMovesBy
    <3> QED BY <3>1, <3>3, MinerChanges
  <2>9. CASE FieldFails
    <3>1. CASE m' = RunOver(MarkEnd(m))
      <4>1. MarkEnd(m) \in MinersOf(text)
        BY <1>3, MinerChanges DEF MarkEnd
      <4> QED BY <3>1, <4>1, MinerChanges
    <3>2. CASE m' = RunOver(m)
      BY <1>3, <3>2, MinerChanges
    <3> QED BY <2>9, <3>1, <3>2 DEF FieldFails
  <2>10. CASE ReturnBatch
    <3> DEFINE started == MarkStart(m)  marked == MarkEnd(started)
    <3>1. started \in MinersOf(text)
      BY <1>3, MinerChanges DEF MarkStart
    <3> HIDE DEF started
    <3>2. marked \in MinersOf(text)
      BY <3>1, MinerChanges DEF MarkEnd
    <3>3. m' = m \/ (MayMake(marked, TRUE) /\ m' = Made(marked))
      BY <2>10 DEF ReturnBatch, started
    <3> HIDE DEF marked
    <3> QED BY <1>3, <3>2, <3>3, MinerChanges
  <2>11. CASE \/ \E size \in BatchSizes : Parse(size)
              \/ TextEnds \/ GetNext \/ BatchRead \/ Stopped \/ UNCHANGED csvVars
    <3>1. m' = m
      BY <2>11 DEF Parse, TextEnds, GetNext, BatchRead, Stopped, csvVars
    <3> QED BY <1>3, <3>1
  <2> QED BY <2>2, <2>3, <2>4, <2>5, <2>6, <2>7, <2>8, <2>9, <2>10, <2>11 DEF CsvNext
<1>6. CsvTypeOK'
  BY <1>2, <1>3, <1>4, <1>5 DEF CsvTypeOK
<1>7. Followed' => Followed
  <2>1. parses' <= 1 => parses <= 1
    BY <1>3, <1>4
  <2> QED BY <1>2, <2>1 DEF Followed
<1> QED BY <1>1, <1>2, <1>6, <1>7

-----------------------------------------------------------------------------
(* Reading fields *)

\* An entry more in the batch
LEMMA FetchedMore ==
  ASSUME NEW xs, NEW bytes, NEW rows, Fetched(xs, bytes, rows), NEW x \in Entry, Short(x),
         NEW to, to = 0 <=> rows = 0 /\ x # EndOfRow
  PROVE  Fetched(Append(xs, x), bytes \o EntryBytes(x), to)
<1> DEFINE ys == Append(xs, x)  l == Len(xs)  n == Len(read)
<1>1. /\ xs \in Seq(Entry) /\ read \in Seq(Entry) /\ n <= l
      /\ \A i \in 1 .. n : read[i] = xs[i]
      /\ read = <<>> \/ read[n] = EndOfRow
      /\ parses = 1 => read = <<>>
      /\ rows = 0 <=> \A j \in n + 1 .. l : xs[j] # EndOfRow
      /\ \E at : Laid(bytes, xs, n, at)
  BY DEF Fetched, Begins
<1>2. /\ ys \in Seq(Entry) /\ Len(ys) = l + 1
      /\ \A j \in 1 .. l : ys[j] = xs[j]
      /\ ys[l + 1] = x
  BY <1>1, AppendProperties
<1>3. \E at : Laid(bytes \o EntryBytes(x), ys, n, at)
  BY <1>1, LaidMore
<1>4. l \in Nat /\ n \in Nat
  BY <1>1
<1> HIDE DEF ys, l, n
<1>5. Len(ys) \in Nat /\ n <= Len(ys) /\ \A i \in 1 .. n : read[i] = ys[i]
  <2>1. \A i \in 1 .. n : i \in 1 .. l
    BY <1>1, <1>4
  <2> QED BY <1>1, <1>2, <1>4, <2>1
<1>6. to = 0 <=> \A j \in n + 1 .. l + 1 : ys[j] # EndOfRow
  <2>1. \A j \in n + 1 .. l + 1 : j \in n + 1 .. l \/ j = l + 1
    BY <1>4
  <2>2. l + 1 \in n + 1 .. l + 1 /\ \A j \in n + 1 .. l : j \in n + 1 .. l + 1 /\ j \in 1 .. l
    BY <1>1, <1>4
  <2>3. (\A j \in n + 1 .. l + 1 : ys[j] # EndOfRow)
        <=> (\A j \in n + 1 .. l : xs[j] # EndOfRow) /\ x # EndOfRow
    BY <1>2, <2>1, <2>2
  <2> QED BY <1>1, <2>3
<1>7. Begins(ys)
  BY <1>1, <1>2, <1>5 DEF Begins, n
<1> QED BY <1>1, <1>2, <1>3, <1>6, <1>7 DEF Fetched, n, ys

\* The parts of a field's bytes may be put together first.
LEMMA OccurrenceParts ==
  ASSUME NEW bytes, NEW x
  PROVE  {bytes, SizeT(Len(x) + 1), x, <<0>>} \subseteq Seq(Byte) =>
           AddOccurrence(bytes, x) = bytes \o (SizeT(Len(x) + 1) \o x \o <<0>>)
<1>1. ASSUME NEW s, NEW z
      PROVE  {bytes, s, x, z} \subseteq Seq(Byte) =>
               ((bytes \o s) \o x) \o z = bytes \o ((s \o x) \o z)
  <2>1. ASSUME NEW e \in Seq(Byte), bytes \in Seq(Byte), z \in Seq(Byte)
        PROVE  (bytes \o e) \o z = bytes \o (e \o z)
    BY <2>1, ConcatAssociative
  <2>2. ASSUME bytes \in Seq(Byte), s \in Seq(Byte), x \in Seq(Byte)
        PROVE  (bytes \o s) \o x = bytes \o (s \o x) /\ s \o x \in Seq(Byte)
    <3>1. (bytes \o s) \o x = bytes \o (s \o x)
      BY <2>2, ConcatAssociative
    <3> QED BY <2>2, <3>1, ConcatProperties
  <2>3. ASSUME {bytes, s, x, z} \subseteq Seq(Byte)
        PROVE  ((bytes \o s) \o x) \o z = bytes \o ((s \o x) \o z)
    <3>1. bytes \in Seq(Byte) /\ s \in Seq(Byte) /\ x \in Seq(Byte) /\ z \in Seq(Byte)
      BY <2>3
    <3>2. (bytes \o s) \o x = bytes \o (s \o x) /\ s \o x \in Seq(Byte)
      BY <2>2, <3>1
    <3>3. (bytes \o (s \o x)) \o z = bytes \o ((s \o x) \o z)
      BY <2>1, <3>1, <3>2
    <3> QED BY <3>2, <3>3
  <2> QED BY <2>3
<1> QED BY <1>1 DEF AddOccurrence

\* A field more
LEMMA FetchedField ==
  ASSUME NEW xs, NEW bytes, NEW rows, Fetched(xs, bytes, rows),
         NEW x \in Seq(Symbols), Len(x) + 1 < ByteSpan
  PROVE  Fetched(Append(xs, x), AddOccurrence(bytes, x), rows)
<1>1. x \in Entry /\ x # EndOfRow /\ Short(x)
  BY CsvAssumption DEF Entry, Short
<1>2. bytes \in Seq(Byte)
  BY DEF Fetched, Laid
<1>3. AddOccurrence(bytes, x) = bytes \o EntryBytes(x)
  <2>1. SizeT(Len(x) + 1) \in Seq(Byte)
    <3> DEFINE n == Len(x) + 1
    <3>1. n \in Nat /\ n < ByteSpan
      OBVIOUS
    <3> HIDE DEF n
    <3>2. SizeT(n) = <<n, 0>> /\ n \in Byte /\ 0 \in Byte
      BY <3>1, SizeIs DEF Byte
    <3>3. SizeT(n) \in Seq(Byte)
      BY <3>2
    <3> QED BY <3>3 DEF n
  <2>2. x \in Seq(Byte)
    BY SeqMonotonic DEF Byte
  <2>3. <<0>> \in Seq(Byte)
    BY DEF Byte
  <2>4. EntryBytes(x) = SizeT(Len(x) + 1) \o x \o <<0>>
    BY <1>1, FieldBytes
  <2> QED BY <1>2, <2>1, <2>2, <2>3, <2>4, OccurrenceParts
<1> QED BY <1>1, <1>3, FetchedMore

\* ... and a row's end, which is the last entry then
LEMMA FetchedRow ==
  ASSUME NEW xs, NEW bytes, NEW rows \in Nat, Fetched(xs, bytes, rows)
  PROVE  /\ Fetched(Append(xs, EndOfRow), AddNewline(bytes), rows + 1)
         /\ EndsWithRow(Append(xs, EndOfRow))
<1>1. EndOfRow \in Entry /\ Short(EndOfRow)
  BY DEF Entry, Short
<1>2. AddNewline(bytes) = bytes \o EntryBytes(EndOfRow)
  BY DEF AddNewline, EntryBytes
<1>3. EndsWithRow(Append(xs, EndOfRow))
  <2>1. xs \in Seq(Entry)
    BY DEF Fetched, Begins
  <2> DEFINE ys == Append(xs, EndOfRow)
  <2>2. Len(ys) = Len(xs) + 1 /\ ys[Len(xs) + 1] = EndOfRow /\ ys # <<>>
    BY <1>1, <2>1, AppendProperties
  <2> QED BY <2>2 DEF EndsWithRow
<1>4. rows + 1 # 0
  OBVIOUS
<1> QED BY <1>1, <1>2, <1>3, <1>4, FetchedMore

\* What is known of the fields before stays known while the next is read.
LEMMA BetweenStays ==
  ASSUME NEW p, Between(p), input' = input, UNCHANGED <<was, batch, row_count, parses, read>>
  PROVE  Between(p)'
<1>1. text' = text /\ was' = was /\ batch' = batch /\ row_count' = row_count
      /\ parses' = parses /\ read' = read
  BY DEF text
<1> QED BY <1>1 DEF Between, Fetched, Begins

\* The matcher starts where a field does.
LEMMA StartKeeps ==
  ASSUME CsvTypeOK, CsvWell, StartQuoted \/ StartPlain
  PROVE  CsvWell'
<1> PICK s : s = m.pos
  OBVIOUS
<1>1. pc = "rows" /\ text \in Seq(Symbols) /\ m \in MinersOf(text) /\ Len(text) \in Nat
      /\ s \in Nat /\ s < Len(text)
  BY DEF CsvTypeOK, StartQuoted, StartPlain, InRows, MinersOf, Places, AtEnd
<1>2. Between(s)
  BY <1>1 DEF CsvWell, RowsWell
<1>3. s \in FieldStarts(text)
  BY <1>1, <1>2 DEF Between, FieldBorder
<1>4. input' = input /\ UNCHANGED <<was, batch, row_count, parses, read>> /\ text' = text
  BY DEF StartQuoted, StartPlain, text
<1>5. Between(s)'
  BY <1>2, <1>4, BetweenStays
<1>6. CASE StartQuoted
  <2>1. Moved(m, 1) \in MinersOf(text) /\ Moved(m, 1).pos = s + 1
    BY <1>1, MinerMovesBy
  <2>2. m' = [Moved(m, 1) EXCEPT !.start = s + 1]
    BY <1>6, <2>1, MinerChanges DEF StartQuoted
  <2>3. m'.start = s + 1 /\ m'.pos = s + 1
    BY <2>1, <2>2 DEF MinersOf
  <2>4. IsQuoted(text, s)
    BY <1>1, <1>6 DEF StartQuoted, Sees, IsQuoted
  <2>5. QuotedTo(text, s, s + 1)
    BY <1>1, <1>3, <2>4, FieldBegins
  <2>6. pc' = "quoted"
    BY <1>6 DEF StartQuoted
  <2>7. QuotedWell'
    BY <1>3, <1>4, <1>5, <2>3, <2>5 DEF QuotedWell
  <2> QED BY <2>6, <2>7 DEF CsvWell, RowsWell, PlainWell, FieldWell, EndWell, ReadingWell, IdleWell
<1>7. CASE StartPlain
  <2>1. m' = [m EXCEPT !.start = s]
    BY <1>1, <1>7, MinerChanges DEF StartPlain
  <2>2. m'.start = s /\ m'.pos = s
    BY <1>1, <2>1 DEF MinersOf
  <2>3. ~IsQuoted(text, s)
    BY <1>1, <1>7 DEF StartPlain, Sees, AtEnd, IsQuoted
  <2>4. PlainTo(text, s, s)
    BY <1>1, <1>3, <2>3, FieldBegins
  <2>5. pc' = "plain"
    BY <1>7 DEF StartPlain
  <2>6. PlainWell'
    BY <1>3, <1>4, <1>5, <2>2, <2>4 DEF PlainWell
  <2> QED BY <2>5, <2>6 DEF CsvWell, RowsWell, QuotedWell, FieldWell, EndWell, ReadingWell, IdleWell
<1> QED BY <1>6, <1>7

\* It stays in the field.
LEMMA ReadKeeps ==
  ASSUME CsvTypeOK, CsvWell, ReadQuoted \/ ReadPlain
  PROVE  CsvWell'
<1>1. text \in Seq(Symbols) /\ m \in MinersOf(text) /\ Len(text) \in Nat
      /\ m.pos \in Nat /\ m.pos <= Len(text)
  BY DEF CsvTypeOK, MinersOf, Places
<1>2. input' = input /\ UNCHANGED <<was, batch, row_count, parses, read, pc>> /\ text' = text
  BY DEF ReadQuoted, ReadPlain, Read, text
<1>3. CASE ReadQuoted
  <2>1. pc = "quoted"
    BY <1>3 DEF ReadQuoted
  <2>2. PICK s \in FieldStarts(text) :
          Between(s) /\ m.start = s + 1 /\ QuotedTo(text, s, m.pos)
    BY <2>1 DEF CsvWell, QuotedWell
  <2>3. QuotedTo(text, s, m'.pos) /\ m'.start = m.start
    <3>1. CASE Doubled /\ Read(2)
      <4>1. m.pos + 2 <= Len(text) /\ text[m.pos + 1] = Quote /\ text[m.pos + 2] = Quote
        BY <1>1, <3>1, SeesTwo DEF Doubled
      <4>2. m' = Moved(m, 2) /\ m'.pos = m.pos + 2 /\ m'.start = m.start
        BY <1>1, <3>1, <4>1, MinerMovesBy DEF Read
      <4>3. QuotedTo(text, s, m.pos + 2)
        BY <1>1, <2>2, <4>1, QuotedDoubled
      <4> QED BY <4>2, <4>3
    <3>2. CASE Sees(text, m, Symbols \ {Quote}) /\ Read(1)
      <4>1. m.pos < Len(text) /\ text[m.pos + 1] # Quote
        BY <1>1, <3>2 DEF Sees, AtEnd
      <4>2. m' = Moved(m, 1) /\ m'.pos = m.pos + 1 /\ m'.start = m.start
        BY <1>1, <3>2, <4>1, MinerMovesBy DEF Read
      <4>3. QuotedTo(text, s, m.pos + 1)
        BY <1>1, <2>2, <4>1, QuotedNext
      <4> QED BY <4>2, <4>3
    <3> QED BY <1>3, <3>1, <3>2 DEF ReadQuoted
  <2>4. Between(s)'
    BY <1>2, <2>2, BetweenStays
  <2>5. QuotedWell'
    BY <1>2, <2>2, <2>3, <2>4 DEF QuotedWell
  <2> QED
    BY <1>2, <2>1, <2>5 DEF CsvWell, RowsWell, PlainWell, FieldWell, EndWell, ReadingWell, IdleWell
<1>4. CASE ReadPlain
  <2>1. pc = "plain"
    BY <1>4 DEF ReadPlain
  <2>2. PICK s \in FieldStarts(text) :
          Between(s) /\ m.start = s /\ PlainTo(text, s, m.pos)
    BY <2>1 DEF CsvWell, PlainWell
  <2>3. m.pos < Len(text) /\ text[m.pos + 1] \notin {Quote, Comma, CR, LF}
    BY <1>1, <1>4 DEF ReadPlain, Sees, AtEnd
  <2>4. m' = Moved(m, 1) /\ m'.pos = m.pos + 1 /\ m'.start = m.start
    BY <1>1, <1>4, <2>3, MinerMovesBy DEF ReadPlain, Read
  <2>5. PlainTo(text, s, m'.pos)
    BY <1>1, <2>2, <2>3, <2>4, PlainNext
  <2>6. Between(s)'
    BY <1>2, <2>2, BetweenStays
  <2>7. PlainWell'
    BY <1>2, <2>2, <2>4, <2>5, <2>6 DEF PlainWell
  <2> QED
    BY <1>2, <2>1, <2>7 DEF CsvWell, RowsWell, QuotedWell, FieldWell, EndWell, ReadingWell, IdleWell
<1> QED BY <1>3, <1>4

\* It marks the end of the field.
LEMMA CloseKeeps ==
  ASSUME CsvTypeOK, CsvWell, CloseQuoted \/ ClosePlain
  PROVE  CsvWell'
<1>1. text \in Seq(Symbols) /\ m \in MinersOf(text) /\ Len(text) \in Nat
      /\ m.pos \in Nat /\ m.pos <= Len(text)
  BY DEF CsvTypeOK, MinersOf, Places
<1>2. input' = input /\ UNCHANGED <<was, batch, row_count, parses, read>> /\ text' = text
      /\ pc' = "field"
  BY DEF CloseQuoted, ClosePlain, text
<1>3. MarkEnd(m) \in MinersOf(text) /\ MarkEnd(m) = [m EXCEPT !.end = m.pos]
  BY <1>1, MinerChanges DEF CloseQuoted, ClosePlain
<1> DEFINE p == m.pos
<1>4. MarkEnd(m).pos = p /\ MarkEnd(m).end = p /\ MarkEnd(m).start = m.start
  BY <1>1, <1>3 DEF MinersOf
<1>5. CASE CloseQuoted
  <2>1. pc = "quoted" /\ ~Doubled /\ p < Len(text) /\ text[p + 1] = Quote
    BY <1>1, <1>5 DEF CloseQuoted, Sees, AtEnd
  <2>2. PICK s \in FieldStarts(text) :
          Between(s) /\ m.start = s + 1 /\ QuotedTo(text, s, p)
    BY <2>1 DEF CsvWell, QuotedWell
  <2>3. p + 1 < Len(text) => text[p + 2] # Quote
    <3> SUFFICES ASSUME p + 1 < Len(text), text[p + 2] = Quote PROVE FALSE
      OBVIOUS
    <3>1. p + 2 <= Len(text)
      BY <1>1
    <3> QED BY <1>1, <2>1, <3>1, SeesTwo DEF Doubled
  <2>4. m'.start = s + 1 /\ m'.end = p /\ m'.pos = p + 1
    <3> DEFINE x == MarkEnd(m)
    <3>1. x \in MinersOf(text) /\ x.pos + 1 <= Len(text)
      BY <1>1, <1>3, <1>4, <2>1
    <3>2. m' = Moved(x, 1)
      BY <1>5 DEF CloseQuoted
    <3>3. x.pos = p /\ x.end = p /\ x.start = s + 1
      BY <1>4, <2>2
    <3> HIDE DEF x
    <3> QED BY <1>1, <3>1, <3>2, <3>3, MinerMovesBy
  <2>5. Between(s)'
    BY <1>2, <2>2, BetweenStays
  <2>6. (p + 1) + 1 = p + 2
    BY <1>1
  <2> HIDE DEF p
  <2>7. QuotedRead(s)'
    BY <1>1, <1>2, <2>1, <2>2, <2>3, <2>4, <2>6 DEF QuotedRead, p
  <2>8. FieldWell'
    BY <1>2, <2>2, <2>5, <2>7 DEF FieldWell
  <2> QED BY <1>2, <2>8 DEF CsvWell, RowsWell, QuotedWell, PlainWell, EndWell, ReadingWell, IdleWell
<1>6. CASE ClosePlain
  <2>1. pc = "plain" /\ m' = MarkEnd(m) /\ ~Sees(text, m, Symbols \ {Quote, Comma, CR, LF})
    BY <1>6 DEF ClosePlain
  <2>2. PICK s \in FieldStarts(text) :
          Between(s) /\ m.start = s /\ PlainTo(text, s, p)
    BY <2>1 DEF CsvWell, PlainWell
  <2>3. p < Len(text) => text[p + 1] \in {Quote, Comma, CR, LF}
    <3> SUFFICES ASSUME p < Len(text) PROVE text[p + 1] \in {Quote, Comma, CR, LF}
      OBVIOUS
    <3>1. text[p + 1] \in Symbols
      BY <1>1
    <3> QED BY <1>1, <2>1, <3>1 DEF Sees, AtEnd
  <2>4. Between(s)'
    BY <1>2, <2>2, BetweenStays
  <2>5. PlainRead(s)'
    BY <1>2, <1>4, <2>1, <2>2, <2>3 DEF PlainRead
  <2>6. FieldWell'
    BY <1>2, <2>2, <2>4, <2>5 DEF FieldWell
  <2> QED BY <1>2, <2>6 DEF CsvWell, RowsWell, QuotedWell, PlainWell, EndWell, ReadingWell, IdleWell
<1> QED BY <1>5, <1>6

\* In front of a separator, or at the end of the text, the field is what was
\* marked.
LEMMA FieldIsRead ==
  ASSUME CsvTypeOK, CsvWell, pc = "field",
         m.pos = Len(text) \/ text[m.pos + 1] \in {Comma, CR, LF}
  PROVE  \E s \in FieldStarts(text) :
           /\ Between(s) /\ FieldEnd(text, s) = m.pos /\ IsField(text, s)
           /\ Content(text, s) = SubSeq(text, m.start + 1, m.end)
<1>1. text \in Seq(Symbols) /\ m.pos \in Nat /\ m.pos <= Len(text) /\ Len(text) \in Nat
  BY DEF CsvTypeOK, MinersOf, Places
<1>2. PICK s \in FieldStarts(text) : Between(s) /\ (PlainRead(s) \/ QuotedRead(s))
  BY DEF CsvWell, FieldWell
<1>3. CASE PlainRead(s)
  BY <1>1, <1>2, <1>3, PlainEnds DEF PlainRead
<1>4. CASE QuotedRead(s)
  <2> DEFINE p == m.end
  <2>1. m.start = s + 1 /\ p \in Nat /\ m.pos = p + 1 /\ QuotedTo(text, s, p)
        /\ text[p + 1] = Quote
    BY <1>4 DEF QuotedRead
  <2>2. p < Len(text) /\ (p + 1 = Len(text) \/ text[p + 2] \in {Comma, CR, LF})
    <3>1. (p + 1) + 1 = p + 2
      BY <2>1
    <3> QED BY <1>1, <2>1, <3>1
  <2>3. FieldEnd(text, s) = p + 1 /\ IsField(text, s) /\ Content(text, s) = SubSeq(text, s + 2, p)
    BY <1>1, <2>1, <2>2, QuotedEnds
  <2>4. (s + 1) + 1 = s + 2
    BY <1>1, StartsOutside
  <2> QED BY <1>2, <2>1, <2>3, <2>4
<1> QED BY <1>2, <1>3, <1>4

\* The batch has the field when it is added, and the next is behind it.
LEMMA FieldAdded ==
  ASSUME CsvTypeOK, FieldsFit(text), NEW s \in FieldStarts(text), Between(s), IsField(text, s),
         Content(text, s) = SubSeq(text, m.start + 1, m.end)
  PROVE  /\ Fetched(Append(Proper(text, s), Content(text, s)), WithField(batch), row_count)
         /\ Proper(text, s) \in Seq(Entry) /\ Content(text, s) \in Seq(Symbols)
         /\ FieldBorder(text, BehindField(text, s))
         /\ AfterComma(text, BehindField(text, s)) <=> RowGoesOn(text, s)
         /\ Proper(text, BehindField(text, s)) = Proper(text, s) \o Entries(text, s)
<1>1. text \in Seq(Symbols)
  BY DEF CsvTypeOK
<1>2. Content(text, s) \in Seq(Symbols) /\ Len(Content(text, s)) + 1 < ByteSpan
  BY <1>1, ContentIs DEF FieldsFit
<1>3. Fetched(Proper(text, s), batch, row_count) /\ FieldBorder(text, s)
  BY DEF Between
<1>4. Fetched(Append(Proper(text, s), Content(text, s)),
              AddOccurrence(batch, Content(text, s)), row_count)
  BY <1>2, <1>3, FetchedField
<1>5. Proper(text, s) \in Seq(Entry)
  BY <1>3 DEF Fetched, Begins
<1>6. WithField(batch) = AddOccurrence(batch, Content(text, s))
  BY DEF WithField
<1> QED BY <1>1, <1>2, <1>3, <1>4, <1>5, <1>6, NextBorder, ProperNext

\* The miner stands behind the separator.
LEMMA FieldOver ==
  ASSUME CsvTypeOK, NEW width \in Nat, m.pos + width <= Len(text),
         MayMake(m, TRUE), m' = RunOver(Moved(Made(m), width))
  PROVE  m'.pos = m.pos + width
<1>1. m \in MinersOf(text) /\ Len(text) \in Nat
  BY DEF CsvTypeOK
<1>2. Made(m) \in MinersOf(text) /\ Made(m).pos = m.pos
  BY <1>1, MinerChanges
<1>3. Moved(Made(m), width) \in MinersOf(text) /\ Moved(Made(m), width).pos = m.pos + width
  BY <1>1, <1>2, MinerMovesBy
<1> QED BY <1>3, MinerChanges

\* All fields before the miner are in the batch.
LEMMA NowBetween ==
  ASSUME NEW q, m'.pos = q, input' = input, read' = read, parses' = parses,
         FieldBorder(text, q), was' = "delimiter" <=> AfterComma(text, q),
         Fetched(Proper(text, q), batch', row_count')
  PROVE  Between(m.pos)'
<1>1. text' = text
  BY DEF text
<1> QED BY <1>1 DEF Between, Fetched, Begins

\* A field of which the row goes on
LEMMA FieldEndsKeeps ==
  ASSUME CsvTypeOK, CsvWell, FieldsFit(text), FieldEnds
  PROVE  CsvWell'
<1> PICK p : p = m.pos
  OBVIOUS
<1>1. text \in Seq(Symbols) /\ p \in Nat /\ Len(text) \in Nat
      /\ p < Len(text) /\ text[p + 1] = Comma
  BY DEF CsvTypeOK, MinersOf, Places, FieldEnds, Sees, AtEnd
<1>2. /\ pc = "field" /\ MayMake(m, TRUE) /\ m' = RunOver(Moved(Made(m), 1))
      /\ was' = "delimiter" /\ input' = input /\ UNCHANGED <<row_count, parses, read>>
      /\ batch' = WithField(batch) /\ pc' = "rows"
  BY DEF FieldEnds, EndField
<1>3. PICK s \in FieldStarts(text) :
        /\ Between(s) /\ FieldEnd(text, s) = p /\ IsField(text, s)
        /\ Content(text, s) = SubSeq(text, m.start + 1, m.end)
  BY <1>1, <1>2, FieldIsRead
<1>4. m'.pos = p + 1
  <2>1. m.pos + 1 <= Len(text) /\ 1 \in Nat
    BY <1>1
  <2> QED BY <1>2, <2>1, FieldOver
<1>5. BehindField(text, s) = p + 1 /\ RowGoesOn(text, s)
  <2>1. s \in Places(text)
    BY <1>1, StartsOutside DEF Places
  <2>2. p \in Separators(text)
    BY <1>1, <1>3, <2>1, FieldEndFinds
  <2>3. Behind(text, p) = p + 1
    BY <1>1, <2>2, SeparatorAt, CsvAssumption
  <2> QED BY <1>1, <1>3, <2>1, <2>3 DEF BehindField, RowGoesOn
<1> DEFINE xs == Proper(text, s)  x == Content(text, s)
<1>6. /\ Fetched(Append(xs, x), batch', row_count')
      /\ xs \in Seq(Entry) /\ x \in Seq(Symbols)
      /\ FieldBorder(text, p + 1) /\ AfterComma(text, p + 1)
      /\ Proper(text, p + 1) = xs \o Entries(text, s)
  BY <1>2, <1>3, <1>5, FieldAdded
<1>7. Proper(text, p + 1) = Append(xs, x)
  <2>1. Entries(text, s) = <<x>>
    BY <1>5 DEF Entries
  <2>2. x \in Entry
    BY <1>6 DEF Entry
  <2> HIDE DEF xs, x
  <2> QED BY <1>6, <2>1, <2>2, AppendIsConcat
<1>8. Between(m.pos)'
  BY <1>2, <1>4, <1>6, <1>7, NowBetween
<1> QED
  BY <1>2, <1>8
     DEF CsvWell, RowsWell, QuotedWell, PlainWell, FieldWell, EndWell, ReadingWell, IdleWell

\* The last field of a row
LEMMA RowEndsKeeps ==
  ASSUME CsvTypeOK, CsvWell, FieldsFit(text), RowEnds
  PROVE  CsvWell'
<1> PICK p : p = m.pos
  OBVIOUS
<1>1. text \in Seq(Symbols) /\ p \in Nat /\ Len(text) \in Nat /\ p <= Len(text)
      /\ m \in MinersOf(text) /\ row_count \in Nat
  BY DEF CsvTypeOK, MinersOf, Places
<1>2. /\ pc = "field" /\ MayMake(m, TRUE)
      /\ was' \in {"newline", "eof"} /\ input' = input /\ UNCHANGED <<batch_size, parses, read>>
      /\ row_count' = row_count + 1 /\ batch' = AddNewline(WithField(batch))
      /\ pc' = IF row_count + 1 >= batch_size /\ batch_size > 0 THEN "end" ELSE "rows"
  BY DEF RowEnds, EndField
<1>3. PICK width \in Nat :
        /\ p + width <= Len(text) /\ m' = RunOver(Moved(Made(m), width))
        /\ \/ p = Len(text) /\ width = 0
           \/ p < Len(text) /\ text[p + 1] \in {CR, LF} /\ Behind(text, p) = p + width
  <2>1. CASE NewlineWidth > 0 /\ EndField(NewlineWidth, "newline")
    <3>1. NewlineWidth \in Nat /\ p + NewlineWidth <= Len(text) /\ p < Len(text)
          /\ text[p + 1] \in {CR, LF} /\ Behind(text, p) = p + NewlineWidth
          /\ m' = RunOver(Moved(Made(m), NewlineWidth))
      BY <1>1, <2>1, NewlineIs DEF EndField
    <3> HIDE DEF NewlineWidth
    <3> QED BY <3>1
  <2>2. CASE AtEnd(text, m) /\ EndField(0, "eof")
    <3>1. p = Len(text) /\ p + 0 <= Len(text) /\ m' = RunOver(Moved(Made(m), 0))
      BY <1>1, <2>2 DEF AtEnd, EndField
    <3> QED BY <3>1
  <2> QED BY <2>1, <2>2 DEF RowEnds
<1>4. PICK s \in FieldStarts(text) :
        /\ Between(s) /\ FieldEnd(text, s) = p /\ IsField(text, s)
        /\ Content(text, s) = SubSeq(text, m.start + 1, m.end)
  BY <1>2, <1>3, FieldIsRead
<1> PICK q : q = p + width
  OBVIOUS
<1>5. m'.pos = q
  BY <1>2, <1>3, FieldOver
<1>6. BehindField(text, s) = q /\ ~RowGoesOn(text, s)
  <2>1. CASE p = Len(text) /\ width = 0
    BY <1>1, <1>4, <2>1 DEF BehindField, RowGoesOn
  <2>2. CASE p < Len(text) /\ text[p + 1] \in {CR, LF} /\ Behind(text, p) = p + width
    BY <1>4, <2>2, CsvAssumption DEF BehindField, RowGoesOn
  <2> QED BY <1>3, <2>1, <2>2
<1> DEFINE xs == Proper(text, s)  x == Content(text, s)  ys == Append(xs, x)
<1>7. /\ Fetched(ys, WithField(batch), row_count)
      /\ xs \in Seq(Entry) /\ x \in Seq(Symbols)
      /\ FieldBorder(text, q) /\ ~AfterComma(text, q)
      /\ Proper(text, q) = xs \o Entries(text, s)
  BY <1>4, <1>6, FieldAdded
<1>8. Proper(text, q) = Append(ys, EndOfRow)
  <2>1. Entries(text, s) = <<x, EndOfRow>>
    BY <1>6 DEF Entries
  <2>2. x \in Entry /\ EndOfRow \in Entry
    BY <1>7 DEF Entry
  <2> HIDE DEF xs, x
  <2>3. /\ <<x>> \in Seq(Entry) /\ <<EndOfRow>> \in Seq(Entry)
        /\ <<x>> \o <<EndOfRow>> = <<x, EndOfRow>>
    <3>1. <<x>> \in Seq(Entry) /\ <<EndOfRow>> \in Seq(Entry)
      BY <2>2
    <3>2. Append(<<x>>, EndOfRow) = <<x>> \o <<EndOfRow>>
      BY <2>2, <3>1, AppendIsConcat
    <3>3. Append(<<x>>, EndOfRow) = <<x, EndOfRow>>
      <4> DEFINE y == Append(<<x>>, EndOfRow)  z == <<x, EndOfRow>>
      <4>1. y \in Seq(Entry) /\ Len(y) = 2 /\ y[1] = x /\ y[2] = EndOfRow
        BY <2>2, <3>1
      <4>2. z \in Seq(Entry) /\ Len(z) = 2 /\ z[1] = x /\ z[2] = EndOfRow
        BY <2>2
      <4> HIDE DEF y, z
      <4>3. \A i \in 1 .. 2 : i = 1 \/ i = 2
        OBVIOUS
      <4>4. y = z
        BY <4>1, <4>2, <4>3, SeqEqual
      <4> QED BY <4>4 DEF y, z
    <3> QED BY <3>1, <3>2, <3>3
  <2>4. ys \in Seq(Entry) /\ ys = xs \o <<x>>
    BY <1>7, <2>2, AppendProperties, AppendIsConcat
  <2>5. Append(ys, EndOfRow) = ys \o <<EndOfRow>>
    <3> HIDE DEF ys
    <3> QED BY <2>2, <2>4, AppendIsConcat
  <2>6. (xs \o <<x>>) \o <<EndOfRow>> = xs \o (<<x>> \o <<EndOfRow>>)
    BY <1>7, <2>3, ConcatAssociative
  <2> HIDE DEF ys
  <2> QED BY <1>7, <2>1, <2>3, <2>4, <2>5, <2>6
<1> HIDE DEF xs, x, ys
<1>9. /\ Fetched(Proper(text, q), batch', row_count')
      /\ EndsWithRow(Proper(text, q))
  BY <1>1, <1>2, <1>7, <1>8, FetchedRow
<1>10. was' # "delimiter"
  BY <1>2
<1>11. Between(m.pos)'
  BY <1>2, <1>5, <1>7, <1>9, <1>10, NowBetween
<1>12. EndWell'
  <2>1. pc' = "end" => batch_size' > 0 /\ row_count' > 0
    BY <1>1, <1>2
  <2>2. EndsWithRow(Proper(text, m.pos))'
    <3>1. text' = text
      BY <1>2 DEF text
    <3> QED BY <1>5, <1>9, <3>1 DEF EndsWithRow
  <2> QED BY <1>10, <1>11, <2>1, <2>2 DEF EndWell
<1>13. pc' \in {"end", "rows"}
  BY <1>2
<1> QED
  BY <1>11, <1>12, <1>13
     DEF CsvWell, RowsWell, QuotedWell, PlainWell, FieldWell, ReadingWell, IdleWell

\* The matcher gives up at a field that is none.
LEMMA FieldFailsKeeps ==
  ASSUME CsvTypeOK, CsvWell, FieldFails
  PROVE  CsvWell'
<1>1. text \in Seq(Symbols) /\ m.pos \in Nat /\ Len(text) \in Nat /\ m.pos <= Len(text)
      /\ m \in MinersOf(text)
  BY DEF CsvTypeOK, MinersOf, Places
<1>2. input' = input /\ UNCHANGED <<was, batch, row_count, parses, read>> /\ pc' = "end"
      /\ text' = text
  BY DEF FieldFails, text
<1>3. PICK s \in FieldStarts(text) : Between(s) /\ ~IsField(text, s)
  <2>1. CASE pc = "quoted" /\ AtEnd(text, m)
    <3>1. PICK s \in FieldStarts(text) : Between(s) /\ QuotedTo(text, s, m.pos)
      BY <2>1 DEF CsvWell, QuotedWell
    <3>2. m.pos = Len(text)
      BY <1>1, <2>1 DEF AtEnd
    <3>3. ~IsField(text, s)
      BY <1>1, <3>1, <3>2, QuotedStaysOpen
    <3> QED BY <3>1, <3>3
  <2>2. CASE pc = "field" /\ NewlineWidth = 0 /\ ~AtEnd(text, m) /\ ~Sees(text, m, {Comma})
    <3>1. PICK s \in FieldStarts(text) : Between(s) /\ (PlainRead(s) \/ QuotedRead(s))
      BY <2>2 DEF CsvWell, FieldWell
    <3>2. m.pos < Len(text) /\ text[m.pos + 1] \notin {Comma, CR, LF}
      <4>1. m.pos < Len(text)
        BY <1>1, <2>2 DEF AtEnd
      <4>2. text[m.pos + 1] # Comma
        BY <1>1, <2>2 DEF Sees
      <4>3. ~(NewlineWidth > 0)
        BY <2>2
      <4> HIDE DEF NewlineWidth
      <4>4. text[m.pos + 1] \notin {CR, LF}
        BY <1>1, <4>1, <4>3, NewlineIs
      <4> QED BY <4>1, <4>2, <4>4
    <3>3. CASE PlainRead(s)
      <4>1. text[m.pos + 1] = Quote
        BY <3>2, <3>3 DEF PlainRead
      <4> QED BY <1>1, <3>1, <3>2, <3>3, <4>1, PlainFails DEF PlainRead
    <3>4. CASE QuotedRead(s)
      <4> DEFINE p == m.end
      <4>1. p \in Nat /\ m.pos = p + 1 /\ QuotedTo(text, s, p) /\ text[p + 1] = Quote
            /\ text[m.pos + 1] # Quote
        BY <3>2, <3>4 DEF QuotedRead
      <4>2. p + 1 < Len(text) /\ m.pos + 1 = p + 2
        BY <1>1, <3>2, <4>1
      <4>3. text[p + 2] \notin {Quote, Comma, CR, LF}
        BY <3>2, <4>1, <4>2
      <4> HIDE DEF p
      <4> QED BY <1>1, <3>1, <4>1, <4>2, <4>3, QuotedFails
    <3> QED BY <3>1, <3>3, <3>4
  <2> QED BY <2>1, <2>2 DEF FieldFails
<1>4. Between(s)'
  BY <1>2, <1>3, BetweenStays
<1>5. s \in Places(text)
  BY <1>1, StartsOutside DEF Places
<1>6. EndWell'
  BY <1>2, <1>3, <1>4, <1>5 DEF EndWell
<1> QED
  BY <1>2, <1>6
     DEF CsvWell, RowsWell, QuotedWell, PlainWell, FieldWell, ReadingWell, IdleWell

\* The loop ends at the end of the text.
LEMMA TextEndsKeeps ==
  ASSUME CsvTypeOK, CsvWell, TextEnds
  PROVE  CsvWell'
<1> PICK p : p = m.pos
  OBVIOUS
<1>1. p = Len(text) /\ p \in Places(text)
  BY DEF CsvTypeOK, MinersOf, Places, TextEnds, AtEnd
<1>2. input' = input /\ UNCHANGED <<m, was, batch, row_count, parses, read>> /\ pc' = "end"
      /\ text' = text
  BY DEF TextEnds, text
<1>3. Between(p)
  BY DEF CsvWell, RowsWell, TextEnds
<1>4. Between(p)'
  BY <1>2, <1>3, BetweenStays
<1>5. EndWell'
  BY <1>1, <1>2, <1>4 DEF EndWell
<1> QED
  BY <1>2, <1>5
     DEF CsvWell, RowsWell, QuotedWell, PlainWell, FieldWell, ReadingWell, IdleWell

-----------------------------------------------------------------------------
(* Batches *)

\* Where the loop ends with nothing more to read, the batch with the empty
\* field behind a delimiter reaches up to the end.
LEMMA TotalFetched ==
  ASSUME CsvTypeOK, NEW p, Between(p),
         (p = Len(text) /\ m.pos = p) \/ (p \in FieldStarts(text) /\ ~IsField(text, p))
  PROVE  /\ AllRead
         /\ was # "delimiter" => Fetched(Total(text), batch, row_count)
         /\ was = "delimiter" => Fetched(Total(text), AddOccurrence(batch, <<>>), row_count)
<1>1. text \in Seq(Symbols) /\ FieldBorder(text, p) /\ Len(text) \in Nat
      /\ (was = "delimiter" <=> AfterComma(text, p))
      /\ Fetched(Proper(text, p), batch, row_count)
  BY DEF CsvTypeOK, Between
<1>2. AllRead
  BY <1>1 DEF AllRead, AtEnd, WellFormed
<1>3. /\ AfterComma(text, p) => Total(text) = Append(Proper(text, p), <<>>)
      /\ ~AfterComma(text, p) => Total(text) = Proper(text, p)
  BY <1>1, TotalIs
<1>4. Fetched(Append(Proper(text, p), <<>>), AddOccurrence(batch, <<>>), row_count)
  <2>1. <<>> \in Seq(Symbols) /\ Len(<<>>) + 1 < ByteSpan
    BY CsvAssumption
  <2> QED BY <1>1, <2>1, FetchedField
<1> QED BY <1>1, <1>2, <1>3, <1>4

\* A batch without a row is lost, and so is what its bytes stand for.
LEMMA NothingReturned ==
  ASSUME NEW xs, NEW bytes, Fetched(xs, bytes, 0)
  PROVE  read = ClosedRows(xs) /\ (parses = 1 => read = <<>>)
<1> DEFINE n == Len(read)
<1>1. /\ xs \in Seq(Entry) /\ read \in Seq(Entry) /\ n <= Len(xs)
      /\ \A i \in 1 .. n : read[i] = xs[i]
      /\ read = <<>> \/ read[n] = EndOfRow
      /\ parses = 1 => read = <<>>
      /\ \A j \in n + 1 .. Len(xs) : xs[j] # EndOfRow
  BY DEF Fetched, Begins
<1>2. n \in 0 .. Len(xs) /\ Len(xs) \in Nat
  BY <1>1
<1>3. n = 0 \/ xs[n] = EndOfRow
  <2>1. CASE read = <<>>
    BY <2>1
  <2>2. CASE read # <<>>
    <3>1. n \in 1 .. n
      <4>1. n \in Nat \ {0}
        BY <1>1, <2>2, EmptySeq
      <4> HIDE DEF n
      <4> QED BY <4>1
    <3> QED BY <1>1, <2>2, <3>1
  <2> QED BY <2>1, <2>2
<1>4. ClosedRows(xs) = SubSeq(xs, 1, n)
  <2> HIDE DEF n
  <2> QED BY <1>1, <1>2, <1>3, ClosedIs
<1>5. SubSeq(xs, 1, n) = read
  <2> DEFINE y == SubSeq(xs, 1, n)
  <2>1. y \in Seq(Entry) /\ Len(y) = n /\ \A i \in 1 .. n : y[i] = xs[i]
    <3>1. 1 \in Nat \ {0} /\ 1 <= n + 1 /\ n - 1 + 1 = n
      BY <1>2
    <3> HIDE DEF n
    <3>2. /\ y \in Seq(Entry) /\ Len(y) = n - 1 + 1
          /\ \A i \in 1 .. n - 1 + 1 : y[i] = xs[1 + i - 1]
      BY <1>1, <1>2, <3>1, PartOf
    <3>3. \A i \in 1 .. n : 1 + i - 1 = i
      BY <1>2
    <3> HIDE DEF y
    <3> QED BY <3>1, <3>2, <3>3
  <2> HIDE DEF y
  <2> QED BY <1>1, <2>1, SeqEqual
<1> QED BY <1>1, <1>4, <1>5

\* The batch is returned, or destroyed.
LEMMA ReturnBatchKeeps ==
  ASSUME CsvTypeOK, CsvWell, ReturnBatch
  PROVE  CsvWell'
<1> DEFINE marked == MarkEnd(MarkStart(m))
           bytes == IF was = "delimiter" THEN AddOccurrence(batch, <<>>) ELSE batch
<1>1. m \in MinersOf(text) /\ row_count \in Nat /\ parses > 0
  BY DEF CsvTypeOK, ReturnBatch
<1>2. /\ pc = "end" /\ input' = input /\ UNCHANGED <<was, row_count, batch_size, parses, read>>
      /\ iter' = 0 /\ text' = text /\ batch' = bytes
      /\ pc' = IF row_count = 0 THEN "idle" ELSE "reading"
  BY DEF ReturnBatch, text
<1>3. m'.pos = m.pos
  <2>1. MarkStart(m) \in MinersOf(text) /\ MarkStart(m).pos = m.pos
    BY <1>1 DEF MarkStart, MinersOf, Places
  <2>2. marked \in MinersOf(text) /\ marked.pos = m.pos
    <3> DEFINE x == MarkStart(m)
    <3>1. x \in MinersOf(text) /\ x.pos = m.pos
      BY <2>1
    <3> HIDE DEF x
    <3>2. MarkEnd(x) \in MinersOf(text) /\ MarkEnd(x).pos = x.pos
      BY <3>1 DEF MarkEnd, MinersOf, Places
    <3> QED BY <3>1, <3>2 DEF x
  <2>3. m' = m \/ m' = Made(marked)
    BY DEF ReturnBatch
  <2> HIDE DEF marked
  <2> QED BY <2>2, <2>3, MinerChanges
<1>4. AllRead' <=> AllRead
  BY <1>2, <1>3 DEF AllRead, AtEnd
<1>5. PICK xs : /\ Fetched(xs, bytes, row_count)
                /\ \/ xs = Total(text) /\ AllRead
                   \/ /\ batch_size > 0 /\ row_count > 0
                      /\ FieldBorder(text, m.pos) /\ ~AfterComma(text, m.pos)
                      /\ xs = Proper(text, m.pos) /\ EndsWithRow(xs)
  <2>1. CASE \E p \in Places(text) :
               /\ Between(p)
               /\ (p = Len(text) /\ m.pos = p) \/ (p \in FieldStarts(text) /\ ~IsField(text, p))
    BY <2>1, TotalFetched
  <2>2. CASE /\ batch_size > 0 /\ row_count > 0 /\ was # "delimiter"
             /\ Between(m.pos) /\ EndsWithRow(Proper(text, m.pos))
    BY <2>2 DEF Between
  <2> QED BY <1>2, <2>1, <2>2 DEF CsvWell, EndWell
<1> HIDE DEF bytes
<1>6. CASE row_count = 0
  <2>1. xs = Total(text) /\ AllRead /\ Fetched(xs, bytes, 0)
    BY <1>5, <1>6
  <2>2. read = ClosedRows(Total(text)) /\ (parses = 1 => read = <<>>)
    BY <2>1, NothingReturned
  <2>3. pc' = "idle"
    BY <1>2, <1>6
  <2>4. IdleWell'
    BY <1>1, <1>2, <1>4, <1>6, <2>1, <2>2 DEF IdleWell
  <2> QED
    BY <2>3, <2>4
       DEF CsvWell, RowsWell, QuotedWell, PlainWell, FieldWell, EndWell, ReadingWell
<1>7. CASE row_count # 0
  <2>1. row_count > 0
    BY <1>1, <1>7
  <2>2. xs \in Seq(Entry) /\ Begins(xs) /\ Len(read) \in Nat
    BY <1>5 DEF Fetched, Begins
  <2>3. \E j \in 1 .. Len(xs) : xs[j] = EndOfRow
    <3>1. PICK j \in Len(read) + 1 .. Len(xs) : xs[j] = EndOfRow
      BY <1>5, <1>7 DEF Fetched
    <3>2. j \in 1 .. Len(xs)
      BY <2>2, <3>1
    <3> QED BY <3>1, <3>2
  <2>4. Result(xs)'
    BY <1>2, <1>3, <1>4, <1>5, <2>1, <2>3 DEF Result
  <2>5. Begins(xs)'
    BY <1>2, <2>2 DEF Begins
  <2>6. PICK at : Laid(bytes, xs, Len(read), at)
    BY <1>5 DEF Fetched
  <2>7. at[Len(read)] = 0 /\ Len(read) \in 0 .. Len(read)
    BY <2>2, <2>6 DEF Laid
  <2>8. \E n \in 0 .. Len(read)' : \E to : Laid(batch', xs, n, to) /\ iter' = to[Len(read)']
    BY <1>2, <2>6, <2>7
  <2>9. pc' = "reading"
    BY <1>2, <1>7
  <2>10. ReadingWell'
    BY <2>4, <2>5, <2>8 DEF ReadingWell
  <2> QED
    BY <2>9, <2>10
       DEF CsvWell, RowsWell, QuotedWell, PlainWell, FieldWell, EndWell, IdleWell
<1> QED BY <1>6, <1>7

\* Reading the batch takes the entries one by one.
LEMMA GetNextKeeps ==
  ASSUME CsvTypeOK, CsvWell, GetNext
  PROVE  CsvWell'
<1>1. /\ pc = "reading" /\ pc' = "reading" /\ iter < Len(batch)
      /\ input' = input /\ UNCHANGED <<m, batch, row_count, batch_size>> /\ text' = text
  BY DEF GetNext, text
<1>2. PICK len \in LengthsAt(iter) :
        /\ iter' = iter + WordBytes + len
        /\ read' = Append(read, IF len > 0 THEN StringAt(iter + WordBytes) ELSE EndOfRow)
  BY DEF GetNext
<1>3. PICK xs : /\ Result(xs) /\ Begins(xs)
                /\ \E n \in 0 .. Len(read) : \E at :
                     Laid(batch, xs, n, at) /\ iter = at[Len(read)]
  BY <1>1 DEF CsvWell, ReadingWell
<1>4. PICK n \in 0 .. Len(read) : \E at : Laid(batch, xs, n, at) /\ iter = at[Len(read)]
  BY <1>3
<1>14. PICK at : Laid(batch, xs, n, at) /\ iter = at[Len(read)]
  BY <1>4
<1> PICK k : k = Len(read)
  OBVIOUS
<1>5. /\ xs \in Seq(Entry) /\ read \in Seq(Entry) /\ k <= Len(xs)
      /\ \A i \in 1 .. k : read[i] = xs[i]
      /\ k \in Nat /\ Len(xs) \in Nat /\ n \in Nat /\ n <= k
  BY <1>3, <1>4 DEF Begins
<1>6. k \in n .. Len(xs) - 1
  <2>1. k # Len(xs)
    <3>1. at[Len(xs)] = Len(batch) /\ Len(batch) \in Nat
      BY <1>14 DEF Laid
    <3> QED BY <1>1, <1>14, <3>1
  <2> QED BY <1>5, <2>1
<1>7. /\ iter' = at[k + 1]
      /\ xs[k + 1] = IF len > 0 THEN StringAt(iter + WordBytes) ELSE EndOfRow
  BY <1>2, <1>14, <1>6, ReadsNext
<1>8. read' = Append(read, xs[k + 1])
  BY <1>2, <1>7
<1>9. xs[k + 1] \in Entry
  <2>1. k + 1 \in 1 .. Len(xs)
    BY <1>5, <1>6
  <2> QED BY <1>5, <2>1
<1>10. /\ read' \in Seq(Entry) /\ Len(read') = k + 1
       /\ \A i \in 1 .. k : read'[i] = read[i]
       /\ read'[k + 1] = xs[k + 1]
  BY <1>5, <1>8, <1>9, AppendProperties
<1>11. Begins(xs)'
  <2>1. k + 1 <= Len(xs)
    BY <1>5, <1>6
  <2>2. ASSUME NEW i \in 1 .. k + 1 PROVE read'[i] = xs[i]
    <3>1. i \in 1 .. k \/ i = k + 1
      BY <1>5
    <3> QED BY <1>5, <1>10, <3>1
  <2> QED BY <1>5, <1>10, <2>1, <2>2 DEF Begins
<1>12. Result(xs)'
  BY <1>1, <1>3 DEF Result, AllRead
<1>13. ReadingWell'
  <2>1. n \in 0 .. Len(read')
    BY <1>5, <1>10
  <2> QED BY <1>1, <1>14, <1>7, <1>10, <1>11, <1>12, <2>1 DEF ReadingWell
<1> QED
  BY <1>1, <1>13
     DEF CsvWell, RowsWell, QuotedWell, PlainWell, FieldWell, EndWell, IdleWell

\* The program has read the batch.
LEMMA BatchReadKeeps ==
  ASSUME CsvTypeOK, CsvWell, BatchRead
  PROVE  CsvWell'
<1>1. /\ pc = "reading" /\ pc' = "idle" /\ iter >= Len(batch) /\ parses > 0
      /\ input' = input /\ UNCHANGED <<m, row_count, batch_size, parses, read>> /\ text' = text
      /\ parses \in Nat
  BY DEF BatchRead, text, CsvTypeOK
<1>2. PICK xs : /\ Result(xs) /\ Begins(xs)
                /\ \E n \in 0 .. Len(read) : \E at :
                     Laid(batch, xs, n, at) /\ iter = at[Len(read)]
  BY <1>1 DEF CsvWell, ReadingWell
<1>3. PICK n \in 0 .. Len(read) : \E at : Laid(batch, xs, n, at) /\ iter = at[Len(read)]
  BY <1>2
<1>9. PICK at : Laid(batch, xs, n, at) /\ iter = at[Len(read)]
  BY <1>3
<1> PICK k : k = Len(read)
  OBVIOUS
<1>4. /\ xs \in Seq(Entry) /\ read \in Seq(Entry) /\ k \in n .. Len(xs)
      /\ \A i \in 1 .. k : read[i] = xs[i]
  <2>1. k \in Nat /\ Len(xs) \in Nat /\ n \in Nat /\ n <= k /\ k <= Len(xs)
    BY <1>2, <1>3 DEF Begins
  <2> QED BY <1>2, <2>1 DEF Begins
<1>5. k = Len(xs)
  BY <1>1, <1>4, <1>9, ReadsAll
<1>6. read = xs
  BY <1>4, <1>5, SeqEqual
<1>7. Result(read)'
  BY <1>1, <1>2, <1>6 DEF Result, AllRead
<1>8. IdleWell'
  BY <1>1, <1>7 DEF IdleWell
<1> QED
  BY <1>1, <1>8
     DEF CsvWell, RowsWell, QuotedWell, PlainWell, FieldWell, EndWell, ReadingWell

\* A batch begins where the one before ended.
LEMMA ParseKeeps ==
  ASSUME CsvTypeOK, CsvWell, Followed', \E size \in BatchSizes : Parse(size)
  PROVE  CsvWell'
<1>1. /\ pc = "idle" /\ pc' = "rows" /\ parses \in Nat /\ parses' = parses + 1
      /\ was' = "nothing" /\ batch' = <<>> /\ row_count' = 0
      /\ input' = input /\ UNCHANGED <<m, read>> /\ text' = text
      /\ parses = 0 \/ ~AtEnd(text, m)
      /\ text \in Seq(Symbols)
  BY DEF Parse, text, CsvTypeOK
<1> PICK p : p = m.pos
  OBVIOUS
<1>2. /\ FieldBorder(text, p) /\ ~AfterComma(text, p) /\ read = Proper(text, p)
      /\ read = <<>> \/ EndsWithRow(read)
      /\ parses = 0 => read = <<>>
  <2>1. CASE parses = 0
    <3>1. p = 0 /\ read = <<>>
      BY <1>1, <2>1 DEF CsvWell, IdleWell
    <3> QED BY <1>1, <3>1, FirstBorder, ProperTyped
  <2>2. CASE parses # 0
    <3>1. ~(parses + 1 <= 1)
      BY <1>1, <2>2
    <3>2. WellFormed(text)
      BY <1>1, <3>1 DEF Followed
    <3>3. ~AllRead
      BY <1>1, <2>2, <3>2 DEF AllRead
    <3>4. Result(read)
      BY <1>1, <2>2, <3>3 DEF CsvWell, IdleWell
    <3> QED BY <2>2, <3>3, <3>4 DEF Result
  <2> QED BY <2>1, <2>2
<1>3. read \in Seq(Entry)
  BY <1>1, <1>2, ProperTyped DEF FieldBorder
<1> PICK k : k = Len(read)
  OBVIOUS
<1>4. k \in Nat /\ k + 1 .. k = {}
  BY <1>3
<1>5. \E at : Laid(<<>>, read, k, at)
  BY <1>3, LaidNothing
<1>6. Begins(read)
  BY <1>3, <1>4 DEF Begins
<1>7. read = <<>> \/ read[k] = EndOfRow
  BY <1>2 DEF EndsWithRow
<1>8. parses' = 1 => read = <<>>
  <2>1. parses + 1 = 1 => parses = 0
    BY <1>1
  <2> QED BY <1>1, <1>2, <2>1
<1>9. Fetched(read, <<>>, 0)'
  BY <1>1, <1>4, <1>5, <1>6, <1>7, <1>8 DEF Fetched, Begins
<1>10. Between(m.pos)'
  <2>1. was' # "delimiter" /\ m'.pos = p /\ read' = Proper(text', p)
    BY <1>1, <1>2
  <2> QED BY <1>1, <1>2, <1>9, <2>1 DEF Between
<1> QED
  BY <1>1, <1>10
     DEF CsvWell, RowsWell, QuotedWell, PlainWell, FieldWell, EndWell, ReadingWell, IdleWell

\* Every step keeps it.
LEMMA CsvStep == CsvInv /\ [CsvNext]_csvVars => CsvInv'
<1> SUFFICES ASSUME CsvInv, [CsvNext]_csvVars PROVE CsvInv'
  OBVIOUS
<1>1. CsvTypeOK' /\ input' = input /\ text' = text /\ (Followed' => Followed)
  BY CsvTypes DEF CsvInv
<1> SUFFICES ASSUME Followed' PROVE CsvWell'
  BY <1>1 DEF CsvInv
<1>2. CsvTypeOK /\ CsvWell /\ FieldsFit(text)
  BY <1>1 DEF CsvInv, Followed
<1>3. CASE \E size \in BatchSizes : Parse(size)
  BY <1>2, <1>3, ParseKeeps
<1>4. CASE StartQuoted \/ StartPlain
  BY <1>2, <1>4, StartKeeps
<1>5. CASE ReadQuoted \/ ReadPlain
  BY <1>2, <1>5, ReadKeeps
<1>6. CASE CloseQuoted \/ ClosePlain
  BY <1>2, <1>6, CloseKeeps
<1>7. CASE FieldEnds
  BY <1>2, <1>7, FieldEndsKeeps
<1>8. CASE RowEnds
  BY <1>2, <1>8, RowEndsKeeps
<1>9. CASE FieldFails
  BY <1>2, <1>9, FieldFailsKeeps
<1>10. CASE TextEnds
  BY <1>2, <1>10, TextEndsKeeps
<1>11. CASE ReturnBatch
  BY <1>2, <1>11, ReturnBatchKeeps
<1>12. CASE GetNext
  BY <1>2, <1>12, GetNextKeeps
<1>13. CASE BatchRead
  BY <1>2, <1>13, BatchReadKeeps
<1>14. CASE Stopped \/ UNCHANGED csvVars
  <2>1. UNCHANGED <<m, was, batch, row_count, batch_size, iter, pc, parses, read>>
    BY <1>14 DEF Stopped, csvVars
  <2> QED
    BY <1>1, <1>2, <2>1
       DEF CsvWell, RowsWell, QuotedWell, PlainWell, FieldWell, EndWell, ReadingWell, IdleWell,
           PlainRead, QuotedRead, Between, Fetched, Begins, Result, AllRead
<1> QED
  BY <1>3, <1>4, <1>5, <1>6, <1>7, <1>8, <1>9, <1>10, <1>11, <1>12, <1>13, <1>14 DEF CsvNext

\* CsvInv is an invariant of the parser and its program.
THEOREM CsvInvariance == CsvSpec => []CsvInv
<1> QED BY CsvFirst, CsvStep, PTL DEF CsvSpec

\* What has been read when the text ends
LEMMA InvRowsRead == CsvInv => RowsRead
<1> SUFFICES ASSUME CsvInv, pc = "idle", AtEnd(text, m), WellFormed(text), FieldsFit(text)
             PROVE  read = IF row_count = 0 THEN ClosedRows(Total(text)) ELSE Total(text)
  <2>1. WellFormed(text) => ProperFields(text) = FieldStarts(text)
    BY DEF WellFormed, ProperFields
  <2> QED BY <2>1 DEF RowsRead, Total
<1>1. CsvTypeOK /\ CsvWell
  BY DEF CsvInv, Followed
<1>2. text \in Seq(Symbols) /\ m.pos = Len(text) /\ row_count \in Nat
  BY <1>1 DEF CsvTypeOK, MinersOf, Places, AtEnd
<1>3. ASSUME FieldBorder(text, m.pos), ~AfterComma(text, m.pos)
      PROVE  Total(text) = Proper(text, m.pos)
  BY <1>2, <1>3, TotalIs
<1>4. CASE parses = 0
  <2>1. m.pos = 0 /\ read = <<>> /\ row_count = 0
    BY <1>1, <1>4 DEF CsvWell, IdleWell
  <2>2. Total(text) = <<>>
    BY <1>2, <1>3, <2>1, FirstBorder, ProperTyped
  <2>3. ClosedRows(<<>>) = SubSeq(<<>>, 1, 0)
    <3>1. <<>> \in Seq(Entry) /\ Len(<<>>) = 0 /\ 0 \in 0 .. 0 /\ 0 + 1 .. 0 = {}
      OBVIOUS
    <3> QED BY <3>1, ClosedIs
  <2>4. SubSeq(<<>>, 1, 0) = <<>>
    BY SubSeqEmpty
  <2> QED BY <2>1, <2>2, <2>3, <2>4
<1>5. CASE parses # 0 /\ row_count = 0
  BY <1>1, <1>5 DEF CsvWell, IdleWell, Result
<1>6. CASE parses # 0 /\ row_count # 0
  <2>1. Result(read)
    BY <1>1, <1>6 DEF CsvWell, IdleWell
  <2> QED BY <1>3, <1>6, <2>1 DEF Result
<1> QED BY <1>4, <1>5, <1>6

\* ... and behind a malformed field
LEMMA InvErrorsCutOff == CsvInv => ErrorsCutOff
<1> SUFFICES ASSUME CsvInv, pc = "idle", parses = 1, batch_size = 0, FieldsFit(text)
             PROVE  read = IF ClosedRows(Total(text)) = <<>> THEN <<>> ELSE Total(text)
  BY DEF ErrorsCutOff, Total
<1>1. CsvTypeOK /\ CsvWell
  BY DEF CsvInv, Followed
<1>2. CASE read = ClosedRows(Total(text)) /\ read = <<>>
  BY <1>2
<1>3. CASE Result(read)
  <2>1. read = Total(text)
    BY <1>3 DEF Result
  <2>2. PICK j \in 1 .. Len(read) : read[j] = EndOfRow
    BY <1>3 DEF Result
  <2>3. Total(text) \in Seq(Entry)
    BY <1>1, TotalTyped DEF CsvTypeOK
  <2>4. ClosedRows(read) # <<>>
    BY <2>1, <2>2, <2>3, ClosedStays
  <2> QED BY <2>1, <2>4
<1> QED BY <1>1, <1>2, <1>3 DEF CsvWell, IdleWell

\* The entries of a well-formed text come out of any sequence of batches, for
\* every text and all sizes that are asked for.
THEOREM RowsComeOut == CsvSpec => []RowsRead
<1> QED BY CsvInvariance, InvRowsRead, PTL

\* A parse without limit delivers any text up to its first malformed field.
THEOREM MalformedCutsOff == CsvSpec => []ErrorsCutOff
<1> QED BY CsvInvariance, InvErrorsCutOff, PTL

===============================================================================
