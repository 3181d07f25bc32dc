------------------------------ MODULE FoldFacts ------------------------------
(***************************************************************************)
(* A fold over a sequence, one element after the other: what holds before  *)
(* and is kept by every application of the operation holds of the result.  *)
(* And a recursive function whose values depend on those of lower rank: it *)
(* satisfies the equation that defines it.                                 *)
(*                                                                         *)
(* The operation is a constant of this module, so that the facts can be    *)
(* instantiated for each fold and each recursive function of the           *)
(* specifications; a, b and c stand for the parameters of the operation    *)
(* that the fold or the recursion leaves alone.                            *)
(***************************************************************************)
EXTENDS Naturals, Sequences, FiniteSetsExt, WellFoundedInduction, TLAPS

CONSTANT op(_, _, _, _, _)

\* Induction over the natural numbers, stated of a set.
LEMMA SetInduction ==
    ASSUME NEW S, 0 \in S, \A n \in Nat : n \in S => n + 1 \in S
    PROVE  Nat \subseteq S
<1> DEFINE Less == {ss \in Nat \X Nat : ss[1] < ss[2]}
           Out == Nat \ S
<1> SUFFICES ASSUME Out # {} PROVE FALSE
  OBVIOUS
<1>1. IsWellFoundedOn(Less, Nat)
  BY NatLessThanWellFounded DEF OpToRel
<1>2. \A x, y \in Nat : <<x, y>> \in Less <=> x < y
  OBVIOUS
<1> HIDE DEF Less
<1>3. PICK n \in Out : \A m \in Out : ~(<<m, n>> \in Less)
  BY <1>1, WFMin
<1>4. \A m \in Out : ~(m < n)
  BY <1>2, <1>3
<1>5. n # 0 /\ n - 1 \in Nat /\ n - 1 \notin Out
  BY <1>4
<1>6. QED
  BY <1>5

LEMMA MaxIs ==
    ASSUME NEW s \in SUBSET Nat, NEW n \in s, \A m \in s : m <= n
    PROVE  Max(s) = n
<1>1. \A x \in s : (\A y \in s : x >= y) => x = n
  OBVIOUS
<1>2. n \in s /\ \A y \in s : n >= y
  OBVIOUS
<1>3. QED
  BY <1>1, <1>2 DEF Max

\* What the fold does to the elements at some places, and the fold itself.
Step(iter, s, w, q, a, b, c) ==
    IF s = {} THEN w ELSE op(iter[s \ {Max(s)}], q[Max(s)], a, b, c)

Steps(w, q, a, b, c) ==
    CHOOSE iter : iter = [s \in SUBSET DOMAIN q |-> Step(iter, s, w, q, a, b, c)]

Fold(w, q, a, b, c) == Steps(w, q, a, b, c)[DOMAIN q]

\* A nonempty set of places up to n has a last one.
LEMMA MaxPlace ==
    ASSUME NEW n \in Nat
    PROVE  \A s \in SUBSET (1..n) : s # {} => Max(s) \in s
<1> DEFINE S == {k \in Nat : \A s \in SUBSET (1..k) : s # {} => Max(s) \in s}
<1>1. 0 \in S
  <2>1. \A s \in SUBSET (1..0) : s = {}
    OBVIOUS
  <2>2. QED
    BY <2>1
<1>2. ASSUME NEW k \in Nat, k \in S PROVE k + 1 \in S
  <2> SUFFICES ASSUME NEW s \in SUBSET (1..(k + 1)), s # {} PROVE Max(s) \in s
    OBVIOUS
  <2>1. CASE k + 1 \in s
    BY <2>1, MaxIs
  <2>2. CASE k + 1 \notin s
    <3>1. s \in SUBSET (1..k)
      BY <2>2
    <3>2. QED
      BY <1>2, <3>1
  <2>3. QED
    BY <2>1, <2>2
<1>3. QED
  BY <1>1, <1>2, SetInduction

\* The recursion is well founded: each step refers to one place less.
LEMMA StepsExist ==
    ASSUME NEW w, NEW q, NEW a, NEW b, NEW c, NEW n \in Nat
    PROVE  \E iter : iter = [s \in SUBSET (1..n) |-> Step(iter, s, w, q, a, b, c)]
<1> DEFINE Def(g, k) == g = [s \in SUBSET (1..k) |-> Step(g, s, w, q, a, b, c)]
           S == {k \in Nat : \E g : Def(g, k)}
<1>1. 0 \in S
  <2> DEFINE g == [s \in {{}} |-> w]
  <2>1. SUBSET (1..0) = {{}}
    OBVIOUS
  <2>2. Def(g, 0)
    BY <2>1 DEF Step
  <2>3. QED
    BY <2>2
<1>2. ASSUME NEW k \in Nat, k \in S PROVE k + 1 \in S
  <2>1. PICK g : Def(g, k)
    BY <1>2
  <2> DEFINE h == [s \in SUBSET (1..(k + 1)) |->
                     IF k + 1 \in s THEN op(g[s \ {k + 1}], q[k + 1], a, b, c) ELSE g[s]]
  <2> HIDE DEF Def
  <2>2. ASSUME NEW s \in SUBSET (1..(k + 1))
        PROVE  h[s] = Step(h, s, w, q, a, b, c)
    <3>1. CASE k + 1 \in s
      <4>1. Max(s) = k + 1
        BY <3>1, MaxIs
      <4>2. s \ {k + 1} \in SUBSET (1..(k + 1)) /\ k + 1 \notin s \ {k + 1}
        OBVIOUS
      <4>3. h[s \ {k + 1}] = g[s \ {k + 1}]
        BY <4>2
      <4>4. h[s] = op(g[s \ {k + 1}], q[k + 1], a, b, c)
        BY <3>1
      <4> HIDE DEF h
      <4>5. QED
        BY <3>1, <4>1, <4>3, <4>4 DEF Step
    <3>2. CASE k + 1 \notin s
      <4>1. s \in SUBSET (1..k)
        BY <3>2
      <4>2. h[s] = g[s] /\ g[s] = Step(g, s, w, q, a, b, c)
        BY <2>1, <3>2, <4>1 DEF Def
      <4>3. CASE s = {}
        BY <4>2, <4>3 DEF Step
      <4>4. CASE s # {}
        <5>1. s \ {Max(s)} \in SUBSET (1..(k + 1)) /\ k + 1 \notin s \ {Max(s)}
          BY <3>2
        <5>2. h[s \ {Max(s)}] = g[s \ {Max(s)}]
          BY <5>1
        <5> HIDE DEF h
        <5>3. QED
          BY <4>2, <4>4, <5>2 DEF Step
      <4>5. QED
        BY <4>3, <4>4
    <3>3. QED
      BY <3>1, <3>2
  <2>3. Def(h, k + 1)
    BY <2>2 DEF Def
  <2>4. QED
    BY <2>3
<1>3. n \in S
  BY <1>1, <1>2, SetInduction
<1>4. QED
  BY <1>3

\* The fold goes place by place.
LEMMA StepsUnfold ==
    ASSUME NEW w, NEW q, NEW E, q \in Seq(E), NEW a, NEW b, NEW c
    PROVE  LET f == Steps(w, q, a, b, c)
           IN  /\ f[1..0] = w
               /\ \A n \in 1..Len(q) : f[1..n] = op(f[1..(n - 1)], q[n], a, b, c)
<1> DEFINE f == Steps(w, q, a, b, c)
<1>1. Len(q) \in Nat /\ DOMAIN q = 1..Len(q)
  OBVIOUS
<1>2. f = [s \in SUBSET (1..Len(q)) |-> Step(f, s, w, q, a, b, c)]
  BY <1>1, StepsExist DEF Steps
<1> HIDE DEF f
<1>3. f[1..0] = w
  <2>1. 1..0 = {} /\ {} \in SUBSET (1..Len(q))
    OBVIOUS
  <2>2. QED
    BY <1>2, <2>1 DEF Step
<1>4. ASSUME NEW n \in 1..Len(q)
      PROVE  f[1..n] = op(f[1..(n - 1)], q[n], a, b, c)
  <2>1. 1..n \in SUBSET (1..Len(q)) /\ 1..n # {}
    BY <1>1
  <2>2. Max(1..n) = n
    <3>1. 1..n \in SUBSET Nat /\ n \in 1..n /\ \A m \in 1..n : m <= n
      BY <1>1
    <3>2. QED
      BY <3>1, MaxIs
  <2>3. (1..n) \ {n} = 1..(n - 1)
    BY <1>1
  <2>4. QED
    BY <1>2, <2>1, <2>2, <2>3 DEF Step
<1>5. QED
  BY <1>3, <1>4 DEF f

\* T[n] is what holds when the first n elements have been folded.
LEMMA FoldInvariant ==
    ASSUME NEW w, NEW q, NEW E, q \in Seq(E), NEW a, NEW b, NEW c, NEW T,
           w \in T[0],
           \A n \in 1..Len(q) : \A v \in T[n - 1] : op(v, q[n], a, b, c) \in T[n]
    PROVE  Fold(w, q, a, b, c) \in T[Len(q)]
<1> DEFINE f == Steps(w, q, a, b, c)
           S == {n \in Nat : n <= Len(q) => f[1..n] \in T[n]}
<1>1. Len(q) \in Nat /\ DOMAIN q = 1..Len(q)
  OBVIOUS
<1>2. /\ f[1..0] = w
      /\ \A n \in 1..Len(q) : f[1..n] = op(f[1..(n - 1)], q[n], a, b, c)
  BY StepsUnfold
<1> HIDE DEF f
<1>3. 0 \in S
  BY <1>2
<1>4. ASSUME NEW n \in Nat, n \in S PROVE n + 1 \in S
  <2> SUFFICES ASSUME n + 1 <= Len(q) PROVE f[1..(n + 1)] \in T[n + 1]
    OBVIOUS
  <2>1. n + 1 \in 1..Len(q) /\ (n + 1) - 1 = n /\ f[1..n] \in T[n]
    BY <1>1, <1>4
  <2>2. QED
    BY <1>2, <2>1
<1>5. Len(q) \in S
  BY <1>1, <1>3, <1>4, SetInduction
<1>6. QED
  BY <1>1, <1>5 DEF Fold, f

-----------------------------------------------------------------------------
(***************************************************************************)
(* Recursion: op gives the value of a function at q from its values at     *)
(* places of a lower rank.                                                 *)
(***************************************************************************)
\* Induction over the ranks of a set.
LEMMA RankInduction ==
    ASSUME NEW S, NEW rank \in [S -> Nat], NEW P,
           \A x \in S : (\A y \in S : rank[y] < rank[x] => y \in P) => x \in P
    PROVE  S \subseteq P
<1> DEFINE T == {k \in Nat : \A x \in S : rank[x] < k => x \in P}
<1>1. 0 \in T
  OBVIOUS
<1>2. ASSUME NEW k \in Nat, k \in T PROVE k + 1 \in T
  <2> SUFFICES ASSUME NEW x \in S, rank[x] < k + 1 PROVE x \in P
    OBVIOUS
  <2>1. \A y \in S : rank[y] < rank[x] => y \in P
    BY <1>2
  <2>2. QED
    BY <2>1
<1>3. Nat \subseteq T
  <2> HIDE DEF T
  <2>1. QED
    BY <1>1, <1>2, SetInduction
<1>4. QED
  BY <1>3

Recursion(S, a, b, c) ==
    CHOOSE f : f = [x \in S |-> op(f, x, a, b, c)]

Grounded(S, rank, a, b, c) ==
    \A g, h : \A x \in S :
        (\A y \in S : rank[y] < rank[x] => g[y] = h[y])
            => op(g, x, a, b, c) = op(h, x, a, b, c)

\* What satisfies the definition up to a rank.
Until(g, n, S, rank, a, b, c) ==
    \A x \in S : rank[x] < n => g[x] = op(g, x, a, b, c)

LEMMA UntilUnique ==
    ASSUME NEW S, NEW a, NEW b, NEW c, NEW rank \in [S -> Nat],
           Grounded(S, rank, a, b, c),
           NEW n \in Nat, NEW g, NEW h,
           Until(g, n, S, rank, a, b, c), Until(h, n, S, rank, a, b, c)
    PROVE  \A x \in S : rank[x] < n => g[x] = h[x]
<1> DEFINE T == {k \in Nat : \A x \in S : rank[x] < k /\ rank[x] < n => g[x] = h[x]}
<1>1. 0 \in T
  OBVIOUS
<1>2. ASSUME NEW k \in Nat, k \in T PROVE k + 1 \in T
  <2> SUFFICES ASSUME NEW x \in S, rank[x] < k + 1, rank[x] < n PROVE g[x] = h[x]
    OBVIOUS
  <2>1. \A y \in S : rank[y] < rank[x] => g[y] = h[y]
    BY <1>2
  <2>2. op(g, x, a, b, c) = op(h, x, a, b, c)
    BY <2>1 DEF Grounded
  <2>3. QED
    BY <2>2 DEF Until
<1>3. Nat \subseteq T
  <2> HIDE DEF T
  <2>1. QED
    BY <1>1, <1>2, SetInduction
<1>4. QED
  BY <1>3

LEMMA UntilExists ==
    ASSUME NEW S, NEW a, NEW b, NEW c, NEW rank \in [S -> Nat],
           Grounded(S, rank, a, b, c),
           NEW n \in Nat
    PROVE  \E g : Until(g, n, S, rank, a, b, c)
<1> DEFINE T == {k \in Nat : \E g : Until(g, k, S, rank, a, b, c)}
<1>1. 0 \in T
  BY DEF Until
<1>2. ASSUME NEW k \in Nat, k \in T PROVE k + 1 \in T
  <2>1. PICK g : Until(g, k, S, rank, a, b, c)
    BY <1>2
  <2> DEFINE h == [x \in S |-> IF rank[x] < k THEN g[x] ELSE op(g, x, a, b, c)]
  <2>2. ASSUME NEW x \in S, rank[x] < k + 1 PROVE h[x] = op(h, x, a, b, c)
    <3>1. \A y \in S : rank[y] < rank[x] => g[y] = h[y]
      BY <2>2
    <3>2. op(g, x, a, b, c) = op(h, x, a, b, c)
      <4> HIDE DEF h
      <4>1. QED
        BY <3>1 DEF Grounded
    <3>3. h[x] = op(g, x, a, b, c)
      BY <2>1 DEF Until
    <3>4. QED
      BY <3>2, <3>3
  <2>3. Until(h, k + 1, S, rank, a, b, c)
    <3> HIDE DEF h
    <3>1. QED
      BY <2>2 DEF Until
  <2>4. QED
    BY <2>3
<1>3. Nat \subseteq T
  <2> HIDE DEF T
  <2>1. QED
    BY <1>1, <1>2, SetInduction
<1>4. QED
  BY <1>3

\* A recursion whose ranks go down defines a function that unfolds.
LEMMA RecursionUnfolds ==
    ASSUME NEW S, NEW a, NEW b, NEW c, NEW rank \in [S -> Nat],
           Grounded(S, rank, a, b, c)
    PROVE  LET f == Recursion(S, a, b, c)
           IN  f = [x \in S |-> op(f, x, a, b, c)]
<1> DEFINE G(n) == CHOOSE g : Until(g, n, S, rank, a, b, c)
           f == [x \in S |-> G(rank[x] + 1)[x]]
<1>1. \A n \in Nat : Until(G(n), n, S, rank, a, b, c)
  BY UntilExists
<1>2. ASSUME NEW x \in S PROVE f[x] = op(f, x, a, b, c)
  <2> DEFINE n == rank[x] + 1
             g == G(n)
  <2>1. n \in Nat /\ rank[x] \in Nat /\ rank[x] < n
    OBVIOUS
  <2>2. Until(g, n, S, rank, a, b, c)
    BY <1>1, <2>1
  <2>3. ASSUME NEW y \in S, rank[y] < rank[x] PROVE f[y] = g[y]
    <3> DEFINE m == rank[y] + 1
               h == G(m)
    <3>1. m \in Nat /\ rank[y] \in Nat /\ rank[y] < m /\ m <= n
      BY <2>3
    <3>2. Until(h, m, S, rank, a, b, c)
      BY <1>1, <3>1
    <3>3. Until(g, m, S, rank, a, b, c)
      <4> HIDE DEF g, n, m, G
      <4>1. QED
        BY <2>1, <2>2, <3>1 DEF Until
    <3>4. f[y] = h[y]
      OBVIOUS
    <3> HIDE DEF g, h, f, m, n
    <3>5. h[y] = g[y]
      BY <3>1, <3>2, <3>3, UntilUnique
    <3>6. QED
      BY <3>4, <3>5
  <2>4. f[x] = g[x]
    OBVIOUS
  <2> HIDE DEF f, g, n
  <2>5. op(f, x, a, b, c) = op(g, x, a, b, c)
    BY <2>3 DEF Grounded
  <2>6. g[x] = op(g, x, a, b, c)
    BY <2>1, <2>2 DEF Until
  <2>7. QED
    BY <2>4, <2>5, <2>6
<1>3. f = [x \in S |-> op(f, x, a, b, c)]
  <2>1. f = [x \in S |-> f[x]]
    OBVIOUS
  <2> HIDE DEF f
  <2>2. [x \in S |-> f[x]] = [x \in S |-> op(f, x, a, b, c)]
    BY <1>2
  <2>3. QED
    BY <2>1, <2>2
<1>4. \E g : g = [x \in S |-> op(g, x, a, b, c)]
  <2> HIDE DEF f
  <2>1. QED
    BY <1>3
<1>5. QED
  BY <1>4 DEF Recursion
=============================================================================
