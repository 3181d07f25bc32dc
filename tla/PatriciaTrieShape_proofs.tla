---------------------- MODULE PatriciaTrieShape_proofs ----------------------
(***************************************************************************)
(* The shape of the updatable native dictionary, for every word the        *)
(* context offers, and what reading and writing make of it.                *)
(*                                                                         *)
(* The buffers are a heap: nodes name nodes, arrays name arrays, a node    *)
(* that moved stays behind as a link.  Shape(t, pre, at) says that they    *)
(* are a tree of letters all the same: pre[n] are the letters before node  *)
(* n, at[a] those before array a, and links, parents, children and         *)
(* siblings agree with them.  Entries(t) says that the table of terminal   *)
(* ids and the nodes name each other.  A trie is Sound when it has some    *)
(* such pre and at.                                                        *)
(*                                                                         *)
(* First the recursive readings (the fetch of a moved node, the chain of   *)
(* an array, the letters of a node, the walk for a word) unfold, and the   *)
(* walk is shown to find exactly the node that spells the word.  Then come *)
(* the insertions that append: a word is Added when the trie is sound      *)
(* again, has the word, keeps every other with its entry and pairs.        *)
(***************************************************************************)
EXTENDS PatriciaTrie, SequenceTheorems, FiniteSetTheorems, TLAPS

----------------------------------------------------------------------------
(* Beginnings of words. *)

Upto(s, n) == SubSeq(s, 1, n)

LEMMA ConcatFacts ==
    ASSUME NEW S, NEW s \in Seq(S), NEW t \in Seq(S)
    PROVE  s \o t \in Seq(S) /\ Len(s \o t) = Len(s) + Len(t) /\ Len(s) \in Nat /\ Len(t) \in Nat
OBVIOUS

LEMMA ConcatAssoc ==
    ASSUME NEW S, NEW s \in Seq(S), NEW t \in Seq(S), NEW v \in Seq(S)
    PROVE  (s \o t) \o v = s \o (t \o v)
BY ConcatAssociative

LEMMA UptoFacts ==
    ASSUME NEW S, NEW s \in Seq(S), NEW n \in 0..Len(s)
    PROVE  /\ Upto(s, n) \in Seq(S) /\ Len(Upto(s, n)) = n
           /\ \A i \in 1..n : Upto(s, n)[i] = s[i]
<1>1. \A i \in 1..n : s[i] \in S
  OBVIOUS
<1>2. QED
  BY <1>1, SubSeqProperties DEF Upto

LEMMA UptoWhole ==
    ASSUME NEW S, NEW s \in Seq(S)
    PROVE  Upto(s, Len(s)) = s /\ Upto(s, 0) = << >>
BY SubSeqFull, SubSeqEmpty DEF Upto

LEMMA UptoUpto ==
    ASSUME NEW S, NEW s \in Seq(S), NEW n \in 0..Len(s), NEW k \in 0..n
    PROVE  Upto(Upto(s, n), k) = Upto(s, k)
<1>1. Upto(s, n) \in Seq(S) /\ Len(Upto(s, n)) = n /\ k \in 0..Len(Upto(s, n)) /\ k \in 0..Len(s)
  BY UptoFacts
<1>2. /\ Upto(Upto(s, n), k) \in Seq(S) /\ Upto(s, k) \in Seq(S)
      /\ Len(Upto(Upto(s, n), k)) = k /\ Len(Upto(s, k)) = k
      /\ \A i \in 1..k : Upto(Upto(s, n), k)[i] = Upto(s, k)[i]
  BY <1>1, UptoFacts
<1>3. QED
  BY <1>2, SeqEqual

LEMMA UptoConcat ==
    ASSUME NEW S, NEW s \in Seq(S), NEW t \in Seq(S), NEW k \in 0..Len(s)
    PROVE  Upto(s \o t, k) = Upto(s, k)
<1>1. s \o t \in Seq(S) /\ Len(s \o t) = Len(s) + Len(t) /\ \A i \in 1..Len(s) : (s \o t)[i] = s[i]
  OBVIOUS
<1>2. k \in 0..Len(s \o t)
  BY <1>1
<1>3. /\ Upto(s \o t, k) \in Seq(S) /\ Upto(s, k) \in Seq(S)
      /\ Len(Upto(s \o t, k)) = k /\ Len(Upto(s, k)) = k
      /\ \A i \in 1..k : Upto(s \o t, k)[i] = Upto(s, k)[i]
  <2>1. /\ Upto(s \o t, k) \in Seq(S) /\ Len(Upto(s \o t, k)) = k
        /\ \A i \in 1..k : Upto(s \o t, k)[i] = (s \o t)[i]
    BY <1>1, <1>2, UptoFacts
  <2>2. /\ Upto(s, k) \in Seq(S) /\ Len(Upto(s, k)) = k
        /\ \A i \in 1..k : Upto(s, k)[i] = s[i]
    BY UptoFacts
  <2>3. QED
    BY <1>1, <2>1, <2>2
<1>4. QED
  BY <1>3, SeqEqual

LEMMA UptoBehind ==
    ASSUME NEW S, NEW s \in Seq(S), NEW t \in Seq(S), NEW k \in 0..Len(t)
    PROVE  Upto(s \o t, Len(s) + k) = s \o Upto(t, k)
<1>1. /\ s \o t \in Seq(S) /\ Len(s \o t) = Len(s) + Len(t)
      /\ \A i \in 1..(Len(s) + Len(t)) : (s \o t)[i] = IF i <= Len(s) THEN s[i] ELSE t[i - Len(s)]
  OBVIOUS
<1>2. Len(s) + k \in 0..Len(s \o t)
  BY <1>1
<1>3. Upto(t, k) \in Seq(S) /\ Len(Upto(t, k)) = k /\ \A i \in 1..k : Upto(t, k)[i] = t[i]
  BY UptoFacts
<1>4. /\ s \o Upto(t, k) \in Seq(S) /\ Len(s \o Upto(t, k)) = Len(s) + k
      /\ \A i \in 1..(Len(s) + k) :
           (s \o Upto(t, k))[i] = IF i <= Len(s) THEN s[i] ELSE Upto(t, k)[i - Len(s)]
  BY <1>3, SMTT(20)
<1>5. /\ Upto(s \o t, Len(s) + k) \in Seq(S) /\ Len(Upto(s \o t, Len(s) + k)) = Len(s) + k
      /\ \A i \in 1..(Len(s) + k) : Upto(s \o t, Len(s) + k)[i] = (s \o t)[i]
  BY <1>1, <1>2, UptoFacts
<1>6. \A i \in 1..(Len(s) + k) : Upto(s \o t, Len(s) + k)[i] = (s \o Upto(t, k))[i]
  <2> SUFFICES ASSUME NEW i \in 1..(Len(s) + k)
               PROVE  Upto(s \o t, Len(s) + k)[i] = (s \o Upto(t, k))[i]
    OBVIOUS
  <2>1. Len(s) \in Nat /\ Len(t) \in Nat /\ k <= Len(t)
    OBVIOUS
  <2>2. i \in 1..(Len(s) + Len(t)) /\ (i <= Len(s) \/ i - Len(s) \in 1..k)
    BY <2>1
  <2>3. QED
    BY <1>1, <1>3, <1>4, <1>5, <2>1, <2>2
<1>7. QED
  BY <1>4, <1>5, <1>6, SeqEqual

\* A sequence is a beginning of it and the rest.
LEMMA UptoAndRest ==
    ASSUME NEW S, NEW s \in Seq(S), NEW n \in 0..Len(s)
    PROVE  /\ SubSeq(s, n + 1, Len(s)) \in Seq(S) /\ Len(SubSeq(s, n + 1, Len(s))) = Len(s) - n
           /\ Upto(s, n) \o SubSeq(s, n + 1, Len(s)) = s
<1>1. \A i \in (n + 1)..Len(s) : s[i] \in S
  OBVIOUS
<1>2. SubSeq(s, n + 1, Len(s)) \in Seq(S) /\ Len(SubSeq(s, n + 1, Len(s))) = Len(s) - n
  BY <1>1, SubSeqProperties
<1>3. /\ 1 \in 1..(Len(s) + 1) /\ n \in (1 - 1)..Len(s) /\ Len(s) \in n..Len(s)
  OBVIOUS
<1>4. SubSeq(s, 1, n) \o SubSeq(s, n + 1, Len(s)) = SubSeq(s, 1, Len(s))
  BY <1>3, ConcatAdjacentSubSeq
<1>5. QED
  BY <1>2, <1>4, UptoWhole DEF Upto

LEMMA RestIs ==
    ASSUME NEW S, NEW s \in Seq(S), NEW n \in 0..Len(s)
    PROVE  \A i \in 1..Len(SubSeq(s, n + 1, Len(s))) : SubSeq(s, n + 1, Len(s))[i] = s[n + i]
<1>1. Len(SubSeq(s, n + 1, Len(s))) = Len(s) - n
  BY UptoAndRest
<1>2. \A i \in 1..(Len(s) - n) : SubSeq(s, n + 1, Len(s))[i] = s[n + i]
  OBVIOUS
<1>3. QED
  BY <1>1, <1>2

\* The next position is none of those before it.
LEMMA Beyond ==
    \A n \in Nat : n + 1 \in 1..(n + 1) /\ \A i \in 1..n : i \in 1..(n + 1) /\ i # n + 1
  OBVIOUS

LEMMA MinIn ==
    ASSUME NEW s \in SUBSET Nat, s # {}
    PROVE  Min(s) \in s /\ \A x \in s : Min(s) <= x
<1> DEFINE Less == {ss \in Nat \X Nat : ss[1] < ss[2]}
<1>1. IsWellFoundedOn(Less, Nat)
  BY NatLessThanWellFounded DEF OpToRel
<1>2. \A x, y \in Nat : <<x, y>> \in Less <=> x < y
  OBVIOUS
<1> HIDE DEF Less
<1>3. PICK n \in s : \A m \in s : ~(<<m, n>> \in Less)
  BY <1>1, WFMin
<1>4. n \in s /\ \A m \in s : n <= m
  <2>1. n \in Nat /\ \A m \in s : m \in Nat /\ ~(m < n)
    BY <1>2, <1>3
  <2>2. QED
    BY <2>1
<1>5. QED
  BY <1>4 DEF Min

----------------------------------------------------------------------------
(* Links that lead somewhere. *)

Nodes ==
    [chars : Seq(Nat) \ {<< >>}, parent : Nat, id : Nat, kids : Nat,
     flag : {"none", "moved", "deleted"}]

Arrays == [members : Seq(Nat), next : Nat]

Tries ==
    [nodes : Seq(Nodes), arrays : Seq(Arrays), table : Seq(Nat), count : Seq(0..NoEntry),
     pairs : SUBSET (Nat \X Nat)]

\* Every link of the buffers leads to a node or an array, moved nodes and linked
\* arrays to later ones.
Linked(t) ==
    /\ t \in Tries
    /\ \A n \in 1..Len(t.nodes) :
         /\ t.nodes[n].flag = "moved" => t.nodes[n].parent > n
         /\ t.nodes[n].parent <= Len(t.nodes)
         /\ t.nodes[n].kids <= Len(t.arrays)
         /\ t.nodes[n].id <= Len(t.table)
    /\ Len(t.arrays) >= 1
    /\ \A a \in 1..Len(t.arrays) :
         /\ \A i \in 1..Len(t.arrays[a].members) :
              t.arrays[a].members[i] \in 1..Len(t.nodes)
         /\ t.arrays[a].next # 0 => t.arrays[a].next > a
         /\ t.arrays[a].next <= Len(t.arrays)
    /\ Len(t.count) = Len(t.table)
    /\ \A i \in 1..Len(t.table) : t.table[i] <= Len(t.nodes)
    /\ \A p \in t.pairs : p[1] \in 1..Len(t.table) /\ p[2] \in 1..Len(t.table)

LEMMA TypesOf ==
    ASSUME NEW t \in Tries
    PROVE  /\ Len(t.nodes) \in Nat /\ Len(t.arrays) \in Nat /\ Len(t.table) \in Nat
           /\ DOMAIN t.nodes = 1..Len(t.nodes) /\ DOMAIN t.arrays = 1..Len(t.arrays)
           /\ DOMAIN t.table = 1..Len(t.table) /\ DOMAIN t.count = 1..Len(t.count)
           /\ \A n \in 1..Len(t.nodes) :
                /\ t.nodes[n] \in Nodes /\ t.nodes[n].chars \in Seq(Nat)
                /\ t.nodes[n].chars # << >> /\ Len(t.nodes[n].chars) \in Nat \ {0}
                /\ t.nodes[n].chars[1] \in Nat
                /\ t.nodes[n].parent \in Nat /\ t.nodes[n].id \in Nat /\ t.nodes[n].kids \in Nat
                /\ t.nodes[n].flag \in {"none", "moved", "deleted"}
           /\ \A a \in 1..Len(t.arrays) :
                /\ t.arrays[a] \in Arrays /\ t.arrays[a].members \in Seq(Nat)
                /\ t.arrays[a].next \in Nat
           /\ \A i \in 1..Len(t.table) : t.table[i] \in Nat
           /\ \A i \in 1..Len(t.count) : t.count[i] \in 0..NoEntry
<1>1. t.nodes \in Seq(Nodes) /\ t.arrays \in Seq(Arrays) /\ t.table \in Seq(Nat) /\ t.count \in Seq(0..NoEntry)
  BY DEF Tries
<1>2. ASSUME NEW n \in 1..Len(t.nodes)
      PROVE  /\ t.nodes[n] \in Nodes /\ t.nodes[n].chars \in Seq(Nat)
                /\ t.nodes[n].chars # << >> /\ Len(t.nodes[n].chars) \in Nat \ {0}
                /\ t.nodes[n].chars[1] \in Nat
                /\ t.nodes[n].parent \in Nat /\ t.nodes[n].id \in Nat /\ t.nodes[n].kids \in Nat
                /\ t.nodes[n].flag \in {"none", "moved", "deleted"}
  <2>1. t.nodes[n] \in Nodes
    BY <1>1
  <2>2. \A s \in Seq(Nat) : s # << >> => Len(s) \in Nat \ {0} /\ s[1] \in Nat
    OBVIOUS
  <2>3. QED
    BY <2>1, <2>2 DEF Nodes
<1>3. \A a \in 1..Len(t.arrays) :
         /\ t.arrays[a] \in Arrays /\ t.arrays[a].members \in Seq(Nat)
         /\ t.arrays[a].next \in Nat
  <2>1. \A a \in 1..Len(t.arrays) : t.arrays[a] \in Arrays
    BY <1>1
  <2>2. QED
    BY <2>1 DEF Arrays
<1>4. /\ Len(t.nodes) \in Nat /\ Len(t.arrays) \in Nat /\ Len(t.table) \in Nat
      /\ DOMAIN t.nodes = 1..Len(t.nodes) /\ DOMAIN t.arrays = 1..Len(t.arrays)
      /\ DOMAIN t.table = 1..Len(t.table) /\ DOMAIN t.count = 1..Len(t.count)
  BY <1>1
<1>5. /\ \A i \in 1..Len(t.table) : t.table[i] \in Nat
      /\ \A i \in 1..Len(t.count) : t.count[i] \in 0..NoEntry
  <2>1. \A s \in Seq(0..NoEntry) : \A i \in 1..Len(s) : s[i] \in 0..NoEntry
    BY DEF NoEntry
  <2>2. \A s \in Seq(Nat) : \A i \in 1..Len(s) : s[i] \in Nat
    OBVIOUS
  <2>3. QED
    BY <1>1, <2>1, <2>2
<1>6. QED
  BY <1>2, <1>3, <1>4, <1>5

----------------------------------------------------------------------------
(* The recursive functions of the trie: the value at i by that of others. *)

FetchAt(g, i, t) == IF t.nodes[i].flag = "moved" THEN g[t.nodes[i].parent] ELSE i

LastAt(g, i, t) == IF t.arrays[i].next = 0 THEN i ELSE g[t.arrays[i].next]

ChainAt(g, i, t) ==
    t.arrays[i].members \o (IF t.arrays[i].next = 0 THEN << >> ELSE g[t.arrays[i].next])

SpelledAt(g, i, t) ==
    IF i = 0 THEN << >>
    ELSE g[IF t.nodes[i].parent = 0 THEN 0 ELSE Fetch(t, t.nodes[i].parent)] \o t.nodes[i].chars

WalkAt(g, p, t, w) ==
    IF Meets(t, w, p).stop = "below" THEN g[Below(t, Meets(t, w, p))] ELSE Meets(t, w, p)

SurvivingAt(g, i, t) == Survivors(g, t, Siblings(t, i))

ArraysAt(g, i, t) == {i} \cup UNION {g[t.nodes[n].kids] : n \in WithKidsKept(t, i)}

\* All of them, told apart by a name, so that the facts of FoldFacts are instantiated
\* once only: every instance is context for every step of the proofs below.
ValueAt(g, i, t, w, name) ==
    CASE name = "fetch"     -> FetchAt(g, i, t)
      [] name = "last"      -> LastAt(g, i, t)
      [] name = "chain"     -> ChainAt(g, i, t)
      [] name = "spelled"   -> SpelledAt(g, i, t)
      [] name = "walk"      -> WalkAt(g, i, t, w)
      [] name = "surviving" -> SurvivingAt(g, i, t)
      [] name = "arrays"    -> ArraysAt(g, i, t)

Values == INSTANCE FoldFacts WITH op <- ValueAt

----------------------------------------------------------------------------
(* Where a moved node is. *)

Moved(t, n) == t.nodes[n].flag = "moved"

LEMMA FetchUnfolds ==
    ASSUME NEW t, Linked(t)
    PROVE  \A n \in 1..Len(t.nodes) :
             Fetch(t, n) = IF Moved(t, n) THEN Fetch(t, t.nodes[n].parent) ELSE n
<1> DEFINE S == 1..Len(t.nodes)
           rank == [i \in S |-> Len(t.nodes) - i]
           f == CHOOSE g : g = [x \in S |-> FetchAt(g, x, t)]
<1>1. /\ t \in Tries /\ Len(t.nodes) \in Nat
      /\ \A n \in S : t.nodes[n].parent \in Nat
      /\ \A n \in S : t.nodes[n].flag = "moved" => t.nodes[n].parent > n
      /\ \A n \in S : t.nodes[n].parent <= Len(t.nodes)
  BY TypesOf DEF Linked
<1>2. rank \in [S -> Nat]
  BY <1>1
<1>3. ASSUME NEW i \in S, t.nodes[i].flag = "moved"
      PROVE  t.nodes[i].parent \in S /\ rank[t.nodes[i].parent] < rank[i]
  BY <1>1, <1>3
<1> HIDE DEF rank
<1>4. Values!Grounded(S, rank, t, 0, "fetch")
  BY <1>3 DEF Values!Grounded, ValueAt, FetchAt
<1>5. f = [x \in S |-> FetchAt(f, x, t)]
  <2> HIDE DEF S
  <2> DEFINE h == Values!Recursion(S, t, 0, "fetch")
  <2>1. h = [x \in S |-> ValueAt(h, x, t, 0, "fetch")]
    BY <1>2, <1>4, Values!RecursionUnfolds
  <2> HIDE DEF h
  <2>2. h = [x \in S |-> FetchAt(h, x, t)]
    BY <2>1 DEF ValueAt
  <2>3. QED
    BY <2>2
<1>6. \A n : Fetch(t, n) = f[n]
  BY DEF Fetch, FetchAt
<1> HIDE DEF f
<1>7. QED
  BY <1>1, <1>5, <1>6 DEF FetchAt, Moved

\* A node is fetched from where it is last: what moving keeps stays true.
LEMMA FetchFacts ==
    ASSUME NEW t, Linked(t), NEW Q,
           \A n \in 1..Len(t.nodes) : Moved(t, n) => Q[t.nodes[n].parent] = Q[n]
    PROVE  \A n \in 1..Len(t.nodes) :
             /\ Fetch(t, n) \in 1..Len(t.nodes) /\ ~Moved(t, Fetch(t, n))
             /\ Fetch(t, n) >= n /\ Q[Fetch(t, n)] = Q[n]
             /\ ~Moved(t, n) => Fetch(t, n) = n
             /\ Moved(t, n) => Fetch(t, n) > n
<1> DEFINE S == 1..Len(t.nodes)
           rank == [i \in S |-> Len(t.nodes) - i]
           P == {n \in S : /\ Fetch(t, n) \in S /\ ~Moved(t, Fetch(t, n))
                           /\ Fetch(t, n) >= n /\ Q[Fetch(t, n)] = Q[n]
                           /\ ~Moved(t, n) => Fetch(t, n) = n
                           /\ Moved(t, n) => Fetch(t, n) > n}
<1>1. /\ t \in Tries /\ Len(t.nodes) \in Nat
      /\ \A n \in S : t.nodes[n].parent \in Nat
      /\ \A n \in S : t.nodes[n].flag = "moved" => t.nodes[n].parent > n
      /\ \A n \in S : t.nodes[n].parent <= Len(t.nodes)
  BY TypesOf DEF Linked
<1>2. rank \in [S -> Nat]
  BY <1>1
<1>3. ASSUME NEW i \in S, \A y \in S : rank[y] < rank[i] => y \in P PROVE i \in P
  <2>0. Fetch(t, i) = IF Moved(t, i) THEN Fetch(t, t.nodes[i].parent) ELSE i
    BY FetchUnfolds
  <2>1. CASE ~Moved(t, i)
    BY <2>0, <2>1
  <2>2. CASE Moved(t, i)
    <3>1. /\ t.nodes[i].parent \in S /\ t.nodes[i].parent > i
          /\ rank[t.nodes[i].parent] < rank[i]
      BY <1>1, <2>2 DEF Moved
    <3> DEFINE p == t.nodes[i].parent
    <3>2. p \in P /\ Q[p] = Q[i] /\ Fetch(t, i) = Fetch(t, p)
      BY <1>3, <2>0, <2>2, <3>1
    <3>3. p > i /\ p \in Nat
      BY <3>1
    <3> HIDE DEF p
    <3>4. QED
      BY <2>2, <3>2, <3>3
  <2>3. QED
    BY <2>1, <2>2
<1>4. S \subseteq P
  <2> HIDE DEF S, rank, P
  <2>1. QED
    BY <1>2, <1>3, Values!RankInduction
<1>5. QED
  BY <1>4

----------------------------------------------------------------------------
(* Chains of arrays. *)

LEMMA RangeConcat ==
    ASSUME NEW S, NEW s \in Seq(S), NEW v \in Seq(S)
    PROVE  /\ s \o v \in Seq(S) /\ Range(s \o v) = Range(s) \cup Range(v)
           /\ Range(s) \subseteq S
<1>1. /\ s \o v \in Seq(S) /\ Len(s \o v) = Len(s) + Len(v)
      /\ Len(s) \in Nat /\ Len(v) \in Nat
      /\ \A i \in 1..(Len(s) + Len(v)) :
           (s \o v)[i] = IF i <= Len(s) THEN s[i] ELSE v[i - Len(s)]
  OBVIOUS
<1>2. DOMAIN s = 1..Len(s) /\ DOMAIN v = 1..Len(v) /\ DOMAIN (s \o v) = 1..(Len(s) + Len(v))
  BY <1>1
<1>3. ASSUME NEW i \in DOMAIN s PROVE s[i] \in Range(s \o v)
  <2>1. i \in DOMAIN (s \o v) /\ (s \o v)[i] = s[i]
    BY <1>1, <1>2
  <2>2. QED
    BY <2>1 DEF Range
<1>4. ASSUME NEW i \in DOMAIN v PROVE v[i] \in Range(s \o v)
  <2>1. i + Len(s) \in DOMAIN (s \o v) /\ (s \o v)[i + Len(s)] = v[i]
    BY <1>1, <1>2
  <2>2. QED
    BY <2>1 DEF Range
<1>5. ASSUME NEW i \in DOMAIN (s \o v) PROVE (s \o v)[i] \in Range(s) \cup Range(v)
  <2>1. \/ i \in DOMAIN s /\ (s \o v)[i] = s[i]
        \/ i - Len(s) \in DOMAIN v /\ (s \o v)[i] = v[i - Len(s)]
    BY <1>1, <1>2
  <2>2. QED
    BY <2>1 DEF Range
<1>6. Range(s) \subseteq S
  BY DEF Range
<1>7. QED
  BY <1>1, <1>3, <1>4, <1>5, <1>6 DEF Range

LEMMA ChainFacts ==
    ASSUME NEW t, Linked(t)
    PROVE  \A a \in 1..Len(t.arrays) :
             /\ Chain(t, a) \in Seq(1..Len(t.nodes))
             /\ Range(Chain(t, a)) = Range(t.arrays[a].members) \cup
                  (IF t.arrays[a].next = 0 THEN {} ELSE Range(Chain(t, t.arrays[a].next)))
<1> DEFINE S == 1..Len(t.arrays)
           N == 1..Len(t.nodes)
           rank == [i \in S |-> Len(t.arrays) - i]
           f == CHOOSE g : g = [x \in S |-> ChainAt(g, x, t)]
           P == {i \in S : f[i] \in Seq(N)}
<1>1. /\ t \in Tries /\ Len(t.arrays) \in Nat
      /\ \A i \in S : t.arrays[i].next \in Nat
      /\ \A i \in S : t.arrays[i].next # 0 => t.arrays[i].next > i
      /\ \A i \in S : t.arrays[i].next <= Len(t.arrays)
      /\ \A i \in S : t.arrays[i].members \in Seq(Nat)
      /\ \A i \in S : \A j \in 1..Len(t.arrays[i].members) : t.arrays[i].members[j] \in N
  BY TypesOf DEF Linked
<1>2. rank \in [S -> Nat]
  BY <1>1
<1>3. ASSUME NEW i \in S, t.arrays[i].next # 0
      PROVE  t.arrays[i].next \in S /\ rank[t.arrays[i].next] < rank[i]
  BY <1>1, <1>3
<1>4. \A i \in S : t.arrays[i].members \in Seq(N)
  <2> SUFFICES ASSUME NEW i \in S PROVE t.arrays[i].members \in Seq(N)
    OBVIOUS
  <2> DEFINE s == t.arrays[i].members
  <2>1. s \in Seq(Nat) /\ \A j \in 1..Len(s) : s[j] \in N
    BY <1>1
  <2> HIDE DEF s, N
  <2>2. s \in Seq(N)
    BY <2>1
  <2>3. QED
    BY <2>2 DEF s
<1> HIDE DEF rank
<1>5. Values!Grounded(S, rank, t, 0, "chain")
  <2>1. ASSUME NEW g, NEW h, NEW i \in S, \A y \in S : rank[y] < rank[i] => g[y] = h[y]
        PROVE  ChainAt(g, i, t) = ChainAt(h, i, t)
    <3>1. t.arrays[i].next # 0 => g[t.arrays[i].next] = h[t.arrays[i].next]
      BY <1>3, <2>1
    <3>2. QED
      BY <3>1, Zenon DEF ChainAt
  <2> HIDE DEF S
  <2>2. QED
    BY <2>1 DEF Values!Grounded, ValueAt
<1>6. f = [x \in S |-> ChainAt(f, x, t)]
  <2> HIDE DEF S
  <2> DEFINE h == Values!Recursion(S, t, 0, "chain")
  <2>1. h = [x \in S |-> ValueAt(h, x, t, 0, "chain")]
    BY <1>2, <1>5, Values!RecursionUnfolds
  <2> HIDE DEF h
  <2>2. h = [x \in S |-> ChainAt(h, x, t)]
    BY <2>1 DEF ValueAt
  <2>3. QED
    BY <2>2
<1>7. \A i : Chain(t, i) = f[i]
  BY DEF Chain, ChainAt
<1> HIDE DEF f, N
<1>8. \A i \in S : f[i] = t.arrays[i].members \o
                          (IF t.arrays[i].next = 0 THEN << >> ELSE f[t.arrays[i].next])
  <2>1. \A i \in S : f[i] = ChainAt(f, i, t)
    <3> HIDE DEF S
    <3>1. QED
      BY <1>6
  <2>2. QED
    BY <2>1, Zenon DEF ChainAt
<1>9. ASSUME NEW i \in S, \A y \in S : rank[y] < rank[i] => y \in P PROVE i \in P
  <2>1. t.arrays[i].next # 0 => f[t.arrays[i].next] \in Seq(N)
    BY <1>3, <1>9
  <2>2. << >> \in Seq(N) /\ t.arrays[i].members \in Seq(N)
    BY <1>4
  <2>3. (IF t.arrays[i].next = 0 THEN << >> ELSE f[t.arrays[i].next]) \in Seq(N)
    BY <2>1, <2>2
  <2>4. f[i] \in Seq(N)
    BY <1>8, <2>2, <2>3, ConcatProperties
  <2>5. QED
    BY <2>4
<1>10. S \subseteq P
  <2> HIDE DEF S, P
  <2>1. QED
    BY <1>2, <1>9, Values!RankInduction
<1>13. \A s, v \in Seq(N) : Range(s \o v) = Range(s) \cup Range(v)
  BY RangeConcat
<1>11. ASSUME NEW a \in S
       PROVE  Range(f[a]) = Range(t.arrays[a].members) \cup
                  (IF t.arrays[a].next = 0 THEN {} ELSE Range(f[t.arrays[a].next]))
  <2>1. CASE t.arrays[a].next = 0
    <3>1. << >> \in Seq(N) /\ t.arrays[a].members \in Seq(N)
      BY <1>4
    <3>2. Range(<< >>) = {}
      BY DEF Range
    <3>3. Range(t.arrays[a].members \o << >>) = Range(t.arrays[a].members) \cup Range(<< >>)
      BY <3>1, <1>13
    <3>4. QED
      BY <1>8, <2>1, <3>2, <3>3
  <2>2. CASE t.arrays[a].next # 0
    <3>1. f[t.arrays[a].next] \in Seq(N) /\ t.arrays[a].members \in Seq(N)
      BY <1>3, <1>4, <1>10, <2>2
    <3>2. QED
      BY <1>8, <1>13, <2>2, <3>1
  <2>3. QED
    BY <2>1, <2>2
<1>12. QED
  BY <1>7, <1>10, <1>11 DEF N

LEMMA SiblingsFacts ==
    ASSUME NEW t, Linked(t), NEW a \in 1..Len(t.arrays)
    PROVE  /\ Siblings(t, a) \in Seq(1..Len(t.nodes))
           /\ Range(Siblings(t, a)) = {Fetch(t, m) : m \in Range(Chain(t, a))}
<1> DEFINE N == 1..Len(t.nodes)
           chain == Chain(t, a)
           s == Siblings(t, a)
<1>1. chain \in Seq(N)
  BY ChainFacts
<1>2. \A n \in N : Fetch(t, n) \in N
  <2> DEFINE Q == [n \in N |-> 0]
  <2>1. \A n \in N : Moved(t, n) => Q[t.nodes[n].parent] = Q[n]
    <3>1. \A n \in N : Moved(t, n) => t.nodes[n].parent \in N
      <4>1. t \in Tries
        BY DEF Linked
      <4>2. \A n \in N : t.nodes[n].parent \in Nat
        BY <4>1, TypesOf
      <4>3. QED
        BY <4>2 DEF Linked, Moved
    <3>2. QED
      BY <3>1
  <2> HIDE DEF Q
  <2>2. QED
    BY <2>1, FetchFacts
<1>3. s = [i \in 1..Len(chain) |-> Fetch(t, chain[i])]
  BY DEF Siblings
<1> HIDE DEF s, chain
<1>4. \A i \in 1..Len(chain) : chain[i] \in N /\ Fetch(t, chain[i]) \in N
  BY <1>1, <1>2
<1>5. s \in Seq(N) /\ DOMAIN s = 1..Len(chain) /\ DOMAIN chain = 1..Len(chain)
  BY <1>1, <1>3, <1>4
<1>6. Range(s) = {Fetch(t, m) : m \in Range(chain)}
  BY <1>3, <1>5 DEF Range
<1>7. QED
  BY <1>5, <1>6 DEF s, chain
----------------------------------------------------------------------------
(***************************************************************************)
(* The shape of the trie.  pre[n] are the letters before a node, at[a] the *)
(* letters before the nodes of an array; neither is stored.                *)
(***************************************************************************)

Spelled(t, pre, n) == pre[n] \o t.nodes[n].chars

\* An array is the first of those for its letters.
First(t, at, a) == \A b \in 1..Len(t.arrays) : at[b] = at[a] => a <= b

\* Links lead from each array to the next one for the same letters.
Chained(t, at) ==
    \A a \in 1..Len(t.arrays) :
      /\ t.arrays[a].next = 0 => \A b \in 1..Len(t.arrays) : at[b] = at[a] => b <= a
      /\ t.arrays[a].next # 0 =>
           /\ at[t.arrays[a].next] = at[a]
           /\ \A b \in 1..Len(t.arrays) : a < b /\ at[b] = at[a] => t.arrays[a].next <= b

Filled(t, pre, at) ==
    \A a \in 1..Len(t.arrays) : \A i \in 1..Len(t.arrays[a].members) :
      pre[t.arrays[a].members[i]] = at[a]

Letter(t, n) == t.nodes[n].chars[1]

\* A node moves to one that begins at the same place with the same letter.
Forwards(t, pre) ==
    \A n \in 1..Len(t.nodes) :
      Moved(t, n) => /\ pre[t.nodes[n].parent] = pre[n]
                     /\ Letter(t, t.nodes[n].parent) = Letter(t, n)

Member(t, a, m) == \E i \in 1..Len(t.arrays[a].members) : t.arrays[a].members[i] = m

\* Every node that has not moved is read through some array.
Listed(t) ==
    \A n \in 1..Len(t.nodes) :
      ~Moved(t, n) =>
        \E a \in 1..Len(t.arrays), m \in 1..Len(t.nodes) : Member(t, a, m) /\ Fetch(t, m) = n

Laid(t, pre, at) ==
    /\ Linked(t)
    /\ pre \in [1..Len(t.nodes) -> Seq(Nat)]
    /\ at \in [1..Len(t.arrays) -> Seq(Nat)]
    /\ Chained(t, at)
    /\ Filled(t, pre, at)
    /\ Forwards(t, pre)
    /\ Listed(t)

LEMMA FetchKeeps ==
    ASSUME NEW t, NEW pre, NEW at, Laid(t, pre, at), NEW n \in 1..Len(t.nodes)
    PROVE  /\ Fetch(t, n) \in 1..Len(t.nodes) /\ ~Moved(t, Fetch(t, n))
           /\ pre[Fetch(t, n)] = pre[n] /\ Letter(t, Fetch(t, n)) = Letter(t, n)
           /\ ~Moved(t, n) => Fetch(t, n) = n
           /\ Fetch(t, n) >= n
<1> DEFINE N == 1..Len(t.nodes)
           Q == [m \in N |-> Letter(t, m)]
<1>1. Linked(t) /\ Forwards(t, pre)
  BY DEF Laid
<1>2. \A m \in N : Moved(t, m) => t.nodes[m].parent \in N
  <2>1. /\ t \in Tries
        /\ \A m \in N : Moved(t, m) => t.nodes[m].parent > m /\ t.nodes[m].parent <= Len(t.nodes)
    BY <1>1 DEF Linked, Moved
  <2>2. Len(t.nodes) \in Nat /\ \A m \in N : t.nodes[m].parent \in Nat
    BY <2>1, TypesOf
  <2>3. \A x \in Nat : \A i \in 1..x : \A j \in Nat : j > i /\ j <= x => j \in 1..x
    OBVIOUS
  <2>4. QED
    BY <2>1, <2>2, <2>3
<1>3. \A m \in N : Moved(t, m) => pre[t.nodes[m].parent] = pre[m] /\ Q[t.nodes[m].parent] = Q[m]
  BY <1>1, <1>2 DEF Forwards
<1> HIDE DEF Q
<1>4. /\ Fetch(t, n) \in N /\ ~Moved(t, Fetch(t, n))
      /\ ~Moved(t, n) => Fetch(t, n) = n
      /\ Q[Fetch(t, n)] = Q[n] /\ Fetch(t, n) >= n
  BY <1>1, <1>3, FetchFacts
<1>5. pre[Fetch(t, n)] = pre[n]
  BY <1>1, <1>3, FetchFacts
<1>6. QED
  BY <1>4, <1>5 DEF Q

\* A chain read from an array holds the members of all the later arrays for its
\* letters.
LEMMA ChainIs ==
    ASSUME NEW t, NEW pre, NEW at, Laid(t, pre, at), NEW a0 \in 1..Len(t.arrays)
    PROVE  \A m : m \in Range(Chain(t, a0)) <=>
                    \E b \in 1..Len(t.arrays) : a0 <= b /\ at[b] = at[a0] /\ Member(t, b, m)
<1> DEFINE S == 1..Len(t.arrays)
           rank == [i \in S |-> Len(t.arrays) - i]
           P == {a \in S : \A m : m \in Range(Chain(t, a)) <=>
                    \E b \in S : a <= b /\ at[b] = at[a] /\ Member(t, b, m)}
<1>1. Linked(t) /\ Len(t.arrays) \in Nat /\ Chained(t, at)
  BY TypesOf DEF Laid, Linked
<1>2. rank \in [S -> Nat]
  BY <1>1
<1>3. ASSUME NEW a \in S, \A y \in S : rank[y] < rank[a] => y \in P PROVE a \in P
  <2> DEFINE c == t.arrays[a].next
  <2>1. c \in Nat /\ (c # 0 => c \in S /\ c > a /\ rank[c] < rank[a])
    BY <1>1, TypesOf DEF Linked
  <2>2. Range(Chain(t, a)) = Range(t.arrays[a].members) \cup
                  (IF c = 0 THEN {} ELSE Range(Chain(t, c)))
    BY <1>1, ChainFacts
  <2>3. \A m : m \in Range(t.arrays[a].members) <=> Member(t, a, m)
    <3>1. t.arrays[a].members \in Seq(Nat)
      BY <1>1, TypesOf DEF Linked
    <3>2. DOMAIN t.arrays[a].members = 1..Len(t.arrays[a].members)
      BY <3>1
    <3>3. QED
      BY <3>2 DEF Range, Member
  <2>4. /\ c = 0 => \A b \in S : at[b] = at[a] => b <= a
        /\ c # 0 => at[c] = at[a] /\ \A b \in S : a < b /\ at[b] = at[a] => c <= b
    BY <1>1 DEF Chained
  <2>5. c # 0 => \A m : m \in Range(Chain(t, c)) <=>
                    \E b \in S : c <= b /\ at[b] = at[c] /\ Member(t, b, m)
    BY <1>3, <2>1
  <2> HIDE DEF c, rank
  <2>6. ASSUME NEW m
        PROVE  m \in Range(Chain(t, a)) <=>
                    \E b \in S : a <= b /\ at[b] = at[a] /\ Member(t, b, m)
    <3>1. CASE c = 0
      <4>1. \A b \in S : a <= b /\ at[b] = at[a] => b = a
        BY <2>4, <3>1
      <4>2. QED
        BY <2>2, <2>3, <3>1, <4>1
    <3>2. CASE c # 0
      <4>1. \A b \in S : a <= b /\ at[b] = at[a] => b = a \/ c <= b
        BY <2>4, <3>2
      <4>2. \A b \in S : c <= b /\ at[b] = at[c] => a <= b /\ at[b] = at[a]
        BY <2>1, <2>4, <3>2
      <4>3. m \in Range(Chain(t, a)) <=> Member(t, a, m) \/ m \in Range(Chain(t, c))
        BY <2>2, <2>3, <3>2
      <4>4. at[c] = at[a]
        BY <2>4, <3>2
      <4>5. ASSUME m \in Range(Chain(t, a))
            PROVE  \E b \in S : a <= b /\ at[b] = at[a] /\ Member(t, b, m)
        <5>1. CASE Member(t, a, m)
          BY <5>1
        <5>2. CASE m \in Range(Chain(t, c))
          BY <2>5, <3>2, <4>2, <5>2
        <5>3. QED
          BY <4>3, <4>5, <5>1, <5>2
      <4>6. ASSUME NEW b \in S, a <= b, at[b] = at[a], Member(t, b, m)
            PROVE  m \in Range(Chain(t, a))
        BY <2>5, <3>2, <4>1, <4>3, <4>4, <4>6
      <4>7. QED
        BY <4>5, <4>6
    <3>3. QED
      BY <3>1, <3>2
  <2>7. QED
    BY <2>6
<1>4. S \subseteq P
  <2> HIDE DEF S, rank, P
  <2>1. QED
    BY <1>2, <1>3, Values!RankInduction
<1>5. QED
  BY <1>4

\* The siblings of a first array are the nodes behind its letters.
LEMMA SiblingsAre ==
    ASSUME NEW t, NEW pre, NEW at, Laid(t, pre, at),
           NEW a \in 1..Len(t.arrays), First(t, at, a)
    PROVE  /\ Siblings(t, a) \in Seq(1..Len(t.nodes))
           /\ Range(Siblings(t, a)) =
                {n \in 1..Len(t.nodes) : ~Moved(t, n) /\ pre[n] = at[a]}
<1> DEFINE N == 1..Len(t.nodes)
           S == 1..Len(t.arrays)
<1>1. Linked(t) /\ Filled(t, pre, at) /\ Listed(t)
  BY DEF Laid
<1>2. /\ Siblings(t, a) \in Seq(N)
      /\ Range(Siblings(t, a)) = {Fetch(t, m) : m \in Range(Chain(t, a))}
  BY <1>1, SiblingsFacts
<1>3. \A b \in S : \A m : Member(t, b, m) => m \in N /\ pre[m] = at[b]
  BY <1>1 DEF Filled, Member, Linked
<1>4. \A m : m \in Range(Chain(t, a)) <=> \E b \in S : at[b] = at[a] /\ Member(t, b, m)
  BY ChainIs DEF First
<1>5. ASSUME NEW m \in Range(Chain(t, a))
      PROVE  Fetch(t, m) \in N /\ ~Moved(t, Fetch(t, m)) /\ pre[Fetch(t, m)] = at[a]
  BY <1>3, <1>4, FetchKeeps
<1>6. ASSUME NEW n \in N, ~Moved(t, n), pre[n] = at[a]
      PROVE  \E m \in Range(Chain(t, a)) : n = Fetch(t, m)
  <2>1. PICK b \in S, m \in N : Member(t, b, m) /\ Fetch(t, m) = n
    BY <1>1, <1>6 DEF Listed
  <2>2. pre[m] = at[b] /\ pre[n] = pre[m]
    BY <1>3, <2>1, FetchKeeps
  <2>3. QED
    BY <1>4, <1>6, <2>1, <2>2
<1>7. QED
  BY <1>2, <1>5, <1>6
----------------------------------------------------------------------------
(* A trie: every node has its parent, siblings differ in their first letters. *)

Owned(t, pre, at) ==
    \A a \in 1..Len(t.arrays) :
      at[a] # << >> =>
        \E n \in 1..Len(t.nodes) :
          ~Moved(t, n) /\ t.nodes[n].kids # 0 /\ Spelled(t, pre, n) = at[a]

Kids(t, pre, at) ==
    \A n \in 1..Len(t.nodes) :
      t.nodes[n].kids # 0 => /\ at[t.nodes[n].kids] = Spelled(t, pre, n)
                             /\ First(t, at, t.nodes[n].kids)

Parents(t, pre) ==
    \A n \in 1..Len(t.nodes) :
      ~Moved(t, n) =>
        /\ t.nodes[n].parent = 0 => pre[n] = << >>
        /\ t.nodes[n].parent # 0 =>
             /\ ~Moved(t, t.nodes[n].parent) /\ t.nodes[t.nodes[n].parent].kids # 0
             /\ pre[n] = Spelled(t, pre, t.nodes[n].parent)

Apart(t, pre) ==
    \A m, n \in 1..Len(t.nodes) :
      ~Moved(t, m) /\ ~Moved(t, n) /\ pre[m] = pre[n] /\ Letter(t, m) = Letter(t, n) => m = n

Shape(t, pre, at) ==
    /\ Laid(t, pre, at)
    /\ at[1] = << >>
    /\ Owned(t, pre, at)
    /\ Kids(t, pre, at)
    /\ Parents(t, pre)
    /\ Apart(t, pre)

\* What the shape says of the sequences, for later use.
LEMMA ShapeTypes ==
    ASSUME NEW t, NEW pre, NEW at, Shape(t, pre, at)
    PROVE  /\ Linked(t) /\ t \in Tries
           /\ Len(t.nodes) \in Nat /\ Len(t.arrays) \in Nat \ {0}
           /\ \A a \in 1..Len(t.arrays) : at[a] \in Seq(Nat)
           /\ \A n \in 1..Len(t.nodes) :
                /\ pre[n] \in Seq(Nat) /\ Len(pre[n]) \in Nat
                /\ t.nodes[n].chars \in Seq(Nat) /\ Len(t.nodes[n].chars) \in Nat \ {0}
                /\ Spelled(t, pre, n) \in Seq(Nat)
                /\ Len(Spelled(t, pre, n)) = Len(pre[n]) + Len(t.nodes[n].chars)
                /\ t.nodes[n].parent \in 0..Len(t.nodes)
                /\ t.nodes[n].kids \in 0..Len(t.arrays)
                /\ t.nodes[n].id \in 0..Len(t.table)
<1>1. Linked(t) /\ t \in Tries
  BY DEF Shape, Laid, Linked
<1>2. /\ pre \in [1..Len(t.nodes) -> Seq(Nat)]
      /\ at \in [1..Len(t.arrays) -> Seq(Nat)]
  BY DEF Shape, Laid
<1>3. Len(t.nodes) \in Nat /\ Len(t.arrays) \in Nat \ {0} /\ Len(t.table) \in Nat
  BY <1>1, TypesOf DEF Linked
<1>4. ASSUME NEW n \in 1..Len(t.nodes)
      PROVE  /\ pre[n] \in Seq(Nat) /\ Len(pre[n]) \in Nat
                /\ t.nodes[n].chars \in Seq(Nat) /\ Len(t.nodes[n].chars) \in Nat \ {0}
                /\ Spelled(t, pre, n) \in Seq(Nat)
                /\ Len(Spelled(t, pre, n)) = Len(pre[n]) + Len(t.nodes[n].chars)
                /\ t.nodes[n].parent \in 0..Len(t.nodes)
                /\ t.nodes[n].kids \in 0..Len(t.arrays)
                /\ t.nodes[n].id \in 0..Len(t.table)
  <2>1. pre[n] \in Seq(Nat) /\ Len(pre[n]) \in Nat
    BY <1>2
  <2>2. /\ t.nodes[n].chars \in Seq(Nat) /\ Len(t.nodes[n].chars) \in Nat \ {0}
        /\ t.nodes[n].parent \in Nat /\ t.nodes[n].kids \in Nat /\ t.nodes[n].id \in Nat
    BY <1>1, TypesOf
  <2>3. /\ Spelled(t, pre, n) \in Seq(Nat)
        /\ Len(Spelled(t, pre, n)) = Len(pre[n]) + Len(t.nodes[n].chars)
    BY <2>1, <2>2, ConcatFacts DEF Spelled
  <2>4. /\ t.nodes[n].parent <= Len(t.nodes) /\ t.nodes[n].kids <= Len(t.arrays)
        /\ t.nodes[n].id <= Len(t.table)
    BY <1>1 DEF Linked
  <2>5. QED
    BY <1>3, <2>1, <2>2, <2>3, <2>4
<1>5. QED
  BY <1>1, <1>2, <1>3, <1>4

\* The way up from a node spells its letters.
LEMMA SpelledByIs ==
    ASSUME NEW t, NEW pre, NEW at, Shape(t, pre, at)
    PROVE  \A n \in 1..Len(t.nodes) : ~Moved(t, n) => SpelledBy(t, n) = Spelled(t, pre, n)
<1> DEFINE N == 1..Len(t.nodes)
           S == 0..Len(t.nodes)
           rank == [i \in S |-> IF i = 0 THEN 0
                                ELSE IF Moved(t, i) THEN 2 * Len(pre[i]) + 2
                                ELSE 2 * Len(pre[i]) + 1]
           f == CHOOSE g : g = [x \in S |-> SpelledAt(g, x, t)]
           up(i) == IF t.nodes[i].parent = 0 THEN 0 ELSE Fetch(t, t.nodes[i].parent)
           P == {n \in S : n # 0 /\ ~Moved(t, n) => f[n] = Spelled(t, pre, n)}
<1>1. /\ Linked(t) /\ Len(t.nodes) \in Nat
      /\ \A n \in N : /\ pre[n] \in Seq(Nat) /\ Len(pre[n]) \in Nat
                /\ t.nodes[n].chars \in Seq(Nat) /\ Len(t.nodes[n].chars) \in Nat \ {0}
                /\ Len(Spelled(t, pre, n)) = Len(pre[n]) + Len(t.nodes[n].chars)
                /\ t.nodes[n].parent \in 0..Len(t.nodes)
  BY ShapeTypes
<1>2. rank \in [S -> Nat]
  <2>1. \A i \in S : i # 0 => i \in N
    BY <1>1
  <2>2. QED
    BY <1>1, <2>1
<1>3. ASSUME NEW i \in N
      PROVE  /\ up(i) \in S /\ rank[up(i)] < rank[i]
             /\ ~Moved(t, i) => up(i) = t.nodes[i].parent
             /\ ~Moved(t, i) /\ up(i) # 0 => ~Moved(t, up(i)) /\ pre[i] = Spelled(t, pre, up(i))
             /\ ~Moved(t, i) /\ up(i) = 0 => pre[i] = << >>
  <2> DEFINE p == t.nodes[i].parent
  <2>1. CASE p = 0
    <3>1. up(i) = 0 /\ up(i) \in S /\ rank[0] = 0 /\ i # 0 /\ i \in S
      BY <1>1, <2>1
    <3>2. ~Moved(t, i) => pre[i] = << >>
      BY <2>1 DEF Shape, Parents
    <3>3. rank[i] > 0
      BY <1>1, <3>1
    <3>4. QED
      BY <2>1, <3>1, <3>2, <3>3
  <2>2. CASE p # 0
    <3>1. p \in N /\ up(i) = Fetch(t, p)
      <4>1. p \in S
        BY <1>1
      <4>2. \A k \in S : k # 0 => k \in N
        BY <1>1
      <4>3. QED
        BY <2>2, <4>1, <4>2
    <3>2. /\ Fetch(t, p) \in N /\ ~Moved(t, Fetch(t, p)) /\ pre[Fetch(t, p)] = pre[p]
          /\ ~Moved(t, p) => Fetch(t, p) = p
      BY <3>1, FetchKeeps DEF Shape
    <3>3. rank[up(i)] = 2 * Len(pre[p]) + 1
      <4>1. \A k \in N : k \in S /\ k # 0
        BY <1>1
      <4>2. \A k \in N : ~Moved(t, k) => rank[k] = 2 * Len(pre[k]) + 1
        BY <4>1
      <4> HIDE DEF rank, p, up
      <4>3. QED
        BY <3>1, <3>2, <4>2
    <3>4. CASE Moved(t, i)
      <4>1. pre[p] = pre[i]
        BY <3>4 DEF Shape, Laid, Forwards
      <4>2. rank[i] = 2 * Len(pre[i]) + 2
        BY <1>1, <3>4
      <4>3. Len(pre[i]) \in Nat
        BY <1>1
      <4> HIDE DEF rank, p, up
      <4>4. QED
        BY <1>1, <3>1, <3>2, <3>3, <3>4, <4>1, <4>2, <4>3
    <3>5. CASE ~Moved(t, i)
      <4>1. ~Moved(t, p) /\ pre[i] = Spelled(t, pre, p)
        BY <2>2, <3>5 DEF Shape, Parents
      <4>2. up(i) = p
        BY <3>1, <3>2, <4>1
      <4>3. rank[i] = 2 * Len(pre[i]) + 1
        BY <1>1, <3>5
      <4>4. /\ Len(pre[i]) \in Nat /\ Len(pre[p]) \in Nat
            /\ Len(pre[i]) > Len(pre[p])
        <5>1. /\ Len(pre[i]) \in Nat /\ Len(pre[p]) \in Nat
              /\ Len(Spelled(t, pre, p)) = Len(pre[p]) + Len(t.nodes[p].chars)
              /\ Len(t.nodes[p].chars) \in Nat \ {0}
          BY <1>1, <3>1
        <5>2. Len(pre[i]) = Len(Spelled(t, pre, p))
          BY <4>1
        <5>3. \A x, y \in Nat : \A z \in Nat \ {0} : x = y + z => x > y
          OBVIOUS
        <5> HIDE DEF p, rank, up
        <5>4. QED
          BY <5>1, <5>2, <5>3
      <4>5. p \in S /\ p = t.nodes[i].parent
        BY <3>1
      <4> HIDE DEF rank, p, up
      <4>6. QED
        BY <2>2, <3>3, <4>1, <4>2, <4>3, <4>4, <4>5
    <3>6. QED
      BY <3>4, <3>5
  <2>3. QED
    BY <2>1, <2>2
<1> HIDE DEF rank
<1>4. Values!Grounded(S, rank, t, 0, "spelled")
  <2> SUFFICES ASSUME NEW g, NEW h, NEW i \in S,
                      \A y \in S : rank[y] < rank[i] => g[y] = h[y]
               PROVE  SpelledAt(g, i, t) = SpelledAt(h, i, t)
    BY DEF Values!Grounded, ValueAt
  <2>1. CASE i = 0
    BY <2>1 DEF SpelledAt
  <2>2. CASE i # 0
    <3>1. i \in N
      BY <1>1, <2>2
    <3>2. g[up(i)] = h[up(i)]
      BY <1>3, <3>1
    <3>3. \A k : SpelledAt(k, i, t) = k[up(i)] \o t.nodes[i].chars
      BY <2>2 DEF SpelledAt
    <3> HIDE DEF up
    <3>4. QED
      BY <3>2, <3>3
  <2>3. QED
    BY <2>1, <2>2
<1>5. f = [x \in S |-> SpelledAt(f, x, t)]
  <2> HIDE DEF S
  <2> DEFINE h == Values!Recursion(S, t, 0, "spelled")
  <2>1. h = [x \in S |-> ValueAt(h, x, t, 0, "spelled")]
    BY <1>2, <1>4, Values!RecursionUnfolds
  <2> HIDE DEF h
  <2>2. h = [x \in S |-> SpelledAt(h, x, t)]
    BY <2>1 DEF ValueAt
  <2>3. QED
    BY <2>2
<1>6. \A n : SpelledBy(t, n) = f[n]
  BY DEF SpelledBy, SpelledAt
<1> HIDE DEF f
<1>7. f[0] = << >> /\ \A i \in N : f[i] = f[up(i)] \o t.nodes[i].chars
  <2>1. 0 \in S /\ \A i \in N : i \in S /\ i # 0
    BY <1>1
  <2>2. \A i \in S : f[i] = SpelledAt(f, i, t)
    <3> HIDE DEF S
    <3>1. QED
      BY <1>5
  <2>3. f[0] = << >>
    BY <2>1, <2>2 DEF SpelledAt
  <2>4. ASSUME NEW i \in N PROVE f[i] = f[up(i)] \o t.nodes[i].chars
    <3>1. i \in S /\ i # 0 /\ f[i] = SpelledAt(f, i, t)
      BY <2>1, <2>2
    <3>2. QED
      BY <3>1, Zenon DEF SpelledAt
  <2>5. QED
    BY <2>3, <2>4
<1>8. ASSUME NEW i \in S, \A y \in S : rank[y] < rank[i] => y \in P PROVE i \in P
  <2> SUFFICES ASSUME i # 0, ~Moved(t, i) PROVE f[i] = Spelled(t, pre, i)
    OBVIOUS
  <2>1. i \in N
    BY <1>1
  <2> HIDE DEF up
  <2>2. up(i) \in P
    BY <1>3, <1>8, <2>1
  <2>3. CASE up(i) = 0
    BY <1>3, <1>7, <2>1, <2>3 DEF Spelled
  <2>4. CASE up(i) # 0
    BY <1>3, <1>7, <2>1, <2>2, <2>4 DEF Spelled
  <2>5. QED
    BY <2>3, <2>4
<1>9. S \subseteq P
  <2> HIDE DEF S, P
  <2>1. QED
    BY <1>2, <1>8, Values!RankInduction
<1>10. \A n \in N : n \in S /\ n # 0
  BY <1>1
<1>11. QED
  BY <1>6, <1>9, <1>10

----------------------------------------------------------------------------
(* The walk for a word. *)

\* The letters of s stand in w behind the first k.
Matches(s, w, k, n) == \A i \in 1..n : s[i] = w[k + i]

LEMMA OverlapFacts ==
    ASSUME NEW s \in Seq(Nat), NEW w \in Seq(Nat), NEW k \in 0..Len(w)
    PROVE  LET o == Overlap(s, w, k)
           IN  /\ o \in 0..Len(s) /\ o <= Len(w) - k
               /\ Matches(s, w, k, o)
               /\ o < Len(s) /\ k + o < Len(w) => s[o + 1] # w[k + o + 1]
<1> DEFINE M == Min2(Len(s), Len(w) - k)
           Q(n) == \E j \in 0..n : Matches(s, w, k, j) /\ (j = n \/ s[j + 1] # w[k + j + 1])
           S == {n \in Nat : n <= M => Q(n)}
           o == Overlap(s, w, k)
<1>1. Len(s) \in Nat /\ Len(w) \in Nat /\ k \in Nat /\ M \in Nat /\ M <= Len(s) /\ M <= Len(w) - k
  BY DEF Min2
<1>2. M = Len(s) \/ M = Len(w) - k
  BY DEF Min2
<1> HIDE DEF M
<1>3. 0 \in S
  <2>1. 0 \in 0..0 /\ Matches(s, w, k, 0)
    BY DEF Matches
  <2>2. Q(0)
    BY <2>1
  <2> HIDE DEF Q
  <2>3. QED
    BY <2>2
<1>4. ASSUME NEW n \in Nat, n \in S PROVE n + 1 \in S
  <2> SUFFICES ASSUME n + 1 <= M
               PROVE  Q(n + 1)
    OBVIOUS
  <2>1. PICK j \in 0..n : Matches(s, w, k, j) /\ (j = n \/ s[j + 1] # w[k + j + 1])
    BY <1>1, <1>4
  <2>2. CASE s[j + 1] # w[k + j + 1]
    <3>1. j \in 0..(n + 1)
      BY <2>1
    <3>2. QED
      BY <2>1, <2>2, <3>1
  <2>3. CASE s[j + 1] = w[k + j + 1]
    <3>1. j = n
      BY <2>1, <2>3
    <3>2. \A i \in 1..(n + 1) : i \in 1..n \/ i = n + 1
      OBVIOUS
    <3>3. k + j + 1 = k + (n + 1)
      BY <1>1, <3>1
    <3>4. Matches(s, w, k, n + 1)
      BY <2>1, <2>3, <3>1, <3>2, <3>3 DEF Matches
    <3>5. n + 1 \in 0..(n + 1)
      OBVIOUS
    <3>6. QED
      BY <3>4, <3>5
  <2>4. QED
    BY <2>2, <2>3
<1>5. Nat \subseteq S
  <2> HIDE DEF S
  <2>1. QED
    BY <1>3, <1>4, Values!SetInduction
<1>6. \E j \in 0..M : (\A i \in 1..j : s[i] = w[k + i]) /\ (j = M \/ s[j + 1] # w[k + j + 1])
  <2>1. M \in S
    <3> HIDE DEF S
    <3>1. QED
      BY <1>1, <1>5
  <2>2. Q(M)
    <3>1. M <= M
      BY <1>1
    <3> HIDE DEF Q
    <3>2. QED
      BY <2>1, <3>1
  <2>3. PICK j \in 0..M : Matches(s, w, k, j) /\ (j = M \/ s[j + 1] # w[k + j + 1])
    BY <2>2
  <2>4. \A i \in 1..j : s[i] = w[k + i]
    BY <2>3 DEF Matches
  <2>5. QED
    BY <2>3, <2>4
<1>7. /\ o \in 0..M
      /\ \A i \in 1..o : s[i] = w[k + i]
      /\ o = M \/ s[o + 1] # w[k + o + 1]
  BY <1>6 DEF Overlap, M
<1> HIDE DEF o
<1>8. /\ o \in 0..Len(s) /\ o <= Len(w) - k
      /\ o < Len(s) /\ k + o < Len(w) => s[o + 1] # w[k + o + 1]
  <2>1. \A ls, lw, lk, lm, lo \in Nat :
          lm <= ls /\ lm <= lw - lk /\ (lm = ls \/ lm = lw - lk) /\ lo <= lm =>
            /\ lo \in 0..ls /\ lo <= lw - lk
            /\ lo < ls /\ lk + lo < lw => lo # lm
    OBVIOUS
  <2>2. Len(w) \in Nat /\ o \in Nat /\ o <= M
    BY <1>1, <1>7
  <2>3. /\ o \in 0..Len(s) /\ o <= Len(w) - k
        /\ o < Len(s) /\ k + o < Len(w) => o # M
    BY <1>1, <1>2, <2>1, <2>2
  <2>4. QED
    BY <1>7, <2>3
<1>9. QED
  BY <1>7, <1>8 DEF Matches, o

\* A prefix and the letters that match behind it are a longer prefix.
LEMMA UptoMatch ==
    ASSUME NEW w \in Seq(Nat), NEW s \in Seq(Nat), NEW k \in 0..Len(w),
           Len(s) <= Len(w) - k, Matches(s, w, k, Len(s))
    PROVE  Upto(w, k) \o s = Upto(w, k + Len(s))
<1>1. /\ Len(w) \in Nat /\ Len(s) \in Nat /\ k \in Nat
      /\ k + Len(s) \in 0..Len(w)
  OBVIOUS
<1>2. /\ Upto(w, k) \in Seq(Nat) /\ Len(Upto(w, k)) = k
      /\ \A i \in 1..k : Upto(w, k)[i] = w[i]
  BY UptoFacts
<1>3. /\ Upto(w, k + Len(s)) \in Seq(Nat) /\ Len(Upto(w, k + Len(s))) = k + Len(s)
      /\ \A i \in 1..(k + Len(s)) : Upto(w, k + Len(s))[i] = w[i]
  BY <1>1, UptoFacts
<1> DEFINE u == Upto(w, k)
           v == Upto(w, k + Len(s))
<1> HIDE DEF u, v
<1>4. u \in Seq(Nat) /\ Len(u) = k /\ \A i \in 1..k : u[i] = w[i]
  BY <1>2 DEF u
<1>5. v \in Seq(Nat) /\ Len(v) = k + Len(s) /\ \A i \in 1..(k + Len(s)) : v[i] = w[i]
  BY <1>3 DEF v
<1>6. /\ u \o s \in Seq(Nat) /\ Len(u \o s) = k + Len(s)
      /\ \A i \in 1..(k + Len(s)) : (u \o s)[i] = IF i <= k THEN u[i] ELSE s[i - k]
  <2>1. /\ u \o s \in Seq(Nat) /\ Len(u \o s) = Len(u) + Len(s)
        /\ \A i \in 1..(Len(u) + Len(s)) :
             (u \o s)[i] = IF i <= Len(u) THEN u[i] ELSE s[i - Len(u)]
    BY <1>4
  <2>2. QED
    BY <1>4, <2>1
<1>7. \A i \in 1..(k + Len(s)) : (u \o s)[i] = v[i]
  <2> SUFFICES ASSUME NEW i \in 1..(k + Len(s)) PROVE (u \o s)[i] = v[i]
    OBVIOUS
  <2>1. CASE i <= k
    <3>1. i \in 1..k
      BY <1>1, <2>1
    <3>2. QED
      BY <1>4, <1>5, <1>6, <2>1, <3>1
  <2>2. CASE ~(i <= k)
    <3>1. i - k \in 1..Len(s) /\ k + (i - k) = i
      BY <1>1, <2>2
    <3>2. s[i - k] = w[i]
      BY <3>1 DEF Matches
    <3>3. QED
      BY <1>5, <1>6, <2>2, <3>2
  <2>3. QED
    BY <2>1, <2>2
<1>8. u \o s = v
  BY <1>5, <1>6, <1>7, SeqEqual
<1>9. QED
  BY <1>8 DEF u, v

\* And back: what a prefix ends with matches behind its beginning.
LEMMA MatchUpto ==
    ASSUME NEW w \in Seq(Nat), NEW p \in Seq(Nat), NEW s \in Seq(Nat), NEW n \in 0..Len(w),
           Upto(w, n) = p \o s
    PROVE  /\ n = Len(p) + Len(s) /\ Len(p) \in 0..Len(w)
           /\ Upto(w, Len(p)) = p /\ Matches(s, w, Len(p), Len(s))
<1>1. Upto(w, n) \in Seq(Nat) /\ Len(Upto(w, n)) = n /\ \A i \in 1..n : Upto(w, n)[i] = w[i]
  BY UptoFacts
<1>2. /\ p \o s \in Seq(Nat) /\ Len(p \o s) = Len(p) + Len(s)
      /\ Len(p) \in Nat /\ Len(s) \in Nat /\ Len(w) \in Nat
      /\ \A i \in 1..(Len(p) + Len(s)) : (p \o s)[i] = IF i <= Len(p) THEN p[i] ELSE s[i - Len(p)]
  OBVIOUS
<1> DEFINE k == Len(p)
<1>3. n = k + Len(s) /\ k \in 0..Len(w) /\ k \in 0..Len(p) /\ k \in 0..n
  BY <1>1, <1>2
<1>4. Upto(w, k) = p
  <2>1. Upto(Upto(w, n), k) = Upto(w, k)
    BY <1>3, UptoUpto
  <2>2. Upto(p \o s, k) = Upto(p, k)
    BY <1>3, UptoConcat
  <2>3. Upto(p, k) = p
    BY UptoWhole
  <2>4. QED
    BY <2>1, <2>2, <2>3
<1>5. ASSUME NEW i \in 1..Len(s) PROVE s[i] = w[k + i]
  <2>1. k + i \in 1..n /\ ~(k + i <= k) /\ (k + i) - k = i
    BY <1>2, <1>3, SMTT(20)
  <2>2. (p \o s)[k + i] = s[i]
    BY <1>2, <1>3, <2>1
  <2>3. (p \o s)[k + i] = w[k + i]
    BY <1>1, <2>1
  <2>4. QED
    BY <2>2, <2>3
<1>6. QED
  BY <1>3, <1>4, <1>5 DEF Matches

\* The node with the next letter, and how much of it is read.
HitNode(t, w, p) == Siblings(t, p.array)[Hit(t, w, p)]

HitOverlap(t, w, p) == Overlap(t.nodes[HitNode(t, w, p)].chars, w, p.k)

\* What the walk meets.
AtEnd(p) == [stop |-> "end", node |-> p.node, k |-> p.k, array |-> p.array]

At(stop, n, k, o) == [stop |-> stop, node |-> n, k |-> k, overlap |-> o]

LEMMA HitFacts ==
    ASSUME NEW t, Linked(t), NEW w, NEW p, p.array \in 1..Len(t.arrays)
    PROVE  LET s == Siblings(t, p.array)
               n == HitNode(t, w, p)
           IN  /\ Hit(t, w, p) = 0 => \A m \in Range(s) : Letter(t, m) # w[p.k + 1]
               /\ Hit(t, w, p) # 0 => n \in Range(s) /\ Letter(t, n) = w[p.k + 1]
               /\ Range(s) \subseteq 1..Len(t.nodes)
<1> DEFINE s == Siblings(t, p.array)
           I == {i \in 1..Len(s) : t.nodes[s[i]].chars[1] = w[p.k + 1]}
<1>1. s \in Seq(1..Len(t.nodes))
  BY SiblingsFacts
<1>2. Hit(t, w, p) = IF I # {} THEN Min(I) ELSE 0
  BY DEF Hit, SelectInSeq
<1>3. I # {} => Min(I) \in I
  <2>1. I \in SUBSET Nat
    BY <1>1
  <2> HIDE DEF I
  <2>2. QED
    BY <2>1, MinIn
<1>4. DOMAIN s = 1..Len(s) /\ 0 \notin I /\ \A i \in 1..Len(s) : s[i] \in 1..Len(t.nodes)
  BY <1>1
<1>5. Range(s) = {s[i] : i \in 1..Len(s)}
  BY <1>4 DEF Range
<1> HIDE DEF s
<1>6. CASE I = {}
  <2>1. \A m \in Range(s) : Letter(t, m) # w[p.k + 1]
    BY <1>5, <1>6 DEF Letter
  <2>2. QED
    BY <1>2, <1>4, <1>5, <1>6, <2>1 DEF s
<1>7. CASE I # {}
  <2>1. Hit(t, w, p) \in I /\ Hit(t, w, p) # 0
    BY <1>2, <1>3, <1>4, <1>7
  <2>2. s[Hit(t, w, p)] \in Range(s) /\ Letter(t, s[Hit(t, w, p)]) = w[p.k + 1]
    BY <1>5, <2>1 DEF Letter
  <2>3. QED
    BY <1>4, <1>5, <2>1, <2>2 DEF HitNode, s
<1>8. QED
  BY <1>6, <1>7

\* The ways in which the walk goes on from a place.
LEMMA MeetsFacts ==
    ASSUME NEW t, Linked(t), NEW w \in Seq(Nat), NEW p \in Places(t, w)
    PROVE  LET n == HitNode(t, w, p)
               o == HitOverlap(t, w, p)
               size == Len(t.nodes[n].chars)
               r == Meets(t, w, p)
           IN  \/ Hit(t, w, p) = 0 /\ r = AtEnd(p)
               \/ /\ Hit(t, w, p) # 0 /\ n \in 1..Len(t.nodes)
                  /\ o \in 0..size /\ o <= Len(w) - p.k
                  /\ size \in Nat \ {0}
                  /\ Matches(t.nodes[n].chars, w, p.k, o)
                  /\ o < size /\ p.k + o < Len(w) => t.nodes[n].chars[o + 1] # w[p.k + o + 1]
                  /\ \/ o < size /\ r = At("within", n, p.k, o)
                     \/ o = size /\ p.k + o = Len(w) /\ r = At("on", n, p.k, o)
                     \/ /\ o = size /\ p.k + o < Len(w)
                        /\ t.nodes[n].kids = 0 /\ r = At("leaf", n, p.k, o)
                     \/ /\ o = size /\ p.k + o < Len(w) /\ t.nodes[n].kids # 0
                        /\ r = At("below", n, p.k, o)
                        /\ Below(t, r) = [array |-> t.nodes[n].kids, k |-> p.k + o, node |-> n]
                        /\ Below(t, r) \in Places(t, w)
<1> DEFINE n == HitNode(t, w, p)
           o == HitOverlap(t, w, p)
           size == Len(t.nodes[n].chars)
           hit == Hit(t, w, p)
           r == Meets(t, w, p)
           kids == t.nodes[n].kids
<1>1. p.array \in 1..Len(t.arrays) /\ p.k \in 0..Len(w) /\ p.node \in 0..Len(t.nodes)
  BY DEF Places
<1>2. Len(w) \in Nat /\ t \in Tries
  BY DEF Linked
<1>3. r = IF hit = 0 THEN AtEnd(p)
          ELSE CASE o < size -> At("within", n, p.k, o)
                 [] o = size /\ p.k + o = Len(w) -> At("on", n, p.k, o)
                 [] o = size /\ p.k + o < Len(w) ->
                      At(IF kids = 0 THEN "leaf" ELSE "below", n, p.k, o)
  BY DEF Meets, MeetsNode, Matched, AtEnd, At, HitNode, HitOverlap
<1>4. CASE hit = 0
  <2> HIDE DEF n, o, size, r
  <2>1. r = AtEnd(p)
    BY <1>3, <1>4
  <2>2. QED
    BY <1>4, <2>1 DEF r
<1>5. CASE hit # 0
  <2>1. n \in 1..Len(t.nodes)
    BY <1>1, <1>5, HitFacts
  <2>2. /\ t.nodes[n].chars \in Seq(Nat) /\ size \in Nat \ {0} /\ kids \in 0..Len(t.arrays)
        /\ Len(t.arrays) \in Nat /\ Len(t.nodes) \in Nat
    <3>1. t.nodes[n].chars \in Seq(Nat) /\ size \in Nat \ {0} /\ kids \in Nat
      BY <1>2, <2>1, TypesOf
    <3>2. kids <= Len(t.arrays) /\ Len(t.arrays) \in Nat /\ Len(t.nodes) \in Nat
      BY <1>2, <2>1, TypesOf DEF Linked
    <3> HIDE DEF kids, size, n
    <3>3. QED
      BY <3>1, <3>2
  <2>3. /\ o \in 0..size /\ o <= Len(w) - p.k
        /\ Matches(t.nodes[n].chars, w, p.k, o)
        /\ o < size /\ p.k + o < Len(w) => t.nodes[n].chars[o + 1] # w[p.k + o + 1]
    <3> HIDE DEF n
    <3>1. QED
      BY <1>1, <2>2, OverlapFacts DEF HitOverlap, n
  <2> HIDE DEF n, o, size, r, kids, hit
  <2>4. o \in Nat /\ size \in Nat /\ o <= size /\ p.k \in Nat /\ p.k + o <= Len(w)
    BY <1>1, <1>2, <2>2, <2>3
  <2>5. CASE o < size
    <3>1. r = At("within", n, p.k, o)
      BY <1>3, <1>5, <2>4, <2>5
    <3>2. QED
      BY <1>5, <2>1, <2>2, <2>3, <2>5, <3>1 DEF n, o, size, r, kids, hit
  <2>6. CASE o = size /\ p.k + o = Len(w)
    <3>1. r = At("on", n, p.k, o)
      BY <1>2, <1>3, <1>5, <2>4, <2>6
    <3>2. QED
      BY <1>5, <2>1, <2>2, <2>3, <2>6, <3>1 DEF n, o, size, r, kids, hit
  <2>7. CASE o = size /\ p.k + o < Len(w)
    <3>1. r = At(IF kids = 0 THEN "leaf" ELSE "below", n, p.k, o)
      BY <1>2, <1>3, <1>5, <2>4, <2>7
    <3>2. CASE kids = 0
      <4>1. r = At("leaf", n, p.k, o)
        BY <3>1, <3>2
      <4>2. QED
        BY <1>5, <2>1, <2>2, <2>3, <2>7, <3>2, <4>1 DEF n, o, size, r, kids, hit
    <3>3. CASE kids # 0
      <4>1. r = At("below", n, p.k, o)
        BY <3>1, <3>3
      <4>2. Below(t, r) = [array |-> kids, k |-> p.k + o, node |-> n]
        BY <4>1 DEF Below, At, kids
      <4>3. kids \in 1..Len(t.arrays) /\ p.k + o \in 0..Len(w) /\ n \in 0..Len(t.nodes)
        <5>1. \A m \in Nat : /\ \A i \in 0..m : i # 0 => i \in 1..m
                             /\ \A i \in 1..m : i \in 0..m
                             /\ \A i, j \in Nat : i + j <= m => i + j \in 0..m
          OBVIOUS
        <5>2. kids \in 1..Len(t.arrays)
          BY <2>2, <3>3, <5>1
        <5>3. n \in 0..Len(t.nodes)
          BY <2>1, <2>2, <5>1
        <5>4. p.k + o \in 0..Len(w)
          BY <1>2, <2>4, <5>1
        <5>5. QED
          BY <5>2, <5>3, <5>4
      <4>4. Below(t, r) \in Places(t, w)
        BY <4>2, <4>3 DEF Places
      <4>5. QED
        BY <1>5, <2>1, <2>2, <2>3, <2>7, <3>3, <4>1, <4>2, <4>4 DEF n, o, size, r, kids, hit
    <3>4. QED
      BY <3>2, <3>3
  <2>8. QED
    BY <1>2, <2>4, <2>5, <2>6, <2>7
<1>6. QED
  BY <1>4, <1>5

LEMMA WalkUnfolds ==
    ASSUME NEW t, Linked(t), NEW w \in Seq(Nat)
    PROVE  \A p \in Places(t, w) :
             WalkFrom(t, w, p) =
               IF Meets(t, w, p).stop = "below" THEN WalkFrom(t, w, Below(t, Meets(t, w, p)))
               ELSE Meets(t, w, p)
<1> DEFINE S == Places(t, w)
           rank == [q \in S |-> Len(w) - q.k]
           f == CHOOSE g : g = [x \in S |-> WalkAt(g, x, t, w)]
<1>1. \A q \in S : q.k \in 0..Len(w)
  BY DEF Places
<1>2. Len(w) \in Nat
  OBVIOUS
<1>3. rank \in [S -> Nat]
  BY <1>1, <1>2
<1>4. ASSUME NEW q \in S, Meets(t, w, q).stop = "below"
      PROVE  Below(t, Meets(t, w, q)) \in S /\ rank[Below(t, Meets(t, w, q))] < rank[q]
  <2> DEFINE n == HitNode(t, w, q)
             o == HitOverlap(t, w, q)
             b == Below(t, Meets(t, w, q))
  <2>1. /\ b = [array |-> t.nodes[n].kids, k |-> q.k + o, node |-> n]
        /\ b \in S /\ o \in Nat /\ o # 0 /\ q.k + o < Len(w)
    BY <1>4, MeetsFacts, SMTT(20) DEF AtEnd, At
  <2>2. b.k = q.k + o
    <3> HIDE DEF b
    <3>1. QED
      BY <2>1
  <2> HIDE DEF o, b
  <2>3. Len(w) - b.k < Len(w) - q.k
    <3>1. \A m, i, j \in Nat : j # 0 => m - (i + j) < m - i
      OBVIOUS
    <3>2. q.k \in Nat
      BY <1>1, <1>2
    <3>3. QED
      BY <1>2, <2>1, <2>2, <3>1, <3>2
  <2>4. QED
    BY <2>1, <2>3 DEF b
<1> HIDE DEF rank
<1>5. Values!Grounded(S, rank, t, w, "walk")
  BY <1>4 DEF Values!Grounded, ValueAt, WalkAt
<1>6. f = [x \in S |-> WalkAt(f, x, t, w)]
  <2> HIDE DEF S
  <2> DEFINE h == Values!Recursion(S, t, w, "walk")
  <2>1. h = [x \in S |-> ValueAt(h, x, t, w, "walk")]
    BY <1>3, <1>5, Values!RecursionUnfolds
  <2> HIDE DEF h
  <2>2. h = [x \in S |-> WalkAt(h, x, t, w)]
    BY <2>1 DEF ValueAt
  <2>3. QED
    BY <2>2
<1>7. \A q : WalkFrom(t, w, q) = f[q]
  BY DEF WalkFrom, GoOn, WalkAt
<1> HIDE DEF f
<1>8. QED
  BY <1>6, <1>7 DEF WalkAt
\* The places the walk for a word comes to: behind a beginning of the word.
Reading(t, at, w, p) ==
    /\ p \in Places(t, w)
    /\ p.k < Len(w)
    /\ First(t, at, p.array)
    /\ at[p.array] = Upto(w, p.k)
    /\ \/ p.node = 0 /\ p.array = 1 /\ p.k = 0
       \/ /\ p.node \in 1..Len(t.nodes) /\ ~Moved(t, p.node)
          /\ t.nodes[p.node].kids = p.array

\* A node the walk meets, and the letters of it that match.
Met(t, pre, w, k, n, o) ==
    /\ n \in 1..Len(t.nodes) /\ ~Moved(t, n)
    /\ pre[n] = Upto(w, k)
    /\ o \in 1..Len(t.nodes[n].chars) /\ k + o <= Len(w)
    /\ Matches(t.nodes[n].chars, w, k, o)
    /\ o < Len(t.nodes[n].chars) /\ k + o < Len(w) => t.nodes[n].chars[o + 1] # w[k + o + 1]

Stops(t, w, k, n, o, r) ==
    \/ o < Len(t.nodes[n].chars) /\ r = At("within", n, k, o)
    \/ o = Len(t.nodes[n].chars) /\ k + o = Len(w) /\ r = At("on", n, k, o)
    \/ /\ o = Len(t.nodes[n].chars) /\ k + o < Len(w)
       /\ t.nodes[n].kids = 0 /\ r = At("leaf", n, k, o)

GoesOn(t, at, w, p, n, o, r) ==
    /\ o = Len(t.nodes[n].chars) /\ p.k + o < Len(w) /\ t.nodes[n].kids # 0
    /\ r = At("below", n, p.k, o)
    /\ Below(t, r).k = p.k + o /\ Below(t, r).node = n
    /\ Reading(t, at, w, Below(t, r))

Ends(t, pre, w, p, r) ==
    /\ r = AtEnd(p)
    /\ \A n \in 1..Len(t.nodes) :
         ~Moved(t, n) /\ pre[n] = Upto(w, p.k) => Letter(t, n) # w[p.k + 1]

LEMMA MeetsShape ==
    ASSUME NEW t, NEW pre, NEW at, Shape(t, pre, at), NEW w \in Seq(Nat),
           NEW p, Reading(t, at, w, p)
    PROVE  LET r == Meets(t, w, p)
           IN  \/ Ends(t, pre, w, p, r)
               \/ \E n \in 1..Len(t.nodes), o \in Nat :
                    Met(t, pre, w, p.k, n, o) /\ (Stops(t, w, p.k, n, o, r) \/ GoesOn(t, at, w, p, n, o, r))
<1> DEFINE N == 1..Len(t.nodes)
           n == HitNode(t, w, p)
           o == HitOverlap(t, w, p)
           size == Len(t.nodes[n].chars)
           r == Meets(t, w, p)
           k == p.k
<1>1. /\ Linked(t) /\ Laid(t, pre, at) /\ p \in Places(t, w)
      /\ p.array \in 1..Len(t.arrays) /\ k \in 0..Len(w) /\ k < Len(w) /\ Len(w) \in Nat
  BY DEF Shape, Laid, Reading, Places
<1>2. Range(Siblings(t, p.array)) = {m \in N : ~Moved(t, m) /\ pre[m] = Upto(w, k)}
  BY <1>1, SiblingsAre DEF Reading
<1>3. CASE Hit(t, w, p) = 0
  <2>1. r = AtEnd(p)
    BY <1>1, <1>3, MeetsFacts
  <2>2. \A m \in Range(Siblings(t, p.array)) : Letter(t, m) # w[k + 1]
    BY <1>1, <1>3, HitFacts
  <2>3. QED
    BY <1>2, <2>1, <2>2 DEF Ends
<1>4. CASE Hit(t, w, p) # 0
  <2>1. /\ n \in N /\ o \in 0..size /\ o <= Len(w) - k /\ size \in Nat \ {0}
        /\ Matches(t.nodes[n].chars, w, k, o)
        /\ o < size /\ k + o < Len(w) => t.nodes[n].chars[o + 1] # w[k + o + 1]
        /\ \/ o < size /\ r = At("within", n, k, o)
           \/ o = size /\ k + o = Len(w) /\ r = At("on", n, k, o)
           \/ /\ o = size /\ k + o < Len(w)
              /\ t.nodes[n].kids = 0 /\ r = At("leaf", n, k, o)
           \/ /\ o = size /\ k + o < Len(w) /\ t.nodes[n].kids # 0
              /\ r = At("below", n, k, o)
              /\ Below(t, r) = [array |-> t.nodes[n].kids, k |-> k + o, node |-> n]
              /\ Below(t, r) \in Places(t, w)
    BY <1>1, <1>4, MeetsFacts
  <2>2. ~Moved(t, n) /\ pre[n] = Upto(w, k) /\ Letter(t, n) = w[k + 1]
    BY <1>1, <1>2, <1>4, HitFacts
  <2>3. o # 0
    <3>1. o = 0 => o < size /\ k + o < Len(w) /\ o + 1 = 1 /\ k + o + 1 = k + 1
      <4> HIDE DEF o, size, k
      <4>1. QED
        BY <1>1, <2>1
    <3>2. QED
      BY <2>1, <2>2, <3>1 DEF Letter
  <2>4. o \in 1..size /\ o \in Nat /\ k + o <= Len(w)
    <3> HIDE DEF o, size, k
    <3>1. QED
      BY <1>1, <2>1, <2>3
  <2>5. Met(t, pre, w, k, n, o)
    BY <2>1, <2>2, <2>4 DEF Met
  <2>6. CASE o = size /\ k + o < Len(w) /\ t.nodes[n].kids # 0
    <3>0. t.nodes[n].kids \in Nat /\ size \in Nat /\ o \in Nat /\ k + o # Len(w) /\ ~(o < size)
      <4>1. size \in Nat /\ o \in Nat /\ k + o # Len(w) /\ ~(o < size)
        <5> HIDE DEF o, size, k
        <5>1. QED
          BY <1>1, <2>1, <2>4, <2>6
      <4>2. QED
        BY <1>1, <2>1, <4>1, TypesOf DEF Linked
    <3> DEFINE b == Below(t, r)
    <3>1. /\ r = At("below", n, k, o) /\ b \in Places(t, w)
          /\ b = [array |-> t.nodes[n].kids, k |-> k + o, node |-> n]
      BY <2>1, <2>6, <3>0
    <3>2. b.array = t.nodes[n].kids /\ b.k = k + o /\ b.node = n
      <4> HIDE DEF b, o, n
      <4>1. QED
        BY <3>1
    <3>3. at[t.nodes[n].kids] = Spelled(t, pre, n) /\ First(t, at, t.nodes[n].kids)
      BY <2>1, <2>6 DEF Shape, Kids
    <3>4. Spelled(t, pre, n) = Upto(w, k + o)
      <4>1. t.nodes[n].chars \in Seq(Nat) /\ Len(t.nodes[n].chars) = o
        BY <1>1, <2>1, <2>6, TypesOf DEF Linked
      <4>2. Len(t.nodes[n].chars) <= Len(w) - k /\ Matches(t.nodes[n].chars, w, k, Len(t.nodes[n].chars))
        BY <2>1, <4>1
      <4>3. Upto(w, k) \o t.nodes[n].chars = Upto(w, k + Len(t.nodes[n].chars))
        <5> HIDE DEF k, o, n
        <5>1. QED
          BY <1>1, <4>1, <4>2, UptoMatch
      <4>4. QED
        BY <2>2, <4>1, <4>3 DEF Spelled
    <3>5. Reading(t, at, w, b)
      <4> HIDE DEF b, o, n
      <4>1. QED
        BY <2>1, <2>2, <2>6, <3>1, <3>2, <3>3, <3>4 DEF Reading
    <3>6. GoesOn(t, at, w, p, n, o, r)
      BY <2>6, <3>1, <3>2, <3>5 DEF GoesOn
    <3>7. QED
      BY <2>1, <2>4, <2>5, <3>6
  <2>7. CASE ~(o = size /\ k + o < Len(w) /\ t.nodes[n].kids # 0)
    <3>1. Stops(t, w, k, n, o, r)
      BY <2>1, <2>7 DEF Stops
    <3>2. QED
      BY <2>1, <2>4, <2>5, <3>1
  <2>8. QED
    BY <2>6, <2>7
<1>5. QED
  BY <1>3, <1>4

Root == [array |-> 1, k |-> 0, node |-> 0]

LEMMA RootReading ==
    ASSUME NEW t, NEW pre, NEW at, Shape(t, pre, at), NEW w \in Seq(Nat), w # << >>
    PROVE  Reading(t, at, w, Root) /\ Walk(t, w) = WalkFrom(t, w, Root)
<1>1. Len(w) \in Nat \ {0} /\ Len(t.nodes) \in Nat /\ Len(t.arrays) \in Nat \ {0}
  <2>1. Len(t.nodes) \in Nat /\ Len(t.arrays) \in Nat \ {0}
    BY ShapeTypes
  <2>2. QED
    BY <2>1
<1>2. Root \in Places(t, w) /\ Root.array = 1 /\ Root.k = 0 /\ Root.node = 0
  <2>1. 1 \in 1..Len(t.arrays) /\ 0 \in 0..Len(w) /\ 0 \in 0..Len(t.nodes)
    BY <1>1
  <2>2. QED
    BY <2>1 DEF Root, Places
<1>3. at[1] = Upto(w, 0) /\ First(t, at, 1)
  <2>1. Upto(w, 0) = << >>
    BY UptoWhole
  <2>2. QED
    BY <1>1, <2>1 DEF Shape, First
<1>4. QED
  BY <1>1, <1>2, <1>3 DEF Reading, Walk, Root

\* Where the walk stops.
LEMMA WalkStops ==
    ASSUME NEW t, NEW pre, NEW at, Shape(t, pre, at), NEW w \in Seq(Nat), w # << >>
    PROVE  \E p : /\ Reading(t, at, w, p)
                  /\ \/ Ends(t, pre, w, p, Walk(t, w))
                     \/ \E n \in 1..Len(t.nodes), o \in Nat :
                          Met(t, pre, w, p.k, n, o) /\ Stops(t, w, p.k, n, o, Walk(t, w))
<1> DEFINE S == Places(t, w)
           rank == [q \in S |-> Len(w) - q.k]
           Good(r) == \E p : /\ Reading(t, at, w, p)
                  /\ \/ Ends(t, pre, w, p, r)
                     \/ \E n \in 1..Len(t.nodes), o \in Nat :
                          Met(t, pre, w, p.k, n, o) /\ Stops(t, w, p.k, n, o, r)
           P == {q \in S : Reading(t, at, w, q) => Good(WalkFrom(t, w, q))}
<1>1. Linked(t) /\ Len(w) \in Nat /\ \A q \in S : q.k \in 0..Len(w)
  BY DEF Shape, Laid, Places
<1>2. rank \in [S -> Nat]
  BY <1>1
<1>3. ASSUME NEW q \in S, \A y \in S : rank[y] < rank[q] => y \in P PROVE q \in P
  <2> SUFFICES ASSUME Reading(t, at, w, q) PROVE Good(WalkFrom(t, w, q))
    OBVIOUS
  <2> DEFINE r == Meets(t, w, q)
             b == Below(t, r)
  <2> HIDE DEF Good
  <2>0. WalkFrom(t, w, q) = IF r.stop = "below" THEN WalkFrom(t, w, b) ELSE r
    BY <1>1, WalkUnfolds
  <2>1. CASE Ends(t, pre, w, q, r)
    <3>1. r.stop # "below"
      BY <2>1 DEF Ends, AtEnd
    <3>2. WalkFrom(t, w, q) = r
      BY <2>0, <3>1
    <3> HIDE DEF r
    <3>3. QED
      BY <2>1, <3>2 DEF Good
  <2>2. ASSUME NEW n \in 1..Len(t.nodes), NEW o \in Nat, Met(t, pre, w, q.k, n, o),
               Stops(t, w, q.k, n, o, r)
        PROVE  Good(WalkFrom(t, w, q))
    <3>1. r.stop # "below"
      BY <2>2 DEF Stops, At
    <3>2. WalkFrom(t, w, q) = r
      BY <2>0, <3>1
    <3> HIDE DEF r
    <3>3. QED
      BY <2>2, <3>2 DEF Good
  <2>3. ASSUME NEW n \in 1..Len(t.nodes), NEW o \in Nat, Met(t, pre, w, q.k, n, o),
               GoesOn(t, at, w, q, n, o, r)
        PROVE  Good(WalkFrom(t, w, q))
    <3>1. r.stop = "below" /\ Reading(t, at, w, b) /\ b.k = q.k + o /\ b \in S
      BY <2>3 DEF GoesOn, At, Reading
    <3>2. o # 0
      BY <2>3 DEF Met
    <3>3. rank[b] < rank[q]
      <4>1. b.k \in Nat /\ q.k \in Nat /\ q.k < b.k
        <5>1. q.k \in Nat
          BY <1>1
        <5> HIDE DEF b
        <5>2. QED
          BY <3>1, <3>2, <5>1
      <4>2. rank[b] = Len(w) - b.k /\ rank[q] = Len(w) - q.k
        BY <3>1
      <4> HIDE DEF b, rank
      <4>3. QED
        BY <1>1, <4>1, <4>2
    <3>4. b \in P
      BY <1>3, <3>1, <3>3
    <3> HIDE DEF b, r, rank
    <3>5. QED
      BY <2>0, <3>1, <3>4
  <2>4. QED
    BY <2>1, <2>2, <2>3, MeetsShape
<1>4. S \subseteq P
  <2> HIDE DEF S, P, rank
  <2>1. QED
    BY <1>2, <1>3, Values!RankInduction
<1>5. Reading(t, at, w, Root) /\ Walk(t, w) = WalkFrom(t, w, Root)
  BY RootReading
<1>6. Root \in S
  BY <1>5 DEF Reading
<1>7. QED
  BY <1>4, <1>5, <1>6
\* The sibling with the next letter is met.
LEMMA MeetsThis ==
    ASSUME NEW t, NEW pre, NEW at, Shape(t, pre, at), NEW w \in Seq(Nat),
           NEW p, Reading(t, at, w, p),
           NEW n \in 1..Len(t.nodes), ~Moved(t, n), pre[n] = Upto(w, p.k), Letter(t, n) = w[p.k + 1]
    PROVE  LET r == Meets(t, w, p)
           IN  \E o \in Nat :
                 Met(t, pre, w, p.k, n, o) /\ (Stops(t, w, p.k, n, o, r) \/ GoesOn(t, at, w, p, n, o, r))
<1> DEFINE r == Meets(t, w, p)
<1>1. ~Ends(t, pre, w, p, r)
  BY DEF Ends
<1>2. PICK m \in 1..Len(t.nodes), o \in Nat :
        Met(t, pre, w, p.k, m, o) /\ (Stops(t, w, p.k, m, o, r) \/ GoesOn(t, at, w, p, m, o, r))
  BY <1>1, MeetsShape
<1>3. Letter(t, m) = w[p.k + 1]
  <2>1. 1 \in 1..o
    BY <1>2 DEF Met
  <2>2. QED
    BY <1>2, <2>1 DEF Met, Matches, Letter
<1>4. m = n
  BY <1>2, <1>3 DEF Met, Shape, Apart
<1>5. QED
  BY <1>2, <1>4

\* The letters behind a prefix that is a beginning of a word.
Begins(u, w) == Len(u) < Len(w) /\ Upto(w, Len(u)) = u

\* The walk comes to the siblings of every node whose prefix the word begins with.
LEMMA WalkReaches ==
    ASSUME NEW t, NEW pre, NEW at, Shape(t, pre, at), NEW w \in Seq(Nat)
    PROVE  \A n \in 1..Len(t.nodes) :
             ~Moved(t, n) /\ Begins(pre[n], w) =>
               \E p : Reading(t, at, w, p) /\ p.k = Len(pre[n]) /\ Walk(t, w) = WalkFrom(t, w, p)
<1> DEFINE N == 1..Len(t.nodes)
           rank == [n \in N |-> Len(pre[n])]
           P == {n \in N : ~Moved(t, n) /\ Begins(pre[n], w) =>
               \E p : Reading(t, at, w, p) /\ p.k = Len(pre[n]) /\ Walk(t, w) = WalkFrom(t, w, p)}
<1>1. rank \in [N -> Nat]
  BY ShapeTypes
<1>2. ASSUME NEW n \in N, \A y \in N : rank[y] < rank[n] => y \in P PROVE n \in P
  <2> SUFFICES ASSUME ~Moved(t, n), Begins(pre[n], w)
               PROVE  \E p : Reading(t, at, w, p) /\ p.k = Len(pre[n]) /\ Walk(t, w) = WalkFrom(t, w, p)
    OBVIOUS
  <2> DEFINE m == t.nodes[n].parent
  <2>0. pre[n] \in Seq(Nat) /\ Len(pre[n]) \in Nat /\ Len(w) \in Nat
    <3>1. pre[n] \in Seq(Nat) /\ Len(pre[n]) \in Nat
      BY ShapeTypes
    <3>2. QED
      BY <3>1
  <2>1. CASE m = 0
    <3>1. pre[n] = << >>
      BY <2>1 DEF Shape, Parents
    <3>2. w # << >> /\ Root.k = 0
      BY <2>0, <3>1 DEF Begins, Root
    <3>3. QED
      BY <3>1, <3>2, RootReading
  <2>2. CASE m # 0
    <3>1. m \in N /\ ~Moved(t, m) /\ t.nodes[m].kids # 0 /\ pre[n] = Spelled(t, pre, m)
      <4>1. m \in 0..Len(t.nodes) /\ Len(t.nodes) \in Nat
        BY ShapeTypes
      <4>2. ~Moved(t, m) /\ t.nodes[m].kids # 0 /\ pre[n] = Spelled(t, pre, m)
        BY <2>2 DEF Shape, Parents
      <4> HIDE DEF m
      <4>3. QED
        BY <2>2, <4>1, <4>2
    <3> HIDE DEF m
    <3> DEFINE u == pre[m]
               c == t.nodes[m].chars
    <3>2. u \in Seq(Nat) /\ c \in Seq(Nat) /\ Len(u) \in Nat /\ Len(c) \in Nat \ {0} /\ pre[n] = u \o c
      BY <3>1, ShapeTypes DEF Spelled
    <3> HIDE DEF u, c
    <3>3. /\ Len(pre[n]) = Len(u) + Len(c) /\ Len(u) \in 0..Len(w)
          /\ Upto(w, Len(u)) = u /\ Matches(c, w, Len(u), Len(c))
      <4>1. Len(pre[n]) \in 0..Len(w)
        BY <2>0 DEF Begins
      <4>2. Upto(w, Len(pre[n])) = u \o c
        BY <3>2 DEF Begins
      <4>3. QED
        BY <3>2, <4>1, <4>2, MatchUpto
    <3>4. Len(u) + Len(c) < Len(w) /\ Len(u) < Len(w) /\ Len(u) < Len(pre[n])
      BY <2>0, <3>2, <3>3 DEF Begins
    <3>5. m \in P /\ Begins(pre[m], w)
      <4>1. rank[m] < rank[n]
        BY <3>1, <3>4 DEF u
      <4>2. m \in P
        <5> HIDE DEF rank, P
        <5>1. QED
          BY <1>2, <3>1, <4>1
      <4> HIDE DEF P
      <4>3. QED
        BY <3>3, <3>4, <4>2 DEF Begins, u
    <3>6. PICK p : Reading(t, at, w, p) /\ p.k = Len(u) /\ Walk(t, w) = WalkFrom(t, w, p)
      BY <3>1, <3>5 DEF u
    <3> DEFINE r == Meets(t, w, p)
    <3>7. Letter(t, m) = w[p.k + 1]
      <4>1. 1 \in 1..Len(c)
        BY <3>2
      <4>2. QED
        BY <3>3, <3>6, <4>1 DEF Matches, Letter, c
    <3>8. PICK o \in Nat :
            Met(t, pre, w, p.k, m, o) /\ (Stops(t, w, p.k, m, o, r) \/ GoesOn(t, at, w, p, m, o, r))
      <4>1. pre[m] = Upto(w, p.k)
        BY <3>3, <3>6 DEF u
      <4> HIDE DEF r
      <4>2. QED
        BY <3>1, <3>6, <3>7, <4>1, MeetsThis DEF r
    <3>9. o = Len(c)
      <4>1. /\ o \in 1..Len(c)
            /\ o < Len(c) /\ Len(u) + o < Len(w) => c[o + 1] # w[Len(u) + o + 1]
        BY <3>6, <3>8 DEF Met, c
      <4>2. o < Len(c) => Len(u) + o < Len(w) /\ o + 1 \in 1..Len(c)
        BY <3>2, <3>4
      <4>3. o < Len(c) => c[o + 1] = w[Len(u) + (o + 1)]
        BY <3>3, <4>2 DEF Matches
      <4>4. Len(u) + (o + 1) = Len(u) + o + 1
        BY <3>2
      <4>5. QED
        BY <3>2, <4>1, <4>2, <4>3, <4>4
    <3>10. GoesOn(t, at, w, p, m, o, r)
      <4>1. ~Stops(t, w, p.k, m, o, r)
        <5>1. ~(o < Len(c)) /\ ~(p.k + o = Len(w))
          BY <3>2, <3>4, <3>6, <3>9
        <5>2. QED
          BY <3>1, <5>1 DEF Stops, c
      <4>2. QED
        BY <3>8, <4>1
    <3>11. /\ Reading(t, at, w, Below(t, r)) /\ Below(t, r).k = Len(pre[n])
           /\ r.stop = "below"
      BY <3>3, <3>6, <3>9, <3>10 DEF GoesOn, At
    <3>12. Walk(t, w) = WalkFrom(t, w, Below(t, r))
      <4>1. p \in Places(t, w) /\ Linked(t)
        BY <3>6 DEF Reading, Shape, Laid
      <4>2. QED
        BY <3>6, <3>11, <4>1, WalkUnfolds
    <3>13. QED
      BY <3>11, <3>12
  <2>3. QED
    BY <2>1, <2>2
<1>3. N \subseteq P
  <2> HIDE DEF N, P, rank
  <2>1. QED
    BY <1>1, <1>2, Values!RankInduction
<1>4. QED
  BY <1>3

\* A word that begins like a node, and as many of its letters as it has, stops
\* there.
LEMMA WalkAtNode ==
    ASSUME NEW t, NEW pre, NEW at, Shape(t, pre, at),
           NEW n \in 1..Len(t.nodes), ~Moved(t, n), NEW o \in 1..Len(t.nodes[n].chars)
    PROVE  LET w == pre[n] \o Upto(t.nodes[n].chars, o)
           IN  /\ o < Len(t.nodes[n].chars) => Walk(t, w) = At("within", n, Len(pre[n]), o)
               /\ o = Len(t.nodes[n].chars) => Walk(t, w) = At("on", n, Len(pre[n]), o)
<1> DEFINE u == pre[n]
           c == t.nodes[n].chars
           v == Upto(c, o)
           w == u \o v
<1>1. u \in Seq(Nat) /\ Len(u) \in Nat /\ c \in Seq(Nat) /\ Len(c) \in Nat \ {0}
  BY ShapeTypes
<1> HIDE DEF u, c
<1>4. o \in Nat \ {0} /\ o <= Len(c) /\ 1 \in 1..o /\ o \in 0..Len(c)
  <2>1. o \in 1..Len(c)
    BY DEF c
  <2>2. QED
    BY <1>1, <2>1
<1>2. v \in Seq(Nat) /\ Len(v) = o /\ \A i \in 1..o : v[i] = c[i]
  BY <1>1, <1>4, UptoFacts
<1> HIDE DEF v
<1>3. w \in Seq(Nat) /\ Len(w) = Len(u) + o
  BY <1>1, <1>2, ConcatFacts
<1> HIDE DEF w
<1>5. Len(w) \in 0..Len(w) /\ Upto(w, Len(w)) = w
  <2>1. Len(w) \in Nat
    BY <1>1, <1>3, <1>4
  <2>2. QED
    BY <1>3, <2>1, UptoWhole
<1>6. Upto(w, Len(u)) = u /\ Matches(v, w, Len(u), o)
  <2>1. Upto(w, Len(w)) = u \o v
    BY <1>5 DEF w
  <2>2. QED
    BY <1>1, <1>2, <1>3, <1>5, <2>1, MatchUpto
<1>7. Matches(c, w, Len(u), o)
  BY <1>2, <1>6 DEF Matches
<1>8. Begins(u, w)
  BY <1>1, <1>3, <1>4, <1>6 DEF Begins
<1>9. PICK p : Reading(t, at, w, p) /\ p.k = Len(u) /\ Walk(t, w) = WalkFrom(t, w, p)
  BY <1>3, <1>8, WalkReaches DEF u
<1> DEFINE r == Meets(t, w, p)
<1>10. Letter(t, n) = w[p.k + 1]
  BY <1>4, <1>7, <1>9 DEF Matches, Letter, c
<1>11. PICK x \in Nat :
         Met(t, pre, w, p.k, n, x) /\ (Stops(t, w, p.k, n, x, r) \/ GoesOn(t, at, w, p, n, x, r))
  <2>1. pre[n] = Upto(w, p.k)
    BY <1>6, <1>9 DEF u
  <2> HIDE DEF r
  <2>2. QED
    BY <1>3, <1>9, <1>10, <2>1, MeetsThis DEF r
<1>12. x = o
  <2>1. /\ x \in 1..Len(c) /\ Len(u) + x <= Len(w)
        /\ x < Len(c) /\ Len(u) + x < Len(w) => c[x + 1] # w[Len(u) + x + 1]
    BY <1>9, <1>11 DEF Met, c
  <2>2. x <= o
    BY <1>1, <1>3, <1>4, <2>1
  <2>3. x < o => x + 1 \in 1..o /\ x < Len(c) /\ Len(u) + x < Len(w) /\ Len(u) + x + 1 = Len(u) + (x + 1)
    <3>1. x \in Nat
      OBVIOUS
    <3>2. QED
      BY <1>1, <1>3, <1>4, <3>1, SMTT(20)
  <2>4. x < o => c[x + 1] = w[Len(u) + (x + 1)]
    BY <1>7, <2>3 DEF Matches
  <2>5. ~(x < o)
    BY <2>1, <2>3, <2>4
  <2>6. QED
    BY <1>4, <2>1, <2>2, <2>5
<1>13. p.k + o = Len(w) /\ ~(p.k + o < Len(w))
  BY <1>1, <1>3, <1>4, <1>9
<1>14. ~GoesOn(t, at, w, p, n, x, r)
  BY <1>12, <1>13 DEF GoesOn
<1>15. /\ o < Len(c) => r = At("within", n, Len(u), o)
       /\ o = Len(c) => r = At("on", n, Len(u), o)
  <2>1. Stops(t, w, p.k, n, o, r)
    BY <1>11, <1>12, <1>14
  <2>2. /\ ~(o < Len(c) /\ o = Len(c))
    BY <1>1, <1>4
  <2>3. QED
    BY <1>9, <1>13, <2>1, <2>2 DEF Stops, c
<1>16. Walk(t, w) = r
  <2>1. r.stop # "below"
    BY <1>11, <1>14 DEF Stops, At
  <2>2. p \in Places(t, w) /\ Linked(t)
    BY <1>9 DEF Reading, Shape, Laid
  <2>3. QED
    BY <1>3, <1>9, <2>1, <2>2, WalkUnfolds
<1>17. QED
  <2> HIDE DEF r
  <2>1. QED
    BY <1>15, <1>16 DEF u, c, v, w
LEMMA WalkFinds ==
    ASSUME NEW t, NEW pre, NEW at, Shape(t, pre, at), NEW n \in 1..Len(t.nodes), ~Moved(t, n)
    PROVE  Walk(t, Spelled(t, pre, n)) = At("on", n, Len(pre[n]), Len(t.nodes[n].chars))
<1>1. t.nodes[n].chars \in Seq(Nat) /\ Len(t.nodes[n].chars) \in Nat \ {0}
  BY ShapeTypes
<1>2. Upto(t.nodes[n].chars, Len(t.nodes[n].chars)) = t.nodes[n].chars
  BY <1>1, UptoWhole
<1>3. Len(t.nodes[n].chars) \in 1..Len(t.nodes[n].chars)
  BY <1>1
<1>4. QED
  BY <1>2, <1>3, WalkAtNode DEF Spelled

LEMMA SpelledOnce ==
    ASSUME NEW t, NEW pre, NEW at, Shape(t, pre, at),
           NEW m \in 1..Len(t.nodes), ~Moved(t, m), NEW n \in 1..Len(t.nodes), ~Moved(t, n),
           Spelled(t, pre, m) = Spelled(t, pre, n)
    PROVE  m = n
<1>1. At("on", m, Len(pre[m]), Len(t.nodes[m].chars)) = At("on", n, Len(pre[n]), Len(t.nodes[n].chars))
  BY WalkFinds
<1>2. QED
  BY <1>1 DEF At

\* Nodes of the same parent begin behind it.
LEMMA PrefixOwned ==
    ASSUME NEW t, NEW pre, NEW at, Shape(t, pre, at),
           NEW n \in 1..Len(t.nodes), ~Moved(t, n), pre[n] # << >>
    PROVE  \E m \in 1..Len(t.nodes) :
             ~Moved(t, m) /\ t.nodes[m].kids # 0 /\ Spelled(t, pre, m) = pre[n]
<1> DEFINE m == t.nodes[n].parent
<1>1. m # 0 /\ ~Moved(t, m) /\ t.nodes[m].kids # 0 /\ pre[n] = Spelled(t, pre, m)
  BY DEF Shape, Parents
<1>2. m \in 0..Len(t.nodes) /\ Len(t.nodes) \in Nat
  BY ShapeTypes
<1> HIDE DEF m
<1>3. m \in 1..Len(t.nodes)
  BY <1>1, <1>2
<1>4. QED
  BY <1>1, <1>3

\* No array and no node is behind letters within a node.
LEMMA FreeInside ==
    ASSUME NEW t, NEW pre, NEW at, Shape(t, pre, at),
           NEW n \in 1..Len(t.nodes), ~Moved(t, n),
           NEW o \in 1..Len(t.nodes[n].chars), o < Len(t.nodes[n].chars)
    PROVE  LET u == pre[n] \o Upto(t.nodes[n].chars, o)
           IN  /\ \A m \in 1..Len(t.nodes) : ~Moved(t, m) => pre[m] # u /\ Spelled(t, pre, m) # u
               /\ \A a \in 1..Len(t.arrays) : at[a] # u
               /\ u # << >>
<1> DEFINE u == pre[n] \o Upto(t.nodes[n].chars, o)
<1>1. Walk(t, u) = At("within", n, Len(pre[n]), o)
  BY WalkAtNode
<1>2. u # << >>
  <2>1. pre[n] \in Seq(Nat) /\ t.nodes[n].chars \in Seq(Nat) /\ Len(t.nodes[n].chars) \in Nat
    BY ShapeTypes
  <2>2. o \in 0..Len(t.nodes[n].chars) /\ o # 0
    BY <2>1
  <2>3. Upto(t.nodes[n].chars, o) \in Seq(Nat) /\ Len(Upto(t.nodes[n].chars, o)) = o
    BY <2>1, <2>2, UptoFacts
  <2>4. \A x, y \in Seq(Nat) : Len(y) # 0 => x \o y # << >>
    OBVIOUS
  <2>5. QED
    BY <2>1, <2>2, <2>3, <2>4
<1> HIDE DEF u
<1>3. ASSUME NEW m \in 1..Len(t.nodes), ~Moved(t, m) PROVE Spelled(t, pre, m) # u
  <2>1. SUFFICES ASSUME Spelled(t, pre, m) = u PROVE FALSE
    OBVIOUS
  <2>2. Walk(t, u) = At("on", m, Len(pre[m]), Len(t.nodes[m].chars))
    BY <1>3, <2>1, WalkFinds
  <2>3. QED
    BY <1>1, <2>2 DEF At
<1>4. ASSUME NEW m \in 1..Len(t.nodes), ~Moved(t, m) PROVE pre[m] # u
  BY <1>2, <1>3, <1>4, PrefixOwned
<1>5. ASSUME NEW a \in 1..Len(t.arrays) PROVE at[a] # u
  BY <1>2, <1>3 DEF Shape, Owned
<1>6. QED
  BY <1>2, <1>3, <1>4, <1>5 DEF u

\* No array and no node is behind a leaf.
LEMMA FreeBelow ==
    ASSUME NEW t, NEW pre, NEW at, Shape(t, pre, at),
           NEW n \in 1..Len(t.nodes), ~Moved(t, n), t.nodes[n].kids = 0
    PROVE  /\ \A m \in 1..Len(t.nodes) : ~Moved(t, m) => pre[m] # Spelled(t, pre, n)
           /\ \A a \in 1..Len(t.arrays) : at[a] # Spelled(t, pre, n)
           /\ Spelled(t, pre, n) # << >>
<1> DEFINE u == Spelled(t, pre, n)
<1>1. u # << >>
  <2>1. u \in Seq(Nat) /\ Len(u) = Len(pre[n]) + Len(t.nodes[n].chars)
        /\ Len(pre[n]) \in Nat /\ Len(t.nodes[n].chars) \in Nat \ {0}
    BY ShapeTypes
  <2>2. \A x \in Nat, y \in Nat \ {0} : x + y # 0
    OBVIOUS
  <2>3. Len(u) # 0
    BY <2>1, <2>2
  <2>4. Len(<< >>) = 0
    OBVIOUS
  <2> HIDE DEF u
  <2>5. QED
    BY <2>3, <2>4
<1>2. ASSUME NEW m \in 1..Len(t.nodes), ~Moved(t, m), Spelled(t, pre, m) = u, t.nodes[m].kids # 0 PROVE FALSE
  BY <1>2, SpelledOnce
<1> HIDE DEF u
<1>3. ASSUME NEW m \in 1..Len(t.nodes), ~Moved(t, m) PROVE pre[m] # u
  BY <1>1, <1>2, <1>3, PrefixOwned
<1>4. ASSUME NEW a \in 1..Len(t.arrays) PROVE at[a] # u
  BY <1>1, <1>2 DEF Shape, Owned
<1>5. QED
  BY <1>1, <1>3, <1>4 DEF u

\* The id of a word is that of the node that spells it, unless the node is deleted.
LEMMA WordIdOf ==
    ASSUME NEW t, NEW pre, NEW at, Shape(t, pre, at), NEW n \in 1..Len(t.nodes), ~Moved(t, n)
    PROVE  /\ WordId(t, Spelled(t, pre, n)) = IF t.nodes[n].flag = "deleted" THEN 0 ELSE t.nodes[n].id
           /\ Walk(t, Spelled(t, pre, n)).node = n
<1>1. Walk(t, Spelled(t, pre, n)) = At("on", n, Len(pre[n]), Len(t.nodes[n].chars))
  BY WalkFinds
<1>2. Walk(t, Spelled(t, pre, n)).stop = "on" /\ Walk(t, Spelled(t, pre, n)).node = n
  BY <1>1 DEF At
<1>3. QED
  BY <1>2 DEF WordId

\* A walk that stops on a node stops on the node that spells the word.
LEMMA OnSpells ==
    ASSUME NEW t, NEW pre, NEW at, Shape(t, pre, at), NEW w \in Seq(Nat),
           NEW n, NEW k \in 0..Len(w), NEW o, Met(t, pre, w, k, n, o), o = Len(t.nodes[n].chars)
    PROVE  /\ t.nodes[n].chars \in Seq(Nat) /\ k + o \in 0..Len(w) /\ o \in Nat \ {0}
           /\ Spelled(t, pre, n) = Upto(w, k + o)
<1>1. t.nodes[n].chars \in Seq(Nat) /\ Len(t.nodes[n].chars) \in Nat \ {0} /\ n \in 1..Len(t.nodes)
  BY ShapeTypes DEF Met
<1>2. k + o <= Len(w) /\ Matches(t.nodes[n].chars, w, k, o) /\ pre[n] = Upto(w, k)
  BY DEF Met
<1> DEFINE c == t.nodes[n].chars
<1> HIDE DEF c
<1>3. c \in Seq(Nat) /\ o = Len(c) /\ o \in Nat \ {0} /\ k + o <= Len(w) /\ Matches(c, w, k, Len(c))
  BY <1>1, <1>2 DEF c
<1>4. Len(w) \in Nat /\ k \in Nat
  OBVIOUS
<1>5. Len(c) <= Len(w) - k /\ k + o \in 0..Len(w)
  BY <1>3, <1>4
<1>6. Upto(w, k) \o c = Upto(w, k + Len(c))
  BY <1>3, <1>5, UptoMatch
<1>7. QED
  BY <1>1, <1>2, <1>3, <1>5, <1>6 DEF Spelled, c

LEMMA WordIdFrom ==
    ASSUME NEW t, NEW pre, NEW at, Shape(t, pre, at), NEW w \in Seq(Nat), w # << >>,
           WordId(t, w) # 0
    PROVE  LET n == Walk(t, w).node
           IN  /\ n \in 1..Len(t.nodes) /\ t.nodes[n].flag = "none"
               /\ Spelled(t, pre, n) = w /\ t.nodes[n].id = WordId(t, w)
<1>1. Walk(t, w).stop = "on" /\ t.nodes[Walk(t, w).node].flag # "deleted"
  BY DEF WordId
<1>2. PICK p : /\ Reading(t, at, w, p)
               /\ \/ Ends(t, pre, w, p, Walk(t, w))
                  \/ \E n \in 1..Len(t.nodes), o \in Nat :
                       Met(t, pre, w, p.k, n, o) /\ Stops(t, w, p.k, n, o, Walk(t, w))
  BY WalkStops
<1>3. PICK n \in 1..Len(t.nodes), o \in Nat :
        Met(t, pre, w, p.k, n, o) /\ Stops(t, w, p.k, n, o, Walk(t, w))
  BY <1>1, <1>2 DEF Ends, AtEnd
<1>4. o = Len(t.nodes[n].chars) /\ p.k + o = Len(w) /\ Walk(t, w).node = n
  BY <1>1, <1>3 DEF Stops, At
<1>5. p.k \in 0..Len(w)
  BY <1>2 DEF Reading, Places
<1>6. Spelled(t, pre, n) = Upto(w, p.k + o)
  BY <1>3, <1>4, <1>5, OnSpells
<1>7. Spelled(t, pre, n) = w
  BY <1>4, <1>6, UptoWhole
<1>8. ~Moved(t, n)
  BY <1>3 DEF Met
<1>9. t.nodes[n].flag \in {"none", "moved", "deleted"}
  <2>1. t \in Tries
    BY ShapeTypes
  <2>2. QED
    BY <2>1, TypesOf
<1>10. QED
  BY <1>1, <1>4, <1>7, <1>8, <1>9 DEF WordId, Moved
----------------------------------------------------------------------------
(***************************************************************************)
(* What an insertion does to the shape: nodes and arrays are added, at     *)
(* most one node m moves, its children get the parent y instead.           *)
(***************************************************************************)
NewNodes(t, u) == (Len(t.nodes) + 1)..Len(u.nodes)
NewArrays(t, u) == (Len(t.arrays) + 1)..Len(u.arrays)

Keeps(t, pre, at, u, pre2, at2, m) ==
    /\ Linked(u)
    /\ pre2 \in [1..Len(u.nodes) -> Seq(Nat)]
    /\ at2 \in [1..Len(u.arrays) -> Seq(Nat)]
    /\ Len(t.nodes) <= Len(u.nodes) /\ Len(t.arrays) <= Len(u.arrays)
    /\ \A x \in 1..Len(t.nodes) :
         /\ u.nodes[x].chars = t.nodes[x].chars /\ pre2[x] = pre[x]
         /\ Moved(u, x) <=> Moved(t, x) \/ x = m
         /\ Moved(t, x) => u.nodes[x].parent = t.nodes[x].parent
         /\ t.nodes[x].kids # 0 => u.nodes[x].kids = t.nodes[x].kids
    /\ \A a \in 1..Len(t.arrays) :
         u.arrays[a].members = t.arrays[a].members /\ at2[a] = at[a]

Moves(t, pre, u, pre2, m, y) ==
    /\ m # 0 =>
         /\ m \in 1..Len(t.nodes) /\ ~Moved(t, m)
         /\ u.nodes[m].parent \in NewNodes(t, u)
         /\ pre2[u.nodes[m].parent] = pre[m] /\ Letter(u, u.nodes[m].parent) = Letter(t, m)
         /\ t.nodes[m].kids # 0 =>
              y \in NewNodes(t, u) /\ Spelled(u, pre2, y) = Spelled(t, pre, m) /\ u.nodes[y].kids # 0
    /\ \A x \in 1..Len(t.nodes) :
         ~Moved(u, x) =>
           u.nodes[x].parent = IF m # 0 /\ t.nodes[x].parent = m THEN y ELSE t.nodes[x].parent

Fits(t, u, pre2, at2, m) ==
    /\ Chained(u, at2)
    /\ \A a \in NewArrays(t, u) :
         /\ \A i \in 1..Len(u.arrays[a].members) : pre2[u.arrays[a].members[i]] = at2[a]
         /\ at2[a] # << >> =>
              \E n \in 1..Len(u.nodes) :
                ~Moved(u, n) /\ u.nodes[n].kids # 0 /\ Spelled(u, pre2, n) = at2[a]
    /\ \A x \in NewNodes(t, u) :
         /\ ~Moved(u, x)
         /\ \/ m # 0 /\ x = u.nodes[m].parent
            \/ \E a \in 1..Len(u.arrays) : Member(u, a, x)
         /\ u.nodes[x].parent = 0 => pre2[x] = << >>
         /\ u.nodes[x].parent # 0 =>
              /\ ~Moved(u, u.nodes[x].parent) /\ u.nodes[u.nodes[x].parent].kids # 0
              /\ pre2[x] = Spelled(u, pre2, u.nodes[x].parent)
         /\ \A z \in 1..Len(u.nodes) :
              ~Moved(u, z) /\ pre2[z] = pre2[x] /\ Letter(u, z) = Letter(u, x) => z = x
    /\ \A x \in 1..Len(u.nodes) :
         u.nodes[x].kids # 0 /\ (x \in 1..Len(t.nodes) => u.nodes[x].kids # t.nodes[x].kids) =>
           at2[u.nodes[x].kids] = Spelled(u, pre2, x) /\ First(u, at2, u.nodes[x].kids)

LEMMA MovedTo ==
    ASSUME NEW t, Linked(t)
    PROVE  \A x \in 1..Len(t.nodes) : Moved(t, x) => t.nodes[x].parent \in 1..Len(t.nodes)
<1>1. t \in Tries
  BY DEF Linked
<1>2. Len(t.nodes) \in Nat /\ \A x \in 1..Len(t.nodes) : t.nodes[x].parent \in Nat
  BY <1>1, TypesOf
<1>3. \A x \in 1..Len(t.nodes) :
        Moved(t, x) => t.nodes[x].parent > x /\ t.nodes[x].parent <= Len(t.nodes)
  BY DEF Linked, Moved
<1>4. QED
  BY <1>2, <1>3

\* What is read from a node is read from where it is.
LEMMA FetchLater ==
    ASSUME NEW t, Linked(t), NEW u, Linked(u), Len(t.nodes) <= Len(u.nodes),
           \A x \in 1..Len(t.nodes) :
             Moved(t, x) => Moved(u, x) /\ u.nodes[x].parent = t.nodes[x].parent
    PROVE  \A x \in 1..Len(t.nodes) : Fetch(u, x) = Fetch(u, Fetch(t, x))
<1> DEFINE N == 1..Len(t.nodes)
           Q == [x \in N |-> Fetch(u, x)]
<1>1. \A x \in N : x \in 1..Len(u.nodes)
  BY TypesOf DEF Linked
<1>2. \A x \in N : Moved(t, x) => t.nodes[x].parent \in N
  BY MovedTo
<1>3. \A x \in N : Moved(t, x) => Q[t.nodes[x].parent] = Q[x]
  BY <1>1, <1>2, FetchUnfolds
<1> HIDE DEF Q
<1>4. \A x \in N : Fetch(t, x) \in N /\ Q[Fetch(t, x)] = Q[x]
  BY <1>3, FetchFacts
<1>5. QED
  BY <1>4 DEF Q

\* Where the links lead does not depend on the parents.
Relocates(t, pre, u, pre2, m) ==
    m # 0 =>
      /\ m \in 1..Len(t.nodes) /\ ~Moved(t, m)
      /\ u.nodes[m].parent \in NewNodes(t, u)
      /\ pre2[u.nodes[m].parent] = pre[m] /\ Letter(u, u.nodes[m].parent) = Letter(t, m)

Settles(t, u, pre2, at2, m) ==
    /\ Chained(u, at2)
    /\ \A a \in NewArrays(t, u) :
         \A i \in 1..Len(u.arrays[a].members) : pre2[u.arrays[a].members[i]] = at2[a]
    /\ \A x \in NewNodes(t, u) :
         /\ ~Moved(u, x)
         /\ \/ m # 0 /\ x = u.nodes[m].parent
            \/ \E a \in 1..Len(u.arrays) : Member(u, a, x)

LEMMA GrowthLaid ==
    ASSUME NEW t, NEW pre, NEW at, Shape(t, pre, at), NEW u, NEW pre2, NEW at2,
           NEW m \in Nat,
           Keeps(t, pre, at, u, pre2, at2, m), Relocates(t, pre, u, pre2, m),
           Settles(t, u, pre2, at2, m)
    PROVE  Laid(u, pre2, at2)
<1> DEFINE N == 1..Len(t.nodes)
           N2 == 1..Len(u.nodes)
           S == 1..Len(t.arrays)
           S2 == 1..Len(u.arrays)
<1>1. /\ Len(t.nodes) \in Nat /\ Len(u.nodes) \in Nat /\ Len(t.arrays) \in Nat \ {0} /\ Len(u.arrays) \in Nat
      /\ t \in Tries /\ u \in Tries /\ Linked(t) /\ Linked(u)
  <2>1. Linked(t) /\ Linked(u)
    BY DEF Keeps, Shape, Laid
  <2>2. QED
    BY <2>1, TypesOf DEF Linked
<1>2. /\ N \subseteq N2 /\ S \subseteq S2
      /\ \A x \in N2 : x \in N \/ x \in NewNodes(t, u)
      /\ \A a \in S2 : a \in S \/ a \in NewArrays(t, u)
      /\ \A x \in NewNodes(t, u) : x \in N2 /\ x \notin N
      /\ \A a \in NewArrays(t, u) : a \in S2 /\ a \notin S /\ \A b \in S : b < a
  <2>1. Len(t.nodes) <= Len(u.nodes) /\ Len(t.arrays) <= Len(u.arrays)
    BY DEF Keeps
  <2>2. \A x, z \in Nat : x <= z => /\ 1..x \subseteq 1..z
                                    /\ \A i \in 1..z : i \in 1..x \/ i \in (x + 1)..z
                                    /\ \A i \in (x + 1)..z : i \in 1..z /\ i \notin 1..x /\ \A j \in 1..x : j < i
    OBVIOUS
  <2>3. QED
    BY <1>1, <2>1, <2>2 DEF NewNodes, NewArrays
<1>3. \A x \in N : /\ Spelled(u, pre2, x) = Spelled(t, pre, x) /\ Letter(u, x) = Letter(t, x)
                   /\ pre2[x] = pre[x] /\ (Moved(u, x) <=> Moved(t, x) \/ x = m)
  BY DEF Keeps, Spelled, Letter
<1>4. \A a \in S : /\ at2[a] = at[a] /\ u.arrays[a].members = t.arrays[a].members
                   /\ \A x : Member(u, a, x) <=> Member(t, a, x)
  BY DEF Keeps, Member
<1>5. Filled(u, pre2, at2)
  <2> SUFFICES ASSUME NEW a \in S2, NEW i \in 1..Len(u.arrays[a].members)
               PROVE  pre2[u.arrays[a].members[i]] = at2[a]
    BY DEF Filled
  <2>1. CASE a \in S
    <3>1. t.arrays[a].members[i] \in N /\ pre[t.arrays[a].members[i]] = at[a]
      BY <1>1, <1>4, <2>1 DEF Shape, Laid, Filled, Linked
    <3>2. QED
      BY <1>3, <1>4, <2>1, <3>1
  <2>2. CASE a \in NewArrays(t, u)
    BY <2>2 DEF Settles
  <2>3. QED
    BY <1>2, <2>1, <2>2
<1>6. Forwards(u, pre2)
  <2> SUFFICES ASSUME NEW n \in N2, Moved(u, n)
               PROVE  /\ pre2[u.nodes[n].parent] = pre2[n]
                      /\ Letter(u, u.nodes[n].parent) = Letter(u, n)
    BY DEF Forwards
  <2>1. n \in N
    BY <1>2 DEF Settles
  <2>2. CASE Moved(t, n)
    <3>1. /\ u.nodes[n].parent = t.nodes[n].parent /\ t.nodes[n].parent \in N
      BY <1>1, <2>1, <2>2, MovedTo DEF Keeps
    <3>2. QED
      BY <1>3, <2>1, <2>2, <3>1 DEF Shape, Laid, Forwards
  <2>3. CASE n = m
    <3>1. m # 0
      BY <1>1, <2>1, <2>3
    <3>2. QED
      BY <1>3, <2>1, <2>3, <3>1 DEF Relocates
  <2>4. QED
    BY <1>3, <2>1, <2>2, <2>3
<1>7. \A x \in N : Fetch(u, x) = Fetch(u, Fetch(t, x))
  <2>1. Len(t.nodes) <= Len(u.nodes) /\ \A x \in N : Moved(t, x) => Moved(u, x) /\ u.nodes[x].parent = t.nodes[x].parent
    BY <1>3 DEF Keeps
  <2>2. QED
    BY <1>1, <2>1, FetchLater
<1>8. \A x \in N2 : Fetch(u, x) = IF Moved(u, x) THEN Fetch(u, u.nodes[x].parent) ELSE x
  BY <1>1, FetchUnfolds
<1>9. Listed(u)
  <2> SUFFICES ASSUME NEW n \in N2, ~Moved(u, n)
               PROVE  \E a \in S2, x \in N2 : Member(u, a, x) /\ Fetch(u, x) = n
    BY DEF Listed
  <2>1. CASE n \in N
    <3>1. PICK a \in S, x \in N : Member(t, a, x) /\ Fetch(t, x) = n
      BY <1>3, <2>1 DEF Shape, Laid, Listed
    <3>2. Fetch(u, x) = n
      BY <1>7, <1>8, <3>1
    <3>3. QED
      BY <1>2, <1>4, <3>1, <3>2
  <2>2. CASE n \in NewNodes(t, u) /\ m # 0 /\ n = u.nodes[m].parent
    <3>1. m \in N /\ ~Moved(t, m)
      BY <2>2 DEF Relocates
    <3>2. PICK a \in S, x \in N : Member(t, a, x) /\ Fetch(t, x) = m
      BY <3>1 DEF Shape, Laid, Listed
    <3>3. Moved(u, m)
      BY <1>3, <3>1
    <3>4. Fetch(u, x) = n
      BY <1>2, <1>7, <1>8, <2>2, <3>1, <3>2, <3>3
    <3>5. QED
      BY <1>2, <1>4, <3>2, <3>4
  <2>3. CASE \E a \in S2 : Member(u, a, n)
    BY <1>8, <2>3
  <2>4. QED
    BY <1>2, <2>1, <2>2, <2>3 DEF Settles
<1>10. QED
  BY <1>1, <1>5, <1>6, <1>9 DEF Laid, Keeps, Settles

LEMMA Growth ==
    ASSUME NEW t, NEW pre, NEW at, Shape(t, pre, at), NEW u, NEW pre2, NEW at2,
           NEW m \in Nat, NEW y,
           Keeps(t, pre, at, u, pre2, at2, m), Moves(t, pre, u, pre2, m, y),
           Fits(t, u, pre2, at2, m)
    PROVE  Shape(u, pre2, at2)
<1> DEFINE N == 1..Len(t.nodes)
           N2 == 1..Len(u.nodes)
           S == 1..Len(t.arrays)
           S2 == 1..Len(u.arrays)
<1>1. /\ Len(t.nodes) \in Nat /\ Len(u.nodes) \in Nat /\ Len(t.arrays) \in Nat \ {0} /\ Len(u.arrays) \in Nat
      /\ t \in Tries /\ u \in Tries /\ Linked(t) /\ Linked(u)
  <2>1. Linked(t) /\ Linked(u)
    BY DEF Keeps, Shape, Laid
  <2>2. QED
    BY <2>1, TypesOf DEF Linked
<1>2. /\ N \subseteq N2 /\ S \subseteq S2
      /\ \A x \in N2 : x \in N \/ x \in NewNodes(t, u)
      /\ \A a \in S2 : a \in S \/ a \in NewArrays(t, u)
      /\ \A x \in NewNodes(t, u) : x \in N2 /\ x \notin N
      /\ \A a \in NewArrays(t, u) : a \in S2 /\ a \notin S /\ \A b \in S : b < a
  <2>1. Len(t.nodes) <= Len(u.nodes) /\ Len(t.arrays) <= Len(u.arrays)
    BY DEF Keeps
  <2>2. \A x, z \in Nat : x <= z => /\ 1..x \subseteq 1..z
                                    /\ \A i \in 1..z : i \in 1..x \/ i \in (x + 1)..z
                                    /\ \A i \in (x + 1)..z : i \in 1..z /\ i \notin 1..x /\ \A j \in 1..x : j < i
    OBVIOUS
  <2>3. QED
    BY <1>1, <2>1, <2>2 DEF NewNodes, NewArrays
<1>3. \A x \in N : /\ Spelled(u, pre2, x) = Spelled(t, pre, x) /\ Letter(u, x) = Letter(t, x)
                   /\ pre2[x] = pre[x] /\ (Moved(u, x) <=> Moved(t, x) \/ x = m)
  BY DEF Keeps, Spelled, Letter
<1>4. \A a \in S : /\ at2[a] = at[a] /\ u.arrays[a].members = t.arrays[a].members
                   /\ \A x : Member(u, a, x) <=> Member(t, a, x)
  BY DEF Keeps, Member
<1>10. Laid(u, pre2, at2)
  <2>1. Relocates(t, pre, u, pre2, m)
    BY DEF Moves, Relocates
  <2>2. Settles(t, u, pre2, at2, m)
    BY DEF Fits, Settles
  <2>3. QED
    BY <2>1, <2>2, GrowthLaid
<1>11. at2[1] = << >>
  BY <1>1, <1>4 DEF Shape
<1>12. Owned(u, pre2, at2)
  <2> SUFFICES ASSUME NEW a \in S2, at2[a] # << >>
               PROVE  \E n \in N2 : ~Moved(u, n) /\ u.nodes[n].kids # 0 /\ Spelled(u, pre2, n) = at2[a]
    BY DEF Owned
  <2>1. CASE a \in S
    <3>1. PICK n \in N : ~Moved(t, n) /\ t.nodes[n].kids # 0 /\ Spelled(t, pre, n) = at[a]
      BY <1>4, <2>1 DEF Shape, Owned
    <3>2. CASE n = m
      <4>1. m # 0
        BY <1>1, <3>2
      <4>2. y \in NewNodes(t, u) /\ Spelled(u, pre2, y) = Spelled(t, pre, m) /\ u.nodes[y].kids # 0
        BY <3>1, <3>2, <4>1 DEF Moves
      <4>3. ~Moved(u, y) /\ y \in N2
        BY <1>2, <4>2 DEF Fits
      <4>4. QED
        BY <1>4, <2>1, <3>1, <3>2, <4>2, <4>3
    <3>3. CASE n # m
      <4>1. ~Moved(u, n) /\ u.nodes[n].kids # 0 /\ Spelled(u, pre2, n) = at2[a]
        BY <1>3, <1>4, <2>1, <3>1, <3>3 DEF Keeps
      <4>2. QED
        BY <1>2, <4>1
    <3>4. QED
      BY <3>2, <3>3
  <2>2. CASE a \in NewArrays(t, u)
    BY <2>2 DEF Fits
  <2>3. QED
    BY <1>2, <2>1, <2>2
<1>13. Kids(u, pre2, at2)
  <2> SUFFICES ASSUME NEW n \in N2, u.nodes[n].kids # 0
               PROVE  at2[u.nodes[n].kids] = Spelled(u, pre2, n) /\ First(u, at2, u.nodes[n].kids)
    BY DEF Kids
  <2>1. CASE n \in N /\ u.nodes[n].kids = t.nodes[n].kids
    <3> DEFINE k == t.nodes[n].kids
    <3>1. k \in S
      <4>1. k \in 0..Len(t.arrays)
        BY <2>1, ShapeTypes
      <4>2. \A i \in 0..Len(t.arrays) : i # 0 => i \in S
        BY <1>1
      <4>3. QED
        BY <2>1, <4>1, <4>2
    <3>2. at[k] = Spelled(t, pre, n) /\ First(t, at, k)
      BY <2>1 DEF Shape, Kids
    <3>3. at2[k] = Spelled(u, pre2, n)
      BY <1>3, <1>4, <2>1, <3>1, <3>2
    <3>4. First(u, at2, k)
      <4> SUFFICES ASSUME NEW b \in S2, at2[b] = at2[k] PROVE k <= b
        BY DEF First
      <4>1. CASE b \in S
        BY <1>4, <3>1, <3>2, <4>1 DEF First
      <4>2. CASE b \in NewArrays(t, u)
        <5>1. k < b
          BY <1>2, <3>1, <4>2
        <5>2. k \in Nat /\ b \in Nat
          BY <1>1, <3>1
        <5> HIDE DEF k
        <5>3. QED
          BY <5>1, <5>2
      <4>3. QED
        BY <1>2, <4>1, <4>2
    <3>5. QED
      BY <2>1, <3>3, <3>4
  <2>2. CASE n \in N => u.nodes[n].kids # t.nodes[n].kids
    BY <2>2 DEF Fits
  <2>3. QED
    BY <2>1, <2>2
<1>14. Parents(u, pre2)
  <2> SUFFICES ASSUME NEW n \in N2, ~Moved(u, n)
               PROVE  /\ u.nodes[n].parent = 0 => pre2[n] = << >>
                      /\ u.nodes[n].parent # 0 =>
                           /\ ~Moved(u, u.nodes[n].parent) /\ u.nodes[u.nodes[n].parent].kids # 0
                           /\ pre2[n] = Spelled(u, pre2, u.nodes[n].parent)
    BY DEF Parents
  <2>1. CASE n \in N
    <3> DEFINE p == t.nodes[n].parent
    <3>1. /\ ~Moved(t, n) /\ p \in 0..Len(t.nodes)
          /\ p = 0 => pre[n] = << >>
          /\ p # 0 => ~Moved(t, p) /\ t.nodes[p].kids # 0 /\ pre[n] = Spelled(t, pre, p)
      BY <1>3, <2>1, ShapeTypes DEF Shape, Parents
    <3>2. p # 0 => p \in N
      <4> HIDE DEF p
      <4>1. QED
        BY <1>1, <3>1
    <3>3. u.nodes[n].parent = IF m # 0 /\ p = m THEN y ELSE p
      BY <2>1 DEF Moves
    <3> HIDE DEF p
    <3>4. CASE m # 0 /\ p = m
      <4>1. y \in NewNodes(t, u) /\ Spelled(u, pre2, y) = Spelled(t, pre, m) /\ u.nodes[y].kids # 0
        BY <3>1, <3>4 DEF Moves
      <4>2. ~Moved(u, y) /\ y # 0
        BY <1>2, <4>1 DEF Fits
      <4>3. QED
        BY <1>3, <2>1, <3>1, <3>3, <3>4, <4>1, <4>2
    <3>5. CASE p = 0 /\ ~(m # 0 /\ p = m)
      BY <1>3, <2>1, <3>1, <3>3, <3>5
    <3>6. CASE p # 0 /\ p # m
      <4>1. ~Moved(u, p) /\ u.nodes[p].kids # 0 /\ Spelled(u, pre2, p) = Spelled(t, pre, p)
        BY <1>3, <3>1, <3>2, <3>6 DEF Keeps
      <4>2. QED
        BY <1>3, <2>1, <3>1, <3>3, <3>6, <4>1
    <3>7. QED
      BY <3>4, <3>5, <3>6
  <2>2. CASE n \in NewNodes(t, u)
    BY <2>2 DEF Fits
  <2>3. QED
    BY <1>2, <2>1, <2>2
<1>15. Apart(u, pre2)
  <2> SUFFICES ASSUME NEW x \in N2, NEW z \in N2, ~Moved(u, x), ~Moved(u, z), pre2[x] = pre2[z],
                      Letter(u, x) = Letter(u, z)
               PROVE  x = z
    BY DEF Apart
  <2>1. CASE x \in N /\ z \in N
    BY <1>3, <2>1 DEF Shape, Apart
  <2>2. CASE x \in NewNodes(t, u)
    BY <2>2 DEF Fits
  <2>3. CASE z \in NewNodes(t, u)
    BY <2>3 DEF Fits
  <2>4. QED
    BY <1>2, <2>1, <2>2, <2>3
<1>16. QED
  BY <1>10, <1>11, <1>12, <1>13, <1>14, <1>15 DEF Shape
----------------------------------------------------------------------------
(* The effects of the writing operators on the buffers. *)

LEMMA AppendFacts ==
    ASSUME NEW S, NEW s \in Seq(S), NEW e \in S
    PROVE  /\ Append(s, e) \in Seq(S) /\ Len(Append(s, e)) = Len(s) + 1
           /\ \A i \in 1..Len(s) : Append(s, e)[i] = s[i]
           /\ Append(s, e)[Len(s) + 1] = e
OBVIOUS

NodeOf(chars, parent, id, kids) ==
    [chars |-> chars, parent |-> parent, id |-> id, kids |-> kids, flag |-> "none"]

\* A terminal id is given a node: an existing id, or the next one.
LEMMA SetTableIs ==
    ASSUME NEW t \in Tries, Len(t.count) = Len(t.table), NEW n \in Nat,
           NEW id \in 1..(Len(t.table) + 1)
    PROVE  LET u == SetTable(t, id, n)
           IN  /\ u \in Tries /\ u.nodes = t.nodes /\ u.arrays = t.arrays /\ u.pairs = t.pairs
               /\ Len(u.table) = IF id = Len(t.table) + 1 THEN id ELSE Len(t.table)
               /\ Len(u.count) = Len(u.table)
               /\ \A i \in 1..Len(u.table) :
                    /\ u.table[i] = IF i = id THEN n ELSE t.table[i]
                    /\ u.count[i] = IF i = Len(t.table) + 1 THEN NoEntry ELSE t.count[i]
<1> DEFINE L == Len(t.table)
           u == SetTable(t, id, n)
<1>1. /\ t = [nodes |-> t.nodes, arrays |-> t.arrays, table |-> t.table, count |-> t.count, pairs |-> t.pairs]
      /\ t.nodes \in Seq(Nodes) /\ t.arrays \in Seq(Arrays)
      /\ t.table \in Seq(Nat) /\ t.count \in Seq(0..NoEntry) /\ t.pairs \in SUBSET (Nat \X Nat)
      /\ L \in Nat
  BY DEF Tries
<1>2. NoEntry \in 0..NoEntry
  BY DEF NoEntry
<1>3. CASE id = L + 1
  <2>0. id > L
    BY <1>1, <1>3
  <2>1. u = [t EXCEPT !.table = Append(@, n), !.count = Append(@, NoEntry)]
    BY <2>0 DEF SetTable
  <2>2. /\ u.nodes = t.nodes /\ u.arrays = t.arrays /\ u.pairs = t.pairs
        /\ u.table = Append(t.table, n) /\ u.count = Append(t.count, NoEntry)
        /\ u = [nodes |-> t.nodes, arrays |-> t.arrays, table |-> Append(t.table, n),
                count |-> Append(t.count, NoEntry), pairs |-> t.pairs]
    <3> HIDE DEF u
    <3>1. QED
      BY <1>1, <2>1
  <2>3. /\ Append(t.table, n) \in Seq(Nat) /\ Len(Append(t.table, n)) = L + 1
        /\ \A i \in 1..L : Append(t.table, n)[i] = t.table[i]
        /\ Append(t.table, n)[L + 1] = n
    BY <1>1, AppendFacts
  <2>4. /\ Append(t.count, NoEntry) \in Seq(0..NoEntry) /\ Len(Append(t.count, NoEntry)) = L + 1
        /\ \A i \in 1..L : Append(t.count, NoEntry)[i] = t.count[i]
        /\ Append(t.count, NoEntry)[L + 1] = NoEntry
    BY <1>1, <1>2, AppendFacts
  <2>5. u \in Tries
    <3> HIDE DEF u
    <3>1. QED
      BY <1>1, <2>2, <2>3, <2>4 DEF Tries
  <2>6. \A i \in 1..(L + 1) : i # L + 1 => i \in 1..L
    BY <1>1
  <2> HIDE DEF u, L
  <2>7. QED
    BY <1>3, <2>2, <2>3, <2>4, <2>5, <2>6 DEF u, L
<1>4. CASE id # L + 1
  <2>0. id \in 1..L /\ ~(id > L)
    BY <1>1, <1>4
  <2>1. u = [t EXCEPT !.table[id] = n]
    BY <2>0 DEF SetTable
  <2>2. /\ u.nodes = t.nodes /\ u.arrays = t.arrays /\ u.pairs = t.pairs
        /\ u.table = [t.table EXCEPT ![id] = n] /\ u.count = t.count
        /\ u = [nodes |-> t.nodes, arrays |-> t.arrays, table |-> [t.table EXCEPT ![id] = n],
                count |-> t.count, pairs |-> t.pairs]
    <3> HIDE DEF u
    <3>1. QED
      BY <1>1, <2>1
  <2>3. /\ [t.table EXCEPT ![id] = n] \in Seq(Nat) /\ Len([t.table EXCEPT ![id] = n]) = L
        /\ \A i \in 1..L : [t.table EXCEPT ![id] = n][i] = IF i = id THEN n ELSE t.table[i]
    BY <1>1, <2>0
  <2>5. u \in Tries
    <3> HIDE DEF u
    <3>1. QED
      BY <1>1, <2>2, <2>3 DEF Tries
  <2>6. \A i \in 1..L : i # L + 1
    BY <1>1
  <2> HIDE DEF u, L
  <2>7. QED
    BY <1>4, <2>2, <2>3, <2>5, <2>6 DEF u, L
<1>5. QED
  BY <1>3, <1>4

\* The id a written node gets.
IdFor(t, id, terminal) == IF id # 0 THEN id ELSE IF terminal THEN Len(t.table) + 1 ELSE 0

\* What writing a node with the id new leaves: c is its count if the id is new.
Wrote(t, u, chars, parent, new, kids) ==
    /\ u \in Tries /\ u.arrays = t.arrays /\ u.pairs = t.pairs
    /\ u.nodes = Append(t.nodes, NodeOf(chars, parent, new, kids))
    /\ NodeOf(chars, parent, new, kids) \in Nodes
    /\ Len(u.table) = IF new = Len(t.table) + 1 THEN new ELSE Len(t.table)
    /\ Len(u.count) = Len(u.table)
    /\ \A i \in 1..Len(u.table) :
         /\ u.table[i] = IF i = new THEN NextNode(t) ELSE t.table[i]
         /\ u.count[i] = IF i = Len(t.table) + 1 THEN NoEntry ELSE t.count[i]

LEMMA WriteNodeIs ==
    ASSUME NEW t \in Tries, Len(t.count) = Len(t.table),
           NEW chars \in Seq(Nat), chars # << >>, NEW parent \in Nat,
           NEW id \in 0..Len(t.table), NEW kids \in Nat, NEW terminal \in BOOLEAN
    PROVE  Wrote(t, WriteNode(t, chars, parent, id, kids, terminal), chars, parent,
                 IdFor(t, id, terminal), kids)
<1> DEFINE new == IdFor(t, id, terminal)
           R == NodeOf(chars, parent, new, kids)
           v == IF new = 0 THEN t ELSE SetTable(t, new, NextNode(t))
           u == WriteNode(t, chars, parent, id, kids, terminal)
<1>1. Len(t.table) \in Nat /\ NextNode(t) \in Nat /\ t.nodes \in Seq(Nodes)
  BY DEF Tries, NextNode
<1>2. new \in 0..(Len(t.table) + 1) /\ new \in Nat
  <2>1. \A k \in Nat : /\ 0 \in 0..(k + 1) /\ k + 1 \in 0..(k + 1) /\ k + 1 \in Nat
                       /\ \A i \in 0..k : i \in 0..(k + 1) /\ i \in Nat
    OBVIOUS
  <2>2. /\ 0 \in 0..(Len(t.table) + 1) /\ Len(t.table) + 1 \in 0..(Len(t.table) + 1)
        /\ Len(t.table) + 1 \in Nat /\ id \in 0..(Len(t.table) + 1) /\ id \in Nat
    BY <1>1, <2>1
  <2>3. QED
    BY <2>2 DEF IdFor
<1> HIDE DEF new
<1>3. /\ v \in Tries /\ v.nodes = t.nodes /\ v.arrays = t.arrays /\ v.pairs = t.pairs
      /\ Len(v.table) = IF new = Len(t.table) + 1 THEN new ELSE Len(t.table)
      /\ Len(v.count) = Len(v.table)
      /\ \A i \in 1..Len(v.table) :
           /\ v.table[i] = IF i = new THEN NextNode(t) ELSE t.table[i]
           /\ v.count[i] = IF i = Len(t.table) + 1 THEN NoEntry ELSE t.count[i]
  <2>1. CASE new = 0
    <3>1. v = t /\ new # Len(t.table) + 1
      BY <1>1, <2>1
    <3>2. \A i \in 1..Len(t.table) : i # new /\ i # Len(t.table) + 1
      <4>1. Len(t.table) \in Nat
        BY <1>1
      <4>2. \A k \in Nat : \A i \in 1..k : i # 0 /\ i # k + 1
        OBVIOUS
      <4>3. QED
        BY <2>1, <4>1, <4>2
    <3> HIDE DEF v
    <3>3. QED
      BY <3>1, <3>2
  <2>2. CASE new # 0
    <3>1. v = SetTable(t, new, NextNode(t)) /\ new \in 1..(Len(t.table) + 1)
      BY <1>1, <1>2, <2>2
    <3> HIDE DEF v
    <3>2. LET s == SetTable(t, new, NextNode(t))
           IN  /\ s \in Tries /\ s.nodes = t.nodes /\ s.arrays = t.arrays /\ s.pairs = t.pairs
               /\ Len(s.table) = IF new = Len(t.table) + 1 THEN new ELSE Len(t.table)
               /\ Len(s.count) = Len(s.table)
               /\ \A i \in 1..Len(s.table) :
                    /\ s.table[i] = IF i = new THEN NextNode(t) ELSE t.table[i]
                    /\ s.count[i] = IF i = Len(t.table) + 1 THEN NoEntry ELSE t.count[i]
    <4>1. t \in Tries /\ Len(t.count) = Len(t.table) /\ NextNode(t) \in Nat
      BY <1>1
    <4>2. QED
      BY <3>1, <4>1, SetTableIs, SMTT(30)
    <3>3. QED
      BY <3>1, <3>2
  <2>3. QED
    BY <2>1, <2>2
<1>4. R \in Nodes
  BY <1>2 DEF NodeOf, Nodes
<1>5. u = [v EXCEPT !.nodes = Append(@, R)]
  BY DEF WriteNode, NodeOf, new, IdFor
<1> HIDE DEF v, R
<1>6. /\ v.nodes \in Seq(Nodes) /\ v.arrays \in Seq(Arrays) /\ v.table \in Seq(Nat)
      /\ v.count \in Seq(0..NoEntry) /\ v.pairs \in SUBSET (Nat \X Nat)
      /\ v = [nodes |-> v.nodes, arrays |-> v.arrays, table |-> v.table, count |-> v.count, pairs |-> v.pairs]
  BY <1>3 DEF Tries
<1>7. Append(t.nodes, R) \in Seq(Nodes)
  BY <1>1, <1>4, AppendFacts
<1>8. /\ u.nodes = Append(t.nodes, R) /\ u.arrays = v.arrays /\ u.table = v.table
      /\ u.count = v.count /\ u.pairs = v.pairs
      /\ u = [nodes |-> Append(t.nodes, R), arrays |-> v.arrays, table |-> v.table, count |-> v.count, pairs |-> v.pairs]
  <2> HIDE DEF u
  <2>1. QED
    BY <1>3, <1>5, <1>6
<1> HIDE DEF u
<1>9. u \in Tries
  BY <1>6, <1>7, <1>8 DEF Tries
<1>10. QED
  BY <1>3, <1>4, <1>8, <1>9 DEF u, R, new, Wrote

\* What writing the node of a word with the id new leaves.
WroteTerminal(t, u, chars, parent, new, kids) ==
    /\ u \in Tries /\ u.arrays = t.arrays /\ u.pairs = t.pairs
    /\ u.nodes = Append(t.nodes, NodeOf(chars, parent, new, kids))
    /\ NodeOf(chars, parent, new, kids) \in Nodes
    /\ Len(u.table) = IF new = Len(t.table) + 1 THEN new ELSE Len(t.table)
    /\ Len(u.count) = Len(u.table)
    /\ \A i \in 1..Len(u.table) :
         /\ u.table[i] = IF i = new THEN NextNode(t) ELSE t.table[i]
         /\ u.count[i] = IF i = new THEN 0 ELSE t.count[i]

LEMMA WriteNewTerminalIs ==
    ASSUME NEW t \in Tries, Len(t.count) = Len(t.table),
           NEW chars \in Seq(Nat), chars # << >>, NEW parent \in Nat,
           NEW id \in 0..Len(t.table), NEW kids \in Nat
    PROVE  WroteTerminal(t, WriteNewTerminal(t, chars, parent, id, kids), chars, parent,
                         IdFor(t, id, TRUE), kids)
<1> DEFINE new == IdFor(t, id, TRUE)
           R == NodeOf(chars, parent, new, kids)
           v == WriteNode(t, chars, parent, id, kids, TRUE)
           u == WriteNewTerminal(t, chars, parent, id, kids)
<1>1. Len(t.table) \in Nat /\ NextNode(t) = Len(t.nodes) + 1 /\ t.nodes \in Seq(Nodes)
  BY DEF Tries, NextNode
<1>2. new \in 1..(Len(t.table) + 1) /\ new \in Nat
  BY <1>1 DEF IdFor
<1>3. /\ v \in Tries /\ v.arrays = t.arrays /\ v.pairs = t.pairs
      /\ v.nodes = Append(t.nodes, R) /\ R \in Nodes
      /\ Len(v.table) = IF new = Len(t.table) + 1 THEN new ELSE Len(t.table)
      /\ Len(v.count) = Len(v.table)
      /\ \A i \in 1..Len(v.table) :
           /\ v.table[i] = IF i = new THEN NextNode(t) ELSE t.table[i]
           /\ v.count[i] = IF i = Len(t.table) + 1 THEN NoEntry ELSE t.count[i]
  <2>1. \A b \in BOOLEAN :
          Wrote(t, WriteNode(t, chars, parent, id, kids, b), chars, parent, IdFor(t, id, b), kids)
    BY WriteNodeIs
  <2>2. Wrote(t, WriteNode(t, chars, parent, id, kids, TRUE), chars, parent, IdFor(t, id, TRUE), kids)
    BY <2>1, Zenon
  <2> HIDE DEF v, new
  <2>3. Wrote(t, v, chars, parent, new, kids)
    BY <2>2, Zenon DEF v, new
  <2>4. QED
    BY <2>3 DEF Wrote
<1>4. v.nodes[NextNode(t)].id = new
  <2>1. v.nodes[NextNode(t)] = R
    <3>1. Append(t.nodes, R)[Len(t.nodes) + 1] = R
      <4> HIDE DEF R
      <4>1. QED
        BY <1>1, <1>3, AppendFacts
    <3>2. QED
      BY <1>1, <1>3, <3>1
  <2>2. R.id = new
    <3> HIDE DEF new
    <3>1. QED
      BY DEF NodeOf
  <2>3. QED
    BY <2>1, <2>2
<1>5. u = [v EXCEPT !.count[v.nodes[NextNode(t)].id] = 0]
  BY DEF WriteNewTerminal
<1> HIDE DEF v, R, u, new
<1>6. /\ v.nodes \in Seq(Nodes) /\ v.arrays \in Seq(Arrays) /\ v.table \in Seq(Nat)
      /\ v.count \in Seq(0..NoEntry) /\ v.pairs \in SUBSET (Nat \X Nat)
      /\ v = [nodes |-> v.nodes, arrays |-> v.arrays, table |-> v.table, count |-> v.count, pairs |-> v.pairs]
  BY <1>3 DEF Tries
<1> DEFINE c == [v.count EXCEPT ![new] = 0]
<1>7. u.nodes = v.nodes /\ u.arrays = v.arrays /\ u.table = v.table /\ u.pairs = v.pairs
      /\ u.count = c
      /\ u = [nodes |-> v.nodes, arrays |-> v.arrays, table |-> v.table, count |-> c, pairs |-> v.pairs]
  BY <1>4, <1>5, <1>6
<1>8. new \in 1..Len(v.count) /\ Len(v.count) \in Nat
  BY <1>1, <1>2, <1>3
<1>9. c \in Seq(0..NoEntry) /\ Len(c) = Len(v.count)
      /\ \A i \in 1..Len(v.count) : c[i] = IF i = new THEN 0 ELSE v.count[i]
  BY <1>6, <1>8 DEF NoEntry
<1>10. u \in Tries
  BY <1>6, <1>7, <1>9 DEF Tries
<1>11. \A i \in 1..Len(v.table) : i # new => i # Len(t.table) + 1
  BY <1>1, <1>2, <1>3
<1> HIDE DEF c
<1>12. QED
  BY <1>3, <1>7, <1>9, <1>10, <1>11 DEF u, R, new, WroteTerminal
----------------------------------------------------------------------------
(* Links and entries when nodes and arrays are added. *)

Grows(t, u) ==
    /\ u \in Tries /\ Len(u.count) = Len(u.table) /\ u.pairs = t.pairs
    /\ Len(t.nodes) <= Len(u.nodes) /\ Len(t.arrays) <= Len(u.arrays) /\ Len(t.table) <= Len(u.table)
    /\ \A x \in 1..Len(t.nodes) :
         /\ \/ u.nodes[x].parent = t.nodes[x].parent /\ (Moved(u, x) => Moved(t, x))
            \/ u.nodes[x].parent \in NewNodes(t, u)
         /\ u.nodes[x].kids = t.nodes[x].kids \/ u.nodes[x].kids \in NewArrays(t, u)
         /\ u.nodes[x].id = t.nodes[x].id
    /\ \A x \in NewNodes(t, u) :
         /\ u.nodes[x].flag = "none"
         /\ u.nodes[x].parent <= Len(u.nodes) /\ u.nodes[x].kids <= Len(u.arrays)
         /\ u.nodes[x].id <= Len(u.table)
    /\ \A a \in 1..Len(t.arrays) :
         /\ u.arrays[a].members = t.arrays[a].members
         /\ u.arrays[a].next = t.arrays[a].next \/ u.arrays[a].next \in NewArrays(t, u)
    /\ \A a \in NewArrays(t, u) :
         /\ \A i \in 1..Len(u.arrays[a].members) : u.arrays[a].members[i] \in 1..Len(u.nodes)
         /\ u.arrays[a].next = 0
    /\ \A i \in 1..Len(u.table) :
         (i \in 1..Len(t.table) /\ u.table[i] = t.table[i]) \/ u.table[i] <= Len(u.nodes)

LEMMA GrowsLinked ==
    ASSUME NEW t, Linked(t), NEW u, Grows(t, u)
    PROVE  Linked(u)
<1> DEFINE N == 1..Len(t.nodes)
           N2 == 1..Len(u.nodes)
           S == 1..Len(t.arrays)
           S2 == 1..Len(u.arrays)
           T == 1..Len(t.table)
           T2 == 1..Len(u.table)
<1>1. /\ Len(t.nodes) \in Nat /\ Len(t.arrays) \in Nat /\ Len(t.table) \in Nat
      /\ Len(u.nodes) \in Nat /\ Len(u.arrays) \in Nat /\ Len(u.table) \in Nat
      /\ t \in Tries /\ u \in Tries /\ Len(t.arrays) >= 1
      /\ \A x \in N : t.nodes[x].parent \in Nat /\ t.nodes[x].kids \in Nat /\ t.nodes[x].id \in Nat
      /\ \A a \in S : t.arrays[a].next \in Nat
      /\ \A i \in T : t.table[i] \in Nat
  <2>1. t \in Tries /\ u \in Tries /\ Len(t.arrays) >= 1
    BY DEF Linked, Grows
  <2>2. QED
    BY <2>1, TypesOf
<1>2. Len(t.nodes) <= Len(u.nodes) /\ Len(t.arrays) <= Len(u.arrays) /\ Len(t.table) <= Len(u.table)
  BY DEF Grows
<1>3. /\ \A x \in N2 : x \in N \/ x \in NewNodes(t, u)
      /\ \A a \in S2 : a \in S \/ a \in NewArrays(t, u)
      /\ N \subseteq N2 /\ S \subseteq S2 /\ T \subseteq T2
  BY <1>1, <1>2 DEF NewNodes, NewArrays
<1>4. \A x \in N, z \in NewNodes(t, u) : z > x /\ z <= Len(u.nodes)
  BY <1>1 DEF NewNodes
<1>5. \A x \in S, z \in NewArrays(t, u) : z > x /\ z <= Len(u.arrays)
  BY <1>1 DEF NewArrays
<1>6. ASSUME NEW x \in N2
      PROVE  /\ u.nodes[x].flag = "moved" => u.nodes[x].parent > x
             /\ u.nodes[x].parent <= Len(u.nodes)
             /\ u.nodes[x].kids <= Len(u.arrays)
             /\ u.nodes[x].id <= Len(u.table)
  <2>1. CASE x \in N
    <3>1. /\ t.nodes[x].flag = "moved" => t.nodes[x].parent > x
          /\ t.nodes[x].parent <= Len(t.nodes)
          /\ t.nodes[x].kids <= Len(t.arrays)
          /\ t.nodes[x].id <= Len(t.table)
      BY <2>1 DEF Linked
    <3>2. /\ \/ u.nodes[x].parent = t.nodes[x].parent /\ (Moved(u, x) => Moved(t, x))
             \/ u.nodes[x].parent \in NewNodes(t, u)
          /\ u.nodes[x].kids = t.nodes[x].kids \/ u.nodes[x].kids \in NewArrays(t, u)
          /\ u.nodes[x].id = t.nodes[x].id
      BY <2>1 DEF Grows
    <3>3. t.nodes[x].parent \in Nat /\ t.nodes[x].kids \in Nat /\ t.nodes[x].id \in Nat
      BY <1>1, <2>1
    <3>4. /\ u.nodes[x].flag = "moved" => u.nodes[x].parent > x
          /\ u.nodes[x].parent <= Len(u.nodes)
      <4>1. CASE u.nodes[x].parent = t.nodes[x].parent /\ (Moved(u, x) => Moved(t, x))
        <5>1. u.nodes[x].flag = "moved" => u.nodes[x].parent > x
          BY <3>1, <4>1 DEF Moved
        <5>2. u.nodes[x].parent <= Len(u.nodes)
          BY <1>1, <1>2, <3>1, <3>3, <4>1
        <5>3. QED
          BY <5>1, <5>2
      <4>2. CASE u.nodes[x].parent \in NewNodes(t, u)
        BY <1>4, <2>1, <4>2
      <4>3. QED
        BY <3>2, <4>1, <4>2
    <3>5. u.nodes[x].kids <= Len(u.arrays)
      <4>1. CASE u.nodes[x].kids = t.nodes[x].kids
        BY <1>1, <1>2, <3>1, <3>3, <4>1, SMTT(20)
      <4>2. CASE u.nodes[x].kids \in NewArrays(t, u)
        <5>1. 1 \in S
          BY <1>1
        <5>2. QED
          BY <1>5, <4>2, <5>1
      <4>3. QED
        BY <3>2, <4>1, <4>2
    <3>6. u.nodes[x].id <= Len(u.table)
      BY <1>1, <1>2, <3>1, <3>2, <3>3, SMTT(20)
    <3>7. QED
      BY <3>4, <3>5, <3>6
  <2>2. CASE x \in NewNodes(t, u)
    BY <2>2 DEF Grows
  <2>3. QED
    BY <1>3, <2>1, <2>2
<1>7. ASSUME NEW a \in S2
      PROVE  /\ \A i \in 1..Len(u.arrays[a].members) : u.arrays[a].members[i] \in N2
             /\ u.arrays[a].next # 0 => u.arrays[a].next > a
             /\ u.arrays[a].next <= Len(u.arrays)
  <2>1. CASE a \in S
    <3>1. /\ \A i \in 1..Len(t.arrays[a].members) : t.arrays[a].members[i] \in N
          /\ t.arrays[a].next # 0 => t.arrays[a].next > a
          /\ t.arrays[a].next <= Len(t.arrays) /\ t.arrays[a].next \in Nat
      BY <1>1, <2>1 DEF Linked
    <3>2. /\ u.arrays[a].members = t.arrays[a].members
          /\ u.arrays[a].next = t.arrays[a].next \/ u.arrays[a].next \in NewArrays(t, u)
      BY <2>1 DEF Grows
    <3>3. CASE u.arrays[a].next = t.arrays[a].next
      <4>1. t.arrays[a].next <= Len(u.arrays)
        BY <1>1, <1>2, <3>1
      <4>2. QED
        BY <1>3, <3>1, <3>2, <3>3, <4>1
    <3>4. CASE u.arrays[a].next \in NewArrays(t, u)
      BY <1>3, <1>5, <2>1, <3>1, <3>2, <3>4
    <3>5. QED
      BY <3>2, <3>3, <3>4
  <2>2. CASE a \in NewArrays(t, u)
    <3>1. u.arrays[a].next = 0 /\ 0 <= Len(u.arrays)
      BY <1>1, <2>2 DEF Grows
    <3>2. QED
      BY <2>2, <3>1 DEF Grows
  <2>3. QED
    BY <1>3, <2>1, <2>2
<1>8. ASSUME NEW i \in T2 PROVE u.table[i] <= Len(u.nodes)
  <2>1. CASE i \in T /\ u.table[i] = t.table[i]
    <3>1. t.table[i] <= Len(t.nodes) /\ t.table[i] \in Nat
      BY <1>1, <2>1 DEF Linked
    <3>2. QED
      BY <1>1, <1>2, <2>1, <3>1
  <2>2. QED
    BY <2>1 DEF Grows
<1>9. \A p \in u.pairs : p[1] \in T2 /\ p[2] \in T2
  BY <1>3 DEF Linked, Grows
<1>10. Len(u.arrays) >= 1 /\ Len(u.count) = Len(u.table)
  BY <1>1, <1>2 DEF Grows
<1>11. QED
  BY <1>1, <1>6, <1>7, <1>8, <1>9, <1>10 DEF Linked

----------------------------------------------------------------------------
(***************************************************************************)
(* Terminal ids.  The table leads from the id of every word that is there  *)
(* to its node; the id of a deleted word stays with the node, and no other *)
(* node has it.                                                            *)
(***************************************************************************)
Entries(t) ==
    /\ \A n \in 1..Len(t.nodes) :
         /\ t.nodes[n].flag = "none" /\ t.nodes[n].id # 0 => t.table[t.nodes[n].id] = n
         /\ t.nodes[n].flag = "deleted" => t.nodes[n].id # 0 /\ t.table[t.nodes[n].id] = 0
    /\ \A m, n \in 1..Len(t.nodes) :
         ~Moved(t, m) /\ ~Moved(t, n) /\ t.nodes[m].id = t.nodes[n].id /\ t.nodes[m].id # 0 => m = n
    /\ \A i \in 1..Len(t.table) :
         /\ t.table[i] # 0 => t.nodes[t.table[i]].flag = "none" /\ t.nodes[t.table[i]].id = i
         /\ t.count[i] # NoEntry => t.table[i] # 0
    /\ \A p \in t.pairs : t.table[p[1]] # 0

\* An insertion gives the id of a moved node m to the node z and the next id to q.
Registers(t, u, m, z, q) ==
    /\ \A x \in 1..Len(t.nodes) : u.nodes[x].id = t.nodes[x].id /\ (x # m => u.nodes[x].flag = t.nodes[x].flag)
    /\ m # 0 => m \in 1..Len(t.nodes) /\ ~Moved(t, m) /\ Moved(u, m)
    /\ m # 0 /\ t.nodes[m].id # 0 => z \in NewNodes(t, u) /\ z # q
    /\ \A x \in NewNodes(t, u) :
         /\ u.nodes[x].flag = "none"
         /\ u.nodes[x].id = IF x = q THEN Len(t.table) + 1
                            ELSE IF m # 0 /\ x = z THEN t.nodes[m].id ELSE 0
    /\ \/ q = 0 /\ Len(u.table) = Len(t.table)
       \/ q \in NewNodes(t, u) /\ Len(u.table) = Len(t.table) + 1
    /\ \A i \in 1..Len(t.table) :
         /\ u.table[i] = IF m # 0 /\ i = t.nodes[m].id THEN z ELSE t.table[i]
         /\ ~(m # 0 /\ i = t.nodes[m].id) => u.count[i] = t.count[i]
    /\ q # 0 => u.table[Len(t.table) + 1] = q

LEMMA EntriesGrow ==
    ASSUME NEW t, Linked(t), Entries(t), NEW u, Grows(t, u), NEW m \in Nat, NEW z, NEW q,
           Registers(t, u, m, z, q)
    PROVE  Entries(u)
<1> DEFINE N == 1..Len(t.nodes)
           N2 == 1..Len(u.nodes)
           T == 1..Len(t.table)
           T2 == 1..Len(u.table)
           L == Len(t.table)
           new == L + 1
<1>1. /\ Len(t.nodes) \in Nat /\ L \in Nat /\ Len(u.nodes) \in Nat
      /\ \A x \in N : t.nodes[x].id \in 0..L
      /\ \A i \in T : t.table[i] \in 0..Len(t.nodes)
  <2>1. t \in Tries /\ u \in Tries
    BY DEF Linked, Grows
  <2>2. /\ \A x \in N : t.nodes[x].id \in Nat /\ t.nodes[x].id <= L
        /\ \A i \in T : t.table[i] \in Nat /\ t.table[i] <= Len(t.nodes)
    BY <2>1, TypesOf DEF Linked
  <2>3. Len(t.nodes) \in Nat /\ L \in Nat /\ Len(u.nodes) \in Nat
    BY <2>1, TypesOf
  <2>4. QED
    BY <2>2, <2>3
<1>2. /\ \A x \in N2 : x \in N \/ x \in NewNodes(t, u)
      /\ \A x \in NewNodes(t, u) : x # 0 /\ x \notin N
      /\ new \notin T /\ new # 0
      /\ \A i \in 0..L : i # 0 => i \in T
      /\ \A i \in 0..L : i # new
      /\ \A x \in 0..Len(t.nodes) : x # 0 => x \in N
      /\ 0 \notin N
  BY <1>1 DEF NewNodes
<1>3. \A i \in T2 : i \in T \/ (i = new /\ q # 0)
  <2>1. CASE Len(u.table) = L
    <3>1. T2 = T
      BY <2>1
    <3>2. QED
      BY <3>1
  <2>2. CASE q \in NewNodes(t, u) /\ Len(u.table) = L + 1
    BY <1>1, <1>2, <2>2
  <2>3. QED
    BY <2>1, <2>2 DEF Registers
<1> HIDE DEF new
<1>4. \A x \in N : /\ u.nodes[x].id = t.nodes[x].id
                   /\ x # m => u.nodes[x].flag = t.nodes[x].flag /\ (Moved(u, x) <=> Moved(t, x))
                   /\ x = m => Moved(u, x) /\ ~Moved(t, x)
  <2>1. \A x \in N : x = m => m # 0
    BY <1>1
  <2>2. QED
    BY <2>1 DEF Registers, Moved
<1> DEFINE mid == IF m = 0 THEN 0 ELSE t.nodes[m].id
<1>5. /\ mid \in 0..L /\ (m # 0 => m \in N /\ ~Moved(t, m))
      /\ mid # 0 => m # 0 /\ z \in NewNodes(t, u) /\ z # q
  BY <1>1 DEF Registers
<1>6. \A x \in NewNodes(t, u) :
         /\ u.nodes[x].flag = "none"
         /\ u.nodes[x].id = IF x = q THEN new ELSE IF x = z THEN mid ELSE 0
  BY DEF Registers, new
<1>7. \A i \in T : /\ u.table[i] = IF i = mid THEN z ELSE t.table[i]
                   /\ i # mid => u.count[i] = t.count[i]
  <2>1. \A i \in T : i = mid <=> m # 0 /\ i = t.nodes[m].id
    BY <1>1
  <2>2. QED
    BY <2>1 DEF Registers
<1>8. q # 0 => u.table[new] = q /\ q \in NewNodes(t, u)
  BY DEF Registers, new
<1>9. \A x \in N : x # m /\ ~Moved(t, x) /\ t.nodes[x].id # 0 => t.nodes[x].id # mid /\ t.nodes[x].id \in T
  BY <1>1, <1>2, <1>5 DEF Entries
<1> HIDE DEF mid
<1>10. ASSUME NEW x \in N2
       PROVE  /\ u.nodes[x].flag = "none" /\ u.nodes[x].id # 0 => u.table[u.nodes[x].id] = x
              /\ u.nodes[x].flag = "deleted" => u.nodes[x].id # 0 /\ u.table[u.nodes[x].id] = 0
  <2>1. CASE x \in N /\ ~Moved(u, x)
    <3>1. x # m /\ u.nodes[x].flag = t.nodes[x].flag /\ u.nodes[x].id = t.nodes[x].id /\ ~Moved(t, x)
      BY <1>4, <2>1
    <3>2. CASE t.nodes[x].id # 0
      <4>1. u.table[t.nodes[x].id] = t.table[t.nodes[x].id]
        BY <1>7, <1>9, <2>1, <3>1, <3>2
      <4>2. QED
        BY <2>1, <3>1, <4>1 DEF Entries
    <3>3. CASE t.nodes[x].id = 0
      BY <2>1, <3>1, <3>3 DEF Entries
    <3>4. QED
      BY <3>2, <3>3
  <2>2. CASE x \in NewNodes(t, u)
    <3>1. CASE x = q
      BY <1>2, <1>6, <1>8, <2>2, <3>1
    <3>2. CASE x # q /\ x = z /\ mid # 0
      BY <1>2, <1>5, <1>6, <1>7, <2>2, <3>2
    <3>3. CASE x # q /\ ~(x = z /\ mid # 0)
      BY <1>6, <2>2, <3>3
    <3>4. QED
      BY <3>1, <3>2, <3>3
  <2>3. CASE Moved(u, x)
    BY <2>3 DEF Moved
  <2>4. QED
    BY <1>2, <2>1, <2>2, <2>3
<1>11. ASSUME NEW x \in N2, NEW v \in N2, ~Moved(u, x), ~Moved(u, v), u.nodes[x].id = u.nodes[v].id, u.nodes[x].id # 0
       PROVE  x = v
  <2>1. \A w \in N : ~Moved(u, w) => w # m /\ ~Moved(t, w) /\ u.nodes[w].id = t.nodes[w].id
    BY <1>4
  <2>2. CASE x \in N /\ v \in N
    BY <1>11, <2>1, <2>2 DEF Entries
  <2>3. \A w \in N : ~Moved(u, w) /\ u.nodes[w].id # 0 => u.nodes[w].id \in T /\ u.nodes[w].id # mid
    BY <1>9, <2>1
  <2>4. \A w \in NewNodes(t, u) : u.nodes[w].id # 0 => u.nodes[w].id = new \/ u.nodes[w].id = mid
    BY <1>6
  <2>5. CASE x \in NewNodes(t, u) /\ v \in NewNodes(t, u)
    BY <1>2, <1>5, <1>6, <1>11, <2>5
  <2>6. QED
    BY <1>2, <1>11, <2>2, <2>3, <2>4, <2>5
<1>12. ASSUME NEW i \in T2
       PROVE  /\ u.table[i] # 0 => u.nodes[u.table[i]].flag = "none" /\ u.nodes[u.table[i]].id = i
              /\ u.count[i] # NoEntry => u.table[i] # 0
  <2>1. CASE i \in T /\ i = mid
    <3>1. mid # 0 /\ z \in NewNodes(t, u) /\ z # q /\ z # 0
      BY <1>1, <1>2, <1>5, <2>1
    <3>2. QED
      BY <1>6, <1>7, <2>1, <3>1
  <2>2. CASE i \in T /\ i # mid
    <3>1. u.table[i] = t.table[i] /\ u.count[i] = t.count[i]
      BY <1>7, <2>2
    <3>2. t.table[i] # 0 => /\ t.table[i] \in N
                            /\ t.nodes[t.table[i]].flag = "none" /\ t.nodes[t.table[i]].id = i
      BY <1>1, <1>2, <2>2 DEF Entries
    <3>3. t.table[i] # 0 => t.table[i] # m
      <4>1. SUFFICES ASSUME t.table[i] = m, m # 0 PROVE FALSE
        OBVIOUS
      <4>2. t.nodes[m].id = i /\ m # 0
        BY <3>2, <4>1
      <4>3. QED
        BY <2>2, <4>2 DEF mid
    <3>4. t.count[i] # NoEntry => t.table[i] # 0
      BY <2>2 DEF Entries
    <3>5. QED
      BY <1>4, <3>1, <3>2, <3>3, <3>4
  <2>3. CASE i = new /\ q # 0
    <3>1. u.table[i] = q /\ q \in NewNodes(t, u)
      BY <1>8, <2>3
    <3>2. QED
      BY <1>6, <2>3, <3>1
  <2>4. QED
    BY <1>3, <2>1, <2>2, <2>3
<1>13. ASSUME NEW p \in u.pairs PROVE u.table[p[1]] # 0
  <2>1. p \in t.pairs /\ p[1] \in T /\ t.table[p[1]] # 0
    BY DEF Linked, Grows, Entries
  <2>2. CASE p[1] = mid
    BY <1>1, <1>2, <1>5, <1>7, <2>1, <2>2
  <2>3. QED
    BY <1>7, <2>1, <2>2
<1>14. QED
  BY <1>10, <1>11, <1>12, <1>13 DEF Entries
----------------------------------------------------------------------------
(* The words of a trie, by the count of their entries. *)

LEMMA TableFacts ==
    ASSUME NEW t, NEW pre, NEW at, Shape(t, pre, at), Entries(t)
    PROVE  \A i \in 1..Len(t.table) : t.table[i] # 0 =>
             /\ t.table[i] \in 1..Len(t.nodes) /\ t.nodes[t.table[i]].flag = "none"
             /\ ~Moved(t, t.table[i]) /\ t.nodes[t.table[i]].id = i
<1>1. Linked(t) /\ t \in Tries
  BY ShapeTypes
<1>2. ASSUME NEW i \in 1..Len(t.table), t.table[i] # 0
      PROVE  /\ t.table[i] \in 1..Len(t.nodes) /\ t.nodes[t.table[i]].flag = "none"
             /\ ~Moved(t, t.table[i]) /\ t.nodes[t.table[i]].id = i
  <2>1. t.table[i] \in Nat /\ t.table[i] <= Len(t.nodes) /\ Len(t.nodes) \in Nat
    BY <1>1, TypesOf DEF Linked
  <2>2. QED
    BY <1>2, <2>1 DEF Entries, Moved
<1>3. QED
  BY <1>2

LEMMA WordsCountedIs ==
    ASSUME NEW t, NEW pre, NEW at, Shape(t, pre, at), Entries(t), NEW c, c # NoEntry
    PROVE  WordsCounted(t, c) =
             {Spelled(t, pre, t.table[i]) : i \in {j \in 1..Len(t.table) : t.count[j] = c}}
<1>1. Linked(t) /\ t \in Tries
  BY ShapeTypes
<1>2. \A i \in 1..Len(t.table) : t.table[i] # 0 =>
        t.table[i] \in 1..Len(t.nodes) /\ ~Moved(t, t.table[i])
  BY TableFacts
<1>3. ASSUME NEW i \in 1..Len(t.table), t.count[i] = c
      PROVE  SpelledBy(t, t.table[i]) = Spelled(t, pre, t.table[i])
  <2>1. t.table[i] # 0
    BY <1>3 DEF Entries
  <2>2. QED
    BY <1>2, <2>1, SpelledByIs
<1>4. DOMAIN t.table = 1..Len(t.table)
  BY <1>1, TypesOf
<1>5. QED
  BY <1>3, <1>4 DEF WordsCounted

LEMMA EntryWord ==
    ASSUME NEW t, NEW pre, NEW at, Shape(t, pre, at), Entries(t)
    PROVE  \A i \in 1..Len(t.table) : t.count[i] # NoEntry =>
             SpelledBy(t, t.table[i]) = Spelled(t, pre, t.table[i])
<1> SUFFICES ASSUME NEW i \in 1..Len(t.table), t.count[i] # NoEntry
             PROVE  SpelledBy(t, t.table[i]) = Spelled(t, pre, t.table[i])
  OBVIOUS
<1>1. t.table[i] # 0
  BY DEF Entries
<1>2. t.table[i] \in 1..Len(t.nodes) /\ ~Moved(t, t.table[i])
  BY <1>1, TableFacts
<1>3. QED
  BY <1>2, SpelledByIs

\* Ids keep their words: an entry is that of a word in W, or was the word's before.
Stays(t, u, W) ==
    \A i \in 1..Len(u.table) : u.count[i] # NoEntry =>
      \/ SpelledBy(u, u.table[i]) \in W
      \/ /\ i \in 1..Len(t.table) /\ t.count[i] # NoEntry
         /\ SpelledBy(u, u.table[i]) = SpelledBy(t, t.table[i])

\* What adding a word does: the word is there, with the count 0, and the other
\* words stay what they are.
Sound(t) == \E pre, at : Shape(t, pre, at) /\ Entries(t)

Added(t, u, w) ==
    /\ Sound(u)
    /\ WordsCounted(u, 0) = WordsCounted(t, 0) \cup {w}
    /\ WordsCounted(u, 1) = WordsCounted(t, 1)
    /\ WordId(u, w) # 0
    /\ Stays(t, u, {w}) /\ u.pairs = t.pairs

LEMMA CountsGrow ==
    ASSUME NEW t, NEW pre, NEW at, Shape(t, pre, at), Entries(t),
           NEW u, NEW pre2, NEW at2, Shape(u, pre2, at2), Entries(u), Grows(t, u),
           NEW m \in Nat, NEW z, NEW q, NEW w,
           Keeps(t, pre, at, u, pre2, at2, m), Registers(t, u, m, z, q),
           m # 0 /\ t.nodes[m].id # 0 =>
             /\ Spelled(u, pre2, z) = Spelled(t, pre, m)
             /\ \/ u.count[t.nodes[m].id] = t.count[t.nodes[m].id]
                \/ /\ Spelled(t, pre, m) = w /\ t.nodes[m].flag = "deleted"
                   /\ u.count[t.nodes[m].id] = 0,
           q # 0 => Spelled(u, pre2, q) = w /\ u.count[Len(t.table) + 1] = 0,
           q = 0 => /\ m # 0 /\ t.nodes[m].id # 0 /\ Spelled(t, pre, m) = w
                    /\ u.count[t.nodes[m].id] = 0
    PROVE  Added(t, u, w)
<1> DEFINE T == 1..Len(t.table)
           T2 == 1..Len(u.table)
           N == 1..Len(t.nodes)
           new == Len(t.table) + 1
           mid == IF m = 0 THEN 0 ELSE t.nodes[m].id
           From(s, p, c) == {Spelled(s, p, s.table[i]) : i \in {j \in 1..Len(s.table) : s.count[j] = c}}
<1>1. /\ Len(t.table) \in Nat /\ t \in Tries /\ Len(t.nodes) \in Nat /\ Len(u.table) \in Nat
      /\ \A x \in N : t.nodes[x].id \in 0..Len(t.table)
  <2>1. u \in Tries /\ t \in Tries
    BY ShapeTypes
  <2>2. QED
    BY <2>1, ShapeTypes, TypesOf
<1>2. /\ T \subseteq T2 /\ \A i \in T2 : i \in T \/ (i = new /\ q # 0)
      /\ q # 0 => new \in T2 /\ u.table[new] = q /\ q \in NewNodes(t, u)
      /\ new \notin T
  <2>1. CASE q = 0 /\ Len(u.table) = Len(t.table)
    <3>1. T2 = T /\ new \notin T
      BY <1>1, <2>1
    <3>2. QED
      BY <2>1, <3>1
  <2>2. CASE q \in NewNodes(t, u) /\ Len(u.table) = Len(t.table) + 1
    <3>1. /\ T \subseteq T2 /\ \A i \in T2 : i \in T \/ i = new
          /\ new \in T2 /\ new \notin T /\ q # 0
      BY <1>1, <2>2 DEF NewNodes
    <3>2. QED
      BY <2>2, <3>1 DEF Registers
  <2>3. QED
    BY <2>1, <2>2 DEF Registers
<1>3. \A i \in T : /\ u.table[i] = IF i = mid THEN z ELSE t.table[i]
                   /\ i # mid => u.count[i] = t.count[i]
  <2>1. \A i \in T : i = mid <=> m # 0 /\ i = t.nodes[m].id
    BY <1>1
  <2>2. QED
    BY <2>1 DEF Registers
<1>4. mid # 0 => /\ m # 0 /\ m \in N /\ mid = t.nodes[m].id /\ mid \in T
  <2>1. m # 0 => m \in N
    BY DEF Registers
  <2>2. \A i \in 0..Len(t.table) : i # 0 => i \in T
    BY <1>1
  <2>3. QED
    BY <1>1, <2>1, <2>2
<1>5. mid # 0 => z \in NewNodes(t, u) /\ z # 0 /\ ~Moved(t, m)
  BY <1>1, <1>4 DEF Registers, NewNodes
<1>6. \A i \in T : t.table[i] # 0 => /\ t.table[i] \in N /\ t.nodes[t.table[i]].flag = "none"
                                    /\ ~Moved(t, t.table[i])
                                    /\ t.nodes[t.table[i]].id = i
  BY TableFacts
<1>7. \A i \in T : t.table[i] # 0 => Spelled(u, pre2, t.table[i]) = Spelled(t, pre, t.table[i])
  BY <1>6 DEF Keeps, Spelled
<1>8. mid # 0 /\ t.table[mid] # 0 => t.table[mid] = m
  <2> SUFFICES ASSUME mid # 0, t.table[mid] # 0 PROVE t.table[mid] = m
    OBVIOUS
  <2>1. mid \in T /\ m \in N /\ ~Moved(t, m) /\ t.nodes[m].id = mid
    BY <1>4, <1>5
  <2> HIDE DEF mid
  <2>2. t.table[mid] \in N /\ ~Moved(t, t.table[mid]) /\ t.nodes[t.table[mid]].id = mid
    BY <1>6, <2>1
  <2>3. QED
    BY <2>1, <2>2 DEF Entries
<1>9. mid # 0 => /\ Spelled(u, pre2, z) = Spelled(t, pre, m)
                 /\ \/ u.count[mid] = t.count[mid]
                    \/ Spelled(t, pre, m) = w /\ t.count[mid] = NoEntry /\ u.count[mid] = 0
  BY <1>4 DEF Entries
<1> HIDE DEF new, mid
<1>10. 0 # NoEntry /\ 1 # NoEntry /\ \A c : c \in {0, 1} => c # NoEntry
  BY DEF NoEntry
<1>11. \A i \in T : t.count[i] # NoEntry => t.table[i] # 0
  BY DEF Entries
<1>12. u.count[new] = 0 \/ q = 0
  BY DEF new
<1>13. q = 0 => mid # 0 /\ Spelled(t, pre, m) = w /\ u.count[mid] = 0
  BY DEF mid
<1>14. ASSUME NEW c \in {0, 1}
       PROVE  From(u, pre2, c) = From(t, pre, c) \cup (IF c = 0 THEN {w} ELSE {})
  <2>1. ASSUME NEW i \in T2, u.count[i] = c
        PROVE  Spelled(u, pre2, u.table[i]) \in From(t, pre, c) \cup (IF c = 0 THEN {w} ELSE {})
    <3>1. CASE i \in T /\ i # mid
      <4>1. u.table[i] = t.table[i] /\ t.count[i] = c /\ t.table[i] # 0
        BY <1>3, <1>10, <1>11, <2>1, <3>1
      <4>2. QED
        BY <1>7, <3>1, <4>1
    <3>2. CASE i \in T /\ i = mid
      <4>1. u.table[i] = z /\ mid # 0
        BY <1>1, <1>3, <3>2
      <4>2. CASE u.count[mid] = t.count[mid]
        <5>1. t.table[mid] = m
          BY <1>8, <1>10, <1>11, <2>1, <3>2, <4>1, <4>2
        <5>2. Spelled(t, pre, t.table[i]) \in From(t, pre, c)
          BY <2>1, <3>2, <4>2
        <5>3. QED
          BY <1>9, <3>2, <4>1, <5>1, <5>2
      <4>3. CASE Spelled(t, pre, m) = w /\ u.count[mid] = 0
        BY <1>9, <2>1, <3>2, <4>1, <4>3
      <4>4. QED
        BY <1>9, <4>1, <4>2, <4>3
    <3>3. CASE i = new /\ q # 0
      BY <1>2, <1>12, <2>1, <3>3
    <3>4. QED
      BY <1>2, <3>1, <3>2, <3>3
  <2>2. ASSUME NEW i \in T, t.count[i] = c
        PROVE  Spelled(t, pre, t.table[i]) \in From(u, pre2, c)
    <3>1. t.table[i] # 0 /\ i \in T2
      BY <1>2, <1>10, <1>11, <2>2
    <3>2. CASE i # mid
      BY <1>3, <1>7, <2>2, <3>1, <3>2
    <3>3. CASE i = mid
      <4>1. mid # 0 /\ u.table[i] = z /\ t.table[i] = m
        BY <1>1, <1>3, <1>8, <3>1, <3>3
      <4>2. u.count[i] = c
        BY <1>9, <1>10, <2>2, <3>3, <4>1
      <4>3. QED
        BY <1>9, <3>1, <4>1, <4>2
    <3>4. QED
      BY <3>2, <3>3
  <2>3. w \in From(u, pre2, 0)
    <3>1. CASE q # 0
      BY <1>2, <1>12, <3>1
    <3>2. CASE q = 0
      <4>1. mid \in T2 /\ u.table[mid] = z /\ Spelled(u, pre2, z) = w /\ u.count[mid] = 0
        BY <1>2, <1>3, <1>4, <1>9, <1>13, <3>2
      <4>2. QED
        BY <4>1
    <3>3. QED
      BY <3>1, <3>2
  <2>4. From(u, pre2, c) \subseteq From(t, pre, c) \cup (IF c = 0 THEN {w} ELSE {})
    BY <2>1
  <2>5. From(t, pre, c) \subseteq From(u, pre2, c)
    BY <2>2
  <2> HIDE DEF From
  <2>6. QED
    BY <2>3, <2>4, <2>5
<1>15. \A c \in {0, 1} : WordsCounted(u, c) = From(u, pre2, c) /\ WordsCounted(t, c) = From(t, pre, c)
  BY <1>10, WordsCountedIs
<1>16. PICK i \in T2 : u.count[i] = 0 /\ Spelled(u, pre2, u.table[i]) = w
  <2>1. w \in From(u, pre2, 0)
    <3> HIDE DEF From
    <3>1. QED
      BY <1>14
  <2>2. QED
    BY <2>1
<1>17. WordId(u, w) # 0
  <2>1. u.table[i] # 0
    BY <1>10, <1>16 DEF Entries
  <2>2. /\ u.table[i] \in 1..Len(u.nodes) /\ u.nodes[u.table[i]].flag = "none"
        /\ ~Moved(u, u.table[i]) /\ u.nodes[u.table[i]].id = i
    BY <2>1, TableFacts
  <2>3. WordId(u, w) = i
    BY <1>16, <2>2, WordIdOf
  <2>4. QED
    BY <1>1, <2>3
<1>18. Stays(t, u, {w})
  <2>1. \A j \in T2 : u.count[j] # NoEntry => SpelledBy(u, u.table[j]) = Spelled(u, pre2, u.table[j])
    BY EntryWord
  <2>2. \A j \in T : t.count[j] # NoEntry => SpelledBy(t, t.table[j]) = Spelled(t, pre, t.table[j])
    BY EntryWord
  <2>3. ASSUME NEW j \in T2, u.count[j] # NoEntry
        PROVE  \/ Spelled(u, pre2, u.table[j]) = w
               \/ /\ j \in T /\ t.count[j] # NoEntry
                  /\ Spelled(u, pre2, u.table[j]) = Spelled(t, pre, t.table[j])
    <3>1. CASE j \in T /\ j # mid
      <4>1. u.table[j] = t.table[j] /\ t.count[j] # NoEntry /\ t.table[j] # 0
        BY <1>3, <1>11, <2>3, <3>1
      <4>2. QED
        BY <1>7, <3>1, <4>1
    <3>2. CASE j \in T /\ j = mid
      <4>1. u.table[j] = z /\ mid # 0
        BY <1>1, <1>3, <3>2
      <4>2. CASE u.count[mid] = t.count[mid]
        <5>1. t.count[j] # NoEntry /\ t.table[mid] = m
          BY <1>8, <1>11, <2>3, <3>2, <4>1, <4>2
        <5>2. QED
          BY <1>9, <3>2, <4>1, <5>1
      <4>3. CASE Spelled(t, pre, m) = w /\ u.count[mid] = 0
        BY <1>9, <4>1, <4>3
      <4>4. QED
        BY <1>9, <4>1, <4>2, <4>3
    <3>3. CASE j = new /\ q # 0
      BY <1>2, <3>3
    <3>4. QED
      BY <1>2, <3>1, <3>2, <3>3
  <2>4. QED
    BY <2>1, <2>2, <2>3 DEF Stays
<1>19. u.pairs = t.pairs
  BY DEF Grows
<1>20. QED
  <2> HIDE DEF From
  <2>1. QED
    BY <1>14, <1>15, <1>17, <1>18, <1>19 DEF Added, Sound

----------------------------------------------------------------------------
(* A new node in an array of its own. *)

\* The buffers with one more array that holds one more node, that of a new word.
Extended(t, u, parent, chars) ==
    /\ u \in Tries /\ u.pairs = t.pairs
    /\ u.nodes = Append(t.nodes, NodeOf(chars, parent, Len(t.table) + 1, 0))
    /\ NodeOf(chars, parent, Len(t.table) + 1, 0) \in Nodes
    /\ Len(u.nodes) = Len(t.nodes) + 1
    /\ \A x \in 1..Len(t.nodes) : u.nodes[x] = t.nodes[x]
    /\ u.nodes[Len(t.nodes) + 1] = NodeOf(chars, parent, Len(t.table) + 1, 0)
    /\ Len(u.arrays) = Len(t.arrays) + 1
    /\ \A a \in 1..Len(t.arrays) : u.arrays[a] = t.arrays[a]
    /\ u.arrays[Len(t.arrays) + 1] = [members |-> <<Len(t.nodes) + 1>>, next |-> 0]
    /\ Len(u.table) = Len(t.table) + 1 /\ Len(u.count) = Len(u.table)
    /\ \A i \in 1..Len(t.table) : u.table[i] = t.table[i] /\ u.count[i] = t.count[i]
    /\ u.table[Len(t.table) + 1] = Len(t.nodes) + 1 /\ u.count[Len(t.table) + 1] = 0

LEMMA AddChildArrayIs ==
    ASSUME NEW t \in Tries, Len(t.count) = Len(t.table), NEW parent \in Nat,
           NEW chars \in Seq(Nat), chars # << >>
    PROVE  Extended(t, AddChildArray(t, parent, chars), parent, chars)
<1> DEFINE A == [members |-> <<NextNode(t)>>, next |-> 0]
           v == AddArray(t, <<NextNode(t)>>)
           u == AddChildArray(t, parent, chars)
           new == Len(t.table) + 1
<1>1. /\ t.nodes \in Seq(Nodes) /\ t.arrays \in Seq(Arrays) /\ t.table \in Seq(Nat)
      /\ t.count \in Seq(0..NoEntry) /\ t.pairs \in SUBSET (Nat \X Nat)
      /\ t = [nodes |-> t.nodes, arrays |-> t.arrays, table |-> t.table, count |-> t.count, pairs |-> t.pairs]
      /\ Len(t.table) \in Nat /\ NextNode(t) = Len(t.nodes) + 1 /\ NextNode(t) \in Nat
      /\ Len(t.nodes) \in Nat /\ Len(t.arrays) \in Nat
  BY DEF Tries, NextNode
<1>2. A \in Arrays
  BY <1>1 DEF Arrays
<1>3. v = [t EXCEPT !.arrays = Append(@, A)]
  BY DEF AddArray
<1> HIDE DEF A, v
<1>4. /\ Append(t.arrays, A) \in Seq(Arrays) /\ Len(Append(t.arrays, A)) = Len(t.arrays) + 1
      /\ \A i \in 1..Len(t.arrays) : Append(t.arrays, A)[i] = t.arrays[i]
      /\ Append(t.arrays, A)[Len(t.arrays) + 1] = A
  BY <1>1, <1>2, AppendFacts
<1>5. /\ v.nodes = t.nodes /\ v.arrays = Append(t.arrays, A) /\ v.table = t.table
      /\ v.count = t.count /\ v.pairs = t.pairs /\ v \in Tries
  <2>1. v = [nodes |-> t.nodes, arrays |-> Append(t.arrays, A), table |-> t.table,
             count |-> t.count, pairs |-> t.pairs]
    BY <1>1, <1>3
  <2>2. QED
    BY <1>1, <1>4, <2>1 DEF Tries
<1>6. WroteTerminal(v, u, chars, parent, new, 0)
  <2>1. IdFor(v, 0, TRUE) = new
    BY <1>5 DEF IdFor
  <2>2. 0 \in 0..Len(v.table)
    BY <1>1, <1>5
  <2>3. u = WriteNewTerminal(v, chars, parent, 0, 0)
    BY DEF AddChildArray, v
  <2> HIDE DEF u
  <2>4. WroteTerminal(v, u, chars, parent, IdFor(v, 0, TRUE), 0)
    BY <1>5, <2>2, <2>3, WriteNewTerminalIs
  <2> HIDE DEF new
  <2>5. QED
    BY <2>1, <2>4, Zenon
<1> DEFINE R == NodeOf(chars, parent, new, 0)
<1>7. /\ u \in Tries /\ u.arrays = Append(t.arrays, A) /\ u.pairs = t.pairs
      /\ u.nodes = Append(t.nodes, R) /\ R \in Nodes
      /\ Len(u.table) = new /\ Len(u.count) = Len(u.table)
      /\ \A i \in 1..Len(u.table) :
           /\ u.table[i] = IF i = new THEN NextNode(t) ELSE t.table[i]
           /\ u.count[i] = IF i = new THEN 0 ELSE t.count[i]
  <2>1. NextNode(v) = NextNode(t)
    BY <1>5 DEF NextNode
  <2> HIDE DEF u, R
  <2>2. QED
    BY <1>5, <1>6, <2>1 DEF WroteTerminal, R
<1> HIDE DEF R, u
<1>8. /\ Len(u.nodes) = Len(t.nodes) + 1
      /\ \A i \in 1..Len(t.nodes) : u.nodes[i] = t.nodes[i]
      /\ u.nodes[Len(t.nodes) + 1] = R
  BY <1>1, <1>7, AppendFacts
<1>9. \A i \in 1..Len(t.table) : i \in 1..Len(u.table) /\ i # new
  BY <1>1, <1>7, SMTT(20)
<1>10. new \in 1..Len(u.table)
  BY <1>1, <1>7
<1>11. QED
  BY <1>1, <1>4, <1>7, <1>8, <1>9, <1>10 DEF Extended, u, R, A
\* The node is all that an insertion adds: g are the letters before it.
Leafed(t, pre, at, u, g, parent, chars) ==
    /\ u \in Tries /\ u.pairs = t.pairs
    /\ Len(u.nodes) = Len(t.nodes) + 1
    /\ \A x \in 1..Len(t.nodes) :
         /\ u.nodes[x].chars = t.nodes[x].chars /\ u.nodes[x].parent = t.nodes[x].parent
         /\ u.nodes[x].id = t.nodes[x].id /\ u.nodes[x].flag = t.nodes[x].flag
         /\ \/ u.nodes[x].kids = t.nodes[x].kids
            \/ /\ t.nodes[x].kids = 0 /\ u.nodes[x].kids = Len(t.arrays) + 1
               /\ Spelled(t, pre, x) = g
               /\ \A a \in 1..Len(t.arrays) : at[a] # g
    /\ u.nodes[Len(t.nodes) + 1] = NodeOf(chars, parent, Len(t.table) + 1, 0)
    /\ Len(u.arrays) = Len(t.arrays) + 1
    /\ \A a \in 1..Len(t.arrays) :
         /\ u.arrays[a].members = t.arrays[a].members
         /\ \/ /\ u.arrays[a].next = t.arrays[a].next
               /\ t.arrays[a].next = 0 => at[a] # g
            \/ t.arrays[a].next = 0 /\ u.arrays[a].next = Len(t.arrays) + 1 /\ at[a] = g
    /\ u.arrays[Len(t.arrays) + 1] = [members |-> <<Len(t.nodes) + 1>>, next |-> 0]
    /\ Len(u.table) = Len(t.table) + 1 /\ Len(u.count) = Len(u.table)
    /\ \A i \in 1..Len(t.table) : u.table[i] = t.table[i] /\ u.count[i] = t.count[i]
    /\ u.table[Len(t.table) + 1] = Len(t.nodes) + 1 /\ u.count[Len(t.table) + 1] = 0
    /\ parent = 0 => g = << >>
    /\ parent # 0 => /\ parent \in 1..Len(t.nodes) /\ ~Moved(t, parent)
                     /\ u.nodes[parent].kids # 0 /\ Spelled(t, pre, parent) = g
    /\ \A x \in 1..Len(t.nodes) : ~Moved(t, x) /\ pre[x] = g => Letter(t, x) # chars[1]

LEMMA LeafedAdded ==
    ASSUME NEW t, NEW pre, NEW at, Shape(t, pre, at), Entries(t),
           NEW u, NEW g \in Seq(Nat), NEW parent \in Nat, NEW chars \in Seq(Nat), chars # << >>,
           Leafed(t, pre, at, u, g, parent, chars)
    PROVE  Added(t, u, g \o chars)
<1> DEFINE n == Len(t.nodes) + 1
           a0 == Len(t.arrays) + 1
           new == Len(t.table) + 1
           N == 1..Len(t.nodes)
           A == 1..Len(t.arrays)
           N2 == 1..Len(u.nodes)
           A2 == 1..Len(u.arrays)
           pre2 == [x \in N2 |-> IF x = n THEN g ELSE pre[x]]
           at2 == [a \in A2 |-> IF a = a0 THEN g ELSE at[a]]
<1>1. /\ Linked(t) /\ t \in Tries /\ Len(t.nodes) \in Nat /\ Len(t.arrays) \in Nat \ {0}
      /\ Len(t.table) \in Nat /\ u \in Tries
  BY ShapeTypes, TypesOf DEF Leafed
<1>2. Len(u.nodes) = n /\ Len(u.arrays) = a0 /\ Len(u.table) = new
  BY DEF Leafed
<1>3. /\ \A x \in N2 : x \in N \/ x = n
      /\ \A x \in N : x \in N2 /\ x # n
      /\ n \in N2 /\ n \notin N /\ n # 0
      /\ \A a \in A2 : a \in A \/ a = a0
      /\ \A a \in A : a \in A2 /\ a # a0 /\ a < a0
      /\ a0 \in A2 /\ a0 \notin A /\ a0 # 0
      /\ NewNodes(t, u) = {n} /\ NewArrays(t, u) = {a0}
  <2>0. \A k \in Nat :
          /\ \A x \in 1..(k + 1) : x \in 1..k \/ x = k + 1
          /\ \A x \in 1..k : x \in 1..(k + 1) /\ x # k + 1 /\ x < k + 1
          /\ k + 1 \in 1..(k + 1) /\ k + 1 \notin 1..k /\ k + 1 # 0 /\ k + 1 \in Nat
    OBVIOUS
  <2>1. /\ \A x \in N2 : x \in N \/ x = n
        /\ \A x \in N : x \in N2 /\ x # n
        /\ n \in N2 /\ n \notin N /\ n # 0 /\ n \in Nat
    BY <1>1, <1>2, <2>0
  <2>2. /\ \A a \in A2 : a \in A \/ a = a0
        /\ \A a \in A : a \in A2 /\ a # a0 /\ a < a0
        /\ a0 \in A2 /\ a0 \notin A /\ a0 # 0 /\ a0 \in Nat
    BY <1>1, <1>2, <2>0
  <2>3. \A x \in Nat : x..x = {x}
    OBVIOUS
  <2>4. NewNodes(t, u) = n..n /\ NewArrays(t, u) = a0..a0
    BY <1>2 DEF NewNodes, NewArrays
  <2> HIDE DEF n, a0
  <2>5. QED
    BY <2>1, <2>2, <2>3, <2>4
<1>4. /\ \A x \in N : /\ u.nodes[x].chars = t.nodes[x].chars /\ u.nodes[x].parent = t.nodes[x].parent
                      /\ u.nodes[x].id = t.nodes[x].id /\ u.nodes[x].flag = t.nodes[x].flag
                      /\ \/ u.nodes[x].kids = t.nodes[x].kids
                         \/ /\ t.nodes[x].kids = 0 /\ u.nodes[x].kids = a0
                            /\ Spelled(t, pre, x) = g
                            /\ \A a \in A : at[a] # g
      /\ u.nodes[n].chars = chars /\ u.nodes[n].parent = parent /\ u.nodes[n].id = new
      /\ u.nodes[n].kids = 0 /\ u.nodes[n].flag = "none"
  BY DEF Leafed, NodeOf
<1>5. /\ \A a \in A : /\ u.arrays[a].members = t.arrays[a].members
                      /\ \/ /\ u.arrays[a].next = t.arrays[a].next
                            /\ t.arrays[a].next = 0 => at[a] # g
                         \/ t.arrays[a].next = 0 /\ u.arrays[a].next = a0 /\ at[a] = g
      /\ u.arrays[a0].members = <<n>> /\ u.arrays[a0].next = 0
  <2>1. u.arrays[a0] = [members |-> <<n>>, next |-> 0]
    BY DEF Leafed
  <2>2. \A a \in A : /\ u.arrays[a].members = t.arrays[a].members
                      /\ \/ /\ u.arrays[a].next = t.arrays[a].next
                            /\ t.arrays[a].next = 0 => at[a] # g
                         \/ t.arrays[a].next = 0 /\ u.arrays[a].next = a0 /\ at[a] = g
    BY DEF Leafed
  <2> HIDE DEF n, a0
  <2>3. QED
    BY <2>1, <2>2
<1>6. /\ \A i \in 1..Len(t.table) : u.table[i] = t.table[i] /\ u.count[i] = t.count[i]
      /\ u.table[new] = n /\ u.count[new] = 0 /\ Len(u.count) = Len(u.table) /\ u.pairs = t.pairs
  BY DEF Leafed
<1>7. /\ parent = 0 => g = << >>
      /\ parent # 0 => /\ parent \in N /\ ~Moved(t, parent)
                       /\ u.nodes[parent].kids # 0 /\ Spelled(t, pre, parent) = g
      /\ \A x \in N : ~Moved(t, x) /\ pre[x] = g => Letter(t, x) # chars[1]
  BY DEF Leafed
<1> HIDE DEF n, a0, new
<1>8. /\ \A x \in N : pre2[x] = pre[x] /\ Spelled(u, pre2, x) = Spelled(t, pre, x)
                      /\ Letter(u, x) = Letter(t, x) /\ (Moved(u, x) <=> Moved(t, x))
      /\ \A x \in N : pre[x] \in Seq(Nat)
      /\ pre2[n] = g /\ Spelled(u, pre2, n) = g \o chars /\ Letter(u, n) = chars[1] /\ ~Moved(u, n)
      /\ \A a \in A : at2[a] = at[a]
      /\ \A a \in A : at[a] \in Seq(Nat)
      /\ at2[a0] = g
      /\ pre2 \in [N2 -> Seq(Nat)] /\ at2 \in [A2 -> Seq(Nat)]
  <2>1. /\ \A x \in N : pre[x] \in Seq(Nat)
        /\ \A a \in A : at[a] \in Seq(Nat)
    BY ShapeTypes
  <2>2. QED
    BY <1>3, <1>4, <2>1 DEF Spelled, Letter, Moved
<1> HIDE DEF pre2, at2
<1>9. Grows(t, u)
  <2>1. \A x \in N : \/ u.nodes[x].parent = t.nodes[x].parent /\ (Moved(u, x) => Moved(t, x))
                     \/ u.nodes[x].parent \in NewNodes(t, u)
    BY <1>4, <1>8
  <2>2. parent <= Len(u.nodes) /\ 0 <= Len(u.arrays) /\ new <= Len(u.table) /\ n <= Len(u.nodes)
    <3>1. parent = 0 \/ parent \in N
      BY <1>7
    <3>2. QED
      BY <1>1, <1>2, <3>1 DEF n, new, a0
  <2>3. Len(t.nodes) <= Len(u.nodes) /\ Len(t.arrays) <= Len(u.arrays) /\ Len(t.table) <= Len(u.table)
    BY <1>1, <1>2, SMTT(20) DEF n, new, a0
  <2>4. \A i \in 1..Len(u.table) :
          (i \in 1..Len(t.table) /\ u.table[i] = t.table[i]) \/ u.table[i] <= Len(u.nodes)
    <3>1. \A i \in 1..Len(u.table) : i \in 1..Len(t.table) \/ i = new
      BY <1>1, <1>2 DEF new
    <3>2. QED
      BY <1>6, <2>2, <3>1
  <2>5. \A i \in 1..Len(u.arrays[a0].members) : u.arrays[a0].members[i] \in N2
    BY <1>3, <1>5
  <2>6. \A x \in N : /\ u.nodes[x].kids = t.nodes[x].kids \/ u.nodes[x].kids \in NewArrays(t, u)
                     /\ u.nodes[x].id = t.nodes[x].id
    BY <1>3, <1>4
  <2>7. \A x \in NewNodes(t, u) :
          /\ u.nodes[x].flag = "none"
          /\ u.nodes[x].parent <= Len(u.nodes) /\ u.nodes[x].kids <= Len(u.arrays)
          /\ u.nodes[x].id <= Len(u.table)
    BY <1>3, <1>4, <2>2
  <2>8. /\ \A a \in A :
             /\ u.arrays[a].members = t.arrays[a].members
             /\ u.arrays[a].next = t.arrays[a].next \/ u.arrays[a].next \in NewArrays(t, u)
        /\ \A a \in NewArrays(t, u) :
             /\ \A i \in 1..Len(u.arrays[a].members) : u.arrays[a].members[i] \in N2
             /\ u.arrays[a].next = 0
    BY <1>3, <1>5, <2>5
  <2>9. QED
    <3>1. u \in Tries /\ Len(u.count) = Len(u.table) /\ u.pairs = t.pairs
      BY <1>1, <1>6
    <3>2. QED
      BY <2>1, <2>3, <2>4, <2>6, <2>7, <2>8, <3>1 DEF Grows
<1>10. Keeps(t, pre, at, u, pre2, at2, 0)
  <2>1. Linked(u)
    BY <1>1, <1>9, GrowsLinked
  <2>2. Len(t.nodes) <= Len(u.nodes) /\ Len(t.arrays) <= Len(u.arrays)
    BY <1>9 DEF Grows
  <2>3. \A x \in N : x # 0
    BY <1>1
  <2>4. QED
    BY <1>3, <1>4, <1>5, <1>8, <2>1, <2>2, <2>3 DEF Keeps
<1>11. Moves(t, pre, u, pre2, 0, 0)
  BY <1>4 DEF Moves
<1>12. Chained(u, at2)
  <2>0. Chained(t, at)
    BY DEF Shape, Laid
  <2>1. ASSUME NEW a \in A2
        PROVE  /\ u.arrays[a].next = 0 => \A b \in A2 : at2[b] = at2[a] => b <= a
               /\ u.arrays[a].next # 0 =>
                    /\ at2[u.arrays[a].next] = at2[a]
                    /\ \A b \in A2 : a < b /\ at2[b] = at2[a] => u.arrays[a].next <= b
    <3>1. CASE a = a0
      <4>1. \A b \in A2 : b <= a0
        BY <1>1, <1>2 DEF a0
      <4>2. QED
        BY <1>5, <3>1, <4>1
    <3>2. CASE a \in A /\ u.arrays[a].next = a0 /\ at[a] = g /\ t.arrays[a].next = 0
      <4>1. \A b \in A : at[b] = at[a] => b <= a
        BY <2>0, <3>2 DEF Chained
      <4>2. \A b \in A2 : a < b /\ at2[b] = at2[a] => b = a0
        <5>1. \A b \in A : ~(b <= a /\ a < b)
          BY <1>1
        <5>2. QED
          BY <1>3, <1>8, <3>2, <4>1, <5>1
      <4>3. a0 <= a0
        BY <1>1 DEF a0
      <4>4. QED
        BY <1>3, <1>8, <3>2, <4>2, <4>3
    <3>3. CASE a \in A /\ u.arrays[a].next = t.arrays[a].next /\ (t.arrays[a].next = 0 => at[a] # g)
      <4>1. CASE t.arrays[a].next = 0
        BY <1>3, <1>8, <2>0, <3>3, <4>1 DEF Chained
      <4>2. CASE t.arrays[a].next # 0
        <5>1. t.arrays[a].next \in A
          BY <1>1, <3>3, <4>2, TypesOf DEF Linked
        <5>2. at[t.arrays[a].next] = at[a] /\ \A b \in A : a < b /\ at[b] = at[a] => t.arrays[a].next <= b
          BY <2>0, <3>3, <4>2 DEF Chained
        <5>3. t.arrays[a].next <= a0
          BY <1>1, <5>1 DEF a0
        <5>4. QED
          BY <1>3, <1>8, <3>3, <4>2, <5>1, <5>2, <5>3
      <4>3. QED
        BY <4>1, <4>2
    <3>4. QED
      BY <1>3, <1>5, <3>1, <3>2, <3>3
  <2>2. QED
    BY <2>1 DEF Chained
<1>13. parent # 0 => /\ parent \in N /\ ~Moved(u, parent) /\ u.nodes[parent].kids # 0
                     /\ Spelled(u, pre2, parent) = g
  BY <1>7, <1>8
<1>14. Fits(t, u, pre2, at2, 0)
  <2>1. /\ \A i \in 1..Len(u.arrays[a0].members) : pre2[u.arrays[a0].members[i]] = at2[a0]
        /\ Member(u, a0, n)
    BY <1>5, <1>8 DEF Member
  <2>2. at2[a0] # << >> =>
          \E x \in N2 : ~Moved(u, x) /\ u.nodes[x].kids # 0 /\ Spelled(u, pre2, x) = at2[a0]
    BY <1>3, <1>7, <1>8, <1>13
  <2>3. /\ ~Moved(u, n) /\ \E a \in A2 : Member(u, a, n)
        /\ u.nodes[n].parent = 0 => pre2[n] = << >>
        /\ u.nodes[n].parent # 0 =>
             /\ ~Moved(u, u.nodes[n].parent) /\ u.nodes[u.nodes[n].parent].kids # 0
             /\ pre2[n] = Spelled(u, pre2, u.nodes[n].parent)
    BY <1>3, <1>4, <1>7, <1>8, <1>13, <2>1
  <2>4. \A z \in N2 : ~Moved(u, z) /\ pre2[z] = pre2[n] /\ Letter(u, z) = Letter(u, n) => z = n
    <3>1. ASSUME NEW z \in N, ~Moved(u, z), pre2[z] = g, Letter(u, z) = chars[1] PROVE FALSE
      BY <1>7, <1>8, <3>1
    <3>2. QED
      BY <1>3, <1>8, <3>1
  <2>5. ASSUME NEW x \in N2, u.nodes[x].kids # 0, x \in N => u.nodes[x].kids # t.nodes[x].kids
        PROVE  at2[u.nodes[x].kids] = Spelled(u, pre2, x) /\ First(u, at2, u.nodes[x].kids)
    <3>1. x \in N /\ u.nodes[x].kids = a0 /\ Spelled(t, pre, x) = g /\ \A a \in A : at[a] # g
      BY <1>3, <1>4, <2>5
    <3>2. \A b \in A2 : at2[b] = g => a0 <= b
      <4>1. a0 <= a0
        BY <1>1 DEF a0
      <4>2. QED
        BY <1>3, <1>8, <3>1, <4>1
    <3>3. QED
      BY <1>8, <3>1, <3>2 DEF First
  <2>6. QED
    BY <1>3, <1>12, <2>1, <2>2, <2>3, <2>4, <2>5 DEF Fits
<1>15. Shape(u, pre2, at2)
  BY <1>10, <1>11, <1>14, Growth
<1>16. Registers(t, u, 0, 0, n)
  <2>1. n \in NewNodes(t, u) /\ \A x \in NewNodes(t, u) : x = n
    BY <1>3
  <2>2. Len(u.table) = Len(t.table) + 1
    BY <1>2 DEF new
  <2>3. \A x \in N : u.nodes[x].id = t.nodes[x].id /\ u.nodes[x].flag = t.nodes[x].flag
    BY <1>4
  <2>4. u.nodes[n].flag = "none" /\ u.nodes[n].id = Len(t.table) + 1
    BY <1>4 DEF new
  <2>5. u.table[Len(t.table) + 1] = n
    BY <1>6 DEF new
  <2>6. QED
    BY <1>6, <2>1, <2>2, <2>3, <2>4, <2>5 DEF Registers
<1>17. Entries(u)
  BY <1>1, <1>9, <1>16, EntriesGrow
<1>18. u.count[Len(t.table) + 1] = 0
  BY <1>6 DEF new
<1>19. QED
  BY <1>3, <1>8, <1>9, <1>10, <1>15, <1>16, <1>17, <1>18, CountsGrow
LEMMA SequenceFrom ==
    ASSUME NEW S, NEW n \in Nat, NEW s \in [1..n -> S]
    PROVE  s \in Seq(S) /\ Len(s) = n
OBVIOUS

\* The buffers with other arrays, and with other nodes.
LEMMA WithArrays ==
    ASSUME NEW t \in Tries, NEW s \in Seq(Arrays)
    PROVE  LET u == [t EXCEPT !.arrays = s]
           IN  /\ u \in Tries /\ u.arrays = s /\ u.nodes = t.nodes /\ u.table = t.table
               /\ u.count = t.count /\ u.pairs = t.pairs
<1> DEFINE u == [t EXCEPT !.arrays = s]
<1>0. t = [nodes |-> t.nodes, arrays |-> t.arrays, table |-> t.table, count |-> t.count, pairs |-> t.pairs]
  BY DEF Tries
<1>1. u = [nodes |-> t.nodes, arrays |-> s, table |-> t.table, count |-> t.count, pairs |-> t.pairs]
  BY <1>0
<1> HIDE DEF u
<1>2. /\ u.arrays = s /\ u.nodes = t.nodes /\ u.table = t.table
      /\ u.count = t.count /\ u.pairs = t.pairs
  BY <1>1
<1>3. u \in Tries
  BY <1>1 DEF Tries
<1>4. QED
  BY <1>2, <1>3 DEF u

LEMMA WithNodes ==
    ASSUME NEW t \in Tries, NEW s \in Seq(Nodes)
    PROVE  LET u == [t EXCEPT !.nodes = s]
           IN  /\ u \in Tries /\ u.nodes = s /\ u.arrays = t.arrays /\ u.table = t.table
               /\ u.count = t.count /\ u.pairs = t.pairs
<1> DEFINE u == [t EXCEPT !.nodes = s]
<1>0. t = [nodes |-> t.nodes, arrays |-> t.arrays, table |-> t.table, count |-> t.count, pairs |-> t.pairs]
  BY DEF Tries
<1>1. u = [nodes |-> s, arrays |-> t.arrays, table |-> t.table, count |-> t.count, pairs |-> t.pairs]
  BY <1>0
<1> HIDE DEF u
<1>2. /\ u.nodes = s /\ u.arrays = t.arrays /\ u.table = t.table
      /\ u.count = t.count /\ u.pairs = t.pairs
  BY <1>1
<1>3. u \in Tries
  BY <1>1 DEF Tries
<1>4. QED
  BY <1>2, <1>3 DEF u

\* The arrays with another forward link, the nodes with another link to children.
WithNext(s, i, c) == [s EXCEPT ![i].next = c]
WithKids(s, i, c) == [s EXCEPT ![i].kids = c]

LEMMA NextSet ==
    ASSUME NEW s \in Seq(Arrays), NEW i \in 1..Len(s), NEW c \in Nat
    PROVE  LET v == WithNext(s, i, c)
           IN  /\ v \in Seq(Arrays) /\ Len(v) = Len(s)
               /\ \A a \in 1..Len(s) : /\ v[a].members = s[a].members
                                       /\ v[a].next = IF a = i THEN c ELSE s[a].next
<1> DEFINE v == [s EXCEPT ![i].next = c]
<1>1. Len(s) \in Nat /\ DOMAIN s = 1..Len(s)
  OBVIOUS
<1>2. ASSUME NEW a \in 1..Len(s)
      PROVE  /\ v[a] \in Arrays /\ v[a].members = s[a].members
             /\ v[a].next = IF a = i THEN c ELSE s[a].next
  <2>1. s[a] \in Arrays
    OBVIOUS
  <2>2. v[a] = IF a = i THEN [s[a] EXCEPT !.next = c] ELSE s[a]
    BY <1>1
  <2> HIDE DEF v
  <2>3. [s[a] EXCEPT !.next = c] = [members |-> s[a].members, next |-> c]
    <3>1. s[a] = [members |-> s[a].members, next |-> s[a].next]
      BY <2>1 DEF Arrays
    <3>2. \A r, m, x : r = [members |-> m, next |-> x] =>
                         [r EXCEPT !.next = c] = [members |-> m, next |-> c]
      OBVIOUS
    <3>3. QED
      BY <3>1, <3>2
  <2>4. QED
    BY <2>1, <2>2, <2>3 DEF Arrays
<1>3. v = [a \in 1..Len(s) |-> v[a]]
  BY <1>1
<1> HIDE DEF v
<1>4. v \in [1..Len(s) -> Arrays]
  BY <1>2, <1>3
<1>5. v \in Seq(Arrays) /\ Len(v) = Len(s)
  BY <1>1, <1>4, SequenceFrom
<1>6. QED
  BY <1>2, <1>5 DEF v, WithNext

LEMMA KidsSet ==
    ASSUME NEW s \in Seq(Nodes), NEW i \in 1..Len(s), NEW c \in Nat
    PROVE  LET v == WithKids(s, i, c)
           IN  /\ v \in Seq(Nodes) /\ Len(v) = Len(s)
               /\ \A x \in 1..Len(s) :
                    /\ v[x].chars = s[x].chars /\ v[x].parent = s[x].parent
                    /\ v[x].id = s[x].id /\ v[x].flag = s[x].flag
                    /\ v[x].kids = IF x = i THEN c ELSE s[x].kids
<1> DEFINE v == [s EXCEPT ![i].kids = c]
<1>1. Len(s) \in Nat /\ DOMAIN s = 1..Len(s)
  OBVIOUS
<1>2. ASSUME NEW x \in 1..Len(s)
      PROVE  /\ v[x] \in Nodes /\ v[x].chars = s[x].chars /\ v[x].parent = s[x].parent
             /\ v[x].id = s[x].id /\ v[x].flag = s[x].flag
             /\ v[x].kids = IF x = i THEN c ELSE s[x].kids
  <2>1. s[x] \in Nodes
    OBVIOUS
  <2>2. v[x] = IF x = i THEN [s[x] EXCEPT !.kids = c] ELSE s[x]
    BY <1>1
  <2> HIDE DEF v
  <2>3. [s[x] EXCEPT !.kids = c] =
          [chars |-> s[x].chars, parent |-> s[x].parent, id |-> s[x].id, kids |-> c, flag |-> s[x].flag]
    <3>1. s[x] = [chars |-> s[x].chars, parent |-> s[x].parent, id |-> s[x].id,
                  kids |-> s[x].kids, flag |-> s[x].flag]
      BY <2>1 DEF Nodes
    <3>2. QED
      BY <3>1
  <2>4. QED
    BY <2>1, <2>2, <2>3 DEF Nodes
<1>3. v = [x \in 1..Len(s) |-> v[x]]
  BY <1>1
<1> HIDE DEF v
<1>4. v \in [1..Len(s) -> Nodes]
  BY <1>2, <1>3
<1>5. v \in Seq(Nodes) /\ Len(v) = Len(s)
  BY <1>1, <1>4, SequenceFrom
<1>6. QED
  BY <1>2, <1>5 DEF v, WithKids

----------------------------------------------------------------------------
(* A word that ends, or leaves the trie, where there is no node. *)

\* The last array of a chain has no link, and stands for the same letters.
LEMMA LastArrayIs ==
    ASSUME NEW t, NEW pre, NEW at, Laid(t, pre, at)
    PROVE  \A a \in 1..Len(t.arrays) :
             /\ LastArray(t, a) \in 1..Len(t.arrays)
             /\ t.arrays[LastArray(t, a)].next = 0
             /\ at[LastArray(t, a)] = at[a]
<1> DEFINE S == 1..Len(t.arrays)
           rank == [i \in S |-> Len(t.arrays) - i]
           f == CHOOSE g : g = [x \in S |-> LastAt(g, x, t)]
           P == {a \in S : /\ f[a] \in S /\ t.arrays[f[a]].next = 0
                           /\ at[f[a]] = at[a]}
<1>1. /\ t \in Tries /\ Len(t.arrays) \in Nat
      /\ \A a \in S : t.arrays[a].next \in Nat
      /\ \A a \in S : t.arrays[a].next # 0 => t.arrays[a].next > a
      /\ \A a \in S : t.arrays[a].next <= Len(t.arrays)
  BY TypesOf DEF Laid, Linked
<1>2. rank \in [S -> Nat]
  BY <1>1
<1>3. ASSUME NEW i \in S, t.arrays[i].next # 0
      PROVE  t.arrays[i].next \in S /\ rank[t.arrays[i].next] < rank[i]
  BY <1>1, <1>3
<1> HIDE DEF rank
<1>4. Values!Grounded(S, rank, t, 0, "last")
  BY <1>3 DEF Values!Grounded, ValueAt, LastAt
<1>5. f = [x \in S |-> LastAt(f, x, t)]
  <2> HIDE DEF S
  <2> DEFINE h == Values!Recursion(S, t, 0, "last")
  <2>1. h = [x \in S |-> ValueAt(h, x, t, 0, "last")]
    BY <1>2, <1>4, Values!RecursionUnfolds
  <2> HIDE DEF h
  <2>2. h = [x \in S |-> LastAt(h, x, t)]
    BY <2>1 DEF ValueAt
  <2>3. QED
    BY <2>2
<1>6. \A a : LastArray(t, a) = f[a]
  BY DEF LastArray, LastAt
<1> HIDE DEF f
<1>7. ASSUME NEW i \in S, \A y \in S : rank[y] < rank[i] => y \in P PROVE i \in P
  <2>1. f[i] = LastAt(f, i, t)
    BY <1>5
  <2>2. CASE t.arrays[i].next = 0
    BY <2>1, <2>2 DEF LastAt
  <2>3. CASE t.arrays[i].next # 0
    <3>1. t.arrays[i].next \in P
      BY <1>3, <1>7, <2>3
    <3>2. at[t.arrays[i].next] = at[i]
      BY <2>3 DEF Laid, Chained
    <3>3. f[i] = f[t.arrays[i].next]
      BY <2>1, <2>3 DEF LastAt
    <3>4. QED
      BY <3>1, <3>2, <3>3
  <2>4. QED
    BY <2>2, <2>3
<1>8. S \subseteq P
  <2> HIDE DEF S, P
  <2>1. QED
    BY <1>2, <1>7, Values!RankInduction
<1>9. QED
  BY <1>6, <1>8

\* The rest of a word becomes a node in a new array at the end of a chain.
LEMMA AppendSiblingAdds ==
    ASSUME NEW t, NEW pre, NEW at, Shape(t, pre, at), Entries(t),
           NEW w \in Seq(Nat), w # << >>, NEW p, Reading(t, at, w, p),
           Ends(t, pre, w, p, Walk(t, w))
    PROVE  Added(t, AppendSibling(t, p.array, p.node, SubSeq(w, p.k + 1, Len(w))), w)
<1> DEFINE chars == SubSeq(w, p.k + 1, Len(w))
           last == LastArray(t, p.array)
           v == [t EXCEPT !.arrays[last].next = NextArray(t)]
           u == AddChildArray(v, p.node, chars)
           g == Upto(w, p.k)
           A == 1..Len(t.arrays)
           N == 1..Len(t.nodes)
<1>1. /\ Linked(t) /\ t \in Tries /\ Len(t.nodes) \in Nat /\ Len(t.arrays) \in Nat \ {0}
      /\ Len(t.table) \in Nat /\ Len(t.count) = Len(t.table)
      /\ p.array \in A /\ p.k \in 0..Len(w) /\ p.k < Len(w) /\ p.node \in 0..Len(t.nodes)
      /\ at[p.array] = g /\ Len(w) \in Nat
  <2>1. /\ Linked(t) /\ t \in Tries /\ Len(t.nodes) \in Nat /\ Len(t.arrays) \in Nat \ {0}
    BY ShapeTypes
  <2>2. Len(t.table) \in Nat /\ Len(t.count) = Len(t.table)
    BY <2>1, TypesOf DEF Linked
  <2>3. p.array \in A /\ p.k \in 0..Len(w) /\ p.k < Len(w) /\ p.node \in 0..Len(t.nodes) /\ at[p.array] = g
    BY DEF Reading, Places
  <2>4. QED
    BY <2>1, <2>2, <2>3
<1>2. /\ chars \in Seq(Nat) /\ Len(chars) = Len(w) - p.k /\ g \o chars = w /\ g \in Seq(Nat)
  BY <1>1, UptoAndRest, UptoFacts
<1>3. chars # << >> /\ chars[1] = w[p.k + 1]
  <2> DEFINE k == p.k + 1
  <2>1. k \in 1..Len(w) /\ Len(w) - p.k # 0
    BY <1>1, SMTT(20)
  <2>2. \A i \in 1..Len(w) : SubSeq(w, i, Len(w))[1] = w[i]
    BY <1>1
  <2>3. SubSeq(w, k, Len(w))[1] = w[k]
    <3> HIDE DEF k
    <3>1. QED
      BY <2>1, <2>2
  <2>4. Len(chars) # 0
    <3> HIDE DEF chars
    <3>1. QED
      BY <1>2, <2>1
  <2>5. chars # << >>
    <3> HIDE DEF chars
    <3>1. QED
      BY <2>4
  <2>6. QED
    BY <2>3, <2>5
<1>4. last \in A /\ t.arrays[last].next = 0 /\ at[last] = g
  BY <1>1, LastArrayIs, SMTT(20) DEF Shape
<1>5. ASSUME NEW a \in A, t.arrays[a].next = 0, at[a] = g
      PROVE  a = last
  <2>1. last <= a /\ a <= last
    BY <1>4, <1>5 DEF Shape, Laid, Chained
  <2>2. a \in Nat /\ last \in Nat
    BY <1>4
  <2>3. QED
    BY <2>1, <2>2
<1> HIDE DEF last, chars, g
<1>6. /\ v \in Tries /\ v.nodes = t.nodes /\ v.table = t.table /\ v.count = t.count /\ v.pairs = t.pairs
      /\ Len(v.arrays) = Len(t.arrays)
      /\ \A a \in A : /\ v.arrays[a].members = t.arrays[a].members
                      /\ v.arrays[a].next = IF a = last THEN Len(t.arrays) + 1 ELSE t.arrays[a].next
  <2> DEFINE B == WithNext(t.arrays, last, NextArray(t))
  <2>1. v = [t EXCEPT !.arrays = B]
    BY DEF WithNext
  <2>2. NextArray(t) \in Nat /\ NextArray(t) = Len(t.arrays) + 1 /\ t.arrays \in Seq(Arrays)
    BY <1>1 DEF NextArray, Tries
  <2>3. /\ B \in Seq(Arrays) /\ Len(B) = Len(t.arrays)
        /\ \A a \in A : /\ B[a].members = t.arrays[a].members
                        /\ B[a].next = IF a = last THEN NextArray(t) ELSE t.arrays[a].next
    BY <1>4, <2>2, NextSet
  <2> HIDE DEF v, B
  <2>4. /\ v \in Tries /\ v.arrays = B /\ v.nodes = t.nodes /\ v.table = t.table
        /\ v.count = t.count /\ v.pairs = t.pairs
    BY <1>1, <2>1, <2>3, WithArrays
  <2>5. QED
    BY <2>2, <2>3, <2>4
<1> HIDE DEF v
<1>7. Extended(v, u, p.node, chars)
  <2>1. Len(v.count) = Len(v.table) /\ p.node \in Nat
    BY <1>1, <1>6
  <2> HIDE DEF u
  <2>2. u = AddChildArray(v, p.node, chars)
    BY DEF u
  <2>3. QED
    BY <1>2, <1>3, <1>6, <2>1, <2>2, AddChildArrayIs
<1>8. /\ p.node = 0 => g = << >>
      /\ p.node # 0 => /\ p.node \in N /\ ~Moved(t, p.node)
                       /\ t.nodes[p.node].kids # 0 /\ Spelled(t, pre, p.node) = g
  <2>1. CASE p.node = 0 /\ p.k = 0
    <3>1. Upto(w, 0) = << >>
      BY UptoWhole
    <3>2. QED
      BY <2>1, <3>1 DEF g
  <2>2. CASE p.node \in N /\ ~Moved(t, p.node) /\ t.nodes[p.node].kids = p.array
    <3>1. t.nodes[p.node].kids # 0 /\ p.node # 0
      BY <1>1, <2>2
    <3>2. at[t.nodes[p.node].kids] = Spelled(t, pre, p.node)
      BY <2>2, <3>1 DEF Shape, Kids
    <3>3. QED
      BY <1>1, <2>2, <3>1, <3>2
  <2>3. QED
    BY <2>1, <2>2 DEF Reading
<1>9. \A x \in N : ~Moved(t, x) /\ pre[x] = g => Letter(t, x) # chars[1]
  BY <1>3 DEF Ends, g
<1> HIDE DEF u
<1>10. Leafed(t, pre, at, u, g, p.node, chars)
  <2>1. /\ u \in Tries /\ u.pairs = t.pairs
        /\ Len(u.nodes) = Len(t.nodes) + 1
        /\ \A x \in N : u.nodes[x] = t.nodes[x]
        /\ u.nodes[Len(t.nodes) + 1] = NodeOf(chars, p.node, Len(t.table) + 1, 0)
        /\ Len(u.arrays) = Len(t.arrays) + 1
        /\ \A a \in A : u.arrays[a] = v.arrays[a]
        /\ u.arrays[Len(t.arrays) + 1] = [members |-> <<Len(t.nodes) + 1>>, next |-> 0]
        /\ Len(u.table) = Len(t.table) + 1 /\ Len(u.count) = Len(u.table)
        /\ \A i \in 1..Len(t.table) : u.table[i] = t.table[i] /\ u.count[i] = t.count[i]
        /\ u.table[Len(t.table) + 1] = Len(t.nodes) + 1 /\ u.count[Len(t.table) + 1] = 0
    BY <1>6, <1>7 DEF Extended
  <2>2. \A a \in A :
         /\ u.arrays[a].members = t.arrays[a].members
         /\ \/ /\ u.arrays[a].next = t.arrays[a].next
               /\ t.arrays[a].next = 0 => at[a] # g
            \/ t.arrays[a].next = 0 /\ u.arrays[a].next = Len(t.arrays) + 1 /\ at[a] = g
    <3> SUFFICES ASSUME NEW a \in A
                 PROVE  /\ u.arrays[a].members = t.arrays[a].members
                        /\ \/ /\ u.arrays[a].next = t.arrays[a].next
                              /\ t.arrays[a].next = 0 => at[a] # g
                           \/ t.arrays[a].next = 0 /\ u.arrays[a].next = Len(t.arrays) + 1 /\ at[a] = g
      OBVIOUS
    <3>1. /\ u.arrays[a].members = t.arrays[a].members
          /\ u.arrays[a].next = IF a = last THEN Len(t.arrays) + 1 ELSE t.arrays[a].next
      BY <1>6, <2>1
    <3>2. QED
      BY <1>4, <1>5, <3>1
  <2>3. \A x \in N :
         /\ u.nodes[x].chars = t.nodes[x].chars /\ u.nodes[x].parent = t.nodes[x].parent
         /\ u.nodes[x].id = t.nodes[x].id /\ u.nodes[x].flag = t.nodes[x].flag
         /\ u.nodes[x].kids = t.nodes[x].kids
    BY <2>1
  <2>4. p.node # 0 => u.nodes[p.node].kids # 0
    BY <1>8, <2>3
  <2>5. QED
    BY <1>8, <1>9, <2>1, <2>2, <2>3, <2>4 DEF Leafed
<1>11. Added(t, u, g \o chars)
  <2>1. p.node \in Nat
    BY <1>1
  <2>2. QED
    BY <1>2, <1>3, <1>10, <2>1, LeafedAdded
<1>12. QED
  BY <1>2, <1>11 DEF AppendSibling, u, v, last, chars

\* The rest of a word becomes the first node below a leaf.
LEMMA AddFirstChildAdds ==
    ASSUME NEW t, NEW pre, NEW at, Shape(t, pre, at), Entries(t),
           NEW n \in 1..Len(t.nodes), ~Moved(t, n), t.nodes[n].kids = 0,
           NEW chars \in Seq(Nat), chars # << >>
    PROVE  Added(t, AddFirstChild(t, n, chars), Spelled(t, pre, n) \o chars)
<1> DEFINE v == [t EXCEPT !.nodes[n].kids = NextArray(t)]
           u == AddChildArray(v, n, chars)
           g == Spelled(t, pre, n)
           A == 1..Len(t.arrays)
           N == 1..Len(t.nodes)
<1>1. /\ Linked(t) /\ t \in Tries /\ Len(t.nodes) \in Nat /\ Len(t.arrays) \in Nat \ {0}
      /\ Len(t.table) \in Nat /\ Len(t.count) = Len(t.table) /\ g \in Seq(Nat) /\ n # 0
  <2>1. Linked(t) /\ t \in Tries /\ Len(t.nodes) \in Nat /\ Len(t.arrays) \in Nat \ {0} /\ g \in Seq(Nat)
    BY ShapeTypes
  <2>2. Len(t.table) \in Nat /\ Len(t.count) = Len(t.table)
    BY <2>1, TypesOf DEF Linked
  <2>3. n # 0
    BY <2>1
  <2>4. QED
    BY <2>1, <2>2, <2>3
<1>2. /\ \A m \in N : ~Moved(t, m) => pre[m] # g
      /\ \A a \in A : at[a] # g
      /\ g # << >>
  BY FreeBelow
<1> HIDE DEF g
<1>3. /\ v \in Tries /\ v.arrays = t.arrays /\ v.table = t.table /\ v.count = t.count /\ v.pairs = t.pairs
      /\ Len(v.nodes) = Len(t.nodes)
      /\ \A x \in N : /\ v.nodes[x].chars = t.nodes[x].chars /\ v.nodes[x].parent = t.nodes[x].parent
                      /\ v.nodes[x].id = t.nodes[x].id /\ v.nodes[x].flag = t.nodes[x].flag
                      /\ v.nodes[x].kids = IF x = n THEN Len(t.arrays) + 1 ELSE t.nodes[x].kids
  <2> DEFINE B == WithKids(t.nodes, n, NextArray(t))
  <2>1. v = [t EXCEPT !.nodes = B]
    BY DEF WithKids
  <2>2. NextArray(t) \in Nat /\ NextArray(t) = Len(t.arrays) + 1 /\ t.nodes \in Seq(Nodes)
    BY <1>1 DEF NextArray, Tries
  <2>3. /\ B \in Seq(Nodes) /\ Len(B) = Len(t.nodes)
        /\ \A x \in N : /\ B[x].chars = t.nodes[x].chars /\ B[x].parent = t.nodes[x].parent
                        /\ B[x].id = t.nodes[x].id /\ B[x].flag = t.nodes[x].flag
                        /\ B[x].kids = IF x = n THEN NextArray(t) ELSE t.nodes[x].kids
    <3>1. n \in 1..Len(t.nodes)
      OBVIOUS
    <3>2. B \in Seq(Nodes) /\ Len(B) = Len(t.nodes)
      BY <2>2, <3>1, KidsSet
    <3>3. ASSUME NEW x \in N
          PROVE  /\ B[x].chars = t.nodes[x].chars /\ B[x].parent = t.nodes[x].parent
                 /\ B[x].id = t.nodes[x].id /\ B[x].flag = t.nodes[x].flag
                 /\ B[x].kids = IF x = n THEN NextArray(t) ELSE t.nodes[x].kids
      <4>1. x \in 1..Len(t.nodes)
        OBVIOUS
      <4> HIDE DEF B, N
      <4>2. t.nodes \in Seq(Nodes) /\ NextArray(t) \in Nat
        BY <2>2
      <4>3. \A y \in 1..Len(t.nodes) :
              /\ WithKids(t.nodes, n, NextArray(t))[y].chars = t.nodes[y].chars
              /\ WithKids(t.nodes, n, NextArray(t))[y].parent = t.nodes[y].parent
              /\ WithKids(t.nodes, n, NextArray(t))[y].id = t.nodes[y].id
              /\ WithKids(t.nodes, n, NextArray(t))[y].flag = t.nodes[y].flag
              /\ WithKids(t.nodes, n, NextArray(t))[y].kids =
                   IF y = n THEN NextArray(t) ELSE t.nodes[y].kids
        BY <3>1, <4>2, KidsSet
      <4>4. QED
        BY <4>1, <4>3 DEF B
    <3>4. QED
      BY <3>2, <3>3
  <2> HIDE DEF v, B
  <2>4. /\ v \in Tries /\ v.nodes = B /\ v.arrays = t.arrays /\ v.table = t.table
        /\ v.count = t.count /\ v.pairs = t.pairs
    BY <1>1, <2>1, <2>3, WithNodes
  <2>5. QED
    BY <2>2, <2>3, <2>4
<1> HIDE DEF v
<1>4. Extended(v, u, n, chars)
  <2>1. Len(v.count) = Len(v.table) /\ n \in Nat
    BY <1>1, <1>3
  <2> HIDE DEF u
  <2>2. u = AddChildArray(v, n, chars)
    BY DEF u
  <2>3. QED
    BY <1>3, <2>1, <2>2, AddChildArrayIs
<1> HIDE DEF u
<1>5. Leafed(t, pre, at, u, g, n, chars)
  <2>1. /\ u \in Tries /\ u.pairs = t.pairs
        /\ Len(u.nodes) = Len(t.nodes) + 1
        /\ \A x \in N : u.nodes[x] = v.nodes[x]
        /\ u.nodes[Len(t.nodes) + 1] = NodeOf(chars, n, Len(t.table) + 1, 0)
        /\ Len(u.arrays) = Len(t.arrays) + 1
        /\ \A a \in A : u.arrays[a] = t.arrays[a]
        /\ u.arrays[Len(t.arrays) + 1] = [members |-> <<Len(t.nodes) + 1>>, next |-> 0]
        /\ Len(u.table) = Len(t.table) + 1 /\ Len(u.count) = Len(u.table)
        /\ \A i \in 1..Len(t.table) : u.table[i] = t.table[i] /\ u.count[i] = t.count[i]
        /\ u.table[Len(t.table) + 1] = Len(t.nodes) + 1 /\ u.count[Len(t.table) + 1] = 0
    <3>1. /\ Len(v.nodes) = Len(t.nodes) /\ v.arrays = t.arrays /\ v.table = t.table
          /\ v.count = t.count /\ v.pairs = t.pairs
      BY <1>3
    <3>2. QED
      BY <1>4, <3>1, SMTT(60) DEF Extended
  <2>2. \A a \in A :
         /\ u.arrays[a].members = t.arrays[a].members
         /\ u.arrays[a].next = t.arrays[a].next
         /\ at[a] # g
    BY <1>2, <2>1
  <2>3. \A x \in N :
         /\ u.nodes[x].chars = t.nodes[x].chars /\ u.nodes[x].parent = t.nodes[x].parent
         /\ u.nodes[x].id = t.nodes[x].id /\ u.nodes[x].flag = t.nodes[x].flag
         /\ u.nodes[x].kids = IF x = n THEN Len(t.arrays) + 1 ELSE t.nodes[x].kids
    <3> SUFFICES ASSUME NEW x \in N
                 PROVE  /\ u.nodes[x].chars = t.nodes[x].chars /\ u.nodes[x].parent = t.nodes[x].parent
                        /\ u.nodes[x].id = t.nodes[x].id /\ u.nodes[x].flag = t.nodes[x].flag
                        /\ u.nodes[x].kids = IF x = n THEN Len(t.arrays) + 1 ELSE t.nodes[x].kids
      OBVIOUS
    <3> HIDE DEF N
    <3>1. u.nodes[x] = v.nodes[x]
      BY <2>1
    <3>2. /\ v.nodes[x].chars = t.nodes[x].chars /\ v.nodes[x].parent = t.nodes[x].parent
          /\ v.nodes[x].id = t.nodes[x].id /\ v.nodes[x].flag = t.nodes[x].flag
          /\ v.nodes[x].kids = IF x = n THEN Len(t.arrays) + 1 ELSE t.nodes[x].kids
      BY <1>3
    <3>3. QED
      BY <3>1, <3>2
  <2>4. u.nodes[n].kids # 0
    BY <1>1, <2>3
  <2>5. Spelled(t, pre, n) = g
    BY DEF g
  <2>6. QED
    BY <1>1, <1>2, <2>1, <2>2, <2>3, <2>4, <2>5 DEF Leafed
<1>6. Added(t, u, g \o chars)
  BY <1>1, <1>5, LeafedAdded
<1>7. QED
  BY <1>6 DEF AddFirstChild, u, v, g
----------------------------------------------------------------------------
(* A node that moves. *)

\* The buffers u are v, in which the node n forwards to another one.
Marked(v, u, n, to) ==
    /\ u \in Tries /\ Len(u.nodes) = Len(v.nodes)
    /\ u.arrays = v.arrays /\ u.table = v.table /\ u.count = v.count /\ u.pairs = v.pairs
    /\ \A x \in 1..Len(v.nodes) :
         /\ u.nodes[x].chars = v.nodes[x].chars /\ u.nodes[x].id = v.nodes[x].id
         /\ u.nodes[x].kids = v.nodes[x].kids
         /\ u.nodes[x].flag = IF x = n THEN "moved" ELSE v.nodes[x].flag
         /\ u.nodes[x].parent = IF x = n THEN to ELSE v.nodes[x].parent

Marking(v, n, to) == [v EXCEPT !.nodes[n].flag = "moved", !.nodes[n].parent = to]

LEMMA MarkingIs ==
    ASSUME NEW v \in Tries, NEW n \in 1..Len(v.nodes), NEW to \in Nat
    PROVE  Marked(v, Marking(v, n, to), n, to)
<1> DEFINE s == v.nodes
           e == [s[n] EXCEPT !.flag = "moved", !.parent = to]
           B == [s EXCEPT ![n] = e]
           u == Marking(v, n, to)
           N == 1..Len(s)
<1>1. /\ s \in Seq(Nodes) /\ Len(s) \in Nat /\ DOMAIN s = N
      /\ \A x \in N : s[x] \in Nodes
  BY DEF Tries
<1>2. e = [chars |-> s[n].chars, parent |-> to, id |-> s[n].id, kids |-> s[n].kids, flag |-> "moved"]
  <2>1. s[n] = [chars |-> s[n].chars, parent |-> s[n].parent, id |-> s[n].id,
                kids |-> s[n].kids, flag |-> s[n].flag]
    BY <1>1 DEF Nodes
  <2> DEFINE r == s[n]
  <2>2. r = [chars |-> r.chars, parent |-> r.parent, id |-> r.id, kids |-> r.kids, flag |-> r.flag]
    BY <2>1
  <2>3. e = [r EXCEPT !.flag = "moved", !.parent = to]
    OBVIOUS
  <2> HIDE DEF r, e
  <2>4. e = [chars |-> r.chars, parent |-> to, id |-> r.id, kids |-> r.kids, flag |-> "moved"]
    BY <2>2, <2>3
  <2>5. QED
    BY <2>4 DEF r
<1>3. u = [v EXCEPT !.nodes = B]
  BY <1>1 DEF Tries, Marking
<1> HIDE DEF e
<1>4. /\ e \in Nodes /\ e.chars = s[n].chars /\ e.parent = to /\ e.id = s[n].id /\ e.kids = s[n].kids
      /\ e.flag = "moved"
  <2>1. s[n] \in Nodes
    BY <1>1
  <2>2. QED
    BY <1>2, <2>1 DEF Nodes
<1>5. B = [x \in N |-> IF x = n THEN e ELSE s[x]]
  BY <1>1
<1>6. \A x \in N : B[x] = IF x = n THEN e ELSE s[x]
  BY <1>5
<1> HIDE DEF B
<1>7. B \in [N -> Nodes]
  BY <1>1, <1>4, <1>5
<1> HIDE DEF u, s
<1>8. B \in Seq(Nodes) /\ Len(B) = Len(s)
  BY <1>1, <1>7, SequenceFrom
<1>9. /\ u \in Tries /\ u.nodes = B /\ u.arrays = v.arrays /\ u.table = v.table
      /\ u.count = v.count /\ u.pairs = v.pairs
  BY <1>3, <1>8, WithNodes
<1>10. \A x \in N :
         /\ u.nodes[x].chars = s[x].chars /\ u.nodes[x].id = s[x].id
         /\ u.nodes[x].kids = s[x].kids
         /\ u.nodes[x].flag = IF x = n THEN "moved" ELSE s[x].flag
         /\ u.nodes[x].parent = IF x = n THEN to ELSE s[x].parent
  BY <1>4, <1>6, <1>9
<1>11. QED
  BY <1>8, <1>9, <1>10 DEF Marked, u, s

\* The nodes of K in v get the parent y.
Adopted(v, u, K, y) ==
    /\ u \in Tries /\ Len(u.nodes) = Len(v.nodes)
    /\ u.arrays = v.arrays /\ u.table = v.table /\ u.count = v.count /\ u.pairs = v.pairs
    /\ \A x \in 1..Len(v.nodes) :
         /\ u.nodes[x].chars = v.nodes[x].chars /\ u.nodes[x].id = v.nodes[x].id
         /\ u.nodes[x].kids = v.nodes[x].kids /\ u.nodes[x].flag = v.nodes[x].flag
         /\ u.nodes[x].parent = IF x \in K THEN y ELSE v.nodes[x].parent

Children(v, n) == IF v.nodes[n].kids = 0 THEN {} ELSE Range(Siblings(v, v.nodes[n].kids))

LEMMA AdoptChildrenIs ==
    ASSUME NEW v \in Tries, NEW n, NEW y \in Nat
    PROVE  Adopted(v, AdoptChildren(v, n, y), Children(v, n), y)
<1> DEFINE s == v.nodes
           K == Children(v, n)
           N == 1..Len(s)
           B == [i \in N |-> IF i \in K THEN [s[i] EXCEPT !.parent = y] ELSE s[i]]
           u == AdoptChildren(v, n, y)
<1>1. /\ s \in Seq(Nodes) /\ Len(s) \in Nat /\ DOMAIN s = N
      /\ \A x \in N : s[x] \in Nodes
  BY DEF Tries
<1>2. \A x \in N : [s[x] EXCEPT !.parent = y] =
         [chars |-> s[x].chars, parent |-> y, id |-> s[x].id, kids |-> s[x].kids, flag |-> s[x].flag]
  <2> SUFFICES ASSUME NEW x \in N
               PROVE  [s[x] EXCEPT !.parent = y] =
                        [chars |-> s[x].chars, parent |-> y, id |-> s[x].id, kids |-> s[x].kids,
                         flag |-> s[x].flag]
    OBVIOUS
  <2> DEFINE r == s[x]
  <2>1. r = [chars |-> r.chars, parent |-> r.parent, id |-> r.id, kids |-> r.kids, flag |-> r.flag]
    BY <1>1 DEF Nodes
  <2> HIDE DEF r
  <2>2. [r EXCEPT !.parent = y] =
          [chars |-> r.chars, parent |-> y, id |-> r.id, kids |-> r.kids, flag |-> r.flag]
    BY <2>1
  <2>3. QED
    BY <2>2 DEF r
<1>3. u = [v EXCEPT !.nodes = B]
  BY <1>1 DEF Tries, AdoptChildren, Children
<1>4. \A x \in N : B[x] = IF x \in K THEN [s[x] EXCEPT !.parent = y] ELSE s[x]
  OBVIOUS
<1>5. B = [x \in N |-> B[x]]
  OBVIOUS
<1> HIDE DEF B, u, K
<1>6. \A x \in N : /\ B[x] \in Nodes /\ B[x].chars = s[x].chars /\ B[x].id = s[x].id
                   /\ B[x].kids = s[x].kids /\ B[x].flag = s[x].flag
                   /\ B[x].parent = IF x \in K THEN y ELSE s[x].parent
  <2> SUFFICES ASSUME NEW x \in N
               PROVE  /\ B[x] \in Nodes /\ B[x].chars = s[x].chars /\ B[x].id = s[x].id
                      /\ B[x].kids = s[x].kids /\ B[x].flag = s[x].flag
                      /\ B[x].parent = IF x \in K THEN y ELSE s[x].parent
    OBVIOUS
  <2>1. s[x] \in Nodes
    BY <1>1
  <2>2. CASE x \in K
    <3>1. B[x] = [chars |-> s[x].chars, parent |-> y, id |-> s[x].id, kids |-> s[x].kids, flag |-> s[x].flag]
      BY <1>2, <1>4, <2>2
    <3>2. QED
      BY <2>1, <2>2, <3>1 DEF Nodes
  <2>3. CASE x \notin K
    BY <1>4, <2>1, <2>3
  <2>4. QED
    BY <2>2, <2>3
<1>7. B \in [N -> Nodes]
  BY <1>5, <1>6
<1> HIDE DEF s
<1>8. B \in Seq(Nodes) /\ Len(B) = Len(s)
  BY <1>1, <1>7, SequenceFrom
<1>9. /\ u \in Tries /\ u.nodes = B /\ u.arrays = v.arrays /\ u.table = v.table
      /\ u.count = v.count /\ u.pairs = v.pairs
  BY <1>3, <1>8, WithNodes
<1>10. QED
  BY <1>6, <1>8, <1>9 DEF Adopted, u, s, K

\* The children of a node that has moved in v: those it was the parent of.
LEMMA ChildrenAre ==
    ASSUME NEW t, NEW pre, NEW at, Shape(t, pre, at), NEW v, NEW pre2, NEW at2,
           NEW n \in 1..Len(t.nodes), ~Moved(t, n),
           Keeps(t, pre, at, v, pre2, at2, n), Relocates(t, pre, v, pre2, n),
           Settles(t, v, pre2, at2, n), v.nodes[n].kids = t.nodes[n].kids,
           \A x \in NewNodes(t, v) : pre2[x] # Spelled(t, pre, n),
           \A a \in NewArrays(t, v) : at2[a] # Spelled(t, pre, n)
    PROVE  Children(v, n) = {x \in 1..Len(t.nodes) : ~Moved(t, x) /\ t.nodes[x].parent = n}
<1> DEFINE N == 1..Len(t.nodes)
           K == {x \in N : ~Moved(t, x) /\ t.nodes[x].parent = n}
           c == t.nodes[n].kids
           g == Spelled(t, pre, n)
<1>1. /\ Len(t.nodes) \in Nat /\ Len(t.arrays) \in Nat \ {0} /\ c \in 0..Len(t.arrays)
      /\ g \in Seq(Nat) /\ pre[n] \in Seq(Nat) /\ t.nodes[n].chars \in Seq(Nat)
      /\ Len(pre[n]) \in Nat /\ Len(t.nodes[n].chars) \in Nat \ {0}
      /\ Len(g) = Len(pre[n]) + Len(t.nodes[n].chars)
  BY ShapeTypes
<1>2. /\ \A x \in 1..Len(v.nodes) : x \in N \/ x \in NewNodes(t, v)
      /\ \A x \in N : x \in 1..Len(v.nodes)
      /\ \A a \in 1..Len(v.arrays) : a \in 1..Len(t.arrays) \/ a \in NewArrays(t, v)
      /\ \A a \in 1..Len(t.arrays) : a \in 1..Len(v.arrays)
  <2>1. Len(t.nodes) <= Len(v.nodes) /\ Len(t.arrays) <= Len(v.arrays) /\ v \in Tries
    BY DEF Keeps, Linked
  <2>2. Len(v.nodes) \in Nat /\ Len(v.arrays) \in Nat
    BY <2>1, TypesOf
  <2>3. \A x, z \in Nat : x <= z => /\ \A i \in 1..x : i \in 1..z
                                    /\ \A i \in 1..z : i \in 1..x \/ i \in (x + 1)..z
    OBVIOUS
  <2>4. QED
    BY <1>1, <2>1, <2>2, <2>3 DEF NewNodes, NewArrays
<1>3. \A x \in N : pre2[x] = pre[x] /\ (Moved(v, x) <=> Moved(t, x) \/ x = n)
  BY DEF Keeps
<1>4. pre[n] # g /\ g # << >>
  <2>1. \A x \in Nat, z \in Nat \ {0} : x + z # x /\ x + z # 0
    OBVIOUS
  <2>2. Len(g) # Len(pre[n]) /\ Len(g) # 0
    BY <1>1, <2>1
  <2> HIDE DEF g
  <2>3. QED
    BY <2>2
<1>5. CASE c = 0
  <2>1. \A x \in N : ~Moved(t, x) => t.nodes[x].parent # n
    <3>1. \A x \in N : ~Moved(t, x) /\ t.nodes[x].parent # 0 => t.nodes[t.nodes[x].parent].kids # 0
      BY DEF Shape, Parents
    <3>2. n # 0
      BY <1>1
    <3>3. QED
      BY <1>5, <3>1, <3>2
  <2>2. QED
    BY <1>5, <2>1 DEF Children
<1>6. CASE c # 0
  <2>1. c \in 1..Len(t.arrays) /\ at[c] = g /\ First(t, at, c)
    <3>1. c \in 1..Len(t.arrays)
      BY <1>1, <1>6
    <3>2. QED
      BY <1>6, <3>1 DEF Shape, Kids
  <2>2. Laid(v, pre2, at2)
    <3>1. n \in Nat
      BY <1>1
    <3>2. QED
      BY <3>1, GrowthLaid
  <2>3. c \in 1..Len(v.arrays) /\ at2[c] = g /\ First(v, at2, c)
    BY <1>2, <2>1 DEF First, Keeps
  <2>4. Range(Siblings(v, c)) = {x \in 1..Len(v.nodes) : ~Moved(v, x) /\ pre2[x] = g}
    BY <2>2, <2>3, SiblingsAre
  <2>5. \A x \in N : ~Moved(t, x) => (pre[x] = g <=> t.nodes[x].parent = n)
    <3> SUFFICES ASSUME NEW x \in N, ~Moved(t, x) PROVE pre[x] = g <=> t.nodes[x].parent = n
      OBVIOUS
    <3> DEFINE p == t.nodes[x].parent
    <3>1. /\ p \in 0..Len(t.nodes)
          /\ p = 0 => pre[x] = << >>
          /\ p # 0 => ~Moved(t, p) /\ pre[x] = Spelled(t, pre, p)
      BY ShapeTypes DEF Shape, Parents
    <3>2. n # 0 /\ (p # 0 => p \in N)
      <4> HIDE DEF p
      <4>1. QED
        BY <1>1, <3>1
    <3>3. p # 0 /\ pre[x] = g => p = n
      BY <3>1, <3>2, SpelledOnce
    <3>4. QED
      BY <1>4, <3>1, <3>2, <3>3
  <2>6. {x \in 1..Len(v.nodes) : ~Moved(v, x) /\ pre2[x] = g} = K
    BY <1>2, <1>3, <1>4, <2>5
  <2>7. QED
    BY <1>6, <2>4, <2>6 DEF Children
<1>7. QED
  BY <1>5, <1>6
\* A node n moves, nodes and arrays are added, and the links of the others stay.
Rewrites(t, pre, at, u, pre2, at2, n) ==
    /\ u \in Tries /\ Len(u.count) = Len(u.table) /\ u.pairs = t.pairs
    /\ Len(t.nodes) <= Len(u.nodes) /\ Len(t.arrays) <= Len(u.arrays) /\ Len(t.table) <= Len(u.table)
    /\ pre2 \in [1..Len(u.nodes) -> Seq(Nat)] /\ at2 \in [1..Len(u.arrays) -> Seq(Nat)]
    /\ \A x \in 1..Len(t.nodes) :
         /\ u.nodes[x].chars = t.nodes[x].chars /\ u.nodes[x].id = t.nodes[x].id
         /\ u.nodes[x].kids = t.nodes[x].kids /\ pre2[x] = pre[x]
         /\ u.nodes[x].flag = IF x = n THEN "moved" ELSE t.nodes[x].flag
         /\ \/ u.nodes[x].parent = t.nodes[x].parent /\ x # n
            \/ u.nodes[x].parent \in NewNodes(t, u) /\ ~Moved(t, x)
    /\ \A x \in NewNodes(t, u) :
         /\ u.nodes[x].flag = "none"
         /\ u.nodes[x].parent <= Len(u.nodes) /\ u.nodes[x].kids <= Len(u.arrays)
         /\ u.nodes[x].id <= Len(u.table)
    /\ \A a \in 1..Len(t.arrays) : u.arrays[a] = t.arrays[a] /\ at2[a] = at[a]
    /\ \A a \in NewArrays(t, u) :
         /\ \A i \in 1..Len(u.arrays[a].members) : u.arrays[a].members[i] \in 1..Len(u.nodes)
         /\ u.arrays[a].next = 0
         /\ \A b \in 1..Len(u.arrays) : at2[b] = at2[a] => b = a
    /\ \A i \in 1..Len(u.table) :
         (i \in 1..Len(t.table) /\ u.table[i] = t.table[i]) \/ u.table[i] <= Len(u.nodes)

LEMMA RewritesKeeps ==
    ASSUME NEW t, NEW pre, NEW at, Shape(t, pre, at), NEW u, NEW pre2, NEW at2,
           NEW n \in 1..Len(t.nodes), ~Moved(t, n), Rewrites(t, pre, at, u, pre2, at2, n)
    PROVE  /\ Grows(t, u) /\ Keeps(t, pre, at, u, pre2, at2, n)
           /\ Chained(u, at2)
<1> DEFINE N == 1..Len(t.nodes)
           A == 1..Len(t.arrays)
           A2 == 1..Len(u.arrays)
<1>1. Linked(t) /\ t \in Tries /\ Len(t.arrays) \in Nat /\ Chained(t, at)
  BY ShapeTypes DEF Shape, Laid
<1>2. /\ u \in Tries /\ Len(u.count) = Len(u.table) /\ u.pairs = t.pairs
      /\ Len(t.nodes) <= Len(u.nodes) /\ Len(t.arrays) <= Len(u.arrays) /\ Len(t.table) <= Len(u.table)
      /\ pre2 \in [1..Len(u.nodes) -> Seq(Nat)] /\ at2 \in [1..Len(u.arrays) -> Seq(Nat)]
  BY DEF Rewrites
<1>3. \A x \in N :
         /\ u.nodes[x].chars = t.nodes[x].chars /\ u.nodes[x].id = t.nodes[x].id
         /\ u.nodes[x].kids = t.nodes[x].kids /\ pre2[x] = pre[x]
         /\ u.nodes[x].flag = IF x = n THEN "moved" ELSE t.nodes[x].flag
         /\ \/ u.nodes[x].parent = t.nodes[x].parent /\ x # n
            \/ u.nodes[x].parent \in NewNodes(t, u) /\ ~Moved(t, x)
  BY DEF Rewrites
<1>4. \A x \in NewNodes(t, u) :
         /\ u.nodes[x].flag = "none"
         /\ u.nodes[x].parent <= Len(u.nodes) /\ u.nodes[x].kids <= Len(u.arrays)
         /\ u.nodes[x].id <= Len(u.table)
  BY DEF Rewrites
<1>5. /\ \A a \in A : u.arrays[a] = t.arrays[a] /\ at2[a] = at[a]
      /\ \A a \in NewArrays(t, u) :
           /\ \A i \in 1..Len(u.arrays[a].members) : u.arrays[a].members[i] \in 1..Len(u.nodes)
           /\ u.arrays[a].next = 0
           /\ \A b \in A2 : at2[b] = at2[a] => b = a
  BY DEF Rewrites
<1>6. \A i \in 1..Len(u.table) :
         (i \in 1..Len(t.table) /\ u.table[i] = t.table[i]) \/ u.table[i] <= Len(u.nodes)
  BY DEF Rewrites
<1>7. Grows(t, u)
  <2>1. \A x \in N :
         /\ \/ u.nodes[x].parent = t.nodes[x].parent /\ (Moved(u, x) => Moved(t, x))
            \/ u.nodes[x].parent \in NewNodes(t, u)
         /\ u.nodes[x].kids = t.nodes[x].kids \/ u.nodes[x].kids \in NewArrays(t, u)
         /\ u.nodes[x].id = t.nodes[x].id
    BY <1>3 DEF Moved
  <2>2. \A a \in A :
         /\ u.arrays[a].members = t.arrays[a].members
         /\ u.arrays[a].next = t.arrays[a].next \/ u.arrays[a].next \in NewArrays(t, u)
    BY <1>5
  <2>3. \A a \in NewArrays(t, u) :
         /\ \A i \in 1..Len(u.arrays[a].members) : u.arrays[a].members[i] \in 1..Len(u.nodes)
         /\ u.arrays[a].next = 0
    BY <1>5
  <2>4. QED
    BY <1>2, <1>4, <1>6, <2>1, <2>2, <2>3 DEF Grows
<1>8. Linked(u)
  BY <1>1, <1>7, GrowsLinked
<1>9. Keeps(t, pre, at, u, pre2, at2, n)
  <2>1. \A x \in N :
         /\ u.nodes[x].chars = t.nodes[x].chars /\ pre2[x] = pre[x]
         /\ Moved(u, x) <=> Moved(t, x) \/ x = n
         /\ Moved(t, x) => u.nodes[x].parent = t.nodes[x].parent
         /\ t.nodes[x].kids # 0 => u.nodes[x].kids = t.nodes[x].kids
    BY <1>3 DEF Moved
  <2>2. QED
    BY <1>2, <1>5, <1>8, <2>1 DEF Keeps
<1>10. Chained(u, at2)
  <2>1. /\ \A a \in A2 : a \in A \/ a \in NewArrays(t, u)
        /\ \A a \in A : a \in A2 /\ a \notin NewArrays(t, u)
        /\ \A a \in A, b \in NewArrays(t, u) : a <= b
        /\ \A b \in NewArrays(t, u) : b <= b /\ b \in A2
    <3>1. Len(u.arrays) \in Nat
      BY <1>2, TypesOf
    <3>2. QED
      BY <1>1, <1>2, <3>1 DEF NewArrays
  <2>2. ASSUME NEW a \in A2
        PROVE  /\ u.arrays[a].next = 0 => \A b \in A2 : at2[b] = at2[a] => b <= a
               /\ u.arrays[a].next # 0 =>
                    /\ at2[u.arrays[a].next] = at2[a]
                    /\ \A b \in A2 : a < b /\ at2[b] = at2[a] => u.arrays[a].next <= b
    <3>1. CASE a \in NewArrays(t, u)
      BY <1>5, <2>1, <3>1
    <3>2. CASE a \in A
      <4>1. u.arrays[a].next = t.arrays[a].next /\ at2[a] = at[a]
        BY <1>5, <3>2
      <4>2. \A b \in A2 : at2[b] = at2[a] => b \in A /\ at[b] = at[a]
        BY <1>5, <2>1, <3>2
      <4>3. CASE t.arrays[a].next = 0
        BY <1>1, <3>2, <4>1, <4>2, <4>3 DEF Chained
      <4>4. CASE t.arrays[a].next # 0
        <5>1. t.arrays[a].next \in A
          BY <1>1, <3>2, <4>4, TypesOf DEF Linked
        <5>2. at[t.arrays[a].next] = at[a] /\ \A b \in A : a < b /\ at[b] = at[a] => t.arrays[a].next <= b
          BY <1>1, <3>2, <4>4 DEF Chained
        <5>3. QED
          BY <1>5, <4>1, <4>2, <4>4, <5>1, <5>2
      <4>5. QED
        BY <4>3, <4>4
    <3>3. QED
      BY <2>1, <3>1, <3>2
  <2>3. QED
    BY <2>2 DEF Chained
<1>11. QED
  BY <1>7, <1>9, <1>10

\* Nothing is its own parent.
LEMMA ParentAbove ==
    ASSUME NEW t, NEW pre, NEW at, Shape(t, pre, at), NEW n \in 1..Len(t.nodes), ~Moved(t, n)
    PROVE  LET p == t.nodes[n].parent
           IN  /\ p \in 0..Len(t.nodes) /\ p # n
               /\ p = 0 => pre[n] = << >>
               /\ p # 0 => /\ p \in 1..Len(t.nodes) /\ ~Moved(t, p) /\ t.nodes[p].kids # 0
                           /\ pre[n] = Spelled(t, pre, p)
<1> DEFINE p == t.nodes[n].parent
<1>1. /\ p \in 0..Len(t.nodes) /\ Len(t.nodes) \in Nat
      /\ p = 0 => pre[n] = << >>
      /\ p # 0 => ~Moved(t, p) /\ t.nodes[p].kids # 0 /\ pre[n] = Spelled(t, pre, p)
  BY ShapeTypes DEF Shape, Parents
<1>2. p # 0 => p \in 1..Len(t.nodes)
  <2> HIDE DEF p
  <2>1. QED
    BY <1>1
<1>3. p # n
  <2>0. n # 0
    BY <1>1
  <2>1. /\ Len(pre[n]) \in Nat /\ Len(t.nodes[n].chars) \in Nat \ {0}
        /\ Len(Spelled(t, pre, n)) = Len(pre[n]) + Len(t.nodes[n].chars)
    BY ShapeTypes
  <2>2. \A x \in Nat, z \in Nat \ {0} : x + z # x
    OBVIOUS
  <2>3. Len(Spelled(t, pre, n)) # Len(pre[n])
    BY <2>1, <2>2
  <2>4. QED
    BY <1>1, <2>0, <2>3
<1>4. QED
  BY <1>1, <1>2, <1>3

\* A node that is no word becomes one: it is written again, with its children.
LEMMA SetProbabilityAdds ==
    ASSUME NEW t, NEW pre, NEW at, Shape(t, pre, at), Entries(t),
           NEW n \in 1..Len(t.nodes), ~Moved(t, n),
           t.nodes[n].id = 0 \/ t.nodes[n].flag = "deleted"
    PROVE  Added(t, SetProbability(t, n), Spelled(t, pre, n))
<1> DEFINE N == 1..Len(t.nodes)
           A == 1..Len(t.arrays)
           L == Len(t.table)
           f == Len(t.nodes) + 1
           id == t.nodes[n].id
           new == IdFor(t, id, TRUE)
           v == WriteNewTerminal(t, t.nodes[n].chars, t.nodes[n].parent, id, t.nodes[n].kids)
           w == Marking(v, n, f)
           u == AdoptChildren(w, n, f)
           pre2 == [x \in 1..f |-> IF x = f THEN pre[n] ELSE pre[x]]
           z == IF id = 0 THEN 0 ELSE f
           q == IF id = 0 THEN f ELSE 0
<1>1. /\ Linked(t) /\ t \in Tries /\ Len(t.nodes) \in Nat /\ Len(t.arrays) \in Nat \ {0}
      /\ L \in Nat /\ Len(t.count) = L
      /\ t.nodes[n].chars \in Seq(Nat) /\ t.nodes[n].chars # << >>
      /\ t.nodes[n].parent \in 0..Len(t.nodes) /\ t.nodes[n].kids \in 0..Len(t.arrays)
      /\ id \in 0..L
  <2>1. Linked(t) /\ t \in Tries
    BY ShapeTypes
  <2>2. L \in Nat /\ Len(t.count) = L /\ t.nodes[n].chars \in Seq(Nat) /\ t.nodes[n].chars # << >>
    BY <2>1, TypesOf DEF Linked
  <2>3. QED
    BY <2>1, <2>2, ShapeTypes
<1>2. SetProbability(t, n) = u
  <2>1. ~(t.nodes[n].id # 0 /\ t.nodes[n].flag # "deleted")
    OBVIOUS
  <2>2. NextNode(t) = f
    BY DEF NextNode
  <2>3. QED
    BY <2>1, <2>2 DEF SetProbability, MarkMoved, Marking
<1>3. WroteTerminal(t, v, t.nodes[n].chars, t.nodes[n].parent, new, t.nodes[n].kids)
  <2>1. t.nodes[n].parent \in Nat /\ t.nodes[n].kids \in Nat
    BY <1>1
  <2> HIDE DEF new, v
  <2>2. QED
    BY <1>1, <2>1, WriteNewTerminalIs DEF new, v
<1>4. /\ f \in Nat /\ f # 0 /\ f \notin N /\ \A x \in 1..f : x \in N \/ x = f
      /\ \A x \in N : x \in 1..f /\ x # f
      /\ f \in 1..f /\ n \in 1..f
  <2>1. \A k \in Nat :
          /\ k + 1 \in Nat /\ k + 1 # 0 /\ k + 1 \notin 1..k
          /\ \A x \in 1..(k + 1) : x \in 1..k \/ x = k + 1
          /\ \A x \in 1..k : x \in 1..(k + 1) /\ x # k + 1
          /\ k + 1 \in 1..(k + 1)
    OBVIOUS
  <2>2. QED
    BY <1>1, <2>1
<1> HIDE DEF f, v, w, u
<1>5. /\ v \in Tries /\ v.arrays = t.arrays /\ v.pairs = t.pairs
      /\ Len(v.nodes) = f
      /\ \A x \in N : v.nodes[x] = t.nodes[x]
      /\ v.nodes[f] = NodeOf(t.nodes[n].chars, t.nodes[n].parent, new, t.nodes[n].kids)
  <2> DEFINE r == NodeOf(t.nodes[n].chars, t.nodes[n].parent, new, t.nodes[n].kids)
  <2>1. v.nodes = Append(t.nodes, r) /\ r \in Nodes
    BY <1>3 DEF WroteTerminal
  <2>2. t.nodes \in Seq(Nodes)
    BY <1>1 DEF Tries
  <2>3. v \in Tries /\ v.arrays = t.arrays /\ v.pairs = t.pairs
    BY <1>3 DEF WroteTerminal
  <2> HIDE DEF r
  <2>4. Len(v.nodes) = f /\ v.nodes[f] = r /\ \A x \in N : v.nodes[x] = t.nodes[x]
    BY <2>1, <2>2, AppendFacts DEF f
  <2>5. QED
    BY <2>3, <2>4 DEF r
<1>6. /\ v.nodes[f].chars = t.nodes[n].chars /\ v.nodes[f].parent = t.nodes[n].parent
      /\ v.nodes[f].id = new /\ v.nodes[f].kids = t.nodes[n].kids /\ v.nodes[f].flag = "none"
  BY <1>5 DEF NodeOf
<1>7. /\ id = 0 => new = L + 1 /\ Len(v.table) = L + 1
      /\ id # 0 => new = id /\ Len(v.table) = L /\ id \in 1..L
      /\ Len(v.count) = Len(v.table)
      /\ \A i \in 1..Len(v.table) :
           /\ v.table[i] = IF i = new THEN f ELSE t.table[i]
           /\ v.count[i] = IF i = new THEN 0 ELSE t.count[i]
  <2>1. /\ id = 0 => new = L + 1
        /\ id # 0 => new = id /\ id \in 1..L /\ id # L + 1
    BY <1>1 DEF IdFor
  <2>2. /\ Len(v.table) = IF new = L + 1 THEN new ELSE L
        /\ Len(v.count) = Len(v.table)
        /\ \A i \in 1..Len(v.table) :
             /\ v.table[i] = IF i = new THEN f ELSE t.table[i]
             /\ v.count[i] = IF i = new THEN 0 ELSE t.count[i]
    BY <1>3 DEF WroteTerminal, NextNode, f
  <2> HIDE DEF new, L, id
  <2>3. QED
    BY <2>1, <2>2
<1>8. Marked(v, w, n, f)
  BY <1>1, <1>4, <1>5, MarkingIs DEF w
<1>9. /\ w \in Tries /\ Len(w.nodes) = f /\ w.arrays = t.arrays /\ w.pairs = t.pairs
      /\ w.table = v.table /\ w.count = v.count
      /\ \A x \in N : /\ w.nodes[x].chars = t.nodes[x].chars /\ w.nodes[x].id = t.nodes[x].id
                      /\ w.nodes[x].kids = t.nodes[x].kids
                      /\ w.nodes[x].flag = IF x = n THEN "moved" ELSE t.nodes[x].flag
                      /\ w.nodes[x].parent = IF x = n THEN f ELSE t.nodes[x].parent
      /\ w.nodes[f].chars = t.nodes[n].chars /\ w.nodes[f].parent = t.nodes[n].parent
      /\ w.nodes[f].id = new /\ w.nodes[f].kids = t.nodes[n].kids /\ w.nodes[f].flag = "none"
  <2>1. /\ w \in Tries /\ Len(w.nodes) = f /\ w.arrays = t.arrays /\ w.pairs = t.pairs
        /\ w.table = v.table /\ w.count = v.count
    BY <1>5, <1>8 DEF Marked
  <2>2. \A x \in 1..f :
          /\ w.nodes[x].chars = v.nodes[x].chars /\ w.nodes[x].id = v.nodes[x].id
          /\ w.nodes[x].kids = v.nodes[x].kids
          /\ w.nodes[x].flag = IF x = n THEN "moved" ELSE v.nodes[x].flag
          /\ w.nodes[x].parent = IF x = n THEN f ELSE v.nodes[x].parent
    BY <1>5, <1>8 DEF Marked
  <2>3. f # n
    BY <1>4
  <2>4. QED
    <3>1. \A x \in N : /\ w.nodes[x].chars = t.nodes[x].chars /\ w.nodes[x].id = t.nodes[x].id
                       /\ w.nodes[x].kids = t.nodes[x].kids
                       /\ w.nodes[x].flag = IF x = n THEN "moved" ELSE t.nodes[x].flag
                       /\ w.nodes[x].parent = IF x = n THEN f ELSE t.nodes[x].parent
      BY <1>4, <1>5, <2>2
    <3>2. /\ w.nodes[f].chars = t.nodes[n].chars /\ w.nodes[f].parent = t.nodes[n].parent
          /\ w.nodes[f].id = new /\ w.nodes[f].kids = t.nodes[n].kids /\ w.nodes[f].flag = "none"
      BY <1>4, <1>6, <2>2, <2>3
    <3>3. QED
      BY <2>1, <3>1, <3>2
<1>10. Adopted(w, u, Children(w, n), f)
  BY <1>4, <1>9, AdoptChildrenIs DEF u
<1> HIDE DEF pre2, q, z, new
<1>11. /\ NewNodes(t, w) = {f} /\ NewArrays(t, w) = {}
  <2>1. NewNodes(t, w) = f..f
    BY <1>9 DEF NewNodes, f
  <2>2. NewArrays(t, w) = (Len(t.arrays) + 1)..Len(t.arrays)
    BY <1>9 DEF NewArrays
  <2>3. \A x \in Nat : x..x = {x} /\ (x + 1)..x = {}
    OBVIOUS
  <2>4. QED
    BY <1>1, <1>4, <2>1, <2>2, <2>3
<1>12. /\ pre2 \in [1..f -> Seq(Nat)] /\ \A x \in N : pre2[x] = pre[x]
       /\ pre2[f] = pre[n] /\ at \in [1..Len(t.arrays) -> Seq(Nat)]
  <2>1. \A x \in N : pre[x] \in Seq(Nat)
    BY ShapeTypes
  <2>2. QED
    BY <1>4, <2>1 DEF pre2, Shape, Laid
<1>13. \A i \in 1..Len(w.table) :
         (i \in 1..L /\ w.table[i] = t.table[i]) \/ w.table[i] <= Len(w.nodes)
  <2>1. f <= f
    BY <1>4
  <2>2. \A i \in 1..Len(w.table) : i = new \/ i \in 1..L
    BY <1>1, <1>7, <1>9
  <2>3. QED
    BY <1>7, <1>9, <2>1, <2>2, SMTT(20)
<1>14. /\ w.nodes[f].parent <= Len(w.nodes) /\ w.nodes[f].kids <= Len(w.arrays) /\ new <= Len(w.table)
       /\ Len(t.nodes) <= Len(w.nodes) /\ Len(t.arrays) <= Len(w.arrays) /\ L <= Len(w.table)
  <2>1. t.nodes[n].parent <= f /\ t.nodes[n].kids <= Len(t.arrays) /\ Len(t.nodes) <= f
        /\ Len(t.arrays) <= Len(t.arrays)
    BY <1>1 DEF f
  <2>2. new <= Len(v.table) /\ L <= Len(v.table)
    <3> HIDE DEF L, id
    <3>1. CASE id = 0
      BY <1>1, <1>7, <3>1
    <3>2. CASE id # 0
      BY <1>1, <1>7, <3>2
    <3>3. QED
      BY <3>1, <3>2
  <2>3. QED
    BY <1>9, <2>1, <2>2
<1>15. Rewrites(t, pre, at, w, pre2, at, n)
  <2>1. \A x \in N :
         /\ w.nodes[x].chars = t.nodes[x].chars /\ w.nodes[x].id = t.nodes[x].id
         /\ w.nodes[x].kids = t.nodes[x].kids /\ pre2[x] = pre[x]
         /\ w.nodes[x].flag = IF x = n THEN "moved" ELSE t.nodes[x].flag
         /\ \/ w.nodes[x].parent = t.nodes[x].parent /\ x # n
            \/ w.nodes[x].parent \in NewNodes(t, w) /\ ~Moved(t, x)
    BY <1>9, <1>11, <1>12
  <2>2. \A x \in NewNodes(t, w) :
         /\ w.nodes[x].flag = "none"
         /\ w.nodes[x].parent <= Len(w.nodes) /\ w.nodes[x].kids <= Len(w.arrays)
         /\ w.nodes[x].id <= Len(w.table)
    BY <1>9, <1>11, <1>14
  <2>3. /\ w \in Tries /\ Len(w.count) = Len(w.table) /\ w.pairs = t.pairs
        /\ pre2 \in [1..Len(w.nodes) -> Seq(Nat)] /\ at \in [1..Len(w.arrays) -> Seq(Nat)]
        /\ \A a \in A : w.arrays[a] = t.arrays[a] /\ at[a] = at[a]
    BY <1>7, <1>9, <1>12
  <2>4. QED
    BY <1>11, <1>13, <1>14, <2>1, <2>2, <2>3 DEF Rewrites
<1>16. Keeps(t, pre, at, w, pre2, at, n) /\ Chained(w, at)
  BY <1>15, RewritesKeeps
<1>17. /\ n # 0 /\ pre2[w.nodes[n].parent] = pre[n]
       /\ Letter(w, w.nodes[n].parent) = Letter(t, n) /\ w.nodes[n].parent = f
       /\ Relocates(t, pre, w, pre2, n)
  <2>1. n # 0
    BY <1>1
  <2>2. w.nodes[n].parent = f
    BY <1>9
  <2>3. pre2[f] = pre[n] /\ Letter(w, f) = Letter(t, n) /\ f \in NewNodes(t, w)
    BY <1>9, <1>11, <1>12 DEF Letter
  <2>4. QED
    BY <2>1, <2>2, <2>3 DEF Relocates
<1>18. Settles(t, w, pre2, at, n)
  BY <1>9, <1>11, <1>16, <1>17 DEF Settles, Moved
<1>19. pre[n] # Spelled(t, pre, n)
  <2>1. /\ Len(pre[n]) \in Nat /\ Len(t.nodes[n].chars) \in Nat \ {0}
        /\ Len(Spelled(t, pre, n)) = Len(pre[n]) + Len(t.nodes[n].chars)
    BY ShapeTypes
  <2>2. \A x \in Nat, y \in Nat \ {0} : x + y # x
    OBVIOUS
  <2>3. QED
    BY <2>1, <2>2
<1>20. Children(w, n) = {x \in N : ~Moved(t, x) /\ t.nodes[x].parent = n}
  <2>1. /\ \A x \in NewNodes(t, w) : pre2[x] # Spelled(t, pre, n)
        /\ \A a \in NewArrays(t, w) : at[a] # Spelled(t, pre, n)
        /\ w.nodes[n].kids = t.nodes[n].kids
    BY <1>9, <1>11, <1>12, <1>19
  <2>2. QED
    BY <1>16, <1>17, <1>18, <2>1, ChildrenAre
<1> DEFINE K == {x \in N : ~Moved(t, x) /\ t.nodes[x].parent = n}
<1>21. /\ u \in Tries /\ Len(u.nodes) = f /\ u.arrays = t.arrays /\ u.pairs = t.pairs
       /\ u.table = v.table /\ u.count = v.count
       /\ \A x \in N : /\ u.nodes[x].chars = t.nodes[x].chars /\ u.nodes[x].id = t.nodes[x].id
                       /\ u.nodes[x].kids = t.nodes[x].kids
                       /\ u.nodes[x].flag = IF x = n THEN "moved" ELSE t.nodes[x].flag
                       /\ u.nodes[x].parent = IF x \in K THEN f ELSE w.nodes[x].parent
       /\ u.nodes[f].chars = t.nodes[n].chars /\ u.nodes[f].parent = t.nodes[n].parent
       /\ u.nodes[f].id = new /\ u.nodes[f].kids = t.nodes[n].kids /\ u.nodes[f].flag = "none"
  <2>1. f \notin K
    BY <1>4
  <2> HIDE DEF K
  <2>2. Adopted(w, u, K, f)
    BY <1>10, <1>20 DEF K
  <2>3. QED
    BY <1>4, <1>9, <2>1, <2>2 DEF Adopted
<1>22. n \notin K
  BY ParentAbove
<1>23. \A x \in N : u.nodes[x].parent = IF x = n \/ x \in K THEN f ELSE t.nodes[x].parent
  BY <1>9, <1>21
<1>24. \A x \in K : x \in N /\ ~Moved(t, x) /\ t.nodes[x].parent = n
  OBVIOUS
<1>25. \A x \in N : ~Moved(t, x) /\ t.nodes[x].parent = n => x \in K
  OBVIOUS
<1> HIDE DEF K
<1>26. NewNodes(t, u) = {f} /\ NewArrays(t, u) = {}
  BY <1>9, <1>11, <1>21 DEF NewNodes, NewArrays
<1>27. Rewrites(t, pre, at, u, pre2, at, n)
  <2>1. \A x \in N :
         /\ u.nodes[x].chars = t.nodes[x].chars /\ u.nodes[x].id = t.nodes[x].id
         /\ u.nodes[x].kids = t.nodes[x].kids /\ pre2[x] = pre[x]
         /\ u.nodes[x].flag = IF x = n THEN "moved" ELSE t.nodes[x].flag
         /\ \/ u.nodes[x].parent = t.nodes[x].parent /\ x # n
            \/ u.nodes[x].parent \in NewNodes(t, u) /\ ~Moved(t, x)
    BY <1>12, <1>21, <1>23, <1>24, <1>26
  <2>2. \A x \in NewNodes(t, u) :
         /\ u.nodes[x].flag = "none"
         /\ u.nodes[x].parent <= Len(u.nodes) /\ u.nodes[x].kids <= Len(u.arrays)
         /\ u.nodes[x].id <= Len(u.table)
    BY <1>9, <1>14, <1>21, <1>26
  <2>3. /\ u \in Tries /\ Len(u.count) = Len(u.table) /\ u.pairs = t.pairs
        /\ pre2 \in [1..Len(u.nodes) -> Seq(Nat)] /\ at \in [1..Len(u.arrays) -> Seq(Nat)]
        /\ \A a \in A : u.arrays[a] = t.arrays[a] /\ at[a] = at[a]
    BY <1>7, <1>12, <1>21
  <2>4. \A i \in 1..Len(u.table) :
          (i \in 1..L /\ u.table[i] = t.table[i]) \/ u.table[i] <= Len(u.nodes)
    BY <1>9, <1>13, <1>21
  <2>5. Len(t.nodes) <= Len(u.nodes) /\ Len(t.arrays) <= Len(u.arrays) /\ L <= Len(u.table)
    BY <1>9, <1>14, <1>21
  <2>6. QED
    BY <1>26, <2>1, <2>2, <2>3, <2>4, <2>5 DEF Rewrites
<1>28. Grows(t, u) /\ Keeps(t, pre, at, u, pre2, at, n) /\ Chained(u, at)
  BY <1>27, RewritesKeeps
<1>29. \A x \in N : Moved(u, x) <=> Moved(t, x) \/ x = n
  BY <1>21 DEF Moved
<1>30. /\ Spelled(u, pre2, f) = Spelled(t, pre, n) /\ Letter(u, f) = Letter(t, n) /\ ~Moved(u, f)
       /\ \A x \in N : Spelled(u, pre2, x) = Spelled(t, pre, x) /\ Letter(u, x) = Letter(t, x)
  BY <1>12, <1>21 DEF Spelled, Letter, Moved
<1>31. Moves(t, pre, u, pre2, n, f)
  <2>1. u.nodes[n].parent = f
    BY <1>23
  <2>2. \A x \in N : ~Moved(u, x) =>
          u.nodes[x].parent = IF n # 0 /\ t.nodes[x].parent = n THEN f ELSE t.nodes[x].parent
    BY <1>17, <1>23, <1>24, <1>25, <1>29
  <2>3. QED
    BY <1>12, <1>21, <1>26, <1>30, <2>1, <2>2 DEF Moves
<1>32. Fits(t, u, pre2, at, n)
  <2>1. f = u.nodes[n].parent /\ n # 0
    BY <1>17, <1>23
  <2> DEFINE p == t.nodes[n].parent
  <2>2. /\ u.nodes[f].parent = p
        /\ p = 0 => pre2[f] = << >>
        /\ p # 0 => ~Moved(u, p) /\ u.nodes[p].kids # 0 /\ pre2[f] = Spelled(u, pre2, p)
    <3>1. /\ p # n
          /\ p = 0 => pre[n] = << >>
          /\ p # 0 => /\ p \in N /\ ~Moved(t, p) /\ t.nodes[p].kids # 0
                      /\ pre[n] = Spelled(t, pre, p)
      BY ParentAbove
    <3>2. u.nodes[f].parent = p
      BY <1>21
    <3> HIDE DEF p
    <3>3. QED
      BY <1>12, <1>21, <1>29, <1>30, <3>1, <3>2
  <2>3. \A x \in 1..Len(u.nodes) :
          ~Moved(u, x) /\ pre2[x] = pre2[f] /\ Letter(u, x) = Letter(u, f) => x = f
    <3>1. ASSUME NEW x \in N, ~Moved(u, x), pre2[x] = pre2[f], Letter(u, x) = Letter(u, f) PROVE FALSE
      <4>1. x # n /\ ~Moved(t, x) /\ pre[x] = pre[n] /\ Letter(t, x) = Letter(t, n)
        BY <1>12, <1>29, <1>30, <3>1
      <4>2. QED
        BY <4>1 DEF Shape, Apart
    <3>2. QED
      BY <1>4, <1>21, <3>1
  <2>4. \A x \in 1..Len(u.nodes) :
          u.nodes[x].kids # 0 /\ (x \in N => u.nodes[x].kids # t.nodes[x].kids) =>
            at[u.nodes[x].kids] = Spelled(u, pre2, x) /\ First(u, at, u.nodes[x].kids)
    <3>1. t.nodes[n].kids # 0 => /\ at[t.nodes[n].kids] = Spelled(t, pre, n)
                                 /\ First(t, at, t.nodes[n].kids)
      BY DEF Shape, Kids
    <3>2. t.nodes[n].kids # 0 => First(u, at, t.nodes[n].kids)
      BY <1>21, <3>1 DEF First
    <3>3. QED
      BY <1>4, <1>21, <1>30, <3>1, <3>2
  <2>5. QED
    BY <1>26, <1>28, <1>30, <2>1, <2>2, <2>3, <2>4 DEF Fits
<1>33. Shape(u, pre2, at)
  BY <1>1, <1>28, <1>31, <1>32, Growth
<1>34. /\ z # 0 => z = f /\ id # 0 /\ q = 0
       /\ q # 0 => q = f /\ id = 0
       /\ id # 0 => z = f /\ q = 0
       /\ id = 0 => q = f
  BY <1>4 DEF z, q
<1>35. Registers(t, u, n, z, q)
  <2>1. \A x \in N : u.nodes[x].id = t.nodes[x].id /\ (x # n => u.nodes[x].flag = t.nodes[x].flag)
    BY <1>21
  <2>2. n \in N /\ ~Moved(t, n) /\ Moved(u, n)
    BY <1>29
  <2>3. id # 0 => z \in NewNodes(t, u) /\ z # q
    BY <1>4, <1>26, <1>34
  <2>4. \A x \in NewNodes(t, u) :
          /\ u.nodes[x].flag = "none"
          /\ u.nodes[x].id = IF x = q THEN L + 1 ELSE IF n # 0 /\ x = z THEN id ELSE 0
    <3> HIDE DEF id, L
    <3>1. CASE id = 0
      BY <1>7, <1>21, <1>26, <1>34, <3>1
    <3>2. CASE id # 0
      BY <1>4, <1>7, <1>17, <1>21, <1>26, <1>34, <3>2
    <3>3. QED
      BY <3>1, <3>2
  <2>5. \/ q = 0 /\ Len(u.table) = L
        \/ q \in NewNodes(t, u) /\ Len(u.table) = L + 1
    <3> HIDE DEF id, L
    <3>1. QED
      BY <1>7, <1>21, <1>26, <1>34
  <2>6. /\ \A i \in 1..L :
             /\ u.table[i] = IF n # 0 /\ i = id THEN z ELSE t.table[i]
             /\ ~(n # 0 /\ i = id) => u.count[i] = t.count[i]
        /\ q # 0 => u.table[L + 1] = q
    <3>1. 1..L \subseteq 1..(L + 1) /\ L + 1 \in 1..(L + 1) /\ L + 1 \notin 1..L /\ 0 \notin 1..L
      BY <1>1
    <3> HIDE DEF id, L
    <3>2. CASE id = 0
      <4>1. new = L + 1 /\ Len(u.table) = L + 1 /\ q = f
        BY <1>7, <1>21, <1>34, <3>2
      <4>2. \A i \in 1..(L + 1) :
              /\ u.table[i] = IF i = L + 1 THEN f ELSE t.table[i]
              /\ u.count[i] = IF i = L + 1 THEN 0 ELSE t.count[i]
        BY <1>7, <1>21, <4>1
      <4>3. \A i \in 1..L : i \in 1..(L + 1) /\ i # L + 1 /\ i # id
        BY <3>1, <3>2
      <4>4. QED
        BY <3>1, <4>1, <4>2, <4>3
    <3>3. CASE id # 0
      <4>1. new = id /\ Len(u.table) = L /\ q = 0 /\ z = f
        BY <1>7, <1>21, <1>34, <3>3
      <4>2. QED
        BY <1>7, <1>17, <1>21, <3>1, <3>3, <4>1
    <3>4. QED
      BY <3>2, <3>3
  <2>7. QED
    BY <2>1, <2>2, <2>3, <2>4, <2>5, <2>6 DEF Registers
<1>36. Entries(u)
  BY <1>1, <1>28, <1>35, EntriesGrow
<1>37. id # 0 => /\ Spelled(u, pre2, z) = Spelled(t, pre, n) /\ t.nodes[n].flag = "deleted"
                 /\ u.count[id] = 0
  <2> SUFFICES ASSUME id # 0 PROVE /\ Spelled(u, pre2, z) = Spelled(t, pre, n)
                                   /\ t.nodes[n].flag = "deleted" /\ u.count[id] = 0
    OBVIOUS
  <2>1. t.nodes[n].flag = "deleted" /\ z = f
    BY <1>34
  <2> HIDE DEF id, L
  <2>2. id \in 1..Len(u.table) /\ new = id
    BY <1>7, <1>21
  <2>3. QED
    BY <1>7, <1>21, <1>30, <2>1, <2>2
<1>38. q # 0 => Spelled(u, pre2, q) = Spelled(t, pre, n) /\ u.count[L + 1] = 0
  <2> SUFFICES ASSUME q # 0 PROVE Spelled(u, pre2, q) = Spelled(t, pre, n) /\ u.count[L + 1] = 0
    OBVIOUS
  <2>1. id = 0 /\ q = f /\ L + 1 \in 1..(L + 1)
    BY <1>1, <1>34
  <2> HIDE DEF id, L
  <2>2. new = L + 1 /\ Len(u.table) = L + 1
    BY <1>7, <1>21, <2>1
  <2>3. QED
    BY <1>7, <1>21, <1>30, <2>1, <2>2
<1>39. Added(t, u, Spelled(t, pre, n))
  <2>1. n \in Nat /\ n # 0
    BY <1>1
  <2>2. q = 0 => id # 0
    BY <1>4, <1>34
  <2>3. QED
    BY <1>28, <1>33, <1>35, <1>36, <1>37, <1>38, <2>1, <2>2, CountsGrow
<1>40. QED
  BY <1>2, <1>39
=============================================================================
