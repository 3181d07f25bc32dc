------------------------- MODULE PatriciaTrie_proofs -------------------------
(***************************************************************************)
(* The promises of the updatable native dictionary, for every set of words *)
(* and of contexts: what is typed is learnt and what is removed is         *)
(* forgotten, no other word is lost or changed by a split, a move or a     *)
(* compaction, and no pair turns up that was not typed.                    *)
(*                                                                         *)
(* The inductive invariant is TrieInv: the trie is Sound, as defined in    *)
(* PatriciaTrieShape_proofs.  It is needed because each promise is about   *)
(* words, which only the walk from the root can tell, and a step changes   *)
(* nodes and arrays the walk may or may not go through.                    *)
(*                                                                         *)
(* This module has the split of a node, the steps that only change         *)
(* entries, the compaction, and the theorems.                              *)
(***************************************************************************)
EXTENDS PatriciaTrieShape_proofs

----------------------------------------------------------------------------
(* A node that is split. *)

\* One more node at the end of the buffer.
OneMore(t, u, node) ==
    /\ Len(u.nodes) = Len(t.nodes) + 1
    /\ \A x \in 1..Len(t.nodes) : u.nodes[x] = t.nodes[x]
    /\ u.nodes[Len(t.nodes) + 1] = node

LEMMA OneMoreIs ==
    ASSUME NEW t \in Tries, NEW u, NEW r \in Nodes, u.nodes = Append(t.nodes, r)
    PROVE  OneMore(t, u, r)
<1>1. t.nodes \in Seq(Nodes)
  BY DEF Tries
<1>2. QED
  BY <1>1, AppendFacts DEF OneMore

LEMMA AddArrayIs ==
    ASSUME NEW t \in Tries, NEW s \in Seq(Nat)
    PROVE  LET u == AddArray(t, s)
           IN  /\ u \in Tries /\ u.nodes = t.nodes /\ u.table = t.table
               /\ u.count = t.count /\ u.pairs = t.pairs
               /\ Len(u.arrays) = Len(t.arrays) + 1
               /\ \A a \in 1..Len(t.arrays) : u.arrays[a] = t.arrays[a]
               /\ u.arrays[Len(t.arrays) + 1] = [members |-> s, next |-> 0]
<1> DEFINE r == [members |-> s, next |-> 0]
           B == Append(t.arrays, r)
           u == AddArray(t, s)
<1>1. t.arrays \in Seq(Arrays)
  BY DEF Tries
<1>2. r \in Arrays
  BY DEF Arrays
<1>3. u = [t EXCEPT !.arrays = B]
  BY DEF AddArray
<1> HIDE DEF r, u
<1>4. /\ B \in Seq(Arrays) /\ Len(B) = Len(t.arrays) + 1
      /\ \A i \in 1..Len(t.arrays) : B[i] = t.arrays[i]
      /\ B[Len(t.arrays) + 1] = r
  BY <1>1, <1>2, AppendFacts
<1> HIDE DEF B
<1>5. /\ u \in Tries /\ u.arrays = B /\ u.nodes = t.nodes /\ u.table = t.table
      /\ u.count = t.count /\ u.pairs = t.pairs
  BY <1>3, <1>4, WithArrays
<1>6. QED
  BY <1>4, <1>5 DEF u, r

\* The buffers with what a split adds: the letters c1 and c2 of the node n, and
\* the rest c3 of the word, if any, as a sibling of the second part.
Parted(t, v, n, c1, c2, c3) ==
    LET f == Len(t.nodes) + 1
        L == Len(t.table)
        id == t.nodes[n].id
        q == IF c3 = << >> THEN f ELSE f + 2
    IN  /\ v \in Tries /\ v.pairs = t.pairs
        /\ Len(v.nodes) = IF c3 = << >> THEN f + 1 ELSE f + 2
        /\ \A x \in 1..Len(t.nodes) : v.nodes[x] = t.nodes[x]
        /\ v.nodes[f] = NodeOf(c1, t.nodes[n].parent, IF c3 = << >> THEN L + 1 ELSE 0, 0)
        /\ v.nodes[f + 1] = NodeOf(c2, f, id, t.nodes[n].kids)
        /\ c3 # << >> => v.nodes[f + 2] = NodeOf(c3, f, L + 1, 0)
        /\ Len(v.arrays) = Len(t.arrays) + 1
        /\ \A a \in 1..Len(t.arrays) : v.arrays[a] = t.arrays[a]
        /\ v.arrays[Len(t.arrays) + 1] =
             [members |-> IF c3 = << >> THEN <<f + 1>> ELSE <<f + 1, f + 2>>, next |-> 0]
        /\ Len(v.table) = L + 1 /\ Len(v.count) = L + 1
        /\ \A i \in 1..L : /\ v.table[i] = IF i = id THEN f + 1 ELSE t.table[i]
                           /\ v.count[i] = t.count[i]
        /\ v.table[L + 1] = q /\ v.count[L + 1] = 0

LEMMA PartedShort ==
    ASSUME NEW t \in Tries, Len(t.count) = Len(t.table), NEW n \in 1..Len(t.nodes),
           t.nodes[n].id \in 0..Len(t.table),
           NEW c1 \in Seq(Nat), c1 # << >>, NEW c2 \in Seq(Nat), c2 # << >>
    PROVE  LET f == Len(t.nodes) + 1
               id == t.nodes[n].id
               t1 == WriteNewTerminal(t, c1, t.nodes[n].parent, 0, 0)
               t2 == AddArray(t1, <<f + 1>>)
               t3 == WriteNode(t2, c2, f, id, t.nodes[n].kids, id # 0)
           IN  Parted(t, t3, n, c1, c2, << >>) /\ NextArray(t1) = Len(t.arrays) + 1
<1> DEFINE f == Len(t.nodes) + 1
           id == t.nodes[n].id
           L == Len(t.table)
           p == t.nodes[n].parent
           c == t.nodes[n].kids
           t1 == WriteNewTerminal(t, c1, p, 0, 0)
           t2 == AddArray(t1, <<f + 1>>)
           b == id # 0
           t3 == WriteNode(t2, c2, f, id, c, b)
           r1 == NodeOf(c1, p, L + 1, 0)
           r2 == NodeOf(c2, f, id, c)
<1>1. /\ p \in Nat /\ c \in Nat /\ f \in Nat /\ f # 0 /\ L \in Nat /\ L + 1 \in Nat /\ f + 1 \in Nat
      /\ Len(t.arrays) \in Nat /\ id \in 0..(L + 1) /\ id # L + 1 /\ 0 \in 0..L /\ b \in BOOLEAN
      /\ <<f + 1>> \in Seq(Nat)
  <2>1. p \in Nat /\ c \in Nat /\ Len(t.nodes) \in Nat /\ L \in Nat /\ Len(t.arrays) \in Nat /\ id \in 0..L
    BY TypesOf
  <2>2. \A x \in Nat : /\ x + 1 \in Nat /\ x + 1 # 0
                       /\ \A i \in 0..x : i \in 0..(x + 1) /\ i # x + 1
                       /\ 0 \in 0..x /\ <<x>> \in Seq(Nat)
    BY SMTT(20)
  <2>3. b \in BOOLEAN
    OBVIOUS
  <2> HIDE DEF p, c, L, id, b
  <2>4. QED
    BY <2>1, <2>2, <2>3
<1>2. IdFor(t, 0, TRUE) = L + 1
  BY DEF IdFor
<1> HIDE DEF f, id, p, c, b, t1, t2, t3, r1, r2
<1>3. WroteTerminal(t, t1, c1, p, L + 1, 0)
  <2>1. WroteTerminal(t, t1, c1, p, IdFor(t, 0, TRUE), 0)
    BY <1>1, WriteNewTerminalIs DEF t1
  <2> HIDE DEF L
  <2>2. QED
    BY <1>2, <2>1, Zenon
<1>4. /\ t1 \in Tries /\ t1.arrays = t.arrays /\ t1.pairs = t.pairs
      /\ t1.nodes = Append(t.nodes, r1) /\ r1 \in Nodes
      /\ Len(t1.table) = L + 1 /\ Len(t1.count) = Len(t1.table)
      /\ \A i \in 1..(L + 1) :
           /\ t1.table[i] = IF i = L + 1 THEN f ELSE t.table[i]
           /\ t1.count[i] = IF i = L + 1 THEN 0 ELSE t.count[i]
  BY <1>3 DEF WroteTerminal, r1, NextNode, f
<1>5. OneMore(t, t1, r1)
  BY <1>4, OneMoreIs
<1>6. /\ t2 \in Tries /\ t2.nodes = t1.nodes /\ t2.table = t1.table
      /\ t2.count = t1.count /\ t2.pairs = t1.pairs
      /\ Len(t2.arrays) = Len(t.arrays) + 1
      /\ \A a \in 1..Len(t.arrays) : t2.arrays[a] = t.arrays[a]
      /\ t2.arrays[Len(t.arrays) + 1] = [members |-> <<f + 1>>, next |-> 0]
  <2>1. /\ t2 \in Tries /\ t2.nodes = t1.nodes /\ t2.table = t1.table
        /\ t2.count = t1.count /\ t2.pairs = t1.pairs
        /\ Len(t2.arrays) = Len(t1.arrays) + 1
        /\ \A a \in 1..Len(t1.arrays) : t2.arrays[a] = t1.arrays[a]
        /\ t2.arrays[Len(t1.arrays) + 1] = [members |-> <<f + 1>>, next |-> 0]
    BY <1>1, <1>4, AddArrayIs DEF t2
  <2>2. QED
    BY <1>4, <2>1
<1>7. IdFor(t2, id, b) = id
  BY DEF IdFor, b
<1>8. Wrote(t2, t3, c2, f, id, c)
  <2>1. Len(t2.count) = Len(t2.table) /\ id \in 0..Len(t2.table)
    BY <1>1, <1>4, <1>6
  <2>2. Wrote(t2, t3, c2, f, IdFor(t2, id, b), c)
    BY <1>1, <1>6, <2>1, WriteNodeIs DEF t3
  <2>3. QED
    BY <1>7, <2>2, Zenon
<1>9. /\ t3 \in Tries /\ t3.arrays = t2.arrays /\ t3.pairs = t.pairs
      /\ t3.nodes = Append(t2.nodes, r2) /\ r2 \in Nodes
      /\ Len(t3.count) = Len(t3.table)
      /\ Len(t3.table) = IF id = (L + 1) + 1 THEN id ELSE L + 1
      /\ \A i \in 1..Len(t3.table) :
           /\ t3.table[i] = IF i = id THEN NextNode(t2) ELSE t2.table[i]
           /\ t3.count[i] = IF i = (L + 1) + 1 THEN NoEntry ELSE t2.count[i]
  <2>1. /\ t3 \in Tries /\ t3.arrays = t2.arrays /\ t3.pairs = t2.pairs
        /\ t3.nodes = Append(t2.nodes, r2) /\ r2 \in Nodes
        /\ Len(t3.count) = Len(t3.table)
    BY <1>8 DEF Wrote, r2
  <2>2. /\ Len(t3.table) = IF id = Len(t2.table) + 1 THEN id ELSE Len(t2.table)
        /\ \A i \in 1..Len(t3.table) :
             /\ t3.table[i] = IF i = id THEN NextNode(t2) ELSE t2.table[i]
             /\ t3.count[i] = IF i = Len(t2.table) + 1 THEN NoEntry ELSE t2.count[i]
    BY <1>8 DEF Wrote
  <2>3. Len(t2.table) = L + 1 /\ t2.pairs = t.pairs
    BY <1>4, <1>6
  <2> HIDE DEF L
  <2>4. QED
    BY <2>1, <2>2, <2>3
<1>10. Len(t3.table) = L + 1 /\ \A i \in 1..(L + 1) : i # (L + 1) + 1
  BY <1>1, <1>9
<1>11. OneMore(t2, t3, r2)
  BY <1>6, <1>9, OneMoreIs
<1>12. /\ Len(t3.nodes) = f + 1 /\ t3.nodes[f + 1] = r2 /\ t3.nodes[f] = r1
       /\ \A x \in 1..Len(t.nodes) : t3.nodes[x] = t.nodes[x]
       /\ NextNode(t2) = f + 1
  <2>1. /\ Len(t1.nodes) = f /\ t1.nodes[f] = r1
        /\ \A x \in 1..Len(t.nodes) : t1.nodes[x] = t.nodes[x]
    BY <1>5 DEF OneMore, f
  <2>2. /\ Len(t3.nodes) = f + 1 /\ t3.nodes[f + 1] = r2
        /\ \A x \in 1..f : t3.nodes[x] = t1.nodes[x]
    BY <1>6, <1>11, <2>1 DEF OneMore
  <2>3. f \in 1..f /\ \A x \in 1..Len(t.nodes) : x \in 1..f
    <3>1. \A x \in Nat : x + 1 \in 1..(x + 1) /\ \A i \in 1..x : i \in 1..(x + 1)
      OBVIOUS
    <3>2. Len(t.nodes) \in Nat
      BY TypesOf
    <3>3. QED
      BY <3>1, <3>2 DEF f
  <2>4. QED
    BY <1>6, <2>1, <2>2, <2>3 DEF NextNode
<1>13. /\ \A i \in 1..L : /\ t3.table[i] = IF i = id THEN f + 1 ELSE t.table[i]
                          /\ t3.count[i] = t.count[i]
       /\ t3.table[L + 1] = f /\ t3.count[L + 1] = 0
  <2>1. /\ \A i \in 1..L : i \in 1..(L + 1) /\ i # L + 1
        /\ L + 1 \in 1..(L + 1)
    BY <1>1, Beyond, Zenon
  <2>2. QED
    <3>1. \A i \in 1..(L + 1) : /\ t3.table[i] = IF i = id THEN f + 1 ELSE t1.table[i]
                                /\ t3.count[i] = t1.count[i]
      BY <1>6, <1>9, <1>10, <1>12
    <3>2. \A i \in 1..(L + 1) : /\ t1.table[i] = IF i = L + 1 THEN f ELSE t.table[i]
                                /\ t1.count[i] = IF i = L + 1 THEN 0 ELSE t.count[i]
      BY <1>4
    <3> HIDE DEF L
    <3>3. QED
      BY <1>1, <2>1, <3>1, <3>2
<1>14. Parted(t, t3, n, c1, c2, << >>)
  <2>1. \A a \in 1..Len(t.arrays) : t3.arrays[a] = t.arrays[a]
    BY <1>6, <1>9
  <2>2. t3.arrays[Len(t.arrays) + 1] = [members |-> <<f + 1>>, next |-> 0] /\ Len(t3.arrays) = Len(t.arrays) + 1
    BY <1>6, <1>9
  <2>3. Len(t3.table) = L + 1 /\ Len(t3.count) = L + 1
    BY <1>9, <1>10
  <2>4. QED
    BY <1>9, <1>12, <1>13, <2>1, <2>2, <2>3 DEF Parted, f, id, r1, r2, p, c
<1>15. QED
  BY <1>4, <1>14 DEF t1, t2, t3, f, id, p, c, b, NextArray

LEMMA PartedLong ==
    ASSUME NEW t \in Tries, Len(t.count) = Len(t.table), NEW n \in 1..Len(t.nodes),
           t.nodes[n].id \in 0..Len(t.table),
           NEW c1 \in Seq(Nat), c1 # << >>, NEW c2 \in Seq(Nat), c2 # << >>,
           NEW c3 \in Seq(Nat), c3 # << >>
    PROVE  LET f == Len(t.nodes) + 1
               id == t.nodes[n].id
               t1 == WriteNode(t, c1, t.nodes[n].parent, 0, 0, FALSE)
               t2 == AddArray(t1, <<f + 1, f + 2>>)
               t3 == WriteNode(t2, c2, f, id, t.nodes[n].kids, id # 0)
               t4 == WriteNewTerminal(t3, c3, f, 0, 0)
           IN  Parted(t, t4, n, c1, c2, c3) /\ NextArray(t1) = Len(t.arrays) + 1
<1> DEFINE f == Len(t.nodes) + 1
           id == t.nodes[n].id
           L == Len(t.table)
           p == t.nodes[n].parent
           c == t.nodes[n].kids
           t1 == WriteNode(t, c1, p, 0, 0, FALSE)
           t2 == AddArray(t1, <<f + 1, f + 2>>)
           b == id # 0
           t3 == WriteNode(t2, c2, f, id, c, b)
           t4 == WriteNewTerminal(t3, c3, f, 0, 0)
           r1 == NodeOf(c1, p, 0, 0)
           r2 == NodeOf(c2, f, id, c)
           r3 == NodeOf(c3, f, L + 1, 0)
<1>1. /\ p \in Nat /\ c \in Nat /\ f \in Nat /\ f # 0 /\ L \in Nat /\ L + 1 \in Nat /\ f + 1 \in Nat
      /\ Len(t.arrays) \in Nat /\ id \in 0..L /\ id # L + 1 /\ 0 \in 0..L /\ b \in BOOLEAN
      /\ 0 # L + 1 /\ \A i \in 1..L : i # 0 /\ i # L + 1
      /\ <<f + 1, f + 2>> \in Seq(Nat) /\ f + 2 = (f + 1) + 1
  <2>1. p \in Nat /\ c \in Nat /\ Len(t.nodes) \in Nat /\ L \in Nat /\ Len(t.arrays) \in Nat /\ id \in 0..L
    BY TypesOf
  <2>2. \A x \in Nat : /\ x + 1 \in Nat /\ x + 1 # 0 /\ x + 2 = (x + 1) + 1
                       /\ \A i \in 0..x : i # x + 1
                       /\ \A i \in 1..x : i # x + 1 /\ i # 0
                       /\ 0 \in 0..x /\ <<x + 1, x + 2>> \in Seq(Nat)
    OBVIOUS
  <2>3. b \in BOOLEAN
    OBVIOUS
  <2> HIDE DEF p, c, L, id, b
  <2>4. QED
    BY <2>1, <2>2, <2>3
<1>2. IdFor(t, 0, FALSE) = 0
  BY DEF IdFor
<1> HIDE DEF f, id, p, c, b, t1, t2, t3, t4, r1, r2, r3
<1>3. Wrote(t, t1, c1, p, 0, 0)
  <2>1. FALSE \in BOOLEAN /\ 0 \in Nat
    OBVIOUS
  <2>2. Wrote(t, t1, c1, p, IdFor(t, 0, FALSE), 0)
    BY <1>1, <2>1, WriteNodeIs DEF t1
  <2>3. QED
    BY <1>2, <2>2, Zenon
<1>4. /\ t1 \in Tries /\ t1.arrays = t.arrays /\ t1.pairs = t.pairs
      /\ t1.nodes = Append(t.nodes, r1) /\ r1 \in Nodes
      /\ Len(t1.table) = L /\ Len(t1.count) = L
      /\ \A i \in 1..L : t1.table[i] = t.table[i] /\ t1.count[i] = t.count[i]
  <2>1. /\ t1 \in Tries /\ t1.arrays = t.arrays /\ t1.pairs = t.pairs
        /\ t1.nodes = Append(t.nodes, r1) /\ r1 \in Nodes
        /\ Len(t1.count) = Len(t1.table)
    BY <1>3 DEF Wrote, r1
  <2>2. /\ Len(t1.table) = IF 0 = L + 1 THEN 0 ELSE L
        /\ \A i \in 1..Len(t1.table) :
             /\ t1.table[i] = IF i = 0 THEN NextNode(t) ELSE t.table[i]
             /\ t1.count[i] = IF i = L + 1 THEN NoEntry ELSE t.count[i]
    BY <1>3 DEF Wrote
  <2> HIDE DEF L
  <2>3. QED
    BY <1>1, <2>1, <2>2
<1>5. OneMore(t, t1, r1)
  BY <1>4, OneMoreIs
<1>6. /\ t2 \in Tries /\ t2.nodes = t1.nodes /\ t2.table = t1.table
      /\ t2.count = t1.count /\ t2.pairs = t1.pairs
      /\ Len(t2.arrays) = Len(t.arrays) + 1
      /\ \A a \in 1..Len(t.arrays) : t2.arrays[a] = t.arrays[a]
      /\ t2.arrays[Len(t.arrays) + 1] = [members |-> <<f + 1, f + 2>>, next |-> 0]
  <2>1. /\ t2 \in Tries /\ t2.nodes = t1.nodes /\ t2.table = t1.table
        /\ t2.count = t1.count /\ t2.pairs = t1.pairs
        /\ Len(t2.arrays) = Len(t1.arrays) + 1
        /\ \A a \in 1..Len(t1.arrays) : t2.arrays[a] = t1.arrays[a]
        /\ t2.arrays[Len(t1.arrays) + 1] = [members |-> <<f + 1, f + 2>>, next |-> 0]
    BY <1>1, <1>4, AddArrayIs DEF t2
  <2>2. QED
    BY <1>4, <2>1
<1>7. IdFor(t2, id, b) = id
  BY DEF IdFor, b
<1>8. Wrote(t2, t3, c2, f, id, c)
  <2>1. Len(t2.count) = Len(t2.table) /\ id \in 0..Len(t2.table)
    BY <1>1, <1>4, <1>6
  <2>2. Wrote(t2, t3, c2, f, IdFor(t2, id, b), c)
    BY <1>1, <1>6, <2>1, WriteNodeIs DEF t3
  <2>3. QED
    BY <1>7, <2>2, Zenon
<1>9. /\ t3 \in Tries /\ t3.arrays = t2.arrays /\ t3.pairs = t.pairs
      /\ t3.nodes = Append(t2.nodes, r2) /\ r2 \in Nodes
      /\ Len(t3.table) = L /\ Len(t3.count) = L
      /\ \A i \in 1..L : /\ t3.table[i] = IF i = id THEN NextNode(t2) ELSE t.table[i]
                         /\ t3.count[i] = t.count[i]
  <2>1. /\ t3 \in Tries /\ t3.arrays = t2.arrays /\ t3.pairs = t2.pairs
        /\ t3.nodes = Append(t2.nodes, r2) /\ r2 \in Nodes
        /\ Len(t3.count) = Len(t3.table)
    BY <1>8 DEF Wrote, r2
  <2>2. /\ Len(t3.table) = IF id = Len(t2.table) + 1 THEN id ELSE Len(t2.table)
        /\ \A i \in 1..Len(t3.table) :
             /\ t3.table[i] = IF i = id THEN NextNode(t2) ELSE t2.table[i]
             /\ t3.count[i] = IF i = Len(t2.table) + 1 THEN NoEntry ELSE t2.count[i]
    BY <1>8 DEF Wrote
  <2>3. Len(t2.table) = L /\ t2.pairs = t.pairs /\ t2.table = t1.table /\ t2.count = t1.count
    BY <1>4, <1>6
  <2> HIDE DEF L
  <2>4. id # L + 1
    BY <1>1
  <2>5. Len(t3.table) = L
    BY <2>2, <2>3, <2>4
  <2>6. \A i \in 1..L : i # L + 1
    BY <1>1, Beyond, Zenon
  <2>7. \A i \in 1..L : /\ t3.table[i] = IF i = id THEN NextNode(t2) ELSE t.table[i]
                       /\ t3.count[i] = t.count[i]
    <3> SUFFICES ASSUME NEW i \in 1..L
                 PROVE  /\ t3.table[i] = IF i = id THEN NextNode(t2) ELSE t.table[i]
                        /\ t3.count[i] = t.count[i]
      OBVIOUS
    <3>1. t2.table[i] = t.table[i] /\ t2.count[i] = t.count[i]
      BY <1>4, <2>3
    <3>2. /\ t3.table[i] = IF i = id THEN NextNode(t2) ELSE t2.table[i]
          /\ t3.count[i] = IF i = Len(t2.table) + 1 THEN NoEntry ELSE t2.count[i]
      BY <2>2, <2>5
    <3>3. i # Len(t2.table) + 1
      BY <2>3, <2>6
    <3>4. QED
      BY <3>1, <3>2, <3>3
  <2>8. QED
    BY <2>1, <2>3, <2>5, <2>7
<1>10. OneMore(t2, t3, r2)
  BY <1>6, <1>9, OneMoreIs
<1>11. WroteTerminal(t3, t4, c3, f, L + 1, 0)
  <2>1. IdFor(t3, 0, TRUE) = L + 1
    BY <1>9 DEF IdFor
  <2>2. Len(t3.count) = Len(t3.table) /\ 0 \in 0..Len(t3.table) /\ 0 \in Nat
    BY <1>1, <1>9
  <2>3. WroteTerminal(t3, t4, c3, f, IdFor(t3, 0, TRUE), 0)
    BY <1>1, <1>9, <2>2, WriteNewTerminalIs DEF t4
  <2> HIDE DEF L
  <2>4. QED
    BY <2>1, <2>3, Zenon
<1>12. /\ t4 \in Tries /\ t4.arrays = t3.arrays /\ t4.pairs = t.pairs
       /\ t4.nodes = Append(t3.nodes, r3) /\ r3 \in Nodes
       /\ Len(t4.table) = L + 1 /\ Len(t4.count) = L + 1
       /\ \A i \in 1..(L + 1) :
            /\ t4.table[i] = IF i = L + 1 THEN NextNode(t3) ELSE t3.table[i]
            /\ t4.count[i] = IF i = L + 1 THEN 0 ELSE t3.count[i]
  <2>1. /\ t4 \in Tries /\ t4.arrays = t3.arrays /\ t4.pairs = t3.pairs
        /\ t4.nodes = Append(t3.nodes, r3) /\ r3 \in Nodes
        /\ Len(t4.count) = Len(t4.table)
    BY <1>11 DEF WroteTerminal, r3
  <2>2. /\ Len(t4.table) = IF L + 1 = Len(t3.table) + 1 THEN L + 1 ELSE Len(t3.table)
        /\ \A i \in 1..Len(t4.table) :
             /\ t4.table[i] = IF i = L + 1 THEN NextNode(t3) ELSE t3.table[i]
             /\ t4.count[i] = IF i = L + 1 THEN 0 ELSE t3.count[i]
    BY <1>11 DEF WroteTerminal
  <2> HIDE DEF L
  <2>3. QED
    BY <1>9, <2>1, <2>2
<1>13. OneMore(t3, t4, r3)
  BY <1>9, <1>12, OneMoreIs
<1>14. /\ Len(t4.nodes) = f + 2 /\ t4.nodes[f] = r1 /\ t4.nodes[f + 1] = r2 /\ t4.nodes[f + 2] = r3
       /\ \A x \in 1..Len(t.nodes) : t4.nodes[x] = t.nodes[x]
       /\ NextNode(t2) = f + 1 /\ NextNode(t3) = f + 2
  <2>1. /\ Len(t1.nodes) = f /\ t1.nodes[f] = r1
        /\ \A x \in 1..Len(t.nodes) : t1.nodes[x] = t.nodes[x]
    BY <1>5 DEF OneMore, f
  <2>2. /\ Len(t3.nodes) = f + 1 /\ t3.nodes[f + 1] = r2
        /\ \A x \in 1..f : t3.nodes[x] = t1.nodes[x]
    BY <1>6, <1>10, <2>1 DEF OneMore
  <2>3. /\ Len(t4.nodes) = f + 2 /\ t4.nodes[f + 2] = r3
        /\ \A x \in 1..(f + 1) : t4.nodes[x] = t3.nodes[x]
    BY <1>1, <1>13, <2>2 DEF OneMore
  <2>4. /\ f \in 1..f /\ f \in 1..(f + 1) /\ f + 1 \in 1..(f + 1)
        /\ \A x \in 1..Len(t.nodes) : x \in 1..f /\ x \in 1..(f + 1)
    <3>1. \A x \in Nat : /\ x + 1 \in 1..(x + 1) /\ x + 1 \in 1..((x + 1) + 1)
                         /\ (x + 1) + 1 \in 1..((x + 1) + 1)
                         /\ \A y \in 1..x : y \in 1..(x + 1) /\ y \in 1..((x + 1) + 1)
      OBVIOUS
    <3>2. Len(t.nodes) \in Nat
      BY TypesOf
    <3>3. QED
      BY <3>1, <3>2 DEF f
  <2>5. NextNode(t2) = f + 1 /\ NextNode(t3) = f + 2
    BY <1>1, <1>6, <2>1, <2>2 DEF NextNode
  <2>6. QED
    BY <2>1, <2>2, <2>3, <2>4, <2>5
<1>15. /\ \A i \in 1..L : /\ t4.table[i] = IF i = id THEN f + 1 ELSE t.table[i]
                          /\ t4.count[i] = t.count[i]
       /\ t4.table[L + 1] = f + 2 /\ t4.count[L + 1] = 0
  <2>1. /\ \A i \in 1..L : i \in 1..(L + 1) /\ i # L + 1
        /\ L + 1 \in 1..(L + 1)
    <3>1. \A x \in Nat : /\ \A i \in 1..x : i \in 1..(x + 1) /\ i # x + 1
                         /\ x + 1 \in 1..(x + 1)
      OBVIOUS
    <3>2. L \in Nat
      BY TypesOf DEF L
    <3>3. QED
      BY <3>1, <3>2
  <2> HIDE DEF L
  <2>2. QED
    BY <1>9, <1>12, <1>14, <2>1
<1>16. Parted(t, t4, n, c1, c2, c3)
  <2>1. \A a \in 1..Len(t.arrays) : t4.arrays[a] = t.arrays[a]
    BY <1>6, <1>9, <1>12
  <2>2. /\ t4.arrays[Len(t.arrays) + 1] = [members |-> <<f + 1, f + 2>>, next |-> 0]
        /\ Len(t4.arrays) = Len(t.arrays) + 1
    BY <1>6, <1>9, <1>12
  <2>3. QED
    BY <1>12, <1>14, <1>15, <2>1, <2>2 DEF Parted, f, id, r1, r2, r3, p, c
<1>17. QED
  BY <1>4, <1>16 DEF t1, t2, t3, t4, f, id, p, c, b, NextArray

LEMMA NatConcat == \A x, y, z \in Seq(Nat) : (x \o y) \o z = x \o (y \o z)
OBVIOUS

\* The letters g of the first part of a node that is split: no array and no node
\* is behind them, and the second part begins there.
FirstPart(t, pre, at, n, c1, c2, g) ==
    /\ g \in Seq(Nat) /\ g # << >> /\ g \o c2 = Spelled(t, pre, n)
    /\ c1[1] = Letter(t, n)
    /\ \A m \in 1..Len(t.nodes) : ~Moved(t, m) => pre[m] # g /\ Spelled(t, pre, m) # g
    /\ \A a \in 1..Len(t.arrays) : at[a] # g

LEMMA PartLetters ==
    ASSUME NEW t, NEW pre, NEW at, Shape(t, pre, at),
           NEW n \in 1..Len(t.nodes), ~Moved(t, n),
           NEW c1 \in Seq(Nat), c1 # << >>, NEW c2 \in Seq(Nat), c2 # << >>,
           t.nodes[n].chars = c1 \o c2
    PROVE  FirstPart(t, pre, at, n, c1, c2, pre[n] \o c1)
<1> DEFINE g == pre[n] \o c1
<1>1. /\ pre[n] \in Seq(Nat) /\ t.nodes[n].chars \in Seq(Nat)
      /\ Len(t.nodes[n].chars) \in Nat
  BY ShapeTypes
<1>2. /\ Len(c1) \in Nat \ {0} /\ Len(c2) \in Nat \ {0} /\ Len(c1 \o c2) = Len(c1) + Len(c2)
      /\ c1 \o c2 \in Seq(Nat)
  BY ConcatFacts, EmptySeq
<1>3. Len(c1) \in 1..Len(t.nodes[n].chars) /\ Len(c1) < Len(t.nodes[n].chars)
  BY <1>1, <1>2
<1>4. Upto(t.nodes[n].chars, Len(c1)) = c1
  <2>1. Len(c1) \in 0..Len(c1)
    BY <1>2
  <2>2. Upto(c1 \o c2, Len(c1)) = Upto(c1, Len(c1))
    BY <2>1, UptoConcat
  <2>3. Upto(c1, Len(c1)) = c1
    BY UptoWhole
  <2>4. QED
    BY <2>2, <2>3
<1>5. c1[1] = Letter(t, n)
  BY <1>2 DEF Letter
<1>6. /\ \A m \in 1..Len(t.nodes) : ~Moved(t, m) => pre[m] # g /\ Spelled(t, pre, m) # g
      /\ \A a \in 1..Len(t.arrays) : at[a] # g
      /\ g # << >>
  BY <1>3, <1>4, FreeInside
<1>7. g \in Seq(Nat) /\ g \o c2 = Spelled(t, pre, n)
  <2>1. g \in Seq(Nat)
    BY <1>1, ConcatFacts
  <2>2. (pre[n] \o c1) \o c2 = pre[n] \o (c1 \o c2)
    BY <1>1, NatConcat, Zenon
  <2>3. QED
    BY <2>1, <2>2 DEF Spelled
<1>8. QED
  BY <1>5, <1>6, <1>7 DEF FirstPart

\* The numbers behind k.
Follow(k, f, e, h) ==
    /\ f \in Nat /\ e \in Nat /\ h \in Nat /\ f # 0 /\ e # 0 /\ h # 0
    /\ e # f /\ h # f /\ h # e
    /\ f \notin 1..k /\ e \notin 1..k /\ h \notin 1..k
    /\ f..f = {f} /\ f..e = {f, e} /\ f..h = {f, e, h}
    /\ 1..f = 1..k \cup {f} /\ 1..e = 1..k \cup {f, e} /\ 1..h = 1..k \cup {f, e, h}
    /\ k <= f /\ k <= e /\ k <= h /\ f <= f /\ f <= e /\ f <= h /\ e <= e /\ e <= h /\ h <= h
    /\ 0 <= f /\ 0 \notin 1..k
    /\ \A j \in 0..k : j <= f /\ j # f

LEMMA Behind ==
    ASSUME NEW k \in Nat
    PROVE  Follow(k, k + 1, (k + 1) + 1, (k + 1) + 2)
<1>1. (k + 1)..(k + 1) = {k + 1}
  OBVIOUS
<1>2. (k + 1)..((k + 1) + 1) = {k + 1, (k + 1) + 1}
  OBVIOUS
<1>3. (k + 1)..((k + 1) + 2) = {k + 1, (k + 1) + 1, (k + 1) + 2}
  OBVIOUS
<1>4. 1..(k + 1) = 1..k \cup {k + 1}
  OBVIOUS
<1>5. 1..((k + 1) + 1) = 1..k \cup {k + 1, (k + 1) + 1}
  OBVIOUS
<1>6. 1..((k + 1) + 2) = 1..k \cup {k + 1, (k + 1) + 1, (k + 1) + 2}
  OBVIOUS
<1>7. QED
  BY <1>1, <1>2, <1>3, <1>4, <1>5, <1>6 DEF Follow

\* What a split makes of the buffers v it has written to.
SplitInto(t, v, n) ==
    [MarkMoved(v, n, NextNode(t), NextNode(t) + 1) EXCEPT
       !.nodes[NextNode(t)].kids = Len(t.arrays) + 1]

\* The parts of a node's letters, and what is left of the word.
Parts(t, n, c1, c2, c3) ==
    /\ c1 \in Seq(Nat) /\ c1 # << >> /\ c2 \in Seq(Nat) /\ c2 # << >> /\ c3 \in Seq(Nat)
    /\ t.nodes[n].chars = c1 \o c2
    /\ c3 # << >> => c3[1] # c2[1]

LEMMA PartedAdds ==
    ASSUME NEW t, NEW pre, NEW at, Shape(t, pre, at), Entries(t),
           NEW n \in 1..Len(t.nodes), ~Moved(t, n),
           NEW c1, NEW c2, NEW c3, Parts(t, n, c1, c2, c3),
           NEW v, Parted(t, v, n, c1, c2, c3)
    PROVE  Added(t, SplitInto(t, v, n), (pre[n] \o c1) \o c3)
<1> DEFINE N == 1..Len(t.nodes)
           A == 1..Len(t.arrays)
           L == Len(t.table)
           f == Len(t.nodes) + 1
           e == f + 1
           h == f + 2
           B == Len(t.arrays) + 1
           id == t.nodes[n].id
           p == t.nodes[n].parent
           c == t.nodes[n].kids
           q == IF c3 = << >> THEN f ELSE h
           M == IF c3 = << >> THEN e ELSE h
           g == pre[n] \o c1
           New == NewNodes(t, v)
           w == Marking(v, n, f)
           u0 == AdoptChildren(w, n, e)
           u == [u0 EXCEPT !.nodes[f].kids = B]
           pre2 == [x \in 1..M |-> IF x \in N THEN pre[x] ELSE IF x = f THEN pre[n] ELSE g]
           at2 == [a \in 1..B |-> IF a \in A THEN at[a] ELSE g]
<1>1. /\ Linked(t) /\ t \in Tries /\ Len(t.nodes) \in Nat /\ Len(t.arrays) \in Nat \ {0}
      /\ L \in Nat /\ Len(t.count) = L
      /\ p \in 0..Len(t.nodes) /\ c \in 0..Len(t.arrays) /\ id \in 0..L
  <2>1. Linked(t) /\ t \in Tries
    BY ShapeTypes
  <2>2. L \in Nat /\ Len(t.count) = L
    BY <2>1, TypesOf DEF Linked
  <2>3. QED
    BY <2>1, <2>2, ShapeTypes
<1>2. /\ g \in Seq(Nat) /\ g # << >> /\ g \o c2 = Spelled(t, pre, n)
      /\ c1[1] = Letter(t, n)
      /\ \A m \in N : ~Moved(t, m) => pre[m] # g /\ Spelled(t, pre, m) # g
      /\ \A a \in A : at[a] # g
  <2>1. /\ c1 \in Seq(Nat) /\ c1 # << >> /\ c2 \in Seq(Nat) /\ c2 # << >>
        /\ t.nodes[n].chars = c1 \o c2
    BY DEF Parts
  <2>2. QED
    <3>1. FirstPart(t, pre, at, n, c1, c2, g)
      BY <2>1, PartLetters
    <3> HIDE DEF g
    <3>2. QED
      BY <3>1 DEF FirstPart
<1>3. /\ v \in Tries /\ v.pairs = t.pairs /\ Len(v.nodes) = M
      /\ \A x \in N : v.nodes[x] = t.nodes[x]
      /\ v.nodes[f] = NodeOf(c1, p, IF c3 = << >> THEN L + 1 ELSE 0, 0)
      /\ v.nodes[e] = NodeOf(c2, f, id, c)
      /\ c3 # << >> => v.nodes[h] = NodeOf(c3, f, L + 1, 0)
  BY DEF Parted
<1>4. /\ Len(v.arrays) = B
      /\ \A a \in A : v.arrays[a] = t.arrays[a]
      /\ v.arrays[B] = [members |-> IF c3 = << >> THEN <<e>> ELSE <<e, h>>, next |-> 0]
      /\ Len(v.table) = L + 1 /\ Len(v.count) = L + 1
      /\ \A i \in 1..L : v.table[i] = (IF i = id THEN e ELSE t.table[i]) /\ v.count[i] = t.count[i]
      /\ v.table[L + 1] = q /\ v.count[L + 1] = 0
  BY DEF Parted
<1>5. /\ f \in Nat /\ f # 0 /\ e \in Nat /\ h \in Nat /\ e # f /\ h # f /\ h # e /\ e # 0 /\ h # 0
      /\ f \notin N /\ e \notin N /\ h \notin N /\ n # 0 /\ n \in Nat
      /\ New = IF c3 = << >> THEN {f, e} ELSE {f, e, h}
      /\ 1..M = N \cup New /\ q \in New /\ q # e /\ q # 0
      /\ Len(t.nodes) <= M /\ f <= M /\ e <= M /\ q <= M
  <2>2. n # 0 /\ n \in Nat
    BY <1>1
  <2>3. New = f..M
    BY <1>3 DEF NewNodes
  <2>4. Follow(Len(t.nodes), f, e, h)
    <3>1. Len(t.nodes) \in Nat
      BY <1>1
    <3>2. QED
      BY <3>1, Behind
  <2> HIDE DEF f, e, h
  <2>5. CASE c3 = << >>
    <3>1. M = e /\ q = f
      BY <2>5
    <3> HIDE DEF M, q, New
    <3>2. QED
      BY <2>2, <2>3, <2>4, <2>5, <3>1 DEF Follow
  <2>6. CASE c3 # << >>
    <3>1. M = h /\ q = h
      BY <2>6
    <3> HIDE DEF M, q, New
    <3>2. QED
      BY <2>2, <2>3, <2>4, <2>6, <3>1 DEF Follow
  <2>7. QED
    BY <2>5, <2>6
<1>6. /\ B \in Nat /\ B \notin A /\ 1..B = A \cup {B} /\ NewArrays(t, v) = {B} /\ B # 0
      /\ Len(t.arrays) <= B /\ c <= B
      /\ L + 1 \in Nat /\ L + 1 \notin 1..L /\ 1..(L + 1) = 1..L \cup {L + 1} /\ id <= L + 1 /\ id # L + 1
      /\ L <= L + 1 /\ 0 <= L + 1 /\ L + 1 <= L + 1 /\ 0 <= B /\ 0 \notin 1..L
  <2>2. NewArrays(t, v) = (Len(t.arrays) + 1)..B
    BY <1>4 DEF NewArrays
  <2>3. QED
    <3>1. Len(t.arrays) \in Nat /\ L \in Nat
      BY <1>1
    <3>2. /\ B \in Nat /\ B \notin A /\ 1..B = A \cup {B} /\ B..B = {B} /\ B # 0
          /\ Len(t.arrays) <= B /\ 0 <= B /\ \A j \in 0..Len(t.arrays) : j <= B
      BY <3>1, Behind DEF Follow
    <3>3. /\ L + 1 \in Nat /\ L + 1 \notin 1..L /\ 1..(L + 1) = 1..L \cup {L + 1}
          /\ L <= L + 1 /\ 0 <= L + 1 /\ L + 1 <= L + 1 /\ 0 \notin 1..L
          /\ \A j \in 0..L : j <= L + 1 /\ j # L + 1
      BY <3>1, Behind DEF Follow
    <3> HIDE DEF L, B
    <3>4. QED
      BY <1>1, <2>2, <3>2, <3>3 DEF B
<1> HIDE DEF f, e, h, B, M, q, New, w, u0, u, g
<1>7. /\ v.nodes[f].chars = c1 /\ v.nodes[f].parent = p /\ v.nodes[f].kids = 0 /\ v.nodes[f].flag = "none"
      /\ v.nodes[f].id = IF f = q THEN L + 1 ELSE 0
      /\ v.nodes[e].chars = c2 /\ v.nodes[e].parent = f /\ v.nodes[e].kids = c /\ v.nodes[e].flag = "none"
      /\ v.nodes[e].id = id
      /\ h \in New => /\ v.nodes[h].chars = c3 /\ v.nodes[h].parent = f /\ v.nodes[h].kids = 0
                      /\ v.nodes[h].flag = "none" /\ v.nodes[h].id = L + 1 /\ c3 # << >> /\ q = h
  <2>1. c3 = << >> => q = f /\ h \notin New
    BY <1>5 DEF q
  <2>2. c3 # << >> => q = h
    BY DEF q
  <2>3. /\ v.nodes[f].chars = c1 /\ v.nodes[f].parent = p /\ v.nodes[f].kids = 0 /\ v.nodes[f].flag = "none"
        /\ v.nodes[f].id = IF c3 = << >> THEN L + 1 ELSE 0
    BY <1>3 DEF NodeOf
  <2>4. /\ v.nodes[e].chars = c2 /\ v.nodes[e].parent = f /\ v.nodes[e].kids = c /\ v.nodes[e].flag = "none"
        /\ v.nodes[e].id = id
    BY <1>3 DEF NodeOf
  <2>5. c3 # << >> => /\ v.nodes[h].chars = c3 /\ v.nodes[h].parent = f /\ v.nodes[h].kids = 0
                      /\ v.nodes[h].flag = "none" /\ v.nodes[h].id = L + 1
    BY <1>3 DEF NodeOf
  <2> HIDE DEF L, p, c, id
  <2>6. QED
    BY <1>5, <2>1, <2>2, <2>3, <2>4, <2>5
<1>8. New \subseteq {f, e, h} /\ f \in New /\ e \in New
  BY <1>5
<1>9. /\ v.arrays[B].next = 0
      /\ Len(v.arrays[B].members) \in Nat
      /\ \A i \in 1..Len(v.arrays[B].members) : v.arrays[B].members[i] \in New \ {f}
      /\ \A x \in New \ {f} : Member(v, B, x)
  <2>1. CASE c3 = << >>
    <3>1. v.arrays[B].next = 0 /\ v.arrays[B].members = <<e>> /\ New \ {f} = {e}
      BY <1>4, <1>5, <2>1
    <3>2. Len(<<e>>) = 1 /\ <<e>>[1] = e /\ 1..1 = {1}
      OBVIOUS
    <3>3. QED
      BY <3>1, <3>2 DEF Member
  <2>2. CASE c3 # << >>
    <3>1. v.arrays[B].next = 0 /\ v.arrays[B].members = <<e, h>> /\ New \ {f} = {e, h}
      BY <1>4, <1>5, <2>2
    <3>2. Len(<<e, h>>) = 2 /\ <<e, h>>[1] = e /\ <<e, h>>[2] = h /\ 1..2 = {1, 2}
      OBVIOUS
    <3>3. QED
      BY <3>1, <3>2 DEF Member
  <2>3. QED
    BY <2>1, <2>2
<1>10. Marked(v, w, n, f)
  <2>1. n \in 1..M
    BY <1>5
  <2>2. QED
    BY <1>3, <1>5, <2>1, MarkingIs DEF w
<1>11. /\ w \in Tries /\ Len(w.nodes) = M /\ w.arrays = v.arrays /\ w.pairs = t.pairs
       /\ w.table = v.table /\ w.count = v.count
       /\ \A x \in N : /\ w.nodes[x].chars = t.nodes[x].chars /\ w.nodes[x].id = t.nodes[x].id
                       /\ w.nodes[x].kids = t.nodes[x].kids
                       /\ w.nodes[x].flag = IF x = n THEN "moved" ELSE t.nodes[x].flag
                       /\ w.nodes[x].parent = IF x = n THEN f ELSE t.nodes[x].parent
       /\ \A x \in New : /\ w.nodes[x].chars = v.nodes[x].chars /\ w.nodes[x].id = v.nodes[x].id
                         /\ w.nodes[x].kids = v.nodes[x].kids /\ w.nodes[x].flag = v.nodes[x].flag
                         /\ w.nodes[x].parent = v.nodes[x].parent
  <2>1. /\ w \in Tries /\ Len(w.nodes) = M /\ w.arrays = v.arrays /\ w.pairs = t.pairs
        /\ w.table = v.table /\ w.count = v.count
    BY <1>3, <1>10 DEF Marked
  <2>2. \A x \in N \cup New :
          /\ w.nodes[x].chars = v.nodes[x].chars /\ w.nodes[x].id = v.nodes[x].id
          /\ w.nodes[x].kids = v.nodes[x].kids
          /\ w.nodes[x].flag = IF x = n THEN "moved" ELSE v.nodes[x].flag
          /\ w.nodes[x].parent = IF x = n THEN f ELSE v.nodes[x].parent
    BY <1>3, <1>5, <1>10 DEF Marked
  <2>3. \A x \in New : x # n
    BY <1>5, <1>8
  <2> HIDE DEF c, id, p, N
  <2>4. ASSUME NEW x \in N
        PROVE  /\ w.nodes[x].chars = t.nodes[x].chars /\ w.nodes[x].id = t.nodes[x].id
               /\ w.nodes[x].kids = t.nodes[x].kids
               /\ w.nodes[x].flag = IF x = n THEN "moved" ELSE t.nodes[x].flag
               /\ w.nodes[x].parent = IF x = n THEN f ELSE t.nodes[x].parent
    <3>1. v.nodes[x] = t.nodes[x]
      BY <1>3
    <3>2. QED
      BY <2>2, <3>1
  <2>5. ASSUME NEW x \in New
        PROVE  /\ w.nodes[x].chars = v.nodes[x].chars /\ w.nodes[x].id = v.nodes[x].id
               /\ w.nodes[x].kids = v.nodes[x].kids /\ w.nodes[x].flag = v.nodes[x].flag
               /\ w.nodes[x].parent = v.nodes[x].parent
    BY <2>2, <2>3
  <2>6. QED
    BY <2>1, <2>4, <2>5
<1>12. Adopted(w, u0, Children(w, n), e)
  BY <1>5, <1>11, AdoptChildrenIs DEF u0
<1> HIDE DEF pre2, at2
<1>13. /\ pre2 \in [1..M -> Seq(Nat)] /\ \A x \in N : pre2[x] = pre[x]
       /\ pre2[f] = pre[n] /\ \A x \in New \ {f} : pre2[x] = g
       /\ at2 \in [1..B -> Seq(Nat)] /\ \A a \in A : at2[a] = at[a]
       /\ at2[B] = g
  <2>1. /\ \A x \in N : pre[x] \in Seq(Nat)
        /\ \A a \in A : at[a] \in Seq(Nat)
    BY ShapeTypes
  <2>2. \A x \in New : x \notin N
    BY <1>5, <1>8
  <2> HIDE DEF A
  <2>3. at2 \in [1..B -> Seq(Nat)] /\ (\A a \in A : at2[a] = at[a]) /\ at2[B] = g
    BY <1>2, <1>6, <2>1 DEF at2
  <2> HIDE DEF N
  <2>4. n \in N
    BY DEF N
  <2>5. /\ pre2 \in [1..M -> Seq(Nat)] /\ \A x \in N : pre2[x] = pre[x]
        /\ pre2[f] = pre[n] /\ \A x \in New \ {f} : pre2[x] = g
    BY <1>2, <1>5, <2>1, <2>2, <2>4 DEF pre2
  <2>6. QED
    BY <2>3, <2>5
<1>14. NewNodes(t, w) = New /\ NewArrays(t, w) = {B} /\ NewNodes(t, u) = NewNodes(t, u)
  BY <1>3, <1>6, <1>11 DEF New, NewNodes, NewArrays
<1>15. /\ \A i \in 1..Len(w.table) : (i \in 1..L /\ w.table[i] = t.table[i]) \/ w.table[i] <= M
       /\ Len(w.table) = L + 1 /\ Len(w.count) = L + 1
  <2>1. \A i \in 1..(L + 1) : i \in 1..L \/ i = L + 1
    BY <1>6
  <2> HIDE DEF L
  <2>2. QED
    BY <1>4, <1>5, <1>11, <2>1
<1>16. \A x \in New :
         /\ w.nodes[x].flag = "none"
         /\ w.nodes[x].parent <= M /\ w.nodes[x].kids <= B /\ w.nodes[x].id <= L + 1
  <2>1. p <= M
    <3> HIDE DEF p
    <3>1. M \in Nat
      BY <1>5 DEF M
    <3>2. QED
      BY <1>1, <1>5, <3>1
  <2> HIDE DEF p, c, id, L
  <2>2. /\ v.nodes[f].flag = "none" /\ v.nodes[f].parent <= M /\ v.nodes[f].kids <= B
        /\ v.nodes[f].id <= L + 1
    BY <1>6, <1>7, <2>1
  <2>3. /\ v.nodes[e].flag = "none" /\ v.nodes[e].parent <= M /\ v.nodes[e].kids <= B
        /\ v.nodes[e].id <= L + 1
    BY <1>5, <1>6, <1>7
  <2>4. h \in New => /\ v.nodes[h].flag = "none" /\ v.nodes[h].parent <= M /\ v.nodes[h].kids <= B
                     /\ v.nodes[h].id <= L + 1
    BY <1>5, <1>6, <1>7
  <2>5. QED
    BY <1>8, <1>11, <2>2, <2>3, <2>4
<1>17. \A b \in 1..B : at2[b] = g => b = B
  BY <1>2, <1>6, <1>13
<1>18. Rewrites(t, pre, at, w, pre2, at2, n)
  <2>1. \A x \in N :
         /\ w.nodes[x].chars = t.nodes[x].chars /\ w.nodes[x].id = t.nodes[x].id
         /\ w.nodes[x].kids = t.nodes[x].kids /\ pre2[x] = pre[x]
         /\ w.nodes[x].flag = IF x = n THEN "moved" ELSE t.nodes[x].flag
         /\ \/ w.nodes[x].parent = t.nodes[x].parent /\ x # n
            \/ w.nodes[x].parent \in NewNodes(t, w) /\ ~Moved(t, x)
    BY <1>8, <1>11, <1>13, <1>14
  <2>2. \A x \in NewNodes(t, w) :
         /\ w.nodes[x].flag = "none"
         /\ w.nodes[x].parent <= Len(w.nodes) /\ w.nodes[x].kids <= Len(w.arrays)
         /\ w.nodes[x].id <= Len(w.table)
    BY <1>4, <1>11, <1>14, <1>15, <1>16
  <2>3. /\ w \in Tries /\ Len(w.count) = Len(w.table) /\ w.pairs = t.pairs
        /\ pre2 \in [1..Len(w.nodes) -> Seq(Nat)] /\ at2 \in [1..Len(w.arrays) -> Seq(Nat)]
        /\ \A a \in A : w.arrays[a] = t.arrays[a] /\ at2[a] = at[a]
    BY <1>4, <1>11, <1>13, <1>15
  <2>4. /\ \A i \in 1..Len(w.arrays[B].members) : w.arrays[B].members[i] \in 1..Len(w.nodes)
        /\ w.arrays[B].next = 0
        /\ \A b \in 1..Len(w.arrays) : at2[b] = at2[B] => b = B
    BY <1>4, <1>5, <1>9, <1>11, <1>13, <1>17
  <2>5. /\ Len(t.nodes) <= Len(w.nodes) /\ Len(t.arrays) <= Len(w.arrays) /\ L <= Len(w.table)
        /\ \A i \in 1..Len(w.table) : (i \in 1..L /\ w.table[i] = t.table[i]) \/ w.table[i] <= Len(w.nodes)
    BY <1>4, <1>5, <1>6, <1>11, <1>15
  <2>6. QED
    BY <1>14, <2>1, <2>2, <2>3, <2>4, <2>5 DEF Rewrites
<1>19. Keeps(t, pre, at, w, pre2, at2, n) /\ Chained(w, at2)
  BY <1>18, RewritesKeeps
<1>20. /\ w.nodes[n].parent = f /\ Relocates(t, pre, w, pre2, n)
  <2>1. w.nodes[n].parent = f
    BY <1>11
  <2>2. pre2[f] = pre[n] /\ Letter(w, f) = Letter(t, n) /\ f \in NewNodes(t, w)
    BY <1>2, <1>7, <1>8, <1>11, <1>13, <1>14 DEF Letter
  <2>3. QED
    BY <2>1, <2>2 DEF Relocates
<1>21. \A i \in 1..Len(w.arrays[B].members) : pre2[w.arrays[B].members[i]] = at2[B]
  BY <1>9, <1>11, <1>13
<1>22. \A x \in New \ {f} : B \in 1..Len(w.arrays) /\ Member(w, B, x)
  <2>1. Len(w.arrays) = B /\ w.arrays[B] = v.arrays[B]
    BY <1>4, <1>11
  <2>2. B \in 1..B
    BY <1>6
  <2>3. \A x \in New \ {f} : Member(w, B, x)
    BY <1>9, <2>1 DEF Member
  <2>4. QED
    BY <2>1, <2>2, <2>3
<1>23. Settles(t, w, pre2, at2, n)
  <2>1. \A x \in New : /\ ~Moved(w, x)
                       /\ (n # 0 /\ x = w.nodes[n].parent) \/ \E a \in 1..Len(w.arrays) : Member(w, a, x)
    BY <1>5, <1>16, <1>20, <1>22 DEF Moved
  <2>2. QED
    BY <1>14, <1>19, <1>21, <2>1 DEF Settles
<1>24. pre[n] # Spelled(t, pre, n) /\ g # Spelled(t, pre, n)
  <2>1. /\ Len(pre[n]) \in Nat /\ Len(t.nodes[n].chars) \in Nat \ {0}
        /\ Len(Spelled(t, pre, n)) = Len(pre[n]) + Len(t.nodes[n].chars)
    BY ShapeTypes
  <2>2. \A x \in Nat, y \in Nat \ {0} : x + y # x
    OBVIOUS
  <2>3. QED
    BY <1>2, <2>1, <2>2
<1>25. Children(w, n) = {x \in N : ~Moved(t, x) /\ t.nodes[x].parent = n}
  <2>1. /\ \A x \in NewNodes(t, w) : pre2[x] # Spelled(t, pre, n)
        /\ \A a \in NewArrays(t, w) : at2[a] # Spelled(t, pre, n)
        /\ w.nodes[n].kids = t.nodes[n].kids
    BY <1>8, <1>11, <1>13, <1>14, <1>24
  <2>2. QED
    BY <1>19, <1>20, <1>23, <2>1, ChildrenAre
<1> DEFINE K == {x \in N : ~Moved(t, x) /\ t.nodes[x].parent = n}
<1>26. /\ u0 \in Tries /\ Len(u0.nodes) = M /\ u0.arrays = v.arrays /\ u0.pairs = t.pairs
       /\ u0.table = v.table /\ u0.count = v.count
       /\ \A x \in N : /\ u0.nodes[x].chars = t.nodes[x].chars /\ u0.nodes[x].id = t.nodes[x].id
                       /\ u0.nodes[x].kids = t.nodes[x].kids
                       /\ u0.nodes[x].flag = IF x = n THEN "moved" ELSE t.nodes[x].flag
                       /\ u0.nodes[x].parent = IF x \in K THEN e ELSE w.nodes[x].parent
       /\ \A x \in New : /\ u0.nodes[x].chars = v.nodes[x].chars /\ u0.nodes[x].id = v.nodes[x].id
                         /\ u0.nodes[x].kids = v.nodes[x].kids /\ u0.nodes[x].flag = v.nodes[x].flag
                         /\ u0.nodes[x].parent = v.nodes[x].parent
  <2>1. \A x \in New : x \notin K
    BY <1>5, <1>8
  <2> HIDE DEF K
  <2>2. Adopted(w, u0, K, e)
    BY <1>12, <1>25 DEF K
  <2>3. \A x \in N \cup New :
         /\ u0.nodes[x].chars = w.nodes[x].chars /\ u0.nodes[x].id = w.nodes[x].id
         /\ u0.nodes[x].kids = w.nodes[x].kids /\ u0.nodes[x].flag = w.nodes[x].flag
         /\ u0.nodes[x].parent = IF x \in K THEN e ELSE w.nodes[x].parent
    BY <1>5, <1>11, <2>2 DEF Adopted
  <2>4. /\ u0 \in Tries /\ Len(u0.nodes) = M /\ u0.arrays = v.arrays /\ u0.pairs = t.pairs
        /\ u0.table = v.table /\ u0.count = v.count
    BY <1>11, <2>2 DEF Adopted
  <2>5. \A x \in N : /\ u0.nodes[x].chars = t.nodes[x].chars /\ u0.nodes[x].id = t.nodes[x].id
                     /\ u0.nodes[x].kids = t.nodes[x].kids
                     /\ u0.nodes[x].flag = IF x = n THEN "moved" ELSE t.nodes[x].flag
                     /\ u0.nodes[x].parent = IF x \in K THEN e ELSE w.nodes[x].parent
    BY <1>11, <2>3
  <2>6. \A x \in New : /\ u0.nodes[x].chars = v.nodes[x].chars /\ u0.nodes[x].id = v.nodes[x].id
                       /\ u0.nodes[x].kids = v.nodes[x].kids /\ u0.nodes[x].flag = v.nodes[x].flag
                       /\ u0.nodes[x].parent = v.nodes[x].parent
    <3>1. \A x \in New : /\ u0.nodes[x].chars = w.nodes[x].chars /\ u0.nodes[x].id = w.nodes[x].id
                         /\ u0.nodes[x].kids = w.nodes[x].kids /\ u0.nodes[x].flag = w.nodes[x].flag
                         /\ u0.nodes[x].parent = w.nodes[x].parent
      BY <2>1, <2>3
    <3>2. \A x \in New : /\ w.nodes[x].chars = v.nodes[x].chars /\ w.nodes[x].id = v.nodes[x].id
                         /\ w.nodes[x].kids = v.nodes[x].kids /\ w.nodes[x].flag = v.nodes[x].flag
                         /\ w.nodes[x].parent = v.nodes[x].parent
      BY <1>11
    <3>3. QED
      BY <3>1, <3>2
  <2>7. QED
    BY <2>4, <2>5, <2>6
<1>27. n \notin K
  BY ParentAbove
<1>28. \A x \in K : x \in N /\ ~Moved(t, x) /\ t.nodes[x].parent = n
  OBVIOUS
<1>29. \A x \in N : ~Moved(t, x) /\ t.nodes[x].parent = n => x \in K
  OBVIOUS
<1> HIDE DEF K
<1>30. /\ u \in Tries /\ Len(u.nodes) = M /\ u.arrays = v.arrays /\ u.pairs = t.pairs
       /\ u.table = v.table /\ u.count = v.count
       /\ \A x \in N : /\ u.nodes[x].chars = t.nodes[x].chars /\ u.nodes[x].id = t.nodes[x].id
                       /\ u.nodes[x].kids = t.nodes[x].kids
                       /\ u.nodes[x].flag = IF x = n THEN "moved" ELSE t.nodes[x].flag
                       /\ u.nodes[x].parent = IF x = n THEN f ELSE IF x \in K THEN e ELSE t.nodes[x].parent
       /\ \A x \in New : /\ u.nodes[x].chars = v.nodes[x].chars /\ u.nodes[x].id = v.nodes[x].id
                         /\ u.nodes[x].kids = IF x = f THEN B ELSE v.nodes[x].kids
                         /\ u.nodes[x].flag = v.nodes[x].flag
                         /\ u.nodes[x].parent = v.nodes[x].parent
  <2> DEFINE C == WithKids(u0.nodes, f, B)
  <2>1. u = [u0 EXCEPT !.nodes = C]
    BY DEF WithKids, u
  <2>2. u0.nodes \in Seq(Nodes) /\ f \in 1..Len(u0.nodes) /\ Len(u0.nodes) = M /\ B \in Nat
    BY <1>5, <1>6, <1>8, <1>26 DEF Tries
  <2>3. C \in Seq(Nodes) /\ Len(C) = M
    BY <2>2, KidsSet
  <2>4. ASSUME NEW x \in 1..M
        PROVE  /\ C[x].chars = u0.nodes[x].chars /\ C[x].parent = u0.nodes[x].parent
               /\ C[x].id = u0.nodes[x].id /\ C[x].flag = u0.nodes[x].flag
               /\ C[x].kids = IF x = f THEN B ELSE u0.nodes[x].kids
    BY <2>2, KidsSet
  <2> HIDE DEF C
  <2>5. /\ u \in Tries /\ u.nodes = C /\ u.arrays = u0.arrays /\ u.table = u0.table
        /\ u.count = u0.count /\ u.pairs = u0.pairs
    BY <1>26, <2>1, <2>3, WithNodes
  <2>6. \A x \in N : x \in 1..M /\ x # f
    BY <1>5
  <2>7. \A x \in New : x \in 1..M
    BY <1>5
  <2>8. n \notin K
    BY <1>27
  <2>9. \A x \in N : /\ u.nodes[x].chars = t.nodes[x].chars /\ u.nodes[x].id = t.nodes[x].id
                     /\ u.nodes[x].kids = t.nodes[x].kids
                     /\ u.nodes[x].flag = IF x = n THEN "moved" ELSE t.nodes[x].flag
                     /\ u.nodes[x].parent = IF x = n THEN f ELSE IF x \in K THEN e ELSE t.nodes[x].parent
    BY <1>11, <1>26, <2>4, <2>5, <2>6, <2>8
  <2>10. \A x \in New : /\ u.nodes[x].chars = v.nodes[x].chars /\ u.nodes[x].id = v.nodes[x].id
                        /\ u.nodes[x].kids = IF x = f THEN B ELSE v.nodes[x].kids
                        /\ u.nodes[x].flag = v.nodes[x].flag
                        /\ u.nodes[x].parent = v.nodes[x].parent
    BY <1>26, <2>4, <2>5, <2>7
  <2>11. QED
    BY <1>26, <2>3, <2>5, <2>9, <2>10
<1>31. NewNodes(t, u) = New /\ NewArrays(t, u) = {B}
  BY <1>11, <1>14, <1>30 DEF NewNodes, NewArrays
<1>32. \A x \in New :
         /\ u.nodes[x].flag = "none"
         /\ u.nodes[x].parent <= M /\ u.nodes[x].kids <= B /\ u.nodes[x].id <= L + 1
  <2>1. B <= B
    BY <1>6
  <2> HIDE DEF L
  <2>2. QED
    BY <1>11, <1>16, <1>30, <2>1
<1>33. Rewrites(t, pre, at, u, pre2, at2, n)
  <2>1. \A x \in N :
         /\ u.nodes[x].chars = t.nodes[x].chars /\ u.nodes[x].id = t.nodes[x].id
         /\ u.nodes[x].kids = t.nodes[x].kids /\ pre2[x] = pre[x]
         /\ u.nodes[x].flag = IF x = n THEN "moved" ELSE t.nodes[x].flag
         /\ \/ u.nodes[x].parent = t.nodes[x].parent /\ x # n
            \/ u.nodes[x].parent \in NewNodes(t, u) /\ ~Moved(t, x)
    <3>1. f \in NewNodes(t, u) /\ e \in NewNodes(t, u)
      BY <1>8, <1>31
    <3>2. \A x \in N :
            \/ u.nodes[x].parent = t.nodes[x].parent /\ x # n
            \/ u.nodes[x].parent \in NewNodes(t, u) /\ ~Moved(t, x)
      BY <1>28, <1>30, <3>1
    <3>3. QED
      BY <1>13, <1>30, <3>2
  <2>2. \A x \in NewNodes(t, u) :
         /\ u.nodes[x].flag = "none"
         /\ u.nodes[x].parent <= Len(u.nodes) /\ u.nodes[x].kids <= Len(u.arrays)
         /\ u.nodes[x].id <= Len(u.table)
    BY <1>4, <1>11, <1>15, <1>30, <1>31, <1>32
  <2>3. /\ u \in Tries /\ Len(u.count) = Len(u.table) /\ u.pairs = t.pairs
        /\ pre2 \in [1..Len(u.nodes) -> Seq(Nat)] /\ at2 \in [1..Len(u.arrays) -> Seq(Nat)]
        /\ \A a \in A : u.arrays[a] = t.arrays[a] /\ at2[a] = at[a]
    BY <1>4, <1>13, <1>30
  <2>4. /\ \A i \in 1..Len(u.arrays[B].members) : u.arrays[B].members[i] \in 1..Len(u.nodes)
        /\ u.arrays[B].next = 0
        /\ \A b \in 1..Len(u.arrays) : at2[b] = at2[B] => b = B
    BY <1>4, <1>5, <1>9, <1>13, <1>17, <1>30
  <2>5. /\ Len(t.nodes) <= Len(u.nodes) /\ Len(t.arrays) <= Len(u.arrays) /\ L <= Len(u.table)
        /\ \A i \in 1..Len(u.table) : (i \in 1..L /\ u.table[i] = t.table[i]) \/ u.table[i] <= Len(u.nodes)
    BY <1>4, <1>5, <1>6, <1>11, <1>15, <1>30, SMTT(20)
  <2>6. QED
    BY <1>31, <2>1, <2>2, <2>3, <2>4, <2>5 DEF Rewrites
<1>34. Grows(t, u) /\ Keeps(t, pre, at, u, pre2, at2, n) /\ Chained(u, at2)
  BY <1>33, RewritesKeeps
<1>35. \A x \in N : Moved(u, x) <=> Moved(t, x) \/ x = n
  BY <1>30 DEF Moved
<1>36. \A x \in New : ~Moved(u, x)
  BY <1>32 DEF Moved
<1>37. /\ \A x \in N : Spelled(u, pre2, x) = Spelled(t, pre, x) /\ Letter(u, x) = Letter(t, x)
       /\ Spelled(u, pre2, f) = g /\ Letter(u, f) = Letter(t, n)
       /\ Spelled(u, pre2, e) = Spelled(t, pre, n) /\ Letter(u, e) = c2[1]
       /\ h \in New => Spelled(u, pre2, h) = g \o c3 /\ Letter(u, h) = c3[1]
  <2>1. \A x \in N : Spelled(u, pre2, x) = Spelled(t, pre, x) /\ Letter(u, x) = Letter(t, x)
    BY <1>13, <1>30 DEF Spelled, Letter
  <2>2. /\ u.nodes[f].chars = c1 /\ u.nodes[e].chars = c2 /\ pre2[f] = pre[n] /\ pre2[e] = g
        /\ h \in New => u.nodes[h].chars = c3 /\ pre2[h] = g
    BY <1>5, <1>7, <1>8, <1>13, <1>30
  <2>3. pre[n] \o c1 = g
    BY DEF g
  <2>4. /\ pre2[f] \o u.nodes[f].chars = g /\ u.nodes[f].chars[1] = Letter(t, n)
        /\ pre2[e] \o u.nodes[e].chars = Spelled(t, pre, n) /\ u.nodes[e].chars[1] = c2[1]
        /\ h \in New => pre2[h] \o u.nodes[h].chars = g \o c3 /\ u.nodes[h].chars[1] = c3[1]
    BY <1>2, <2>2, <2>3
  <2>5. QED
    BY <2>1, <2>4 DEF Spelled, Letter
<1>38. Moves(t, pre, u, pre2, n, e)
  <2>1. u.nodes[n].parent = f
    BY <1>30
  <2>2. \A x \in N : ~Moved(u, x) =>
          u.nodes[x].parent = IF n # 0 /\ t.nodes[x].parent = n THEN e ELSE t.nodes[x].parent
    BY <1>5, <1>28, <1>29, <1>30, <1>35
  <2>3. t.nodes[n].kids # 0 => u.nodes[e].kids # 0
    BY <1>5, <1>7, <1>8, <1>30
  <2>4. QED
    BY <1>8, <1>13, <1>31, <1>37, <2>1, <2>2, <2>3 DEF Moves
<1>39. /\ u.nodes[f].kids = B /\ ~Moved(u, f) /\ f \in 1..Len(u.nodes)
       /\ \A x \in New \ {f} : u.nodes[x].parent = f
  <2>1. u.nodes[f].kids = B /\ ~Moved(u, f) /\ f \in 1..Len(u.nodes)
    BY <1>5, <1>8, <1>30, <1>36
  <2>2. \A x \in New \ {f} : x = e \/ (x = h /\ h \in New)
    BY <1>8
  <2>3. QED
    BY <1>7, <1>8, <1>30, <2>1, <2>2
<1>40. u.nodes[n].parent = f
  BY <1>30
<1>41. /\ u.nodes[f].parent = p
       /\ p = 0 => pre2[f] = << >>
       /\ p # 0 => ~Moved(u, p) /\ u.nodes[p].kids # 0 /\ pre2[f] = Spelled(u, pre2, p)
  <2>1. /\ p # n
        /\ p = 0 => pre[n] = << >>
        /\ p # 0 => /\ p \in N /\ ~Moved(t, p) /\ t.nodes[p].kids # 0
                    /\ pre[n] = Spelled(t, pre, p)
    BY ParentAbove
  <2>2. u.nodes[f].parent = p
    BY <1>7, <1>8, <1>30
  <2> HIDE DEF p
  <2>3. QED
    BY <1>13, <1>30, <1>35, <1>37, <2>1, <2>2
<1>42. \A x \in 1..Len(u.nodes) :
         ~Moved(u, x) /\ pre2[x] = pre2[f] /\ Letter(u, x) = Letter(u, f) => x = f
  <2>1. ASSUME NEW x \in N, ~Moved(u, x), pre2[x] = pre2[f], Letter(u, x) = Letter(u, f) PROVE FALSE
    <3>1. x # n /\ ~Moved(t, x) /\ pre[x] = pre[n] /\ Letter(t, x) = Letter(t, n)
      BY <1>13, <1>35, <1>37, <2>1
    <3>2. QED
      BY <3>1 DEF Shape, Apart
  <2>2. ASSUME NEW x \in New \ {f} PROVE pre2[x] # pre2[f]
    BY <1>2, <1>13
  <2>3. QED
    BY <1>5, <1>30, <2>1, <2>2
<1>43. \A y \in New \ {f} : \A x \in 1..Len(u.nodes) :
         ~Moved(u, x) /\ pre2[x] = pre2[y] /\ Letter(u, x) = Letter(u, y) => x = y
  <2> SUFFICES ASSUME NEW y \in New \ {f}, NEW x \in 1..Len(u.nodes),
                      ~Moved(u, x), pre2[x] = pre2[y], Letter(u, x) = Letter(u, y)
               PROVE  x = y
    OBVIOUS
  <2>1. x \in New \ {f}
    <3>1. pre2[x] = g
      BY <1>13
    <3>2. pre2[f] # g
      BY <1>2, <1>13
    <3>3. x \in N => ~Moved(t, x) /\ pre2[x] = pre[x]
      BY <1>13, <1>35
    <3>4. x \notin N
      BY <1>2, <3>1, <3>3
    <3>5. x \in N \cup New
      BY <1>5, <1>30
    <3>6. QED
      BY <3>1, <3>2, <3>4, <3>5
  <2>2. h \in New => c3[1] # c2[1]
    BY <1>7 DEF Parts
  <2>3. QED
    BY <1>8, <1>37, <2>1, <2>2
<1>44. \A x \in 1..Len(u.nodes) :
         u.nodes[x].kids # 0 /\ (x \in N => u.nodes[x].kids # t.nodes[x].kids) =>
           at2[u.nodes[x].kids] = Spelled(u, pre2, x) /\ First(u, at2, u.nodes[x].kids)
  <2> SUFFICES ASSUME NEW x \in 1..Len(u.nodes), u.nodes[x].kids # 0,
                      x \in N => u.nodes[x].kids # t.nodes[x].kids
               PROVE  at2[u.nodes[x].kids] = Spelled(u, pre2, x) /\ First(u, at2, u.nodes[x].kids)
    OBVIOUS
  <2>1. x \in New
    BY <1>5, <1>30
  <2>2. CASE x = f
    <3>1. u.nodes[x].kids = B /\ Spelled(u, pre2, x) = g
      BY <1>37, <1>39, <2>2
    <3>2. Len(u.arrays) = B /\ B <= B
      BY <1>4, <1>6, <1>30
    <3>3. First(u, at2, B)
      BY <1>13, <1>17, <3>2 DEF First
    <3>4. QED
      BY <1>13, <3>1, <3>3
  <2>3. CASE x = e
    <3>1. u.nodes[x].kids = c /\ Spelled(u, pre2, x) = Spelled(t, pre, n)
      BY <1>5, <1>7, <1>8, <1>30, <1>37, <2>3
    <3>2. c # 0 => at[c] = Spelled(t, pre, n) /\ First(t, at, c)
      BY DEF Shape, Kids
    <3>3. c # 0 => c \in A
      BY <1>1
    <3>4. c <= B
      BY <1>6
    <3>5. c # 0 => First(u, at2, c)
      <4> HIDE DEF c
      <4>1. \A b \in 1..Len(u.arrays) : b \in A \/ b = B
        <5>1. Len(u.arrays) = B
          BY <1>4, <1>30
        <5>2. 1..B = A \cup {B}
          BY <1>6
        <5> HIDE DEF A
        <5>3. QED
          BY <5>1, <5>2
      <4>2. QED
        BY <1>13, <1>24, <3>2, <3>3, <3>4, <4>1 DEF First
    <3> HIDE DEF c
    <3>6. QED
      BY <1>13, <3>1, <3>2, <3>3, <3>5
  <2>4. CASE x = h
    BY <1>5, <1>7, <1>30, <2>1, <2>4
  <2>5. QED
    BY <1>8, <2>1, <2>2, <2>3, <2>4
<1>45. Fits(t, u, pre2, at2, n)
  <2>1. /\ \A i \in 1..Len(u.arrays[B].members) : pre2[u.arrays[B].members[i]] = at2[B]
        /\ \E x \in 1..Len(u.nodes) :
             ~Moved(u, x) /\ u.nodes[x].kids # 0 /\ Spelled(u, pre2, x) = at2[B]
    BY <1>6, <1>11, <1>13, <1>21, <1>30, <1>37, <1>39
  <2>2. \A x \in New \ {f} :
          /\ \E a \in 1..Len(u.arrays) : Member(u, a, x)
          /\ u.nodes[x].parent = f /\ f # 0
          /\ ~Moved(u, f) /\ u.nodes[f].kids # 0 /\ pre2[x] = Spelled(u, pre2, f)
    <3>1. \A x \in New \ {f} : B \in 1..Len(u.arrays) /\ Member(u, B, x)
      BY <1>11, <1>22, <1>30 DEF Member
    <3>2. QED
      BY <1>5, <1>6, <1>13, <1>37, <1>39, <3>1
  <2>3. /\ n # 0 /\ f = u.nodes[n].parent
        /\ u.nodes[f].parent = 0 => pre2[f] = << >>
        /\ u.nodes[f].parent # 0 =>
             /\ ~Moved(u, u.nodes[f].parent) /\ u.nodes[u.nodes[f].parent].kids # 0
             /\ pre2[f] = Spelled(u, pre2, u.nodes[f].parent)
    BY <1>5, <1>40, <1>41
  <2>4. \A x \in New :
          /\ ~Moved(u, x)
          /\ \/ n # 0 /\ x = u.nodes[n].parent
             \/ \E a \in 1..Len(u.arrays) : Member(u, a, x)
          /\ u.nodes[x].parent = 0 => pre2[x] = << >>
          /\ u.nodes[x].parent # 0 =>
               /\ ~Moved(u, u.nodes[x].parent) /\ u.nodes[u.nodes[x].parent].kids # 0
               /\ pre2[x] = Spelled(u, pre2, u.nodes[x].parent)
    <3> TAKE x \in New
    <3>1. CASE x = f
      BY <1>36, <2>3, <3>1
    <3>2. CASE x # f
      BY <1>36, <2>2, <3>2
    <3>3. QED
      BY <3>1, <3>2
  <2>5. \A x \in New : \A y \in 1..Len(u.nodes) :
          ~Moved(u, y) /\ pre2[y] = pre2[x] /\ Letter(u, y) = Letter(u, x) => y = x
    BY <1>42, <1>43
  <2>6. QED
    BY <1>31, <1>34, <1>44, <2>1, <2>4, <2>5 DEF Fits
<1>46. Shape(u, pre2, at2)
  BY <1>5, <1>34, <1>38, <1>45, Growth
<1>47. Registers(t, u, n, e, q)
  <2>1. \A x \in N : u.nodes[x].id = t.nodes[x].id /\ (x # n => u.nodes[x].flag = t.nodes[x].flag)
    BY <1>30
  <2>2. n \in N /\ ~Moved(t, n) /\ Moved(u, n)
    BY <1>35
  <2>3. e \in NewNodes(t, u) /\ e # q
    BY <1>5, <1>8, <1>31
  <2>4. \A x \in NewNodes(t, u) :
          /\ u.nodes[x].flag = "none"
          /\ u.nodes[x].id = IF x = q THEN L + 1 ELSE IF n # 0 /\ x = e THEN id ELSE 0
    <3> HIDE DEF id, L
    <3>1. u.nodes[f].id = IF f = q THEN L + 1 ELSE IF n # 0 /\ f = e THEN id ELSE 0
      BY <1>5, <1>7, <1>8, <1>30
    <3>2. u.nodes[e].id = IF e = q THEN L + 1 ELSE IF n # 0 /\ e = e THEN id ELSE 0
      BY <1>5, <1>7, <1>8, <1>30
    <3>3. h \in New => u.nodes[h].id = L + 1 /\ h = q
      BY <1>7, <1>30
    <3>4. QED
      BY <1>8, <1>31, <1>32, <3>1, <3>2, <3>3
  <2>5. q \in NewNodes(t, u) /\ Len(u.table) = L + 1
    BY <1>4, <1>5, <1>30, <1>31
  <2>6. /\ \A i \in 1..L :
             /\ u.table[i] = IF n # 0 /\ i = id THEN e ELSE t.table[i]
             /\ u.count[i] = t.count[i]
        /\ u.table[L + 1] = q
    BY <1>4, <1>5, <1>30
  <2>7. QED
    BY <2>1, <2>2, <2>3, <2>4, <2>5, <2>6 DEF Registers
<1>48. Entries(u)
  BY <1>1, <1>5, <1>34, <1>47, EntriesGrow
<1>49. q # 0 /\ Spelled(u, pre2, q) = g \o c3 /\ u.count[L + 1] = 0
  <2>1. u.count[L + 1] = 0
    BY <1>4, <1>30
  <2>2. CASE c3 = << >>
    <3>1. q = f
      BY <2>2 DEF q
    <3>2. g \o << >> = g
      BY <1>2, ConcatEmptySeq
    <3>3. QED
      BY <1>5, <1>37, <2>1, <2>2, <3>1, <3>2
  <2>3. CASE c3 # << >>
    <3>1. q = h
      BY <2>3 DEF q
    <3>2. QED
      BY <1>5, <1>37, <2>1, <3>1
  <2>4. QED
    BY <2>2, <2>3
<1>50. id # 0 => Spelled(u, pre2, e) = Spelled(t, pre, n) /\ u.count[id] = t.count[id]
  <2>1. id # 0 => id \in 1..L
    BY <1>1
  <2> HIDE DEF id, L
  <2>2. QED
    BY <1>4, <1>30, <1>37, <2>1
<1>51. Added(t, u, g \o c3)
  BY <1>5, <1>34, <1>46, <1>47, <1>48, <1>49, <1>50, CountsGrow
<1>52. u = SplitInto(t, v, n)
  BY DEF u, u0, w, e, f, B, SplitInto, MarkMoved, Marking, NextNode
<1>53. QED
  BY <1>51, <1>52 DEF g

\* How the word and the node's letters are split where they differ.
LEMMA SplitLetters ==
    ASSUME NEW t, NEW pre, NEW at, Shape(t, pre, at),
           NEW w \in Seq(Nat), NEW k \in 0..Len(w), NEW n \in 1..Len(t.nodes), NEW o,
           Met(t, pre, w, k, n, o), o < Len(t.nodes[n].chars)
    PROVE  LET rest == SubSeq(w, k + 1, Len(w))
               c1 == SubSeq(rest, 1, o)
               c2 == SubSeq(t.nodes[n].chars, o + 1, Len(t.nodes[n].chars))
               c3 == SubSeq(rest, o + 1, Len(rest))
           IN  /\ Parts(t, n, c1, c2, c3)
               /\ (pre[n] \o c1) \o c3 = w
               /\ Len(rest) > o => c3 # << >>
               /\ ~(Len(rest) > o) => c3 = << >> /\ rest = c1
<1> DEFINE rest == SubSeq(w, k + 1, Len(w))
           chars == t.nodes[n].chars
           c1 == SubSeq(rest, 1, o)
           c2 == SubSeq(chars, o + 1, Len(chars))
           c3 == SubSeq(rest, o + 1, Len(rest))
<1>1. /\ pre[n] \in Seq(Nat) /\ chars \in Seq(Nat) /\ Len(chars) \in Nat
      /\ o \in 1..Len(chars) /\ k + o <= Len(w) /\ pre[n] = Upto(w, k)
      /\ Matches(chars, w, k, o)
      /\ k + o < Len(w) => chars[o + 1] # w[k + o + 1]
      /\ Len(w) \in Nat /\ k \in Nat
  <2>1. /\ pre[n] \in Seq(Nat) /\ chars \in Seq(Nat) /\ Len(chars) \in Nat
    BY ShapeTypes
  <2>2. Len(w) \in Nat /\ k \in Nat
    OBVIOUS
  <2>3. /\ o \in 1..Len(chars) /\ k + o <= Len(w) /\ pre[n] = Upto(w, k)
        /\ Matches(chars, w, k, o)
        /\ k + o < Len(w) => chars[o + 1] # w[k + o + 1]
    BY DEF Met
  <2>4. QED
    BY <2>1, <2>2, <2>3
<1> HIDE DEF chars
<1>2. rest \in Seq(Nat) /\ Len(rest) = Len(w) - k /\ Upto(w, k) \o rest = w
  BY UptoAndRest
<1>3. \A i \in 1..Len(rest) : rest[i] = w[k + i]
  BY RestIs
<1> HIDE DEF rest
<1>4. o \in 0..Len(rest) /\ o \in 0..Len(chars) /\ Len(rest) \in Nat /\ o \in Nat \ {0}
  <2>1. \A x, y, z \in Nat : z + y <= x => y <= x - z /\ x - z \in Nat
    OBVIOUS
  <2>2. \A x \in Nat : \A y \in 1..x : y \in 0..x /\ y \in Nat \ {0}
    OBVIOUS
  <2>3. o \in Nat \ {0} /\ o \in 0..Len(chars)
    BY <1>1, <2>2
  <2>4. o <= Len(rest) /\ Len(rest) \in Nat
    BY <1>1, <1>2, <2>1, <2>3
  <2>5. QED
    BY <2>3, <2>4
<1>5. /\ c3 \in Seq(Nat) /\ Len(c3) = Len(rest) - o /\ c1 \o c3 = rest
      /\ c1 \in Seq(Nat) /\ Len(c1) = o /\ \A i \in 1..o : c1[i] = rest[i]
  BY <1>2, <1>4, UptoAndRest, UptoFacts DEF Upto
<1>6. /\ c2 \in Seq(Nat) /\ Len(c2) = Len(chars) - o /\ Upto(chars, o) \o c2 = chars
      /\ Upto(chars, o) \in Seq(Nat) /\ Len(Upto(chars, o)) = o /\ \A i \in 1..o : Upto(chars, o)[i] = chars[i]
  BY <1>1, <1>4, UptoAndRest, UptoFacts
<1>7. c2[1] = chars[o + 1]
  <2>1. \A s \in Seq(Nat) : \A i \in 0..Len(s) : i < Len(s) => SubSeq(s, i + 1, Len(s))[1] = s[i + 1]
    OBVIOUS
  <2>2. o < Len(chars)
    BY DEF chars
  <2>3. QED
    BY <1>1, <1>4, <2>1, <2>2
<1>8. k + o < Len(w) => c3[1] = rest[o + 1] /\ rest[o + 1] = w[k + o + 1]
  <2> SUFFICES ASSUME k + o < Len(w) PROVE c3[1] = rest[o + 1] /\ rest[o + 1] = w[k + o + 1]
    OBVIOUS
  <2>1. o + 1 \in 1..Len(rest) /\ k + (o + 1) = k + o + 1
    <3>1. \A x, y, z \in Nat : y + z < x => z + 1 \in 1..(x - y) /\ y + (z + 1) = y + z + 1
      OBVIOUS
    <3>2. Len(w) \in Nat /\ k \in Nat /\ o \in Nat
      BY <1>1, <1>4
    <3>3. QED
      BY <1>2, <3>1, <3>2
  <2>2. rest[o + 1] = w[k + o + 1]
    BY <1>3, <2>1
  <2>3. c3[1] = rest[o + 1]
    BY <1>2, <1>4, <2>1
  <2>4. QED
    BY <2>2, <2>3
<1> HIDE DEF c1, c2, c3
<1>9. Upto(chars, o) = c1
  <2>1. \A i \in 1..o : i \in 1..Len(rest) /\ chars[i] = w[k + i]
    <3>1. \A i \in 1..o : i \in 1..Len(rest)
      BY <1>4
    <3>2. QED
      BY <1>1, <3>1 DEF Matches
  <2>2. ASSUME NEW i \in 1..o PROVE c1[i] = Upto(chars, o)[i]
    <3>1. i \in 1..Len(rest) /\ chars[i] = w[k + i]
      BY <2>1
    <3>2. c1[i] = rest[i] /\ Upto(chars, o)[i] = chars[i]
      BY <1>5, <1>6
    <3>3. rest[i] = w[k + i]
      BY <1>3, <3>1
    <3>4. QED
      BY <3>1, <3>2, <3>3
  <2>3. QED
    BY <1>5, <1>6, <2>2, SeqEqual
<1>10. c3 = << >> <=> Len(c3) = 0
  BY <1>5, EmptySeq
<1>11. Len(rest) > o <=> k + o < Len(w)
  <2>1. \A x, y, z \in Nat : x - y > z <=> y + z < x
    OBVIOUS
  <2>2. Len(w) \in Nat /\ k \in Nat /\ o \in Nat /\ Len(rest) = Len(w) - k
    BY <1>1, <1>2, <1>4
  <2>3. QED
    BY <2>1, <2>2
<1>12. Parts(t, n, c1, c2, c3)
  <2>1. c1 # << >> /\ c2 # << >>
    <3>1. Len(<< >>) = 0
      OBVIOUS
    <3>2. Len(c1) # 0
      BY <1>4, <1>5
    <3>3. o < Len(chars) /\ o \in Nat /\ Len(chars) \in Nat
      BY <1>1, <1>4 DEF chars
    <3>4. Len(c2) # 0
      BY <1>6, <3>3
    <3>5. QED
      BY <3>1, <3>2, <3>4
  <2>2. c3 # << >> => k + o < Len(w)
    BY <1>2, <1>4, <1>5, <1>10, <1>1
  <2>3. chars = c1 \o c2
    BY <1>6, <1>9
  <2>4. QED
    BY <1>1, <1>5, <1>6, <1>7, <1>8, <2>1, <2>2, <2>3 DEF Parts, chars
<1>13. (pre[n] \o c1) \o c3 = w
  <2>1. (pre[n] \o c1) \o c3 = pre[n] \o (c1 \o c3)
    BY <1>1, <1>5, NatConcat, Zenon
  <2>2. QED
    BY <1>1, <1>2, <1>5, <2>1
<1>14. Len(rest) > o => c3 # << >>
  BY <1>4, <1>5, <1>10
<1>15. ~(Len(rest) > o) => c3 = << >> /\ rest = c1
  <2> SUFFICES ASSUME ~(Len(rest) > o) PROVE c3 = << >> /\ rest = c1
    OBVIOUS
  <2>1. Len(rest) = o
    BY <1>4
  <2>2. c3 = << >>
    BY <1>4, <1>5, <1>10, <2>1
  <2>3. c1 \o << >> = c1
    BY <1>5, ConcatEmptySeq
  <2>4. QED
    BY <1>5, <2>2, <2>3
<1>16. QED
  BY <1>12, <1>13, <1>14, <1>15 DEF rest, c1, c2, c3, chars

\* A node that the word leaves within its letters is split.
LEMMA SplitNodeAdds ==
    ASSUME NEW t, NEW pre, NEW at, Shape(t, pre, at), Entries(t),
           NEW w \in Seq(Nat), NEW k \in 0..Len(w), NEW n \in 1..Len(t.nodes), NEW o,
           Met(t, pre, w, k, n, o), o < Len(t.nodes[n].chars)
    PROVE  Added(t, SplitNode(t, n, o, SubSeq(w, k + 1, Len(w))), w)
<1> DEFINE rest == SubSeq(w, k + 1, Len(w))
           chars == t.nodes[n].chars
           c1 == SubSeq(rest, 1, o)
           c2 == SubSeq(chars, o + 1, Len(chars))
           c3 == SubSeq(rest, o + 1, Len(rest))
           f == Len(t.nodes) + 1
           id == t.nodes[n].id
<1>1. /\ Parts(t, n, c1, c2, c3)
      /\ (pre[n] \o c1) \o c3 = w
      /\ Len(rest) > o => c3 # << >>
      /\ ~(Len(rest) > o) => c3 = << >> /\ rest = c1
  BY SplitLetters
<1>2. t \in Tries /\ Len(t.count) = Len(t.table) /\ id \in 0..Len(t.table)
  BY ShapeTypes DEF Linked
<1>3. ~Moved(t, n)
  BY DEF Met
<1> HIDE DEF rest, c1, c2, c3, chars
<1>4. c1 \in Seq(Nat) /\ c1 # << >> /\ c2 \in Seq(Nat) /\ c2 # << >> /\ c3 \in Seq(Nat)
  BY <1>1 DEF Parts
<1>5. NextNode(t) = f
  BY DEF NextNode
<1>6. CASE Len(rest) > o
  <2> DEFINE t1 == WriteNode(t, c1, t.nodes[n].parent, 0, 0, FALSE)
             t2 == AddArray(t1, <<f + 1, f + 2>>)
             t3 == WriteNode(t2, c2, f, id, t.nodes[n].kids, id # 0)
             t4 == WriteNewTerminal(t3, c3, f, 0, 0)
  <2>1. Parted(t, t4, n, c1, c2, c3) /\ NextArray(t1) = Len(t.arrays) + 1
    <3>1. c3 # << >>
      BY <1>1, <1>6
    <3>2. QED
      BY <1>2, <1>4, <3>1, PartedLong
  <2>2. SplitNode(t, n, o, rest) = SplitInto(t, t4, n)
    BY <1>5, <1>6, <2>1 DEF SplitNode, SplitInto, c1, c2, c3, chars
  <2> HIDE DEF t4
  <2>3. Added(t, SplitInto(t, t4, n), w)
    BY <1>1, <1>3, <2>1, PartedAdds
  <2>4. QED
    BY <2>2, <2>3 DEF rest
<1>7. CASE ~(Len(rest) > o)
  <2> DEFINE t1 == WriteNewTerminal(t, c1, t.nodes[n].parent, 0, 0)
             t2 == AddArray(t1, <<f + 1>>)
             t3 == WriteNode(t2, c2, f, id, t.nodes[n].kids, id # 0)
  <2>1. rest = c1 /\ c3 = << >>
    BY <1>1, <1>7
  <2>2. Parted(t, t3, n, c1, c2, c3) /\ NextArray(t1) = Len(t.arrays) + 1
    BY <1>2, <1>4, <2>1, PartedShort
  <2>3. SplitNode(t, n, o, rest) = SplitInto(t, t3, n)
    BY <1>5, <1>7, <2>1, <2>2 DEF SplitNode, SplitInto, c2, chars
  <2> HIDE DEF t3
  <2>4. Added(t, SplitInto(t, t3, n), w)
    BY <1>1, <1>3, <2>2, PartedAdds
  <2>5. QED
    BY <2>3, <2>4 DEF rest
<1>8. QED
  BY <1>6, <1>7
----------------------------------------------------------------------------
(* A word is added. *)

\* What is left of what is left.
LEMMA RestOfRest ==
    ASSUME NEW w \in Seq(Nat), NEW k \in Nat, NEW o \in Nat, k + o <= Len(w)
    PROVE  LET rest == SubSeq(w, k + 1, Len(w))
           IN  SubSeq(rest, o + 1, Len(rest)) = SubSeq(w, (k + o) + 1, Len(w))
OBVIOUS

LEMMA AddUnigramAdds ==
    ASSUME NEW t, NEW pre, NEW at, Shape(t, pre, at), Entries(t),
           NEW w \in Seq(Nat), w # << >>, WordId(t, w) = 0
    PROVE  Added(t, AddUnigram(t, w), w)
<1> DEFINE stop == Walk(t, w)
<1>1. PICK p : /\ Reading(t, at, w, p)
               /\ \/ Ends(t, pre, w, p, stop)
                  \/ \E n \in 1..Len(t.nodes), o \in Nat :
                       Met(t, pre, w, p.k, n, o) /\ Stops(t, w, p.k, n, o, stop)
  BY WalkStops
<1>2. p.k \in 0..Len(w)
  BY <1>1 DEF Reading, Places
<1>3. CASE Ends(t, pre, w, p, stop)
  <2>1. stop = AtEnd(p)
    BY <1>3 DEF Ends
  <2>2. /\ stop.stop = "end" /\ stop.array = p.array /\ stop.node = p.node /\ stop.k = p.k
    BY <2>1 DEF AtEnd
  <2>3. AddUnigram(t, w) = AppendSibling(t, p.array, p.node, SubSeq(w, p.k + 1, Len(w)))
    <3> HIDE DEF stop
    <3>1. QED
      BY <2>2 DEF AddUnigram, stop
  <2>4. QED
    BY <1>1, <1>3, <2>3, AppendSiblingAdds
<1>4. ASSUME NEW n \in 1..Len(t.nodes), NEW o \in Nat,
             Met(t, pre, w, p.k, n, o), Stops(t, w, p.k, n, o, stop)
      PROVE  Added(t, AddUnigram(t, w), w)
  <2> DEFINE k == p.k
             rest == SubSeq(w, k + 1, Len(w))
  <2>1. ~Moved(t, n) /\ k + o <= Len(w)
    BY <1>4 DEF Met
  <2> HIDE DEF stop
  <2>2. CASE o < Len(t.nodes[n].chars) /\ stop = At("within", n, k, o)
    <3>1. stop.stop = "within" /\ stop.node = n /\ stop.k = k /\ stop.overlap = o
      BY <2>2 DEF At
    <3>2. AddUnigram(t, w) = SplitNode(t, n, o, rest)
      BY <3>1 DEF AddUnigram, stop
    <3>3. QED
      BY <1>2, <1>4, <2>2, <3>2, SplitNodeAdds
  <2>3. CASE o = Len(t.nodes[n].chars) /\ k + o = Len(w) /\ stop = At("on", n, k, o)
    <3>1. stop.stop = "on" /\ stop.node = n
      BY <2>3 DEF At
    <3>2. AddUnigram(t, w) = SetProbability(t, n)
      BY <3>1 DEF AddUnigram, stop
    <3>3. Spelled(t, pre, n) = Upto(w, k + o)
      BY <1>2, <1>4, <2>3, OnSpells, SMTT(20)
    <3>4. Upto(w, Len(w)) = w
      BY UptoWhole
    <3>5. t.nodes[n].id = 0 \/ t.nodes[n].flag = "deleted"
      BY <3>1 DEF WordId, stop
    <3>6. Added(t, SetProbability(t, n), Spelled(t, pre, n))
      BY <2>1, <3>5, SetProbabilityAdds
    <3>7. QED
      BY <2>3, <3>2, <3>3, <3>4, <3>6
  <2>4. CASE /\ o = Len(t.nodes[n].chars) /\ k + o < Len(w)
             /\ t.nodes[n].kids = 0 /\ stop = At("leaf", n, k, o)
    <3> DEFINE more == SubSeq(rest, o + 1, Len(rest))
    <3>1. stop.stop = "leaf" /\ stop.node = n /\ stop.k = k /\ stop.overlap = o
      BY <2>4 DEF At
    <3>2. AddUnigram(t, w) = AddFirstChild(t, n, more)
      BY <3>1 DEF AddUnigram, stop
    <3>3. /\ Spelled(t, pre, n) = Upto(w, k + o)
      BY <1>2, <1>4, <2>4, OnSpells, SMTT(20)
    <3>4. k \in Nat /\ o \in Nat /\ Len(w) \in Nat
      BY <1>2
    <3>5. k + o \in 0..Len(w) /\ Len(w) - (k + o) # 0
      <4>1. \A x, y, z \in Nat : x + y < z => x + y \in 0..z /\ z - (x + y) # 0
        OBVIOUS
      <4> HIDE DEF k
      <4>2. QED
        BY <2>4, <3>4, <4>1
    <3>6. more = SubSeq(w, (k + o) + 1, Len(w))
      BY <2>1, <3>4, RestOfRest
    <3> HIDE DEF more
    <3>7. /\ more \in Seq(Nat) /\ Len(more) = Len(w) - (k + o) /\ Upto(w, k + o) \o more = w
      BY <3>5, <3>6, UptoAndRest
    <3>8. more # << >>
      <4>1. Len(<< >>) = 0
        OBVIOUS
      <4>2. QED
        BY <3>5, <3>7, <4>1
    <3>9. Added(t, AddFirstChild(t, n, more), Spelled(t, pre, n) \o more)
      BY <2>1, <2>4, <3>7, <3>8, AddFirstChildAdds
    <3>10. QED
      BY <3>2, <3>3, <3>7, <3>9
  <2>5. QED
    BY <1>4, <2>2, <2>3, <2>4 DEF Stops
<1>5. QED
  BY <1>1, <1>3, <1>4
----------------------------------------------------------------------------
(* Entries change, the tree stays. *)

\* The same nodes and arrays, but for the flags of nodes that have not moved.
SameTree(t, u) ==
    /\ u \in Tries /\ Len(u.nodes) = Len(t.nodes) /\ u.arrays = t.arrays
    /\ \A x \in 1..Len(t.nodes) :
         /\ u.nodes[x].chars = t.nodes[x].chars /\ u.nodes[x].parent = t.nodes[x].parent
         /\ u.nodes[x].kids = t.nodes[x].kids /\ u.nodes[x].id = t.nodes[x].id
         /\ Moved(u, x) <=> Moved(t, x)
    /\ Len(u.table) = Len(t.table) /\ Len(u.count) = Len(t.table)
    /\ \A i \in 1..Len(t.table) : u.table[i] <= Len(t.nodes)
    /\ \A p \in u.pairs : p[1] \in 1..Len(t.table) /\ p[2] \in 1..Len(t.table)

LEMMA SameTreeShape ==
    ASSUME NEW t, NEW pre, NEW at, Shape(t, pre, at), NEW u, SameTree(t, u)
    PROVE  /\ Shape(u, pre, at)
           /\ \A x \in 1..Len(t.nodes) : Spelled(u, pre, x) = Spelled(t, pre, x)
<1> DEFINE N == 1..Len(t.nodes)
<1>1. /\ Linked(t) /\ t \in Tries
  BY ShapeTypes
<1>2. Linked(u)
  BY <1>1 DEF Linked, SameTree, Moved
<1>3. /\ 1..Len(u.nodes) = N /\ u.arrays = t.arrays
      /\ \A x \in N : /\ Moved(u, x) <=> Moved(t, x)
                      /\ u.nodes[x].parent = t.nodes[x].parent /\ u.nodes[x].kids = t.nodes[x].kids
                      /\ Spelled(u, pre, x) = Spelled(t, pre, x) /\ Letter(u, x) = Letter(t, x)
  BY DEF SameTree, Spelled, Letter
<1>4. /\ pre \in [N -> Seq(Nat)] /\ at \in [1..Len(t.arrays) -> Seq(Nat)]
      /\ Chained(t, at) /\ Filled(t, pre, at) /\ Forwards(t, pre) /\ Listed(t)
      /\ at[1] = << >> /\ Owned(t, pre, at) /\ Kids(t, pre, at) /\ Parents(t, pre) /\ Apart(t, pre)
  BY DEF Shape, Laid
<1>5. \A x \in N : Fetch(u, x) = Fetch(t, x)
  <2>1. \A x \in N : Fetch(u, x) = Fetch(u, Fetch(t, x))
    <3>1. Len(t.nodes) <= Len(u.nodes)
      BY <1>1, TypesOf DEF SameTree
    <3>2. \A x \in N : Moved(t, x) => Moved(u, x) /\ u.nodes[x].parent = t.nodes[x].parent
      BY <1>3
    <3>3. QED
      BY <1>1, <1>2, <3>1, <3>2, FetchLater
  <2>2. \A x \in N : Fetch(t, x) \in N /\ ~Moved(t, Fetch(t, x))
    BY FetchKeeps DEF Shape
  <2>3. \A y \in N : ~Moved(u, y) => Fetch(u, y) = y
    BY <1>2, <1>3, FetchUnfolds
  <2>4. QED
    BY <1>3, <2>1, <2>2, <2>3
<1>6. Chained(u, at) /\ Filled(u, pre, at)
  BY <1>3, <1>4 DEF Chained, Filled
<1>7. Forwards(u, pre)
  <2>1. \A x \in N : Moved(t, x) => t.nodes[x].parent \in N
    BY <1>1, MovedTo
  <2>2. QED
    BY <1>3, <1>4, <2>1 DEF Forwards
<1>8. Listed(u)
  <2> SUFFICES ASSUME NEW n \in N, ~Moved(u, n)
               PROVE  \E a \in 1..Len(u.arrays), m \in N : Member(u, a, m) /\ Fetch(u, m) = n
    BY <1>3 DEF Listed
  <2>1. PICK a \in 1..Len(t.arrays), m \in N : Member(t, a, m) /\ Fetch(t, m) = n
    BY <1>3, <1>4 DEF Listed
  <2>2. Member(u, a, m)
    BY <1>3, <2>1 DEF Member
  <2>3. QED
    BY <1>3, <1>5, <2>1, <2>2
<1>9. Laid(u, pre, at)
  BY <1>2, <1>3, <1>4, <1>6, <1>7, <1>8 DEF Laid
<1>10. Owned(u, pre, at) /\ Kids(u, pre, at)
  <2>1. Kids(u, pre, at)
    BY <1>3, <1>4 DEF Kids, First
  <2>2. Owned(u, pre, at)
    <3> SUFFICES ASSUME NEW a \in 1..Len(t.arrays), at[a] # << >>
                 PROVE  \E n \in N : ~Moved(u, n) /\ u.nodes[n].kids # 0 /\ Spelled(u, pre, n) = at[a]
      BY <1>3 DEF Owned
    <3>1. PICK n \in N : ~Moved(t, n) /\ t.nodes[n].kids # 0 /\ Spelled(t, pre, n) = at[a]
      BY <1>4 DEF Owned
    <3>2. QED
      BY <1>3, <3>1
  <2>3. QED
    BY <2>1, <2>2
<1>11. Parents(u, pre)
  <2>1. \A x \in N : t.nodes[x].parent \in 0..Len(t.nodes)
    BY ShapeTypes
  <2>2. \A x \in N : t.nodes[x].parent # 0 => t.nodes[x].parent \in N
    BY <2>1
  <2>3. QED
    BY <1>3, <1>4, <2>2 DEF Parents
<1>12. Apart(u, pre)
  BY <1>3, <1>4 DEF Apart
<1>13. QED
  BY <1>3, <1>4, <1>9, <1>10, <1>11, <1>12 DEF Shape

\* The node of a word that is there.
LEMMA WordNode ==
    ASSUME NEW t, NEW pre, NEW at, Shape(t, pre, at), Entries(t),
           NEW w \in Seq(Nat), w # << >>, WordId(t, w) # 0
    PROVE  LET id == WordId(t, w)
           IN  /\ id \in 1..Len(t.table) /\ t.table[id] = Walk(t, w).node
               /\ t.table[id] \in 1..Len(t.nodes) /\ t.nodes[t.table[id]].flag = "none"
               /\ t.nodes[t.table[id]].id = id /\ Spelled(t, pre, t.table[id]) = w
<1> DEFINE n == Walk(t, w).node
           id == WordId(t, w)
<1>1. /\ n \in 1..Len(t.nodes) /\ t.nodes[n].flag = "none"
      /\ Spelled(t, pre, n) = w /\ t.nodes[n].id = id
  BY WordIdFrom
<1> HIDE DEF n, id
<1>2. t.table[id] = n
  BY <1>1 DEF Entries, id
<1>3. id \in 0..Len(t.table)
  BY <1>1, ShapeTypes
<1>4. id # 0
  BY DEF id
<1>5. id \in 1..Len(t.table)
  BY <1>3, <1>4, ShapeTypes, TypesOf
<1>6. QED
  BY <1>1, <1>2, <1>5 DEF n, id

\* Different ids in the table are those of different words.
LEMMA WordOnce ==
    ASSUME NEW t, NEW pre, NEW at, Shape(t, pre, at), Entries(t),
           NEW i \in 1..Len(t.table), t.table[i] # 0, NEW j \in 1..Len(t.table), t.table[j] # 0,
           Spelled(t, pre, t.table[i]) = Spelled(t, pre, t.table[j])
    PROVE  i = j
<1>1. /\ t.table[i] \in 1..Len(t.nodes) /\ ~Moved(t, t.table[i]) /\ t.nodes[t.table[i]].id = i
      /\ t.table[j] \in 1..Len(t.nodes) /\ ~Moved(t, t.table[j]) /\ t.nodes[t.table[j]].id = j
  BY TableFacts
<1>2. t.table[i] = t.table[j]
  BY <1>1, SpelledOnce
<1>3. QED
  BY <1>1, <1>2

LEMMA CountedBy ==
    ASSUME NEW t, NEW pre, NEW at, Shape(t, pre, at), Entries(t), NEW c, c # NoEntry
    PROVE  \A x : x \in WordsCounted(t, c) <=>
                    \E i \in 1..Len(t.table) : t.count[i] = c /\ x = Spelled(t, pre, t.table[i])
<1>1. WordsCounted(t, c) = {Spelled(t, pre, t.table[i]) : i \in {j \in 1..Len(t.table) : t.count[j] = c}}
  BY WordsCountedIs
<1>2. QED
  BY <1>1

\* A word that is there is counted, and a pair of words may get an entry.
LEMMA UpdateAllEntriesCounts ==
    ASSUME NEW t, NEW pre, NEW at, Shape(t, pre, at), Entries(t),
           NEW w \in Seq(Nat), w # << >>, WordId(t, w) # 0,
           NEW before \in Seq(Nat)
    PROVE  LET u == UpdateAllEntries(t, before, w)
           IN  /\ Sound(u)
               /\ WordsCounted(u, 0) = WordsCounted(t, 0) \ {w}
               /\ WordsCounted(u, 1) = WordsCounted(t, 1) \cup {w}
               /\ Stays(t, u, {w} \ WordsWithEntry(t))
               /\ \A p \in u.pairs : p \in t.pairs \/ SpelledBy(u, u.table[p[2]]) = w
<1> DEFINE id == WordId(t, w)
           prev == IF before = << >> THEN 0 ELSE WordId(t, before)
           more == IF prev = 0 THEN t.pairs ELSE t.pairs \cup {<<prev, id>>}
           u == UpdateAllEntries(t, before, w)
           L == Len(t.table)
           count == [t.count EXCEPT ![id] = 1]
<1>1. /\ t \in Tries /\ Linked(t) /\ Len(t.count) = L /\ L \in Nat
  BY ShapeTypes, TypesOf DEF Linked
<1>2. /\ id \in 1..L /\ t.table[id] # 0 /\ Spelled(t, pre, t.table[id]) = w
      /\ t.table[id] \in 1..Len(t.nodes) /\ t.nodes[t.table[id]].flag = "none"
  <2>1. t.table[id] \in 1..Len(t.nodes)
    BY WordNode
  <2>2. \A x \in 1..Len(t.nodes) : x # 0
    BY ShapeTypes
  <2>3. QED
    BY <2>1, <2>2, WordNode
<1>3. prev # 0 => prev \in 1..L /\ t.table[prev] # 0
  <2> SUFFICES ASSUME prev # 0 PROVE prev \in 1..L /\ t.table[prev] # 0
    OBVIOUS
  <2>1. before # << >> /\ prev = WordId(t, before)
    OBVIOUS
  <2>2. prev \in 1..L /\ t.table[prev] \in 1..Len(t.nodes)
    BY <2>1, WordNode
  <2>3. \A x \in 1..Len(t.nodes) : x # 0
    BY ShapeTypes
  <2>4. QED
    BY <2>2, <2>3
<1>4. u = [t EXCEPT !.count = count, !.pairs = more]
  BY DEF UpdateAllEntries
<1> HIDE DEF id, prev, u
<1>5. /\ count \in Seq(0..NoEntry) /\ Len(count) = L
      /\ \A i \in 1..L : count[i] = IF i = id THEN 1 ELSE t.count[i]
  <2>1. t.count \in Seq(0..NoEntry)
    BY <1>1 DEF Tries
  <2>2. 1 \in 0..NoEntry
    BY DEF NoEntry
  <2>3. QED
    BY <1>1, <1>2, <2>1, <2>2
<1>6. /\ more \subseteq Nat \X Nat
      /\ \A p \in more : p[1] \in 1..L /\ p[2] \in 1..L /\ t.table[p[1]] # 0
  <2>1. t.pairs \subseteq Nat \X Nat
    BY <1>1 DEF Tries
  <2>2. \A p \in t.pairs : p[1] \in 1..L /\ p[2] \in 1..L /\ t.table[p[1]] # 0
    BY <1>1 DEF Linked, Entries
  <2>3. prev # 0 => /\ <<prev, id>> \in Nat \X Nat
                    /\ <<prev, id>>[1] = prev /\ <<prev, id>>[2] = id
    BY <1>1, <1>2, <1>3
  <2> HIDE DEF L
  <2>4. QED
    BY <1>2, <1>3, <2>1, <2>2, <2>3
<1> HIDE DEF count, more
<1>7. /\ u \in Tries /\ u.nodes = t.nodes /\ u.arrays = t.arrays /\ u.table = t.table
      /\ u.count = count /\ u.pairs = more
  BY <1>1, <1>4, <1>5, <1>6 DEF Tries
<1>8. SameTree(t, u)
  <2>1. \A i \in 1..L : t.table[i] <= Len(t.nodes)
    BY <1>1 DEF Linked
  <2>2. QED
    BY <1>5, <1>6, <1>7, <2>1 DEF SameTree, Moved
<1>9. /\ Shape(u, pre, at)
      /\ \A x \in 1..Len(t.nodes) : Spelled(u, pre, x) = Spelled(t, pre, x)
  BY <1>8, SameTreeShape
<1>10. Entries(u)
  <2>1. \A i \in 1..L : u.count[i] # NoEntry => u.table[i] # 0
    BY <1>2, <1>5, <1>7 DEF Entries
  <2>2. \A p \in u.pairs : u.table[p[1]] # 0
    BY <1>6, <1>7
  <2>3. QED
    BY <1>7, <2>1, <2>2 DEF Entries, Moved
<1>11. \A c : c # NoEntry =>
         /\ \A x : x \in WordsCounted(t, c) <=> \E i \in 1..L : t.count[i] = c /\ x = Spelled(t, pre, t.table[i])
         /\ \A x : x \in WordsCounted(u, c) <=> \E i \in 1..L : u.count[i] = c /\ x = Spelled(u, pre, u.table[i])
  <2> SUFFICES ASSUME NEW c, c # NoEntry
               PROVE  /\ \A x : x \in WordsCounted(t, c) <=>
                                  \E i \in 1..L : t.count[i] = c /\ x = Spelled(t, pre, t.table[i])
                      /\ \A x : x \in WordsCounted(u, c) <=>
                                  \E i \in 1..L : u.count[i] = c /\ x = Spelled(u, pre, u.table[i])
    OBVIOUS
  <2>1. \A x : x \in WordsCounted(u, c) <=>
                 \E i \in 1..Len(u.table) : u.count[i] = c /\ x = Spelled(u, pre, u.table[i])
    BY <1>9, <1>10, CountedBy
  <2>2. QED
    BY <1>7, <2>1, CountedBy
<1>12. \A i \in 1..L : u.count[i] # NoEntry => /\ t.table[i] # 0 /\ t.table[i] \in 1..Len(t.nodes)
                                               /\ Spelled(u, pre, u.table[i]) = Spelled(t, pre, t.table[i])
  <2>1. \A i \in 1..L : u.count[i] # NoEntry => t.table[i] # 0
    BY <1>7, <1>10 DEF Entries
  <2>2. \A i \in 1..L : t.table[i] # 0 => t.table[i] \in 1..Len(t.nodes)
    BY TableFacts
  <2>3. QED
    BY <1>7, <1>9, <2>1, <2>2
<1>13. 0 # NoEntry /\ 1 # NoEntry
  BY DEF NoEntry
<1>14. WordsCounted(u, 1) = WordsCounted(t, 1) \cup {w}
  <2> HIDE DEF L
  <2>1. \A i \in 1..L : u.count[i] = 1 <=> i = id \/ t.count[i] = 1
    BY <1>5, <1>7
  <2>2. \A i \in 1..L : u.count[i] = 1 => Spelled(u, pre, u.table[i]) = Spelled(t, pre, t.table[i])
    BY <1>12, <1>13
  <2>3. \A x : x \in WordsCounted(u, 1) <=> \E i \in 1..L : u.count[i] = 1 /\ x = Spelled(t, pre, t.table[i])
    BY <1>11, <1>13, <2>2
  <2>4. \A x : x \in WordsCounted(t, 1) <=> \E i \in 1..L : t.count[i] = 1 /\ x = Spelled(t, pre, t.table[i])
    BY <1>11, <1>13
  <2>5. QED
    BY <1>2, <2>1, <2>3, <2>4
<1>15. WordsCounted(u, 0) = WordsCounted(t, 0) \ {w}
  <2> HIDE DEF L
  <2>1. \A i \in 1..L : u.count[i] = 0 <=> i # id /\ t.count[i] = 0
    BY <1>5, <1>7
  <2>2. \A i \in 1..L : u.count[i] = 0 => Spelled(u, pre, u.table[i]) = Spelled(t, pre, t.table[i])
    BY <1>12, <1>13
  <2>3. \A x : x \in WordsCounted(u, 0) <=> \E i \in 1..L : u.count[i] = 0 /\ x = Spelled(t, pre, t.table[i])
    BY <1>11, <1>13, <2>2
  <2>6. \A x : x \in WordsCounted(t, 0) <=> \E i \in 1..L : t.count[i] = 0 /\ x = Spelled(t, pre, t.table[i])
    BY <1>11, <1>13
  <2>4. \A i \in 1..L : t.count[i] = 0 /\ Spelled(t, pre, t.table[i]) = w => i = id
    <3>1. \A i \in 1..L : t.count[i] = 0 => t.table[i] # 0
      BY <1>13 DEF Entries, L
    <3>2. QED
      BY <1>2, <3>1, WordOnce DEF L
  <2>5. QED
    BY <1>2, <2>1, <2>3, <2>4, <2>6
<1>16. Spelled(u, pre, u.table[id]) = w /\ SpelledBy(u, u.table[id]) = w
  <2>1. u.table[id] = t.table[id]
    BY <1>7
  <2>2. Spelled(u, pre, u.table[id]) = w
    BY <1>2, <1>9, <2>1
  <2>3. u.table[id] \in 1..Len(u.nodes) /\ ~Moved(u, u.table[id])
    BY <1>2, <1>7, <2>1 DEF Moved
  <2>4. QED
    BY <1>9, <2>2, <2>3, SpelledByIs
<1>17. Stays(t, u, {w} \ WordsWithEntry(t))
  <2>1. ASSUME NEW i \in 1..L, u.count[i] # NoEntry, i # id \/ t.count[i] # NoEntry
        PROVE  t.count[i] # NoEntry /\ SpelledBy(u, u.table[i]) = SpelledBy(t, t.table[i])
    <3>1. t.count[i] # NoEntry
      BY <1>5, <1>7, <2>1
    <3>2. SpelledBy(t, t.table[i]) = Spelled(t, pre, t.table[i])
      BY <3>1, EntryWord
    <3>3. SpelledBy(u, u.table[i]) = Spelled(u, pre, u.table[i])
      BY <1>7, <1>9, <1>10, <2>1, EntryWord
    <3>4. QED
      BY <1>12, <2>1, <3>1, <3>2, <3>3
  <2>2. t.count[id] = NoEntry => w \notin WordsWithEntry(t)
    <3> SUFFICES ASSUME NEW c \in {0, 1}, t.count[id] = NoEntry, w \in WordsCounted(t, c)
                 PROVE  FALSE
      BY DEF WordsWithEntry
    <3>1. c # NoEntry
      BY <1>13
    <3>2. PICK j \in 1..L : t.count[j] = c /\ w = Spelled(t, pre, t.table[j])
      BY <1>11, <3>1
    <3>3. t.table[j] # 0
      BY <3>1, <3>2 DEF Entries
    <3>4. j = id
      BY <1>2, <3>2, <3>3, WordOnce
    <3>5. QED
      BY <3>1, <3>2, <3>4
  <2>3. QED
    BY <1>7, <1>16, <2>1, <2>2 DEF Stays
<1>18. \A p \in u.pairs : p \in t.pairs \/ SpelledBy(u, u.table[p[2]]) = w
  BY <1>7, <1>16 DEF more
<1>19. QED
  BY <1>9, <1>10, <1>14, <1>15, <1>17, <1>18 DEF Sound, u

\* A node marked deleted.
Deleting(s, n) == [s EXCEPT ![n].flag = "deleted"]
LEMMA FlagSet ==
    ASSUME NEW s \in Seq(Nodes), NEW n \in 1..Len(s)
    PROVE  LET v == Deleting(s, n)
           IN  /\ v \in Seq(Nodes) /\ Len(v) = Len(s)
               /\ \A x \in 1..Len(s) :
                    /\ v[x].chars = s[x].chars /\ v[x].parent = s[x].parent
                    /\ v[x].id = s[x].id /\ v[x].kids = s[x].kids
                    /\ v[x].flag = IF x = n THEN "deleted" ELSE s[x].flag
<1> DEFINE v == Deleting(s, n)
           r == [s[n] EXCEPT !.flag = "deleted"]
<1>1. \A x \in 1..Len(s) : s[x] \in Nodes
  OBVIOUS
<1>2. /\ r \in Nodes
      /\ r.chars = s[n].chars /\ r.parent = s[n].parent
      /\ r.id = s[n].id /\ r.kids = s[n].kids /\ r.flag = "deleted"
  <2>1. s[n] \in Nodes
    BY <1>1
  <2>2. QED
    BY <2>1 DEF Nodes
<1>3. v = [s EXCEPT ![n] = r]
  BY DEF Deleting
<1> HIDE DEF v, r
<1>4. /\ v \in Seq(Nodes) /\ Len(v) = Len(s)
      /\ \A x \in 1..Len(s) : v[x] = IF x = n THEN r ELSE s[x]
  BY <1>2, <1>3
<1>5. QED
  BY <1>2, <1>4 DEF v

\* A word that is there is removed with the pairs it begins, and no other word.
LEMMA RemoveUnigramRemoves ==
    ASSUME NEW t, NEW pre, NEW at, Shape(t, pre, at), Entries(t),
           NEW w \in Seq(Nat), w # << >>, WordId(t, w) # 0
    PROVE  LET u == RemoveUnigram(t, w)
           IN  /\ Sound(u)
               /\ WordsCounted(u, 0) = WordsCounted(t, 0) \ {w}
               /\ WordsCounted(u, 1) = WordsCounted(t, 1) \ {w}
               /\ Stays(t, u, {}) /\ u.pairs \subseteq t.pairs
<1> DEFINE id == WordId(t, w)
           n == t.table[id]
           less == {p \in t.pairs : p[1] # id}
           u == RemoveUnigram(t, w)
           L == Len(t.table)
           count == [t.count EXCEPT ![id] = NoEntry]
           table == [t.table EXCEPT ![id] = 0]
           nodes == Deleting(t.nodes, n)
<1>1. /\ t \in Tries /\ Linked(t) /\ Len(t.count) = L /\ L \in Nat /\ Len(t.nodes) \in Nat
  BY ShapeTypes, TypesOf DEF Linked
<1>2. /\ id \in 1..L /\ n \in 1..Len(t.nodes) /\ t.nodes[n].flag = "none" /\ t.nodes[n].id = id
      /\ Spelled(t, pre, n) = w
  BY WordNode
<1>3. u = [t EXCEPT !.table = table, !.nodes = nodes, !.count = count, !.pairs = less]
  <2>1. ~(id > Len(t.table))
    <3> HIDE DEF id
    <3>1. QED
      BY <1>1, <1>2
  <2>2. SetTable(t, id, 0) = [t EXCEPT !.table[id] = 0]
    BY <2>1 DEF SetTable
  <2> HIDE DEF id
  <2>3. u = [SetTable(t, id, 0) EXCEPT !.nodes[n].flag = "deleted", !.count[id] = NoEntry,
                                       !.pairs = {p \in @ : p[1] # id}]
    BY DEF RemoveUnigram, id
  <2>4. u = [[t EXCEPT !.table[id] = 0] EXCEPT
               !.nodes[n].flag = "deleted", !.count[id] = NoEntry,
               !.pairs = {p \in @ : p[1] # id}]
    BY <2>2, <2>3
  <2>5. t = [nodes |-> t.nodes, arrays |-> t.arrays, table |-> t.table, count |-> t.count, pairs |-> t.pairs]
    BY <1>1 DEF Tries
  <2>6. QED
    BY <1>1, <2>4, <2>5 DEF Tries, Deleting
<1> HIDE DEF u, id
<1>4. /\ count \in Seq(0..NoEntry) /\ Len(count) = L
      /\ \A i \in 1..L : count[i] = IF i = id THEN NoEntry ELSE t.count[i]
  <2>1. t.count \in Seq(0..NoEntry)
    BY <1>1 DEF Tries
  <2>2. NoEntry \in 0..NoEntry
    BY DEF NoEntry
  <2>3. QED
    BY <1>1, <1>2, <2>1, <2>2, SMTT(20)
<1>5. /\ table \in Seq(Nat) /\ Len(table) = L
      /\ \A i \in 1..L : table[i] = IF i = id THEN 0 ELSE t.table[i]
  <2>1. t.table \in Seq(Nat)
    BY <1>1 DEF Tries
  <2>2. QED
    BY <1>1, <1>2, <2>1
<1>6. /\ less \subseteq Nat \X Nat
      /\ \A p \in less : p \in t.pairs /\ p[1] # id
  <2>1. t.pairs \subseteq Nat \X Nat
    BY <1>1 DEF Tries
  <2>2. QED
    BY <2>1
<1>7. t.nodes \in Seq(Nodes)
  BY <1>1 DEF Tries
<1> HIDE DEF n
<1>8. /\ nodes \in Seq(Nodes) /\ Len(nodes) = Len(t.nodes)
      /\ \A x \in 1..Len(t.nodes) :
           /\ nodes[x].chars = t.nodes[x].chars /\ nodes[x].parent = t.nodes[x].parent
           /\ nodes[x].id = t.nodes[x].id /\ nodes[x].kids = t.nodes[x].kids
           /\ nodes[x].flag = IF x = n THEN "deleted" ELSE t.nodes[x].flag
  BY <1>2, <1>7, FlagSet
<1> HIDE DEF count, less, table, nodes
<1>9. /\ u \in Tries /\ u.nodes = nodes /\ u.arrays = t.arrays /\ u.table = table
      /\ u.count = count /\ u.pairs = less
  BY <1>1, <1>3, <1>4, <1>5, <1>6, <1>8 DEF Tries
<1>10. \A x \in 1..Len(t.nodes) :
         /\ u.nodes[x].chars = t.nodes[x].chars /\ u.nodes[x].parent = t.nodes[x].parent
         /\ u.nodes[x].id = t.nodes[x].id /\ u.nodes[x].kids = t.nodes[x].kids
         /\ u.nodes[x].flag = IF x = n THEN "deleted" ELSE t.nodes[x].flag
         /\ Moved(u, x) <=> Moved(t, x)
  <2>1. \A x \in 1..Len(t.nodes) :
         /\ u.nodes[x].chars = t.nodes[x].chars /\ u.nodes[x].parent = t.nodes[x].parent
         /\ u.nodes[x].id = t.nodes[x].id /\ u.nodes[x].kids = t.nodes[x].kids
         /\ u.nodes[x].flag = IF x = n THEN "deleted" ELSE t.nodes[x].flag
    BY <1>8, <1>9
  <2>2. QED
    BY <1>2, <2>1 DEF Moved
<1>11. SameTree(t, u)
  <2>1. \A i \in 1..L : t.table[i] <= Len(t.nodes) /\ 0 <= Len(t.nodes)
    BY <1>1 DEF Linked
  <2>2. \A i \in 1..L : table[i] <= Len(t.nodes)
    BY <1>5, <2>1
  <2>3. \A p \in less : p[1] \in 1..L /\ p[2] \in 1..L
    BY <1>1, <1>6 DEF Linked
  <2>4. QED
    BY <1>4, <1>5, <1>8, <1>9, <1>10, <2>2, <2>3 DEF SameTree
<1>12. /\ Shape(u, pre, at)
       /\ \A x \in 1..Len(t.nodes) : Spelled(u, pre, x) = Spelled(t, pre, x)
  BY <1>11, SameTreeShape
<1>13. \A i \in 1..L : t.table[i] # 0 =>
         /\ t.table[i] \in 1..Len(t.nodes) /\ t.nodes[t.table[i]].flag = "none"
         /\ t.nodes[t.table[i]].id = i
  BY TableFacts
<1>14. Entries(u)
  <2>1. /\ Len(u.nodes) = Len(t.nodes) /\ Len(u.table) = L
    BY <1>5, <1>8, <1>9
  <2>2. \A x \in 1..Len(t.nodes) : x # n => t.nodes[x].id # id \/ Moved(t, x) \/ id = 0
    BY <1>2 DEF Entries, Moved
  <2>3. id # 0
    BY <1>1, <1>2
  <2>4. \A x \in 1..Len(t.nodes) : u.nodes[x].flag = "none" /\ u.nodes[x].id # 0 => u.table[u.nodes[x].id] = x
    <3> SUFFICES ASSUME NEW x \in 1..Len(t.nodes), u.nodes[x].flag = "none", u.nodes[x].id # 0
                 PROVE  u.table[u.nodes[x].id] = x
      OBVIOUS
    <3>1. x # n /\ t.nodes[x].flag = "none" /\ u.nodes[x].id = t.nodes[x].id
      BY <1>10
    <3>2. t.nodes[x].id # id
      BY <2>2, <2>3, <3>1 DEF Moved
    <3>3. t.table[t.nodes[x].id] = x
      BY <3>1 DEF Entries
    <3>4. t.nodes[x].id \in 0..L
      BY ShapeTypes
    <3>5. t.nodes[x].id \in 1..L
      BY <1>1, <3>1, <3>4
    <3>6. QED
      BY <1>5, <1>9, <3>1, <3>2, <3>3, <3>5
  <2>5. \A x \in 1..Len(t.nodes) : u.nodes[x].flag = "deleted" => u.nodes[x].id # 0 /\ u.table[u.nodes[x].id] = 0
    <3> SUFFICES ASSUME NEW x \in 1..Len(t.nodes), u.nodes[x].flag = "deleted"
                 PROVE  u.nodes[x].id # 0 /\ u.table[u.nodes[x].id] = 0
      OBVIOUS
    <3>1. CASE x = n
      BY <1>2, <1>5, <1>9, <1>10, <2>3, <3>1
    <3>2. CASE x # n
      <4>1. t.nodes[x].flag = "deleted" /\ u.nodes[x].id = t.nodes[x].id
        BY <1>10, <3>2
      <4>2. t.nodes[x].id # 0 /\ t.table[t.nodes[x].id] = 0
        BY <4>1 DEF Entries
      <4>3. t.nodes[x].id \in 0..L
        BY ShapeTypes
      <4>4. t.nodes[x].id \in 1..L
        BY <1>1, <4>2, <4>3
      <4>5. QED
        BY <1>5, <1>9, <4>1, <4>2, <4>4
    <3>3. QED
      BY <3>1, <3>2
  <2>6. \A x, y \in 1..Len(t.nodes) :
          ~Moved(u, x) /\ ~Moved(u, y) /\ u.nodes[x].id = u.nodes[y].id /\ u.nodes[x].id # 0 => x = y
    BY <1>10 DEF Entries
  <2>7. \A i \in 1..L :
          /\ u.table[i] # 0 => u.nodes[u.table[i]].flag = "none" /\ u.nodes[u.table[i]].id = i
          /\ u.count[i] # NoEntry => u.table[i] # 0
    <3> SUFFICES ASSUME NEW i \in 1..L
                 PROVE  /\ u.table[i] # 0 => u.nodes[u.table[i]].flag = "none" /\ u.nodes[u.table[i]].id = i
                        /\ u.count[i] # NoEntry => u.table[i] # 0
      OBVIOUS
    <3>1. CASE i = id
      BY <1>4, <1>5, <1>9, <3>1
    <3>2. CASE i # id
      <4>1. u.table[i] = t.table[i] /\ u.count[i] = t.count[i]
        BY <1>4, <1>5, <1>9, <3>2
      <4>2. t.table[i] # 0 => t.table[i] # n
        BY <1>2, <1>13, <3>2
      <4>3. u.count[i] # NoEntry => u.table[i] # 0
        BY <4>1 DEF Entries
      <4>4. u.table[i] # 0 => u.nodes[u.table[i]].flag = "none" /\ u.nodes[u.table[i]].id = i
        <5> SUFFICES ASSUME t.table[i] # 0
                     PROVE  u.nodes[t.table[i]].flag = "none" /\ u.nodes[t.table[i]].id = i
          BY <4>1
        <5> DEFINE x == t.table[i]
        <5>1. x \in 1..Len(t.nodes) /\ t.nodes[x].flag = "none" /\ t.nodes[x].id = i /\ x # n
          BY <1>13, <4>2
        <5> HIDE DEF x
        <5>2. u.nodes[x].flag = "none" /\ u.nodes[x].id = i
          BY <1>10, <5>1
        <5>3. QED
          BY <5>2 DEF x
      <4>5. QED
        BY <4>3, <4>4
    <3>3. QED
      BY <3>1, <3>2
  <2>8. \A p \in u.pairs : u.table[p[1]] # 0
    <3> SUFFICES ASSUME NEW p \in u.pairs PROVE u.table[p[1]] # 0
      OBVIOUS
    <3>1. p \in t.pairs /\ p[1] # id
      BY <1>6, <1>9
    <3>2. p[1] \in 1..L /\ t.table[p[1]] # 0
      BY <1>1, <3>1 DEF Linked, Entries
    <3>3. QED
      BY <1>5, <1>9, <3>1, <3>2
  <2>9. QED
    BY <2>1, <2>4, <2>5, <2>6, <2>7, <2>8 DEF Entries
<1>15. ASSUME NEW c, c # NoEntry
       PROVE  WordsCounted(u, c) = WordsCounted(t, c) \ {w}
  <2>1. \A x : x \in WordsCounted(u, c) <=>
                 \E i \in 1..Len(u.table) : u.count[i] = c /\ x = Spelled(u, pre, u.table[i])
    BY <1>12, <1>14, <1>15, CountedBy
  <2>2. \A x : x \in WordsCounted(t, c) <=>
                 \E i \in 1..L : t.count[i] = c /\ x = Spelled(t, pre, t.table[i])
    BY <1>15, CountedBy
  <2>3. \A i \in 1..L : u.count[i] = c <=> i # id /\ t.count[i] = c
    BY <1>4, <1>9, <1>15
  <2>4. \A i \in 1..L : i # id /\ t.count[i] = c => Spelled(u, pre, u.table[i]) = Spelled(t, pre, t.table[i])
    <3>1. \A i \in 1..L : t.count[i] = c => t.table[i] # 0
      BY <1>15 DEF Entries
    <3>2. QED
      BY <1>5, <1>9, <1>12, <1>13, <3>1
  <2>5. Len(u.table) = L
    BY <1>5, <1>9
  <2>6. \A i \in 1..L : t.count[i] = c /\ Spelled(t, pre, t.table[i]) = w => i = id
    <3>1. \A i \in 1..L : t.count[i] = c => t.table[i] # 0
      BY <1>15 DEF Entries
    <3>2. t.table[id] # 0 /\ Spelled(t, pre, t.table[id]) = w
      BY <1>1, <1>2 DEF n
    <3>3. QED
      BY <1>2, <3>1, <3>2, WordOnce
  <2>7. Spelled(t, pre, t.table[id]) = w
    BY <1>2 DEF n
  <2> HIDE DEF L
  <2>8. \A x : x \in WordsCounted(u, c) <=> \E i \in 1..L : i # id /\ t.count[i] = c /\ x = Spelled(t, pre, t.table[i])
    BY <2>1, <2>3, <2>4, <2>5
  <2>9. QED
    BY <2>2, <2>6, <2>7, <2>8
<1>16. 0 # NoEntry /\ 1 # NoEntry
  BY DEF NoEntry
<1>17. Stays(t, u, {})
  <2>1. Len(u.table) = L
    BY <1>5, <1>9
  <2>2. ASSUME NEW i \in 1..L, u.count[i] # NoEntry
        PROVE  t.count[i] # NoEntry /\ SpelledBy(u, u.table[i]) = SpelledBy(t, t.table[i])
    <3>1. t.count[i] # NoEntry /\ u.table[i] = t.table[i]
      BY <1>4, <1>5, <1>9, <2>2
    <3>2. SpelledBy(t, t.table[i]) = Spelled(t, pre, t.table[i])
      BY <3>1, EntryWord
    <3>3. SpelledBy(u, u.table[i]) = Spelled(u, pre, u.table[i])
      BY <1>12, <1>14, <2>1, <2>2, EntryWord
    <3>4. t.table[i] \in 1..Len(t.nodes)
      BY <1>13, <3>1 DEF Entries
    <3>5. QED
      BY <1>12, <3>1, <3>2, <3>3, <3>4
  <2>3. QED
    BY <2>1, <2>2 DEF Stays
<1>18. u.pairs \subseteq t.pairs
  BY <1>6, <1>9
<1>19. QED
  BY <1>12, <1>14, <1>15, <1>16, <1>17, <1>18 DEF Sound, u

----------------------------------------------------------------------------
(* The numbers a compaction gives to what it keeps. *)

Numbered(S) ==
    /\ Cardinality(S) \in Nat
    /\ \A x \in S : Rank(S, x) \in 1..Cardinality(S) /\ Kept(S, Rank(S, x)) = x
    /\ \A i \in 1..Cardinality(S) : Kept(S, i) \in S /\ Rank(S, Kept(S, i)) = i

\* The positions from 1 on are given to the members of a set, each to one of them.
LEMMA NumberedIs ==
    ASSUME NEW n \in Nat, NEW S \in SUBSET (1..n)
    PROVE  Numbered(S)
<1> DEFINE K == Cardinality(S)
           L(x) == {j \in S : j <= x}
           r == [x \in S |-> Rank(S, x)]
<1>1. IsFiniteSet(S) /\ K \in Nat
  <2>1. IsFiniteSet(1..n)
    BY FS_Interval
  <2>2. QED
    BY <2>1, FS_Subset, FS_CardinalityType
<1>2. \A x \in S : IsFiniteSet(L(x)) /\ L(x) \subseteq S /\ Cardinality(L(x)) \in Nat /\ Cardinality(L(x)) <= K
  <2>1. \A T \in SUBSET S : IsFiniteSet(T) /\ Cardinality(T) \in Nat /\ Cardinality(T) <= K
    BY <1>1, FS_Subset, FS_CardinalityType
  <2>2. \A x \in S : L(x) \in SUBSET S
    OBVIOUS
  <2> HIDE DEF L
  <2>3. QED
    BY <2>1, <2>2
<1>3. \A x \in S : x \in L(x)
  OBVIOUS
<1>4. \A x, y \in S : x < y => y \notin L(x) /\ L(x) \subseteq L(y)
  <2>1. \A x \in S : x \in Nat
    OBVIOUS
  <2>2. \A x, y, z \in Nat : x < y => ~(y <= x) /\ (z <= x => z <= y)
    OBVIOUS
  <2>3. QED
    BY <2>1, <2>2
<1>5. \A x : Rank(S, x) = Cardinality(L(x))
  BY DEF Rank
<1> HIDE DEF L
<1>6. \A x \in S : Cardinality(L(x)) # 0
  BY <1>2, <1>3, FS_EmptySet
<1>7. \A x \in S : Rank(S, x) \in 1..K
  BY <1>1, <1>2, <1>5, <1>6
<1>8. \A x, y \in S : x < y => Rank(S, x) # Rank(S, y)
  <2> SUFFICES ASSUME NEW x \in S, NEW y \in S, x < y, Cardinality(L(x)) = Cardinality(L(y))
               PROVE  FALSE
    BY <1>5
  <2>1. L(x) \in SUBSET L(y) /\ L(x) # L(y)
    BY <1>3, <1>4
  <2>2. QED
    BY <1>2, <2>1, FS_Subset
<1>9. \A x, y \in S : Rank(S, x) = Rank(S, y) => x = y
  <2>1. \A x, y \in S : x = y \/ x < y \/ y < x
    OBVIOUS
  <2>2. QED
    BY <1>8, <2>1
<1>10. r \in Injection(S, 1..K)
  <2>1. r \in [S -> 1..K]
    BY <1>7
  <2>2. \A x, y \in S : r[x] = r[y] => x = y
    BY <1>9
  <2> HIDE DEF r, K
  <2>3. QED
    BY <2>1, <2>2 DEF Injection, IsInjective
<1>11. r \in Surjection(S, 1..K)
  <2>1. IsFiniteSet(1..K) /\ Cardinality(1..K) = K
    BY <1>1, FS_Interval
  <2> HIDE DEF r
  <2>2. QED
    BY <1>10, <2>1, FS_Injection
<1>12. \A i \in 1..K : \E x \in S : Rank(S, x) = i
  <2>1. \A i \in 1..K : \E x \in S : r[x] = i
    <3> HIDE DEF r
    <3>1. QED
      BY <1>11 DEF Surjection
  <2>2. QED
    BY <2>1
<1>13. \A i \in 1..K : Kept(S, i) \in S /\ Rank(S, Kept(S, i)) = i
  BY <1>12 DEF Kept
<1>14. \A x \in S : Kept(S, Rank(S, x)) = x
  BY <1>7, <1>9, <1>13
<1>15. QED
  BY <1>1, <1>7, <1>13, <1>14 DEF Numbered

\* The root's array is first again.
LEMMA RankOfFirst ==
    ASSUME NEW n \in Nat, NEW S \in SUBSET (1..n), 1 \in S
    PROVE  Rank(S, 1) = 1
<1>1. {j \in S : j <= 1} = {1}
  <2>1. \A j \in S : j \in Nat /\ j >= 1
    OBVIOUS
  <2>2. \A j \in Nat : j >= 1 /\ j <= 1 <=> j = 1
    OBVIOUS
  <2>3. QED
    BY <2>1, <2>2
<1>2. QED
  BY <1>1, FS_Singleton DEF Rank

CopyStep(s, n, S, b, c) == IF n \in S THEN Append(s, Rank(S, n)) ELSE s

Copies == INSTANCE FoldFacts WITH op <- CopyStep

\* An array that holds the siblings that are kept.
Packed(r, sib, S) ==
    /\ r \in Arrays /\ r.next = 0
    /\ \A m : (\E i \in 1..Len(r.members) : r.members[i] = m) <=>
                \E n \in S : n \in Range(sib) /\ m = Rank(S, n)

LEMMA CopyArrayIs ==
    ASSUME NEW t, NEW a, NEW S, Numbered(S), NEW E, Siblings(t, a) \in Seq(E)
    PROVE  Packed(CopyArray(t, S, a), Siblings(t, a), S)
<1> DEFINE q == Siblings(t, a)
           Seen(k) == {m \in Nat : \E i \in 1..k : q[i] \in S /\ m = Rank(S, q[i])}
           T == [k \in 0..Len(q) |-> {s \in Seq(Nat) : Range(s) = Seen(k)}]
           r == CopyArray(t, S, a).members
<1>1. r = Copies!Fold(<< >>, q, S, 0, 0) /\ CopyArray(t, S, a) = [members |-> r, next |-> 0]
  BY DEF CopyArray, FoldLeft, MapThenFoldSet, Max, CopyStep, Copies!Fold, Copies!Steps, Copies!Step, Copies!Max
<1>2. Len(q) \in Nat
  OBVIOUS
<1> HIDE DEF q
<1>3. \A n \in S : Rank(S, n) \in Nat
  BY DEF Numbered
<1>4. << >> \in T[0]
  <2>1. Seen(0) = {}
    OBVIOUS
  <2>2. << >> \in Seq(Nat) /\ Range(<< >>) = {}
    BY DEF Range
  <2>3. 0 \in 0..Len(q)
    BY <1>2
  <2> HIDE DEF Seen
  <2>4. QED
    BY <2>1, <2>2, <2>3
<1>5. ASSUME NEW k \in 1..Len(q), NEW s \in T[k - 1]
      PROVE  CopyStep(s, q[k], S, 0, 0) \in T[k]
  <2>1. k \in 0..Len(q) /\ k - 1 \in 0..Len(q)
    BY <1>2
  <2>2. s \in Seq(Nat) /\ Range(s) = Seen(k - 1)
    BY <2>1
  <2>3. \A i : i \in 1..k <=> i \in 1..(k - 1) \/ i = k
    BY <1>2
  <2>4. CASE q[k] \in S
    <3> DEFINE m == Rank(S, q[k])
    <3>1. m \in Nat
      BY <1>3, <2>4
    <3>2. Append(s, m) \in Seq(Nat) /\ Range(Append(s, m)) = Range(s) \cup {m}
      <4> HIDE DEF m
      <4>1. \A v \in Seq(Nat) : \A e \in Nat : Append(v, e) = v \o <<e>> /\ <<e>> \in Seq(Nat) /\ Range(<<e>>) = {e}
        BY DEF Range
      <4> DEFINE e == <<m>>
      <4>2. Append(s, m) = s \o e /\ e \in Seq(Nat) /\ Range(e) = {m}
        BY <2>2, <3>1, <4>1
      <4> HIDE DEF e
      <4>3. s \o e \in Seq(Nat) /\ Range(s \o e) = Range(s) \cup Range(e)
        BY <2>2, <4>2, RangeConcat
      <4>4. QED
        BY <4>2, <4>3
    <3>3. Seen(k) = Seen(k - 1) \cup {m}
      BY <2>3, <2>4, <3>1
    <3> HIDE DEF Seen, m
    <3>4. Append(s, m) \in T[k]
      BY <2>1, <2>2, <3>2, <3>3
    <3>5. QED
      BY <2>4, <3>4 DEF CopyStep, m
  <2>5. CASE q[k] \notin S
    <3>1. Seen(k) = Seen(k - 1)
      BY <2>3, <2>5
    <3> HIDE DEF Seen
    <3>2. s \in T[k]
      BY <2>1, <2>2, <3>1
    <3>3. QED
      BY <2>5, <3>2 DEF CopyStep
  <2>6. QED
    BY <2>4, <2>5
<1>6. r \in T[Len(q)]
  <2> HIDE DEF T, r
  <2>1. q \in Seq(E)
    BY DEF q
  <2>2. QED
    BY <1>1, <1>4, <1>5, <2>1, Copies!FoldInvariant
<1>7. r \in Seq(Nat) /\ Range(r) = Seen(Len(q))
  BY <1>2, <1>6
<1>8. \A m : m \in Range(r) <=> \E i \in 1..Len(r) : r[i] = m
  <2> HIDE DEF r
  <2>1. DOMAIN r = 1..Len(r)
    BY <1>7
  <2>2. QED
    BY <2>1 DEF Range
<1>9. \A n : n \in Range(q) <=> \E i \in 1..Len(q) : q[i] = n
  <2>1. DOMAIN q = 1..Len(q)
    BY DEF q
  <2>2. QED
    BY <2>1 DEF Range
<1>10. \A m : m \in Seen(Len(q)) <=> \E n \in S : n \in Range(q) /\ m = Rank(S, n)
  BY <1>3, <1>9
<1>11. CopyArray(t, S, a) \in Arrays /\ CopyArray(t, S, a).next = 0
  <2> HIDE DEF r
  <2>1. QED
    BY <1>1, <1>7 DEF Arrays
<1> HIDE DEF Seen, r
<1>12. QED
  BY <1>1, <1>7, <1>8, <1>10, <1>11 DEF q, Packed

----------------------------------------------------------------------------
(* What a compaction keeps. *)

\* The siblings read from an array stand behind its letters, also when it is not
\* the first of its chain.
LEMMA SiblingsBehind ==
    ASSUME NEW t, NEW pre, NEW at, Shape(t, pre, at), NEW a \in 1..Len(t.arrays)
    PROVE  /\ Siblings(t, a) \in Seq(1..Len(t.nodes))
           /\ \A n \in Range(Siblings(t, a)) :
                n \in 1..Len(t.nodes) /\ ~Moved(t, n) /\ pre[n] = at[a]
<1>1. Linked(t)
  BY ShapeTypes
<1>2. /\ Siblings(t, a) \in Seq(1..Len(t.nodes))
      /\ Range(Siblings(t, a)) = {Fetch(t, m) : m \in Range(Chain(t, a))}
  BY <1>1, SiblingsFacts
<1>3. \A m \in Range(Chain(t, a)) : m \in 1..Len(t.nodes) /\ pre[m] = at[a]
  <2>1. \A m \in Range(Chain(t, a)) :
          \E b \in 1..Len(t.arrays) : at[b] = at[a] /\ Member(t, b, m)
    BY ChainIs DEF Shape
  <2>2. \A b \in 1..Len(t.arrays) : \A m : Member(t, b, m) => m \in 1..Len(t.nodes) /\ pre[m] = at[b]
    BY <1>1 DEF Shape, Laid, Filled, Member, Linked
  <2>3. QED
    BY <2>1, <2>2
<1>4. \A m \in 1..Len(t.nodes) : /\ Fetch(t, m) \in 1..Len(t.nodes) /\ ~Moved(t, Fetch(t, m))
                                 /\ pre[Fetch(t, m)] = pre[m]
  BY FetchKeeps DEF Shape
<1>5. QED
  BY <1>2, <1>3, <1>4

LEMMA Bounded ==
    ASSUME NEW n \in Nat, NEW f \in [1..n -> Nat]
    PROVE  \E b \in Nat : \A i \in 1..n : f[i] <= b
<1> DEFINE S == {k \in Nat : k <= n => \E b \in Nat : \A i \in 1..k : f[i] <= b}
<1>1. 0 \in S
  OBVIOUS
<1>2. ASSUME NEW k \in Nat, k \in S PROVE k + 1 \in S
  <2> SUFFICES ASSUME k + 1 <= n PROVE \E b \in Nat : \A i \in 1..(k + 1) : f[i] <= b
    OBVIOUS
  <2>1. PICK b \in Nat : \A i \in 1..k : f[i] <= b
    BY <1>2
  <2>2. f[k + 1] \in Nat /\ \A i \in 1..k : f[i] \in Nat
    OBVIOUS
  <2> DEFINE e == b + f[k + 1]
  <2>3. e \in Nat /\ f[k + 1] <= e /\ \A i \in 1..k : f[i] <= e
    BY <2>1, <2>2
  <2>4. \A i \in 1..(k + 1) : i \in 1..k \/ i = k + 1
    OBVIOUS
  <2> HIDE DEF e
  <2>5. QED
    BY <2>3, <2>4
<1>3. n \in S
  <2> HIDE DEF S
  <2>1. QED
    BY <1>1, <1>2, Values!SetInduction
<1>4. QED
  BY <1>3

\* Kids are deeper than their parents: recursion over the arrays ends.
Deeper(t, rank) ==
    /\ rank \in [1..Len(t.arrays) -> Nat]
    /\ \A a \in 1..Len(t.arrays) : \A n \in Range(Siblings(t, a)) :
         t.nodes[n].kids # 0 =>
           t.nodes[n].kids \in 1..Len(t.arrays) /\ rank[t.nodes[n].kids] < rank[a]

LEMMA Depth ==
    ASSUME NEW t, NEW pre, NEW at, Shape(t, pre, at)
    PROVE  \E rank : Deeper(t, rank)
<1> DEFINE A == 1..Len(t.arrays)
           f == [a \in A |-> Len(at[a])]
<1>1. Len(t.arrays) \in Nat
  BY ShapeTypes
<1>2. \A a \in A : at[a] \in Seq(Nat)
  BY ShapeTypes
<1>3. \A a \in A : Len(at[a]) \in Nat
  BY <1>2
<1>4. f \in [A -> Nat]
  BY <1>3
<1>5. PICK b \in Nat : \A a \in A : f[a] <= b
  <2> HIDE DEF f
  <2>1. QED
    BY <1>1, <1>4, Bounded
<1> DEFINE rank == [a \in A |-> b - Len(at[a])]
<1>6. rank \in [A -> Nat]
  <2>1. \A a \in A : Len(at[a]) \in Nat /\ Len(at[a]) <= b
    BY <1>3, <1>5
  <2>2. QED
    BY <2>1
<1>7. ASSUME NEW a \in A, NEW n \in Range(Siblings(t, a)), t.nodes[n].kids # 0
      PROVE  t.nodes[n].kids \in A /\ rank[t.nodes[n].kids] < rank[a]
  <2> DEFINE k == t.nodes[n].kids
  <2>1. n \in 1..Len(t.nodes) /\ pre[n] = at[a]
    BY SiblingsBehind
  <2>2. k \in 0..Len(t.arrays)
    BY <2>1, ShapeTypes
  <2>3. k \in A
    BY <1>1, <1>7, <2>2
  <2>4. at[k] = Spelled(t, pre, n)
    BY <1>7, <2>1 DEF Shape, Kids
  <2>5. Len(Spelled(t, pre, n)) = Len(pre[n]) + Len(t.nodes[n].chars) /\ Len(t.nodes[n].chars) \in Nat \ {0}
    BY <2>1, ShapeTypes
  <2>6. Len(at[k]) > Len(at[a])
    <3>1. \A x, y \in Nat : \A z \in Nat \ {0} : x = y + z => x > y
      OBVIOUS
    <3> HIDE DEF A, k
    <3>2. QED
      BY <1>3, <2>1, <2>3, <2>4, <2>5, <3>1
  <2> HIDE DEF k
  <2>7. rank[k] < rank[a]
    <3>1. \A x, y \in Nat : x > y => b - x < b - y
      OBVIOUS
    <3>2. QED
      BY <1>3, <2>3, <2>6, <3>1
  <2>8. QED
    BY <2>3, <2>7 DEF k
<1> HIDE DEF rank
<1>8. QED
  BY <1>6, <1>7 DEF Deeper

\* The last of the siblings up to one that have children.
LastWithKids(t, sib, k) == Max({m \in 1..k : t.nodes[sib[m]].kids # 0})

LEMMA LastWithKidsIs ==
    ASSUME NEW t, NEW sib, NEW k \in Nat, NEW j \in 1..k, t.nodes[sib[j]].kids # 0
    PROVE  /\ LastWithKids(t, sib, k) \in 1..k /\ t.nodes[sib[LastWithKids(t, sib, k)]].kids # 0
           /\ t.nodes[sib[k]].kids # 0 => LastWithKids(t, sib, k) = k
<1> DEFINE s == {m \in 1..k : t.nodes[sib[m]].kids # 0}
<1>1. s \in SUBSET (1..k) /\ s # {}
  OBVIOUS
<1>2. Max(s) \in s
  <2> HIDE DEF s
  <2>1. QED
    BY <1>1, Copies!MaxPlace DEF Max, Copies!Max
<1>3. t.nodes[sib[k]].kids # 0 => Max(s) = k
  <2> SUFFICES ASSUME t.nodes[sib[k]].kids # 0 PROVE Max(s) = k
    OBVIOUS
  <2>1. k \in s /\ s \in SUBSET Nat /\ \A m \in s : m <= k
    OBVIOUS
  <2> HIDE DEF s
  <2>2. QED
    BY <2>1, Copies!MaxIs DEF Max, Copies!Max
<1>4. QED
  BY <1>2, <1>3 DEF LastWithKids

\* The k-th of the siblings survives.
Survives(g, t, sib, k) ==
    \/ HasEntry(t, sib[k])
    \/ /\ \E j \in 1..k : t.nodes[sib[j]].kids # 0
       /\ g[t.nodes[sib[LastWithKids(t, sib, k)]].kids] # {}

LEMMA SurvivorsAre ==
    ASSUME NEW g, NEW t, NEW sib
    PROVE  \A n : n \in Survivors(g, t, sib) <=> \E k \in 1..Len(sib) : n = sib[k] /\ Survives(g, t, sib, k)
  BY DEF Survivors, LastWithKids, Survives

LEMMA SurvivingUnfolds ==
    ASSUME NEW t, NEW pre, NEW at, Shape(t, pre, at)
    PROVE  \E f : \A a \in 1..Len(t.arrays) :
             Surviving(t, a) = f[a] /\ f[a] = Survivors(f, t, Siblings(t, a))
<1> DEFINE A == 1..Len(t.arrays)
           f == CHOOSE g : g = [x \in A |-> SurvivingAt(g, x, t)]
<1>1. PICK rank : Deeper(t, rank)
  BY Depth
<1>2. Values!Grounded(A, rank, t, 0, "surviving")
  <2> SUFFICES ASSUME NEW g, NEW h, NEW a \in A,
                      \A y \in A : rank[y] < rank[a] => g[y] = h[y]
               PROVE  SurvivingAt(g, a, t) = SurvivingAt(h, a, t)
    BY DEF Values!Grounded, ValueAt
  <2> DEFINE sib == Siblings(t, a)
             L(k) == t.nodes[sib[LastWithKids(t, sib, k)]].kids
  <2>1. sib \in Seq(1..Len(t.nodes))
    BY SiblingsBehind
  <2>2. \A k \in 1..Len(sib) : sib[k] \in Range(sib)
    <3> HIDE DEF sib
    <3>1. Len(sib) \in Nat /\ DOMAIN sib = 1..Len(sib)
      BY <2>1
    <3>2. QED
      BY <3>1 DEF Range
  <2>3. \A k \in 1..Len(sib) : t.nodes[sib[k]].kids # 0 =>
          g[t.nodes[sib[k]].kids] = h[t.nodes[sib[k]].kids]
    BY <1>1, <2>2 DEF Deeper
  <2>4. ASSUME NEW k \in 1..Len(sib), NEW j \in 1..k, t.nodes[sib[j]].kids # 0
        PROVE  g[L(k)] = h[L(k)]
    <3>1. k \in Nat /\ \A m \in 1..k : m \in 1..Len(sib)
      <4> HIDE DEF sib
      <4>1. Len(sib) \in Nat
        BY <2>1
      <4>2. QED
        BY <4>1
    <3>2. LastWithKids(t, sib, k) \in 1..k /\ t.nodes[sib[LastWithKids(t, sib, k)]].kids # 0
      <4> HIDE DEF sib
      <4>1. QED
        BY <2>4, <3>1, LastWithKidsIs
    <3>3. QED
      BY <2>3, <3>1, <3>2
  <2> HIDE DEF sib, L
  <2>5. \A n : n \in Survivors(g, t, sib) <=> n \in Survivors(h, t, sib)
    <3>1. \A k \in 1..Len(sib) : Survives(g, t, sib, k) <=> Survives(h, t, sib, k)
      BY <2>4 DEF L, Survives
    <3>2. QED
      BY <3>1, SurvivorsAre
  <2>6. Survivors(g, t, sib) = Survivors(h, t, sib)
    BY <2>5
  <2>7. QED
    BY <2>6 DEF SurvivingAt, sib
<1>3. f = [x \in A |-> SurvivingAt(f, x, t)]
  <2>1. rank \in [A -> Nat]
    BY <1>1 DEF Deeper
  <2> HIDE DEF A
  <2> DEFINE h == Values!Recursion(A, t, 0, "surviving")
  <2>2. h = [x \in A |-> ValueAt(h, x, t, 0, "surviving")]
    BY <1>2, <2>1, Values!RecursionUnfolds
  <2> HIDE DEF h
  <2>3. h = [x \in A |-> SurvivingAt(h, x, t)]
    BY <2>2 DEF ValueAt
  <2>4. QED
    BY <2>3
<1>4. \A a : Surviving(t, a) = f[a]
  BY DEF Surviving, SurvivingAt
<1> HIDE DEF f
<1>5. QED
  BY <1>3, <1>4 DEF SurvivingAt

\* A node that survives, or that other nodes need.
Needed(t, n) ==
    \/ HasEntry(t, n)
    \/ t.nodes[n].kids # 0 /\ Surviving(t, t.nodes[n].kids) # {}

LEMMA SurvivingFacts ==
    ASSUME NEW t, NEW pre, NEW at, Shape(t, pre, at), NEW a \in 1..Len(t.arrays)
    PROVE  /\ Surviving(t, a) \subseteq Range(Siblings(t, a))
           /\ \A n \in Range(Siblings(t, a)) : Needed(t, n) => n \in Surviving(t, a)
<1> DEFINE A == 1..Len(t.arrays)
           sib == Siblings(t, a)
<1>1. PICK f : \A b \in A : Surviving(t, b) = f[b] /\ f[b] = Survivors(f, t, Siblings(t, b))
  BY SurvivingUnfolds
<1>2. sib \in Seq(1..Len(t.nodes))
  BY SiblingsBehind
<1>3. Surviving(t, a) = Survivors(f, t, sib)
  BY <1>1
<1>4. \A n \in Range(sib) : t.nodes[n].kids # 0 => t.nodes[n].kids \in A
  <2>1. PICK rank : Deeper(t, rank)
    BY Depth
  <2>2. QED
    BY <2>1 DEF Deeper
<1> HIDE DEF sib
<1>5. \A n : n \in Range(sib) <=> \E k \in 1..Len(sib) : n = sib[k]
  <2>1. DOMAIN sib = 1..Len(sib)
    BY <1>2
  <2>2. QED
    BY <2>1 DEF Range
<1>6. Surviving(t, a) \subseteq Range(sib)
  BY <1>3, <1>5, SurvivorsAre
<1>7. ASSUME NEW k \in 1..Len(sib), Needed(t, sib[k])
      PROVE  sib[k] \in Surviving(t, a)
  <2>1. k \in Nat /\ k \in 1..k
    BY <1>2
  <2>2. CASE HasEntry(t, sib[k])
    BY <1>3, <2>2, SurvivorsAre DEF Survives
  <2>3. CASE t.nodes[sib[k]].kids # 0 /\ Surviving(t, t.nodes[sib[k]].kids) # {}
    <3>1. LastWithKids(t, sib, k) = k
      BY <2>1, <2>3, LastWithKidsIs
    <3>2. f[t.nodes[sib[k]].kids] # {}
      BY <1>1, <1>4, <1>5, <2>3
    <3>3. Survives(f, t, sib, k)
      BY <2>1, <2>3, <3>1, <3>2 DEF Survives
    <3>4. QED
      BY <1>3, <3>3, SurvivorsAre
  <2>4. QED
    BY <1>7, <2>2, <2>3 DEF Needed
<1>8. QED
  BY <1>5, <1>6, <1>7 DEF sib

----------------------------------------------------------------------------
(* The arrays a compaction keeps. *)

\* The nodes whose children are kept are siblings, their children an array.
LEMMA WithKidsKeptAre ==
    ASSUME NEW t, NEW pre, NEW at, Shape(t, pre, at), NEW a \in 1..Len(t.arrays)
    PROVE  \A n \in WithKidsKept(t, a) :
             /\ n \in Surviving(t, a) /\ n \in Range(Siblings(t, a)) /\ n \in 1..Len(t.nodes)
             /\ t.nodes[n].kids # 0 /\ t.nodes[n].kids \in 1..Len(t.arrays)
             /\ First(t, at, t.nodes[n].kids)
<1>1. \A n \in WithKidsKept(t, a) : n \in Surviving(t, a) /\ t.nodes[n].kids # 0
  BY DEF WithKidsKept
<1>2. Surviving(t, a) \subseteq Range(Siblings(t, a))
  BY SurvivingFacts
<1>3. \A n \in Range(Siblings(t, a)) : n \in 1..Len(t.nodes)
  BY SiblingsBehind
<1>4. \A n \in Range(Siblings(t, a)) : t.nodes[n].kids # 0 => t.nodes[n].kids \in 1..Len(t.arrays)
  <2>1. PICK rank : Deeper(t, rank)
    BY Depth
  <2>2. QED
    BY <2>1 DEF Deeper
<1>5. \A n \in 1..Len(t.nodes) : t.nodes[n].kids # 0 => First(t, at, t.nodes[n].kids)
  BY DEF Shape, Kids
<1>6. QED
  BY <1>1, <1>2, <1>3, <1>4, <1>5

LEMMA ArraysUnfold ==
    ASSUME NEW t, NEW pre, NEW at, Shape(t, pre, at)
    PROVE  \A a \in 1..Len(t.arrays) : \A x :
             x \in ArraysFrom(t, a) <=>
               x = a \/ \E n \in WithKidsKept(t, a) : x \in ArraysFrom(t, t.nodes[n].kids)
<1> DEFINE A == 1..Len(t.arrays)
           f == CHOOSE g : g = [x \in A |-> ArraysAt(g, x, t)]
<1>1. PICK rank : Deeper(t, rank)
  BY Depth
<1>2. \A g : \A a, x : x \in ArraysAt(g, a, t) <=>
                         x = a \/ \E n \in WithKidsKept(t, a) : x \in g[t.nodes[n].kids]
  BY DEF ArraysAt
<1>3. Values!Grounded(A, rank, t, 0, "arrays")
  <2> SUFFICES ASSUME NEW g, NEW h, NEW a \in A,
                      \A y \in A : rank[y] < rank[a] => g[y] = h[y]
               PROVE  ArraysAt(g, a, t) = ArraysAt(h, a, t)
    BY DEF Values!Grounded, ValueAt
  <2>1. \A n \in WithKidsKept(t, a) : g[t.nodes[n].kids] = h[t.nodes[n].kids]
    BY <1>1, WithKidsKeptAre DEF Deeper
  <2>2. \A x : x \in ArraysAt(g, a, t) <=> x \in ArraysAt(h, a, t)
    BY <1>2, <2>1
  <2>3. \A s, v : (\A x : x \in s <=> x \in v) => s = v
    OBVIOUS
  <2>4. QED
    BY <2>2 DEF ArraysAt
<1>4. f = [x \in A |-> ArraysAt(f, x, t)]
  <2>1. rank \in [A -> Nat]
    BY <1>1 DEF Deeper
  <2> HIDE DEF A
  <2> DEFINE h == Values!Recursion(A, t, 0, "arrays")
  <2>2. h = [x \in A |-> ValueAt(h, x, t, 0, "arrays")]
    BY <1>3, <2>1, Values!RecursionUnfolds
  <2> HIDE DEF h
  <2>3. h = [x \in A |-> ArraysAt(h, x, t)]
    BY <2>2 DEF ValueAt
  <2>4. QED
    BY <2>3
<1>5. \A a : ArraysFrom(t, a) = f[a]
  BY DEF ArraysFrom, ArraysAt
<1> HIDE DEF f
<1>6. \A a \in A : f[a] = ArraysAt(f, a, t)
  BY <1>4
<1>7. QED
  BY <1>2, <1>5, <1>6

\* The arrays that are kept: the children of the nodes whose children are kept.
ClosedFrom(t, at, a) ==
    \A x \in ArraysFrom(t, a) :
      /\ x \in 1..Len(t.arrays)
      /\ \A n \in WithKidsKept(t, x) : t.nodes[n].kids \in ArraysFrom(t, a)
      /\ x # a => /\ First(t, at, x)
                  /\ \E c \in ArraysFrom(t, a) : \E n \in WithKidsKept(t, c) : t.nodes[n].kids = x

LEMMA ArraysClosed ==
    ASSUME NEW t, NEW pre, NEW at, Shape(t, pre, at)
    PROVE  \A a \in 1..Len(t.arrays) : a \in ArraysFrom(t, a) /\ ClosedFrom(t, at, a)
<1> DEFINE A == 1..Len(t.arrays)
           P == {a \in A : ClosedFrom(t, at, a)}
<1>1. PICK rank : Deeper(t, rank)
  BY Depth
<1>2. \A a \in A : a \in ArraysFrom(t, a)
  BY ArraysUnfold
<1>3. ASSUME NEW a \in A, \A y \in A : rank[y] < rank[a] => y \in P PROVE a \in P
  <2>1. \A n \in WithKidsKept(t, a) :
          /\ t.nodes[n].kids \in A /\ First(t, at, t.nodes[n].kids) /\ ClosedFrom(t, at, t.nodes[n].kids)
          /\ \A x \in ArraysFrom(t, t.nodes[n].kids) : x \in ArraysFrom(t, a)
          /\ t.nodes[n].kids \in ArraysFrom(t, a)
    <3> SUFFICES ASSUME NEW n \in WithKidsKept(t, a)
                 PROVE  /\ t.nodes[n].kids \in A /\ First(t, at, t.nodes[n].kids)
                        /\ ClosedFrom(t, at, t.nodes[n].kids)
                        /\ \A x \in ArraysFrom(t, t.nodes[n].kids) : x \in ArraysFrom(t, a)
                        /\ t.nodes[n].kids \in ArraysFrom(t, a)
      OBVIOUS
    <3>1. /\ n \in Range(Siblings(t, a)) /\ t.nodes[n].kids # 0 /\ t.nodes[n].kids \in A
          /\ First(t, at, t.nodes[n].kids)
      BY WithKidsKeptAre
    <3>2. rank[t.nodes[n].kids] < rank[a]
      BY <1>1, <3>1 DEF Deeper
    <3>3. ClosedFrom(t, at, t.nodes[n].kids)
      BY <1>3, <3>1, <3>2
    <3>4. \A x \in ArraysFrom(t, t.nodes[n].kids) : x \in ArraysFrom(t, a)
      BY ArraysUnfold
    <3>5. QED
      BY <1>2, <3>1, <3>3, <3>4
  <2> SUFFICES ASSUME NEW x \in ArraysFrom(t, a)
               PROVE  /\ x \in A
                      /\ \A n \in WithKidsKept(t, x) : t.nodes[n].kids \in ArraysFrom(t, a)
                      /\ x # a => /\ First(t, at, x)
                                  /\ \E c \in ArraysFrom(t, a) : \E n \in WithKidsKept(t, c) : t.nodes[n].kids = x
    BY DEF ClosedFrom
  <2>2. CASE x = a
    BY <2>1, <2>2
  <2>3. CASE x # a
    <3>1. PICK m \in WithKidsKept(t, a) : x \in ArraysFrom(t, t.nodes[m].kids)
      BY <2>3, ArraysUnfold
    <3> DEFINE k == t.nodes[m].kids
    <3>2. /\ k \in A /\ First(t, at, k) /\ ClosedFrom(t, at, k)
          /\ \A y \in ArraysFrom(t, k) : y \in ArraysFrom(t, a)
      BY <2>1
    <3>3. a \in ArraysFrom(t, a)
      BY <1>2
    <3>4. x = k => First(t, at, x) /\ \E n \in WithKidsKept(t, a) : t.nodes[n].kids = x
      BY <3>2
    <3> HIDE DEF k
    <3>5. x \in ArraysFrom(t, k)
      BY <3>1 DEF k
    <3>6. /\ x \in A /\ \A n \in WithKidsKept(t, x) : t.nodes[n].kids \in ArraysFrom(t, a)
      BY <3>2, <3>5 DEF ClosedFrom
    <3>7. x # k => /\ First(t, at, x)
                   /\ \E c \in ArraysFrom(t, a) : \E n \in WithKidsKept(t, c) : t.nodes[n].kids = x
      BY <3>2, <3>5 DEF ClosedFrom
    <3>8. QED
      BY <3>3, <3>4, <3>6, <3>7
  <2>4. QED
    BY <2>2, <2>3
<1>4. A \subseteq P
  <2>1. rank \in [A -> Nat]
    BY <1>1 DEF Deeper
  <2> HIDE DEF A, P
  <2>2. QED
    BY <1>3, <2>1, Values!RankInduction
<1>5. QED
  BY <1>2, <1>4

\* What is kept is a trie of its own, and no node with an entry is lost.
Keep(t, pre, at, S, R) ==
    /\ R \in SUBSET (1..Len(t.arrays)) /\ 1 \in R
    /\ \A a \in R : First(t, at, a)
    /\ \A a \in R : a # 1 => \E n \in S : t.nodes[n].kids = a
    /\ S \in SUBSET (1..Len(t.nodes))
    /\ \A n \in S : /\ ~Moved(t, n)
                    /\ \E a \in R : n \in Range(Siblings(t, a))
                    /\ t.nodes[n].parent # 0 =>
                         t.nodes[n].parent \in S /\ t.nodes[t.nodes[n].parent].kids \in R
    /\ \A n \in 1..Len(t.nodes) : ~Moved(t, n) /\ HasEntry(t, n) => n \in S

LEMMA KeepIs ==
    ASSUME NEW t, NEW pre, NEW at, Shape(t, pre, at)
    PROVE  Keep(t, pre, at, KeptNodes(t), KeptArrays(t))
<1> DEFINE A == 1..Len(t.arrays)
           N == 1..Len(t.nodes)
           S == KeptNodes(t)
           R == KeptArrays(t)
<1>1. 1 \in A
  <2>1. Len(t.arrays) \in Nat \ {0}
    BY ShapeTypes
  <2>2. \A k \in Nat \ {0} : 1 \in 1..k
    OBVIOUS
  <2>3. QED
    BY <2>1, <2>2
<1>2. /\ R \in SUBSET A /\ 1 \in R
      /\ \A x \in R : \A n \in WithKidsKept(t, x) : t.nodes[n].kids \in R
      /\ \A x \in R : x # 1 => First(t, at, x) /\ \E c \in R : \E n \in WithKidsKept(t, c) : t.nodes[n].kids = x
  BY <1>1, ArraysClosed DEF KeptArrays, ClosedFrom
<1>3. \A n : n \in S <=> \E a \in R : n \in Surviving(t, a)
  BY DEF KeptNodes
<1> HIDE DEF S, R
<1>4. First(t, at, 1)
  <2>1. \A b \in A : 1 <= b
    BY ShapeTypes
  <2>2. QED
    BY <2>1 DEF First
<1>5. \A a \in R : a # 1 => \E n \in S : t.nodes[n].kids = a
  <2>1. \A c \in R : \A n \in WithKidsKept(t, c) : n \in S
    BY <1>2, <1>3, WithKidsKeptAre
  <2>2. QED
    BY <1>2, <2>1
<1>6. \A n \in S : /\ n \in N /\ ~Moved(t, n)
                   /\ \E a \in R : n \in Range(Siblings(t, a)) /\ n \in Surviving(t, a) /\ pre[n] = at[a]
  <2>1. \A a \in R : Surviving(t, a) \subseteq Range(Siblings(t, a))
    BY <1>2, SurvivingFacts
  <2>2. \A a \in R : \A n \in Range(Siblings(t, a)) : n \in N /\ ~Moved(t, n) /\ pre[n] = at[a]
    BY <1>2, SiblingsBehind
  <2>3. QED
    BY <1>3, <2>1, <2>2
<1>7. ASSUME NEW n \in S, t.nodes[n].parent # 0
      PROVE  t.nodes[n].parent \in S /\ t.nodes[t.nodes[n].parent].kids \in R
  <2> DEFINE p == t.nodes[n].parent
  <2>1. n \in N /\ ~Moved(t, n)
    BY <1>6
  <2>2. p \in N /\ ~Moved(t, p) /\ t.nodes[p].kids # 0 /\ pre[n] = Spelled(t, pre, p)
    BY <1>7, <2>1, ParentAbove
  <2>3. PICK a \in R : pre[n] = at[a]
    BY <1>6
  <2> HIDE DEF p
  <2>4. a # 1
    <3>1. Len(Spelled(t, pre, p)) = Len(pre[p]) + Len(t.nodes[p].chars) /\ Len(pre[p]) \in Nat
          /\ Len(t.nodes[p].chars) \in Nat \ {0}
      BY <2>2, ShapeTypes
    <3>2. Len(Spelled(t, pre, p)) # 0
      <4>1. \A x \in Nat : \A z \in Nat \ {0} : x + z # 0
        OBVIOUS
      <4>2. QED
        BY <3>1, <4>1
    <3>3. at[1] = << >> /\ Len(<< >>) = 0
      BY DEF Shape
    <3>4. QED
      BY <2>2, <2>3, <3>2, <3>3
  <2>5. PICK c \in R : \E m \in WithKidsKept(t, c) : t.nodes[m].kids = a
    BY <1>2, <2>4
  <2>6. PICK m \in WithKidsKept(t, c) : t.nodes[m].kids = a
    BY <2>5
  <2>7. m \in Surviving(t, c) /\ t.nodes[m].kids # 0
    BY <1>2, WithKidsKeptAre
  <2>8. m \in S
    BY <1>3, <2>7
  <2>9. m \in N /\ ~Moved(t, m)
    BY <1>6, <2>8
  <2>10. at[a] = Spelled(t, pre, m)
    BY <2>6, <2>7, <2>9 DEF Shape, Kids
  <2>11. m = p
    BY <2>2, <2>3, <2>9, <2>10, SpelledOnce
  <2>12. QED
    BY <2>6, <2>8, <2>11 DEF p
<1>8. \A n \in N : ~Moved(t, n) /\ Needed(t, n) => n \in S
  <2> DEFINE rank == [n \in N |-> Len(pre[n])]
             P == {n \in N : ~Moved(t, n) /\ Needed(t, n) => n \in S}
  <2>1. \A n \in N : Len(pre[n]) \in Nat
    BY ShapeTypes
  <2>2. rank \in [N -> Nat]
    BY <2>1
  <2>3. ASSUME NEW n \in N, \A y \in N : rank[y] < rank[n] => y \in P, ~Moved(t, n), Needed(t, n)
        PROVE  n \in S
    <3> DEFINE p == t.nodes[n].parent
               k == t.nodes[p].kids
    <3>1. CASE p = 0
      <4>1. pre[n] = at[1]
        BY <2>3, <3>1, ParentAbove DEF Shape
      <4>2. n \in Range(Siblings(t, 1))
        BY <1>1, <1>4, <2>3, <4>1, SiblingsAre DEF Shape
      <4>3. n \in Surviving(t, 1)
        BY <1>1, <2>3, <4>2, SurvivingFacts
      <4>4. QED
        BY <1>2, <1>3, <4>3
    <3>2. CASE p # 0
      <4>1. p \in N /\ ~Moved(t, p) /\ k # 0 /\ pre[n] = Spelled(t, pre, p)
        BY <2>3, <3>2, ParentAbove
      <4>2. at[k] = pre[n] /\ First(t, at, k) /\ k \in A
        <5>1. at[k] = Spelled(t, pre, p) /\ First(t, at, k)
          BY <4>1 DEF Shape, Kids
        <5>2. k \in 0..Len(t.arrays)
          BY <4>1, ShapeTypes
        <5>3. Len(t.arrays) \in Nat
          BY ShapeTypes
        <5> HIDE DEF k
        <5>4. QED
          BY <4>1, <5>1, <5>2, <5>3
      <4>3. n \in Range(Siblings(t, k))
        <5> HIDE DEF k
        <5>1. Laid(t, pre, at)
          BY DEF Shape
        <5>2. QED
          BY <2>3, <4>2, <5>1, SiblingsAre
      <4>4. n \in Surviving(t, k)
        BY <2>3, <4>2, <4>3, SurvivingFacts
      <4>5. Needed(t, p)
        BY <4>1, <4>4 DEF Needed
      <4>6. rank[p] < rank[n]
        <5>1. Len(Spelled(t, pre, p)) = Len(pre[p]) + Len(t.nodes[p].chars) /\ Len(pre[p]) \in Nat
              /\ Len(t.nodes[p].chars) \in Nat \ {0}
          BY <4>1, ShapeTypes
        <5>2. rank[p] = Len(pre[p]) /\ rank[n] = Len(Spelled(t, pre, p))
          BY <4>1
        <5>3. \A x, y \in Nat : \A z \in Nat \ {0} : x = y + z => y < x
          OBVIOUS
        <5> HIDE DEF rank, p
        <5>4. QED
          BY <2>1, <4>1, <5>1, <5>2, <5>3
      <4>7. p \in S
        BY <2>3, <4>1, <4>5, <4>6
      <4> HIDE DEF p
      <4>8. PICK c \in R : p \in Surviving(t, c)
        BY <1>3, <4>7
      <4>9. p \in WithKidsKept(t, c)
        BY <4>1, <4>4, <4>8 DEF WithKidsKept
      <4>10. k \in R
        BY <1>2, <4>9
      <4>11. QED
        BY <1>3, <4>4, <4>10
    <3>3. QED
      BY <3>1, <3>2
  <2>4. N \subseteq P
    <3>1. \A n \in N : (\A y \in N : rank[y] < rank[n] => y \in P) => n \in P
      BY <2>3
    <3> HIDE DEF N, P, rank
    <3>2. QED
      BY <2>2, <3>1, Values!RankInduction
  <2>5. QED
    BY <2>4
<1>9. \A n \in N : ~Moved(t, n) /\ HasEntry(t, n) => n \in S
  BY <1>8 DEF Needed
<1>10. QED
  BY <1>2, <1>4, <1>5, <1>6, <1>7, <1>9 DEF Keep, S, R

----------------------------------------------------------------------------
(* The copy. *)

\* The ids that are kept are those with an entry.
Listing(t, S, I) ==
    /\ \A i : i \in I <=> i \in 1..Len(t.table) /\ t.count[i] # NoEntry
    /\ \A i \in I : t.table[i] \in S

LEMMA KeptIdsAre ==
    ASSUME NEW t, NEW pre, NEW at, Shape(t, pre, at), Entries(t)
    PROVE  Listing(t, KeptNodes(t), KeptIds(t))
<1> DEFINE S == KeptNodes(t)
           I == KeptIds(t)
<1>1. t \in Tries
  BY ShapeTypes
<1>2. Len(t.table) \in Nat /\ DOMAIN t.table = 1..Len(t.table)
  BY <1>1, TypesOf
<1>3. \A n \in 1..Len(t.nodes) : ~Moved(t, n) /\ HasEntry(t, n) => n \in S
  BY KeepIs DEF Keep
<1>4. ASSUME NEW i \in 1..Len(t.table), t.count[i] # NoEntry
      PROVE  t.table[i] \in S /\ t.nodes[t.table[i]].id = i
  <2>1. t.table[i] # 0
    BY <1>4 DEF Entries
  <2>2. t.table[i] \in 1..Len(t.nodes) /\ ~Moved(t, t.table[i]) /\ t.nodes[t.table[i]].id = i
    BY <2>1, TableFacts
  <2>3. i # 0
    BY <1>2
  <2>4. HasEntry(t, t.table[i])
    BY <1>4, <2>2, <2>3 DEF HasEntry
  <2>5. QED
    BY <1>3, <2>2, <2>4
<1> HIDE DEF S
<1>5. \A i : i \in I <=> i \in 1..Len(t.table) /\ t.count[i] # NoEntry
  BY <1>2, <1>4 DEF KeptIds, S
<1> HIDE DEF I
<1>6. QED
  BY <1>4, <1>5 DEF Listing, S, I

\* A copy of the nodes S and the arrays R, with the ids I.
Numberings(t, S, R, I) == Numbered(S) /\ Numbered(R) /\ Numbered(I)

NodeCopy(t, S, R, I, n, r) ==
    /\ r \in Nodes /\ r.chars = t.nodes[n].chars /\ r.flag = "none"
    /\ r.parent = IF t.nodes[n].parent = 0 THEN 0 ELSE Rank(S, t.nodes[n].parent)
    /\ r.id = IF t.nodes[n].id \in I THEN Rank(I, t.nodes[n].id) ELSE 0
    /\ r.kids = IF t.nodes[n].kids \in R THEN Rank(R, t.nodes[n].kids) ELSE 0

LEMMA CopyNodeIs ==
    ASSUME NEW t, NEW pre, NEW at, Shape(t, pre, at), NEW S, NEW R, NEW I,
           Keep(t, pre, at, S, R), Numberings(t, S, R, I), NEW n \in S
    PROVE  NodeCopy(t, S, R, I, n, CopyNode(t, S, R, I, n))
<1> DEFINE r == CopyNode(t, S, R, I, n)
           p == t.nodes[n].parent
<1>1. n \in 1..Len(t.nodes) /\ ~Moved(t, n) /\ (p # 0 => p \in S)
  BY DEF Keep
<1>2. p # 0 => Fetch(t, p) = p
  <2>1. p # 0 => p \in 1..Len(t.nodes) /\ ~Moved(t, p)
    BY <1>1 DEF Keep
  <2>2. QED
    BY <2>1, FetchKeeps DEF Shape
<1>3. r = [chars |-> t.nodes[n].chars, parent |-> IF p = 0 THEN 0 ELSE Rank(S, Fetch(t, p)),
           id |-> IF t.nodes[n].id \in I THEN Rank(I, t.nodes[n].id) ELSE 0,
           kids |-> IF t.nodes[n].kids \in R THEN Rank(R, t.nodes[n].kids) ELSE 0,
           flag |-> "none"]
  BY DEF CopyNode
<1> HIDE DEF r, p
<1>4. /\ r.chars = t.nodes[n].chars /\ r.flag = "none"
      /\ r.parent = IF p = 0 THEN 0 ELSE Rank(S, p)
      /\ r.id = IF t.nodes[n].id \in I THEN Rank(I, t.nodes[n].id) ELSE 0
      /\ r.kids = IF t.nodes[n].kids \in R THEN Rank(R, t.nodes[n].kids) ELSE 0
  BY <1>2, <1>3
<1>5. r.parent \in Nat /\ r.id \in Nat /\ r.kids \in Nat
  <2>1. /\ \A x \in S : Rank(S, x) \in Nat
        /\ \A x \in R : Rank(R, x) \in Nat
        /\ \A x \in I : Rank(I, x) \in Nat
    BY DEF Numberings, Numbered
  <2>2. QED
    BY <1>1, <1>4, <2>1
<1>6. t.nodes[n].chars \in Seq(Nat) /\ t.nodes[n].chars # << >>
  <2>1. t \in Tries
    BY ShapeTypes
  <2>2. QED
    BY <1>1, <2>1, TypesOf
<1>7. r \in Nodes
  BY <1>3, <1>4, <1>5, <1>6 DEF Nodes
<1>8. QED
  BY <1>4, <1>7 DEF NodeCopy, r, p

\* What a copy is, seen from what it is a copy of.
CopyOf(t, u, S, R, I) ==
    /\ u \in Tries
    /\ Len(u.nodes) = Cardinality(S) /\ Len(u.arrays) = Cardinality(R)
    /\ Len(u.table) = Cardinality(I) /\ Len(u.count) = Cardinality(I)
    /\ \A n \in S : NodeCopy(t, S, R, I, n, u.nodes[Rank(S, n)])
    /\ \A a \in R : Packed(u.arrays[Rank(R, a)], Siblings(t, a), S)
    /\ \A i \in I : /\ u.table[Rank(I, i)] = Rank(S, t.table[i])
                    /\ u.count[Rank(I, i)] = t.count[i]
    /\ \A q \in u.pairs :
         \E p \in t.pairs : p[1] \in I /\ p[2] \in I /\ q = <<Rank(I, p[1]), Rank(I, p[2])>>

LEMMA CopiedIs ==
    ASSUME NEW t, NEW pre, NEW at, Shape(t, pre, at), NEW S, NEW R, NEW I,
           Keep(t, pre, at, S, R), Numberings(t, S, R, I), Listing(t, S, I)
    PROVE  CopyOf(t, Copied(t, S, R, I), S, R, I)
<1> DEFINE u == Copied(t, S, R, I)
           K == Cardinality(S)
           A == Cardinality(R)
           L == Cardinality(I)
           nodes == [i \in 1..K |-> CopyNode(t, S, R, I, Kept(S, i))]
           arrays == [i \in 1..A |-> CopyArray(t, S, Kept(R, i))]
           table == [i \in 1..L |-> Rank(S, t.table[Kept(I, i)])]
           count == [i \in 1..L |-> t.count[Kept(I, i)]]
           pairs == RenumberedPairs(t.pairs, I)
<1>1. u = [nodes |-> nodes, arrays |-> arrays, table |-> table, count |-> count, pairs |-> pairs]
  BY DEF Copied
<1>2. /\ K \in Nat /\ A \in Nat /\ L \in Nat
      /\ \A n \in S : Rank(S, n) \in 1..K /\ Kept(S, Rank(S, n)) = n
      /\ \A i \in 1..K : Kept(S, i) \in S
      /\ \A a \in R : Rank(R, a) \in 1..A /\ Kept(R, Rank(R, a)) = a
      /\ \A i \in 1..A : Kept(R, i) \in R
      /\ \A i \in I : Rank(I, i) \in 1..L /\ Kept(I, Rank(I, i)) = i
      /\ \A i \in 1..L : Kept(I, i) \in I
  BY DEF Numberings, Numbered
<1> HIDE DEF K, A, L
<1>3. /\ nodes \in Seq(Nodes) /\ Len(nodes) = K
      /\ \A n \in S : NodeCopy(t, S, R, I, n, nodes[Rank(S, n)])
  <2>1. \A n \in S : NodeCopy(t, S, R, I, n, CopyNode(t, S, R, I, n))
    BY CopyNodeIs
  <2>2. \A n \in S : CopyNode(t, S, R, I, n) \in Nodes
    BY <2>1 DEF NodeCopy
  <2>3. nodes \in [1..K -> Nodes]
    BY <1>2, <2>2
  <2>4. \A n \in S : nodes[Rank(S, n)] = CopyNode(t, S, R, I, n)
    BY <1>2
  <2> HIDE DEF nodes
  <2>5. nodes \in Seq(Nodes) /\ Len(nodes) = K
    BY <1>2, <2>3, SequenceFrom
  <2>6. QED
    BY <2>1, <2>4, <2>5
<1>4. /\ arrays \in Seq(Arrays) /\ Len(arrays) = A
      /\ \A a \in R : Packed(arrays[Rank(R, a)], Siblings(t, a), S)
  <2>1. \A a \in R : Siblings(t, a) \in Seq(1..Len(t.nodes))
    BY SiblingsBehind DEF Keep
  <2>2. Numbered(S)
    BY DEF Numberings
  <2>3. ASSUME NEW a \in R PROVE Packed(CopyArray(t, S, a), Siblings(t, a), S)
    <3> DEFINE E == 1..Len(t.nodes)
    <3>1. Siblings(t, a) \in Seq(E)
      BY <2>1
    <3> HIDE DEF E
    <3>2. QED
      BY <2>2, <3>1, CopyArrayIs
  <2>4. arrays \in [1..A -> Arrays]
    BY <1>2, <2>3 DEF Packed
  <2>5. \A a \in R : arrays[Rank(R, a)] = CopyArray(t, S, a)
    BY <1>2
  <2> HIDE DEF arrays
  <2>6. arrays \in Seq(Arrays) /\ Len(arrays) = A
    BY <1>2, <2>4, SequenceFrom
  <2>7. QED
    BY <2>3, <2>5, <2>6
<1>5. t \in Tries
  BY ShapeTypes
<1>6. \A i \in I : t.table[i] \in S /\ t.count[i] \in 0..NoEntry
  <2>1. \A i \in I : i \in 1..Len(t.table) /\ t.table[i] \in S
    BY DEF Listing
  <2>2. Len(t.count) = Len(t.table)
    BY ShapeTypes DEF Linked
  <2>3. QED
    BY <1>5, <2>1, <2>2, TypesOf
<1>7. /\ table \in Seq(Nat) /\ Len(table) = L
      /\ \A i \in I : table[Rank(I, i)] = Rank(S, t.table[i])
  <2>1. table \in [1..L -> Nat]
    BY <1>2, <1>6
  <2>2. \A i \in I : table[Rank(I, i)] = Rank(S, t.table[i])
    BY <1>2
  <2> HIDE DEF table
  <2>3. QED
    BY <1>2, <2>1, <2>2, SequenceFrom
<1>8. /\ count \in Seq(0..NoEntry) /\ Len(count) = L
      /\ \A i \in I : count[Rank(I, i)] = t.count[i]
  <2>1. count \in [1..L -> 0..NoEntry]
    BY <1>2, <1>6
  <2>2. \A i \in I : count[Rank(I, i)] = t.count[i]
    BY <1>2
  <2> HIDE DEF count
  <2>3. QED
    BY <1>2, <2>1, <2>2, SequenceFrom
<1>9. /\ pairs \in SUBSET (Nat \X Nat)
      /\ \A q \in pairs :
           \E p \in t.pairs : p[1] \in I /\ p[2] \in I /\ q = <<Rank(I, p[1]), Rank(I, p[2])>>
  <2>1. \A q \in pairs :
           \E p \in t.pairs : p[1] \in I /\ p[2] \in I /\ q = <<Rank(I, p[1]), Rank(I, p[2])>>
    BY DEF RenumberedPairs
  <2>2. \A i \in I : Rank(I, i) \in Nat
    BY <1>2
  <2> HIDE DEF pairs
  <2>3. QED
    BY <2>1, <2>2
<1> HIDE DEF u, nodes, arrays, table, count, pairs
<1>10. /\ u \in Tries /\ u.nodes = nodes /\ u.arrays = arrays /\ u.table = table
       /\ u.count = count /\ u.pairs = pairs
  BY <1>1, <1>3, <1>4, <1>7, <1>8, <1>9 DEF Tries
<1>11. \A a \in R : Packed(u.arrays[Rank(R, a)], Siblings(t, a), S)
  BY <1>4, <1>10
<1>12. \A n \in S : NodeCopy(t, S, R, I, n, u.nodes[Rank(S, n)])
  BY <1>3, <1>10
<1>13. QED
  BY <1>3, <1>4, <1>7, <1>8, <1>9, <1>10, <1>11, <1>12 DEF CopyOf, u, K, A, L

\* The letters before the nodes and arrays of a copy.
Renumbered(f, S) == [x \in 1..Cardinality(S) |-> f[Kept(S, x)]]

LEMMA CopyLinked ==
    ASSUME NEW t, NEW pre, NEW at, Shape(t, pre, at), NEW S, NEW R, NEW I,
           Keep(t, pre, at, S, R), Numberings(t, S, R, I), Listing(t, S, I),
           NEW u, CopyOf(t, u, S, R, I)
    PROVE  /\ Linked(u)
           /\ \A x \in 1..Len(u.nodes) : NodeCopy(t, S, R, I, Kept(S, x), u.nodes[x])
           /\ \A b \in 1..Len(u.arrays) :
                /\ u.arrays[b].next = 0
                /\ \A m : Member(u, b, m) <=>
                            \E n \in S : n \in Range(Siblings(t, Kept(R, b))) /\ m = Rank(S, n)
<1> DEFINE N == 1..Len(u.nodes)
           A == 1..Len(u.arrays)
           L == 1..Len(u.table)
<1>1. /\ \A n \in S : Rank(S, n) \in N
      /\ \A x \in N : Kept(S, x) \in S /\ Rank(S, Kept(S, x)) = x
      /\ \A a \in R : Rank(R, a) \in A
      /\ \A x \in A : Kept(R, x) \in R /\ Rank(R, Kept(R, x)) = x
      /\ \A i \in I : Rank(I, i) \in L
      /\ \A x \in L : Kept(I, x) \in I /\ Rank(I, Kept(I, x)) = x
  BY DEF Numberings, Numbered, CopyOf
<1>2. /\ u \in Tries /\ Len(u.count) = Len(u.table)
      /\ \A n \in S : NodeCopy(t, S, R, I, n, u.nodes[Rank(S, n)])
      /\ \A a \in R : Packed(u.arrays[Rank(R, a)], Siblings(t, a), S)
      /\ \A i \in I : u.table[Rank(I, i)] = Rank(S, t.table[i])
      /\ \A q \in u.pairs :
         \E p \in t.pairs : p[1] \in I /\ p[2] \in I /\ q = <<Rank(I, p[1]), Rank(I, p[2])>>
  BY DEF CopyOf
<1>3. Len(u.nodes) \in Nat /\ Len(u.arrays) \in Nat /\ Len(u.table) \in Nat
  BY <1>2, TypesOf
<1>4. \A x \in N : NodeCopy(t, S, R, I, Kept(S, x), u.nodes[x])
  BY <1>1, <1>2
<1>5. \A b \in A : Packed(u.arrays[b], Siblings(t, Kept(R, b)), S)
  BY <1>1, <1>2
<1>6. \A b \in A :
        /\ u.arrays[b].next = 0
        /\ \A m : Member(u, b, m) <=>
                    \E n \in S : n \in Range(Siblings(t, Kept(R, b))) /\ m = Rank(S, n)
  BY <1>5 DEF Packed, Member
<1>7. \A x \in N : /\ u.nodes[x].flag = "none"
                   /\ u.nodes[x].parent <= Len(u.nodes) /\ u.nodes[x].kids <= Len(u.arrays)
                   /\ u.nodes[x].id <= Len(u.table)
  <2> SUFFICES ASSUME NEW x \in N
               PROVE  /\ u.nodes[x].flag = "none"
                      /\ u.nodes[x].parent <= Len(u.nodes) /\ u.nodes[x].kids <= Len(u.arrays)
                      /\ u.nodes[x].id <= Len(u.table)
    OBVIOUS
  <2> DEFINE n == Kept(S, x)
  <2>1. n \in S /\ NodeCopy(t, S, R, I, n, u.nodes[x])
    BY <1>1, <1>4
  <2> HIDE DEF n
  <2>2. t.nodes[n].parent # 0 => t.nodes[n].parent \in S
    BY <2>1 DEF Keep
  <2>3. u.nodes[x].flag = "none"
    BY <2>1 DEF NodeCopy
  <2>4. u.nodes[x].parent = 0 \/ u.nodes[x].parent \in N
    BY <1>1, <2>1, <2>2 DEF NodeCopy
  <2>5. u.nodes[x].kids = 0 \/ u.nodes[x].kids \in A
    BY <1>1, <2>1 DEF NodeCopy
  <2>6. u.nodes[x].id = 0 \/ u.nodes[x].id \in L
    BY <1>1, <2>1 DEF NodeCopy
  <2>7. \A k \in Nat : 0 <= k /\ \A i \in 1..k : i <= k
    OBVIOUS
  <2>8. QED
    BY <1>3, <2>3, <2>4, <2>5, <2>6, <2>7
<1>8. Len(u.arrays) >= 1
  <2>1. Rank(R, 1) \in A
    BY <1>1 DEF Keep
  <2>2. QED
    BY <1>3, <2>1
<1>9. \A a \in A : \A i \in 1..Len(u.arrays[a].members) : u.arrays[a].members[i] \in N
  <2>1. \A a \in A : \A m : Member(u, a, m) => m \in N
    BY <1>1, <1>6
  <2>2. QED
    BY <2>1 DEF Member
<1>10. \A i \in L : u.table[i] \in N /\ u.table[i] <= Len(u.nodes)
  <2>1. \A i \in I : t.table[i] \in S
    BY DEF Listing
  <2>2. \A i \in L : u.table[i] \in N
    BY <1>1, <1>2, <2>1
  <2>3. QED
    BY <1>3, <2>2
<1>11. \A q \in u.pairs : q[1] \in L /\ q[2] \in L
  BY <1>1, <1>2
<1>12. Linked(u)
  <2>1. \A a \in A : u.arrays[a].next <= Len(u.arrays)
    BY <1>3, <1>6
  <2>2. QED
    BY <1>2, <1>6, <1>7, <1>8, <1>9, <1>10, <1>11, <2>1 DEF Linked
<1>13. QED
  BY <1>4, <1>6, <1>12

LEMMA CopyShape ==
    ASSUME NEW t, NEW pre, NEW at, Shape(t, pre, at), NEW S, NEW R, NEW I,
           Keep(t, pre, at, S, R), Numberings(t, S, R, I), Listing(t, S, I),
           NEW u, CopyOf(t, u, S, R, I)
    PROVE  /\ Shape(u, Renumbered(pre, S), Renumbered(at, R))
           /\ \A x \in 1..Len(u.nodes) : ~Moved(u, x) /\ u.nodes[x].flag = "none"
           /\ \A x \in 1..Len(u.nodes) : Spelled(u, Renumbered(pre, S), x) = Spelled(t, pre, Kept(S, x))
<1> DEFINE N == 1..Len(u.nodes)
           A == 1..Len(u.arrays)
           pre2 == Renumbered(pre, S)
           at2 == Renumbered(at, R)
<1>1. /\ \A n \in S : Rank(S, n) \in N /\ Kept(S, Rank(S, n)) = n
      /\ \A x \in N : Kept(S, x) \in S /\ Rank(S, Kept(S, x)) = x
      /\ \A a \in R : Rank(R, a) \in A /\ Kept(R, Rank(R, a)) = a
      /\ \A x \in A : Kept(R, x) \in R /\ Rank(R, Kept(R, x)) = x
      /\ N = 1..Cardinality(S) /\ A = 1..Cardinality(R)
  BY DEF Numberings, Numbered, CopyOf
<1>2. /\ Linked(u)
      /\ \A x \in N : NodeCopy(t, S, R, I, Kept(S, x), u.nodes[x])
      /\ \A b \in A :
           /\ u.arrays[b].next = 0
           /\ \A m : Member(u, b, m) <=>
                       \E n \in S : n \in Range(Siblings(t, Kept(R, b))) /\ m = Rank(S, n)
  BY CopyLinked
<1>3. /\ \A x \in N : pre2[x] = pre[Kept(S, x)]
      /\ \A b \in A : at2[b] = at[Kept(R, b)]
  BY <1>1 DEF Renumbered
<1>4. /\ R \in SUBSET (1..Len(t.arrays)) /\ 1 \in R /\ S \in SUBSET (1..Len(t.nodes))
      /\ \A a \in R : First(t, at, a)
      /\ \A a \in R : a # 1 => \E n \in S : t.nodes[n].kids = a
      /\ \A n \in S : /\ ~Moved(t, n)
                      /\ \E a \in R : n \in Range(Siblings(t, a))
                      /\ t.nodes[n].parent # 0 =>
                           t.nodes[n].parent \in S /\ t.nodes[t.nodes[n].parent].kids \in R
  BY DEF Keep
<1>5. /\ \A n \in S : pre[n] \in Seq(Nat)
      /\ \A a \in R : at[a] \in Seq(Nat) /\ a \in Nat /\ a # 0
  <2>1. \A n \in S : pre[n] \in Seq(Nat)
    BY <1>4, ShapeTypes
  <2>2. \A a \in R : at[a] \in Seq(Nat)
    BY <1>4, ShapeTypes
  <2>3. Len(t.arrays) \in Nat
    BY ShapeTypes
  <2>4. \A a \in R : a \in Nat /\ a # 0
    BY <1>4, <2>3
  <2>5. QED
    BY <2>1, <2>2, <2>4
<1>6. /\ pre2 \in [N -> Seq(Nat)] /\ at2 \in [A -> Seq(Nat)]
  <2>1. \A x \in 1..Cardinality(S) : pre[Kept(S, x)] \in Seq(Nat)
    BY <1>1, <1>5
  <2>2. \A x \in 1..Cardinality(R) : at[Kept(R, x)] \in Seq(Nat)
    BY <1>1, <1>5
  <2>3. QED
    BY <1>1, <2>1, <2>2 DEF Renumbered
<1> HIDE DEF pre2, at2
<1>7. \A x \in N : ~Moved(u, x) /\ u.nodes[x].flag = "none"
  <2>1. \A x \in N : u.nodes[x].flag = "none"
    BY <1>2 DEF NodeCopy
  <2>2. QED
    BY <2>1 DEF Moved
<1>8. \A x \in N : /\ Spelled(u, pre2, x) = Spelled(t, pre, Kept(S, x))
                   /\ Letter(u, x) = Letter(t, Kept(S, x))
  BY <1>2, <1>3 DEF NodeCopy, Spelled, Letter
<1>9. \A b, c \in A : at2[b] = at2[c] => b = c
  <2>1. \A a, c \in R : at[a] = at[c] => a = c
    <3>1. \A a, c \in R : at[a] = at[c] => a <= c /\ c <= a
      BY <1>4 DEF First
    <3>2. \A a, c \in Nat : a <= c /\ c <= a => a = c
      OBVIOUS
    <3>3. QED
      BY <1>5, <3>1, <3>2
  <2>2. QED
    BY <1>1, <1>3, <2>1
<1>10. Chained(u, at2)
  <2>1. \A b \in A : b <= b
    OBVIOUS
  <2>2. QED
    BY <1>2, <1>9, <2>1 DEF Chained
<1>11. Filled(u, pre2, at2)
  <2>1. \A b \in A : \A m : Member(u, b, m) => pre2[m] = at2[b]
    <3> SUFFICES ASSUME NEW b \in A, NEW m, Member(u, b, m) PROVE pre2[m] = at2[b]
      OBVIOUS
    <3>1. PICK n \in S : n \in Range(Siblings(t, Kept(R, b))) /\ m = Rank(S, n)
      BY <1>2
    <3>2. Kept(R, b) \in R /\ Kept(R, b) \in 1..Len(t.arrays)
      BY <1>1, <1>4
    <3>3. pre[n] = at[Kept(R, b)]
      BY <3>1, <3>2, SiblingsBehind
    <3>4. QED
      BY <1>1, <1>3, <3>1, <3>3
  <2>2. QED
    BY <2>1 DEF Filled, Member
<1>12. Forwards(u, pre2)
  BY <1>7 DEF Forwards
<1>13. Listed(u)
  <2> SUFFICES ASSUME NEW x \in N
               PROVE  \E b \in A, m \in N : Member(u, b, m) /\ Fetch(u, m) = x
    BY DEF Listed
  <2>1. Fetch(u, x) = x
    BY <1>2, <1>7, FetchUnfolds
  <2>2. PICK a \in R : Kept(S, x) \in Range(Siblings(t, a))
    BY <1>1, <1>4
  <2>3. Rank(R, a) \in A /\ Kept(R, Rank(R, a)) = a
    BY <1>1
  <2>4. Member(u, Rank(R, a), x)
    BY <1>1, <1>2, <2>2, <2>3
  <2>5. QED
    BY <2>1, <2>3, <2>4
<1>14. Laid(u, pre2, at2)
  BY <1>2, <1>6, <1>10, <1>11, <1>12, <1>13 DEF Laid
<1>15. at2[1] = << >>
  <2>1. Rank(R, 1) = 1
    <3>1. Len(t.arrays) \in Nat
      BY ShapeTypes
    <3>2. QED
      BY <1>4, <3>1, RankOfFirst
  <2>2. 1 \in A /\ Kept(R, 1) = 1
    BY <1>1, <1>4, <2>1
  <2>3. at[1] = << >>
    BY DEF Shape
  <2>4. QED
    BY <1>3, <2>2, <2>3
<1>16. Owned(u, pre2, at2)
  <2> SUFFICES ASSUME NEW b \in A, at2[b] # << >>
               PROVE  \E x \in N : ~Moved(u, x) /\ u.nodes[x].kids # 0 /\ Spelled(u, pre2, x) = at2[b]
    BY DEF Owned
  <2> DEFINE a == Kept(R, b)
  <2>1. a \in R /\ Rank(R, a) = b /\ at2[b] = at[a]
    BY <1>1, <1>3
  <2> HIDE DEF a
  <2>2. a # 1
    BY <2>1 DEF Shape
  <2>3. PICK n \in S : t.nodes[n].kids = a
    BY <1>4, <2>1, <2>2
  <2>4. at[a] = Spelled(t, pre, n)
    BY <1>4, <1>5, <2>1, <2>3 DEF Shape, Kids
  <2>5. Rank(S, n) \in N /\ Kept(S, Rank(S, n)) = n
    BY <1>1
  <2>6. u.nodes[Rank(S, n)].kids = b
    BY <1>2, <2>1, <2>3, <2>5 DEF NodeCopy
  <2>7. b # 0
    OBVIOUS
  <2>8. QED
    BY <1>7, <1>8, <2>1, <2>4, <2>5, <2>6, <2>7
<1>17. Kids(u, pre2, at2)
  <2> SUFFICES ASSUME NEW x \in N, u.nodes[x].kids # 0
               PROVE  /\ at2[u.nodes[x].kids] = Spelled(u, pre2, x)
                      /\ First(u, at2, u.nodes[x].kids)
    BY DEF Kids
  <2> DEFINE n == Kept(S, x)
             a == t.nodes[n].kids
  <2>1. n \in S /\ n \in 1..Len(t.nodes)
    BY <1>1, <1>4
  <2>2. a \in R /\ u.nodes[x].kids = Rank(R, a)
    BY <1>2 DEF NodeCopy
  <2>3. Rank(R, a) \in A /\ Kept(R, Rank(R, a)) = a /\ a # 0
    BY <1>1, <1>5, <2>2
  <2>4. at[a] = Spelled(t, pre, n)
    BY <2>1, <2>3 DEF Shape, Kids
  <2>5. Spelled(u, pre2, x) = Spelled(t, pre, n)
    BY <1>8
  <2> HIDE DEF a, n
  <2>6. at2[Rank(R, a)] = at[a]
    BY <1>3, <2>3
  <2>7. First(u, at2, Rank(R, a))
    <3>1. \A b \in A : at2[b] = at2[Rank(R, a)] => b = Rank(R, a)
      BY <1>9, <2>3
    <3>2. Rank(R, a) <= Rank(R, a)
      BY <2>3
    <3>3. QED
      BY <3>1, <3>2 DEF First
  <2>8. QED
    BY <2>2, <2>4, <2>5, <2>6, <2>7
<1>18. Parents(u, pre2)
  <2> SUFFICES ASSUME NEW x \in N
               PROVE  /\ u.nodes[x].parent = 0 => pre2[x] = << >>
                      /\ u.nodes[x].parent # 0 =>
                           /\ ~Moved(u, u.nodes[x].parent) /\ u.nodes[u.nodes[x].parent].kids # 0
                           /\ pre2[x] = Spelled(u, pre2, u.nodes[x].parent)
    BY DEF Parents
  <2> DEFINE n == Kept(S, x)
             p == t.nodes[n].parent
  <2>1. n \in S /\ n \in 1..Len(t.nodes) /\ ~Moved(t, n) /\ pre2[x] = pre[n]
    BY <1>1, <1>3, <1>4
  <2>2. u.nodes[x].parent = IF p = 0 THEN 0 ELSE Rank(S, p)
    BY <1>2 DEF NodeCopy
  <2>3. /\ p = 0 => pre[n] = << >>
        /\ p # 0 => pre[n] = Spelled(t, pre, p)
    BY <2>1, ParentAbove
  <2>4. p # 0 => p \in S /\ t.nodes[p].kids \in R
    BY <1>4, <2>1
  <2> HIDE DEF n, p
  <2>5. CASE p = 0
    BY <2>1, <2>2, <2>3, <2>5
  <2>6. CASE p # 0
    <3> DEFINE y == Rank(S, p)
    <3>1. y \in N /\ Kept(S, y) = p /\ u.nodes[x].parent = y
      BY <1>1, <2>2, <2>4, <2>6
    <3>2. y # 0
      BY <3>1
    <3> HIDE DEF y
    <3>3. Rank(R, t.nodes[p].kids) \in A
      BY <1>1, <2>4, <2>6
    <3>4. u.nodes[y].kids = Rank(R, t.nodes[p].kids)
      BY <1>2, <2>4, <2>6, <3>1 DEF NodeCopy
    <3>5. u.nodes[y].kids # 0
      BY <3>3, <3>4
    <3>6. pre2[x] = Spelled(u, pre2, y)
      BY <1>8, <2>1, <2>3, <2>6, <3>1
    <3>7. QED
      BY <1>7, <3>1, <3>2, <3>5, <3>6
  <2>7. QED
    BY <2>5, <2>6
<1>19. Apart(u, pre2)
  <2> SUFFICES ASSUME NEW x \in N, NEW y \in N, pre2[x] = pre2[y], Letter(u, x) = Letter(u, y)
               PROVE  x = y
    BY DEF Apart
  <2> DEFINE m == Kept(S, x)
             n == Kept(S, y)
  <2>1. /\ m \in 1..Len(t.nodes) /\ ~Moved(t, m) /\ Rank(S, m) = x
        /\ n \in 1..Len(t.nodes) /\ ~Moved(t, n) /\ Rank(S, n) = y
    BY <1>1, <1>4
  <2>2. pre[m] = pre[n] /\ Letter(t, m) = Letter(t, n)
    BY <1>3, <1>8
  <2> HIDE DEF m, n
  <2>3. m = n
    BY <2>1, <2>2 DEF Shape, Apart
  <2>4. QED
    BY <2>1, <2>3
<1>20. Shape(u, pre2, at2)
  BY <1>14, <1>15, <1>16, <1>17, <1>18, <1>19 DEF Shape
<1>21. QED
  BY <1>7, <1>8, <1>20 DEF pre2, at2

LEMMA CopyEntries ==
    ASSUME NEW t, NEW pre, NEW at, Shape(t, pre, at), Entries(t), NEW S, NEW R, NEW I,
           Keep(t, pre, at, S, R), Numberings(t, S, R, I), Listing(t, S, I),
           NEW u, CopyOf(t, u, S, R, I)
    PROVE  Entries(u)
<1> DEFINE N == 1..Len(u.nodes)
           L == 1..Len(u.table)
<1>1. /\ \A n \in S : Rank(S, n) \in N /\ Kept(S, Rank(S, n)) = n
      /\ \A x \in N : Kept(S, x) \in S /\ Rank(S, Kept(S, x)) = x
      /\ \A i \in I : Rank(I, i) \in L /\ Kept(I, Rank(I, i)) = i
      /\ \A x \in L : Kept(I, x) \in I /\ Rank(I, Kept(I, x)) = x
  BY DEF Numberings, Numbered, CopyOf
<1>2. /\ \A i \in I : /\ u.table[Rank(I, i)] = Rank(S, t.table[i])
                      /\ u.count[Rank(I, i)] = t.count[i]
      /\ \A q \in u.pairs :
         \E p \in t.pairs : p[1] \in I /\ p[2] \in I /\ q = <<Rank(I, p[1]), Rank(I, p[2])>>
  BY DEF CopyOf
<1>3. \A x \in N : /\ NodeCopy(t, S, R, I, Kept(S, x), u.nodes[x])
                   /\ ~Moved(u, x) /\ u.nodes[x].flag = "none"
  BY CopyLinked, CopyShape
<1>4. \A n \in S : n \in 1..Len(t.nodes) /\ ~Moved(t, n)
  BY DEF Keep
<1>5. \A i \in I : /\ t.table[i] \in S /\ t.nodes[t.table[i]].id = i /\ t.count[i] # NoEntry
                   /\ t.table[i] \in 1..Len(t.nodes) /\ ~Moved(t, t.table[i]) /\ i # 0
  <2>1. \A i \in I : i \in 1..Len(t.table) /\ t.count[i] # NoEntry /\ t.table[i] \in S
    BY DEF Listing
  <2>2. \A i \in I : t.table[i] # 0
    BY <2>1 DEF Entries
  <2>3. \A i \in I : i # 0
    BY <2>1
  <2>4. QED
    BY <2>1, <2>2, <2>3, TableFacts
<1>6. \A n \in S : t.nodes[n].id \in I => t.table[t.nodes[n].id] = n
  <2> SUFFICES ASSUME NEW n \in S, t.nodes[n].id \in I PROVE t.table[t.nodes[n].id] = n
    OBVIOUS
  <2> DEFINE i == t.nodes[n].id
             m == t.table[i]
  <2>1. m \in 1..Len(t.nodes) /\ ~Moved(t, m) /\ t.nodes[m].id = i /\ i # 0
    BY <1>5
  <2>2. n \in 1..Len(t.nodes) /\ ~Moved(t, n)
    BY <1>4
  <2> HIDE DEF i, m
  <2>3. m = n
    BY <2>1, <2>2 DEF Entries, i
  <2>4. QED
    BY <2>3 DEF i, m
<1>7. \A i \in L : 0 # i
  OBVIOUS
<1>8. \A x \in N : u.nodes[x].id # 0 =>
        /\ t.nodes[Kept(S, x)].id \in I /\ u.nodes[x].id = Rank(I, t.nodes[Kept(S, x)].id)
  BY <1>3 DEF NodeCopy
<1>9. \A x \in N : u.nodes[x].id # 0 => u.table[u.nodes[x].id] = x
  BY <1>1, <1>2, <1>6, <1>8
<1>10. \A x, y \in N : u.nodes[x].id = u.nodes[y].id /\ u.nodes[x].id # 0 => x = y
  BY <1>9
<1>11. \A j \in L : /\ u.table[j] = Rank(S, t.table[Kept(I, j)]) /\ u.table[j] \in N
                    /\ u.count[j] = t.count[Kept(I, j)]
                    /\ Kept(S, u.table[j]) = t.table[Kept(I, j)]
  BY <1>1, <1>2, <1>5
<1>12. \A j \in L : u.nodes[u.table[j]].flag = "none" /\ u.nodes[u.table[j]].id = j
  <2> SUFFICES ASSUME NEW j \in L PROVE u.nodes[u.table[j]].flag = "none" /\ u.nodes[u.table[j]].id = j
    OBVIOUS
  <2> DEFINE x == u.table[j]
             n == t.table[Kept(I, j)]
  <2>1. x \in N /\ Kept(S, x) = n
    BY <1>11
  <2>2. t.nodes[n].id = Kept(I, j) /\ Kept(I, j) \in I /\ Rank(I, Kept(I, j)) = j
    BY <1>1, <1>5
  <2> HIDE DEF x, n
  <2>3. u.nodes[x].id = j /\ u.nodes[x].flag = "none"
    BY <1>3, <2>1, <2>2 DEF NodeCopy
  <2>4. QED
    BY <2>3 DEF x
<1>13. \A x \in N : x # 0
  OBVIOUS
<1>14. \A q \in u.pairs : u.table[q[1]] # 0
  <2>1. \A q \in u.pairs : q[1] \in L
    BY <1>1, <1>2
  <2>2. QED
    BY <1>11, <1>13, <2>1
<1>15. QED
  BY <1>3, <1>9, <1>10, <1>11, <1>12, <1>13, <1>14 DEF Entries

LEMMA CopyCounts ==
    ASSUME NEW t, NEW pre, NEW at, Shape(t, pre, at), Entries(t), NEW S, NEW R, NEW I,
           Keep(t, pre, at, S, R), Numberings(t, S, R, I), Listing(t, S, I),
           NEW u, CopyOf(t, u, S, R, I), NEW c, c # NoEntry
    PROVE  WordsCounted(u, c) = WordsCounted(t, c)
<1> DEFINE L == 1..Len(u.table)
           pre2 == Renumbered(pre, S)
           at2 == Renumbered(at, R)
<1>1. /\ Shape(u, pre2, at2)
      /\ \A x \in 1..Len(u.nodes) : Spelled(u, pre2, x) = Spelled(t, pre, Kept(S, x))
  BY CopyShape
<1> HIDE DEF pre2, at2
<1>2. \A x : x \in WordsCounted(u, c) <=> \E j \in L : u.count[j] = c /\ x = Spelled(u, pre2, u.table[j])
  <2>1. Entries(u)
    BY CopyEntries
  <2>2. QED
    BY <1>1, <2>1, CountedBy
<1>3. \A x : x \in WordsCounted(t, c) <=>
               \E i \in 1..Len(t.table) : t.count[i] = c /\ x = Spelled(t, pre, t.table[i])
  BY CountedBy
<1>4. /\ \A i \in I : Rank(I, i) \in L /\ u.count[Rank(I, i)] = t.count[i]
                      /\ Spelled(u, pre2, u.table[Rank(I, i)]) = Spelled(t, pre, t.table[i])
      /\ \A j \in L : Kept(I, j) \in I /\ Rank(I, Kept(I, j)) = j
  <2>1. /\ \A n \in S : Rank(S, n) \in 1..Len(u.nodes) /\ Kept(S, Rank(S, n)) = n
        /\ \A i \in I : Rank(I, i) \in L
        /\ \A j \in L : Kept(I, j) \in I /\ Rank(I, Kept(I, j)) = j
    BY DEF Numberings, Numbered, CopyOf
  <2>2. \A i \in I : /\ u.table[Rank(I, i)] = Rank(S, t.table[i])
                     /\ u.count[Rank(I, i)] = t.count[i]
    BY DEF CopyOf
  <2>3. \A i \in I : t.table[i] \in S
    BY DEF Listing
  <2>4. \A n \in S : Spelled(u, pre2, Rank(S, n)) = Spelled(t, pre, n)
    BY <1>1, <2>1
  <2> HIDE DEF L
  <2>5. QED
    BY <2>1, <2>2, <2>3, <2>4
<1>5. \A i : i \in I <=> i \in 1..Len(t.table) /\ t.count[i] # NoEntry
  BY DEF Listing
<1> HIDE DEF L
<1>6. ASSUME NEW x, x \in WordsCounted(u, c) PROVE x \in WordsCounted(t, c)
  <2>1. PICK j \in L : u.count[j] = c /\ x = Spelled(u, pre2, u.table[j])
    BY <1>2, <1>6
  <2>2. Kept(I, j) \in I /\ t.count[Kept(I, j)] = c /\ x = Spelled(t, pre, t.table[Kept(I, j)])
    BY <1>4, <2>1
  <2>3. QED
    BY <1>3, <1>5, <2>2
<1>7. ASSUME NEW x, x \in WordsCounted(t, c) PROVE x \in WordsCounted(u, c)
  <2>1. PICK i \in 1..Len(t.table) : t.count[i] = c /\ x = Spelled(t, pre, t.table[i])
    BY <1>3, <1>7
  <2>2. i \in I
    BY <1>5, <2>1
  <2>3. QED
    BY <1>2, <1>4, <2>1, <2>2
<1>8. QED
  BY <1>6, <1>7

\* The pairs of a copy are pairs of the same words.
LEMMA CopyPairs ==
    ASSUME NEW t, NEW pre, NEW at, Shape(t, pre, at), Entries(t), NEW S, NEW R, NEW I,
           Keep(t, pre, at, S, R), Numberings(t, S, R, I), Listing(t, S, I),
           NEW u, CopyOf(t, u, S, R, I)
    PROVE  PairsOfWords(u) \subseteq PairsOfWords(t)
<1> DEFINE pre2 == Renumbered(pre, S)
           at2 == Renumbered(at, R)
<1>1. /\ Shape(u, pre2, at2) /\ Entries(u)
      /\ \A x \in 1..Len(u.nodes) : Spelled(u, pre2, x) = Spelled(t, pre, Kept(S, x))
  BY CopyShape, CopyEntries
<1> HIDE DEF pre2, at2
<1>2. \A i \in I : /\ i \in 1..Len(t.table) /\ t.count[i] # NoEntry /\ t.table[i] \in S
                   /\ Rank(I, i) \in 1..Len(u.table) /\ u.count[Rank(I, i)] = t.count[i]
                   /\ u.table[Rank(I, i)] = Rank(S, t.table[i])
  BY DEF Listing, CopyOf, Numberings, Numbered
<1>3. \A n \in S : Rank(S, n) \in 1..Len(u.nodes) /\ Kept(S, Rank(S, n)) = n
  BY DEF CopyOf, Numberings, Numbered
<1>4. ASSUME NEW i \in I PROVE SpelledBy(u, u.table[Rank(I, i)]) = SpelledBy(t, t.table[i])
  <2>1. SpelledBy(t, t.table[i]) = Spelled(t, pre, t.table[i])
    BY <1>2, EntryWord
  <2>2. SpelledBy(u, u.table[Rank(I, i)]) = Spelled(u, pre2, u.table[Rank(I, i)])
    BY <1>1, <1>2, EntryWord
  <2>3. Spelled(u, pre2, u.table[Rank(I, i)]) = Spelled(t, pre, t.table[i])
    BY <1>1, <1>2, <1>3
  <2>4. QED
    BY <2>1, <2>2, <2>3
<1>5. ASSUME NEW q \in u.pairs
      PROVE  <<SpelledBy(u, u.table[q[1]]), SpelledBy(u, u.table[q[2]])>> \in PairsOfWords(t)
  <2>1. PICK p \in t.pairs : p[1] \in I /\ p[2] \in I /\ q = <<Rank(I, p[1]), Rank(I, p[2])>>
    BY DEF CopyOf
  <2>2. q[1] = Rank(I, p[1]) /\ q[2] = Rank(I, p[2])
    BY <2>1
  <2>3. /\ SpelledBy(u, u.table[q[1]]) = SpelledBy(t, t.table[p[1]])
        /\ SpelledBy(u, u.table[q[2]]) = SpelledBy(t, t.table[p[2]])
    BY <1>4, <2>1, <2>2
  <2>4. t.count[p[1]] # NoEntry /\ t.count[p[2]] # NoEntry
    BY <1>2, <2>1
  <2>5. QED
    BY <2>3, <2>4 DEF PairsOfWords
<1>6. QED
  BY <1>5 DEF PairsOfWords

\* Where ids keep their words, a pair is new only by one of its words.
LEMMA PairsStay ==
    ASSUME NEW t, NEW u, Linked(u), NEW W, NEW Z, Stays(t, u, W),
           \A p \in u.pairs : p \in t.pairs \/ SpelledBy(u, u.table[p[2]]) \in Z
    PROVE  \A pair \in PairsOfWords(u) \ PairsOfWords(t) : pair[1] \in W \/ pair[2] \in W \cup Z
<1> SUFFICES ASSUME NEW pair \in PairsOfWords(u), pair[1] \notin W, pair[2] \notin W, pair[2] \notin Z
             PROVE  pair \in PairsOfWords(t)
  OBVIOUS
<1>1. PICK p \in u.pairs :
        /\ u.count[p[1]] # NoEntry /\ u.count[p[2]] # NoEntry
        /\ pair = <<SpelledBy(u, u.table[p[1]]), SpelledBy(u, u.table[p[2]])>>
  BY DEF PairsOfWords
<1>2. pair[1] = SpelledBy(u, u.table[p[1]]) /\ pair[2] = SpelledBy(u, u.table[p[2]])
  BY <1>1
<1>3. p[1] \in 1..Len(u.table) /\ p[2] \in 1..Len(u.table)
  BY DEF Linked
<1>4. /\ t.count[p[1]] # NoEntry /\ SpelledBy(u, u.table[p[1]]) = SpelledBy(t, t.table[p[1]])
      /\ t.count[p[2]] # NoEntry /\ SpelledBy(u, u.table[p[2]]) = SpelledBy(t, t.table[p[2]])
  BY <1>1, <1>2, <1>3 DEF Stays
<1>5. p \in t.pairs
  BY <1>2
<1>6. QED
  BY <1>1, <1>4, <1>5 DEF PairsOfWords

\* A copy of what is kept is a trie with the same words.
LEMMA CopiedKeepsWords ==
    ASSUME NEW t, NEW pre, NEW at, Shape(t, pre, at), Entries(t)
    PROVE  LET u == Copied(t, KeptNodes(t), KeptArrays(t), KeptIds(t))
           IN  /\ Sound(u) /\ PairsOfWords(u) \subseteq PairsOfWords(t)
               /\ \A c : c # NoEntry => WordsCounted(u, c) = WordsCounted(t, c)
<1> DEFINE S == KeptNodes(t)
           R == KeptArrays(t)
           I == KeptIds(t)
           u == Copied(t, S, R, I)
<1>1. Keep(t, pre, at, S, R) /\ Listing(t, S, I)
  BY KeepIs, KeptIdsAre
<1> HIDE DEF S, R, I
<1>2. Numberings(t, S, R, I)
  <2>1. t \in Tries
    BY ShapeTypes
  <2>2. Len(t.nodes) \in Nat /\ Len(t.arrays) \in Nat /\ Len(t.table) \in Nat
    BY <2>1, TypesOf
  <2>3. S \in SUBSET (1..Len(t.nodes)) /\ R \in SUBSET (1..Len(t.arrays))
    BY <1>1 DEF Keep
  <2>4. I \in SUBSET (1..Len(t.table))
    BY <1>1 DEF Listing
  <2>5. QED
    BY <2>2, <2>3, <2>4, NumberedIs DEF Numberings
<1>3. CopyOf(t, u, S, R, I)
  BY <1>1, <1>2, CopiedIs
<1> HIDE DEF u
<1>4. Shape(u, Renumbered(pre, S), Renumbered(at, R)) /\ Entries(u)
  BY <1>1, <1>2, <1>3, CopyShape, CopyEntries
<1>5. \A c : c # NoEntry => WordsCounted(u, c) = WordsCounted(t, c)
  BY <1>1, <1>2, <1>3, CopyCounts
<1>6. PairsOfWords(u) \subseteq PairsOfWords(t)
  BY <1>1, <1>2, <1>3, CopyPairs
<1>7. QED
  BY <1>4, <1>5, <1>6 DEF Sound, u, S, R, I

\* Expired entries are gone, and nothing else is.
LEMMA ExpireForgets ==
    ASSUME NEW t, NEW pre, NEW at, Shape(t, pre, at), Entries(t), NEW ex, NEW exPairs
    PROVE  LET u == Expire(t, ex, exPairs)
           IN  /\ Shape(u, pre, at) /\ Entries(u)
               /\ PairsOfWords(u) \subseteq PairsOfWords(t)
               /\ \A c : c # NoEntry => WordsCounted(u, c) \subseteq WordsCounted(t, c)
<1> DEFINE u == Expire(t, ex, exPairs)
           L == Len(t.table)
           count == [i \in DOMAIN t.count |-> IF i \in ex THEN NoEntry ELSE t.count[i]]
           pairs == t.pairs \ exPairs
<1>1. /\ t \in Tries /\ Linked(t) /\ Len(t.count) = L /\ L \in Nat /\ DOMAIN t.count = 1..L
  BY ShapeTypes, TypesOf DEF Linked
<1>2. u = [t EXCEPT !.count = count, !.pairs = pairs]
  BY DEF Expire
<1> HIDE DEF u
<1>3. /\ count \in Seq(0..NoEntry) /\ Len(count) = L
      /\ \A i \in 1..L : count[i] = IF i \in ex THEN NoEntry ELSE t.count[i]
  <2>1. \A i \in 1..L : t.count[i] \in 0..NoEntry
    BY <1>1, TypesOf
  <2>2. NoEntry \in 0..NoEntry
    BY DEF NoEntry
  <2>3. count \in [1..L -> 0..NoEntry]
    BY <1>1, <2>1, <2>2
  <2>4. \A i \in 1..L : count[i] = IF i \in ex THEN NoEntry ELSE t.count[i]
    BY <1>1
  <2> HIDE DEF L, count
  <2>5. QED
    BY <1>1, <2>3, <2>4, SequenceFrom
<1> HIDE DEF count
<1>4. /\ u \in Tries /\ u.nodes = t.nodes /\ u.arrays = t.arrays /\ u.table = t.table
      /\ u.count = count /\ u.pairs = pairs
  BY <1>1, <1>2, <1>3 DEF Tries
<1>5. SameTree(t, u)
  <2>1. /\ \A i \in 1..L : t.table[i] <= Len(t.nodes)
        /\ \A p \in t.pairs : p[1] \in 1..L /\ p[2] \in 1..L
    BY <1>1 DEF Linked
  <2>2. QED
    BY <1>3, <1>4, <2>1 DEF SameTree, Moved
<1>6. /\ Shape(u, pre, at)
      /\ \A x \in 1..Len(t.nodes) : Spelled(u, pre, x) = Spelled(t, pre, x)
  BY <1>5, SameTreeShape
<1>7. \A i \in 1..L : u.count[i] # NoEntry => u.count[i] = t.count[i]
  BY <1>3, <1>4
<1>8. Entries(u)
  <2>1. \A i \in 1..L : u.count[i] # NoEntry => u.table[i] # 0
    BY <1>4, <1>7 DEF Entries
  <2>2. \A p \in u.pairs : u.table[p[1]] # 0
    BY <1>4 DEF Entries
  <2>3. QED
    BY <1>4, <2>1, <2>2 DEF Entries, Moved
<1>9. ASSUME NEW c, c # NoEntry PROVE WordsCounted(u, c) \subseteq WordsCounted(t, c)
  <2> SUFFICES ASSUME NEW x \in WordsCounted(u, c) PROVE x \in WordsCounted(t, c)
    OBVIOUS
  <2>1. PICK i \in 1..Len(u.table) : u.count[i] = c /\ x = Spelled(u, pre, u.table[i])
    BY <1>6, <1>8, <1>9, CountedBy
  <2>2. i \in 1..L /\ t.count[i] = c
    BY <1>4, <1>7, <1>9, <2>1
  <2>3. t.table[i] # 0
    BY <1>9, <2>2 DEF Entries
  <2>4. t.table[i] \in 1..Len(t.nodes)
    BY <2>2, <2>3, TableFacts
  <2>5. x = Spelled(t, pre, t.table[i])
    BY <1>4, <1>6, <2>1, <2>4
  <2>6. QED
    BY <1>9, <2>2, <2>5, CountedBy
<1>10. Stays(t, u, {})
  <2>1. ASSUME NEW i \in 1..L, u.count[i] # NoEntry
        PROVE  t.count[i] # NoEntry /\ SpelledBy(u, u.table[i]) = SpelledBy(t, t.table[i])
    <3>1. t.count[i] # NoEntry /\ u.table[i] = t.table[i]
      BY <1>4, <1>7, <2>1
    <3>2. SpelledBy(t, t.table[i]) = Spelled(t, pre, t.table[i])
      BY <3>1, EntryWord
    <3>3. SpelledBy(u, u.table[i]) = Spelled(u, pre, u.table[i])
      BY <1>4, <1>6, <1>8, <2>1, EntryWord
    <3>4. t.table[i] \in 1..Len(t.nodes)
      <4>1. t.table[i] # 0
        BY <3>1 DEF Entries
      <4>2. QED
        BY <4>1, TableFacts
    <3>5. QED
      BY <1>6, <3>1, <3>2, <3>3, <3>4
  <2>2. QED
    BY <1>4, <2>1 DEF Stays
<1>11. PairsOfWords(u) \subseteq PairsOfWords(t)
  <2>1. Linked(u)
    BY <1>6, ShapeTypes
  <2>2. \A p \in u.pairs : p \in t.pairs \/ SpelledBy(u, u.table[p[2]]) \in {}
    BY <1>4
  <2> HIDE DEF u
  <2>3. \A pair \in PairsOfWords(u) \ PairsOfWords(t) : pair[1] \in {} \/ pair[2] \in {} \cup {}
    BY <1>10, <2>1, <2>2, PairsStay
  <2>4. QED
    BY <2>3
<1>12. QED
  BY <1>6, <1>8, <1>9, <1>11 DEF u

\* A compaction keeps the words whose entries have not expired.
LEMMA CompactedKeeps ==
    ASSUME NEW t, Sound(t), NEW ex, NEW exPairs
    PROVE  LET u == Compacted(t, ex, exPairs)
           IN  /\ Sound(u) /\ PairsOfWords(u) \subseteq PairsOfWords(t)
               /\ \A c : c # NoEntry => /\ WordsCounted(u, c) = WordsCounted(Expire(t, ex, exPairs), c)
                                        /\ WordsCounted(u, c) \subseteq WordsCounted(t, c)
<1> DEFINE v == Expire(t, ex, exPairs)
<1>1. PICK pre, at : Shape(t, pre, at) /\ Entries(t)
  BY DEF Sound
<1>2. /\ Shape(v, pre, at) /\ Entries(v) /\ PairsOfWords(v) \subseteq PairsOfWords(t)
      /\ \A c : c # NoEntry => WordsCounted(v, c) \subseteq WordsCounted(t, c)
  BY <1>1, ExpireForgets
<1> HIDE DEF v
<1>3. LET u == Copied(v, KeptNodes(v), KeptArrays(v), KeptIds(v))
      IN  /\ Sound(u) /\ PairsOfWords(u) \subseteq PairsOfWords(v)
          /\ \A c : c # NoEntry => WordsCounted(u, c) = WordsCounted(v, c)
  BY <1>2, CopiedKeepsWords
<1>4. QED
  BY <1>2, <1>3 DEF Compacted, v

----------------------------------------------------------------------------
(* Theorems. *)

\* The empty dictionary is a trie with an array of no letters.
LEMMA EmptyIsSound == Sound(EmptyDict)
<1> DEFINE t == EmptyDict
           pre == [n \in 1..0 |-> << >>]
           at == [a \in 1..1 |-> << >>]
<1>1. /\ Len(t.nodes) = 0 /\ Len(t.arrays) = 1 /\ Len(t.table) = 0 /\ Len(t.count) = 0
      /\ t.arrays[1] = [members |-> << >>, next |-> 0] /\ t.pairs = {}
  BY DEF EmptyDict
<1>2. t \in Tries
  <2>1. [members |-> << >>, next |-> 0] \in Arrays
    BY DEF Arrays
  <2>2. <<[members |-> << >>, next |-> 0]>> \in Seq(Arrays)
    BY <2>1
  <2>3. << >> \in Seq(Nodes) /\ << >> \in Seq(Nat) /\ << >> \in Seq(0..NoEntry)
    OBVIOUS
  <2>4. QED
    BY <2>2, <2>3 DEF EmptyDict, Tries
<1> HIDE DEF t
<1>3. 1..Len(t.nodes) = {} /\ 1..Len(t.arrays) = {1} /\ 1..Len(t.table) = {}
  BY <1>1
<1>4. 1..Len(t.arrays[1].members) = {}
  BY <1>1
<1>5. Linked(t)
  BY <1>1, <1>2, <1>3, <1>4 DEF Linked
<1>6. at[1] = << >> /\ at \in [1..Len(t.arrays) -> Seq(Nat)] /\ pre \in [1..Len(t.nodes) -> Seq(Nat)]
  <2>1. << >> \in Seq(Nat)
    OBVIOUS
  <2>2. 1..Len(t.nodes) = 1..0 /\ 1..Len(t.arrays) = 1..1 /\ 1 \in 1..1 /\ 1..0 = {}
    BY <1>1
  <2>3. QED
    BY <2>1, <2>2
<1> HIDE DEF pre, at
<1>7. Chained(t, at) /\ Filled(t, pre, at) /\ Forwards(t, pre) /\ Listed(t)
  BY <1>1, <1>3, <1>4 DEF Chained, Filled, Forwards, Listed
<1>8. Owned(t, pre, at) /\ Kids(t, pre, at) /\ Parents(t, pre) /\ Apart(t, pre)
  BY <1>3, <1>6 DEF Owned, Kids, Parents, Apart
<1>9. Entries(t)
  BY <1>1, <1>3 DEF Entries
<1>10. QED
  BY <1>5, <1>6, <1>7, <1>8, <1>9 DEF Shape, Laid, Sound, t

\* A word with an entry is found.
LEMMA CountedIsThere ==
    ASSUME NEW t, Sound(t), NEW c, c # NoEntry, NEW w \in WordsCounted(t, c)
    PROVE  WordId(t, w) # 0
<1>1. PICK pre, at : Shape(t, pre, at) /\ Entries(t)
  BY DEF Sound
<1>2. PICK i \in 1..Len(t.table) : t.count[i] = c /\ w = Spelled(t, pre, t.table[i])
  BY <1>1, CountedBy
<1>3. t.table[i] # 0
  BY <1>1, <1>2 DEF Entries
<1>4. /\ t.table[i] \in 1..Len(t.nodes) /\ t.nodes[t.table[i]].flag = "none"
      /\ ~Moved(t, t.table[i]) /\ t.nodes[t.table[i]].id = i
  BY <1>1, <1>3, TableFacts
<1>5. WordId(t, w) = i
  BY <1>1, <1>2, <1>4, WordIdOf
<1>6. i # 0
  <2>1. Len(t.table) \in Nat
    BY <1>1, ShapeTypes, TypesOf
  <2>2. \A L \in Nat : \A x \in 1..L : x # 0
    OBVIOUS
  <2>3. QED
    BY <2>1, <2>2
<1>7. QED
  BY <1>5, <1>6

\* What a step does to the words: one is learnt, or some are forgotten.
Learning(t, u) ==
    \/ /\ WordsCounted(u, 1) = WordsCounted(t, 1)
       /\ \E w \in WordsCounted(u, 0) \ WordsCounted(t, 1) :
            WordsCounted(u, 0) = WordsCounted(t, 0) \cup {w}
    \/ \E w \in WordsCounted(u, 1) :
         /\ WordsCounted(u, 0) = WordsCounted(t, 0) \ {w}
         /\ WordsCounted(u, 1) = WordsCounted(t, 1) \cup {w}

Forgetting(t, u) ==
    /\ WordsCounted(u, 0) \subseteq WordsCounted(t, 0)
    /\ WordsCounted(u, 1) \subseteq WordsCounted(t, 1)

\* Pairs that are new have the word w as their second one, or as their first one
\* if it had no entry.
PairsOf(t, u, w) ==
    \A pair \in PairsOfWords(u) \ PairsOfWords(t) : w = pair[2] \/ w \in {pair[1]} \ WordsWithEntry(t)

LEMMA NewPairs ==
    ASSUME NEW t, NEW u, Linked(u), NEW w, Stays(t, u, {w} \ WordsWithEntry(t)),
           \A p \in u.pairs : p \in t.pairs \/ SpelledBy(u, u.table[p[2]]) = w
    PROVE  PairsOf(t, u, w)
<1> DEFINE W == {w} \ WordsWithEntry(t)
           Z == {w}
<1>1. \A p \in u.pairs : p \in t.pairs \/ SpelledBy(u, u.table[p[2]]) \in Z
  OBVIOUS
<1> HIDE DEF Z
<1>2. \A pair \in PairsOfWords(u) \ PairsOfWords(t) : pair[1] \in W \/ pair[2] \in W \cup Z
  BY <1>1, PairsStay
<1>3. QED
  BY <1>2 DEF PairsOf, Z

LEMMA SoundLinked == \A t : Sound(t) => Linked(t)
BY ShapeTypes DEF Sound

\* Typing a word keeps the trie sound and changes that word only.
LEMMA TypedIsLearnt ==
    ASSUME NEW t, Sound(t), NEW w \in Seq(Nat), w # << >>, NEW before \in Seq(Nat)
    PROVE  /\ WordId(t, w) # 0 => /\ Sound(UpdateAllEntries(t, before, w))
                                  /\ Learning(t, UpdateAllEntries(t, before, w))
                                  /\ PairsOf(t, UpdateAllEntries(t, before, w), w)
           /\ WordId(t, w) = 0 =>
                /\ Sound(AddUnigram(t, w)) /\ Learning(t, AddUnigram(t, w))
                /\ PairsOf(t, AddUnigram(t, w), w)
                /\ Sound(UpdateAllEntries(AddUnigram(t, w), before, w))
                /\ Learning(t, UpdateAllEntries(AddUnigram(t, w), before, w))
                /\ PairsOf(t, UpdateAllEntries(AddUnigram(t, w), before, w), w)
<1>1. PICK pre, at : Shape(t, pre, at) /\ Entries(t)
  BY DEF Sound
<1>2. ASSUME WordId(t, w) # 0
      PROVE  /\ Sound(UpdateAllEntries(t, before, w))
             /\ Learning(t, UpdateAllEntries(t, before, w))
             /\ PairsOf(t, UpdateAllEntries(t, before, w), w)
  <2> DEFINE u == UpdateAllEntries(t, before, w)
  <2>1. /\ Sound(u)
        /\ WordsCounted(u, 0) = WordsCounted(t, 0) \ {w}
        /\ WordsCounted(u, 1) = WordsCounted(t, 1) \cup {w}
        /\ Stays(t, u, {w} \ WordsWithEntry(t))
        /\ \A p \in u.pairs : p \in t.pairs \/ SpelledBy(u, u.table[p[2]]) = w
    BY <1>1, <1>2, UpdateAllEntriesCounts
  <2> HIDE DEF u
  <2>2. w \in WordsCounted(u, 1)
    BY <2>1
  <2>3. Linked(u)
    BY <2>1, SoundLinked
  <2>4. PairsOf(t, u, w)
    BY <2>1, <2>3, NewPairs
  <2>5. QED
    BY <2>1, <2>2, <2>4 DEF Learning, u
<1>3. ASSUME WordId(t, w) = 0
      PROVE  /\ Sound(AddUnigram(t, w)) /\ Learning(t, AddUnigram(t, w))
             /\ PairsOf(t, AddUnigram(t, w), w)
             /\ Sound(UpdateAllEntries(AddUnigram(t, w), before, w))
             /\ Learning(t, UpdateAllEntries(AddUnigram(t, w), before, w))
             /\ PairsOf(t, UpdateAllEntries(AddUnigram(t, w), before, w), w)
  <2> DEFINE v == AddUnigram(t, w)
             u == UpdateAllEntries(v, before, w)
  <2>1. /\ Sound(v) /\ WordId(v, w) # 0
        /\ WordsCounted(v, 0) = WordsCounted(t, 0) \cup {w}
        /\ WordsCounted(v, 1) = WordsCounted(t, 1)
        /\ Stays(t, v, {w}) /\ v.pairs = t.pairs
    BY <1>1, <1>3, AddUnigramAdds DEF Added
  <2>2. w \notin WordsCounted(t, 0) /\ w \notin WordsCounted(t, 1)
    <3>1. 0 # NoEntry /\ 1 # NoEntry
      BY DEF NoEntry
    <3>2. QED
      BY <1>3, <3>1, CountedIsThere
  <2> HIDE DEF v
  <2>3. PICK pre2, at2 : Shape(v, pre2, at2) /\ Entries(v)
    BY <2>1 DEF Sound
  <2>4. /\ Sound(u)
        /\ WordsCounted(u, 0) = WordsCounted(v, 0) \ {w}
        /\ WordsCounted(u, 1) = WordsCounted(v, 1) \cup {w}
        /\ Stays(v, u, {w} \ WordsWithEntry(v))
        /\ \A p \in u.pairs : p \in v.pairs \/ SpelledBy(u, u.table[p[2]]) = w
    BY <2>1, <2>3, UpdateAllEntriesCounts
  <2> HIDE DEF u
  <2>5. Learning(t, v)
    BY <2>1, <2>2 DEF Learning
  <2>6. Learning(t, u)
    <3>1. WordsCounted(u, 0) = WordsCounted(t, 0) \ {w}
      BY <2>1, <2>4
    <3>2. WordsCounted(u, 1) = WordsCounted(t, 1) \cup {w} /\ w \in WordsCounted(u, 1)
      BY <2>1, <2>4
    <3>3. QED
      BY <3>1, <3>2 DEF Learning
  <2>7. {w} \ WordsWithEntry(t) = {w}
    BY <2>2 DEF WordsWithEntry
  <2>8. Stays(t, u, {w} \ WordsWithEntry(t))
    BY <2>1, <2>4, <2>7 DEF Stays
  <2>9. Linked(v) /\ Linked(u)
    BY <2>1, <2>4, SoundLinked
  <2>10. PairsOf(t, v, w)
    BY <2>1, <2>7, <2>9, NewPairs
  <2>11. PairsOf(t, u, w)
    BY <2>1, <2>4, <2>8, <2>9, NewPairs
  <2>12. QED
    BY <2>1, <2>4, <2>5, <2>6, <2>10, <2>11 DEF u, v
<1>4. QED
  BY <1>2, <1>3

\* The word w is typed, after some context and valid or not.
Typed(w) == \E before \in Contexts \cup {<< >>}, v \in BOOLEAN : UpdateEntriesForWord(before, w, v)

\* A step keeps the trie sound, learns a word or forgets some, and only a step that
\* types a word makes pairs.
LEMMA StepIsSound ==
    ASSUME Sound(d), Next
    PROVE  /\ Sound(d') /\ (Learning(d, d') \/ Forgetting(d, d'))
           /\ \/ PairsOfWords(d') \subseteq PairsOfWords(d)
              \/ \E w \in Words : Typed(w) /\ PairsOf(d, d', w)
<1>1. \A w \in Words : w \in Seq(Nat) /\ w # << >>
  BY TrieAssumption
<1>2. ASSUME NEW w \in Words, NEW before \in Contexts \cup {<< >>}, NEW v \in BOOLEAN,
             UpdateEntriesForWord(before, w, v)
      PROVE  Sound(d') /\ Learning(d, d') /\ PairsOf(d, d', w)
  <2>1. before \in Seq(Nat)
    <3>1. before = << >> => before \in Seq(Nat)
      OBVIOUS
    <3>2. before \in Contexts => before \in Words
      BY TrieAssumption
    <3>3. QED
      BY <1>1, <3>1, <3>2
  <2>2. w \in Seq(Nat) /\ w # << >>
    BY <1>1
  <2>3. CASE WordId(d, w) # 0
    <3>1. d' = UpdateAllEntries(d, before, w)
      BY <1>2, <2>3 DEF UpdateEntriesForWord
    <3>2. QED
      BY <2>1, <2>2, <2>3, <3>1, TypedIsLearnt
  <2>4. CASE WordId(d, w) = 0
    <3>1. d' = UpdateAllEntries(AddUnigram(d, w), before, w) \/ d' = AddUnigram(d, w)
      BY <1>2, <2>4 DEF UpdateEntriesForWord
    <3>2. QED
      BY <2>1, <2>2, <2>4, <3>1, TypedIsLearnt
  <2>5. QED
    BY <2>3, <2>4
<1>3. ASSUME NEW w \in Words, RemoveUnigramEntry(w)
      PROVE  Sound(d') /\ Forgetting(d, d') /\ PairsOfWords(d') \subseteq PairsOfWords(d)
  <2>1. WordId(d, w) # 0 /\ d' = RemoveUnigram(d, w)
    BY <1>3 DEF RemoveUnigramEntry
  <2>2. PICK pre, at : Shape(d, pre, at) /\ Entries(d)
    BY DEF Sound
  <2>3. w \in Seq(Nat) /\ w # << >>
    BY <1>1
  <2>4. /\ Sound(d')
        /\ WordsCounted(d', 0) = WordsCounted(d, 0) \ {w}
        /\ WordsCounted(d', 1) = WordsCounted(d, 1) \ {w}
        /\ Stays(d, d', {}) /\ d'.pairs \subseteq d.pairs
    BY <2>1, <2>2, <2>3, RemoveUnigramRemoves
  <2>5. Linked(d')
    BY <2>4, SoundLinked
  <2>6. \A p \in d'.pairs : p \in d.pairs
    BY <2>4
  <2>7. PairsOfWords(d') \subseteq PairsOfWords(d)
    BY <2>4, <2>5, <2>6, PairsStay
  <2>8. QED
    BY <2>4, <2>7 DEF Forgetting
<1>4. ASSUME NEW expired, NEW expiredPairs, FlushWithGC(expired, expiredPairs)
      PROVE  Sound(d') /\ Forgetting(d, d') /\ PairsOfWords(d') \subseteq PairsOfWords(d)
  <2>1. d' = Compacted(d, expired, expiredPairs)
    BY <1>4 DEF FlushWithGC
  <2>2. /\ Sound(d') /\ PairsOfWords(d') \subseteq PairsOfWords(d)
        /\ \A c : c # NoEntry => WordsCounted(d', c) \subseteq WordsCounted(d, c)
    BY <2>1, CompactedKeeps
  <2>3. 0 # NoEntry /\ 1 # NoEntry
    BY DEF NoEntry
  <2>4. QED
    BY <2>2, <2>3 DEF Forgetting
<1>5. CASE \E w \in Words, before \in Contexts \cup {<< >>}, v \in BOOLEAN : UpdateEntriesForWord(before, w, v)
  BY <1>2, <1>5 DEF Typed
<1>6. CASE \E w \in Words : RemoveUnigramEntry(w)
  BY <1>3, <1>6
<1>7. CASE \E expired \in SUBSET DOMAIN d.table, expiredPairs \in SUBSET d.pairs :
             FlushWithGC(expired, expiredPairs)
  BY <1>4, <1>7
<1>8. QED
  BY <1>5, <1>6, <1>7 DEF Next

\* The inductive invariant: the buffers are a trie, and the tables agree with it.
TrieInv == Sound(d)

\* The trie is sound, whatever was typed, removed and compacted before: every array
\* belongs to the letters of the node above it, siblings differ in their first
\* letters, and the tables and the nodes that have not moved name each other.
THEOREM TrieSound == Spec => []TrieInv
<1>1. Init => TrieInv
  BY EmptyIsSound DEF Init, TrieInv
<1>2. TrieInv /\ [Next]_d => TrieInv'
  BY StepIsSound DEF TrieInv
<1>3. QED
  BY <1>1, <1>2, PTL DEF Spec

\* Every link leads somewhere: the type invariant of the buffers.
THEOREM TrieTyped == Spec => []TrieTypeOK
<1>1. TrieInv => TrieTypeOK
  <2> SUFFICES ASSUME TrieInv PROVE TrieTypeOK
    OBVIOUS
  <2> DEFINE N == Len(d.nodes)
             A == Len(d.arrays)
             L == Len(d.table)
  <2>1. PICK pre, at : Shape(d, pre, at) /\ Entries(d)
    BY DEF TrieInv, Sound
  <2>2. Linked(d) /\ d \in Tries
    BY <2>1, ShapeTypes
  <2>3. /\ N \in Nat /\ A \in Nat /\ L \in Nat
        /\ DOMAIN d.nodes = 1..N /\ DOMAIN d.arrays = 1..A
        /\ DOMAIN d.table = 1..L /\ DOMAIN d.count = 1..Len(d.count) /\ Len(d.count) = L
    BY <2>2, TypesOf DEF Linked
  <2>4. ASSUME NEW n \in 1..N
        PROVE  /\ d.nodes[n].chars \in Seq(Nat) /\ d.nodes[n].chars # << >>
               /\ d.nodes[n].flag \in {"none", "moved", "deleted"}
               /\ d.nodes[n].flag = "moved" => d.nodes[n].parent \in (n + 1)..N
               /\ d.nodes[n].parent \in 0..N
               /\ d.nodes[n].kids \in 0..A
               /\ d.nodes[n].id \in 0..L
    <3>1. /\ d.nodes[n].chars \in Seq(Nat) /\ d.nodes[n].chars # << >>
          /\ d.nodes[n].flag \in {"none", "moved", "deleted"}
      BY <2>2, TypesOf
    <3>2. d.nodes[n].parent \in 0..N /\ d.nodes[n].kids \in 0..A /\ d.nodes[n].id \in 0..L
      BY <2>1, ShapeTypes
    <3>3. d.nodes[n].flag = "moved" => d.nodes[n].parent > n
      BY <2>2 DEF Linked
    <3>4. \A x \in 0..N : x > n => x \in (n + 1)..N
      BY <2>3
    <3>5. QED
      BY <3>1, <3>2, <3>3, <3>4
  <2>5. ASSUME NEW a \in 1..A
        PROVE  /\ Range(d.arrays[a].members) \subseteq 1..N
               /\ d.arrays[a].next \in {0} \cup (a + 1)..A
    <3>1. d.arrays[a].members \in Seq(Nat) /\ d.arrays[a].next \in Nat
      BY <2>2, TypesOf
    <3>2. /\ \A i \in 1..Len(d.arrays[a].members) : d.arrays[a].members[i] \in 1..N
          /\ d.arrays[a].next # 0 => d.arrays[a].next > a
          /\ d.arrays[a].next <= A
      BY <2>2 DEF Linked
    <3>3. DOMAIN d.arrays[a].members = 1..Len(d.arrays[a].members)
      BY <3>1
    <3>4. Range(d.arrays[a].members) \subseteq 1..N
      BY <3>2, <3>3 DEF Range
    <3>5. \A x \in Nat : x > a /\ x <= A => x \in (a + 1)..A
      BY <2>3
    <3>6. QED
      BY <3>1, <3>2, <3>4, <3>5
  <2>6. d.table \in Seq(0..N)
    <3>1. \A i \in 1..L : d.table[i] \in Nat /\ d.table[i] <= N
      BY <2>2, TypesOf DEF Linked
    <3>2. \A x \in Nat : x <= N => x \in 0..N
      BY <2>3
    <3>3. d.table \in Seq(Nat)
      BY <2>2 DEF Tries
    <3>4. \A i \in 1..L : d.table[i] \in 0..N
      BY <3>1, <3>2
    <3>5. d.table \in [1..L -> 0..N]
      BY <3>3, <3>4
    <3>6. QED
      BY <2>3, <3>5, SequenceFrom
  <2>7. d.count \in [Ids -> 0..NoEntry]
    <3>1. \A i \in 1..L : d.count[i] \in 0..NoEntry
      BY <2>2, <2>3, TypesOf
    <3>2. d.count \in Seq(0..NoEntry)
      BY <2>2 DEF Tries
    <3>3. d.count \in [1..L -> 0..NoEntry]
      BY <2>3, <3>1, <3>2
    <3>4. QED
      BY <3>3 DEF Ids
  <2>8. d.pairs \subseteq Ids \X Ids
    <3>1. d.pairs \subseteq Nat \X Nat
      BY <2>2 DEF Tries
    <3>2. \A p \in d.pairs : p[1] \in 1..L /\ p[2] \in 1..L
      BY <2>2 DEF Linked
    <3>3. QED
      BY <3>1, <3>2 DEF Ids
  <2>9. QED
    BY <2>3, <2>4, <2>5, <2>6, <2>7, <2>8 DEF TrieTypeOK
<1>2. QED
  BY <1>1, TrieSound, PTL

\* A count or the first word of a pair never outlives its word.
THEOREM EntriesAreOfWords == Spec => []EntriesBelongToWords
<1>1. TrieInv => EntriesBelongToWords
  BY DEF TrieInv, Sound, Entries, EntriesBelongToWords, Ids
<1>2. QED
  BY <1>1, TrieSound, PTL

\* A word, its node and its id lead to each other.
THEOREM WordsAreFound == Spec => []WordsRoundTrip
<1>1. TrieInv => WordsRoundTrip
  <2> SUFFICES ASSUME TrieInv PROVE WordsRoundTrip
    OBVIOUS
  <2>1. PICK pre, at : Shape(d, pre, at) /\ Entries(d)
    BY DEF TrieInv, Sound
  <2>2. ASSUME NEW w \in Words, WordId(d, w) # 0
        PROVE  /\ d.table[WordId(d, w)] = Walk(d, w).node
               /\ SpelledBy(d, Walk(d, w).node) = w
    <3> DEFINE n == Walk(d, w).node
    <3>1. w \in Seq(Nat) /\ w # << >>
      BY TrieAssumption
    <3>2. /\ d.table[WordId(d, w)] = n /\ n \in 1..Len(d.nodes) /\ d.nodes[n].flag = "none"
          /\ Spelled(d, pre, n) = w
      BY <2>1, <2>2, <3>1, WordNode
    <3> HIDE DEF n
    <3>3. SpelledBy(d, n) = w
      BY <2>1, <3>2, SpelledByIs DEF Moved
    <3>4. QED
      BY <3>2, <3>3 DEF n
  <2>3. ASSUME NEW id \in Ids, d.table[id] # 0
        PROVE  WordId(d, SpelledBy(d, d.table[id])) = id
    <3>1. /\ d.table[id] \in 1..Len(d.nodes) /\ d.nodes[d.table[id]].flag = "none"
          /\ ~Moved(d, d.table[id]) /\ d.nodes[d.table[id]].id = id
      BY <2>1, <2>3, TableFacts DEF Ids
    <3>2. SpelledBy(d, d.table[id]) = Spelled(d, pre, d.table[id])
      BY <2>1, <3>1, SpelledByIs
    <3>3. QED
      BY <2>1, <3>1, <3>2, WordIdOf
  <2>4. QED
    BY <2>2, <2>3 DEF WordsRoundTrip
<1>2. QED
  BY <1>1, TrieSound, PTL

\* A compaction keeps exactly the words with an entry that has not expired.
THEOREM CompactionForgetsNone == Spec => []CompactionKeepsWords
<1>1. TrieInv => CompactionKeepsWords
  <2> SUFFICES ASSUME TrieInv, NEW expired \in SUBSET Ids, NEW c \in {0, 1}
               PROVE  WordsCounted(Compacted(d, expired, {}), c) = WordsCounted(Expire(d, expired, {}), c)
    BY DEF CompactionKeepsWords
  <2>1. c # NoEntry
    BY DEF NoEntry
  <2>2. QED
    BY <2>1, CompactedKeeps DEF TrieInv
<1>2. QED
  BY <1>1, TrieSound, PTL

\* A pair of words appears only when one of its words is typed: its second word,
\* or its first one if that had no entry.
THEOREM PairsAreTyped == Spec => PairsComeFromTyping
<1>1. TrieInv /\ [Next]_d =>
        [\A pair \in PairsOfWords(d') \ PairsOfWords(d) :
           \E w \in {pair[2]} \cup ({pair[1]} \ WordsWithEntry(d)),
              before \in Contexts \cup {<< >>}, valid \in BOOLEAN :
             UpdateEntriesForWord(before, w, valid)]_d
  <2> SUFFICES ASSUME TrieInv, Next, NEW pair \in PairsOfWords(d') \ PairsOfWords(d)
               PROVE  \E w \in {pair[2]} \cup ({pair[1]} \ WordsWithEntry(d)) : Typed(w)
    BY DEF Typed
  <2>1. \E w \in Words : Typed(w) /\ PairsOf(d, d', w)
    BY StepIsSound DEF TrieInv
  <2>2. QED
    BY <2>1 DEF PairsOf
<1>2. QED
  BY <1>1, TrieSound, PTL DEF Spec, PairsComeFromTyping

\* The trie implements LearnedWords: an operation on a word changes no other word,
\* and a compaction loses words only.
THEOREM TrieKeepsPromise == Spec => WordsAreIndependent
<1>1. Init => Learned!Init
  <2> SUFFICES ASSUME Init PROVE Learned!Init
    OBVIOUS
  <2>1. DOMAIN d.table = {}
    BY DEF Init, EmptyDict
  <2>2. WordsCounted(d, 0) = {} /\ WordsCounted(d, 1) = {}
    BY <2>1 DEF WordsCounted
  <2>3. QED
    BY <2>2 DEF Learned!Init, Learned!Nothing
<1>2. TrieInv /\ [Next]_d => [Learned!Next]_([seen |-> WordsCounted(d, 0), known |-> WordsCounted(d, 1)])
  <2> SUFFICES ASSUME TrieInv, [Next]_d
               PROVE  [Learned!Next]_([seen |-> WordsCounted(d, 0), known |-> WordsCounted(d, 1)])
    OBVIOUS
  <2> DEFINE old == [seen |-> WordsCounted(d, 0), known |-> WordsCounted(d, 1)]
             new == [seen |-> WordsCounted(d', 0), known |-> WordsCounted(d', 1)]
  <2>1. CASE d' = d
    BY <2>1
  <2>2. CASE Next
    <3>1. Learning(d, d') \/ Forgetting(d, d')
      BY <2>2, StepIsSound DEF TrieInv
    <3>2. /\ old.seen = WordsCounted(d, 0) /\ old.known = WordsCounted(d, 1)
          /\ new.seen = WordsCounted(d', 0) /\ new.known = WordsCounted(d', 1)
      OBVIOUS
    <3>3. Forgetting(d, d') => Learned!Forgets(old, new)
      BY <3>2 DEF Forgetting, Learned!Forgets
    <3>4. Learning(d, d') => Learned!Learns(old, new)
      <4> SUFFICES ASSUME Learning(d, d') PROVE Learned!Learns(old, new)
        OBVIOUS
      <4>1. ASSUME WordsCounted(d', 1) = WordsCounted(d, 1),
                   NEW w \in WordsCounted(d', 0) \ WordsCounted(d, 1),
                   WordsCounted(d', 0) = WordsCounted(d, 0) \cup {w}
            PROVE  Learned!Learns(old, new)
        BY <3>2, <4>1 DEF Learned!Learns
      <4>2. ASSUME NEW w \in WordsCounted(d', 1),
                   WordsCounted(d', 0) = WordsCounted(d, 0) \ {w},
                   WordsCounted(d', 1) = WordsCounted(d, 1) \cup {w}
            PROVE  Learned!Learns(old, new)
        <5>1. new = [seen |-> old.seen \ {w}, known |-> old.known \cup {w}]
          BY <3>2, <4>2
        <5>2. QED
          BY <3>2, <5>1 DEF Learned!Learns
      <4>3. QED
        BY <4>1, <4>2 DEF Learning
    <3>5. QED
      BY <3>1, <3>3, <3>4 DEF Learned!Next
  <2>3. QED
    BY <2>1, <2>2
<1>3. QED
  BY <1>1, <1>2, TrieSound, PTL DEF Spec, WordsAreIndependent, Learned!Spec
=============================================================================
