--------------------------- MODULE LmContext_proofs ---------------------------
(***************************************************************************)
(* Proofs about the cached context of the transformer.                     *)
(*                                                                         *)
(* Bottom up: sequences and their beginnings; what the operations of the   *)
(* key-value cache (decoding a batch, removing and copying cells) do to    *)
(* the text that sequence 0 holds; the hypotheses and the sequences they   *)
(* are given; then one lemma for each action, first for types (TypeInv),   *)
(* then for what the cache holds (CacheInv).                               *)
(*                                                                         *)
(* CacheInv says what each stage of a request knows: before it, that the   *)
(* cache holds active_context and past_mixes; after the prompt, the prompt *)
(* and, where it has not changed, the mixes behind it; while sampling,     *)
(* the whole text of the request, which the sequences of the hypotheses    *)
(* may share but never take away from sequence 0.                          *)
(***************************************************************************)
EXTENDS LmContext, SequenceTheorems, FiniteSetTheorems, WellFoundedInduction, TLAPS

----------------------------------------------------------------------------
(* Beginnings of sequences, least and greatest numbers. *)

Upto(s, n) == SubSeq(s, 1, n)

LEMMA ConcatFacts ==
    ASSUME NEW S, NEW s \in Seq(S), NEW t \in Seq(S)
    PROVE  s \o t \in Seq(S) /\ Len(s \o t) = Len(s) + Len(t) /\ Len(s) \in Nat /\ Len(t) \in Nat
OBVIOUS

LEMMA ConcatAssoc ==
    ASSUME NEW S, NEW s \in Seq(S), NEW t \in Seq(S), NEW v \in Seq(S)
    PROVE  (s \o t) \o v = s \o (t \o v)
BY ConcatAssociative

LEMMA UptoFacts ==
    ASSUME NEW S, NEW s \in Seq(S), NEW n \in 0..Len(s)
    PROVE  /\ Upto(s, n) \in Seq(S) /\ Len(Upto(s, n)) = n
           /\ \A i \in 1..n : Upto(s, n)[i] = s[i]
<1>1. \A i \in 1..n : s[i] \in S
  OBVIOUS
<1>2. QED
  BY <1>1, SubSeqProperties DEF Upto

LEMMA UptoWhole ==
    ASSUME NEW S, NEW s \in Seq(S)
    PROVE  Upto(s, Len(s)) = s /\ Upto(s, 0) = << >>
BY SubSeqFull, SubSeqEmpty DEF Upto

LEMMA UptoUpto ==
    ASSUME NEW S, NEW s \in Seq(S), NEW n \in 0..Len(s), NEW k \in 0..n
    PROVE  Upto(Upto(s, n), k) = Upto(s, k)
<1>1. Upto(s, n) \in Seq(S) /\ Len(Upto(s, n)) = n /\ k \in 0..Len(Upto(s, n)) /\ k \in 0..Len(s)
  BY UptoFacts
<1>2. /\ Upto(Upto(s, n), k) \in Seq(S) /\ Upto(s, k) \in Seq(S)
      /\ Len(Upto(Upto(s, n), k)) = k /\ Len(Upto(s, k)) = k
      /\ \A i \in 1..k : Upto(Upto(s, n), k)[i] = Upto(s, k)[i]
  BY <1>1, UptoFacts
<1>3. QED
  BY <1>2, SeqEqual

LEMMA UptoConcat ==
    ASSUME NEW S, NEW s \in Seq(S), NEW t \in Seq(S), NEW k \in 0..Len(s)
    PROVE  Upto(s \o t, k) = Upto(s, k)
<1>1. s \o t \in Seq(S) /\ Len(s \o t) = Len(s) + Len(t) /\ \A i \in 1..Len(s) : (s \o t)[i] = s[i]
  OBVIOUS
<1>2. k \in 0..Len(s \o t)
  BY <1>1
<1>3. /\ Upto(s \o t, k) \in Seq(S) /\ Upto(s, k) \in Seq(S)
      /\ Len(Upto(s \o t, k)) = k /\ Len(Upto(s, k)) = k
      /\ \A i \in 1..k : Upto(s \o t, k)[i] = Upto(s, k)[i]
  <2>1. /\ Upto(s \o t, k) \in Seq(S) /\ Len(Upto(s \o t, k)) = k
        /\ \A i \in 1..k : Upto(s \o t, k)[i] = (s \o t)[i]
    BY <1>1, <1>2, UptoFacts
  <2>2. /\ Upto(s, k) \in Seq(S) /\ Len(Upto(s, k)) = k
        /\ \A i \in 1..k : Upto(s, k)[i] = s[i]
    BY UptoFacts
  <2>3. QED
    BY <1>1, <2>1, <2>2
<1>4. QED
  BY <1>3, SeqEqual

LEMMA UptoBehind ==
    ASSUME NEW S, NEW s \in Seq(S), NEW t \in Seq(S), NEW k \in 0..Len(t)
    PROVE  Upto(s \o t, Len(s) + k) = s \o Upto(t, k)
<1>1. /\ s \o t \in Seq(S) /\ Len(s \o t) = Len(s) + Len(t)
      /\ \A i \in 1..(Len(s) + Len(t)) : (s \o t)[i] = IF i <= Len(s) THEN s[i] ELSE t[i - Len(s)]
  OBVIOUS
<1>2. Len(s) + k \in 0..Len(s \o t)
  BY <1>1
<1>3. Upto(t, k) \in Seq(S) /\ Len(Upto(t, k)) = k /\ \A i \in 1..k : Upto(t, k)[i] = t[i]
  BY UptoFacts
<1>4. /\ s \o Upto(t, k) \in Seq(S) /\ Len(s \o Upto(t, k)) = Len(s) + k
      /\ \A i \in 1..(Len(s) + k) :
           (s \o Upto(t, k))[i] = IF i <= Len(s) THEN s[i] ELSE Upto(t, k)[i - Len(s)]
  BY <1>3
<1>5. /\ Upto(s \o t, Len(s) + k) \in Seq(S) /\ Len(Upto(s \o t, Len(s) + k)) = Len(s) + k
      /\ \A i \in 1..(Len(s) + k) : Upto(s \o t, Len(s) + k)[i] = (s \o t)[i]
  BY <1>1, <1>2, UptoFacts
<1>6. \A i \in 1..(Len(s) + k) : Upto(s \o t, Len(s) + k)[i] = (s \o Upto(t, k))[i]
  <2> SUFFICES ASSUME NEW i \in 1..(Len(s) + k)
               PROVE  Upto(s \o t, Len(s) + k)[i] = (s \o Upto(t, k))[i]
    OBVIOUS
  <2>1. Len(s) \in Nat /\ Len(t) \in Nat /\ k <= Len(t)
    OBVIOUS
  <2>2. i \in 1..(Len(s) + Len(t)) /\ (i <= Len(s) \/ i - Len(s) \in 1..k)
    BY <2>1
  <2>3. QED
    BY <1>1, <1>3, <1>4, <1>5, <2>1, <2>2
<1>7. QED
  BY <1>4, <1>5, <1>6, SeqEqual

LEMMA UptoNext ==
    ASSUME NEW S, NEW s \in Seq(S), NEW n \in 1..Len(s)
    PROVE  Upto(s, n) = Append(Upto(s, n - 1), s[n])
<1>1. n \in 0..Len(s) /\ n - 1 \in 0..Len(s) /\ s[n] \in S
  OBVIOUS
<1>2. /\ Upto(s, n) \in Seq(S) /\ Len(Upto(s, n)) = n /\ \A i \in 1..n : Upto(s, n)[i] = s[i]
      /\ Upto(s, n - 1) \in Seq(S) /\ Len(Upto(s, n - 1)) = n - 1
      /\ \A i \in 1..(n - 1) : Upto(s, n - 1)[i] = s[i]
  BY <1>1, UptoFacts
<1> DEFINE t == Append(Upto(s, n - 1), s[n])
<1>3. /\ t \in Seq(S) /\ Len(t) = n /\ \A i \in 1..(n - 1) : t[i] = s[i]
      /\ t[n] = s[n]
  BY <1>1, <1>2
<1>4. \A i \in 1..n : t[i] = Upto(s, n)[i]
  BY <1>2, <1>3
<1> HIDE DEF t
<1>5. t = Upto(s, n)
  BY <1>2, <1>3, <1>4, SeqEqual
<1>6. QED
  BY <1>5 DEF t

LEMMA NextBehind ==
    ASSUME NEW S, NEW s \in Seq(S), NEW t \in Seq(S), NEW n \in 1..Len(t)
    PROVE  s \o Upto(t, n) = Append(s \o Upto(t, n - 1), t[n])
<1> DEFINE w == s \o t
<1>1. /\ w \in Seq(S) /\ Len(w) = Len(s) + Len(t) /\ w[Len(s) + n] = t[n]
  OBVIOUS
<1>2. Upto(w, Len(s) + n) = s \o Upto(t, n) /\ Upto(w, Len(s) + (n - 1)) = s \o Upto(t, n - 1)
  <2>1. n \in 0..Len(t) /\ n - 1 \in 0..Len(t)
    OBVIOUS
  <2>2. QED
    BY <2>1, UptoBehind
<1> HIDE DEF w
<1>3. Len(s) + n \in 1..Len(w) /\ (Len(s) + n) - 1 = Len(s) + (n - 1)
  BY <1>1
<1>4. Upto(w, Len(s) + n) = Append(Upto(w, Len(s) + (n - 1)), w[Len(s) + n])
  <2> DEFINE m == Len(s) + n
  <2>1. Upto(w, m) = Append(Upto(w, m - 1), w[m])
    BY <1>1, <1>3, UptoNext
  <2>2. QED
    BY <1>3, <2>1
<1>5. QED
  BY <1>1, <1>2, <1>4

\* A sequence is a beginning of it and the rest.
LEMMA UptoAndRest ==
    ASSUME NEW S, NEW s \in Seq(S), NEW n \in 0..Len(s)
    PROVE  /\ SubSeq(s, n + 1, Len(s)) \in Seq(S) /\ Len(SubSeq(s, n + 1, Len(s))) = Len(s) - n
           /\ Upto(s, n) \o SubSeq(s, n + 1, Len(s)) = s
<1>1. \A i \in (n + 1)..Len(s) : s[i] \in S
  OBVIOUS
<1>2. SubSeq(s, n + 1, Len(s)) \in Seq(S) /\ Len(SubSeq(s, n + 1, Len(s))) = Len(s) - n
  BY <1>1, SubSeqProperties
<1>3. /\ 1 \in 1..(Len(s) + 1) /\ n \in (1 - 1)..Len(s) /\ Len(s) \in n..Len(s)
  OBVIOUS
<1>4. SubSeq(s, 1, n) \o SubSeq(s, n + 1, Len(s)) = SubSeq(s, 1, Len(s))
  BY <1>3, ConcatAdjacentSubSeq
<1>5. QED
  BY <1>2, <1>4, UptoWhole DEF Upto

LEMMA MinIn ==
    ASSUME NEW s \in SUBSET Nat, s # {}
    PROVE  Min(s) \in s /\ \A x \in s : Min(s) <= x
<1> DEFINE Less == {ss \in Nat \X Nat : ss[1] < ss[2]}
<1>1. IsWellFoundedOn(Less, Nat)
  BY NatLessThanWellFounded DEF OpToRel
<1>2. \A x, y \in Nat : <<x, y>> \in Less <=> x < y
  OBVIOUS
<1> HIDE DEF Less
<1>3. PICK n \in s : \A m \in s : ~(<<m, n>> \in Less)
  BY <1>1, WFMin
<1>4. n \in s /\ \A m \in s : n <= m
  <2>1. n \in Nat /\ \A m \in s : m \in Nat /\ ~(m < n)
    BY <1>2, <1>3
  <2>2. QED
    BY <2>1
<1>5. QED
  BY <1>4 DEF Min

LEMMA MaxIn ==
    ASSUME NEW n \in Nat, NEW s \in SUBSET (0..n), s # {}
    PROVE  Max(s) \in s /\ \A x \in s : x <= Max(s)
<1> DEFINE left == {n - x : x \in s}
<1>1. left \in SUBSET Nat /\ left # {}
  <2>1. \A x \in s : x \in Nat /\ x <= n /\ n - x \in Nat
    OBVIOUS
  <2>2. PICK x \in s : TRUE
    OBVIOUS
  <2>3. n - x \in left
    OBVIOUS
  <2>4. QED
    BY <2>1, <2>3
<1>2. Min(left) \in left /\ \A x \in left : Min(left) <= x
  BY <1>1, MinIn
<1>3. PICK m \in s : Min(left) = n - m
  BY <1>2
<1>4. \A x \in s : x <= m
  BY <1>2, <1>3
<1>5. m \in s /\ \A x \in s : m >= x
  BY <1>4
<1>6. QED
  BY <1>5 DEF Max

----------------------------------------------------------------------------
(***************************************************************************)
(* The key-value cache.                                                    *)
(***************************************************************************)

Ids == 0..(Results - 1)

\* A cell; where its text is known, it ends with the cell's own token.
Cells == {k \in [seqs : (SUBSET Ids) \ {{}}, pos : Nat, text : Seq(Tokens)] :
            k.text # Garbled => Len(k.text) = k.pos + 1}

\* What is decoded in a batch.
Entries == [seq : Ids, pos : Nat, token : Tokens]

\* The cells of sequence 0, the one of the request, at a position.
At(cells, p) == {i \in DOMAIN cells : 0 \in cells[i].seqs /\ cells[i].pos = p}

\* Sequence 0 begins with the text: one cell for each position, computed over what is
\* before it.
Holds(cells, text) ==
  \A p \in 0..(Len(text) - 1) :
    \E i \in DOMAIN cells : At(cells, p) = {i} /\ cells[i].text = Upto(text, p + 1)

\* Sequence 0 has no cell from a position on.
Ends(cells, n) == \A i \in DOMAIN cells : 0 \in cells[i].seqs => cells[i].pos < n

\* All cells are those of sequence 0 alone.
Own(cells) == \A i \in DOMAIN cells : cells[i].seqs = {0}

\* Every cell below a position is one of sequence 0.
Below(cells, n) == \A i \in DOMAIN cells : cells[i].pos < n => 0 \in cells[i].seqs

LEMMA IdsAre == 0 \in Ids /\ Results \in Nat \ {0} /\ Ids \subseteq Nat
BY LmAssumption DEF Ids

LEMMA CellIs ==
    ASSUME NEW k, k \in Cells
    PROVE  /\ k = [seqs |-> k.seqs, pos |-> k.pos, text |-> k.text]
           /\ k.seqs \in SUBSET Ids /\ k.seqs # {} /\ k.pos \in Nat /\ k.text \in Seq(Tokens)
           /\ k.text # Garbled => Len(k.text) = k.pos + 1
BY DEF Cells

LEMMA HoldsUpto ==
    ASSUME NEW cells, NEW T \in Seq(Tokens), NEW n \in 0..Len(T), Holds(cells, T)
    PROVE  Holds(cells, Upto(T, n))
<1>1. Len(Upto(T, n)) = n
  BY UptoFacts
<1>2. ASSUME NEW p \in 0..(n - 1)
      PROVE  \E i \in DOMAIN cells : /\ At(cells, p) = {i}
                                     /\ cells[i].text = Upto(Upto(T, n), p + 1)
  <2>1. p \in 0..(Len(T) - 1) /\ p + 1 \in 0..n
    OBVIOUS
  <2>2. Upto(Upto(T, n), p + 1) = Upto(T, p + 1)
    BY <2>1, UptoUpto
  <2>3. QED
    BY <2>1, <2>2 DEF Holds
<1>3. QED
  BY <1>1, <1>2 DEF Holds

\* The cells that hold a text form it, and no other of its length.
LEMMA HoldsForms ==
    ASSUME NEW cells \in Seq(Cells), NEW T \in Seq(Tokens), NEW n \in Nat, Len(T) <= n + 1,
           Holds(cells, T), \A i \in Seen(cells, 0, n) : cells[i].pos < Len(T)
    PROVE  Form(cells, Seen(cells, 0, n), T)
<1> DEFINE seen == Seen(cells, 0, n)
<1>1. Len(T) \in Nat
  OBVIOUS
<1>2. \A i \in seen : /\ i \in DOMAIN cells /\ cells[i] \in Cells
                      /\ cells[i].pos \in 0..(Len(T) - 1) /\ i \in At(cells, cells[i].pos)
  <2> SUFFICES ASSUME NEW i \in seen
               PROVE  /\ i \in DOMAIN cells /\ cells[i] \in Cells
                      /\ cells[i].pos \in 0..(Len(T) - 1) /\ i \in At(cells, cells[i].pos)
    OBVIOUS
  <2>1. i \in DOMAIN cells /\ 0 \in cells[i].seqs /\ cells[i].pos < Len(T)
    BY DEF Seen
  <2>2. cells[i] \in Cells
    BY <2>1
  <2>3. cells[i].pos \in Nat
    BY <2>2, CellIs
  <2>4. QED
    BY <1>1, <2>1, <2>2, <2>3 DEF At
<1>3. \A p \in 0..(Len(T) - 1) : \E i \in seen : cells[i].pos = p
  <2> SUFFICES ASSUME NEW p \in 0..(Len(T) - 1) PROVE \E i \in seen : cells[i].pos = p
    OBVIOUS
  <2>1. PICK i \in DOMAIN cells : At(cells, p) = {i}
    BY DEF Holds
  <2>2. i \in At(cells, p)
    BY <2>1
  <2>3. 0 \in cells[i].seqs /\ cells[i].pos = p /\ p <= n
    BY <1>1, <2>2 DEF At
  <2>4. QED
    BY <2>3 DEF Seen
<1>4. \A i \in seen : cells[i].text = SubSeq(T, 1, cells[i].pos + 1)
  BY <1>2 DEF Holds, Upto
<1>5. \A i, j \in seen : cells[i].pos = cells[j].pos => i = j
  <2> SUFFICES ASSUME NEW i \in seen, NEW j \in seen, cells[i].pos = cells[j].pos
               PROVE  i = j
    OBVIOUS
  <2>1. i \in At(cells, cells[i].pos) /\ j \in At(cells, cells[i].pos)
    BY <1>2
  <2>2. \E k \in DOMAIN cells : At(cells, cells[i].pos) = {k}
    BY <1>2 DEF Holds
  <2>3. QED
    BY <2>1, <2>2
<1>6. {cells[i].pos : i \in seen} = 0..(Len(T) - 1)
  BY <1>2, <1>3
<1>7. QED
  BY <1>4, <1>5, <1>6 DEF Form

LEMMA TextsTyped ==
    ASSUME NEW cells \in Seq(Cells), NEW seq, NEW pos,
           NEW w \in {cells[i].text : i \in Seen(cells, seq, pos)} \cup {<< >>}
    PROVE  w \in Seq(Tokens)
<1>1. CASE w = << >>
  BY <1>1
<1>2. CASE w \in {cells[i].text : i \in Seen(cells, seq, pos)}
  <2>1. PICK i \in Seen(cells, seq, pos) : w = cells[i].text
    BY <1>2
  <2>2. cells[i] \in Cells
    BY DEF Seen
  <2>3. QED
    BY <2>1, <2>2, CellIs
<1>3. QED
  BY <1>1, <1>2

LEMMA ReadsNext ==
    ASSUME NEW cells \in Seq(Cells), NEW T \in Seq(Tokens),
           Holds(cells, T), Ends(cells, Len(T)),
           NEW e, e.seq = 0, e.pos = Len(T)
    PROVE  Reads(cells, e) = Append(T, e.token)
<1> DEFINE n == Len(T)
           seen == Seen(cells, 0, n)
           texts == {cells[i].text : i \in seen} \cup {<< >>}
           whole == {w \in texts : Len(w) = n /\ Form(cells, seen, w)}
<1>1. n \in Nat
  OBVIOUS
<1>2. Form(cells, seen, T)
  <2>1. \A i \in seen : cells[i].pos < n
    BY DEF Ends, Seen
  <2>2. Len(T) <= n + 1
    BY <1>1
  <2> HIDE DEF n
  <2>3. QED
    BY <1>1, <2>1, <2>2, HoldsForms DEF n
<1>3. CASE n = 0
  <2>1. T = << >> /\ whole \subseteq {<< >>}
    <3>1. \A w \in texts : w \in Seq(Tokens)
      BY TextsTyped
    <3>2. QED
      BY <1>3, <3>1
  <2>2. T \in whole
    BY <1>2, <2>1, <1>3
  <2>3. whole = {T}
    BY <2>1, <2>2
  <2>4. QED
    BY <2>3 DEF Reads
<1>4. CASE n # 0
  <2>1. n - 1 \in 0..(Len(T) - 1) /\ (n - 1) + 1 = n
    BY <1>1, <1>4
  <2>2. PICK i \in DOMAIN cells : At(cells, n - 1) = {i} /\ cells[i].text = Upto(T, n)
    BY <2>1 DEF Holds
  <2>3. i \in At(cells, n - 1)
    BY <2>2
  <2>4. i \in seen /\ cells[i].pos = n - 1
    BY <1>1, <2>3 DEF At, Seen
  <2>5. cells[i].text = T
    BY <2>2, UptoWhole
  <2>6. T \in whole
    BY <1>2, <2>4, <2>5
  <2>7. \A w \in whole : w = T
    <3> SUFFICES ASSUME NEW w \in whole PROVE w = T
      OBVIOUS
    <3>1. Len(w) = n /\ Form(cells, seen, w) /\ w \in texts
      OBVIOUS
    <3>2. cells[i].text = SubSeq(w, 1, n)
      <4>1. cells[i].text = SubSeq(w, 1, cells[i].pos + 1)
        BY <2>4, <3>1 DEF Form
      <4>2. QED
        BY <2>1, <2>4, <4>1
    <3>3. w \in Seq(Tokens)
      BY <3>1, TextsTyped
    <3>4. Upto(w, Len(w)) = w
      BY <3>3, UptoWhole
    <3>5. QED
      BY <2>5, <3>1, <3>2, <3>4 DEF Upto
  <2>8. whole = {T}
    BY <2>6, <2>7
  <2>9. QED
    BY <2>8 DEF Reads
<1>5. QED
  BY <1>3, <1>4

LEMMA ReadsTyped ==
    ASSUME NEW cells \in Seq(Cells), NEW e \in Entries
    PROVE  /\ Reads(cells, e) \in Seq(Tokens)
           /\ Reads(cells, e) # Garbled => Len(Reads(cells, e)) = e.pos + 1
<1> DEFINE seen == Seen(cells, e.seq, e.pos)
           texts == {cells[i].text : i \in seen} \cup {<< >>}
           whole == {w \in texts : Len(w) = e.pos /\ Form(cells, seen, w)}
<1>1. e.pos \in Nat /\ e.token \in Tokens
  BY DEF Entries
<1>2. CASE whole = {}
  <2>1. Reads(cells, e) = << >>
    BY <1>2 DEF Reads, Garbled
  <2>2. QED
    BY <2>1 DEF Garbled
<1>3. CASE whole # {}
  <2>1. PICK w \in whole : Reads(cells, e) = Append(w, e.token)
    BY <1>3 DEF Reads
  <2>2. w \in Seq(Tokens) /\ Len(w) = e.pos
    <3>1. w \in texts /\ Len(w) = e.pos
      OBVIOUS
    <3>2. QED
      BY <3>1, TextsTyped
  <2>3. QED
    BY <1>1, <2>1, <2>2
<1>4. QED
  BY <1>2, <1>3

\* The fold of Decode.
NewCell(cs, e) == [seqs |-> {e.seq}, pos |-> e.pos, text |-> Reads(cs, e)]
DecodeStep(cs, e, a, b, c) == Append(cs, NewCell(cs, e))
Decodes == INSTANCE FoldFacts WITH op <- DecodeStep

LEMMA DecodeIsFold ==
    ASSUME NEW cells, NEW batch
    PROVE  Decode(cells, batch) = Decodes!Fold(cells, batch, 0, 0, 0)
BY DEF Decode, FoldLeft, MapThenFoldSet, Max, DecodeStep, NewCell,
       Decodes!Fold, Decodes!Steps, Decodes!Step, Decodes!Max

LEMMA NewCellTyped ==
    ASSUME NEW cells \in Seq(Cells), NEW e \in Entries
    PROVE  /\ NewCell(cells, e) \in Cells
           /\ NewCell(cells, e).seqs = {e.seq} /\ NewCell(cells, e).pos = e.pos
           /\ NewCell(cells, e).text = Reads(cells, e)
<1>1. e.seq \in Ids /\ e.pos \in Nat
  BY DEF Entries
<1>2. {e.seq} \in (SUBSET Ids) \ {{}}
  BY <1>1
<1> DEFINE r == Reads(cells, e)
<1>3. r \in Seq(Tokens) /\ (r # Garbled => Len(r) = e.pos + 1)
  BY ReadsTyped
<1> HIDE DEF r
<1>4. [seqs |-> {e.seq}, pos |-> e.pos, text |-> r] \in Cells
  BY <1>1, <1>2, <1>3 DEF Cells
<1>5. QED
  BY <1>4 DEF NewCell, r

LEMMA DecodeTyped ==
    ASSUME NEW cells \in Seq(Cells), NEW batch \in Seq(Entries)
    PROVE  LET d == Decode(cells, batch)
           IN  /\ d \in Seq(Cells) /\ Len(d) = Len(cells) + Len(batch)
               /\ \A i \in 1..Len(cells) : d[i] = cells[i]
               /\ \A i \in 1..Len(batch) : /\ d[Len(cells) + i].seqs = {batch[i].seq}
                                           /\ d[Len(cells) + i].pos = batch[i].pos
<1> DEFINE Grown(v, n) ==
             /\ Len(v) = Len(cells) + n
             /\ \A i \in 1..Len(cells) : v[i] = cells[i]
             /\ \A i \in 1..n : /\ v[Len(cells) + i].seqs = {batch[i].seq}
                                /\ v[Len(cells) + i].pos = batch[i].pos
           T == [n \in Nat |-> {v \in Seq(Cells) : Grown(v, n)}]
<1>1. cells \in T[0]
  OBVIOUS
<1>2. ASSUME NEW n \in 1..Len(batch), NEW v \in T[n - 1]
      PROVE  DecodeStep(v, batch[n], 0, 0, 0) \in T[n]
  <2> DEFINE k == NewCell(v, batch[n])
  <2>1. n \in Nat /\ n - 1 \in Nat /\ batch[n] \in Entries
    OBVIOUS
  <2>2. v \in Seq(Cells) /\ Grown(v, n - 1)
    BY <2>1
  <2>3. k \in Cells /\ k.seqs = {batch[n].seq} /\ k.pos = batch[n].pos
    BY <2>1, <2>2, NewCellTyped
  <2> HIDE DEF k
  <2>4. /\ Append(v, k) \in Seq(Cells) /\ Len(Append(v, k)) = Len(v) + 1
        /\ \A i \in 1..Len(v) : Append(v, k)[i] = v[i]
        /\ Append(v, k)[Len(v) + 1] = k
    BY <2>2, <2>3
  <2>5. Grown(Append(v, k), n)
    <3>1. Len(cells) \in Nat /\ Len(v) = Len(cells) + (n - 1)
      BY <2>2
    <3>2. \A i \in 1..Len(cells) : Append(v, k)[i] = cells[i]
      BY <2>1, <2>2, <2>4, <3>1
    <3>3. ASSUME NEW i \in 1..n
          PROVE  /\ Append(v, k)[Len(cells) + i].seqs = {batch[i].seq}
                 /\ Append(v, k)[Len(cells) + i].pos = batch[i].pos
      <4>1. CASE i = n
        <5>1. Append(v, k)[Len(cells) + i] = k
          BY <2>1, <2>4, <3>1, <4>1
        <5>2. QED
          BY <2>3, <4>1, <5>1
      <4>2. CASE i # n
        <5>1. i \in 1..(n - 1) /\ Len(cells) + i \in 1..Len(v)
          BY <2>1, <3>1, <4>2
        <5>2. QED
          BY <2>2, <2>4, <5>1
      <4>3. QED
        BY <4>1, <4>2
    <3>4. Len(Append(v, k)) = Len(cells) + n
      BY <2>1, <2>4, <3>1
    <3>5. QED
      BY <3>2, <3>3, <3>4
  <2> HIDE DEF Grown
  <2>6. DecodeStep(v, batch[n], 0, 0, 0) = Append(v, k)
    BY DEF DecodeStep, k
  <2>7. QED
    BY <2>1, <2>4, <2>5, <2>6
<1>3. Decodes!Fold(cells, batch, 0, 0, 0) \in T[Len(batch)]
  <2> HIDE DEF T
  <2>1. QED
    BY <1>1, <1>2, Decodes!FoldInvariant
<1>4. Decode(cells, batch) \in T[Len(batch)] /\ Len(batch) \in Nat
  BY <1>3, DecodeIsFold
<1>5. Decode(cells, batch) \in Seq(Cells) /\ Grown(Decode(cells, batch), Len(batch))
  <2> HIDE DEF Grown
  <2>1. QED
    BY <1>4
<1>6. QED
  BY <1>5

\* A cell behind the text.
LEMMA HoldsNext ==
    ASSUME NEW cells \in Seq(Cells), NEW T \in Seq(Tokens), NEW t \in Tokens,
           Holds(cells, T), Ends(cells, Len(T)),
           NEW k \in Cells, k.seqs = {0}, k.pos = Len(T), k.text = Append(T, t)
    PROVE  Holds(Append(cells, k), Append(T, t)) /\ Ends(Append(cells, k), Len(T) + 1)
<1> DEFINE d == Append(cells, k)
           n == Len(cells)
           W == Append(T, t)
<1>1. /\ n \in Nat /\ Len(T) \in Nat /\ DOMAIN cells = 1..n
      /\ DOMAIN d = 1..(n + 1) /\ d[n + 1] = k /\ \A i \in 1..n : d[i] = cells[i]
  OBVIOUS
<1>2. W \in Seq(Tokens) /\ Len(W) = Len(T) + 1
  OBVIOUS
<1>3. \A i \in 1..n : cells[i].pos \in Nat
  <2>1. \A i \in 1..n : cells[i] \in Cells
    BY <1>1
  <2>2. QED
    BY <2>1, CellIs
<1>4. \A p \in 0..Len(T) : Upto(W, p) = Upto(T, p)
  <2>1. W = T \o <<t>> /\ <<t>> \in Seq(Tokens)
    OBVIOUS
  <2> HIDE DEF W
  <2>2. QED
    BY <2>1, UptoConcat
<1>5. Upto(W, Len(T) + 1) = W
  BY <1>2, UptoWhole
<1> HIDE DEF W, d, n
<1>6. ASSUME NEW p \in 0..(Len(W) - 1)
      PROVE  \E i \in DOMAIN d : At(d, p) = {i} /\ d[i].text = Upto(W, p + 1)
  <2>1. CASE p = Len(T)
    <3>1. \A i \in 1..n : ~(0 \in cells[i].seqs /\ cells[i].pos = p)
      <4> SUFFICES ASSUME NEW i \in 1..n, 0 \in cells[i].seqs PROVE cells[i].pos # p
        OBVIOUS
      <4>1. cells[i].pos \in Nat /\ cells[i].pos < Len(T)
        BY <1>1, <1>3 DEF Ends
      <4>2. QED
        BY <1>1, <2>1, <4>1
    <3>2. \A i \in 1..n : i \notin At(d, p)
      BY <1>1, <3>1 DEF At
    <3>3. n + 1 \in At(d, p) /\ n + 1 \in DOMAIN d
      BY <1>1, <2>1 DEF At
    <3>4. \A i \in At(d, p) : i \in 1..(n + 1)
      BY <1>1 DEF At
    <3>5. At(d, p) = {n + 1}
      BY <1>1, <3>2, <3>3, <3>4
    <3>6. d[n + 1].text = Upto(W, p + 1)
      BY <1>1, <1>5, <2>1 DEF W
    <3>7. QED
      BY <3>3, <3>5, <3>6
  <2>2. CASE p # Len(T)
    <3>1. p \in 0..(Len(T) - 1) /\ p + 1 \in 0..Len(T)
      BY <1>1, <1>2, <2>2
    <3>2. PICK i \in DOMAIN cells : At(cells, p) = {i} /\ cells[i].text = Upto(T, p + 1)
      BY <3>1 DEF Holds
    <3>3. At(d, p) = At(cells, p)
      <4>1. n + 1 \notin At(d, p)
        BY <1>1, <2>2 DEF At
      <4>2. \A j \in 1..n : j \in At(d, p) <=> j \in At(cells, p)
        BY <1>1 DEF At
      <4>3. (\A j \in At(d, p) : j \in 1..(n + 1)) /\ (\A j \in At(cells, p) : j \in 1..n)
        BY <1>1 DEF At
      <4>4. \A j \in 1..(n + 1) : j = n + 1 \/ j \in 1..n
        BY <1>1
      <4>5. (\A j \in At(d, p) : j \in At(cells, p)) /\ (\A j \in At(cells, p) : j \in At(d, p))
        BY <4>1, <4>2, <4>3, <4>4
      <4> HIDE DEF At
      <4>6. QED
        BY <4>5
    <3>4. d[i].text = Upto(W, p + 1) /\ i \in DOMAIN d
      BY <1>1, <1>4, <3>1, <3>2
    <3>5. QED
      BY <3>2, <3>3, <3>4
  <2>3. QED
    BY <2>1, <2>2
<1>7. Ends(d, Len(T) + 1)
  <2> SUFFICES ASSUME NEW i \in DOMAIN d, 0 \in d[i].seqs PROVE d[i].pos < Len(T) + 1
    BY DEF Ends
  <2>1. CASE i = n + 1
    BY <1>1, <2>1
  <2>2. CASE i # n + 1
    <3>1. i \in 1..n /\ d[i] = cells[i] /\ cells[i].pos \in Nat
      BY <1>1, <1>3, <2>2
    <3>2. cells[i].pos < Len(T)
      BY <1>1, <3>1 DEF Ends
    <3>3. QED
      BY <1>1, <3>1, <3>2
  <2>3. QED
    BY <2>1, <2>2
<1>8. QED
  BY <1>6, <1>7 DEF Holds, W, d

LEMMA BatchIs ==
    ASSUME NEW n \in Nat, NEW toks \in Seq(Tokens), NEW seq \in Ids
    PROVE  /\ Batch(seq, n, toks) \in Seq(Entries) /\ Len(Batch(seq, n, toks)) = Len(toks)
           /\ \A i \in 1..Len(toks) :
                /\ Batch(seq, n, toks)[i].seq = seq /\ Batch(seq, n, toks)[i].pos = n + i - 1
                /\ Batch(seq, n, toks)[i].token = toks[i]
<1>1. DOMAIN toks = 1..Len(toks) /\ Len(toks) \in Nat
  OBVIOUS
<1>2. \A i \in 1..Len(toks) : [seq |-> seq, pos |-> n + i - 1, token |-> toks[i]] \in Entries
  BY <1>1 DEF Entries
<1>3. QED
  BY <1>1, <1>2 DEF Batch

\* Decoding behind a text that sequence 0 holds gives the longer text.
LEMMA DecodeHolds ==
    ASSUME NEW cells \in Seq(Cells), NEW T \in Seq(Tokens), NEW toks \in Seq(Tokens),
           Holds(cells, T), Ends(cells, Len(T))
    PROVE  LET d == Decode(cells, Batch(0, Len(T), toks))
           IN  /\ Holds(d, T \o toks) /\ Ends(d, Len(T) + Len(toks))
               /\ toks # << >> => d[Len(d)].text = T \o toks
<1> DEFINE batch == Batch(0, Len(T), toks)
           Text(n) == T \o Upto(toks, n)
           Good(v, n) == /\ Holds(v, Text(n)) /\ Ends(v, Len(T) + n)
                         /\ n > 0 => v[Len(v)].text = Text(n)
           F == [n \in Nat |-> {v \in Seq(Cells) : Good(v, n)}]
<1>1. /\ batch \in Seq(Entries) /\ Len(batch) = Len(toks) /\ Len(toks) \in Nat /\ Len(T) \in Nat
      /\ \A i \in 1..Len(toks) : batch[i].seq = 0 /\ batch[i].pos = Len(T) + i - 1
                                 /\ batch[i].token = toks[i]
  <2>1. Len(T) \in Nat /\ 0 \in Ids
    BY IdsAre
  <2>2. QED
    BY <2>1, BatchIs
<1> HIDE DEF batch
<1>2. \A n \in 0..Len(toks) : Text(n) \in Seq(Tokens) /\ Len(Text(n)) = Len(T) + n
  <2> SUFFICES ASSUME NEW n \in 0..Len(toks)
               PROVE  Text(n) \in Seq(Tokens) /\ Len(Text(n)) = Len(T) + n
    OBVIOUS
  <2>1. Upto(toks, n) \in Seq(Tokens) /\ Len(Upto(toks, n)) = n
    BY UptoFacts
  <2> DEFINE u == Upto(toks, n)
  <2> HIDE DEF u
  <2>2. u \in Seq(Tokens)
    BY <2>1 DEF u
  <2>3. T \o u \in Seq(Tokens) /\ Len(T \o u) = Len(T) + Len(u)
    BY <2>2, ConcatFacts
  <2>4. QED
    BY <2>1, <2>3 DEF u
<1>3. \A n \in 1..Len(toks) : Text(n) = Append(Text(n - 1), toks[n])
  BY NextBehind
<1>4. Text(0) = T /\ Text(Len(toks)) = T \o toks
  <2>1. Upto(toks, 0) = << >> /\ Upto(toks, Len(toks)) = toks
    BY UptoWhole
  <2>2. QED
    BY <2>1
<1> HIDE DEF Text
<1>5. cells \in F[0]
  BY <1>1, <1>4
<1>6. ASSUME NEW n \in 1..Len(batch), NEW v \in F[n - 1]
      PROVE  DecodeStep(v, batch[n], 0, 0, 0) \in F[n]
  <2> DEFINE k == NewCell(v, batch[n])
             W == Text(n - 1)
  <2>1. /\ n \in Nat /\ n - 1 \in Nat /\ n \in 1..Len(toks) /\ n - 1 \in 0..Len(toks)
        /\ batch[n] \in Entries /\ batch[n].seq = 0 /\ batch[n].pos = Len(T) + (n - 1)
        /\ batch[n].token = toks[n] /\ toks[n] \in Tokens
    BY <1>1
  <2>2. v \in Seq(Cells) /\ Holds(v, W) /\ Ends(v, Len(T) + (n - 1))
    BY <2>1
  <2>3. W \in Seq(Tokens) /\ Len(W) = Len(T) + (n - 1) /\ Text(n) = Append(W, toks[n])
    BY <1>2, <1>3, <2>1
  <2> HIDE DEF W
  <2>4. Reads(v, batch[n]) = Append(W, toks[n])
    <3>1. Ends(v, Len(W)) /\ batch[n].pos = Len(W)
      BY <2>1, <2>2, <2>3
    <3>2. Reads(v, batch[n]) = Append(W, batch[n].token)
      BY <2>1, <2>2, <2>3, <3>1, ReadsNext
    <3>3. QED
      BY <2>1, <3>2
  <2>5. k \in Cells /\ k.seqs = {0} /\ k.pos = Len(W) /\ k.text = Append(W, toks[n])
    BY <2>1, <2>2, <2>3, <2>4, NewCellTyped
  <2> HIDE DEF k
  <2>6. Holds(Append(v, k), Append(W, toks[n])) /\ Ends(Append(v, k), Len(W) + 1)
    <3>1. Ends(v, Len(W))
      BY <2>2, <2>3
    <3>2. QED
      BY <2>1, <2>2, <2>3, <2>5, <3>1, HoldsNext
  <2>7. Append(v, k) \in Seq(Cells) /\ Append(v, k)[Len(Append(v, k))] = k
    BY <2>2, <2>5
  <2>8. Len(W) + 1 = Len(T) + n
    BY <1>1, <2>1, <2>3
  <2>9. Good(Append(v, k), n)
    BY <2>3, <2>5, <2>6, <2>7, <2>8
  <2> HIDE DEF Good
  <2>10. DecodeStep(v, batch[n], 0, 0, 0) = Append(v, k)
    BY DEF DecodeStep, k
  <2>11. QED
    BY <2>1, <2>7, <2>9, <2>10
<1>7. Decodes!Fold(cells, batch, 0, 0, 0) \in F[Len(batch)]
  <2> HIDE DEF F
  <2>1. QED
    BY <1>1, <1>5, <1>6, Decodes!FoldInvariant
<1>8. Good(Decode(cells, batch), Len(toks))
  <2> HIDE DEF Good
  <2>1. QED
    BY <1>1, <1>7, DecodeIsFold
<1>9. toks # << >> => Len(toks) > 0
  OBVIOUS
<1>10. QED
  BY <1>4, <1>8, <1>9 DEF batch

\* The fold of SeqRm: the sequences a cell keeps, and the cell that keeps them.
Left(k, seq, from) == IF k.pos >= from THEN k.seqs \ {seq} ELSE k.seqs
Kept(k, seq, from) == [k EXCEPT !.seqs = Left(k, seq, from)]
RmStep(cs, k, seq, from, c) ==
  IF Left(k, seq, from) = {} THEN cs ELSE Append(cs, Kept(k, seq, from))
Rms == INSTANCE FoldFacts WITH op <- RmStep

LEMMA RmIsFold ==
    ASSUME NEW cells, NEW seq, NEW from
    PROVE  SeqRm(cells, seq, from) = Rms!Fold(<< >>, cells, seq, from, 0)
BY DEF SeqRm, FoldLeft, MapThenFoldSet, Max, RmStep, Left, Kept,
       Rms!Fold, Rms!Steps, Rms!Step, Rms!Max

LEMMA KeptTyped ==
    ASSUME NEW k \in Cells, NEW seq, NEW from, Left(k, seq, from) # {}
    PROVE  /\ Kept(k, seq, from) \in Cells /\ Kept(k, seq, from).seqs = Left(k, seq, from)
           /\ Kept(k, seq, from).pos = k.pos /\ Kept(k, seq, from).text = k.text
           /\ Left(k, seq, from) \subseteq k.seqs
<1> DEFINE left == Left(k, seq, from)
<1>1. left \in (SUBSET Ids) \ {{}} /\ left \subseteq k.seqs
  BY CellIs DEF Left
<1> HIDE DEF left
<1>2. [k EXCEPT !.seqs = left] = [seqs |-> left, pos |-> k.pos, text |-> k.text]
  BY CellIs
<1>3. [seqs |-> left, pos |-> k.pos, text |-> k.text] \in Cells
  BY <1>1, CellIs DEF Cells
<1>4. QED
  BY <1>1, <1>2, <1>3 DEF Kept, left

\* The cells that stay are those that keep a sequence, each once, in their order.
From(v, m, cells, n, seq, from) ==
  /\ m \in [1..Len(v) -> 1..n]
  /\ \A i, j \in 1..Len(v) : m[i] = m[j] => i = j
  /\ \A i \in 1..Len(v) : /\ v[i] = Kept(cells[m[i]], seq, from)
                          /\ Left(cells[m[i]], seq, from) # {}
  /\ \A j \in 1..n : Left(cells[j], seq, from) # {} => \E i \in 1..Len(v) : m[i] = j

LEMMA FromNext ==
    ASSUME NEW cells \in Seq(Cells), NEW n \in 1..Len(cells), NEW seq, NEW from,
           NEW v \in Seq(Cells), NEW m, From(v, m, cells, n - 1, seq, from),
           Left(cells[n], seq, from) # {}
    PROVE  \E f : From(Append(v, Kept(cells[n], seq, from)), f, cells, n, seq, from)
<1> DEFINE k == Kept(cells[n], seq, from)
           w == Append(v, k)
           l == Len(v)
           f == [i \in 1..(l + 1) |-> IF i = l + 1 THEN n ELSE m[i]]
<1>1. n \in Nat /\ n >= 1 /\ l \in Nat /\ cells[n] \in Cells
  OBVIOUS
<1>2. k \in Cells
  BY <1>1, KeptTyped
<1> HIDE DEF k
<1>3. Len(w) = l + 1 /\ w[l + 1] = k /\ \A i \in 1..l : w[i] = v[i]
  BY <1>2
<1>4. /\ \A i \in 1..l : m[i] \in 1..(n - 1)
      /\ \A i, j \in 1..l : m[i] = m[j] => i = j
  BY DEF From
<1>5. \A i \in 1..(l + 1) : i = l + 1 \/ i \in 1..l
  BY <1>1
<1>6. f[l + 1] = n /\ \A i \in 1..l : f[i] = m[i]
  BY <1>1
<1>7. f \in [1..(l + 1) -> 1..n]
  <2>1. \A i \in 1..(l + 1) : (IF i = l + 1 THEN n ELSE m[i]) \in 1..n
    BY <1>1, <1>4, <1>5
  <2>2. QED
    BY <2>1
<1> HIDE DEF f, w, l
<1>8. \A i, j \in 1..(l + 1) : f[i] = f[j] => i = j
  <2>1. \A i \in 1..l : f[i] # n
    BY <1>1, <1>4, <1>6
  <2>2. QED
    BY <1>4, <1>5, <1>6, <2>1
<1>9. \A i \in 1..(l + 1) : /\ w[i] = Kept(cells[f[i]], seq, from)
                            /\ Left(cells[f[i]], seq, from) # {}
  BY <1>3, <1>5, <1>6 DEF From, k, l
<1>10. \A j \in 1..n : Left(cells[j], seq, from) # {} => \E i \in 1..(l + 1) : f[i] = j
  <2> SUFFICES ASSUME NEW j \in 1..n, Left(cells[j], seq, from) # {}
               PROVE  \E i \in 1..(l + 1) : f[i] = j
    OBVIOUS
  <2>1. CASE j = n
    <3>1. l + 1 \in 1..(l + 1)
      BY <1>1
    <3>2. QED
      BY <1>6, <2>1, <3>1
  <2>2. CASE j # n
    <3>1. j \in 1..(n - 1)
      BY <1>1, <2>2
    <3>2. PICK i \in 1..l : m[i] = j
      BY <3>1 DEF From, l
    <3>3. i \in 1..(l + 1)
      BY <1>1
    <3>4. QED
      BY <1>6, <3>2, <3>3
  <2>3. QED
    BY <2>1, <2>2
<1>11. From(w, f, cells, n, seq, from)
  BY <1>3, <1>7, <1>8, <1>9, <1>10 DEF From
<1>12. QED
  BY <1>11 DEF w, k

LEMMA RmFacts ==
    ASSUME NEW cells \in Seq(Cells), NEW seq, NEW from
    PROVE  LET r == SeqRm(cells, seq, from)
           IN  /\ r \in Seq(Cells) /\ \E m : From(r, m, cells, Len(cells), seq, from)
               /\ cells # << >> /\ Left(cells[Len(cells)], seq, from) # {} =>
                    r # << >> /\ r[Len(r)] = Kept(cells[Len(cells)], seq, from)
<1> DEFINE Good(v, n) ==
             /\ \E m : From(v, m, cells, n, seq, from)
             /\ n > 0 /\ Left(cells[n], seq, from) # {} =>
                  v # << >> /\ v[Len(v)] = Kept(cells[n], seq, from)
           F == [n \in Nat |-> {v \in Seq(Cells) : Good(v, n)}]
           w == << >>
<1>1. w \in F[0]
  <2>1. From(w, << >>, cells, 0, seq, from)
    BY DEF From
  <2>2. Good(w, 0)
    BY <2>1
  <2> HIDE DEF Good
  <2>3. QED
    BY <2>2
<1> HIDE DEF w
<1>2. ASSUME NEW n \in 1..Len(cells), NEW v \in F[n - 1]
      PROVE  RmStep(v, cells[n], seq, from, 0) \in F[n]
  <2> DEFINE k == Kept(cells[n], seq, from)
  <2>1. n \in Nat /\ n - 1 \in Nat /\ n > 0 /\ cells[n] \in Cells
    OBVIOUS
  <2>2. v \in Seq(Cells) /\ Good(v, n - 1)
    BY <2>1
  <2>3. PICK m : From(v, m, cells, n - 1, seq, from)
    BY <2>2
  <2>4. CASE Left(cells[n], seq, from) = {}
    <3>1. RmStep(v, cells[n], seq, from, 0) = v
      BY <2>4 DEF RmStep
    <3>2. From(v, m, cells, n, seq, from)
      <4>1. m \in [1..Len(v) -> 1..n]
        <5>1. m \in [1..Len(v) -> 1..(n - 1)] /\ \A x \in 1..(n - 1) : x \in 1..n
          BY <2>1, <2>3 DEF From
        <5>2. QED
          BY <5>1
      <4>2. \A j \in 1..n : j = n \/ j \in 1..(n - 1)
        BY <2>1
      <4>3. QED
        BY <2>3, <2>4, <4>1, <4>2 DEF From
    <3>3. Good(v, n)
      BY <2>4, <3>2
    <3> HIDE DEF Good
    <3>4. QED
      BY <2>1, <2>2, <3>1, <3>3
  <2>5. CASE Left(cells[n], seq, from) # {}
    <3>1. RmStep(v, cells[n], seq, from, 0) = Append(v, k)
      BY <2>5 DEF RmStep
    <3>2. k \in Cells
      BY <2>1, <2>5, KeptTyped
    <3>3. \E f : From(Append(v, k), f, cells, n, seq, from)
      BY <2>2, <2>3, <2>5, FromNext
    <3> HIDE DEF k
    <3>4. Append(v, k) \in Seq(Cells) /\ Append(v, k) # << >> /\ Append(v, k)[Len(Append(v, k))] = k
      BY <2>2, <3>2
    <3>5. Good(Append(v, k), n)
      BY <3>3, <3>4 DEF k
    <3> HIDE DEF Good
    <3>6. QED
      BY <2>1, <3>1, <3>4, <3>5
  <2>6. QED
    BY <2>4, <2>5
<1>3. Rms!Fold(w, cells, seq, from, 0) \in F[Len(cells)]
  <2> HIDE DEF F
  <2>1. QED
    BY <1>1, <1>2, Rms!FoldInvariant
<1>4. SeqRm(cells, seq, from) \in Seq(Cells) /\ Good(SeqRm(cells, seq, from), Len(cells))
  <2>1. Len(cells) \in Nat
    OBVIOUS
  <2> HIDE DEF Good
  <2>2. QED
    BY <1>3, <2>1, RmIsFold DEF w
<1>5. cells # << >> => Len(cells) > 0
  OBVIOUS
<1>6. QED
  BY <1>4, <1>5

\* What a cell of the result was before.
LEMMA RmCell ==
    ASSUME NEW cells \in Seq(Cells), NEW seq, NEW from,
           NEW r \in Seq(Cells), NEW m, From(r, m, cells, Len(cells), seq, from),
           NEW i \in DOMAIN r
    PROVE  /\ m[i] \in DOMAIN cells /\ r[i].seqs = Left(cells[m[i]], seq, from) /\ r[i].seqs # {}
           /\ r[i].pos = cells[m[i]].pos /\ r[i].text = cells[m[i]].text
<1>1. i \in 1..Len(r) /\ m[i] \in 1..Len(cells)
  BY DEF From
<1>2. r[i] = Kept(cells[m[i]], seq, from) /\ Left(cells[m[i]], seq, from) # {}
  BY <1>1 DEF From
<1>3. cells[m[i]] \in Cells
  BY <1>1
<1>4. QED
  BY <1>1, <1>2, <1>3, KeptTyped

LEMMA RmHolds ==
    ASSUME NEW cells \in Seq(Cells), NEW T \in Seq(Tokens), Holds(cells, T),
           NEW seq, NEW from \in Nat, seq # 0 \/ from >= Len(T)
    PROVE  Holds(SeqRm(cells, seq, from), T)
<1> DEFINE r == SeqRm(cells, seq, from)
<1>1. PICK m : From(r, m, cells, Len(cells), seq, from)
  BY RmFacts
<1>2. r \in Seq(Cells)
  BY RmFacts
<1> HIDE DEF r
<1> SUFFICES ASSUME NEW p \in 0..(Len(T) - 1)
             PROVE  \E i \in DOMAIN r : At(r, p) = {i} /\ r[i].text = Upto(T, p + 1)
  BY DEF Holds, r
<1>3. PICK j \in DOMAIN cells : At(cells, p) = {j} /\ cells[j].text = Upto(T, p + 1)
  BY DEF Holds
<1>4. 0 \in cells[j].seqs /\ cells[j].pos = p
  <2>1. j \in At(cells, p)
    BY <1>3
  <2>2. QED
    BY <2>1 DEF At
<1>5. 0 \in Left(cells[j], seq, from)
  <2>1. p \in Nat /\ p < Len(T) /\ Len(T) \in Nat
    OBVIOUS
  <2>2. seq # 0 \/ ~(p >= from)
    BY <2>1
  <2>3. QED
    BY <1>4, <2>2 DEF Left
<1>6. PICK i \in DOMAIN r : m[i] = j
  <2>1. j \in 1..Len(cells) /\ Left(cells[j], seq, from) # {} /\ DOMAIN r = 1..Len(r)
    BY <1>2, <1>5
  <2>2. QED
    BY <1>1, <2>1 DEF From
<1>7. \A n \in DOMAIN r : /\ m[n] \in DOMAIN cells /\ r[n].seqs = Left(cells[m[n]], seq, from)
                          /\ r[n].pos = cells[m[n]].pos /\ r[n].text = cells[m[n]].text
  BY <1>1, <1>2, RmCell
<1>8. i \in At(r, p)
  BY <1>4, <1>5, <1>6, <1>7 DEF At
<1>9. ASSUME NEW n \in At(r, p) PROVE n = i
  <2>1. n \in DOMAIN r /\ 0 \in r[n].seqs /\ r[n].pos = p
    BY DEF At
  <2>2. 0 \in cells[m[n]].seqs /\ cells[m[n]].pos = p /\ m[n] \in DOMAIN cells
    BY <1>7, <2>1 DEF Left
  <2>3. m[n] \in At(cells, p)
    BY <2>2 DEF At
  <2>4. m[n] = m[i]
    BY <1>3, <1>6, <2>3
  <2>5. n \in 1..Len(r) /\ i \in 1..Len(r)
    BY <1>2, <2>1
  <2>6. QED
    BY <1>1, <2>4, <2>5 DEF From
<1>10. At(r, p) = {i}
  <2> HIDE DEF At
  <2>1. QED
    BY <1>8, <1>9
<1>11. QED
  BY <1>3, <1>6, <1>7, <1>10

LEMMA RmSeqs ==
    ASSUME NEW cells \in Seq(Cells), NEW seq, NEW S,
           \A i \in DOMAIN cells : cells[i].seqs \subseteq S
    PROVE  LET r == SeqRm(cells, seq, 0)
           IN  \A i \in DOMAIN r : r[i].seqs \subseteq S \ {seq}
<1> DEFINE r == SeqRm(cells, seq, 0)
<1>1. PICK m : From(r, m, cells, Len(cells), seq, 0)
  BY RmFacts
<1>2. r \in Seq(Cells)
  BY RmFacts
<1> HIDE DEF r
<1> SUFFICES ASSUME NEW i \in DOMAIN r PROVE r[i].seqs \subseteq S \ {seq}
  BY DEF r
<1>3. m[i] \in DOMAIN cells /\ r[i].seqs = Left(cells[m[i]], seq, 0)
  BY <1>1, <1>2, RmCell
<1>4. cells[m[i]].pos \in Nat
  BY <1>3, CellIs
<1>5. Left(cells[m[i]], seq, 0) = cells[m[i]].seqs \ {seq}
  BY <1>4 DEF Left
<1>6. QED
  BY <1>3, <1>5

LEMMA RmOwn ==
    ASSUME NEW cells \in Seq(Cells), Own(cells), NEW from \in Nat
    PROVE  Own(SeqRm(cells, 0, from)) /\ Ends(SeqRm(cells, 0, from), from)
<1> DEFINE r == SeqRm(cells, 0, from)
<1>1. PICK m : From(r, m, cells, Len(cells), 0, from)
  BY RmFacts
<1>2. r \in Seq(Cells)
  BY RmFacts
<1> HIDE DEF r
<1>3. ASSUME NEW i \in DOMAIN r PROVE r[i].seqs = {0} /\ r[i].pos < from
  <2>1. /\ m[i] \in DOMAIN cells /\ r[i].seqs = Left(cells[m[i]], 0, from) /\ r[i].seqs # {}
        /\ r[i].pos = cells[m[i]].pos
    BY <1>1, <1>2, RmCell
  <2>2. cells[m[i]].seqs = {0} /\ cells[m[i]].pos \in Nat
    BY <2>1, CellIs DEF Own
  <2>3. ~(cells[m[i]].pos >= from)
    BY <2>1, <2>2 DEF Left
  <2>4. QED
    BY <2>1, <2>2, <2>3 DEF Left
<1>4. QED
  BY <1>3 DEF Own, Ends, r

\* Where the request has the cache for itself, what is kept of a text is ready for the next
\* tokens.
LEMMA RmReady ==
    ASSUME NEW cells \in Seq(Cells), Own(cells), NEW T \in Seq(Tokens), Holds(cells, T)
    PROVE  LET r == SeqRm(cells, 0, Len(T))
           IN  r \in Seq(Cells) /\ Own(r) /\ Holds(r, T) /\ Ends(r, Len(T))
<1>1. Len(T) \in Nat /\ Len(T) >= Len(T)
  OBVIOUS
<1>2. Holds(SeqRm(cells, 0, Len(T)), T)
  BY <1>1, RmHolds
<1>3. SeqRm(cells, 0, Len(T)) \in Seq(Cells)
  BY RmFacts
<1>4. QED
  BY <1>1, <1>2, <1>3, RmOwn

\* A cell that a copy has left alone or given one more sequence.
Copied(new, old, dst) ==
  /\ new.pos = old.pos /\ new.text = old.text
  /\ new.seqs = old.seqs \/ new.seqs = old.seqs \cup {dst}

LEMMA CpCell ==
    ASSUME NEW cells \in Seq(Cells), NEW src, NEW dst \in Ids, NEW below \in Nat,
           NEW i \in DOMAIN cells
    PROVE  /\ SeqCp(cells, src, dst, below)[i] \in Cells
           /\ Copied(SeqCp(cells, src, dst, below)[i], cells[i], dst)
<1> DEFINE k == cells[i]
           s == k.seqs \cup {dst}
           n == SeqCp(cells, src, dst, below)[i]
<1>1. n = k \/ n = [k EXCEPT !.seqs = s]
  BY DEF SeqCp
<1>2. k \in Cells
  OBVIOUS
<1> HIDE DEF k, n
<1>3. s \in (SUBSET Ids) \ {{}}
  BY <1>2, CellIs
<1>4. s = k.seqs \cup {dst}
  OBVIOUS
<1> HIDE DEF s
<1>5. [k EXCEPT !.seqs = s] = [seqs |-> s, pos |-> k.pos, text |-> k.text]
  <2>1. k = [seqs |-> k.seqs, pos |-> k.pos, text |-> k.text]
    BY <1>2, CellIs
  <2>2. QED
    BY <2>1
<1>6. [seqs |-> s, pos |-> k.pos, text |-> k.text] \in Cells
  BY <1>2, <1>3, CellIs DEF Cells
<1>7. /\ n \in Cells /\ n.pos = k.pos /\ n.text = k.text
      /\ n.seqs = k.seqs \/ n.seqs = s
  BY <1>1, <1>2, <1>5, <1>6
<1>8. QED
  BY <1>4, <1>7 DEF n, k, Copied

LEMMA CpTyped ==
    ASSUME NEW cells \in Seq(Cells), NEW src, NEW dst \in Ids, NEW below \in Nat
    PROVE  /\ SeqCp(cells, src, dst, below) \in Seq(Cells)
           /\ DOMAIN SeqCp(cells, src, dst, below) = DOMAIN cells
<1> DEFINE r == SeqCp(cells, src, dst, below)
<1>1. /\ r = [i \in DOMAIN cells |-> r[i]] /\ DOMAIN cells = 1..Len(cells) /\ Len(cells) \in Nat
      /\ DOMAIN r = DOMAIN cells
  BY DEF SeqCp
<1>2. \A i \in DOMAIN cells : r[i] \in Cells
  BY CpCell
<1> HIDE DEF r
<1>3. r \in Seq(Cells)
  BY <1>1, <1>2
<1>4. QED
  BY <1>1, <1>3 DEF r

LEMMA CpHolds ==
    ASSUME NEW cells \in Seq(Cells), NEW src, NEW dst \in Ids, NEW below \in Nat,
           NEW T \in Seq(Tokens), Holds(cells, T), Below(cells, Len(T))
    PROVE  LET r == SeqCp(cells, src, dst, below)
           IN  Holds(r, T) /\ Below(r, Len(T))
<1> DEFINE r == SeqCp(cells, src, dst, below)
<1>1. DOMAIN r = DOMAIN cells /\ \A i \in DOMAIN cells : Copied(r[i], cells[i], dst)
  BY CpTyped, CpCell
<1> HIDE DEF r
<1>2. Below(r, Len(T))
  BY <1>1 DEF Below, Copied
<1>3. ASSUME NEW p \in 0..(Len(T) - 1) PROVE At(r, p) = At(cells, p)
  <2>1. p < Len(T)
    OBVIOUS
  <2>2. \A i \in DOMAIN cells : i \in At(r, p) <=> i \in At(cells, p)
    BY <1>1, <2>1 DEF At, Below, Copied
  <2>3. (\A i \in At(r, p) : i \in DOMAIN cells) /\ \A i \in At(cells, p) : i \in DOMAIN cells
    BY <1>1 DEF At
  <2> HIDE DEF At
  <2>4. QED
    BY <2>2, <2>3
<1>4. Holds(r, T)
  BY <1>1, <1>3 DEF Holds, Copied
<1>5. QED
  BY <1>2, <1>4 DEF r

\* Decoding from a position on leaves alone what is before it.
LEMMA DecodeKeeps ==
    ASSUME NEW cells \in Seq(Cells), NEW batch \in Seq(Entries),
           NEW T \in Seq(Tokens), Holds(cells, T), Below(cells, Len(T)),
           \A i \in DOMAIN batch : batch[i].pos >= Len(T)
    PROVE  LET d == Decode(cells, batch) IN Holds(d, T) /\ Below(d, Len(T))
<1> DEFINE d == Decode(cells, batch)
           n == Len(cells)
<1>1. /\ d \in Seq(Cells) /\ Len(d) = n + Len(batch)
      /\ \A i \in 1..n : d[i] = cells[i]
      /\ \A i \in 1..Len(batch) : d[n + i].pos = batch[i].pos
  BY DecodeTyped
<1> HIDE DEF d
<1>2. /\ n \in Nat /\ Len(batch) \in Nat /\ DOMAIN cells = 1..n /\ DOMAIN d = 1..(n + Len(batch))
      /\ DOMAIN batch = 1..Len(batch)
  BY <1>1
<1>3. \A i \in DOMAIN d : i \notin 1..n => d[i].pos >= Len(T)
  <2> SUFFICES ASSUME NEW i \in DOMAIN d, i \notin 1..n PROVE d[i].pos >= Len(T)
    OBVIOUS
  <2>1. i - n \in 1..Len(batch) /\ n + (i - n) = i
    BY <1>2
  <2>2. QED
    BY <1>1, <1>2, <2>1
<1>4. \A i \in DOMAIN d : d[i].pos \in Nat
  <2>1. \A i \in DOMAIN d : d[i] \in Cells
    BY <1>1
  <2>2. QED
    BY <2>1, CellIs
<1>5. Len(T) \in Nat
  OBVIOUS
<1> HIDE DEF n
<1>6. Below(d, Len(T))
  BY <1>1, <1>2, <1>3, <1>4, <1>5 DEF Below
<1>7. ASSUME NEW p \in 0..(Len(T) - 1) PROVE At(d, p) = At(cells, p)
  <2>1. p < Len(T) /\ p \in Nat
    BY <1>5
  <2>2. \A i \in 1..n : i \in DOMAIN d
    BY <1>2
  <2>3. \A i \in 1..n : i \in At(d, p) <=> i \in At(cells, p)
    BY <1>1, <1>2, <2>2 DEF At
  <2>4. \A i \in At(d, p) : i \in 1..n
    BY <1>3, <1>5, <2>1 DEF At
  <2>5. \A i \in At(cells, p) : i \in 1..n
    BY <1>2 DEF At
  <2> HIDE DEF At
  <2>6. QED
    BY <2>3, <2>4, <2>5
<1>8. Holds(d, T)
  <2>1. \A i \in 1..n : i \in DOMAIN d
    BY <1>2
  <2>2. QED
    BY <1>1, <1>2, <1>7, <2>1 DEF Holds
<1>9. QED
  BY <1>6, <1>8 DEF d

-----------------------------------------------------------------------------
(***************************************************************************)
(* The hypotheses and the sequences they use.                              *)
(***************************************************************************)

Hyps == [tokens : Seq(Vocabulary) \ {<< >>}, id : Ids, score : Seq(Seq(Vocabulary))]

\* Each has a sequence of its own.
Apart(hs) == \A i, j \in DOMAIN hs : hs[i].id = hs[j].id => i = j

LEMMA HypIs ==
    ASSUME NEW h \in Hyps
    PROVE  /\ h = [tokens |-> h.tokens, id |-> h.id, score |-> h.score]
           /\ h.tokens \in Seq(Vocabulary) /\ h.tokens # << >> /\ h.id \in Ids
           /\ h.score \in Seq(Seq(Vocabulary))
           /\ Len(h.tokens) \in Nat \ {0} /\ Last(h.tokens) \in Vocabulary
<1>1. /\ h = [tokens |-> h.tokens, id |-> h.id, score |-> h.score]
      /\ h.tokens \in Seq(Vocabulary) /\ h.tokens # << >> /\ h.id \in Ids
      /\ h.score \in Seq(Seq(Vocabulary))
  BY DEF Hyps
<1> DEFINE t == h.tokens
<1>2. Len(t) \in Nat \ {0} /\ Last(t) \in Vocabulary
  <2>1. t \in Seq(Vocabulary) /\ t # << >>
    BY <1>1
  <2> HIDE DEF t
  <2>2. QED
    BY <2>1 DEF Last
<1>3. QED
  BY <1>1, <1>2

LEMMA IdNumbers ==
    ASSUME NEW q, q = [i \in 1..(Results - 1) |-> i]
    PROVE  /\ q \in Seq(Ids) /\ Len(q) = Results - 1 /\ Results - 1 \in Nat
           /\ \A i \in 1..Len(q) : q[i] = i /\ i # 0
<1>1. Results - 1 \in Nat /\ \A i \in 1..(Results - 1) : i \in Ids /\ i # 0
  BY IdsAre DEF Ids
<1>2. QED
  BY <1>1

\* The copies with which the hypotheses begin.
CpStep(cs, id, below, b, c) == SeqCp(cs, 0, id, below)
Cps == INSTANCE FoldFacts WITH op <- CpStep

CpAll(cells, below) ==
  FoldLeft(LAMBDA cs, id : SeqCp(cs, 0, id, below), cells, [i \in 1..(Results - 1) |-> i])

LEMMA CpAllHolds ==
    ASSUME NEW cells \in Seq(Cells), NEW below \in Nat,
           NEW T \in Seq(Tokens), Holds(cells, T), Below(cells, Len(T))
    PROVE  LET r == CpAll(cells, below)
           IN  r \in Seq(Cells) /\ Holds(r, T) /\ Below(r, Len(T))
<1> DEFINE q == [i \in 1..(Results - 1) |-> i]
           Good(v) == v \in Seq(Cells) /\ Holds(v, T) /\ Below(v, Len(T))
           F == [n \in Nat |-> {v \in Seq(Cells) : Good(v)}]
<1>1. CpAll(cells, below) = Cps!Fold(cells, q, below, 0, 0)
  BY DEF CpAll, FoldLeft, MapThenFoldSet, Max, CpStep, Cps!Fold, Cps!Steps, Cps!Step, Cps!Max
<1>2. q \in Seq(Ids) /\ Len(q) \in Nat
  BY IdNumbers
<1> HIDE DEF q
<1>3. cells \in F[0]
  OBVIOUS
<1>4. ASSUME NEW n \in 1..Len(q), NEW v \in F[n - 1]
      PROVE  CpStep(v, q[n], below, 0, 0) \in F[n]
  <2>1. n \in Nat /\ n - 1 \in Nat /\ q[n] \in Ids
    BY <1>2
  <2>2. Good(v)
    BY <2>1
  <2>3. Good(SeqCp(v, 0, q[n], below))
    BY <2>1, <2>2, CpTyped, CpHolds
  <2>4. QED
    BY <2>1, <2>3 DEF CpStep
<1>5. Cps!Fold(cells, q, below, 0, 0) \in F[Len(q)]
  <2> HIDE DEF F
  <2>1. QED
    BY <1>2, <1>3, <1>4, Cps!FoldInvariant
<1>6. QED
  BY <1>1, <1>2, <1>5

\* The removals with which they end.
RmAllStep(cs, id, a, b, c) == SeqRm(cs, id, 0)
RmAlls == INSTANCE FoldFacts WITH op <- RmAllStep

RmAll(cells) ==
  FoldLeft(LAMBDA cs, id : SeqRm(cs, id, 0), cells, [i \in 1..(Results - 1) |-> i])

LEMMA RmAllHolds ==
    ASSUME NEW cells \in Seq(Cells), NEW T \in Seq(Tokens), Holds(cells, T)
    PROVE  LET r == RmAll(cells) IN r \in Seq(Cells) /\ Holds(r, T) /\ Own(r)
<1> DEFINE q == [i \in 1..(Results - 1) |-> i]
           Among(v, n) == \A i \in DOMAIN v : v[i].seqs \subseteq Ids \ (1..n)
           F == [n \in Nat |-> {v \in Seq(Cells) : Holds(v, T) /\ Among(v, n)}]
<1>1. RmAll(cells) = RmAlls!Fold(cells, q, 0, 0, 0)
  BY DEF RmAll, FoldLeft, MapThenFoldSet, Max, RmAllStep,
         RmAlls!Fold, RmAlls!Steps, RmAlls!Step, RmAlls!Max
<1>2. q \in Seq(Ids) /\ Len(q) = Results - 1 /\ Len(q) \in Nat
      /\ \A i \in 1..Len(q) : q[i] = i /\ i # 0
  BY IdNumbers
<1> HIDE DEF q
<1>3. cells \in F[0]
  <2>1. Among(cells, 0)
    <3>1. \A i \in DOMAIN cells : cells[i] \in Cells
      OBVIOUS
    <3>2. Ids \ (1..0) = Ids
      OBVIOUS
    <3>3. QED
      BY <3>1, <3>2, CellIs
  <2> HIDE DEF Among
  <2>2. QED
    BY <2>1
<1>4. ASSUME NEW n \in 1..Len(q), NEW v \in F[n - 1]
      PROVE  RmAllStep(v, q[n], 0, 0, 0) \in F[n]
  <2> DEFINE r == SeqRm(v, q[n], 0)
  <2>1. n \in Nat /\ n - 1 \in Nat /\ q[n] = n /\ n # 0
    BY <1>2
  <2>2. v \in Seq(Cells) /\ Holds(v, T) /\ Among(v, n - 1)
    BY <2>1
  <2>3. r \in Seq(Cells)
    BY <2>2, RmFacts
  <2>4. Holds(r, T)
    BY <2>1, <2>2, RmHolds
  <2>5. Among(r, n)
    <3> DEFINE S == Ids \ (1..(n - 1))
    <3>1. \A i \in DOMAIN r : r[i].seqs \subseteq S \ {q[n]}
      <4>1. \A i \in DOMAIN v : v[i].seqs \subseteq S
        BY <2>2
      <4> HIDE DEF S
      <4>2. QED
        BY <2>2, <4>1, RmSeqs
    <3>2. S \ {q[n]} = Ids \ (1..n)
      BY <2>1
    <3>3. QED
      BY <3>1, <3>2
  <2> HIDE DEF Among, r
  <2>6. RmAllStep(v, q[n], 0, 0, 0) = r
    BY DEF RmAllStep, r
  <2>7. QED
    BY <2>1, <2>3, <2>4, <2>5, <2>6
<1>5. RmAlls!Fold(cells, q, 0, 0, 0) \in F[Len(q)]
  <2> HIDE DEF F
  <2>1. QED
    BY <1>2, <1>3, <1>4, RmAlls!FoldInvariant
<1> DEFINE r == RmAll(cells)
<1>6. r \in Seq(Cells) /\ Holds(r, T) /\ Among(r, Results - 1)
  <2> HIDE DEF Among
  <2>1. QED
    BY <1>1, <1>2, <1>5
<1> HIDE DEF r
<1>7. Ids \ (1..(Results - 1)) = {0}
  BY IdsAre DEF Ids
<1>8. Own(r)
  <2> SUFFICES ASSUME NEW i \in DOMAIN r PROVE r[i].seqs = {0}
    BY DEF Own
  <2>1. r[i].seqs \subseteq {0}
    BY <1>6, <1>7
  <2>2. r[i] \in Cells
    BY <1>6
  <2>3. r[i].seqs # {}
    BY <2>2, CellIs
  <2>4. QED
    BY <2>1, <2>3
<1>9. QED
  BY <1>6, <1>8 DEF r

\* The hypotheses that have not ended their word.
OpenStep(hs, h, a, b, c) == IF Last(h.tokens) \in Closing THEN hs ELSE Append(hs, h)
Opens == INSTANCE FoldFacts WITH op <- OpenStep

LEMMA UnfinishedFacts ==
    ASSUME hyps \in Seq(Hyps), Apart(hyps)
    PROVE  Unfinished \in Seq(Hyps) /\ Len(Unfinished) <= Len(hyps) /\ Apart(Unfinished)
<1> DEFINE w == << >>
           Good(v, n) == /\ Len(v) <= n /\ Apart(v)
                         /\ \A i \in DOMAIN v : \E j \in 1..n : v[i].id = hyps[j].id
           F == [n \in Nat |-> {v \in Seq(Hyps) : Good(v, n)}]
<1>1. Unfinished = Opens!Fold(w, hyps, 0, 0, 0)
  BY DEF Unfinished, FoldLeft, MapThenFoldSet, Max, OpenStep,
         Opens!Fold, Opens!Steps, Opens!Step, Opens!Max
<1>2. w \in F[0]
  <2>1. w \in Seq(Hyps) /\ Good(w, 0)
    BY DEF Apart
  <2> HIDE DEF Good, w
  <2>2. QED
    BY <2>1
<1> HIDE DEF w
<1>3. ASSUME NEW n \in 1..Len(hyps), NEW v \in F[n - 1]
      PROVE  OpenStep(v, hyps[n], 0, 0, 0) \in F[n]
  <2> DEFINE h == hyps[n]
             x == Append(v, h)
  <2>1. n \in Nat /\ n - 1 \in Nat /\ hyps[n] \in Hyps /\ n \in DOMAIN hyps /\ Len(hyps) \in Nat
    OBVIOUS
  <2>2. v \in Seq(Hyps) /\ Good(v, n - 1)
    BY <2>1
  <2>3. CASE Last(h.tokens) \in Closing
    <3>1. OpenStep(v, h, 0, 0, 0) = v
      BY <2>3 DEF OpenStep
    <3>2. Good(v, n)
      <4>1. \A j \in 1..(n - 1) : j \in 1..n
        BY <2>1
      <4>2. Len(v) <= n
        BY <2>1, <2>2
      <4>3. QED
        BY <2>2, <4>1, <4>2
    <3> HIDE DEF Good
    <3>3. QED
      BY <2>1, <2>2, <3>1, <3>2
  <2>4. CASE Last(h.tokens) \notin Closing
    <3>1. OpenStep(v, h, 0, 0, 0) = x
      BY <2>4 DEF OpenStep
    <3> DEFINE l == Len(v)
    <3>2. /\ l \in Nat /\ l <= n - 1 /\ Len(x) = l + 1 /\ x \in Seq(Hyps)
          /\ x[l + 1] = h /\ \A i \in 1..l : x[i] = v[i]
          /\ DOMAIN x = 1..(l + 1) /\ DOMAIN v = 1..l
      BY <2>1, <2>2
    <3> HIDE DEF x, l
    <3>3. \A i \in 1..(l + 1) : i = l + 1 \/ i \in 1..l
      BY <3>2
    <3>4. \A i \in 1..l : v[i].id # h.id
      <4> SUFFICES ASSUME NEW i \in 1..l PROVE v[i].id # h.id
        OBVIOUS
      <4>1. PICK j \in 1..(n - 1) : v[i].id = hyps[j].id
        BY <2>2, <3>2
      <4>2. j \in DOMAIN hyps /\ j # n
        BY <2>1
      <4>3. QED
        BY <2>1, <4>1, <4>2 DEF Apart
    <3>5. Apart(x)
      BY <2>2, <3>2, <3>3, <3>4 DEF Apart
    <3>6. \A i \in DOMAIN x : \E j \in 1..n : x[i].id = hyps[j].id
      <4>1. (\A j \in 1..(n - 1) : j \in 1..n) /\ n \in 1..n
        BY <2>1
      <4>2. QED
        BY <2>2, <3>2, <3>3, <4>1
    <3>7. Good(x, n)
      BY <2>1, <3>2, <3>5, <3>6
    <3> HIDE DEF Good
    <3>8. QED
      BY <2>1, <3>1, <3>2, <3>7
  <2>5. QED
    BY <2>3, <2>4
<1>4. Opens!Fold(w, hyps, 0, 0, 0) \in F[Len(hyps)]
  <2> HIDE DEF F
  <2>1. QED
    BY <1>2, <1>3, Opens!FoldInvariant
<1>5. Len(hyps) \in Nat
  OBVIOUS
<1>6. QED
  BY <1>1, <1>4, <1>5

\* As long as two hypotheses share a sequence, one is free ("This should never happen").
LEMMA FreeFound ==
    ASSUME NEW hs \in Seq(Hyps), Len(hs) <= Results, NEW i \in DOMAIN hs, Shared(hs, i)
    PROVE  FreeIds(hs) # {} /\ Min(FreeIds(hs)) \in FreeIds(hs)
<1>1. FreeIds(hs) # {}
  <2> SUFFICES ASSUME FreeIds(hs) = {} PROVE FALSE
    OBVIOUS
  <2> DEFINE n == Len(hs)
             D == (1..n) \ {i}
             f == [k \in D |-> hs[k].id]
  <2>1. n \in Nat /\ DOMAIN hs = 1..n /\ i \in 1..n /\ n <= Results
    OBVIOUS
  <2>2. \A k \in 1..n : hs[k].id \in Ids
    <3>1. \A k \in 1..n : hs[k] \in Hyps
      BY <2>1
    <3>2. QED
      BY <3>1, HypIs
  <2>3. \A id \in Ids : \E k \in 1..n : hs[k].id = id
    BY <2>1 DEF FreeIds, Ids
  <2>4. PICK j \in 1..n : j # i /\ hs[j].id = hs[i].id
    BY <2>1 DEF Shared
  <2>5. \A id \in Ids : \E k \in D : f[k] = id
    <3> SUFFICES ASSUME NEW id \in Ids PROVE \E k \in D : f[k] = id
      OBVIOUS
    <3>1. PICK k \in 1..n : hs[k].id = id
      BY <2>3
    <3>2. CASE k = i
      BY <2>4, <3>1, <3>2
    <3>3. CASE k # i
      BY <3>1, <3>3
    <3>4. QED
      BY <3>2, <3>3
  <2>6. f \in [D -> Ids]
    BY <2>2
  <2> HIDE DEF f
  <2>7. f \in Surjection(D, Ids)
    BY <2>5, <2>6 DEF Surjection
  <2> HIDE DEF n
  <2>8. IsFiniteSet(1..n) /\ Cardinality(1..n) = n
    <3>1. 1 \in Int /\ n \in Int /\ (1 > n => n = 0)
      BY <2>1
    <3>2. IsFiniteSet(1..n) /\ Cardinality(1..n) = IF 1 > n THEN 0 ELSE n - 1 + 1
      BY <3>1, FS_Interval
    <3>3. QED
      BY <3>1, <3>2
  <2>9. IsFiniteSet(D) /\ Cardinality(D) = n - 1
    <3> DEFINE S == 1..n
    <3>1. IsFiniteSet(S) /\ Cardinality(S) = n /\ i \in S
      BY <2>1, <2>8
    <3> HIDE DEF S
    <3>2. IsFiniteSet(S \ {i}) /\ Cardinality(S \ {i}) = n - 1
      BY <3>1, FS_RemoveElement
    <3>3. QED
      BY <3>2 DEF S
  <2>10. Cardinality(Ids) = Results
    <3>1. Results \in Nat \ {0} /\ Ids = 0..(Results - 1)
      BY IdsAre DEF Ids
    <3>2. QED
      BY <3>1, FS_Interval
  <2>11. Cardinality(Ids) <= Cardinality(D)
    BY <2>7, <2>9, FS_Surjection
  <2>12. QED
    BY <2>1, <2>9, <2>10, <2>11, IdsAre
<1>2. FreeIds(hs) \in SUBSET Nat
  BY IdsAre DEF FreeIds, Ids
<1>3. QED
  BY <1>1, <1>2, MinIn

\* The fold of Reassign.
GiveFree(a, i, sz) ==
  LET free == Min(FreeIds(a.hyps))
      h == a.hyps[i]
  IN  [hyps |-> [a.hyps EXCEPT ![i].id = free],
       kv |-> SeqCp(a.kv, h.id, free, sz + Len(h.tokens) - 1)]
ReStep(a, i, sz, b, c) == IF Shared(a.hyps, i) THEN GiveFree(a, i, sz) ELSE a
Res == INSTANCE FoldFacts WITH op <- ReStep

LEMMA ReassignIsFold ==
    ASSUME NEW h0
    PROVE  Reassign(h0) = Res!Fold([hyps |-> h0, kv |-> kv], [i \in DOMAIN h0 |-> i], size, 0, 0)
BY DEF Reassign, FoldLeft, MapThenFoldSet, Max, ReStep, GiveFree,
       Res!Fold, Res!Steps, Res!Step, Res!Max

\* The hypothesis that is given a free sequence shares it with no other.
LEMMA GiveFreeApart ==
    ASSUME NEW hs \in Seq(Hyps), Len(hs) <= Results, NEW n \in 1..Len(hs), Shared(hs, n),
           \A i \in 1..(n - 1) : ~Shared(hs, i)
    PROVE  LET new == [hs EXCEPT ![n].id = Min(FreeIds(hs))]
           IN  /\ new \in Seq(Hyps) /\ Len(new) = Len(hs)
               /\ \A i \in 1..n : ~Shared(new, i)
<1> DEFINE free == Min(FreeIds(hs))
           new == [hs EXCEPT ![n].id = free]
           h == hs[n]
           l == Len(hs)
<1>1. n \in Nat /\ l \in Nat /\ n \in DOMAIN hs /\ DOMAIN hs = 1..l /\ h \in Hyps
  OBVIOUS
<1>2. free \in FreeIds(hs)
  BY <1>1, FreeFound
<1>3. free \in Ids /\ \A i \in 1..l : hs[i].id # free
  BY <1>1, <1>2 DEF FreeIds, Ids
<1> HIDE DEF free
<1> DEFINE given == [h EXCEPT !.id = free]
<1>4. given \in Hyps /\ given.id = free
  <2>1. h = [tokens |-> h.tokens, id |-> h.id, score |-> h.score]
    BY <1>1, HypIs
  <2> HIDE DEF h
  <2>2. given = [tokens |-> h.tokens, id |-> free, score |-> h.score]
    BY <2>1
  <2>3. [tokens |-> h.tokens, id |-> free, score |-> h.score] \in Hyps
    <3>1. h.tokens \in Seq(Vocabulary) /\ h.tokens # << >> /\ h.score \in Seq(Seq(Vocabulary))
      BY <1>1, HypIs
    <3>2. QED
      BY <1>3, <3>1 DEF Hyps
  <2>4. QED
    BY <2>2, <2>3
<1>5. new = [hs EXCEPT ![n] = given]
  OBVIOUS
<1> HIDE DEF given, new
<1>6. /\ new \in Seq(Hyps) /\ Len(new) = l /\ DOMAIN new = 1..l
      /\ new[n] = given /\ \A i \in 1..l : i # n => new[i] = hs[i]
  BY <1>1, <1>4, <1>5
<1>7. ASSUME NEW i \in 1..n PROVE ~Shared(new, i)
  <2> SUFFICES ASSUME NEW j \in 1..l, j # i, new[j].id = new[i].id PROVE FALSE
    BY <1>6 DEF Shared
  <2>1. i \in 1..l
    BY <1>1
  <2>2. CASE i = n
    <3>1. new[j] = hs[j] /\ new[i].id = free
      BY <1>4, <1>6, <2>2
    <3>2. QED
      BY <1>3, <3>1
  <2>3. CASE j = n
    <3>1. new[i] = hs[i] /\ new[j].id = free
      BY <1>4, <1>6, <2>1, <2>3
    <3>2. QED
      BY <1>3, <2>1, <3>1
  <2>4. CASE i # n /\ j # n
    <3>1. i \in 1..(n - 1) /\ new[i] = hs[i] /\ new[j] = hs[j]
      BY <1>1, <1>6, <2>1, <2>4
    <3>2. Shared(hs, i)
      BY <1>1, <3>1 DEF Shared
    <3>3. QED
      BY <3>1, <3>2
  <2>5. QED
    BY <2>2, <2>3, <2>4
<1>8. QED
  BY <1>6, <1>7 DEF new, free

LEMMA ReassignFacts ==
    ASSUME NEW h0 \in Seq(Hyps), Len(h0) <= Results, kv \in Seq(Cells), size \in Nat,
           NEW T \in Seq(Tokens), Holds(kv, T), Below(kv, Len(T))
    PROVE  LET r == Reassign(h0)
           IN  /\ r.hyps \in Seq(Hyps) /\ Len(r.hyps) = Len(h0) /\ Apart(r.hyps)
               /\ r.kv \in Seq(Cells) /\ Holds(r.kv, T) /\ Below(r.kv, Len(T))
<1> DEFINE q == [i \in DOMAIN h0 |-> i]
           l == Len(h0)
           w == [hyps |-> h0, kv |-> kv]
           GoodKv(k) == Holds(k, T) /\ Below(k, Len(T))
           GoodHyps(hs, n) == Len(hs) = l /\ \A i \in 1..n : ~Shared(hs, i)
           F == [n \in Nat |-> {a \in [hyps : Seq(Hyps), kv : Seq(Cells)] :
                                  GoodKv(a.kv) /\ GoodHyps(a.hyps, n)}]
<1>1. l \in Nat /\ DOMAIN h0 = 1..l
  OBVIOUS
<1>2. q \in Seq(Nat) /\ Len(q) = l /\ \A i \in 1..l : q[i] = i
  BY <1>1
<1> HIDE DEF q
<1>3. w \in F[0]
  <2>1. GoodKv(w.kv) /\ GoodHyps(w.hyps, 0) /\ w \in [hyps : Seq(Hyps), kv : Seq(Cells)]
    OBVIOUS
  <2> HIDE DEF GoodKv, GoodHyps, w
  <2>2. QED
    BY <2>1
<1>4. ASSUME NEW n \in 1..Len(q), NEW a \in F[n - 1]
      PROVE  ReStep(a, q[n], size, 0, 0) \in F[n]
  <2>1. n \in Nat /\ n - 1 \in Nat /\ q[n] = n /\ n \in 1..l
    BY <1>1, <1>2
  <2>2. /\ a = [hyps |-> a.hyps, kv |-> a.kv] /\ a.hyps \in Seq(Hyps) /\ a.kv \in Seq(Cells)
        /\ GoodKv(a.kv) /\ GoodHyps(a.hyps, n - 1)
    <3> HIDE DEF GoodKv, GoodHyps
    <3>1. QED
      BY <2>1
  <2> DEFINE hs == a.hyps
             k == a.kv
  <2>3. /\ hs \in Seq(Hyps) /\ k \in Seq(Cells) /\ GoodKv(k) /\ Len(hs) = l
        /\ \A i \in 1..(n - 1) : ~Shared(hs, i)
    BY <2>2
  <2> HIDE DEF hs, k
  <2>4. CASE ~Shared(hs, n)
    <3>1. ReStep(a, n, size, 0, 0) = a
      BY <2>4 DEF ReStep, hs
    <3>2. GoodHyps(hs, n)
      <4>1. \A i \in 1..n : i = n \/ i \in 1..(n - 1)
        BY <2>1
      <4>2. QED
        BY <2>3, <2>4, <4>1
    <3> HIDE DEF GoodKv, GoodHyps
    <3>3. QED
      BY <2>1, <2>2, <3>1, <3>2 DEF hs
  <2>5. CASE Shared(hs, n)
    <3> DEFINE free == Min(FreeIds(hs))
               h == hs[n]
               below == size + Len(h.tokens) - 1
               newHyps == [hs EXCEPT ![n].id = free]
               newKv == SeqCp(k, h.id, free, below)
    <3>1. ReStep(a, n, size, 0, 0) = [hyps |-> newHyps, kv |-> newKv]
      BY <2>5 DEF ReStep, GiveFree, hs, k
    <3>2. n \in 1..Len(hs) /\ n \in DOMAIN hs /\ Len(hs) <= Results
      BY <2>1, <2>3
    <3>3. newHyps \in Seq(Hyps) /\ Len(newHyps) = l /\ \A i \in 1..n : ~Shared(newHyps, i)
      BY <2>3, <2>5, <3>2, GiveFreeApart
    <3>4. free \in Ids
      <4>1. free \in FreeIds(hs)
        BY <2>3, <2>5, <3>2, FreeFound
      <4>2. QED
        BY <4>1 DEF FreeIds, Ids
    <3>5. below \in Nat
      <4>1. h \in Hyps
        BY <2>3, <3>2
      <4>2. Len(h.tokens) \in Nat \ {0}
        BY <4>1, HypIs
      <4>3. QED
        BY <4>2
    <3> HIDE DEF free, below, newHyps
    <3>6. newKv \in Seq(Cells) /\ GoodKv(newKv)
      BY <2>3, <3>4, <3>5, CpTyped, CpHolds
    <3>7. GoodHyps(newHyps, n)
      BY <3>3
    <3> HIDE DEF newKv, GoodKv, GoodHyps
    <3>8. QED
      BY <2>1, <3>1, <3>3, <3>6, <3>7
  <2>6. QED
    BY <2>4, <2>5
<1>5. Res!Fold(w, q, size, 0, 0) \in F[Len(q)]
  <2> HIDE DEF F
  <2>1. QED
    BY <1>2, <1>3, <1>4, Res!FoldInvariant
<1> DEFINE r == Reassign(h0)
<1>6. r \in F[l]
  BY <1>2, <1>5, ReassignIsFold DEF q
<1> HIDE DEF r
<1>7. r.hyps \in Seq(Hyps) /\ r.kv \in Seq(Cells) /\ GoodKv(r.kv) /\ GoodHyps(r.hyps, l)
  <2> HIDE DEF GoodKv, GoodHyps
  <2>1. QED
    BY <1>1, <1>6
<1>8. Apart(r.hyps)
  <2>1. DOMAIN r.hyps = 1..l /\ \A i \in 1..l : ~Shared(r.hyps, i)
    BY <1>7
  <2>2. QED
    BY <2>1 DEF Apart, Shared
<1>9. QED
  BY <1>7, <1>8 DEF r

-----------------------------------------------------------------------------
(***************************************************************************)
(* Requests.                                                               *)
(***************************************************************************)

LEMMA SeqOfItsRange ==
    ASSUME NEW S, NEW s \in Seq(S), NEW U, Range(s) \subseteq U
    PROVE  s \in Seq(U)
<1>1. \A i \in 1..Len(s) : s[i] \in U
  BY DEF Range
<1>2. s = [i \in 1..Len(s) |-> s[i]] /\ Len(s) \in Nat
  OBVIOUS
<1>3. QED
  BY <1>1, <1>2

LEMMA TokensAre ==
    /\ \A c \in Contexts : c \in Seq(Tokens) /\ c # << >>
    /\ \A p \in Prompts : p \in Seq(Tokens) /\ p # << >>
    /\ Taps \subseteq Tokens /\ Vocabulary \subseteq Tokens /\ XBC \in Tokens
<1>1. \A p \in Prompts : Range(p) \subseteq Tokens
  BY DEF Tokens
<1>2. ASSUME NEW c \in Contexts
      PROVE  /\ c \in Seq(Tokens) /\ c # << >>
             /\ Append(c, XBU) \in Seq(Tokens) /\ Append(c, XBU) # << >>
  <2>1. c \in Seq(Range(c)) /\ c # << >>
    BY LmAssumption
  <2>2. c \in Prompts /\ Append(c, XBU) \in Prompts
    BY DEF Prompts
  <2>3. c \in Seq(Tokens)
    BY <1>1, <2>1, <2>2, SeqOfItsRange
  <2> DEFINE U == Range(c) \cup {XBU}
             d == Append(c, XBU)
  <2>4. c \in Seq(U) /\ XBU \in U
    BY <2>1, SeqOfItsRange
  <2> HIDE DEF U
  <2>5. d \in Seq(U) /\ d # << >>
    BY <2>4, AppendProperties
  <2> HIDE DEF d
  <2>6. d \in Seq(Tokens)
    BY <1>1, <2>2, <2>5, SeqOfItsRange DEF d
  <2>7. QED
    BY <2>1, <2>3, <2>5, <2>6 DEF d
<1>3. \A p \in Prompts : p \in Contexts \/ \E c \in Contexts : p = Append(c, XBU)
  BY DEF Prompts
<1>4. Taps \subseteq Tokens /\ Vocabulary \subseteq Tokens /\ XBC \in Tokens
  BY DEF Tokens
<1>5. QED
  BY <1>2, <1>3, <1>4

LEMMA MixesAre ==
    /\ << >> \in Mixes
    /\ \A m \in Mixes : m \in Seq(Tokens) /\ Len(m) \in 0..MaxTaps
<1>1. << >> \in Mixes
  <2>1. 0 \in 0..MaxTaps /\ << >> \in [1..0 -> Taps]
    BY LmAssumption
  <2>2. QED
    BY <2>1 DEF Mixes
<1>2. ASSUME NEW m \in Mixes PROVE m \in Seq(Tokens) /\ Len(m) \in 0..MaxTaps
  <2>1. PICK n \in 0..MaxTaps : m \in [1..n -> Taps]
    BY DEF Mixes
  <2>2. n \in Nat
    BY LmAssumption
  <2>3. m \in [1..n -> Tokens]
    BY <2>1, TokensAre
  <2>4. QED
    BY <2>1, <2>2, <2>3
<1>3. QED
  BY <1>1, <1>2

LEMMA CommonFacts ==
    ASSUME NEW s \in Seq(Tokens), NEW t \in Seq(Tokens)
    PROVE  /\ Common(s, t) \in 0..Len(s) /\ Common(s, t) <= Len(t)
           /\ Upto(s, Common(s, t)) = Upto(t, Common(s, t))
<1> DEFINE S == {n \in 0..Len(s) : n <= Len(t) /\ SubSeq(s, 1, n) = SubSeq(t, 1, n)}
<1>1. Len(s) \in Nat /\ Len(t) \in Nat
  OBVIOUS
<1>2. 0 \in S
  <2>1. SubSeq(s, 1, 0) = << >> /\ SubSeq(t, 1, 0) = << >>
    BY UptoWhole DEF Upto
  <2>2. QED
    BY <1>1, <2>1
<1>3. S \in SUBSET (0..Len(s)) /\ S # {}
  BY <1>2
<1>4. Max(S) \in S
  <2> HIDE DEF S
  <2>1. QED
    BY <1>1, <1>3, MaxIn
<1>5. QED
  BY <1>4 DEF Common, Upto

\* What a request has to decode, behind what is cached.
LEMMA NPastFacts ==
    ASSUME active \in Prompts \cup {<< >>}, request.prompt \in Prompts
    PROVE  /\ active \in Seq(Tokens) /\ request.prompt \in Seq(Tokens)
           /\ NPast \in 0..Len(active) /\ NPast \in 0..Len(request.prompt)
           /\ Upto(active, NPast) = Upto(request.prompt, NPast)
           /\ NewTokens \in Seq(Tokens) /\ Len(NewTokens) = Len(request.prompt) - NPast
           /\ Upto(request.prompt, NPast) \o NewTokens = request.prompt
           /\ NewTokens = << >> => request.mixes # << >> /\ NPast = Len(request.prompt)
<1> DEFINE p == request.prompt
           k == Common(active, p)
<1>1. active \in Seq(Tokens) /\ p \in Seq(Tokens) /\ p # << >>
  <2>1. << >> \in Seq(Tokens)
    OBVIOUS
  <2>2. QED
    BY <2>1, TokensAre
<1> DEFINE none == request.mixes = << >>
<1>2. none \in BOOLEAN
  OBVIOUS
<1>3. NPast = IF none /\ k = Len(p) /\ k > 0 THEN k - 1 ELSE k
  BY DEF NPast, FastForward
<1> HIDE DEF p, none
<1>4. k \in 0..Len(active) /\ k <= Len(p) /\ Upto(active, k) = Upto(p, k)
  BY <1>1, CommonFacts
<1>5. Len(active) \in Nat /\ Len(p) \in Nat /\ Len(p) > 0
  BY <1>1
<1> HIDE DEF k
<1>6. /\ NPast \in 0..k /\ NPast \in 0..Len(active) /\ NPast \in 0..Len(p) /\ k \in 0..Len(p)
      /\ NPast = Len(p) => ~none
  BY <1>2, <1>3, <1>4, <1>5
<1> DEFINE n == NPast
<1> HIDE DEF n
<1>7. Upto(active, n) = Upto(p, n)
  <2>1. n \in 0..k /\ k \in 0..Len(active) /\ k \in 0..Len(p)
    BY <1>4, <1>6 DEF n
  <2>2. Upto(Upto(active, k), n) = Upto(active, n) /\ Upto(Upto(p, k), n) = Upto(p, n)
    BY <1>1, <2>1, UptoUpto
  <2>3. QED
    BY <1>4, <2>2
<1>8. NewTokens = SubSeq(p, n + 1, Len(p))
  BY DEF NewTokens, p, n
<1>9. /\ NewTokens \in Seq(Tokens) /\ Len(NewTokens) = Len(p) - n
      /\ Upto(p, n) \o NewTokens = p
  <2>1. n \in 0..Len(p)
    BY <1>6 DEF n
  <2>2. QED
    BY <1>1, <1>8, <2>1, UptoAndRest
<1>10. NewTokens = << >> => n = Len(p)
  BY <1>5, <1>6, <1>9 DEF n
<1>11. QED
  BY <1>1, <1>6, <1>7, <1>9, <1>10 DEF p, n, none

LEMMA WantedIs ==
    ASSUME request.prompt \in Prompts, request.mixes \in Mixes
    PROVE  /\ Wanted \in Seq(Tokens)
           /\ Len(Wanted) = Len(request.prompt) + Len(request.mixes)
                              + (IF request.mixes = << >> THEN 0 ELSE 1)
           /\ Len(Wanted) \in 0..(Len(request.prompt) + MaxTaps + 1)
           /\ Upto(Wanted, Len(request.prompt) + Len(request.mixes)) = request.prompt \o request.mixes
<1> DEFINE p == request.prompt
           m == request.mixes
           e == IF m = << >> THEN << >> ELSE <<XBC>>
<1>1. /\ p \in Seq(Tokens) /\ m \in Seq(Tokens) /\ Len(m) \in 0..MaxTaps /\ MaxTaps \in Nat
      /\ XBC \in Tokens
  BY TokensAre, MixesAre, LmAssumption
<1>2. Wanted = (p \o m) \o e
  BY DEF Wanted
<1>3. e \in Seq(Tokens) /\ Len(e) = IF m = << >> THEN 0 ELSE 1
  BY <1>1
<1> HIDE DEF p, m, e
<1>4. p \o m \in Seq(Tokens) /\ Len(p \o m) = Len(p) + Len(m) /\ Len(p) \in Nat /\ Len(m) \in Nat
  BY <1>1
<1> DEFINE pm == p \o m
<1> HIDE DEF pm
<1>5. Wanted \in Seq(Tokens) /\ Len(Wanted) = Len(pm) + Len(e) /\ Len(pm) \in 0..Len(pm)
  <2>1. pm \in Seq(Tokens) /\ Wanted = pm \o e
    BY <1>2, <1>4 DEF pm
  <2>2. pm \o e \in Seq(Tokens) /\ Len(pm \o e) = Len(pm) + Len(e) /\ Len(pm) \in Nat
    BY <1>3, <2>1, ConcatFacts
  <2>3. QED
    BY <2>1, <2>2
<1>6. Upto(Wanted, Len(pm)) = pm
  <2>1. Upto(pm \o e, Len(pm)) = Upto(pm, Len(pm)) /\ Upto(pm, Len(pm)) = pm
    BY <1>3, <1>4, <1>5, UptoConcat, UptoWhole DEF pm
  <2>2. QED
    BY <1>2, <2>1 DEF pm
<1>7. Len(Wanted) = Len(p) + Len(m) + (IF m = << >> THEN 0 ELSE 1)
  BY <1>3, <1>4, <1>5 DEF pm
<1>8. Len(Wanted) \in 0..(Len(p) + MaxTaps + 1)
  BY <1>1, <1>4, <1>7
<1>9. QED
  BY <1>4, <1>5, <1>6, <1>7, <1>8 DEF p, m, pm

\* What is decoded behind the prompt: the mixes that are not cached, and XBC.
LEMMA BehindIs ==
    ASSUME request.prompt \in Prompts, request.mixes \in Mixes, pastMixes \in Mixes
    PROVE  LET m == request.mixes
               n == Len(request.prompt) + CachedMixes
               rest == IF m = << >> THEN << >> ELSE SubSeq(m, CachedMixes + 1, Len(m)) \o <<XBC>>
           IN  /\ CachedMixes \in 0..Len(m)
               /\ fed > 0 \/ (CachedMixes \in 0..Len(pastMixes)
                              /\ Upto(pastMixes, CachedMixes) = Upto(m, CachedMixes))
               /\ rest \in Seq(Tokens)
               /\ Len(rest) = IF m = << >> THEN 0 ELSE Len(m) - CachedMixes + 1
               /\ BehindPrompt = Batch(0, n, rest)
               /\ (request.prompt \o Upto(m, CachedMixes)) \o rest = Wanted
<1> DEFINE p == request.prompt
           m == request.mixes
           k == CachedMixes
           end == SubSeq(m, k + 1, Len(m))
           rest == IF m = << >> THEN << >> ELSE end \o <<XBC>>
<1>1. /\ p \in Seq(Tokens) /\ m \in Seq(Tokens) /\ pastMixes \in Seq(Tokens) /\ XBC \in Tokens
  BY TokensAre, MixesAre
<1>2. k = IF fed > 0 THEN 0 ELSE Common(pastMixes, m)
  BY DEF CachedMixes
<1>3. k \in 0..Len(m) /\ (fed > 0 \/ (k \in 0..Len(pastMixes) /\ Upto(pastMixes, k) = Upto(m, k)))
  <2>1. Len(m) \in Nat
    BY <1>1
  <2>2. CASE fed > 0
    BY <1>2, <2>1, <2>2
  <2>3. CASE ~(fed > 0)
    <3> DEFINE c == Common(pastMixes, m)
    <3>1. c \in 0..Len(pastMixes) /\ c <= Len(m) /\ Upto(pastMixes, c) = Upto(m, c)
      BY <1>1, CommonFacts
    <3>2. k = c
      BY <1>2, <2>3
    <3> HIDE DEF c, k
    <3>3. QED
      BY <2>1, <3>1, <3>2
  <2>4. QED
    BY <2>2, <2>3
<1>4. BehindPrompt = IF m = << >> THEN << >> ELSE Batch(0, Len(p) + k, end \o <<XBC>>)
  BY DEF BehindPrompt
<1>5. Wanted = (p \o m) \o (IF m = << >> THEN << >> ELSE <<XBC>>)
  BY DEF Wanted
<1> HIDE DEF k, p, m
<1>6. end \in Seq(Tokens) /\ Len(end) = Len(m) - k /\ Upto(m, k) \o end = m
  BY <1>1, <1>3, UptoAndRest
<1> HIDE DEF end
<1>7. rest \in Seq(Tokens) /\ Len(rest) = IF m = << >> THEN 0 ELSE Len(m) - k + 1
  <2>1. CASE m = << >>
    BY <2>1
  <2>2. CASE m # << >>
    BY <1>1, <1>6, <2>2
  <2>3. QED
    BY <2>1, <2>2
<1>8. BehindPrompt = Batch(0, Len(p) + k, rest)
  <2>1. CASE m = << >>
    <3>1. DOMAIN << >> = {} /\ \A i \in {} : FALSE
      OBVIOUS
    <3>2. Batch(0, Len(p) + k, << >>) = << >>
      BY <3>1 DEF Batch
    <3>3. QED
      BY <1>4, <2>1, <3>2
  <2>2. CASE m # << >>
    BY <1>4, <2>2
  <2>3. QED
    BY <2>1, <2>2
<1>9. (p \o Upto(m, k)) \o rest = Wanted
  <2> DEFINE u == Upto(m, k)
  <2>1. u \in Seq(Tokens)
    BY <1>1, <1>3, UptoFacts
  <2>2. u \o end = m
    BY <1>6
  <2> HIDE DEF u
  <2>3. CASE m = << >>
    <3>1. Len(u) = 0 /\ Len(m) = 0
      <4>1. k = 0 /\ Len(m) = 0
        BY <1>3, <2>3
      <4>2. Len(Upto(m, k)) = k
        BY <1>1, <1>3, UptoFacts
      <4>3. QED
        BY <4>1, <4>2 DEF u
    <3>2. u = << >>
      BY <2>1, <3>1
    <3>3. QED
      BY <1>5, <2>3, <3>2 DEF u
  <2>4. CASE m # << >>
    <3> DEFINE x == <<XBC>>
    <3>1. x \in Seq(Tokens)
      BY <1>1
    <3> HIDE DEF x
    <3>2. (p \o u) \o (end \o x) = ((p \o u) \o end) \o x
      <4> DEFINE pu == p \o u
      <4>1. pu \in Seq(Tokens)
        <5>1. p \in Seq(Tokens)
          BY <1>1
        <5>2. QED
          BY <2>1, <5>1, ConcatFacts
      <4> HIDE DEF pu
      <4>2. end \in Seq(Tokens)
        BY <1>6
      <4>3. (pu \o end) \o x = pu \o (end \o x)
        BY <3>1, <4>1, <4>2, ConcatAssoc
      <4>4. QED
        BY <4>3 DEF pu
    <3>3. (p \o u) \o end = p \o (u \o end)
      <4>1. p \in Seq(Tokens) /\ end \in Seq(Tokens)
        BY <1>1, <1>6
      <4>2. QED
        BY <2>1, <4>1, ConcatAssoc
    <3>4. QED
      BY <1>5, <2>2, <2>4, <3>2, <3>3 DEF u, x
  <2>5. QED
    BY <2>3, <2>4
<1>10. QED
  BY <1>3, <1>7, <1>8, <1>9 DEF p, m, k, end

\* The last cell decoded stays when what follows the text is removed.
LEMMA LastStays ==
    ASSUME request.prompt \in Prompts, request.mixes \in Mixes, pastMixes \in Mixes,
           kv \in Seq(Cells)
    PROVE  LET d == Decode(KeptForMixes, BehindPrompt)
               r == SeqRm(d, 0, Len(Wanted))
           IN  /\ KeptForMixes \in Seq(Cells) /\ BehindPrompt \in Seq(Entries)
               /\ d \in Seq(Cells) /\ r \in Seq(Cells)
               /\ request.mixes # << >> =>
                    d # << >> /\ r # << >> /\ Last(r).text = d[Len(d)].text
<1> DEFINE m == request.mixes
           l == Len(request.prompt)
           k == CachedMixes
           rest == IF m = << >> THEN << >> ELSE SubSeq(m, k + 1, Len(m)) \o <<XBC>>
           d == Decode(KeptForMixes, BehindPrompt)
           r == SeqRm(d, 0, Len(Wanted))
<1>1. /\ k \in 0..Len(m) /\ rest \in Seq(Tokens)
      /\ Len(rest) = (IF m = << >> THEN 0 ELSE Len(m) - k + 1)
      /\ BehindPrompt = Batch(0, l + k, rest)
  BY BehindIs
<1>2. /\ l \in Nat /\ Len(m) \in Nat
      /\ Len(Wanted) = l + Len(m) + (IF m = << >> THEN 0 ELSE 1)
  <2>1. request.prompt \in Seq(Tokens) /\ m \in Seq(Tokens)
    BY TokensAre, MixesAre
  <2>2. l \in Nat /\ Len(m) \in Nat
    BY <2>1
  <2>3. Len(Wanted) = l + Len(m) + (IF m = << >> THEN 0 ELSE 1)
    BY WantedIs
  <2>4. QED
    BY <2>2, <2>3
<1> HIDE DEF m, l, k, rest
<1>3. KeptForMixes \in Seq(Cells)
  BY RmFacts DEF KeptForMixes
<1>4. /\ BehindPrompt \in Seq(Entries) /\ Len(BehindPrompt) = Len(rest)
      /\ \A i \in 1..Len(rest) : BehindPrompt[i].seq = 0 /\ BehindPrompt[i].pos = l + k + i - 1
  <2>1. l + k \in Nat /\ 0 \in Ids
    BY <1>1, <1>2, IdsAre
  <2> DEFINE n == l + k
  <2>2. /\ Batch(0, n, rest) \in Seq(Entries) /\ Len(Batch(0, n, rest)) = Len(rest)
        /\ \A i \in 1..Len(rest) : Batch(0, n, rest)[i].seq = 0
                                   /\ Batch(0, n, rest)[i].pos = n + i - 1
    <3> HIDE DEF n
    <3>1. QED
      BY <1>1, <2>1, BatchIs DEF n
  <2>3. QED
    BY <1>1, <2>2
<1> DEFINE b == Len(KeptForMixes)
<1>5. /\ d \in Seq(Cells) /\ Len(d) = b + Len(rest)
      /\ \A i \in 1..Len(rest) : /\ d[b + i].seqs = {BehindPrompt[i].seq}
                                 /\ d[b + i].pos = BehindPrompt[i].pos
  <2>1. /\ d \in Seq(Cells) /\ Len(d) = b + Len(BehindPrompt)
        /\ \A i \in 1..Len(BehindPrompt) : /\ d[b + i].seqs = {BehindPrompt[i].seq}
                                           /\ d[b + i].pos = BehindPrompt[i].pos
    BY <1>3, <1>4, DecodeTyped
  <2> HIDE DEF d, b
  <2>2. QED
    BY <1>4, <2>1
<1>6. b \in Nat
  BY <1>3
<1> HIDE DEF b, d
<1>7. /\ r \in Seq(Cells)
      /\ d # << >> /\ Left(d[Len(d)], 0, Len(Wanted)) # {} =>
           r # << >> /\ r[Len(r)] = Kept(d[Len(d)], 0, Len(Wanted))
  BY <1>5, RmFacts
<1> HIDE DEF r
<1>8. ASSUME m # << >> PROVE d # << >> /\ r # << >> /\ Last(r).text = d[Len(d)].text
  <2> DEFINE n == Len(rest)
  <2>1. n \in 1..Len(rest) /\ Len(d) = b + n /\ n = Len(m) - k + 1
    BY <1>1, <1>2, <1>5, <1>8
  <2>2. d[Len(d)].seqs = {0} /\ d[Len(d)].pos = l + Len(m) /\ d # << >>
    <3>1. /\ d[b + n].seqs = {BehindPrompt[n].seq} /\ d[b + n].pos = BehindPrompt[n].pos
          /\ BehindPrompt[n].seq = 0 /\ BehindPrompt[n].pos = l + k + n - 1
      BY <1>4, <1>5, <2>1
    <3>2. l + k + n - 1 = l + Len(m)
      <4>1. k \in Nat /\ l \in Nat /\ Len(m) \in Nat /\ n = Len(m) - k + 1
        BY <1>1, <1>2, <2>1
      <4> HIDE DEF n
      <4>2. QED
        BY <4>1
    <3>3. Len(d) # 0
      BY <1>6, <2>1
    <3>4. QED
      BY <2>1, <3>1, <3>2, <3>3
  <2>3. Left(d[Len(d)], 0, Len(Wanted)) # {}
    <3>1. ~(d[Len(d)].pos >= Len(Wanted))
      BY <1>2, <1>8, <2>2
    <3>2. QED
      BY <2>2, <3>1 DEF Left
  <2>4. d[Len(d)] \in Cells
    <3>1. Len(d) \in 1..Len(d)
      BY <1>5, <1>6, <2>1
    <3>2. QED
      BY <1>5, <3>1
  <2>5. QED
    BY <1>7, <2>2, <2>3, <2>4, KeptTyped DEF Last
<1>9. QED
  BY <1>3, <1>4, <1>5, <1>7, <1>8 DEF m, d, r


-----------------------------------------------------------------------------
(***************************************************************************)
(* Types, and that the hypotheses are apart.                               *)
(***************************************************************************)

CacheTyped ==
  /\ kv \in Seq(Cells) /\ logits \in Seq(Tokens)
  /\ active \in Prompts \cup {<< >>} /\ pastMixes \in Mixes
  /\ failures \in 0..MaxFailures /\ spoiled \in BOOLEAN

RequestTyped ==
  /\ pc \in {"idle", "prompt", "mixes", "sample", "round", "extend"}
  /\ request.prompt \in Prompts \cup {<< >>} /\ request.mixes \in Mixes
  /\ pc # "idle" => request.prompt \in Prompts
  /\ request.mixes # << >> => \E c \in Contexts : request.prompt = Append(c, XBU)
  /\ fed \in 0..Len(request.prompt)
  /\ pc = "idle" => fed = 0 /\ size = 0
  /\ (pc = "prompt" /\ fed > 0) => fed < Len(NewTokens)
  /\ size \in 0..(Len(request.prompt) + MaxTaps + 1)

HypsTyped ==
  /\ hyps \in Seq(Hyps) /\ Len(hyps) <= Results /\ Apart(hyps)
  /\ hyps # << >> <=> pc \in {"round", "extend"}

TypeInv == CacheTyped /\ RequestTyped /\ HypsTyped

LEMMA NothingHeld ==
    ASSUME NEW cells \in Seq(Cells)
    PROVE  << >> \in Seq(Tokens) /\ Len(<< >>) = 0 /\ Holds(cells, << >>) /\ Below(cells, 0)
<1>1. \A i \in DOMAIN cells : cells[i].pos \in Nat
  BY CellIs
<1>2. 0..(Len(<< >>) - 1) = {}
  OBVIOUS
<1>3. QED
  BY <1>1, <1>2 DEF Holds, Below

LEMMA NoHyps ==
    ASSUME NEW hs, hs = << >>
    PROVE  hs \in Seq(Hyps) /\ Len(hs) <= Results /\ Apart(hs)
<1>1. hs \in Seq(Hyps) /\ Len(hs) = 0 /\ DOMAIN hs = {}
  OBVIOUS
<1>2. QED
  BY <1>1, IdsAre DEF Apart

LEMMA InitTyped == Init => TypeInv
<1> SUFFICES ASSUME Init PROVE TypeInv
  OBVIOUS
<1>1. CacheTyped
  <2>1. kv \in Seq(Cells) /\ logits \in Seq(Tokens) /\ failures \in 0..MaxFailures
    BY LmAssumption DEF Init, Garbled
  <2>2. QED
    BY <2>1, MixesAre DEF Init, CacheTyped
<1>2. RequestTyped
  <2>1. request.prompt = << >> /\ request.mixes = << >>
    BY DEF Init, NoRequest
  <2>2. fed \in 0..Len(request.prompt) /\ size \in 0..(Len(request.prompt) + MaxTaps + 1)
    BY <2>1, LmAssumption DEF Init
  <2>3. QED
    BY <2>1, <2>2, MixesAre DEF Init, RequestTyped
<1>3. HypsTyped
  BY NoHyps DEF Init, HypsTyped
<1>4. QED
  BY <1>1, <1>2, <1>3 DEF TypeInv

LEMMA ReturnTyped == Return => RequestTyped' /\ HypsTyped'
<1> SUFFICES ASSUME Return PROVE RequestTyped' /\ HypsTyped'
  OBVIOUS
<1>1. RequestTyped'
  <2>1. request'.prompt = << >> /\ request'.mixes = << >>
    BY DEF Return, NoRequest
  <2>2. fed' \in 0..Len(request'.prompt) /\ size' \in 0..(Len(request'.prompt) + MaxTaps + 1)
    BY <2>1, LmAssumption DEF Return
  <2>3. QED
    BY <2>1, <2>2, MixesAre DEF Return, RequestTyped
<1>2. HypsTyped'
  <2>1. hyps' = << >> /\ pc' = "idle"
    BY DEF Return
  <2>2. hyps' \in Seq(Hyps) /\ Len(hyps') <= Results /\ Apart(hyps')
    BY <2>1, NoHyps
  <2>3. QED
    BY <2>1, <2>2 DEF HypsTyped, Apart
<1>3. QED
  BY <1>1, <1>2

\* A request: of a context, or of a context with the mark and the taps behind it.
LEMMA AskedTyped ==
    ASSUME TypeInv, NEW kind, NEW prompt \in Prompts, NEW mixes \in Mixes,
           mixes # << >> => \E c \in Contexts : prompt = Append(c, XBU),
           Asked(kind, prompt, mixes)
    PROVE  TypeInv'
<1>1. CacheTyped'
  BY DEF TypeInv, CacheTyped, Asked, cache
<1>2. RequestTyped'
  <2>1. request'.prompt = prompt /\ request'.mixes = mixes /\ fed' = 0 /\ size' = 0
        /\ pc' = "prompt" /\ pc = "idle"
    BY DEF TypeInv, RequestTyped, Asked
  <2>2. prompt \in Seq(Tokens) /\ Len(prompt) \in Nat
    BY TokensAre
  <2>3. fed' \in 0..Len(request'.prompt)
    BY <2>1, <2>2
  <2>4. size' \in 0..(Len(request'.prompt) + MaxTaps + 1)
    BY <2>1, <2>2, LmAssumption
  <2>5. QED
    BY <2>1, <2>3, <2>4 DEF RequestTyped
<1>3. HypsTyped'
  BY DEF TypeInv, HypsTyped, Asked, Apart
<1>4. QED
  BY <1>1, <1>2, <1>3 DEF TypeInv

LEMMA ReopenTyped == TypeInv /\ Reopen => TypeInv'
<1> SUFFICES ASSUME TypeInv, Reopen PROVE TypeInv'
  OBVIOUS
<1>1. CacheTyped'
  <2>1. kv' \in Seq(Cells) /\ logits' \in Seq(Tokens)
    BY DEF Reopen, Garbled
  <2>2. QED
    BY <2>1, MixesAre DEF TypeInv, CacheTyped, Reopen
<1>2. RequestTyped'
  BY DEF TypeInv, RequestTyped, Reopen
<1>3. HypsTyped'
  BY DEF TypeInv, HypsTyped, Reopen, Apart
<1>4. QED
  BY <1>1, <1>2, <1>3 DEF TypeInv

-----------------------------------------------------------------------------
(* One batch of the prompt. *)

PromptTo == IF fed + NBatch < Len(NewTokens) THEN fed + NBatch ELSE Len(NewTokens)
PromptBatch == SubSeq(NewTokens, fed + 1, PromptTo)
PromptDecoded == Decode(SeqRm(kv, 0, NPast), Batch(0, NPast + fed, PromptBatch))

LEMMA PromptBatchFacts ==
    ASSUME TypeInv, pc = "prompt", NewTokens # << >>
    PROVE  /\ PromptTo \in (fed + 1)..Len(NewTokens) /\ fed \in Nat
           /\ PromptBatch \in Seq(Tokens) /\ PromptBatch # << >>
           /\ fed = 0 /\ PromptTo = Len(NewTokens) => PromptBatch = NewTokens
           /\ SeqRm(kv, 0, NPast) \in Seq(Cells)
           /\ Batch(0, NPast + fed, PromptBatch) \in Seq(Entries)
           /\ \A i \in DOMAIN Batch(0, NPast + fed, PromptBatch) :
                Batch(0, NPast + fed, PromptBatch)[i].seq = 0
           /\ PromptDecoded \in Seq(Cells) /\ PromptDecoded # << >>
           /\ Last(PromptDecoded) = PromptDecoded[Len(PromptDecoded)]
           /\ Last(PromptDecoded).text \in Seq(Tokens)
<1> DEFINE new == NewTokens
           n == NPast
           to == PromptTo
           toks == PromptBatch
           r == SeqRm(kv, 0, n)
           b == Batch(0, n + fed, toks)
           d == PromptDecoded
<1>1. new \in Seq(Tokens) /\ n \in Nat
  <2>1. active \in Prompts \cup {<< >>} /\ request.prompt \in Prompts
    BY DEF TypeInv, CacheTyped, RequestTyped
  <2>2. NewTokens \in Seq(Tokens) /\ NPast \in 0..Len(active)
    BY <2>1, NPastFacts
  <2>3. QED
    BY <2>2
<1>2. fed \in Nat /\ fed < Len(new)
  <2>1. (fed > 0) => fed < Len(NewTokens)
    BY DEF TypeInv, RequestTyped
  <2>2. fed \in 0..Len(request.prompt)
    BY DEF TypeInv, RequestTyped
  <2>3. Len(new) > 0
    BY <1>1
  <2> HIDE DEF new
  <2>4. QED
    BY <2>1, <2>2, <2>3 DEF new
<1>3. to = IF fed + NBatch < Len(new) THEN fed + NBatch ELSE Len(new)
  BY DEF PromptTo
<1>4. toks = SubSeq(new, fed + 1, to)
  BY DEF PromptBatch
<1>5. d = Decode(r, b)
  BY DEF PromptDecoded
<1> HIDE DEF new, n, to, toks
<1>6. to \in (fed + 1)..Len(new)
  <2>1. Len(new) \in Nat /\ NBatch \in Nat \ {0}
    BY <1>1, LmAssumption
  <2>2. QED
    BY <1>2, <1>3, <2>1
<1>7. toks \in Seq(Tokens) /\ Len(toks) = to - fed
  <2>1. fed + 1 \in Nat /\ to \in Nat /\ fed + 1 <= to
    BY <1>2, <1>6
  <2>2. \A i \in (fed + 1)..to : new[i] \in Tokens
    BY <1>1, <1>2, <1>6
  <2>3. SubSeq(new, fed + 1, to) \in Seq(Tokens) /\ Len(SubSeq(new, fed + 1, to)) = to - (fed + 1) + 1
    BY <2>1, <2>2, SubSeqProperties
  <2>4. QED
    BY <1>2, <1>4, <2>1, <2>3
<1>8. toks # << >>
  BY <1>2, <1>6, <1>7
<1>9. fed = 0 /\ to = Len(new) => toks = new
  BY <1>1, <1>4, UptoWhole DEF Upto
<1>10. kv \in Seq(Cells)
  BY DEF TypeInv, CacheTyped
<1>11. r \in Seq(Cells)
  BY <1>10, RmFacts
<1>12. /\ b \in Seq(Entries) /\ Len(b) = Len(toks)
       /\ \A i \in 1..Len(toks) : b[i].seq = 0
  <2> DEFINE nf == n + fed
  <2>1. nf \in Nat /\ 0 \in Ids
    BY <1>1, <1>2, IdsAre
  <2> HIDE DEF nf
  <2>2. /\ Batch(0, nf, toks) \in Seq(Entries) /\ Len(Batch(0, nf, toks)) = Len(toks)
        /\ \A i \in 1..Len(toks) : Batch(0, nf, toks)[i].seq = 0
    BY <1>7, <2>1, BatchIs
  <2>3. QED
    BY <2>2 DEF nf
<1> HIDE DEF b, r, d
<1>13. \A i \in DOMAIN b : b[i].seq = 0
  BY <1>12
<1>14. d \in Seq(Cells) /\ Len(d) = Len(r) + Len(b)
  BY <1>5, <1>11, <1>12, DecodeTyped
<1>15. d # << >> /\ Last(d) = d[Len(d)] /\ d[Len(d)] \in Cells
  <2>1. Len(d) # 0
    BY <1>2, <1>6, <1>7, <1>11, <1>12, <1>14
  <2>2. QED
    BY <1>14, <2>1 DEF Last
<1>16. Last(d).text \in Seq(Tokens)
  BY <1>15, CellIs
<1>17. QED
  BY <1>2, <1>6, <1>7, <1>8, <1>9, <1>11, <1>12, <1>13, <1>14, <1>15, <1>16
     DEF new, n, to, toks, r, b, d

LEMMA PromptStep ==
    ASSUME DecodePrompt
    PROVE  /\ pc = "prompt" /\ NewTokens # << >>
           /\ kv' = PromptDecoded /\ fed' = PromptTo
           /\ active' = (IF PromptTo = Len(NewTokens) THEN request.prompt ELSE active)
           /\ pc' = (IF PromptTo = Len(NewTokens) THEN "mixes" ELSE "prompt")
           /\ logits' = (IF request.mixes = << >> THEN Last(kv').text ELSE logits)
           /\ spoiled' = (spoiled \/ fed > 0)
           /\ UNCHANGED <<pastMixes, request, size, hyps, failures>>
BY DEF DecodePrompt, PromptDecoded, PromptTo, PromptBatch

LEMMA DecodePromptTyped == TypeInv /\ DecodePrompt => TypeInv'
<1> SUFFICES ASSUME TypeInv, DecodePrompt PROVE TypeInv'
  OBVIOUS
<1> USE PromptStep
<1>1. CacheTyped'
  <2>1. kv' \in Seq(Cells) /\ Last(kv').text \in Seq(Tokens)
    BY PromptBatchFacts
  <2>2. logits \in Seq(Tokens) /\ active \in Prompts \cup {<< >>} /\ request.prompt \in Prompts
        /\ pastMixes \in Mixes /\ failures \in 0..MaxFailures
    BY DEF TypeInv, CacheTyped, RequestTyped
  <2>3. QED
    BY <2>1, <2>2 DEF CacheTyped
<1>2. RequestTyped'
  <2>1. /\ request.prompt \in Prompts /\ request.mixes \in Mixes
        /\ request.mixes # << >> => \E c \in Contexts : request.prompt = Append(c, XBU)
        /\ size \in 0..(Len(request.prompt) + MaxTaps + 1)
    BY DEF TypeInv, RequestTyped
  <2>2. PromptTo \in 0..Len(request.prompt)
    <3>1. /\ NPast \in 0..Len(request.prompt) /\ Len(NewTokens) = Len(request.prompt) - NPast
          /\ request.prompt \in Seq(Tokens)
      BY NPastFacts DEF TypeInv, CacheTyped, RequestTyped
    <3>2. PromptTo \in (fed + 1)..Len(NewTokens) /\ fed \in Nat
      BY PromptBatchFacts
    <3> DEFINE l == Len(request.prompt)
    <3>3. l \in Nat
      BY <3>1
    <3> HIDE DEF l
    <3>4. PromptTo \in 0..l
      BY <3>1, <3>2, <3>3 DEF l
    <3>5. QED
      BY <3>4 DEF l
  <2>3. pc' = "prompt" => PromptTo < Len(NewTokens) /\ NewTokens' = NewTokens
    <3>1. PromptTo \in (fed + 1)..Len(NewTokens) /\ fed \in Nat
      BY PromptBatchFacts
    <3>2. pc' = "prompt" => PromptTo # Len(NewTokens) /\ active' = active /\ request' = request
      OBVIOUS
    <3>3. active' = active /\ request' = request => NewTokens' = NewTokens
      BY DEF NewTokens, NPast
    <3>4. PromptTo # Len(NewTokens) => PromptTo < Len(NewTokens)
      BY <3>1
    <3>5. QED
      BY <3>2, <3>3, <3>4
  <2>4. pc' \in {"prompt", "mixes"} /\ fed' = PromptTo /\ request' = request /\ size' = size
    OBVIOUS
  <2>5. QED
    BY <2>1, <2>2, <2>3, <2>4 DEF RequestTyped
<1>3. HypsTyped'
  BY DEF TypeInv, HypsTyped, Apart
<1>4. QED
  BY <1>1, <1>2, <1>3 DEF TypeInv

LEMMA PromptCachedTyped == TypeInv /\ PromptCached => TypeInv'
<1> SUFFICES ASSUME TypeInv, PromptCached PROVE TypeInv'
  OBVIOUS
<1>1. CacheTyped'
  BY DEF TypeInv, CacheTyped, RequestTyped, PromptCached
<1>2. RequestTyped'
  BY DEF TypeInv, RequestTyped, PromptCached
<1>3. HypsTyped'
  BY DEF TypeInv, HypsTyped, PromptCached, Apart
<1>4. QED
  BY <1>1, <1>2, <1>3 DEF TypeInv

LEMMA PromptFailsTyped == TypeInv /\ DecodePromptFails => TypeInv'
<1> SUFFICES ASSUME TypeInv, DecodePromptFails PROVE TypeInv'
  OBVIOUS
<1>1. CacheTyped'
  <2>1. kv' \in Seq(Cells)
    <3>1. kv \in Seq(Cells) /\ kv' = SeqRm(kv, 0, NPast)
      BY DEF TypeInv, CacheTyped, DecodePromptFails
    <3> DEFINE n == NPast
    <3> HIDE DEF n
    <3>2. SeqRm(kv, 0, n) \in Seq(Cells)
      BY <3>1, RmFacts
    <3>3. QED
      BY <3>1, <3>2 DEF n
  <2>2. failures' \in 0..MaxFailures
    BY LmAssumption DEF TypeInv, CacheTyped, DecodePromptFails, Failed
  <2>3. QED
    BY <2>1, <2>2 DEF TypeInv, CacheTyped, DecodePromptFails, Failed
<1>2. RequestTyped'
  <2>1. request.prompt \in Seq(Tokens)
    BY TokensAre DEF TypeInv, RequestTyped, DecodePromptFails
  <2>2. 0 \in 0..(Len(request.prompt) + MaxTaps + 1)
    BY <2>1, LmAssumption
  <2>3. QED
    BY <2>2 DEF TypeInv, RequestTyped, DecodePromptFails, Failed
<1>3. HypsTyped'
  BY DEF TypeInv, HypsTyped, DecodePromptFails, Failed, Apart
<1>4. QED
  BY <1>1, <1>2, <1>3 DEF TypeInv

\* The mixes are decoded: what the request wants is in the cache.
LEMMA DecodeMixesTyped == TypeInv /\ DecodeMixes => TypeInv'
<1> SUFFICES ASSUME TypeInv, DecodeMixes PROVE TypeInv'
  OBVIOUS
<1>1. /\ request.prompt \in Prompts /\ request.mixes \in Mixes /\ pastMixes \in Mixes
      /\ kv \in Seq(Cells) /\ logits \in Seq(Tokens)
  BY DEF TypeInv, CacheTyped, RequestTyped, DecodeMixes
<1>2. /\ pc' = "sample" /\ pastMixes' = request.mixes /\ size' = Len(Wanted)
      /\ kv' = SeqRm(Decode(KeptForMixes, BehindPrompt), 0, Len(Wanted))
      /\ logits' = (IF request.mixes = << >> THEN logits ELSE Last(kv').text)
      /\ UNCHANGED <<active, request, fed, hyps, failures, spoiled>>
  BY DEF DecodeMixes
<1>3. /\ kv' \in Seq(Cells)
      /\ request.mixes # << >> => kv' # << >>
  BY <1>1, <1>2, LastStays
<1>4. CacheTyped'
  <2>1. kv' # << >> => Last(kv').text \in Seq(Tokens)
    <3> SUFFICES ASSUME kv' # << >> PROVE Last(kv').text \in Seq(Tokens)
      OBVIOUS
    <3> DEFINE cells == kv'
    <3>1. cells \in Seq(Cells) /\ cells # << >>
      BY <1>3
    <3> HIDE DEF cells
    <3>2. Last(cells) \in Cells
      BY <3>1 DEF Last
    <3>3. QED
      BY <3>2, CellIs DEF cells
  <2>2. logits' \in Seq(Tokens)
    BY <1>1, <1>2, <1>3, <2>1
  <2>3. active \in Prompts \cup {<< >>} /\ failures \in 0..MaxFailures /\ spoiled \in BOOLEAN
    BY DEF TypeInv, CacheTyped
  <2>4. QED
    BY <1>1, <1>2, <1>3, <2>2, <2>3 DEF CacheTyped
<1>5. RequestTyped'
  <2>1. Len(Wanted) \in 0..(Len(request.prompt) + MaxTaps + 1)
    BY <1>1, WantedIs
  <2>2. QED
    BY <1>2, <2>1 DEF TypeInv, RequestTyped, DecodeMixes
<1>6. HypsTyped'
  BY DEF TypeInv, HypsTyped, DecodeMixes, Apart
<1>7. QED
  BY <1>4, <1>5, <1>6 DEF TypeInv

LEMMA MixesFailTyped ==
    ASSUME TypeInv, NEW n \in Nat, DecodeMixesFails(n)
    PROVE  TypeInv'
<1>1. /\ request.prompt \in Prompts /\ request.mixes \in Mixes /\ pastMixes \in Mixes
      /\ kv \in Seq(Cells)
  BY DEF TypeInv, CacheTyped, RequestTyped, DecodeMixesFails
<1>2. /\ n < Len(BehindPrompt) /\ pastMixes' = request.mixes
      /\ kv' = Decode(KeptForMixes, SubSeq(BehindPrompt, 1, n))
      /\ failures < MaxFailures /\ failures' = failures + 1 /\ spoiled' = TRUE
      /\ size' = 0 /\ pc' = "sample" /\ UNCHANGED <<active, request, fed, logits, hyps>>
  BY DEF DecodeMixesFails, Failed
<1>3. kv' \in Seq(Cells)
  <2> DEFINE k == KeptForMixes
             b == BehindPrompt
  <2>1. k \in Seq(Cells) /\ b \in Seq(Entries)
    BY <1>1, LastStays
  <2>2. kv' = Decode(k, Upto(b, n)) /\ n < Len(b)
    BY <1>2 DEF Upto
  <2> HIDE DEF k, b
  <2>3. n \in 0..Len(b)
    BY <2>1, <2>2
  <2>4. Upto(b, n) \in Seq(Entries)
    BY <2>1, <2>3, UptoFacts
  <2>5. Decode(k, Upto(b, n)) \in Seq(Cells)
    BY <2>1, <2>4, DecodeTyped
  <2>6. QED
    BY <2>2, <2>5
<1>4. CacheTyped'
  <2>1. failures' \in 0..MaxFailures
    BY <1>2, LmAssumption DEF TypeInv, CacheTyped
  <2>2. QED
    BY <1>1, <1>2, <1>3, <2>1 DEF TypeInv, CacheTyped
<1>5. RequestTyped'
  <2>1. request.prompt \in Seq(Tokens)
    BY <1>1, TokensAre
  <2>2. 0 \in 0..(Len(request.prompt) + MaxTaps + 1)
    BY <2>1, LmAssumption
  <2>3. QED
    BY <1>2, <2>2 DEF TypeInv, RequestTyped, DecodeMixesFails
<1>6. HypsTyped'
  BY <1>2 DEF TypeInv, HypsTyped, DecodeMixesFails, Apart
<1>7. QED
  BY <1>4, <1>5, <1>6 DEF TypeInv

-----------------------------------------------------------------------------
(* Sampling: types, and that the hypotheses are apart. *)

\* The request is answered without hypotheses, or given up among them.
LEMMA EndsTyped ==
    TypeInv /\ (LogitsAreNaN \/ ResetCache \/ Rescored \/ HypothesisIsNaN) => TypeInv'
<1> SUFFICES ASSUME TypeInv, LogitsAreNaN \/ ResetCache \/ Rescored \/ HypothesisIsNaN
             PROVE  TypeInv'
  OBVIOUS
<1>1. RequestTyped' /\ HypsTyped'
  BY ReturnTyped DEF LogitsAreNaN, ResetCache, Rescored, HypothesisIsNaN
<1>2. CacheTyped'
  <2>1. CASE LogitsAreNaN \/ Rescored
    BY <2>1 DEF TypeInv, CacheTyped, LogitsAreNaN, Rescored, cache
  <2>2. CASE ResetCache
    <3>1. kv' = << >> /\ spoiled' = FALSE /\ active' = << >>
      BY <2>2 DEF ResetCache
    <3>2. << >> \in Seq(Cells)
      OBVIOUS
    <3>3. QED
      BY <2>2, <3>1, <3>2 DEF TypeInv, CacheTyped, ResetCache
  <2>3. CASE HypothesisIsNaN
    <3>1. failures' \in 0..MaxFailures
      BY <2>3, LmAssumption DEF TypeInv, CacheTyped, HypothesisIsNaN
    <3>2. QED
      BY <2>3, <3>1 DEF TypeInv, CacheTyped, HypothesisIsNaN, cache
  <2>4. QED
    BY <2>1, <2>2, <2>3
<1>3. QED
  BY <1>1, <1>2 DEF TypeInv

\* The first hypotheses are numbered.
LEMMA FirstHyps ==
    ASSUME NEW r \in Rankings(Results)
    PROVE  LET hs == [i \in 1..Results |-> Hypothesis(<<r[i]>>, i - 1, <<<<r[i]>>>>)]
           IN  hs \in Seq(Hyps) /\ Len(hs) = Results /\ Apart(hs) /\ hs # << >>
<1> DEFINE hs == [i \in 1..Results |-> Hypothesis(<<r[i]>>, i - 1, <<<<r[i]>>>>)]
<1>1. ASSUME NEW i \in 1..Results PROVE hs[i] \in Hyps /\ hs[i].id = i - 1
  <2>1. r[i] \in Vocabulary
    BY DEF Rankings
  <2> DEFINE t == <<r[i]>>
  <2>2. t \in Seq(Vocabulary) /\ t # << >>
    BY <2>1
  <2>3. hs[i] = [tokens |-> t, id |-> i - 1, score |-> <<t>>]
    BY DEF Hypothesis
  <2> HIDE DEF t, hs
  <2>4. <<t>> \in Seq(Seq(Vocabulary))
    BY <2>2
  <2>5. i - 1 \in Ids
    BY IdsAre DEF Ids
  <2>6. QED
    BY <2>2, <2>3, <2>4, <2>5 DEF Hyps
<1>2. Results \in Nat \ {0}
  BY IdsAre
<1>3. DOMAIN hs = 1..Results
  OBVIOUS
<1>4. hs \in Seq(Hyps) /\ Len(hs) = Results
  <2>1. hs \in [1..Results -> Hyps]
    BY <1>1
  <2> HIDE DEF hs
  <2>2. QED
    BY <1>2, <2>1
<1> HIDE DEF hs
<1>5. Apart(hs)
  BY <1>1, <1>3 DEF Apart
<1>6. hs # << >>
  BY <1>2, <1>4
<1>7. QED
  BY <1>4, <1>5, <1>6 DEF hs

LEMMA BeginIs ==
    ASSUME NEW r, BeginHypotheses(r)
    PROVE  /\ kv' = CpAll(kv, size) /\ pc' = "round" /\ pc = "sample"
           /\ hyps' = [i \in 1..Results |-> Hypothesis(<<r[i]>>, i - 1, <<<<r[i]>>>>)]
           /\ UNCHANGED <<active, pastMixes, request, fed, size, failures, logits, spoiled>>
BY DEF BeginHypotheses, CpAll, sampled

LEMMA SizeIs == TypeInv => size \in Nat
<1> SUFFICES ASSUME TypeInv PROVE size \in Nat
  OBVIOUS
<1>1. request.prompt \in Prompts \cup {<< >>} /\ size \in 0..(Len(request.prompt) + MaxTaps + 1)
  BY DEF TypeInv, RequestTyped
<1>2. request.prompt \in Seq(Tokens)
  <2> DEFINE p == request.prompt
  <2>1. p \in Prompts \cup {<< >>}
    BY <1>1
  <2> HIDE DEF p
  <2>2. CASE p \in Prompts
    BY <2>2, TokensAre DEF p
  <2>3. CASE p = << >>
    <3>1. p \in Seq(Tokens)
      BY <2>3
    <3>2. QED
      BY <3>1 DEF p
  <2>4. QED
    BY <2>1, <2>2, <2>3
<1>3. QED
  BY <1>1, <1>2, LmAssumption

LEMMA BeginTyped ==
    ASSUME TypeInv, NEW r \in Rankings(Results), BeginHypotheses(r)
    PROVE  TypeInv'
<1>1. kv \in Seq(Cells) /\ size \in Nat
  BY SizeIs DEF TypeInv, CacheTyped
<1>2. CacheTyped'
  <2>1. CpAll(kv, size) \in Seq(Cells)
    BY <1>1, NothingHeld, CpAllHolds
  <2>2. QED
    BY <2>1, BeginIs DEF TypeInv, CacheTyped
<1>3. RequestTyped'
  <2>1. pc' = "round" /\ pc = "sample" /\ UNCHANGED <<request, fed, size>>
    BY BeginIs
  <2>2. QED
    BY <2>1 DEF TypeInv, RequestTyped
<1>4. HypsTyped'
  <2>1. pc' = "round" /\ hyps' \in Seq(Hyps) /\ Len(hyps') = Results /\ Apart(hyps')
        /\ hyps' # << >>
    BY BeginIs, FirstHyps
  <2>2. QED
    BY <2>1, IdsAre DEF HypsTyped, Apart
<1>5. QED
  BY <1>2, <1>3, <1>4 DEF TypeInv

\* The tokens of the hypotheses that go on, each in its own sequence.
NextTokens ==
  [i \in DOMAIN Unfinished |->
     [seq |-> Unfinished[i].id, pos |-> size + Len(Unfinished[i].tokens) - 1,
      token |-> Last(Unfinished[i].tokens)]]

LEMMA NextTokensTyped ==
    ASSUME TypeInv
    PROVE  NextTokens \in Seq(Entries) /\ \A i \in DOMAIN NextTokens : NextTokens[i].pos >= size
<1> DEFINE hs == Unfinished
<1>1. hs \in Seq(Hyps) /\ size \in Nat
  BY UnfinishedFacts, SizeIs DEF TypeInv, HypsTyped
<1>2. NextTokens = [i \in DOMAIN hs |-> [seq |-> hs[i].id, pos |-> size + Len(hs[i].tokens) - 1,
                                          token |-> Last(hs[i].tokens)]]
  BY DEF NextTokens
<1> HIDE DEF hs
<1>3. \A i \in DOMAIN hs : NextTokens[i] \in Entries /\ NextTokens[i].pos >= size
  <2> SUFFICES ASSUME NEW i \in DOMAIN hs
               PROVE  NextTokens[i] \in Entries /\ NextTokens[i].pos >= size
    OBVIOUS
  <2> DEFINE h == hs[i]
             l == Len(h.tokens)
             p == size + l - 1
             t == Last(h.tokens)
             id == h.id
  <2>1. h \in Hyps
    BY <1>1
  <2>2. id \in Ids /\ l \in Nat \ {0} /\ t \in Vocabulary
    BY <2>1, HypIs
  <2>3. NextTokens[i] = [seq |-> id, pos |-> p, token |-> t]
    BY <1>2
  <2>4. p \in Nat /\ p >= size
    <3> HIDE DEF l
    <3>1. QED
      BY <1>1, <2>2
  <2>5. t \in Tokens
    BY <2>2, TokensAre
  <2> HIDE DEF id, p, t
  <2>6. QED
    BY <2>2, <2>3, <2>4, <2>5 DEF Entries
<1>4. DOMAIN NextTokens = DOMAIN hs
  BY <1>2
<1>5. NextTokens \in Seq(Entries)
  <2> DEFINE q == NextTokens
  <2>1. /\ q = [i \in DOMAIN q |-> q[i]] /\ DOMAIN q = 1..Len(hs) /\ Len(hs) \in Nat
        /\ \A i \in 1..Len(hs) : q[i] \in Entries
    BY <1>1, <1>2, <1>3, <1>4
  <2> HIDE DEF q
  <2>2. q \in [1..Len(hs) -> Entries]
    BY <2>1
  <2>3. q \in Seq(Entries)
    BY <2>1, <2>2
  <2>4. QED
    BY <2>3 DEF q
<1>6. QED
  BY <1>3, <1>4, <1>5

LEMMA DecodeHypsIs ==
    ASSUME NEW ok, DecodeHypotheses(ok)
    PROVE  /\ pc = "round" /\ pc' = "extend" /\ hyps' = Unfinished /\ Unfinished # << >>
           /\ kv' = (IF ok THEN Decode(kv, NextTokens) ELSE kv)
           /\ failures' = failures \/ (failures < MaxFailures /\ failures' = failures + 1)
           /\ UNCHANGED <<active, pastMixes, request, fed, size, logits, spoiled>>
BY DEF DecodeHypotheses, NextTokens

LEMMA DecodeHypsTyped ==
    ASSUME TypeInv, NEW ok, DecodeHypotheses(ok)
    PROVE  TypeInv'
<1>1. CacheTyped'
  <2>1. kv' \in Seq(Cells)
    <3>1. kv \in Seq(Cells) /\ NextTokens \in Seq(Entries)
      BY NextTokensTyped DEF TypeInv, CacheTyped
    <3>2. Decode(kv, NextTokens) \in Seq(Cells)
      BY <3>1, DecodeTyped
    <3>3. QED
      BY <3>1, <3>2, DecodeHypsIs
  <2>2. failures' \in 0..MaxFailures
    BY LmAssumption, DecodeHypsIs DEF TypeInv, CacheTyped
  <2>3. QED
    BY <2>1, <2>2, DecodeHypsIs DEF TypeInv, CacheTyped
<1>2. RequestTyped'
  <2>1. pc' = "extend" /\ pc = "round" /\ UNCHANGED <<request, fed, size>>
    BY DecodeHypsIs
  <2>2. QED
    BY <2>1 DEF TypeInv, RequestTyped
<1>3. HypsTyped'
  <2>1. /\ hyps' = Unfinished /\ Unfinished \in Seq(Hyps) /\ Apart(Unfinished)
        /\ Len(Unfinished) <= Len(hyps) /\ Len(hyps) <= Results /\ hyps \in Seq(Hyps)
    BY UnfinishedFacts, DecodeHypsIs DEF TypeInv, HypsTyped
  <2>2. Len(hyps') <= Results /\ hyps' \in Seq(Hyps) /\ Apart(hyps')
    <3> DEFINE hs == Unfinished
    <3>1. Len(hs) \in Nat /\ Len(hyps) \in Nat /\ Results \in Nat
      BY <2>1, IdsAre
    <3> HIDE DEF hs
    <3>2. Len(hs) <= Results
      BY <2>1, <3>1 DEF hs
    <3>3. QED
      BY <2>1, <3>2 DEF hs
  <2>3. QED
    BY <2>2, DecodeHypsIs DEF HypsTyped, Apart
<1>4. QED
  BY <1>1, <1>2, <1>3 DEF TypeInv

\* The continuations, each still with the sequence of its parent.
Extended(c) ==
  [i \in DOMAIN hyps |->
     Hypothesis(Append(hyps[c[i].parent].tokens, c[i].token), hyps[c[i].parent].id,
                Append(hyps[c[i].rank].score, Append(hyps[c[i].parent].tokens, c[i].token)))]

LEMMA ExtendedTyped ==
    ASSUME hyps \in Seq(Hyps), NEW c \in Continuations(Len(hyps))
    PROVE  Extended(c) \in Seq(Hyps) /\ Len(Extended(c)) = Len(hyps)
<1> DEFINE x == Extended(c)
<1>1. DOMAIN hyps = 1..Len(hyps) /\ Len(hyps) \in Nat
  OBVIOUS
<1>2. ASSUME NEW i \in 1..Len(hyps) PROVE x[i] \in Hyps
  <2> DEFINE v == c[i]
  <2>1. v.parent \in 1..Len(hyps) /\ v.rank \in 1..Len(hyps) /\ v.token \in Vocabulary
    <3>1. v \in [parent : 1..Len(hyps), rank : 1..Len(hyps), token : Vocabulary]
      BY DEF Continuations
    <3> HIDE DEF v
    <3>2. QED
      BY <3>1
  <2> HIDE DEF v
  <2> DEFINE g == hyps[v.parent]
             b == hyps[v.rank]
             t == Append(g.tokens, v.token)
             s == Append(b.score, t)
             id == g.id
  <2>2. g \in Hyps /\ b \in Hyps
    BY <2>1
  <2> HIDE DEF g, b
  <2>3. g.tokens \in Seq(Vocabulary) /\ id \in Ids /\ b.score \in Seq(Seq(Vocabulary))
    BY <2>2, HypIs
  <2>4. t \in Seq(Vocabulary) /\ t # << >>
    <3> DEFINE gt == g.tokens
    <3>1. gt \in Seq(Vocabulary)
      BY <2>3
    <3> HIDE DEF gt
    <3>2. Append(gt, v.token) \in Seq(Vocabulary) /\ Len(Append(gt, v.token)) = Len(gt) + 1
          /\ Len(gt) \in Nat
      BY <2>1, <3>1
    <3>3. Append(gt, v.token) # << >>
      BY <3>2
    <3>4. QED
      BY <3>2, <3>3 DEF gt
  <2> HIDE DEF t
  <2>5. s \in Seq(Seq(Vocabulary))
    <3> DEFINE bs == b.score
               V == Seq(Vocabulary)
    <3>1. bs \in Seq(V) /\ t \in V
      BY <2>3, <2>4
    <3> HIDE DEF bs, V
    <3>2. Append(bs, t) \in Seq(V)
      BY <3>1
    <3>3. QED
      BY <3>2 DEF bs, V
  <2>6. x[i] = [tokens |-> t, id |-> id, score |-> s]
    BY <1>1 DEF Extended, Hypothesis, t, g, b, v
  <2> HIDE DEF s, id, x
  <2>7. QED
    BY <2>3, <2>4, <2>5, <2>6 DEF Hyps
<1>3. x = [i \in 1..Len(hyps) |-> x[i]]
  BY <1>1 DEF Extended
<1> HIDE DEF x
<1>4. x \in [1..Len(hyps) -> Hyps]
  BY <1>2, <1>3
<1>5. x \in Seq(Hyps) /\ Len(x) = Len(hyps)
  BY <1>1, <1>4
<1>6. QED
  BY <1>5 DEF x

LEMMA ExtendIs ==
    ASSUME NEW c, ExtendHypotheses(c)
    PROVE  /\ pc = "extend" /\ pc' = "round"
           /\ hyps' = Reassign(Extended(c)).hyps /\ kv' = Reassign(Extended(c)).kv
           /\ UNCHANGED <<active, pastMixes, request, fed, size, failures, logits, spoiled>>
BY DEF ExtendHypotheses, Extended, sampled

LEMMA ExtendTyped ==
    ASSUME TypeInv, NEW c \in Continuations(Len(hyps)), ExtendHypotheses(c)
    PROVE  TypeInv'
<1> DEFINE x == Extended(c)
           r == Reassign(x)
<1>1. /\ kv \in Seq(Cells) /\ hyps \in Seq(Hyps) /\ Len(hyps) <= Results /\ hyps # << >>
      /\ size \in Nat
  BY SizeIs DEF TypeInv, CacheTyped, HypsTyped, ExtendHypotheses
<1>2. x \in Seq(Hyps) /\ Len(x) = Len(hyps)
  BY <1>1, ExtendedTyped
<1>3. /\ r.hyps \in Seq(Hyps) /\ Len(r.hyps) = Len(x) /\ Apart(r.hyps)
      /\ r.kv \in Seq(Cells)
  <2>1. << >> \in Seq(Tokens) /\ Holds(kv, << >>) /\ Below(kv, Len(<< >>))
    BY <1>1, NothingHeld
  <2>2. Len(x) <= Results
    BY <1>1, <1>2
  <2> HIDE DEF x
  <2>3. QED
    BY <1>1, <1>2, <2>1, <2>2, ReassignFacts
<1>4. hyps' = r.hyps /\ kv' = r.kv
  BY ExtendIs
<1> HIDE DEF x, r
<1>5. CacheTyped'
  BY <1>3, <1>4, ExtendIs DEF TypeInv, CacheTyped
<1>6. RequestTyped'
  <2>1. pc' = "round" /\ pc = "extend" /\ UNCHANGED <<request, fed, size>>
    BY ExtendIs
  <2>2. QED
    BY <2>1 DEF TypeInv, RequestTyped
<1>7. HypsTyped'
  <2>1. hyps' \in Seq(Hyps) /\ Apart(hyps') /\ Len(hyps') = Len(hyps) /\ pc' = "round"
    BY <1>2, <1>3, <1>4, ExtendIs
  <2>2. hyps' # << >> /\ Len(hyps') <= Results
    <3>1. Len(hyps) # 0
      BY <1>1
    <3>2. hyps' # << >>
      BY <2>1, <3>1
    <3>3. QED
      BY <1>1, <2>1, <3>2
  <2>3. QED
    BY <2>1, <2>2 DEF HypsTyped, Apart
<1>8. QED
  BY <1>5, <1>6, <1>7 DEF TypeInv

LEMMA FinishIs ==
    ASSUME FinishSample
    PROVE  /\ pc = "round" /\ pc' = "idle" /\ kv' = RmAll(kv) /\ Return
           /\ UNCHANGED <<active, pastMixes, logits, failures, spoiled>>
BY DEF FinishSample, RmAll, Return

LEMMA FinishTyped == TypeInv /\ FinishSample => TypeInv'
<1> SUFFICES ASSUME TypeInv, FinishSample PROVE TypeInv'
  OBVIOUS
<1>1. RequestTyped' /\ HypsTyped'
  BY FinishIs, ReturnTyped
<1>2. CacheTyped'
  <2>1. kv \in Seq(Cells)
    BY DEF TypeInv, CacheTyped
  <2>2. RmAll(kv) \in Seq(Cells)
    BY <2>1, NothingHeld, RmAllHolds
  <2>3. QED
    BY <2>2, FinishIs DEF TypeInv, CacheTyped
<1>3. QED
  BY <1>1, <1>2 DEF TypeInv

LEMMA RequestsTyped ==
    ASSUME TypeInv, NEW c \in Contexts,
           \/ PredictNextWord(c) \/ RescoreSuggestions(c)
           \/ \E mixes \in Mixes : PredictCorrection(c, mixes)
    PROVE  TypeInv'
<1>1. c \in Prompts /\ Append(c, XBU) \in Prompts /\ << >> \in Mixes
  BY MixesAre DEF Prompts
<1>2. CASE PredictNextWord(c)
  BY <1>1, <1>2, AskedTyped DEF PredictNextWord
<1>3. CASE RescoreSuggestions(c)
  BY <1>1, <1>3, AskedTyped DEF RescoreSuggestions
<1>4. CASE \E mixes \in Mixes : PredictCorrection(c, mixes)
  <2>1. PICK mixes \in Mixes : Asked("correct", Append(c, XBU), mixes)
    BY <1>4 DEF PredictCorrection
  <2>2. QED
    BY <1>1, <2>1, AskedTyped
<1>5. QED
  BY <1>2, <1>3, <1>4

LEMMA StepTyped == TypeInv /\ [Next]_vars => TypeInv'
<1> SUFFICES ASSUME TypeInv, [Next]_vars PROVE TypeInv'
  OBVIOUS
<1>1. CASE UNCHANGED vars
  <2>1. CacheTyped' = CacheTyped /\ RequestTyped' = RequestTyped /\ HypsTyped' = HypsTyped
    BY <1>1 DEF vars, CacheTyped, RequestTyped, HypsTyped, Apart, NewTokens, NPast
  <2>2. QED
    BY <2>1 DEF TypeInv
<1>2. ASSUME NEW c \in Contexts,
             \/ PredictNextWord(c) \/ RescoreSuggestions(c)
             \/ \E mixes \in Mixes : PredictCorrection(c, mixes)
      PROVE  TypeInv'
  BY <1>2, RequestsTyped
<1>3. CASE Reopen
  BY <1>3, ReopenTyped
<1>4. CASE DecodePrompt \/ PromptCached \/ DecodePromptFails
  BY <1>4, DecodePromptTyped, PromptCachedTyped, PromptFailsTyped
<1>5. CASE DecodeMixes
  BY <1>5, DecodeMixesTyped
<1>6. ASSUME NEW n \in 0..MaxTaps, DecodeMixesFails(n) PROVE TypeInv'
  BY <1>6, MixesFailTyped
<1>7. CASE LogitsAreNaN \/ ResetCache \/ Rescored \/ HypothesisIsNaN
  BY <1>7, EndsTyped
<1>8. ASSUME NEW r \in Rankings(Results), BeginHypotheses(r) PROVE TypeInv'
  BY <1>8, BeginTyped
<1>9. ASSUME NEW ok \in BOOLEAN, DecodeHypotheses(ok) PROVE TypeInv'
  BY <1>9, DecodeHypsTyped
<1>10. ASSUME NEW c \in Continuations(Len(hyps)), ExtendHypotheses(c) PROVE TypeInv'
  BY <1>10, ExtendTyped
<1>11. CASE FinishSample
  BY <1>11, FinishTyped
<1>12. QED
  BY <1>1, <1>2, <1>3, <1>4, <1>5, <1>6, <1>7, <1>8, <1>9, <1>10, <1>11 DEF Next

\* Types: in particular a cell whose text is known was computed for its own position,
\* and there are never more hypotheses than results.
THEOREM LmTypeCorrect == Spec => []TypeOK
<1>1. TypeInv => TypeOK
  <2> SUFFICES ASSUME TypeInv PROVE TypeOK
    OBVIOUS
  <2>1. ASSUME NEW i \in DOMAIN kv
        PROVE  /\ kv[i].seqs \in (SUBSET (0..(Results - 1))) \ {{}}
               /\ kv[i].pos \in Nat /\ kv[i].text \in Seq(Tokens)
               /\ kv[i].text # Garbled => Len(kv[i].text) = kv[i].pos + 1
    <3>1. kv[i] \in Cells
      BY DEF TypeInv, CacheTyped
    <3>2. QED
      BY <3>1, CellIs DEF Ids
  <2>2. Len(hyps) <= Results /\ hyps # << >> <=> pc \in {"round", "extend"}
    BY DEF TypeInv, HypsTyped
  <2>3. QED
    BY <2>1, <2>2 DEF TypeInv, CacheTyped, RequestTyped, TypeOK
<1>2. QED
  BY <1>1, InitTyped, StepTyped, PTL DEF Spec

\* The hypotheses never share a sequence of the cache, for any number of results: a free
\* one is always found for a continuation that shares its parent's
\* (LanguageModel.cpp, "This should never happen").
THEOREM LmHypothesesApart == Spec => []HypothesesApart
<1>1. TypeInv => HypothesesApart
  BY DEF TypeInv, HypsTyped, Apart, HypothesesApart
<1>2. QED
  BY <1>1, InitTyped, StepTyped, PTL DEF Spec

-----------------------------------------------------------------------------
(***************************************************************************)
(* The cache.                                                              *)
(***************************************************************************)

\* The mark of the user's input is in no text: only the prompt of a correction has it.
MarkIsOurs == \A c \in Contexts : XBU \notin Range(c)

\* Between requests, and until the first batch of the next one.
ClaimRight ==
  pc = "idle" \/ (pc = "prompt" /\ fed = 0) =>
    (active # << >> => Holds(kv, active \o pastMixes))

\* When the prompt has been decoded, wholly or as far as it was not cached.
PromptRight ==
  pc = "mixes" =>
    /\ active = request.prompt /\ Holds(kv, request.prompt)
    /\ fed = 0 => Holds(kv, request.prompt \o pastMixes)
    /\ request.mixes = << >> => logits = request.prompt

\* While suggestions are sampled.
WantedRight ==
  pc \in {"sample", "round", "extend"} =>
    /\ active = request.prompt /\ pastMixes = request.mixes
    /\ size = Len(Wanted) /\ Holds(kv, Wanted)

\* The sequences of the hypotheses only have cells behind the text, or share its cells.
SequencesRight ==
  /\ pc \in {"idle", "prompt", "mixes", "sample"} => Own(kv)
  /\ pc \in {"round", "extend"} => Below(kv, size)

LogitsRight == pc = "sample" => logits = Wanted

CacheRight == ClaimRight /\ PromptRight /\ WantedRight /\ SequencesRight /\ LogitsRight

CacheInv == ~spoiled => CacheRight

LEMMA NoCells ==
    ASSUME NEW cells, cells = << >>
    PROVE  Own(cells)
BY DEF Own

LEMMA DecodeOwn ==
    ASSUME NEW cells \in Seq(Cells), NEW batch \in Seq(Entries), Own(cells),
           \A i \in 1..Len(batch) : batch[i].seq = 0
    PROVE  Own(Decode(cells, batch))
<1> DEFINE d == Decode(cells, batch)
           n == Len(cells)
           b == Len(batch)
<1>1. /\ d \in Seq(Cells) /\ Len(d) = n + b
      /\ \A i \in 1..n : d[i] = cells[i]
      /\ \A i \in 1..b : d[n + i].seqs = {batch[i].seq} /\ d[n + i].pos = batch[i].pos
  BY DecodeTyped
<1>2. n \in Nat /\ b \in Nat /\ DOMAIN cells = 1..n
  OBVIOUS
<1>3. ASSUME NEW i \in DOMAIN d PROVE d[i].seqs = {0}
  <2>1. DOMAIN d = 1..(n + b)
    BY <1>1
  <2> HIDE DEF d
  <2>2. CASE i \in 1..n
    BY <1>1, <1>2, <2>2 DEF Own
  <2>3. CASE i \notin 1..n
    <3> DEFINE j == i - n
    <3>1. j \in 1..b /\ n + j = i
      BY <1>2, <2>1, <2>3
    <3> HIDE DEF j, n, b
    <3>2. d[n + j].seqs = {batch[j].seq}
      BY <1>1, <3>1
    <3>3. batch[j].seq = 0
      BY <3>1 DEF b
    <3>4. QED
      BY <3>1, <3>2, <3>3
  <2>4. QED
    BY <2>2, <2>3
<1> HIDE DEF d
<1>4. Own(d)
  BY <1>3 DEF Own
<1>5. QED
  BY <1>4 DEF d

\* A prompt with the mark at its end begins no other prompt.
LEMMA SamePrompt ==
    ASSUME MarkIsOurs, active \in Prompts, NEW c \in Contexts, NEW p, p = Append(c, XBU),
           Len(p) <= Len(active), Upto(active, Len(p)) = p
    PROVE  active = p
<1> DEFINE n == Len(p)
<1>1. /\ c \in Seq(Tokens) /\ active \in Seq(Tokens)
      /\ \A d \in Contexts : d \in Seq(Tokens)
      /\ p \in Seq(Tokens)
  <2>1. p \in Prompts
    BY DEF Prompts
  <2>2. QED
    BY <2>1, TokensAre
<1>2. /\ n = Len(c) + 1 /\ p[n] = XBU /\ Len(c) \in Nat
  BY <1>1
<1>3. n \in 1..Len(active) /\ n \in 0..Len(active)
  <2>1. Len(active) \in Nat
    BY <1>1
  <2> HIDE DEF n
  <2>2. QED
    BY <1>2, <2>1 DEF n
<1>4. active[n] = XBU
  <2>1. Upto(active, n) = p
    OBVIOUS
  <2> HIDE DEF n
  <2>2. n \in 1..n
    BY <1>3
  <2>3. Upto(active, n)[n] = active[n]
    BY <1>1, <1>3, <2>2, UptoFacts
  <2>4. QED
    BY <1>2, <2>1, <2>3
<1> HIDE DEF n
<1>5. ASSUME NEW d \in Contexts, NEW i \in 1..Len(d) PROVE d[i] # XBU
  <2>1. d \in Seq(Tokens)
    BY <1>1
  <2>2. d[i] \in Range(d)
    BY <2>1 DEF Range
  <2>3. QED
    BY <2>2 DEF MarkIsOurs
<1>6. active \notin Contexts
  BY <1>3, <1>4, <1>5
<1>7. PICK d \in Contexts : active = Append(d, XBU)
  BY <1>6 DEF Prompts
<1>8. n = Len(active)
  <2>1. /\ d \in Seq(Tokens) /\ Len(d) \in Nat /\ Len(active) = Len(d) + 1
        /\ \A i \in 1..Len(d) : active[i] = d[i]
    BY <1>1, <1>7
  <2>2. n \notin 1..Len(d)
    BY <1>4, <1>5, <2>1
  <2>3. QED
    BY <1>3, <2>1, <2>2
<1>9. Upto(active, Len(active)) = active
  BY <1>1, UptoWhole
<1>10. QED
  BY <1>8, <1>9 DEF n

\* What a request wanted is claimed when it has been answered.
LEMMA WantedClaims ==
    ASSUME request.prompt \in Prompts, request.mixes \in Mixes, NEW cells, Holds(cells, Wanted)
    PROVE  Holds(cells, request.prompt \o request.mixes)
<1> DEFINE n == Len(request.prompt) + Len(request.mixes)
           w == Wanted
<1>1. /\ w \in Seq(Tokens) /\ Len(w) = n + (IF request.mixes = << >> THEN 0 ELSE 1)
      /\ Upto(w, n) = request.prompt \o request.mixes
  BY WantedIs
<1>2. n \in Nat
  <2> DEFINE p == request.prompt
             m == request.mixes
  <2>1. p \in Seq(Tokens) /\ m \in Seq(Tokens)
    BY TokensAre, MixesAre
  <2> HIDE DEF p, m
  <2>2. Len(p) + Len(m) \in Nat
    BY <2>1
  <2>3. QED
    BY <2>2 DEF p, m
<1> HIDE DEF n
<1>3. n \in 0..Len(w)
  BY <1>1, <1>2
<1>4. Holds(cells, Upto(w, n))
  <2>1. Holds(cells, w)
    OBVIOUS
  <2> HIDE DEF w
  <2>2. QED
    BY <1>1, <1>3, <2>1, HoldsUpto
<1>5. QED
  BY <1>1, <1>4

LEMMA InitRight == Init => CacheInv
<1> SUFFICES ASSUME Init PROVE CacheInv
  OBVIOUS
<1>1. pc = "idle" /\ active = << >> /\ Own(kv)
  BY NoCells DEF Init
<1>2. QED
  BY <1>1 DEF CacheInv, CacheRight, ClaimRight, PromptRight, WantedRight, SequencesRight, LogitsRight

LEMMA AskedRight ==
    ASSUME TypeInv, CacheInv, NEW kind, NEW prompt, NEW mixes, Asked(kind, prompt, mixes)
    PROVE  CacheInv'
<1>1. pc = "idle" /\ pc' = "prompt" /\ UNCHANGED <<kv, active, pastMixes, fed, size, spoiled>>
  BY DEF Asked, cache
<1>2. ASSUME ~spoiled' PROVE CacheRight'
  <2>1. ClaimRight /\ Own(kv)
    BY <1>1, <1>2 DEF CacheInv, CacheRight, SequencesRight
  <2>2. ClaimRight' /\ Own(kv)'
    BY <1>1, <2>1 DEF ClaimRight, Own
  <2>3. QED
    BY <1>1, <2>2 DEF CacheRight, PromptRight, WantedRight, SequencesRight, LogitsRight
<1>3. QED
  BY <1>2 DEF CacheInv

LEMMA ReopenRight == Reopen => CacheInv'
<1> SUFFICES ASSUME Reopen PROVE CacheInv'
  OBVIOUS
<1>1. pc' = "idle" /\ active' = << >> /\ Own(kv')
  BY NoCells DEF Reopen
<1>2. Own(kv)'
  BY <1>1 DEF Own
<1>3. QED
  BY <1>1, <1>2
     DEF CacheInv, CacheRight, ClaimRight, PromptRight, WantedRight, SequencesRight, LogitsRight

\* What is cached of the prompt before its first batch.
LEMMA CachedPrompt ==
    ASSUME TypeInv, CacheRight, pc = "prompt", fed = 0
    PROVE  LET T == Upto(request.prompt, NPast)
           IN  T \in Seq(Tokens) /\ Len(T) = NPast /\ Holds(kv, T)
<1> DEFINE p == request.prompt
           n == NPast
           a == active
           past == pastMixes
<1>1. /\ a \in Seq(Tokens) /\ p \in Seq(Tokens) /\ n \in 0..Len(a) /\ n \in 0..Len(p)
      /\ Upto(a, n) = Upto(p, n) /\ past \in Seq(Tokens)
  <2>1. active \in Prompts \cup {<< >>} /\ request.prompt \in Prompts /\ pastMixes \in Mixes
    BY DEF TypeInv, CacheTyped, RequestTyped
  <2>2. QED
    BY <2>1, NPastFacts, MixesAre
<1>2. a # << >> => Holds(kv, a \o past)
  BY DEF CacheRight, ClaimRight
<1> HIDE DEF p, n, a, past
<1>3. Upto(p, n) \in Seq(Tokens) /\ Len(Upto(p, n)) = n
  BY <1>1, UptoFacts
<1>4. Holds(kv, Upto(p, n))
  <2>1. CASE a = << >>
    <3>1. n = 0
      BY <1>1, <2>1
    <3>2. QED
      BY <1>1, <3>1, UptoWhole, NothingHeld DEF TypeInv, CacheTyped
  <2>2. CASE a # << >>
    <3> DEFINE ap == a \o past
    <3>1. ap \in Seq(Tokens) /\ Len(ap) = Len(a) + Len(past) /\ Len(a) \in Nat /\ Len(past) \in Nat
      BY <1>1, ConcatFacts
    <3>2. Upto(ap, n) = Upto(a, n)
      BY <1>1, UptoConcat
    <3> HIDE DEF ap
    <3>3. n \in 0..Len(ap)
      BY <1>1, <3>1
    <3>4. Holds(kv, ap)
      BY <1>2, <2>2 DEF ap
    <3>5. Holds(kv, Upto(ap, n))
      BY <3>1, <3>3, <3>4, HoldsUpto
    <3>6. QED
      BY <1>1, <3>2, <3>5
  <2>3. QED
    BY <2>1, <2>2
<1>5. QED
  BY <1>3, <1>4 DEF p, n

LEMMA DecodePromptRight ==
    ASSUME TypeInv, CacheInv, DecodePrompt
    PROVE  CacheInv'
<1> USE PromptStep
<1> SUFFICES ASSUME ~spoiled' PROVE CacheRight'
  BY DEF CacheInv
<1>1. ~spoiled /\ fed = 0 /\ CacheRight
  <2>1. fed \in Nat /\ spoiled \in BOOLEAN
    BY PromptBatchFacts DEF TypeInv, CacheTyped
  <2>2. spoiled' = (spoiled \/ fed > 0)
    OBVIOUS
  <2>3. ~spoiled /\ ~(fed > 0)
    BY <2>2, Zenon
  <2>4. fed = 0
    BY <2>1, <2>3
  <2>5. QED
    BY <2>3, <2>4 DEF CacheInv
<1> DEFINE p == request.prompt
           n == NPast
           T == Upto(p, n)
           r == SeqRm(kv, 0, n)
           toks == PromptBatch
           b == Batch(0, n + fed, toks)
           d == PromptDecoded
<1>2. T \in Seq(Tokens) /\ Len(T) = n /\ Holds(kv, T)
  BY <1>1, CachedPrompt
<1>3. kv \in Seq(Cells) /\ Own(kv)
  BY <1>1 DEF TypeInv, CacheTyped, CacheRight, SequencesRight
<1>4. r \in Seq(Cells) /\ Own(r) /\ Holds(r, T) /\ Ends(r, n)
  <2> HIDE DEF T, n
  <2>1. /\ SeqRm(kv, 0, Len(T)) \in Seq(Cells) /\ Own(SeqRm(kv, 0, Len(T)))
        /\ Holds(SeqRm(kv, 0, Len(T)), T) /\ Ends(SeqRm(kv, 0, Len(T)), Len(T))
    BY <1>2, <1>3, RmReady
  <2>2. QED
    BY <1>2, <2>1
<1>5. /\ toks \in Seq(Tokens) /\ toks # << >> /\ b \in Seq(Entries)
      /\ PromptTo = Len(NewTokens) => toks = NewTokens
      /\ \A i \in DOMAIN b : b[i].seq = 0
      /\ PromptTo > 0 /\ d # << >> /\ Last(d) = d[Len(d)] /\ Len(d) \in Nat
  <2>1. PromptTo \in (fed + 1)..Len(NewTokens)
    BY PromptBatchFacts
  <2>2. PromptTo > 0
    BY <1>1, <2>1
  <2>3. d \in Seq(Cells)
    BY PromptBatchFacts
  <2>4. Len(d) \in Nat
    <3> HIDE DEF d
    <3>1. QED
      BY <2>3
  <2>5. QED
    BY <1>1, <2>2, <2>4, PromptBatchFacts
<1>6. d = Decode(r, b) /\ n + fed = n
  <2>1. n \in Nat
    BY <1>2
  <2> HIDE DEF n
  <2>2. n + fed = n
    BY <1>1, <2>1
  <2>3. QED
    BY <2>2 DEF PromptDecoded, n
<1>7. Own(d)
  <2> HIDE DEF r, b, d
  <2>1. \A i \in 1..Len(b) : b[i].seq = 0
    BY <1>5
  <2>2. Own(Decode(r, b))
    BY <1>4, <1>5, <2>1, DecodeOwn
  <2>3. QED
    BY <1>6, <2>2
<1>8. PromptTo = Len(NewTokens) => Holds(d, p) /\ d[Len(d)].text = p
  <2> SUFFICES ASSUME PromptTo = Len(NewTokens) PROVE Holds(d, p) /\ d[Len(d)].text = p
    OBVIOUS
  <2>1. T \o NewTokens = p
    <3>1. active \in Prompts \cup {<< >>} /\ request.prompt \in Prompts
      BY DEF TypeInv, CacheTyped, RequestTyped
    <3>2. QED
      BY <3>1, NPastFacts
  <2>2. toks = NewTokens
    BY <1>5
  <2> HIDE DEF T, toks, d, r, p
  <2>3. b = Batch(0, Len(T), toks)
    BY <1>2, <1>6
  <2>4. /\ Holds(Decode(r, Batch(0, Len(T), toks)), T \o toks)
        /\ toks # << >> => Decode(r, Batch(0, Len(T), toks))[Len(Decode(r, Batch(0, Len(T), toks)))].text
                             = T \o toks
    <3>1. Ends(r, Len(T))
      BY <1>2, <1>4
    <3>2. QED
      BY <1>2, <1>4, <1>5, <3>1, DecodeHolds
  <2>5. QED
    BY <1>5, <1>6, <2>1, <2>2, <2>3, <2>4
<1> HIDE DEF T, toks, d, r, b, n
<1>9. kv' = d /\ UNCHANGED <<request, pastMixes>> /\ fed' > 0
  BY <1>5 DEF d
<1>10. SequencesRight'
  <2>1. pc' \in {"prompt", "mixes"}
    OBVIOUS
  <2>2. Own(kv)'
    BY <1>7, <1>9 DEF Own
  <2>3. QED
    BY <2>1, <2>2 DEF SequencesRight
<1>11. PromptRight'
  <2> SUFFICES ASSUME pc' = "mixes"
               PROVE  /\ active' = request'.prompt /\ Holds(kv, request.prompt)'
                      /\ fed' = 0 => Holds(kv, request.prompt \o pastMixes)'
                      /\ request'.mixes = << >> => logits' = request'.prompt
    BY DEF PromptRight
  <2>1. PromptTo = Len(NewTokens)
    OBVIOUS
  <2>2. Holds(kv, request.prompt)'
    BY <1>8, <1>9, <2>1 DEF Holds, At, p
  <2>3. request.mixes = << >> => logits' = d[Len(d)].text
    BY <1>5, <1>9
  <2>4. active' = request'.prompt
    BY <2>1
  <2>5. QED
    BY <1>8, <1>9, <2>1, <2>2, <2>3, <2>4 DEF p
<1>12. pc' \in {"prompt", "mixes"}
  OBVIOUS
<1>13. QED
  BY <1>9, <1>10, <1>11, <1>12 DEF CacheRight, ClaimRight, WantedRight, LogitsRight

LEMMA PromptCachedRight ==
    ASSUME MarkIsOurs, TypeInv, CacheInv, PromptCached
    PROVE  CacheInv'
<1> SUFFICES ASSUME ~spoiled' PROVE CacheRight'
  BY DEF CacheInv
<1>1. /\ pc = "prompt" /\ pc' = "mixes" /\ NewTokens = << >> /\ active' = request.prompt
      /\ UNCHANGED <<kv, pastMixes, request, fed, size, logits, hyps, failures, spoiled>>
  BY DEF PromptCached
<1>2. CacheRight /\ fed = 0
  <2>1. CacheRight
    BY <1>1 DEF CacheInv
  <2>2. (fed > 0) => fed < 0
    BY <1>1 DEF TypeInv, RequestTyped
  <2>3. fed \in Nat
    BY DEF TypeInv, RequestTyped
  <2>4. QED
    BY <2>1, <2>2, <2>3
<1> DEFINE p == request.prompt
           past == pastMixes
<1>3. /\ active \in Prompts \cup {<< >>} /\ p \in Prompts /\ past \in Mixes
      /\ request.mixes # << >> => \E c \in Contexts : p = Append(c, XBU)
      /\ kv \in Seq(Cells) /\ Own(kv)
  BY <1>1, <1>2 DEF TypeInv, CacheTyped, RequestTyped, CacheRight, SequencesRight
<1>4. /\ active \in Seq(Tokens) /\ p \in Seq(Tokens) /\ p # << >> /\ past \in Seq(Tokens)
      /\ request.mixes # << >> /\ NPast = Len(p) /\ NPast \in 0..Len(active)
      /\ Upto(active, NPast) = Upto(p, NPast)
  BY <1>1, <1>3, NPastFacts, TokensAre, MixesAre
<1> HIDE DEF p, past
<1>5. Len(p) \in 1..Len(active) /\ Upto(active, Len(p)) = p
  <2>1. Len(p) # 0 /\ Len(p) \in Nat /\ Upto(p, Len(p)) = p
    BY <1>4, UptoWhole
  <2>2. QED
    BY <1>4, <2>1
<1>6. active = p /\ active # << >>
  <2>1. Len(active) \in Nat /\ Len(p) <= Len(active)
    BY <1>4, <1>5
  <2>2. active # << >>
    BY <1>4, <1>5
  <2>3. active \in Prompts
    BY <1>3, <2>2
  <2>4. PICK c \in Contexts : p = Append(c, XBU)
    BY <1>3, <1>4
  <2>5. QED
    BY <1>5, <2>1, <2>2, <2>3, <2>4, SamePrompt
<1>7. Holds(kv, p \o past)
  BY <1>1, <1>2, <1>6 DEF CacheRight, ClaimRight, past
<1>8. Holds(kv, p)
  <2>1. /\ p \o past \in Seq(Tokens) /\ Len(p \o past) = Len(p) + Len(past)
        /\ Len(p) \in Nat /\ Len(past) \in Nat
    BY <1>4, ConcatFacts
  <2> DEFINE pp == p \o past
  <2>2. Upto(pp, Len(p)) = p
    <3>1. Len(p) \in 0..Len(p)
      BY <2>1
    <3>2. QED
      BY <1>4, <3>1, UptoConcat, UptoWhole
  <2> HIDE DEF pp
  <2>3. pp \in Seq(Tokens) /\ Len(p) \in 0..Len(pp)
    BY <2>1 DEF pp
  <2>4. Holds(kv, pp)
    BY <1>7 DEF pp
  <2>5. Holds(kv, Upto(pp, Len(p)))
    BY <2>3, <2>4, HoldsUpto
  <2>6. QED
    BY <2>2, <2>5
<1>9. /\ Own(kv)' /\ Holds(kv, request.prompt)' /\ Holds(kv, request.prompt \o pastMixes)'
  <2>1. Own(kv) /\ Holds(kv, request.prompt) /\ Holds(kv, request.prompt \o pastMixes)
    BY <1>3, <1>7, <1>8 DEF p, past
  <2>2. /\ Own(kv)' = Own(kv) /\ Holds(kv, request.prompt)' = Holds(kv, request.prompt)
        /\ Holds(kv, request.prompt \o pastMixes)' = Holds(kv, request.prompt \o pastMixes)
    BY <1>1 DEF Own, Holds, At
  <2>3. QED
    BY <2>1, <2>2
<1>10. PromptRight'
  BY <1>1, <1>4, <1>9 DEF PromptRight
<1>11. SequencesRight'
  BY <1>1, <1>9 DEF SequencesRight
<1>12. QED
  BY <1>1, <1>10, <1>11 DEF CacheRight, ClaimRight, WantedRight, LogitsRight

\* What is in the cache before the mixes are decoded: the prompt and the mixes that count
\* as cached.
LEMMA CachedBefore ==
    ASSUME TypeInv, CacheRight, pc = "mixes"
    PROVE  LET T == request.prompt \o Upto(request.mixes, CachedMixes)
           IN  /\ T \in Seq(Tokens) /\ Len(T) = Len(request.prompt) + CachedMixes
               /\ Holds(kv, T)
<1> DEFINE p == request.prompt
           m == request.mixes
           past == pastMixes
           k == CachedMixes
           u == Upto(m, k)
           T == p \o u
<1>1. /\ p \in Seq(Tokens) /\ m \in Seq(Tokens) /\ past \in Seq(Tokens)
      /\ k \in 0..Len(m) /\ fed \in Nat
      /\ fed > 0 \/ (k \in 0..Len(past) /\ Upto(past, k) = u)
  <2>1. request.prompt \in Prompts /\ request.mixes \in Mixes /\ pastMixes \in Mixes
        /\ fed \in Nat
    BY DEF TypeInv, CacheTyped, RequestTyped
  <2>2. QED
    BY <2>1, BehindIs, TokensAre, MixesAre
<1>2. fed > 0 => k = 0
  BY DEF CachedMixes
<1>3. Holds(kv, p) /\ (fed = 0 => Holds(kv, p \o past))
  BY DEF CacheRight, PromptRight
<1> HIDE DEF p, m, past, k
<1>4. u \in Seq(Tokens) /\ Len(u) = k
  BY <1>1, UptoFacts
<1>5. T \in Seq(Tokens) /\ Len(T) = Len(p) + k
  <2> HIDE DEF u
  <2>1. p \o u \in Seq(Tokens) /\ Len(p \o u) = Len(p) + Len(u)
    BY <1>1, <1>4, ConcatFacts
  <2>2. QED
    BY <1>4, <2>1
<1>6. Holds(kv, T)
  <2>1. CASE fed > 0
    <3>1. k = 0
      BY <1>2, <2>1
    <3>2. u = << >>
      BY <1>1, <3>1, UptoWhole
    <3> HIDE DEF u
    <3>3. p \o u = p
      BY <1>1, <3>2
    <3>4. QED
      BY <1>3, <3>3
  <2>2. CASE ~(fed > 0)
    <3>1. k \in 0..Len(past) /\ Upto(past, k) = u /\ fed = 0
      BY <1>1, <2>2
    <3> DEFINE pp == p \o past
    <3>2. pp \in Seq(Tokens) /\ Len(pp) = Len(p) + Len(past) /\ Len(p) \in Nat /\ Len(past) \in Nat
      BY <1>1, ConcatFacts
    <3>3. Upto(pp, Len(p) + k) = p \o Upto(past, k)
      BY <1>1, <3>1, UptoBehind
    <3>4. Holds(kv, pp)
      BY <1>3, <3>1
    <3> HIDE DEF pp
    <3> DEFINE n == Len(p) + k
    <3>5. n \in 0..Len(pp)
      BY <3>1, <3>2
    <3> HIDE DEF n
    <3>6. Holds(kv, Upto(pp, n))
      BY <3>2, <3>4, <3>5, HoldsUpto
    <3>7. QED
      BY <3>1, <3>3, <3>6 DEF n
  <2>3. QED
    BY <2>1, <2>2
<1>7. QED
  BY <1>5, <1>6 DEF p, m, k

LEMMA DecodeMixesRight ==
    ASSUME TypeInv, CacheInv, DecodeMixes
    PROVE  CacheInv'
<1> SUFFICES ASSUME ~spoiled' PROVE CacheRight'
  BY DEF CacheInv
<1>1. /\ pc = "mixes" /\ pc' = "sample" /\ pastMixes' = request.mixes /\ size' = Len(Wanted)
      /\ kv' = SeqRm(Decode(KeptForMixes, BehindPrompt), 0, Len(Wanted))
      /\ logits' = (IF request.mixes = << >> THEN logits ELSE Last(kv').text)
      /\ UNCHANGED <<active, request, fed, hyps, failures, spoiled>>
  BY DEF DecodeMixes
<1>2. CacheRight
  BY <1>1 DEF CacheInv
<1> DEFINE p == request.prompt
           m == request.mixes
           T == p \o Upto(m, CachedMixes)
           n == Len(p) + CachedMixes
           rest == IF m = << >> THEN << >> ELSE SubSeq(m, CachedMixes + 1, Len(m)) \o <<XBC>>
           r == KeptForMixes
           d == Decode(r, BehindPrompt)
           w == Wanted
           e == SeqRm(d, 0, Len(w))
<1>3. /\ p \in Prompts /\ m \in Mixes /\ pastMixes \in Mixes /\ kv \in Seq(Cells)
      /\ Own(kv) /\ active = p /\ (m = << >> => logits = p)
  BY <1>1, <1>2 DEF TypeInv, CacheTyped, RequestTyped, CacheRight, SequencesRight, PromptRight
<1>4. T \in Seq(Tokens) /\ Len(T) = n /\ Holds(kv, T)
  BY <1>1, <1>2, CachedBefore
<1>5. /\ rest \in Seq(Tokens) /\ BehindPrompt = Batch(0, n, rest) /\ T \o rest = w
      /\ m # << >> => Len(rest) = Len(m) - CachedMixes + 1 /\ CachedMixes \in 0..Len(m)
  BY <1>3, BehindIs
<1>6. w \in Seq(Tokens) /\ Len(w) \in Nat
  <2>1. w \in Seq(Tokens)
    BY <1>3, WantedIs
  <2> HIDE DEF w
  <2>2. QED
    BY <2>1
<1>7. /\ d \in Seq(Cells) /\ e \in Seq(Cells) /\ BehindPrompt \in Seq(Entries)
      /\ m # << >> => d # << >> /\ e # << >> /\ Last(e).text = d[Len(d)].text
  BY <1>3, LastStays
<1>8. r = SeqRm(kv, 0, n)
  BY DEF KeptForMixes
<1>9. m # << >> => rest # << >>
  <2>1. m \in Seq(Tokens)
    BY <1>3, MixesAre
  <2> HIDE DEF m, rest
  <2>2. QED
    BY <1>5, <2>1
<1> HIDE DEF T, n, rest, r, w
<1>10. r \in Seq(Cells) /\ Own(r) /\ Holds(r, T) /\ Ends(r, Len(T))
  <2>1. r = SeqRm(kv, 0, Len(T))
    BY <1>4, <1>8
  <2>2. QED
    BY <1>3, <1>4, <2>1, RmReady
<1>11. /\ Holds(d, w)
       /\ m # << >> => d[Len(d)].text = w
  <2>1. BehindPrompt = Batch(0, Len(T), rest)
    BY <1>4, <1>5
  <2> DEFINE dd == Decode(r, Batch(0, Len(T), rest))
  <2>2. /\ Holds(dd, T \o rest)
        /\ rest # << >> => dd[Len(dd)].text = T \o rest
    BY <1>4, <1>5, <1>10, DecodeHolds
  <2>3. d = dd
    BY <2>1
  <2> HIDE DEF d, dd, m
  <2>4. QED
    BY <1>5, <1>9, <2>2, <2>3
<1>12. Own(d)
  <2> DEFINE b == BehindPrompt
  <2>1. \A i \in 1..Len(b) : b[i].seq = 0
    <3>1. n \in Nat /\ 0 \in Ids
      <4>1. Len(T) \in Nat
        BY <1>4
      <4>2. QED
        BY <1>4, <4>1, IdsAre
    <3>2. /\ Len(Batch(0, n, rest)) = Len(rest)
          /\ \A i \in 1..Len(rest) : Batch(0, n, rest)[i].seq = 0
      BY <1>5, <3>1, BatchIs
    <3>3. QED
      BY <1>5, <3>2
  <2> HIDE DEF b
  <2>2. b \in Seq(Entries)
    BY <1>7 DEF b
  <2>3. Own(Decode(r, b))
    BY <1>10, <2>1, <2>2, DecodeOwn
  <2>4. QED
    BY <2>3 DEF b
<1> HIDE DEF d
<1>13. Holds(e, w) /\ Own(e)
  <2>1. Holds(e, w)
    BY <1>6, <1>7, <1>11, RmHolds
  <2>2. Own(e)
    BY <1>6, <1>7, <1>12, RmOwn
  <2>3. QED
    BY <2>1, <2>2
<1>14. kv' = e
  BY <1>1 DEF d, w, r
<1> HIDE DEF e
<1>15. Wanted' = w
  BY <1>1 DEF Wanted, w
<1>16. logits' = w
  <2>1. CASE m = << >>
    <3>1. logits' = p
      BY <1>1, <1>3, <2>1
    <3>2. p \in Seq(Tokens)
      BY <1>3, TokensAre
    <3>3. w = (p \o << >>) \o << >>
      BY <2>1 DEF w, Wanted
    <3> HIDE DEF p
    <3>4. (p \o << >>) \o << >> = p
      BY <3>2
    <3>5. QED
      BY <3>1, <3>3, <3>4
  <2>2. CASE m # << >>
    BY <1>1, <1>7, <1>11, <1>14, <2>2
  <2>3. QED
    BY <2>1, <2>2
<1>17. WantedRight'
  <2>1. Holds(kv, Wanted)'
    BY <1>13, <1>14, <1>15 DEF Holds, At
  <2>2. size' = Len(Wanted')
    BY <1>1, <1>15 DEF w
  <2>3. QED
    BY <1>1, <1>3, <2>1, <2>2 DEF WantedRight, p, m
<1>18. SequencesRight'
  <2>1. Own(kv)'
    BY <1>13, <1>14 DEF Own
  <2>2. QED
    BY <1>1, <2>1 DEF SequencesRight
<1>19. LogitsRight'
  BY <1>15, <1>16 DEF LogitsRight
<1>20. QED
  BY <1>1, <1>17, <1>18, <1>19 DEF CacheRight, ClaimRight, PromptRight

\* A failure is noted.
LEMMA FailureRight ==
    DecodePromptFails \/ (\E n \in Nat : DecodeMixesFails(n)) \/ HypothesisIsNaN => CacheInv'
BY DEF DecodePromptFails, DecodeMixesFails, HypothesisIsNaN, Failed, CacheInv

\* An answer leaves the text the request wanted, whole.
LEMMA AnsweredRight ==
    ASSUME TypeInv, CacheRight, pc \in {"sample", "round"},
           pc' = "idle", active' = active, pastMixes' = pastMixes,
           Own(kv)', Holds(kv', Wanted)
    PROVE  CacheRight'
<1>1. /\ request.prompt \in Prompts /\ request.mixes \in Mixes
      /\ active = request.prompt /\ pastMixes = request.mixes
  BY DEF TypeInv, RequestTyped, CacheRight, WantedRight
<1> DEFINE cells == kv'
<1>2. Holds(cells, request.prompt \o request.mixes)
  <2>1. Holds(cells, Wanted)
    OBVIOUS
  <2> HIDE DEF cells
  <2>2. QED
    BY <1>1, <2>1, WantedClaims
<1>3. Holds(kv, active \o pastMixes)'
  BY <1>1, <1>2 DEF Holds, At
<1>4. ClaimRight'
  BY <1>3 DEF ClaimRight
<1>5. SequencesRight'
  BY DEF SequencesRight
<1>6. QED
  BY <1>4, <1>5 DEF CacheRight, PromptRight, WantedRight, LogitsRight

LEMMA EndsRight ==
    ASSUME TypeInv, CacheInv, LogitsAreNaN \/ ResetCache \/ Rescored
    PROVE  CacheInv'
<1>1. CASE LogitsAreNaN \/ Rescored
  <2>1. pc = "sample" /\ pc' = "idle" /\ UNCHANGED <<kv, active, pastMixes, spoiled>>
    BY <1>1 DEF LogitsAreNaN, Rescored, Return, cache
  <2>2. ASSUME ~spoiled' PROVE CacheRight'
    <3>1. CacheRight
      BY <2>1, <2>2 DEF CacheInv
    <3>2. Own(kv) /\ Holds(kv, Wanted)
      BY <2>1, <3>1 DEF CacheRight, SequencesRight, WantedRight
    <3>3. Own(kv)' /\ Holds(kv', Wanted)
      BY <2>1, <3>2 DEF Own
    <3>4. QED
      BY <2>1, <3>1, <3>3, AnsweredRight
  <2>3. QED
    BY <2>2 DEF CacheInv
<1>2. CASE ResetCache
  <2>1. pc' = "idle" /\ kv' = << >> /\ active' = << >>
    BY <1>2 DEF ResetCache, Return
  <2>2. Own(kv)'
    BY <2>1 DEF Own
  <2>3. QED
    BY <2>1, <2>2
       DEF CacheInv, CacheRight, ClaimRight, PromptRight, WantedRight, SequencesRight, LogitsRight
<1>3. QED
  BY <1>1, <1>2

LEMMA SamplingRight ==
    ASSUME CacheRight, pc \in {"sample", "round", "extend"}, pc' \in {"round", "extend"},
           UNCHANGED <<active, pastMixes, request, size>>,
           Holds(kv', Wanted), Below(kv', size)
    PROVE  CacheRight'
<1>1. Wanted' = Wanted
  BY DEF Wanted
<1>2. Holds(kv, Wanted)' /\ Below(kv, size)'
  BY <1>1 DEF Holds, At, Below
<1>3. WantedRight'
  BY <1>1, <1>2 DEF CacheRight, WantedRight
<1>4. QED
  BY <1>2, <1>3 DEF CacheRight, ClaimRight, PromptRight, SequencesRight, LogitsRight

\* What sampling starts from.
LEMMA SamplingFrom ==
    ASSUME TypeInv, CacheRight, pc \in {"sample", "round", "extend"}
    PROVE  /\ kv \in Seq(Cells) /\ Wanted \in Seq(Tokens) /\ size = Len(Wanted) /\ size \in Nat
           /\ Holds(kv, Wanted) /\ Below(kv, size)
<1>1. kv \in Seq(Cells) /\ request.prompt \in Prompts /\ request.mixes \in Mixes
  BY DEF TypeInv, CacheTyped, RequestTyped
<1>2. Wanted \in Seq(Tokens) /\ size \in Nat
  BY <1>1, WantedIs, SizeIs
<1>3. size = Len(Wanted) /\ Holds(kv, Wanted)
  BY DEF CacheRight, WantedRight
<1>4. Below(kv, size)
  <2>1. Own(kv) \/ Below(kv, size)
    BY DEF CacheRight, SequencesRight
  <2>2. Own(kv) => Below(kv, size)
    BY DEF Own, Below
  <2>3. QED
    BY <2>1, <2>2
<1>5. QED
  BY <1>1, <1>2, <1>3, <1>4

LEMMA BeginRight ==
    ASSUME TypeInv, CacheInv, NEW r, BeginHypotheses(r)
    PROVE  CacheInv'
<1> SUFFICES ASSUME ~spoiled' PROVE CacheRight'
  BY DEF CacheInv
<1>1. /\ pc = "sample" /\ pc' = "round" /\ kv' = CpAll(kv, size)
      /\ UNCHANGED <<active, pastMixes, request, size>> /\ CacheRight
  BY BeginIs DEF CacheInv
<1>2. /\ kv \in Seq(Cells) /\ Wanted \in Seq(Tokens) /\ size = Len(Wanted) /\ size \in Nat
      /\ Holds(kv, Wanted) /\ Below(kv, size)
  BY <1>1, SamplingFrom
<1> DEFINE T == Wanted
           cells == CpAll(kv, size)
<1>3. Holds(cells, T) /\ Below(cells, Len(T))
  <2>1. T \in Seq(Tokens) /\ Holds(kv, T) /\ Below(kv, Len(T))
    BY <1>2
  <2> HIDE DEF T
  <2>2. QED
    BY <1>2, <2>1, CpAllHolds
<1> HIDE DEF cells
<1>4. Holds(kv', Wanted) /\ Below(kv', size)
  BY <1>1, <1>2, <1>3 DEF cells
<1>5. QED
  BY <1>1, <1>4, SamplingRight

LEMMA DecodeHypsRight ==
    ASSUME TypeInv, CacheInv, NEW ok, DecodeHypotheses(ok)
    PROVE  CacheInv'
<1> SUFFICES ASSUME ~spoiled' PROVE CacheRight'
  BY DEF CacheInv
<1>1. /\ pc = "round" /\ pc' = "extend" /\ kv' = (IF ok THEN Decode(kv, NextTokens) ELSE kv)
      /\ UNCHANGED <<active, pastMixes, request, size>> /\ CacheRight
  BY DecodeHypsIs DEF CacheInv
<1>2. /\ kv \in Seq(Cells) /\ Wanted \in Seq(Tokens) /\ size = Len(Wanted) /\ size \in Nat
      /\ Holds(kv, Wanted) /\ Below(kv, size)
  BY <1>1, SamplingFrom
<1>3. NextTokens \in Seq(Entries) /\ \A i \in DOMAIN NextTokens : NextTokens[i].pos >= size
  BY NextTokensTyped
<1> DEFINE T == Wanted
           b == NextTokens
           cells == Decode(kv, b)
<1>4. Holds(cells, T) /\ Below(cells, Len(T))
  <2>1. /\ T \in Seq(Tokens) /\ Holds(kv, T) /\ Below(kv, Len(T))
        /\ b \in Seq(Entries) /\ \A i \in DOMAIN b : b[i].pos >= Len(T)
    BY <1>2, <1>3
  <2> HIDE DEF T, b
  <2>2. QED
    BY <1>2, <2>1, DecodeKeeps
<1> HIDE DEF cells
<1>5. Holds(kv', Wanted) /\ Below(kv', size)
  BY <1>1, <1>2, <1>4 DEF cells
<1>6. QED
  BY <1>1, <1>5, SamplingRight

LEMMA ExtendRight ==
    ASSUME TypeInv, CacheInv, NEW c \in Continuations(Len(hyps)), ExtendHypotheses(c)
    PROVE  CacheInv'
<1> SUFFICES ASSUME ~spoiled' PROVE CacheRight'
  BY DEF CacheInv
<1>1. /\ pc = "extend" /\ pc' = "round" /\ kv' = Reassign(Extended(c)).kv
      /\ UNCHANGED <<active, pastMixes, request, size>> /\ CacheRight
  BY ExtendIs DEF CacheInv
<1>2. /\ kv \in Seq(Cells) /\ Wanted \in Seq(Tokens) /\ size = Len(Wanted) /\ size \in Nat
      /\ Holds(kv, Wanted) /\ Below(kv, size)
  BY <1>1, SamplingFrom
<1> DEFINE T == Wanted
           x == Extended(c)
           cells == Reassign(x).kv
<1>3. x \in Seq(Hyps) /\ Len(x) <= Results
  <2>1. hyps \in Seq(Hyps) /\ Len(hyps) <= Results
    BY DEF TypeInv, HypsTyped
  <2>2. x \in Seq(Hyps) /\ Len(x) = Len(hyps)
    BY <2>1, ExtendedTyped
  <2> HIDE DEF x
  <2>3. QED
    BY <2>1, <2>2
<1>4. Holds(cells, T) /\ Below(cells, Len(T))
  <2>1. T \in Seq(Tokens) /\ Holds(kv, T) /\ Below(kv, Len(T))
    BY <1>2
  <2> HIDE DEF T, x
  <2>2. QED
    BY <1>2, <1>3, <2>1, ReassignFacts
<1> HIDE DEF cells
<1>5. Holds(kv', Wanted) /\ Below(kv', size)
  BY <1>1, <1>2, <1>4 DEF cells
<1>6. QED
  BY <1>1, <1>5, SamplingRight

LEMMA FinishRight ==
    ASSUME TypeInv, CacheInv, FinishSample
    PROVE  CacheInv'
<1> SUFFICES ASSUME ~spoiled' PROVE CacheRight'
  BY DEF CacheInv
<1>1. /\ pc = "round" /\ pc' = "idle" /\ kv' = RmAll(kv)
      /\ UNCHANGED <<active, pastMixes>> /\ CacheRight
  BY FinishIs DEF CacheInv
<1>2. kv \in Seq(Cells) /\ Wanted \in Seq(Tokens) /\ Holds(kv, Wanted)
  BY <1>1, SamplingFrom
<1> DEFINE T == Wanted
           cells == RmAll(kv)
<1>3. Holds(cells, T) /\ Own(cells)
  <2>1. T \in Seq(Tokens) /\ Holds(kv, T)
    BY <1>2
  <2> HIDE DEF T
  <2>2. QED
    BY <1>2, <2>1, RmAllHolds
<1> HIDE DEF cells
<1>4. Holds(kv', Wanted) /\ Own(kv)'
  BY <1>1, <1>3 DEF cells, Own
<1>5. QED
  BY <1>1, <1>4, AnsweredRight

LEMMA RequestsRight ==
    ASSUME TypeInv, CacheInv, NEW c \in Contexts,
           \/ PredictNextWord(c) \/ RescoreSuggestions(c)
           \/ \E mixes \in Mixes : PredictCorrection(c, mixes)
    PROVE  CacheInv'
BY AskedRight DEF PredictNextWord, RescoreSuggestions, PredictCorrection

LEMMA StepRight ==
    ASSUME MarkIsOurs, TypeInv, CacheInv, [Next]_vars
    PROVE  CacheInv'
<1>1. CASE UNCHANGED vars
  <2>1. UNCHANGED <<kv, active, pastMixes, pc, request, fed, size, logits, spoiled>>
    BY <1>1 DEF vars
  <2>2. Wanted' = Wanted
    BY <2>1 DEF Wanted
  <2>3. /\ Own(kv)' = Own(kv) /\ Below(kv, size)' = Below(kv, size)
        /\ Holds(kv, active \o pastMixes)' = Holds(kv, active \o pastMixes)
        /\ Holds(kv, request.prompt)' = Holds(kv, request.prompt)
        /\ Holds(kv, request.prompt \o pastMixes)' = Holds(kv, request.prompt \o pastMixes)
        /\ Holds(kv, Wanted)' = Holds(kv, Wanted)
    BY <2>1, <2>2 DEF Own, Below, Holds, At
  <2>4. ClaimRight' = ClaimRight /\ PromptRight' = PromptRight /\ WantedRight' = WantedRight
    BY <2>1, <2>2, <2>3 DEF ClaimRight, PromptRight, WantedRight
  <2>5. SequencesRight' = SequencesRight /\ LogitsRight' = LogitsRight
    BY <2>1, <2>2, <2>3 DEF SequencesRight, LogitsRight
  <2>6. QED
    BY <2>1, <2>4, <2>5 DEF CacheInv, CacheRight
<1>2. ASSUME NEW c \in Contexts,
             \/ PredictNextWord(c) \/ RescoreSuggestions(c)
             \/ \E mixes \in Mixes : PredictCorrection(c, mixes)
      PROVE  CacheInv'
  BY <1>2, RequestsRight
<1>3. CASE Reopen
  BY <1>3, ReopenRight
<1>4. CASE DecodePrompt
  BY <1>4, DecodePromptRight
<1>5. CASE PromptCached
  BY <1>5, PromptCachedRight
<1>6. CASE DecodeMixes
  BY <1>6, DecodeMixesRight
<1>7. CASE DecodePromptFails \/ (\E n \in 0..MaxTaps : DecodeMixesFails(n)) \/ HypothesisIsNaN
  BY <1>7, FailureRight
<1>8. CASE LogitsAreNaN \/ ResetCache \/ Rescored
  BY <1>8, EndsRight
<1>9. ASSUME NEW r \in Rankings(Results), BeginHypotheses(r) PROVE CacheInv'
  BY <1>9, BeginRight
<1>10. ASSUME NEW ok \in BOOLEAN, DecodeHypotheses(ok) PROVE CacheInv'
  BY <1>10, DecodeHypsRight
<1>11. ASSUME NEW c \in Continuations(Len(hyps)), ExtendHypotheses(c) PROVE CacheInv'
  BY <1>11, ExtendRight
<1>12. CASE FinishSample
  BY <1>12, FinishRight
<1>13. QED
  BY <1>1, <1>2, <1>3, <1>4, <1>5, <1>6, <1>7, <1>8, <1>9, <1>10, <1>11, <1>12 DEF Next

LEMMA RightIsForm == TypeInv /\ CacheInv => CacheIsWhatItClaims
<1> SUFFICES ASSUME TypeInv, CacheInv, pc = "idle", ~spoiled, active # << >>
             PROVE  Form(kv, Seen(kv, 0, Len(active \o pastMixes) - 1), active \o pastMixes)
  BY DEF CacheIsWhatItClaims
<1> DEFINE T == active \o pastMixes
           n == Len(T) - 1
<1>1. /\ T \in Seq(Tokens) /\ Len(T) \in Nat /\ Len(T) # 0
  <2>1. active \in Seq(Tokens) /\ pastMixes \in Seq(Tokens)
    BY TokensAre, MixesAre DEF TypeInv, CacheTyped
  <2>2. /\ T \in Seq(Tokens) /\ Len(T) = Len(active) + Len(pastMixes)
        /\ Len(active) \in Nat /\ Len(pastMixes) \in Nat
    BY <2>1, ConcatFacts
  <2>3. Len(active) # 0
    BY <2>1
  <2> HIDE DEF T
  <2>4. QED
    BY <2>2, <2>3
<1>2. Holds(kv, T) /\ kv \in Seq(Cells)
  BY DEF CacheInv, CacheRight, ClaimRight, TypeInv, CacheTyped
<1> HIDE DEF T
<1>3. n \in Nat /\ Len(T) <= n + 1 /\ \A q \in Nat : q <= n => q < Len(T)
  BY <1>1
<1> HIDE DEF n
<1>4. \A i \in Seen(kv, 0, n) : kv[i].pos < Len(T)
  <2> SUFFICES ASSUME NEW i \in Seen(kv, 0, n) PROVE kv[i].pos < Len(T)
    OBVIOUS
  <2>1. i \in DOMAIN kv /\ kv[i].pos <= n
    BY DEF Seen
  <2>2. kv[i] \in Cells
    BY <1>2, <2>1
  <2>3. kv[i].pos \in Nat
    BY <2>2, CellIs
  <2>4. QED
    BY <1>3, <2>1, <2>3
<1>5. Form(kv, Seen(kv, 0, n), T)
  BY <1>1, <1>2, <1>3, <1>4, HoldsForms
<1>6. QED
  BY <1>5 DEF T, n

\* Between requests the cache holds the text that active_context and past_mixes claim, for
\* any contexts, batch size and number of results, until a decoding fails: so the next
\* request may skip what it finds there (transformer_context_fastforward).
THEOREM LmCacheIsWhatItClaims ==
    ASSUME MarkIsOurs
    PROVE  Spec => []CacheIsWhatItClaims
<1>1. Init => TypeInv /\ CacheInv
  BY InitTyped, InitRight
<1>2. (TypeInv /\ CacheInv) /\ [Next]_vars => (TypeInv /\ CacheInv)'
  BY StepTyped, StepRight
<1>3. TypeInv /\ CacheInv => CacheIsWhatItClaims
  BY RightIsForm
<1>4. QED
  BY <1>1, <1>2, <1>3, PTL DEF Spec

\* The logits that are sampled continue exactly the text of the request (DecodePromptAndMixes),
\* though only what the cache lacked has been decoded for it.
THEOREM LmAnswersTheRequest ==
    ASSUME MarkIsOurs
    PROVE  Spec => []AnswersTheRequest
<1>1. Init => TypeInv /\ CacheInv
  BY InitTyped, InitRight
<1>2. (TypeInv /\ CacheInv) /\ [Next]_vars => (TypeInv /\ CacheInv)'
  BY StepTyped, StepRight
<1>3. CacheInv => AnswersTheRequest
  BY DEF CacheInv, CacheRight, WantedRight, LogitsRight, AnswersTheRequest
<1>4. QED
  BY <1>1, <1>2, <1>3, PTL DEF Spec
=============================================================================
