---------------------------- MODULE PatriciaTrie ----------------------------
(***************************************************************************)
(* The updatable native dictionary (format 4): a patricia trie whose nodes *)
(* are appended to a buffer and never rewritten.  A node that has to       *)
(* change its letters or become terminal is written again at the tail, and *)
(* the old one forwards to it; arrays of siblings grow through forward     *)
(* links.  A lookup table leads from the terminal id of a word to its      *)
(* node, and the probability entries of words and word pairs are kept      *)
(* under terminal ids.  A compaction (flushWithGC) copies what is still    *)
(* needed into fresh buffers.  The context is a word, never the beginning  *)
(* of a sentence.                                                          *)
(***************************************************************************)
EXTENDS Naturals, Sequences, FiniteSets, SequencesExt

CONSTANTS
  Words,      \* the words that may be typed: nonempty sequences of letters
  Contexts,   \* the words that may stand before a typed word
  MaxNodes    \* buffer size, in nodes, from which updates are refused

ASSUME TrieAssumption ==
  /\ MaxNodes \in Nat
  /\ Contexts \subseteq Words
  /\ \A w \in Words : w \in Seq(Nat) /\ w # << >>

\* One record d holds the buffers of a dictionary:
\*   nodes   [chars, parent, id, kids, flag], named by their index; parent of a
\*           moved node is where it moved to; id 0 is not a terminal
\*   arrays  [members, next], named by their index; the first is the root's
\*   table   terminal id -> node, 0 when the word is gone
\*   count   terminal id -> 0 or 1 (at least once), or NoEntry
\*   pairs   the word pairs (previous id, id) that have an entry
VARIABLE d

NoEntry == 2
Min2(i, j) == IF i < j THEN i ELSE j

EmptyDict == [nodes  |-> << >>, arrays |-> <<[members |-> << >>, next |-> 0]>>,
              table  |-> << >>, count  |-> << >>, pairs |-> {}]

----------------------------------------------------------------------------
(* Reading *)

\* A moved node is read where it moved to.
Fetch(t, n) ==
  LET f[i \in 1..Len(t.nodes)] ==
        IF t.nodes[i].flag = "moved" THEN f[t.nodes[i].parent] ELSE i
  IN f[n]

\* The last array of a chain: its forward link is the one that is extended.
LastArray(t, a) ==
  LET f[i \in 1..Len(t.arrays)] ==
        IF t.arrays[i].next = 0 THEN i ELSE f[t.arrays[i].next]
  IN f[a]

\* The members of an array and of those it links to, in reading order.
Chain(t, a) ==
  LET f[i \in 1..Len(t.arrays)] ==
        t.arrays[i].members \o
          (IF t.arrays[i].next = 0 THEN << >> ELSE f[t.arrays[i].next])
  IN f[a]

\* All siblings of an array, read where they are.
Siblings(t, a) ==
  LET chain == Chain(t, a)
  IN [i \in 1..Len(chain) |-> Fetch(t, chain[i])]

\* Number of letters of the node that match the word from position k + 1 on.
Overlap(chars, w, k) ==
  CHOOSE o \in 0..Min2(Len(chars), Len(w) - k) :
    /\ \A i \in 1..o : chars[i] = w[k + i]
    /\ o = Min2(Len(chars), Len(w) - k) \/ chars[o + 1] # w[k + o + 1]

\* Where the walk for a word is: k letters are matched by the nodes down to
\* `node' (0 at the root), and the siblings of `array' are read next.
Places(t, w) ==
  [array : 1..Len(t.arrays), k : 0..Len(w), node : 0..Len(t.nodes)]

\* The sibling there that begins with the next letter, as a position; 0 if none.
Hit(t, w, p) ==
  SelectInSeq(Siblings(t, p.array), LAMBDA n : t.nodes[n].chars[1] = w[p.k + 1])

\* A node with the next letter, o letters of which match behind the k before it: the
\* word ends or leaves within it, ends on it, or goes on below it unless it is a leaf.
Matched(t, w, k, n, o) ==
  LET size == Len(t.nodes[n].chars)
      at(stop) == [stop |-> stop, node |-> n, k |-> k, overlap |-> o]
  IN CASE o < size -> at("within")
       [] o = size /\ k + o = Len(w) -> at("on")
       [] o = size /\ k + o < Len(w) -> at(IF t.nodes[n].kids = 0 THEN "leaf" ELSE "below")

MeetsNode(t, w, k, n) == Matched(t, w, k, n, Overlap(t.nodes[n].chars, w, k))

\* What the walk meets at a place: that node, or the end of the sibling chain.
Meets(t, w, p) ==
  IF Hit(t, w, p) = 0
    THEN [stop |-> "end", node |-> p.node, k |-> p.k, array |-> p.array]
    ELSE MeetsNode(t, w, p.k, Siblings(t, p.array)[Hit(t, w, p)])

\* The place below a node that the walk met.
Below(t, met) ==
  [array |-> t.nodes[met.node].kids, k |-> met.k + met.overlap, node |-> met.node]

\* The walk stops at what it met, or goes on below it.
GoOn(f, t, met) == IF met.stop = "below" THEN f[Below(t, met)] ELSE met

\* Where the walk for a word stops.
WalkFrom(t, w, place) ==
  LET f[p \in Places(t, w)] == GoOn(f, t, Meets(t, w, p))
  IN f[place]

Walk(t, w) == WalkFrom(t, w, [array |-> 1, k |-> 0, node |-> 0])

\* The terminal id of a word, 0 when it is not in the dictionary.
WordId(t, w) ==
  LET stop == Walk(t, w)
  IN IF stop.stop = "on" /\ t.nodes[stop.node].flag # "deleted"
       THEN t.nodes[stop.node].id ELSE 0

\* The letters of a node, read upwards through its parents.
SpelledBy(t, n) ==
  LET f[i \in 0..Len(t.nodes)] ==
        IF i = 0 THEN << >>
        ELSE f[IF t.nodes[i].parent = 0 THEN 0 ELSE Fetch(t, t.nodes[i].parent)]
               \o t.nodes[i].chars
  IN f[n]

----------------------------------------------------------------------------
(* Writing *)

NextNode(t) == Len(t.nodes) + 1
NextArray(t) == Len(t.arrays) + 1

\* TerminalPositionLookupTable::setTerminalPtNodePosition; a new id extends it.
SetTable(t, id, n) ==
  IF id > Len(t.table)
    THEN [t EXCEPT !.table = Append(@, n), !.count = Append(@, NoEntry)]
    ELSE [t EXCEPT !.table[id] = n]

\* Appends a node; a terminal without an id gets the next one.
WriteNode(t, chars, parent, id, kids, terminal) ==
  LET newId == IF id # 0 THEN id ELSE IF terminal THEN Len(t.table) + 1 ELSE 0
      u == IF newId = 0 THEN t ELSE SetTable(t, newId, NextNode(t))
  IN [u EXCEPT !.nodes = Append(@, [chars |-> chars, parent |-> parent, id |-> newId,
                                    kids |-> kids, flag |-> "none"])]

\* A word's node with its probability entry: typed words start at count 0.
WriteNewTerminal(t, chars, parent, id, kids) ==
  LET u == WriteNode(t, chars, parent, id, kids, TRUE)
  IN [u EXCEPT !.count[u.nodes[NextNode(t)].id] = 0]

AddArray(t, members) ==
  [t EXCEPT !.arrays = Append(@, [members |-> members, next |-> 0])]

\* The children of a node, read where they are, get another parent.
AdoptChildren(t, n, newParent) ==
  LET kids == IF t.nodes[n].kids = 0 THEN {} ELSE Range(Siblings(t, t.nodes[n].kids))
  IN [t EXCEPT !.nodes = [i \in DOMAIN @ |->
        IF i \in kids THEN [@[i] EXCEPT !.parent = newParent] ELSE @[i]]]

\* Bug: the children follow to where the node is forwarded.
MarkMovedKidsFollow(t, n, movedTo, newParent) ==
  AdoptChildren([t EXCEPT !.nodes[n].flag = "moved", !.nodes[n].parent = movedTo],
                n, movedTo)

\* The old node forwards to another; its children get a new parent.
MarkMoved(t, n, movedTo, newParent) ==
  AdoptChildren([t EXCEPT !.nodes[n].flag = "moved", !.nodes[n].parent = movedTo],
                n, newParent)

\* A one-node array, in a new array, for the rest of a word.
AddChildArray(t, parent, chars) ==
  WriteNewTerminal(AddArray(t, <<NextNode(t)>>), chars, parent, 0, 0)

\* createAndInsertNodeIntoPtNodeArray: the last link of the chain leads to it.
AppendSibling(t, a, parent, chars) ==
  AddChildArray([t EXCEPT !.arrays[LastArray(t, a)].next = NextArray(t)], parent, chars)

\* createChildrenPtNodeArrayAndAChildPtNode
AddFirstChild(t, n, chars) ==
  AddChildArray([t EXCEPT !.nodes[n].kids = NextArray(t)], n, chars)

\* reallocatePtNodeAndAddNewPtNodes: the node is split after o letters.  The
\* second part keeps its id and its children, also when the node was deleted;
\* what is left of the new word becomes its sibling, or else the first part is
\* the new word.
SplitNode(t, n, o, rest) ==
  LET node == t.nodes[n]
      first == NextNode(t)
      extra == Len(rest) > o
      t1 == IF extra THEN WriteNode(t, SubSeq(rest, 1, o), node.parent, 0, 0, FALSE)
            ELSE WriteNewTerminal(t, rest, node.parent, 0, 0)
      t2 == AddArray(t1, IF extra THEN <<first + 1, first + 2>> ELSE <<first + 1>>)
      t3 == WriteNode(t2, SubSeq(node.chars, o + 1, Len(node.chars)), first,
                      node.id, node.kids, node.id # 0)
      t4 == IF extra
              THEN WriteNewTerminal(t3, SubSeq(rest, o + 1, Len(rest)), first, 0, 0)
              ELSE t3
  IN [MarkMoved(t4, n, first, first + 1) EXCEPT !.nodes[first].kids = NextArray(t1)]

\* Bug: a node that becomes terminal is written again without its children.
SetProbabilityLosesChildren(t, n) ==
  LET node == t.nodes[n]
  IN IF node.id # 0 /\ node.flag # "deleted"
       THEN [t EXCEPT !.count[node.id] = 0]
       ELSE MarkMoved(WriteNewTerminal(t, node.chars, node.parent, node.id, 0),
                      n, NextNode(t), NextNode(t))

\* setPtNodeProbability: a word that is there gets a new entry, any other node is
\* written again as a terminal.
SetProbability(t, n) ==
  LET node == t.nodes[n]
  IN IF node.id # 0 /\ node.flag # "deleted"
       THEN [t EXCEPT !.count[node.id] = 0]
       ELSE MarkMoved(WriteNewTerminal(t, node.chars, node.parent, node.id, node.kids),
                      n, NextNode(t), NextNode(t))

AddUnigram(t, w) ==
  LET stop == Walk(t, w)
      rest == SubSeq(w, stop.k + 1, Len(w))
  IN CASE stop.stop = "end"    -> AppendSibling(t, stop.array, stop.node, rest)
       [] stop.stop = "within" -> SplitNode(t, stop.node, stop.overlap, rest)
       [] stop.stop = "on"     -> SetProbability(t, stop.node)
       [] stop.stop = "leaf"   ->
            AddFirstChild(t, stop.node, SubSeq(rest, stop.overlap + 1, Len(rest)))

\* The word's count goes up, and that of the pair when the word before is there.
UpdateAllEntries(t, before, w) ==
  LET id == WordId(t, w)
      prev == IF before = << >> THEN 0 ELSE WordId(t, before)
  IN [t EXCEPT !.count[id] = 1,
               !.pairs = IF prev = 0 THEN @ ELSE @ \cup {<<prev, id>>}]

\* Bug: the pairs the removed word begins are left behind.
RemoveUnigramKeepsPairs(t, w) ==
  LET id == WordId(t, w)
      n == t.table[id]
  IN [SetTable(t, id, 0) EXCEPT !.nodes[n].flag = "deleted", !.count[id] = NoEntry]

\* The entry goes with the pairs kept under it; the node and its id stay.
RemoveUnigram(t, w) ==
  LET id == WordId(t, w)
      n == t.table[id]
  IN [SetTable(t, id, 0) EXCEPT
        !.nodes[n].flag = "deleted", !.count[id] = NoEntry,
        !.pairs = {p \in @ : p[1] # id}]

----------------------------------------------------------------------------
(* Compaction *)

HasEntry(t, n) == t.nodes[n].id # 0 /\ t.count[t.nodes[n].id] # NoEntry

\* Bug: only a node's own entry counts.
SurvivorsWithEntry(g, t, sib) == {n \in Range(sib) : HasEntry(t, n)}

\* The siblings that survive when g are the survivors of other chains.  A node
\* survives with a valid entry or with surviving children; the number of children
\* is not reset for a leaf, which therefore sees that of the last sibling before
\* it that has any.
Survivors(g, t, sib) ==
  {sib[j] : j \in {k \in 1..Len(sib) :
     \/ HasEntry(t, sib[k])
     \/ LET last == {m \in 1..k : t.nodes[sib[m]].kids # 0}
        IN last # {} /\ g[t.nodes[sib[Max(last)]].kids] # {}}}

\* The nodes of a sibling chain that survive.
Surviving(t, a) ==
  LET f[i \in 1..Len(t.arrays)] == Survivors(f, t, Siblings(t, i))
  IN f[a]

\* Those whose children are copied with them.
WithKidsKept(t, a) ==
  {n \in Surviving(t, a) : t.nodes[n].kids # 0 /\ Surviving(t, t.nodes[n].kids) # {}}

\* Chains that are reached through surviving nodes.
ArraysFrom(t, a) ==
  LET f[i \in 1..Len(t.arrays)] ==
        {i} \cup UNION {f[t.nodes[n].kids] : n \in WithKidsKept(t, i)}
  IN f[a]

KeptArrays(t) == ArraysFrom(t, 1)

\* Position in the compacted buffer of the i-th of a set of old positions.
Rank(S, i) == Cardinality({j \in S : j <= i})

\* Bug: the ids of the pairs are copied as they are.
RenumberedPairsCopied(pairs, ids) == {p \in pairs : p[1] \in ids /\ p[2] \in ids}

\* Bug: the second word of a pair is not checked to have survived.
RenumberedPairsUnchecked(pairs, ids) ==
  {<<Rank(ids, p[1]), Rank(ids, p[2])>> : p \in {q \in pairs : q[1] \in ids}}

\* Pairs of surviving words, under their new ids.
RenumberedPairs(pairs, ids) ==
  {<<Rank(ids, p[1]), Rank(ids, p[2])>> :
     p \in {q \in pairs : q[1] \in ids /\ q[2] \in ids}}

\* What a compaction keeps: the nodes, and the ids of those that are words.
KeptNodes(t) == UNION {Surviving(t, a) : a \in KeptArrays(t)}

KeptIds(t) ==
  {i \in DOMAIN t.table :
     t.count[i] # NoEntry /\ \E n \in KeptNodes(t) : t.nodes[n].id = i}

\* Words without an entry lose their id, children nobody needs are not copied.
CopyNode(t, nodes, arrays, ids, n) ==
  LET node == t.nodes[n]
  IN [chars  |-> node.chars,
      parent |-> IF node.parent = 0 THEN 0 ELSE Rank(nodes, Fetch(t, node.parent)),
      id     |-> IF node.id \in ids THEN Rank(ids, node.id) ELSE 0,
      kids   |-> IF node.kids \in arrays THEN Rank(arrays, node.kids) ELSE 0,
      flag   |-> "none"]

\* A chain is packed into one array.
CopyArray(t, nodes, a) ==
  [members |-> FoldLeft(LAMBDA s, n : IF n \in nodes THEN Append(s, Rank(nodes, n)) ELSE s,
                        << >>, Siblings(t, a)),
   next    |-> 0]

\* The old position of what a set keeps at position i.
Kept(S, i) == CHOOSE x \in S : Rank(S, x) = i

Copied(t, nodes, arrays, ids) ==
  [nodes  |-> [i \in 1..Cardinality(nodes) |->
                 CopyNode(t, nodes, arrays, ids, Kept(nodes, i))],
   arrays |-> [i \in 1..Cardinality(arrays) |-> CopyArray(t, nodes, Kept(arrays, i))],
   table  |-> [i \in 1..Cardinality(ids) |-> Rank(nodes, t.table[Kept(ids, i)])],
   count  |-> [i \in 1..Cardinality(ids) |-> t.count[Kept(ids, i)]],
   pairs  |-> RenumberedPairs(t.pairs, ids)]

\* Entries that are too old or too many go first: the words expired, the pairs
\* expiredPairs.
Expire(t, expired, expiredPairs) ==
  [t EXCEPT !.count = [i \in DOMAIN @ |-> IF i \in expired THEN NoEntry ELSE @[i]],
            !.pairs = @ \ expiredPairs]

Compacted(t0, expired, expiredPairs) ==
  LET t == Expire(t0, expired, expiredPairs)
  IN Copied(t, KeptNodes(t), KeptArrays(t), KeptIds(t))

----------------------------------------------------------------------------
Init == d = EmptyDict

HasRoom == Len(d.nodes) < MaxNodes

\* updateEntriesForWordWithNgramContext after a committed word: a new word is only
\* remembered (count 0) unless it is valid; a word that is there is counted.
UpdateEntriesForWord(before, w, isValidWord) ==
  IF WordId(d, w) # 0
    THEN d' = UpdateAllEntries(d, before, w)
    ELSE /\ HasRoom
         /\ d' = IF isValidWord THEN UpdateAllEntries(AddUnigram(d, w), before, w)
                 ELSE AddUnigram(d, w)

RemoveUnigramEntry(w) ==
  /\ WordId(d, w) # 0
  /\ d' = RemoveUnigram(d, w)

FlushWithGC(expired, expiredPairs) == d' = Compacted(d, expired, expiredPairs)

Next ==
  \/ \E w \in Words, before \in Contexts \cup {<< >>}, v \in BOOLEAN :
       UpdateEntriesForWord(before, w, v)
  \/ \E w \in Words : RemoveUnigramEntry(w)
  \/ \E expired \in SUBSET DOMAIN d.table, expiredPairs \in SUBSET d.pairs :
       FlushWithGC(expired, expiredPairs)

Spec == Init /\ [][Next]_d

----------------------------------------------------------------------------
(* Properties *)

Ids == 1..Len(d.table)

\* Types: every link leads to a node or an array that exists, moved nodes forward
\* to later ones, and the two tables under terminal ids have the same length.
TrieTypeOK ==
  /\ \A n \in DOMAIN d.nodes :
       /\ d.nodes[n].chars \in Seq(Nat) /\ d.nodes[n].chars # << >>
       /\ d.nodes[n].flag \in {"none", "moved", "deleted"}
       /\ d.nodes[n].flag = "moved" => d.nodes[n].parent \in (n + 1)..Len(d.nodes)
       /\ d.nodes[n].parent \in 0..Len(d.nodes)
       /\ d.nodes[n].kids \in 0..Len(d.arrays)
       /\ d.nodes[n].id \in 0..Len(d.table)
  /\ \A a \in DOMAIN d.arrays :
       /\ Range(d.arrays[a].members) \subseteq DOMAIN d.nodes
       /\ d.arrays[a].next \in {0} \cup (a + 1)..Len(d.arrays)
  /\ d.table \in Seq(0..Len(d.nodes))
  /\ d.count \in [Ids -> 0..NoEntry]
  /\ d.pairs \subseteq Ids \X Ids

\* A word, its node and its id lead to each other, whatever was split, moved,
\* removed, typed again or compacted before: the walk down finds the node that the
\* lookup table names and whose way up spells the word, and every id in the table
\* is the id of the word its node spells.  Removals go through the table
\* (removeUnigramEntry), iteration and the context of pairs through the parents.
WordsRoundTrip ==
  /\ \A w \in Words : WordId(d, w) # 0 =>
       /\ d.table[WordId(d, w)] = Walk(d, w).node
       /\ SpelledBy(d, Walk(d, w).node) = w
  /\ \A id \in Ids : d.table[id] # 0 =>
       WordId(d, SpelledBy(d, d.table[id])) = id

\* An entry is the entry of a word that can be found: a count or the first word
\* of a pair never outlives its word, so a reused id never inherits a count.
EntriesBelongToWords ==
  /\ \A id \in Ids : d.count[id] # NoEntry => d.table[id] # 0
  /\ \A p \in d.pairs : d.table[p[1]] # 0

\* The words the dictionary enumerates, by the count of their entries.
WordsCounted(t, c) ==
  {SpelledBy(t, t.table[id]) :
     id \in {i \in DOMAIN t.table : t.count[i] = c}}

WordsWithEntry(t) == WordsCounted(t, 0) \cup WordsCounted(t, 1)

Learned == INSTANCE LearnedWords
  WITH words <- [seen |-> WordsCounted(d, 0), known |-> WordsCounted(d, 1)]

\* The trie keeps the promise of LearnedWords: an operation on a word changes no
\* other word, however the nodes they share are split and moved, and compaction
\* loses expired words only.
WordsAreIndependent == Learned!Spec

\* The pairs of words that predict: both words have an entry of their own.
PairsOfWords(t) ==
  {<<SpelledBy(t, t.table[p[1]]), SpelledBy(t, t.table[p[2]])>> :
     p \in {q \in t.pairs : t.count[q[1]] # NoEntry /\ t.count[q[2]] # NoEntry}}

\* A pair of words appears only when its second word is typed, or its first one
\* if that had no entry: renumbering the ids in a compaction never attaches a pair
\* to other words.  The first word may come second in time because a removed word
\* that is split is a word again, without an entry, and pairs are kept under it.
PairsComeFromTyping ==
  [][\A pair \in PairsOfWords(d') \ PairsOfWords(d) :
       \E w \in {pair[2]} \cup ({pair[1]} \ WordsWithEntry(d)),
          before \in Contexts \cup {<< >>}, valid \in BOOLEAN :
         UpdateEntriesForWord(before, w, valid)]_d

\* A compaction forgets no word and revives none: the words with an entry that has
\* not expired are the words with an entry after it, with the same counts, however
\* deep they are in the trie and whether or not the words they begin with expire.
CompactionKeepsWords ==
  \A expired \in SUBSET Ids :
    LET left == Compacted(d, expired, {})
    IN \A c \in {0, 1} : WordsCounted(left, c) = WordsCounted(Expire(d, expired, {}), c)
=============================================================================
