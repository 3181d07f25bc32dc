---------------------------- MODULE LearnedWords ----------------------------
(***************************************************************************)
(* What a typing-history dictionary promises its caller, without the tree  *)
(* that stores it: a word is absent, seen (typed, but not yet counted as a *)
(* word) or known, and an operation on one word says nothing about the     *)
(* others.  Only a compaction may forget several words at once.            *)
(***************************************************************************)
VARIABLE words      \* the sets of words seen and known, as a record

Nothing == [seen |-> {}, known |-> {}]

Init == words = Nothing

\* An absent word is seen or known at once; a seen word is known.
Learns(old, new) ==
  \/ /\ new.known = old.known
     /\ \E w \in new.seen \ old.known : new.seen = old.seen \cup {w}
  \/ \E w \in new.known :
       new = [seen |-> old.seen \ {w}, known |-> old.known \cup {w}]

\* Words are removed, or expire, and the others stay what they are.
Forgets(old, new) ==
  /\ new.seen \subseteq old.seen
  /\ new.known \subseteq old.known

Next == \E old \in {words}, new \in {words'} : Learns(old, new) \/ Forgets(old, new)

Spec == Init /\ [][Next]_words
=============================================================================
