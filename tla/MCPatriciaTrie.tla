--------------------------- MODULE MCPatriciaTrie ---------------------------
(* Instances of PatriciaTrie: words over two letters that share prefixes, so   *)
(* that each way of inserting a word happens.                                  *)
EXTENDS PatriciaTrie

a == 1
b == 2
WordSet == {<<a>>, <<a, b>>, <<a, b, a>>, <<a, b, b>>, <<b>>}
ContextSet == {<<a, b>>}
=============================================================================
