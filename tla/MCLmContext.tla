----------------------------- MODULE MCLmContext -----------------------------
(***************************************************************************)
(* Instances of LmContext: contexts that are prefixes of one another or     *)
(* differ, interchangeable taps and interchangeable tokens.                 *)
(***************************************************************************)
EXTENDS LmContext

CONSTANTS bos, c, d, a, b, x, y, z

TwoContexts == {<<bos>>, <<bos, c>>}
OneContext == {<<bos, c>>}

TwoTaps == {a, b}
OpenTokens == {x, y}
ClosingTokens == {z}

Interchangeable == Permutations(TwoTaps) \cup Permutations(OpenTokens)
=============================================================================
