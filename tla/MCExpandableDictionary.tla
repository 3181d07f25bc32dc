----------------------- MODULE MCExpandableDictionary -----------------------
(* Instances of ExpandableDictionary: the main thread and one that suggests.   *)
EXTENDS ExpandableDictionary

CONSTANTS main, suggest, w1, none

CallingThreads == {main, suggest}
TypedWords == {w1}
=============================================================================
