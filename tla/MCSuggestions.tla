---------------------------- MODULE MCSuggestions ----------------------------
(* Instances of Suggestions.                                                  *)
EXTENDS Suggestions

CONSTANT null
=============================================================================
