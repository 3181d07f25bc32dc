--------------------------- MODULE MCKeyboardState ---------------------------
(***************************************************************************)
(* KeyboardState driven by every callback with every argument.             *)
(***************************************************************************)
EXTENDS KeyboardState

\* No keyboard in the resources has a key with CODE_ALPHA_FROM_EMOJI.
InstalledCodes == Codes \ {"ALPHA_FROM_EMOJI"}

\* ENTER and OUTPUT_TEXT add nothing to a run about recapitalization: their
\* branches do not look at it.
RecapCodes == {"SHIFT", "CAPSLOCK", "SWITCH_ALPHA_SYMBOL", "LETTER", "SPACE"}
=============================================================================
