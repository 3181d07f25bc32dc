------------------------------- MODULE CapsLock -------------------------------
(***************************************************************************)
(* What KeyboardState.java promises about caps lock, with no word about how *)
(* it is kept.  Caps lock is one bit that the user turns over while the     *)
(* letters are on display.  Going to the symbols and back does not change   *)
(* it, and neither does reloading the keyboard after its state was saved    *)
(* (rotation): it forgets the lock only when nothing was saved.             *)
(*                                                                          *)
(* In the class the bit has three homes: AlphabetShiftState while the       *)
(* letters are shown, mPrevMainKeyboardWasShiftLocked while the symbols     *)
(* are, and SavedKeyboardState across a reload.                             *)
(***************************************************************************)
VARIABLES
    alphabet,   \* are the letters on display
    locked,     \* is caps lock on
    saved       \* the saved lock: "NONE", "LOCKED" or "UNLOCKED"

vars == <<alphabet, locked, saved>>

Init == alphabet = FALSE /\ locked = FALSE /\ saved = "NONE"

TurnOver == alphabet /\ locked' = ~locked /\ UNCHANGED <<alphabet, saved>>

ChangePage == alphabet' = ~alphabet /\ UNCHANGED <<locked, saved>>

Save == saved' = (IF locked THEN "LOCKED" ELSE "UNLOCKED") /\ UNCHANGED <<alphabet, locked>>

Load == /\ alphabet' \in BOOLEAN
        /\ locked' = (saved = "LOCKED")
        /\ saved' = "NONE"

Next == TurnOver \/ ChangePage \/ Save \/ Load

Spec == Init /\ [][Next]_vars
=============================================================================
