----------------------------- MODULE ShiftStates -----------------------------
(***************************************************************************)
(* The three small state machines KeyboardState is built from, as pure     *)
(* operators: AlphabetShiftState.java (is the alphabet layout shifted or   *)
(* locked), ModifierKeyState.java (is the ?123 key down, and was another   *)
(* key pressed under it) and ShiftKeyState.java (the same for shift, which *)
(* also remembers that it went down on an already shifted layout).         *)
(***************************************************************************)

\* AlphabetShiftState.mState.
AlphabetShiftStates ==
    {"UNSHIFTED", "MANUAL_SHIFTED", "MANUAL_SHIFTED_FROM_AUTO",
     "AUTOMATIC_SHIFTED", "SHIFT_LOCKED", "SHIFT_LOCK_SHIFTED"}

IsShiftLocked(a)     == a \in {"SHIFT_LOCKED", "SHIFT_LOCK_SHIFTED"}
IsShiftLockShifted(a) == a = "SHIFT_LOCK_SHIFTED"
IsAutomaticShifted(a) == a = "AUTOMATIC_SHIFTED"
IsManualShifted(a)   == a \in {"MANUAL_SHIFTED", "MANUAL_SHIFTED_FROM_AUTO",
                               "SHIFT_LOCK_SHIFTED"}
IsShiftedOrShiftLocked(a) == a /= "UNSHIFTED"

\* setShifted(true): states that are shifted already stay as they are.
ShiftOn(a) == CASE a = "UNSHIFTED"         -> "MANUAL_SHIFTED"
                [] a = "AUTOMATIC_SHIFTED" -> "MANUAL_SHIFTED_FROM_AUTO"
                [] a = "SHIFT_LOCKED"      -> "SHIFT_LOCK_SHIFTED"
                [] OTHER                   -> a

\* setShifted(false): a locked alphabet stays locked.
ShiftOff(a) == IF IsShiftLocked(a) THEN "SHIFT_LOCKED" ELSE "UNSHIFTED"

\* setShiftLocked: locking leaves SHIFT_LOCK_SHIFTED alone, unlocking always
\* ends unshifted.
SetLocked(a, locked) ==
    IF ~locked THEN "UNSHIFTED"
    ELSE IF IsShiftLocked(a) THEN a ELSE "SHIFT_LOCKED"

-----------------------------------------------------------------------------
\* ModifierKeyState.mState and ShiftKeyState.mState.
ModifierKeyStates == {"RELEASING", "PRESSING", "CHORDING"}
ShiftKeyStates    == ModifierKeyStates \cup {"PRESSING_ON_SHIFTED", "IGNORING"}

\* ModifierKeyState.onOtherKeyPressed: a key pressed under a held modifier
\* makes a chord.
OtherKeyPressed(m) == IF m = "PRESSING" THEN "CHORDING" ELSE m

\* ShiftKeyState.onOtherKeyPressed.
OtherKeyPressedOnShift(m) ==
    IF m = "PRESSING_ON_SHIFTED" THEN "IGNORING" ELSE OtherKeyPressed(m)
=============================================================================
