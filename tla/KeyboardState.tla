---------------------------- MODULE KeyboardState ----------------------------
(***************************************************************************)
(* keyboard/internal/KeyboardState.java: which layout the keyboard shows.  *)
(*                                                                         *)
(* The object is one record `kb'.  A method of the class is an operator    *)
(* from the record before the call to the record after it, so that the     *)
(* nested calls of the source (toggleAlphabetAndSymbols calls              *)
(* setAlphabetKeyboard, which calls requestUpdatingShiftState, which       *)
(* KeyboardSwitcher answers by calling onUpdateShiftState at once) compose *)
(* as they do there.  Three fields belong to the SwitchActions side:       *)
(* `layout', the keyboard KeyboardSwitcher displays, `displayed', whether  *)
(* the last callback displayed one, and `doubleTapTimer', whether          *)
(* MSG_DOUBLE_TAP_SHIFT_KEY is queued in TimerHandler.                     *)
(*                                                                         *)
(* The specification at the end drives the object by its callbacks in any  *)
(* order with any arguments: whatever it shows holds for every caller.     *)
(***************************************************************************)
EXTENDS ShiftStates

CONSTANTS
    AutoCaps,        \* values of autoCapsFlags the editor can report
    RecapModes,      \* values of recapitalizeMode the caller can report
    KeyCodes         \* codes of the keys the installed layouts have

AlphabetLayouts ==
    {"ALPHABET", "ALPHABET_MANUAL_SHIFTED", "ALPHABET_AUTOMATIC_SHIFTED",
     "ALPHABET_SHIFT_LOCKED", "ALPHABET_SHIFT_LOCK_SHIFTED"}
SymbolLayouts == {"SYMBOLS", "SYMBOLS_SHIFTED"}

SwitchStates ==
    {"ALPHA", "SYMBOL_BEGIN", "SYMBOL", "MOMENTARY_ALPHA_AND_SYMBOL",
     "MOMENTARY_SYMBOL_AND_MORE", "MOMENTARY_ALPHA_SHIFT"}
ShiftModes == {"UNSHIFT", "MANUAL_SHIFT", "AUTOMATIC_SHIFT", "SHIFT_LOCK_SHIFTED"}

\* The key codes the class tells apart.  LETTER is any printable code except
\* space (Constants.isLetterCode also holds of SPACE), OTHER any remaining
\* functional code (delete, language switch ...).
Codes == {"SHIFT", "CAPSLOCK", "SWITCH_ALPHA_SYMBOL", "LETTER", "SPACE", "ENTER",
          "OUTPUT_TEXT", "EMOJI", "ALPHA_FROM_EMOJI", "OTHER"}

\* getCurrentAutoCapsState() is CAP_MODE_OFF, CAP_MODE_CHARACTERS or another
\* non-zero mode; a recapitalize mode is NONE when no recapitalization runs,
\* and ALL_LOWER also stands for ORIGINAL_MIXED_CASE, which is treated alike.
ASSUME CapsAssumption ==
    /\ AutoCaps \subseteq {"OFF", "WORDS", "CHARACTERS"}
    /\ RecapModes \subseteq {"NONE", "ALL_LOWER", "FIRST_WORD_UPPER", "ALL_UPPER"}
    /\ KeyCodes \subseteq Codes

IsLetterCode(code)   == code \in {"LETTER", "SPACE"}
IsSpaceOrEnter(code) == code \in {"SPACE", "ENTER"}

SavedStates ==
    [isValid : BOOLEAN, isAlphabetMode : BOOLEAN, isAlphabetShiftLocked : BOOLEAN,
     isEmojiMode : BOOLEAN, shiftMode : ShiftModes]

KeyboardStates ==
    [switchState          : SwitchStates,
     isAlphabetMode       : BOOLEAN,
     isEmojiMode          : BOOLEAN,
     alphabetShift        : AlphabetShiftStates,
     isSymbolShifted      : BOOLEAN,
     prevMainShiftLocked  : BOOLEAN,   \* mPrevMainKeyboardWasShiftLocked
     prevSymbolsShifted   : BOOLEAN,   \* mPrevSymbolsKeyboardWasShifted
     recapitalizeMode     : RecapModes \cup {"NONE"},
     unshiftedFromShifted : BOOLEAN,   \* mIsInAlphabetUnshiftedFromShifted
     inDoubleTapShift     : BOOLEAN,   \* mIsInDoubleTapShiftKey
     shiftKey             : ShiftKeyStates,
     symbolKey            : ModifierKeyStates,
     saved                : SavedStates,
     layout               : AlphabetLayouts \cup SymbolLayouts \cup {"NO_LAYOUT"},
     displayed            : BOOLEAN,
     doubleTapTimer       : BOOLEAN]

\* A new KeyboardState, before KeyboardSwitcher has loaded any keyboard.
NewKeyboardState ==
    [switchState |-> "ALPHA", isAlphabetMode |-> FALSE, isEmojiMode |-> FALSE,
     alphabetShift |-> "UNSHIFTED", isSymbolShifted |-> FALSE,
     prevMainShiftLocked |-> FALSE, prevSymbolsShifted |-> FALSE,
     recapitalizeMode |-> "NONE", unshiftedFromShifted |-> FALSE,
     inDoubleTapShift |-> FALSE, shiftKey |-> "RELEASING", symbolKey |-> "RELEASING",
     saved |-> [isValid |-> FALSE, isAlphabetMode |-> FALSE,
                isAlphabetShiftLocked |-> FALSE, isEmojiMode |-> FALSE,
                shiftMode |-> "UNSHIFT"],
     layout |-> "NO_LAYOUT", displayed |-> FALSE, doubleTapTimer |-> FALSE]

-----------------------------------------------------------------------------
(***************************************************************************)
(* The shift state of the alphabet layout.                                 *)
(***************************************************************************)

\* Bug: the hand-shifted states are forgotten.
PrevShiftModeForgetsManual(k) ==
    IF IsAutomaticShifted(k.alphabetShift) THEN "AUTOMATIC_SHIFT" ELSE "UNSHIFT"

PrevShiftMode(k) ==
    CASE IsAutomaticShifted(k.alphabetShift) -> "AUTOMATIC_SHIFT"
      [] IsManualShifted(k.alphabetShift)    -> "MANUAL_SHIFT"
      [] OTHER                               -> "UNSHIFT"

LayoutOfShiftMode ==
    [UNSHIFT            |-> "ALPHABET",
     MANUAL_SHIFT       |-> "ALPHABET_MANUAL_SHIFTED",
     AUTOMATIC_SHIFT    |-> "ALPHABET_AUTOMATIC_SHIFTED",
     SHIFT_LOCK_SHIFTED |-> "ALPHABET_SHIFT_LOCK_SHIFTED"]

\* One SwitchActions.set...Keyboard call.
Display(k, layout) == [k EXCEPT !.layout = layout, !.displayed = TRUE]

\* Bug: shift modes taken for layouts.
SetShiftedDrawsMode(k, mode) ==
    IF ~k.isAlphabetMode THEN k
    ELSE [Display(k, mode) EXCEPT !.alphabetShift =
            IF mode = "UNSHIFT" THEN ShiftOff(@) ELSE ShiftOn(@)]

\* The layout is only displayed again when the mode differs from the previous one.
SetShifted(k, mode) ==
    LET d == IF mode = PrevShiftMode(k) THEN k ELSE Display(k, LayoutOfShiftMode[mode])
    IN  IF ~k.isAlphabetMode THEN k
        ELSE [d EXCEPT !.alphabetShift = CASE mode = "AUTOMATIC_SHIFT" -> "AUTOMATIC_SHIFTED"
                                           [] mode = "UNSHIFT"         -> ShiftOff(@)
                                           [] OTHER                    -> ShiftOn(@)]

\* Bug: unlocking does not redraw.
SetShiftLockedKeepsLayout(k, locked) ==
    LET d == IF locked THEN Display(k, "ALPHABET_SHIFT_LOCKED") ELSE k
    IN  IF ~k.isAlphabetMode THEN k ELSE [d EXCEPT !.alphabetShift = SetLocked(@, locked)]

SetShiftLocked(k, locked) ==
    LET a == k.alphabetShift
        d == CASE locked /\ (~IsShiftLocked(a) \/ IsShiftLockShifted(a)) ->
                    Display(k, "ALPHABET_SHIFT_LOCKED")
               [] ~locked /\ IsShiftLocked(a) -> Display(k, "ALPHABET")
               [] OTHER -> k
    IN  IF ~k.isAlphabetMode THEN k ELSE [d EXCEPT !.alphabetShift = SetLocked(a, locked)]

UpdateShiftStateForRecapitalize(k, recap) ==
    SetShifted(k, CASE recap = "ALL_UPPER"        -> "SHIFT_LOCK_SHIFTED"
                    [] recap = "FIRST_WORD_UPPER" -> "AUTOMATIC_SHIFT"
                    [] OTHER                      -> "UNSHIFT")

\* Bug: updates are not ignored under shift lock.
UpdateBreaksLock(k, caps, recap) ==
    IF ~k.isAlphabetMode THEN k
    ELSE IF recap /= "NONE" THEN UpdateShiftStateForRecapitalize(k, recap)
    ELSE IF k.shiftKey /= "RELEASING" THEN k
    ELSE SetShifted(k, IF caps /= "OFF" THEN "AUTOMATIC_SHIFT" ELSE "UNSHIFT")

\* Bug: updates are not ignored while the shift key is held.
UpdateUnderHeldShift(k, caps, recap) ==
    IF ~k.isAlphabetMode THEN k
    ELSE IF recap /= "NONE" THEN UpdateShiftStateForRecapitalize(k, recap)
    ELSE IF IsShiftLocked(k.alphabetShift) THEN k
    ELSE SetShifted(k, IF caps /= "OFF" THEN "AUTOMATIC_SHIFT" ELSE "UNSHIFT")

\* Ignored while the shift key is held, and while shift lock is on.  (The
\* inner tests of the source on a chording or ignoring shift key are dead:
\* the key is RELEASING there.)
UpdateAlphabetShiftState(k, caps, recap) ==
    IF ~k.isAlphabetMode THEN k
    ELSE IF recap /= "NONE" THEN UpdateShiftStateForRecapitalize(k, recap)
    ELSE IF k.shiftKey /= "RELEASING" \/ IsShiftLocked(k.alphabetShift) THEN k
    ELSE SetShifted(k, IF caps /= "OFF" THEN "AUTOMATIC_SHIFT" ELSE "UNSHIFT")

OnUpdateShiftState(k, caps, recap) ==
    UpdateAlphabetShiftState([k EXCEPT !.recapitalizeMode = recap], caps, recap)

-----------------------------------------------------------------------------
(***************************************************************************)
(* Switching between alphabet and symbols.                                 *)
(***************************************************************************)

\* Bug: the symbols' shift outlives the symbols.
AlphabetKeepsSymbolShift(k, caps, recap) ==
    OnUpdateShiftState(
        [Display(k, "ALPHABET") EXCEPT
            !.isAlphabetMode = TRUE, !.isEmojiMode = FALSE,
            !.recapitalizeMode = "NONE", !.switchState = "ALPHA"],
        caps, recap)

SetAlphabetKeyboard(k, caps, recap) ==
    OnUpdateShiftState(
        [Display(k, "ALPHABET") EXCEPT
            !.isAlphabetMode = TRUE, !.isEmojiMode = FALSE, !.isSymbolShifted = FALSE,
            !.recapitalizeMode = "NONE", !.switchState = "ALPHA"],
        caps, recap)

\* setSymbolsKeyboard and setSymbolsShiftedKeyboard.
SetSymbols(k, shifted) ==
    [Display(k, IF shifted THEN "SYMBOLS_SHIFTED" ELSE "SYMBOLS") EXCEPT
        !.isAlphabetMode = FALSE, !.isSymbolShifted = shifted, !.recapitalizeMode = "NONE",
        !.alphabetShift = SetLocked(@, FALSE), !.switchState = "SYMBOL_BEGIN"]

\* The part shared by toggleAlphabetAndSymbols and resetKeyboardStateToAlphabet.
BackToAlphabet(k, caps, recap) ==
    LET a == SetAlphabetKeyboard([k EXCEPT !.prevSymbolsShifted = k.isSymbolShifted], caps, recap)
        l == IF a.prevMainShiftLocked THEN SetShiftLocked(a, TRUE) ELSE a
    IN  [l EXCEPT !.prevMainShiftLocked = FALSE]

\* Bug: the lock is saved after setSymbolsKeyboard has cleared it.
ToggleSavesLockTooLate(k, caps, recap) ==
    LET s == SetSymbols(k, k.prevSymbolsShifted)
    IN  IF k.isAlphabetMode
        THEN [s EXCEPT !.prevMainShiftLocked = IsShiftLocked(s.alphabetShift),
                       !.prevSymbolsShifted = FALSE]
        ELSE BackToAlphabet(k, caps, recap)

ToggleAlphabetAndSymbols(k, caps, recap) ==
    IF k.isAlphabetMode
    THEN [SetSymbols(k, k.prevSymbolsShifted) EXCEPT
            !.prevMainShiftLocked = IsShiftLocked(k.alphabetShift),
            !.prevSymbolsShifted = FALSE]
    ELSE BackToAlphabet(k, caps, recap)

ResetKeyboardStateToAlphabet(k, caps, recap) ==
    IF k.isAlphabetMode THEN k ELSE BackToAlphabet(k, caps, recap)

ToggleShiftInSymbols(k) == SetSymbols(k, ~k.isSymbolShifted)

-----------------------------------------------------------------------------
(***************************************************************************)
(* Saving the state before a reload (rotation, memory trim) and restoring  *)
(* it when the new keyboard is loaded.                                     *)
(***************************************************************************)

SaveKeyboardState(k) ==
    [k EXCEPT !.saved =
        IF k.isAlphabetMode
        THEN [isValid |-> TRUE, isAlphabetMode |-> TRUE, isEmojiMode |-> k.isEmojiMode,
              isAlphabetShiftLocked |-> IsShiftLocked(k.alphabetShift),
              shiftMode |-> IF IsAutomaticShifted(k.alphabetShift) THEN "AUTOMATIC_SHIFT"
                            ELSE IF IsShiftedOrShiftLocked(k.alphabetShift) THEN "MANUAL_SHIFT"
                            ELSE "UNSHIFT"]
        ELSE [isValid |-> TRUE, isAlphabetMode |-> FALSE, isEmojiMode |-> k.isEmojiMode,
              isAlphabetShiftLocked |-> k.prevMainShiftLocked,
              shiftMode |-> IF k.isSymbolShifted THEN "MANUAL_SHIFT" ELSE "UNSHIFT"]]

\* setEmojiKeyboard asks the UI for the emoji panel and changes no field, so a
\* saved emoji mode restores nothing more than the previous lock.
RestoreKeyboardState(k, caps, recap) ==
    LET s == k.saved
        p == [k EXCEPT !.prevMainShiftLocked = s.isAlphabetShiftLocked]
        a == SetShiftLocked(SetAlphabetKeyboard(p, caps, recap), s.isAlphabetShiftLocked)
    IN  CASE s.isAlphabetMode -> IF s.isAlphabetShiftLocked THEN a
                                 ELSE SetShifted(a, s.shiftMode)
          [] ~s.isAlphabetMode /\ s.isEmojiMode -> p
          [] OTHER -> SetSymbols(p, s.shiftMode = "MANUAL_SHIFT")

\* A saved state is used once; its fields are dead until the next save.
LoadKeyboard(k, caps, recap) ==
    LET r == [k EXCEPT !.alphabetShift = SetLocked(@, FALSE),
                       !.prevMainShiftLocked = FALSE, !.prevSymbolsShifted = FALSE,
                       !.shiftKey = "RELEASING", !.symbolKey = "RELEASING"]
    IN  IF k.saved.isValid
        THEN [RestoreKeyboardState(r, caps, recap) EXCEPT !.saved = NewKeyboardState.saved]
        ELSE SetAlphabetKeyboard(r, caps, recap)

-----------------------------------------------------------------------------
(***************************************************************************)
(* The shift key.                                                          *)
(***************************************************************************)

PressShiftAgain(k) ==           \* the second tap of a double tap
    LET d == [k EXCEPT !.inDoubleTapShift = TRUE]
    IN  IF IsManualShifted(k.alphabetShift) \/ k.unshiftedFromShifted
        THEN SetShiftLocked(d, TRUE) ELSE d

PressShiftOnce(k) ==
    LET f == [k EXCEPT !.inDoubleTapShift = FALSE, !.doubleTapTimer = TRUE]
        a == k.alphabetShift
    IN  CASE IsShiftLocked(a) ->
               [SetShifted(f, "SHIFT_LOCK_SHIFTED") EXCEPT !.shiftKey = "PRESSING"]
          [] IsManualShifted(a) /\ ~IsShiftLocked(a) ->
               [f EXCEPT !.shiftKey = "PRESSING_ON_SHIFTED"]
          [] OTHER ->
               [SetShifted(f, "MANUAL_SHIFT") EXCEPT !.shiftKey = "PRESSING"]

PressShift(k) ==
    CASE k.recapitalizeMode /= "NONE" -> k
      [] k.recapitalizeMode = "NONE" /\ k.isAlphabetMode ->
            IF k.doubleTapTimer THEN PressShiftAgain(k) ELSE PressShiftOnce(k)
      [] OTHER -> [ToggleShiftInSymbols(k) EXCEPT
                     !.switchState = "MOMENTARY_SYMBOL_AND_MORE", !.shiftKey = "PRESSING"]

\* Shift released on the alphabet layout without a chord and outside a double
\* tap: the last alternative is "nothing to do".
ReleasePlainShift(k, sliding) ==
    LET a == k.alphabetShift
        held == k.shiftKey \in {"PRESSING", "PRESSING_ON_SHIFTED"}
        unshift == [SetShifted(k, "UNSHIFT") EXCEPT !.unshiftedFromShifted = TRUE]
    IN  IF IsShiftLockShifted(a) /\ sliding THEN SetShiftLocked(k, TRUE)
        ELSE IF IsManualShifted(a) /\ sliding
             THEN [k EXCEPT !.switchState = "MOMENTARY_ALPHA_SHIFT"]
        ELSE IF IsShiftLocked(a) /\ ~IsShiftLockShifted(a) /\ held /\ ~sliding
             THEN k                                  \* long press locked it
        ELSE IF IsShiftLocked(a) /\ k.shiftKey /= "IGNORING" /\ ~sliding
             THEN SetShiftLocked(k, FALSE)
        ELSE IF IsShiftedOrShiftLocked(a) /\ k.shiftKey = "PRESSING_ON_SHIFTED" /\ ~sliding
             THEN unshift
        ELSE IF a = "MANUAL_SHIFTED_FROM_AUTO" /\ k.shiftKey = "PRESSING" /\ ~sliding
             THEN unshift
        ELSE k

ReleaseChordedShift(k, caps, recap) ==
    LET u == IF IsShiftLockShifted(k.alphabetShift) THEN SetShiftLocked(k, TRUE)
             ELSE SetShifted(k, "UNSHIFT")
    IN  OnUpdateShiftState([u EXCEPT !.shiftKey = "RELEASING"], caps, recap)

ReleaseShift(k, sliding, caps, recap) ==
    LET r == [k EXCEPT !.unshiftedFromShifted = FALSE]
        after ==
          CASE k.recapitalizeMode /= "NONE" ->
                 UpdateShiftStateForRecapitalize(k, k.recapitalizeMode)
            [] k.recapitalizeMode = "NONE" /\ k.isAlphabetMode ->
                 IF k.inDoubleTapShift THEN [r EXCEPT !.inDoubleTapShift = FALSE]
                 ELSE IF k.shiftKey = "CHORDING" THEN ReleaseChordedShift(r, caps, recap)
                 ELSE ReleasePlainShift(r, sliding)
            [] OTHER -> IF k.shiftKey = "CHORDING" THEN ToggleShiftInSymbols(k) ELSE k
    IN  [after EXCEPT !.shiftKey = "RELEASING"]

-----------------------------------------------------------------------------
(***************************************************************************)
(* The ?123 / ABC key.                                                     *)
(***************************************************************************)

\* Bug: the momentary state is entered before the toggle, which leaves it.
PressSymbolTooEarly(k, caps, recap) ==
    [ToggleAlphabetAndSymbols([k EXCEPT !.switchState = "MOMENTARY_ALPHA_AND_SYMBOL"], caps, recap)
        EXCEPT !.symbolKey = "PRESSING"]

PressSymbol(k, caps, recap) ==
    [ToggleAlphabetAndSymbols(k, caps, recap) EXCEPT
        !.symbolKey = "PRESSING", !.switchState = "MOMENTARY_ALPHA_AND_SYMBOL"]

ReleaseSymbol(k, sliding, caps, recap) ==
    LET after == IF k.symbolKey = "CHORDING" THEN ToggleAlphabetAndSymbols(k, caps, recap)
                 ELSE IF ~sliding THEN [k EXCEPT !.prevSymbolsShifted = FALSE] ELSE k
    IN  [after EXCEPT !.symbolKey = "RELEASING"]

-----------------------------------------------------------------------------
(***************************************************************************)
(* The events KeyboardSwitcher passes on.                                  *)
(***************************************************************************)

\* A press of a key that is no modifier; `single' is false when another
\* finger is on the keyboard.  Auto caps is reset on the display only: the
\* alphabet shift state keeps its value.
PressOther(k, single, caps) ==
    LET reset == /\ ~single /\ k.isAlphabetMode /\ caps /= "CHARACTERS"
                 /\ \/ IsAutomaticShifted(k.alphabetShift)
                    \/ IsManualShifted(k.alphabetShift) /\ k.shiftKey = "RELEASING"
        d == IF reset THEN Display(k, "ALPHABET") ELSE k
    IN  [d EXCEPT !.shiftKey = OtherKeyPressedOnShift(@), !.symbolKey = OtherKeyPressed(@)]

OnPressKey(k, code, single, caps, recap) ==
    LET t == IF code = "SHIFT" THEN k ELSE [k EXCEPT !.doubleTapTimer = FALSE]
    IN  CASE code = "SHIFT"               -> PressShift(t)
          [] code = "CAPSLOCK"            -> t
          [] code = "SWITCH_ALPHA_SYMBOL" -> PressSymbol(t, caps, recap)
          [] OTHER                        -> PressOther(t, single, caps)

OnReleaseKey(k, code, sliding, caps, recap) ==
    CASE code = "SHIFT"               -> ReleaseShift(k, sliding, caps, recap)
      [] code = "CAPSLOCK"            -> SetShiftLocked(k, ~IsShiftLocked(k.alphabetShift))
      [] code = "SWITCH_ALPHA_SYMBOL" -> ReleaseSymbol(k, sliding, caps, recap)
      [] OTHER                        -> k

\* Bug: a slide from shift is not finished.
FinishSlidingForgetsShift(k, caps, recap) ==
    CASE k.switchState = "MOMENTARY_ALPHA_AND_SYMBOL" -> ToggleAlphabetAndSymbols(k, caps, recap)
      [] k.switchState = "MOMENTARY_SYMBOL_AND_MORE"  -> ToggleShiftInSymbols(k)
      [] OTHER                                        -> k

OnFinishSlidingInput(k, caps, recap) ==
    CASE k.switchState = "MOMENTARY_ALPHA_AND_SYMBOL" -> ToggleAlphabetAndSymbols(k, caps, recap)
      [] k.switchState = "MOMENTARY_SYMBOL_AND_MORE"  -> ToggleShiftInSymbols(k)
      [] k.switchState = "MOMENTARY_ALPHA_SHIFT"      -> SetAlphabetKeyboard(k, caps, recap)
      [] OTHER                                        -> k

\* The switch-state part of onEvent: leave a momentary state when the modifier
\* itself is typed, leave the symbols by a space after a symbol.
AdvanceSwitchState(k, code, caps, recap) ==
    CASE k.switchState = "MOMENTARY_ALPHA_AND_SYMBOL" /\ code = "SWITCH_ALPHA_SYMBOL" ->
           [k EXCEPT !.switchState = IF k.isAlphabetMode THEN "ALPHA" ELSE "SYMBOL_BEGIN"]
      [] k.switchState = "MOMENTARY_SYMBOL_AND_MORE" /\ code = "SHIFT" ->
           [k EXCEPT !.switchState = "SYMBOL_BEGIN"]
      [] /\ k.switchState = "SYMBOL_BEGIN" /\ ~k.isEmojiMode
         /\ ~IsSpaceOrEnter(code) /\ (IsLetterCode(code) \/ code = "OUTPUT_TEXT") ->
           [k EXCEPT !.switchState = "SYMBOL"]
      [] k.switchState = "SYMBOL" /\ IsSpaceOrEnter(code) ->
           [ToggleAlphabetAndSymbols(k, caps, recap) EXCEPT !.prevSymbolsShifted = FALSE]
      [] OTHER -> k

OnEvent(k, code, caps, recap) ==
    LET s == AdvanceSwitchState(k, code, caps, recap)
    IN  CASE IsLetterCode(code)         -> UpdateAlphabetShiftState(s, caps, recap)
          [] code = "ALPHA_FROM_EMOJI"  -> SetAlphabetKeyboard(s, caps, recap)
          [] OTHER                      -> s      \* CODE_EMOJI opens a panel only

-----------------------------------------------------------------------------
(***************************************************************************)
(* The open environment: KeyboardSwitcher and LatinIME call the object in  *)
(* any order.  A touch callback needs a keyboard on display.               *)
(***************************************************************************)
VARIABLE kb

Shown == kb.layout /= "NO_LAYOUT"

\* The record as a callback finds it: nothing displayed yet.
Idle == [kb EXCEPT !.displayed = FALSE]

Init == kb = NewKeyboardState

Load(caps, recap)        == kb' = LoadKeyboard(Idle, caps, recap)
Save                     == Shown /\ kb' = SaveKeyboardState(Idle)
UpdateShift(caps, recap) == kb' = OnUpdateShiftState(Idle, caps, recap)
ResetToAlphabet(caps, recap) ==
    Shown /\ kb' = ResetKeyboardStateToAlphabet(Idle, caps, recap)
PressKey(code, single, caps, recap) ==
    Shown /\ kb' = OnPressKey(Idle, code, single, caps, recap)
ReleaseKey(code, sliding, caps, recap) ==
    Shown /\ kb' = OnReleaseKey(Idle, code, sliding, caps, recap)
FinishSliding(caps, recap) == Shown /\ kb' = OnFinishSlidingInput(Idle, caps, recap)
Type(code, caps, recap)    == Shown /\ kb' = OnEvent(Idle, code, caps, recap)
DoubleTapTimeout ==
    kb.doubleTapTimer /\ kb' = [Idle EXCEPT !.doubleTapTimer = FALSE]

Next ==
    \/ Save
    \/ DoubleTapTimeout
    \/ \E caps \in AutoCaps, recap \in RecapModes :
          \/ Load(caps, recap)
          \/ UpdateShift(caps, recap)
          \/ ResetToAlphabet(caps, recap)
          \/ FinishSliding(caps, recap)
          \/ \E code \in KeyCodes :
                \/ \E single  \in BOOLEAN : PressKey(code, single, caps, recap)
                \/ \E sliding \in BOOLEAN : ReleaseKey(code, sliding, caps, recap)
                \/ Type(code, caps, recap)

Spec == Init /\ [][Next]_kb

TypeOK == kb \in KeyboardStates

-----------------------------------------------------------------------------
(***************************************************************************)
(* Safety.                                                                 *)
(***************************************************************************)

PagesIn(k) ==
    /\ k.isAlphabetMode <=> k.layout \in AlphabetLayouts
    /\ ~k.isAlphabetMode => k.alphabetShift = "UNSHIFTED"
    /\ k.isSymbolShifted <=> k.layout = "SYMBOLS_SHIFTED"
    /\ k.switchState = "MOMENTARY_ALPHA_SHIFT" => k.isAlphabetMode
    /\ k.switchState = "ALPHA" => k.layout \notin SymbolLayouts
    /\ k.switchState \in {"SYMBOL_BEGIN", "SYMBOL", "MOMENTARY_SYMBOL_AND_MORE"} =>
         k.layout \in SymbolLayouts

LockDrawnIn(k) == k.layout = "ALPHABET_SHIFT_LOCKED" => IsShiftLocked(k.alphabetShift)

\* The alphabet and symbol flags, the switch state and the keyboard on display
\* never disagree, although each method sets only some of them: the pages are
\* exclusive, and every switch state but the momentary ?123 one belongs to one
\* page.  (A TODO in the class asks to merge the fields for this reason.)
PagesCoherent == PagesIn(kb)

\* A keyboard drawn as shift locked is locked: setShiftLocked and setShifted
\* skip the redraw when the old state tells them it is not needed.
LockDisplayHonest == LockDrawnIn(kb)

\* Outside recapitalization (RecapModes = {"NONE"}), a keyboard drawn as
\* shifted by hand is shifted by hand.
ManualDisplayHonest ==
    kb.layout \in {"ALPHABET_MANUAL_SHIFTED", "ALPHABET_SHIFT_LOCK_SHIFTED"} =>
        IsManualShifted(kb.alphabetShift)

ShiftHeld(k)  == k.shiftKey /= "RELEASING"
ShiftDrawn(k) == k.layout \in {"ALPHABET_MANUAL_SHIFTED", "ALPHABET_SHIFT_LOCKED",
                               "ALPHABET_SHIFT_LOCK_SHIFTED"}

\* Outside recapitalization, letters drawn as shifted stay so while the shift key
\* is held, chorded or pressed once more: no update the editor asks for, letter
\* typed, other key or double tap that runs out takes the shift away.  Only the
\* caps lock key and the end of a slide may.
HeldShiftStays ==
    [][ShiftHeld(kb) /\ ShiftHeld(kb') /\ ShiftDrawn(kb) /\ kb'.isAlphabetMode =>
         \/ ShiftDrawn(kb')
         \/ \E caps \in AutoCaps, recap \in RecapModes, sliding \in BOOLEAN :
               \/ ReleaseKey("CAPSLOCK", sliding, caps, recap)
               \/ FinishSliding(caps, recap)]_kb

-----------------------------------------------------------------------------
(***************************************************************************)
(* Caps lock, without recapitalization (which may take the lock).          *)
(***************************************************************************)

\* Where the lock bit lives: in the alphabet shift state while the letters are
\* shown, in mPrevMainKeyboardWasShiftLocked while the symbols are.
CapsLocked ==
    IF kb.isAlphabetMode THEN IsShiftLocked(kb.alphabetShift) ELSE kb.prevMainShiftLocked

SavedLock ==
    CASE ~kb.saved.isValid                             -> "NONE"
      [] kb.saved.isValid /\ kb.saved.isAlphabetShiftLocked -> "LOCKED"
      [] OTHER                                         -> "UNLOCKED"

Caps == INSTANCE CapsLock
          WITH alphabet <- kb.isAlphabetMode, locked <- CapsLocked, saved <- SavedLock

\* Caps lock is remembered across symbols, chords, sliding, automatic returns
\* to the letters and reloads: KeyboardState implements CapsLock.
CapsLockRemembered == Caps!Spec

\* Only the shift and caps lock keys turn caps lock over (a reload aside): no
\* letter, space or ?123, no shift update or slide, however they interleave with a held or
\* double-tapped shift key.
CapsLockOnlyByShiftKeys ==
    [][Caps!TurnOver =>
         \E caps \in AutoCaps, recap \in RecapModes, b \in BOOLEAN :
            \/ PressKey("SHIFT", b, caps, recap)
            \/ ReleaseKey("SHIFT", b, caps, recap)
            \/ ReleaseKey("CAPSLOCK", b, caps, recap)
            \/ Load(caps, recap)]_kb
=============================================================================
