------------------------ MODULE KeyboardState_proofs ------------------------
(***************************************************************************)
(* KeyboardState for every set of key codes, auto caps values and          *)
(* recapitalize modes: the record keeps its type, its pages stay coherent  *)
(* and a keyboard drawn as shift locked is locked, whatever callbacks      *)
(* arrive in whatever order.                                               *)
(*                                                                         *)
(* These facts are one inductive invariant, Good: the type is needed to    *)
(* know the fields of an updated record, and whether setShiftLocked        *)
(* redraws can only be told from the alphabet shift state being that of    *)
(* the page shown.  It has one more part: mIsEmojiMode is never set, or a  *)
(* reload would restore an emoji mode over a reset shift state.            *)
(*                                                                         *)
(* There is one lemma per method, in the order of the source, so that the  *)
(* proof of a step follows the calls of the callback.                      *)
(***************************************************************************)
EXTENDS KeyboardState, TLAPS

Plain(k) == k \in KeyboardStates /\ ~k.isEmojiMode /\ ~k.saved.isEmojiMode

Good(k) == Plain(k) /\ PagesIn(k) /\ LockDrawnIn(k)

\* Records that agree on every field Good looks at.
Alike(m, k) ==
    /\ m.isEmojiMode = k.isEmojiMode
    /\ m.saved = k.saved
    /\ m.isAlphabetMode = k.isAlphabetMode
    /\ m.alphabetShift = k.alphabetShift
    /\ m.isSymbolShifted = k.isSymbolShifted
    /\ m.switchState = k.switchState
    /\ m.layout = k.layout

\* A record that agrees with a good one on what Good reads is good.
LEMMA GoodAlike ==
    ASSUME NEW k, Good(k), NEW m \in KeyboardStates, Alike(m, k)
    PROVE  Good(m)
BY DEF Good, Plain, Alike, PagesIn, LockDrawnIn

\* Displaying a layout keeps the type.
LEMMA DisplayType ==
    ASSUME NEW k, Plain(k), NEW l \in AlphabetLayouts \cup SymbolLayouts
    PROVE  /\ Display(k, l) \in KeyboardStates
           /\ Plain(Display(k, l))
           /\ Display(k, l).layout = l
           /\ Display(k, l).isAlphabetMode = k.isAlphabetMode
           /\ Display(k, l).alphabetShift = k.alphabetShift
           /\ Display(k, l).isSymbolShifted = k.isSymbolShifted
           /\ Display(k, l).switchState = k.switchState
BY DEF Display, KeyboardStates, Plain

\* The operators of ShiftStates stay in their domains.
LEMMA ShiftStateTypes ==
    ASSUME NEW a \in AlphabetShiftStates
    PROVE  /\ ShiftOn(a) \in AlphabetShiftStates
           /\ ShiftOff(a) \in AlphabetShiftStates
           /\ SetLocked(a, TRUE) \in AlphabetShiftStates
           /\ SetLocked(a, FALSE) = "UNSHIFTED"
           /\ IsShiftLocked(SetLocked(a, TRUE))
           /\ IsShiftLocked(a) <=> IsShiftLocked(ShiftOn(a))
           /\ IsShiftLocked(a) <=> IsShiftLocked(ShiftOff(a))
BY DEF ShiftOn, ShiftOff, SetLocked, IsShiftLocked, AlphabetShiftStates

\* A record that differs from a good one only in what shift shows.
LEMMA ShiftGood ==
    ASSUME NEW d, Plain(d), d.isAlphabetMode, PagesIn(d), d.layout \in AlphabetLayouts,
           NEW a \in AlphabetShiftStates,
           d.layout = "ALPHABET_SHIFT_LOCKED" => IsShiftLocked(a)
    PROVE  Good([d EXCEPT !.alphabetShift = a])
<1> DEFINE m == [d EXCEPT !.alphabetShift = a]
<1>1. m \in KeyboardStates
  BY DEF KeyboardStates, Plain
<1>2. /\ m.isEmojiMode = d.isEmojiMode /\ m.saved = d.saved
      /\ m.alphabetShift = a /\ m.isAlphabetMode = d.isAlphabetMode
      /\ m.layout = d.layout /\ m.switchState = d.switchState
      /\ m.isSymbolShifted = d.isSymbolShifted
  BY DEF KeyboardStates, Plain
<1>3. QED
  BY <1>1, <1>2 DEF Good, Plain, PagesIn, LockDrawnIn

\* setShifted keeps Good: when it skips the redraw the layout already fits.
LEMMA SetShiftedGood ==
    ASSUME NEW k, Good(k), NEW mode \in ShiftModes
    PROVE  Good(SetShifted(k, mode))
<1> DEFINE d == IF mode = PrevShiftMode(k) THEN k ELSE Display(k, LayoutOfShiftMode[mode])
           a == CASE mode = "AUTOMATIC_SHIFT" -> "AUTOMATIC_SHIFTED"
                  [] mode = "UNSHIFT"         -> ShiftOff(d.alphabetShift)
                  [] OTHER                    -> ShiftOn(d.alphabetShift)
<1>1. CASE ~k.isAlphabetMode
  BY <1>1 DEF SetShifted
<1>2. CASE k.isAlphabetMode
  <2>1. LayoutOfShiftMode[mode] \in AlphabetLayouts \ {"ALPHABET_SHIFT_LOCKED"}
    BY DEF LayoutOfShiftMode, ShiftModes, AlphabetLayouts
  <2>2. Plain(k) /\ k \in KeyboardStates /\ k.layout \in AlphabetLayouts
    BY <1>2 DEF Good, Plain, PagesIn
  <2>3. /\ Plain(d) /\ d.isAlphabetMode /\ d.layout \in AlphabetLayouts
        /\ d.alphabetShift = k.alphabetShift /\ d.isSymbolShifted = k.isSymbolShifted
        /\ d.switchState = k.switchState
    BY <1>2, <2>1, <2>2, DisplayType
  <2>4. PagesIn(d)
    BY <2>2, <2>3 DEF Good, PagesIn, AlphabetLayouts, SymbolLayouts
  <2>5. a \in AlphabetShiftStates
    BY <2>2, <2>3, ShiftStateTypes DEF AlphabetShiftStates, KeyboardStates
  <2>6. d.layout = "ALPHABET_SHIFT_LOCKED" => IsShiftLocked(a)
    <3> HAVE d.layout = "ALPHABET_SHIFT_LOCKED"
    <3>1. d = k /\ mode = PrevShiftMode(k)
      BY <2>1, <2>2, DisplayType
    <3>2. IsShiftLocked(k.alphabetShift)
      BY <3>1 DEF Good, LockDrawnIn
    <3>3. mode # "AUTOMATIC_SHIFT"
      BY <3>1, <3>2 DEF PrevShiftMode, IsShiftLocked, IsAutomaticShifted, IsManualShifted
    <3>4. QED
      BY <2>2, <2>3, <3>2, <3>3, ShiftStateTypes DEF KeyboardStates
  <2>7. SetShifted(k, mode) = [d EXCEPT !.alphabetShift = a]
    BY <1>2 DEF SetShifted
  <2>8. QED
    <3> HIDE DEF a, d
    <3> QED BY <2>3, <2>4, <2>5, <2>6, <2>7, ShiftGood
<1>3. QED
  BY <1>1, <1>2

\* setShiftLocked keeps Good: unlocking redraws whenever the lock was drawn.
LEMMA SetShiftLockedGood ==
    ASSUME NEW k, Good(k), NEW locked \in BOOLEAN
    PROVE  Good(SetShiftLocked(k, locked))
<1> DEFINE a == k.alphabetShift
           d == CASE locked /\ (~IsShiftLocked(a) \/ IsShiftLockShifted(a)) ->
                       Display(k, "ALPHABET_SHIFT_LOCKED")
                  [] ~locked /\ IsShiftLocked(a) -> Display(k, "ALPHABET")
                  [] OTHER -> k
<1>1. CASE ~k.isAlphabetMode
  BY <1>1 DEF SetShiftLocked
<1>2. CASE k.isAlphabetMode
  <2>1. Plain(k) /\ k.layout \in AlphabetLayouts /\ a \in AlphabetShiftStates
    BY <1>2 DEF Good, Plain, PagesIn, KeyboardStates
  <2>2. /\ Plain(d) /\ d.isAlphabetMode /\ d.layout \in AlphabetLayouts
        /\ d.isSymbolShifted = k.isSymbolShifted /\ d.switchState = k.switchState
    BY <1>2, <2>1, DisplayType DEF AlphabetLayouts
  <2>3. PagesIn(d)
    BY <2>1, <2>2 DEF Good, PagesIn, AlphabetLayouts, SymbolLayouts
  <2>4. SetLocked(a, locked) \in AlphabetShiftStates
    BY <2>1 DEF SetLocked, AlphabetShiftStates
  <2>5. d.layout = "ALPHABET_SHIFT_LOCKED" => IsShiftLocked(SetLocked(a, locked))
    <3>1. CASE locked
      BY <2>1, <3>1, ShiftStateTypes
    <3>2. CASE ~locked
      BY <2>1, <3>2, DisplayType DEF Good, LockDrawnIn, AlphabetLayouts
    <3>3. QED
      BY <3>1, <3>2
  <2>6. SetShiftLocked(k, locked) = [d EXCEPT !.alphabetShift = SetLocked(a, locked)]
    BY <1>2 DEF SetShiftLocked
  <2>7. QED
    <3> HIDE DEF d
    <3> QED  BY <2>2, <2>3, <2>4, <2>5, <2>6, ShiftGood
<1>3. QED
  BY <1>1, <1>2

\* updateShiftStateForRecapitalize keeps Good.
LEMMA RecapitalizeGood ==
    ASSUME NEW k, Good(k), NEW recap
    PROVE  Good(UpdateShiftStateForRecapitalize(k, recap))
BY SetShiftedGood DEF UpdateShiftStateForRecapitalize, ShiftModes

\* updateAlphabetShiftState keeps Good.
LEMMA UpdateAlphabetGood ==
    ASSUME NEW k, Good(k), NEW caps, NEW recap
    PROVE  Good(UpdateAlphabetShiftState(k, caps, recap))
BY SetShiftedGood, RecapitalizeGood DEF UpdateAlphabetShiftState, ShiftModes

\* onUpdateShiftState keeps Good.
LEMMA OnUpdateShiftGood ==
    ASSUME NEW k, Good(k), NEW caps, NEW recap \in RecapModes
    PROVE  Good(OnUpdateShiftState(k, caps, recap))
<1> DEFINE m == [k EXCEPT !.recapitalizeMode = recap]
<1>1. m \in KeyboardStates /\ Alike(m, k)
  BY DEF Good, Plain, KeyboardStates, Alike
<1>2. Good(m)
  BY <1>1, GoodAlike
<1>3. QED
  BY <1>2, UpdateAlphabetGood DEF OnUpdateShiftState

\* setAlphabetKeyboard makes a plain record good, whatever page it left.
LEMMA SetAlphabetGood ==
    ASSUME NEW k, Plain(k), NEW caps, NEW recap \in RecapModes
    PROVE  Good(SetAlphabetKeyboard(k, caps, recap))
<1> DEFINE d == Display(k, "ALPHABET")
           m == [d EXCEPT !.isAlphabetMode = TRUE, !.isEmojiMode = FALSE,
                          !.isSymbolShifted = FALSE, !.recapitalizeMode = "NONE",
                          !.switchState = "ALPHA"]
<1>1. Plain(d) /\ d.layout = "ALPHABET"
  BY DisplayType DEF AlphabetLayouts
<1>2. /\ Plain(m) /\ m.layout = "ALPHABET" /\ m.isAlphabetMode
      /\ ~m.isSymbolShifted /\ m.switchState = "ALPHA"
  <2> HIDE DEF d
  <2> QED  BY <1>1 DEF Plain, KeyboardStates, SwitchStates
<1>3. Good(m)
  <2> HIDE DEF m
  <2> QED  BY <1>2 DEF Good, PagesIn, LockDrawnIn, AlphabetLayouts, SymbolLayouts
<1>4. QED
  BY <1>3, OnUpdateShiftGood DEF SetAlphabetKeyboard

\* setSymbolsKeyboard and setSymbolsShiftedKeyboard do the same.
LEMMA SetSymbolsGood ==
    ASSUME NEW k, Plain(k), NEW shifted \in BOOLEAN
    PROVE  /\ Good(SetSymbols(k, shifted))
           /\ SetSymbols(k, shifted).layout \in SymbolLayouts
<1> DEFINE l == IF shifted THEN "SYMBOLS_SHIFTED" ELSE "SYMBOLS"
           d == Display(k, l)
           e == [d EXCEPT !.isAlphabetMode = FALSE, !.isSymbolShifted = shifted]
           m == [e EXCEPT !.recapitalizeMode = "NONE", !.alphabetShift = "UNSHIFTED",
                          !.switchState = "SYMBOL_BEGIN"]
<1>1. Plain(d) /\ d.layout = l /\ d.alphabetShift \in AlphabetShiftStates
  BY DisplayType DEF SymbolLayouts, Plain, KeyboardStates
<1>2. SetSymbols(k, shifted) = m
  BY <1>1, ShiftStateTypes DEF SetSymbols
<1> HIDE DEF d
<1>3. /\ Plain(e) /\ e.layout = l /\ ~e.isAlphabetMode
      /\ e.isSymbolShifted <=> shifted
  BY <1>1 DEF Plain, KeyboardStates
<1> HIDE DEF e
<1>4. Plain(m)
  <2>1. "UNSHIFTED" \in AlphabetShiftStates /\ "SYMBOL_BEGIN" \in SwitchStates
    BY DEF SwitchStates, AlphabetShiftStates
  <2>2. QED
    BY <1>3, <2>1 DEF Plain, KeyboardStates
<1>5. /\ m.layout = l /\ m.isAlphabetMode = e.isAlphabetMode
      /\ m.isSymbolShifted = e.isSymbolShifted
      /\ m.alphabetShift = "UNSHIFTED" /\ m.switchState = "SYMBOL_BEGIN"
  BY <1>3 DEF Plain, KeyboardStates
<1> HIDE DEF m
<1>6. QED
  BY <1>2, <1>3, <1>4, <1>5 DEF Good, PagesIn, LockDrawnIn, AlphabetLayouts, SymbolLayouts

\* The way back to the letters makes a plain record good.
LEMMA BackToAlphabetGood ==
    ASSUME NEW k, Plain(k), NEW caps, NEW recap \in RecapModes
    PROVE  Good(BackToAlphabet(k, caps, recap))
<1> DEFINE s == [k EXCEPT !.prevSymbolsShifted = k.isSymbolShifted]
           a == SetAlphabetKeyboard(s, caps, recap)
           l == IF a.prevMainShiftLocked THEN SetShiftLocked(a, TRUE) ELSE a
           m == [l EXCEPT !.prevMainShiftLocked = FALSE]
<1>1. Plain(s)
  BY DEF Plain, KeyboardStates
<1>2. Good(a)
  BY <1>1, SetAlphabetGood
<1>3. Good(l)
  BY <1>2, SetShiftLockedGood
<1>4. m \in KeyboardStates /\ Alike(m, l)
  <2> HIDE DEF l
  <2> QED  BY <1>3 DEF Good, Plain, KeyboardStates, Alike
<1>5. QED
  BY <1>3, <1>4, GoodAlike DEF BackToAlphabet

\* toggleAlphabetAndSymbols makes a plain record good.
LEMMA ToggleGood ==
    ASSUME NEW k, Plain(k), NEW caps, NEW recap \in RecapModes
    PROVE  Good(ToggleAlphabetAndSymbols(k, caps, recap))
<1>1. CASE ~k.isAlphabetMode
  BY <1>1, BackToAlphabetGood DEF ToggleAlphabetAndSymbols
<1>2. CASE k.isAlphabetMode
  <2> DEFINE s == SetSymbols(k, k.prevSymbolsShifted)
             locked == IsShiftLocked(k.alphabetShift)
             m == [s EXCEPT !.prevMainShiftLocked = locked, !.prevSymbolsShifted = FALSE]
  <2>1. k.prevSymbolsShifted \in BOOLEAN /\ locked \in BOOLEAN
    BY DEF Plain, KeyboardStates, IsShiftLocked
  <2>2. Good(s)
    BY <2>1, SetSymbolsGood
  <2>3. m \in KeyboardStates /\ Alike(m, s)
    <3> HIDE DEF s, locked
    <3> QED  BY <2>1, <2>2 DEF Good, Plain, KeyboardStates, Alike
  <2>4. ToggleAlphabetAndSymbols(k, caps, recap) = m
    BY <1>2 DEF ToggleAlphabetAndSymbols
  <2>5. QED
    <3> HIDE DEF m, s
    <3> QED  BY <2>2, <2>3, <2>4, GoodAlike
<1>3. QED
  BY <1>1, <1>2

\* toggleShiftInSymbols keeps Good.
LEMMA ToggleShiftInSymbolsGood ==
    ASSUME NEW k, Plain(k)
    PROVE  /\ Good(ToggleShiftInSymbols(k))
           /\ ToggleShiftInSymbols(k).layout \in SymbolLayouts
BY SetSymbolsGood DEF ToggleShiftInSymbols, Plain, KeyboardStates

\* onSaveKeyboardState keeps Good.
LEMMA SaveGood ==
    ASSUME NEW k, Good(k)
    PROVE  Good(SaveKeyboardState(k))
<1> DEFINE s == SaveKeyboardState(k).saved
           m == [k EXCEPT !.saved = s]
<1>1. k \in KeyboardStates /\ ~k.isEmojiMode
  BY DEF Good, Plain
<1>2. SaveKeyboardState(k) = m /\ s \in SavedStates /\ ~s.isEmojiMode
  BY <1>1 DEF SaveKeyboardState, KeyboardStates, SavedStates, ShiftModes, IsShiftLocked
<1> HIDE DEF s
<1>3. /\ m \in KeyboardStates /\ m.isEmojiMode = k.isEmojiMode /\ m.saved = s
      /\ m.isAlphabetMode = k.isAlphabetMode /\ m.alphabetShift = k.alphabetShift
      /\ m.isSymbolShifted = k.isSymbolShifted /\ m.switchState = k.switchState
      /\ m.layout = k.layout
  BY <1>1, <1>2 DEF KeyboardStates
<1> HIDE DEF m
<1>4. QED
  BY <1>1, <1>2, <1>3 DEF Good, Plain, PagesIn, LockDrawnIn

\* onRestoreKeyboardState makes a plain record good.
LEMMA RestoreGood ==
    ASSUME NEW k, Plain(k), NEW caps, NEW recap \in RecapModes
    PROVE  Good(RestoreKeyboardState(k, caps, recap))
<1> DEFINE s == k.saved
           p == [k EXCEPT !.prevMainShiftLocked = s.isAlphabetShiftLocked]
           b == SetAlphabetKeyboard(p, caps, recap)
           a == SetShiftLocked(b, s.isAlphabetShiftLocked)
<1>1. s \in SavedStates /\ ~s.isEmojiMode
  BY DEF Plain, KeyboardStates
<1>2. s.isAlphabetShiftLocked \in BOOLEAN /\ s.shiftMode \in ShiftModes
  BY <1>1 DEF SavedStates
<1>3. Plain(p)
  BY <1>2 DEF Plain, KeyboardStates
<1>4. Good(a)
  BY <1>2, <1>3, SetAlphabetGood, SetShiftLockedGood
<1>5. Good(SetShifted(a, s.shiftMode))
  BY <1>2, <1>4, SetShiftedGood
<1>6. Good(SetSymbols(p, s.shiftMode = "MANUAL_SHIFT"))
  BY <1>3, SetSymbolsGood
<1>7. QED
  BY <1>1, <1>4, <1>5, <1>6 DEF RestoreKeyboardState

\* onLoadKeyboard makes a plain record good, loaded or not before.
LEMMA LoadGood ==
    ASSUME NEW k, Plain(k), NEW caps, NEW recap \in RecapModes
    PROVE  Good(LoadKeyboard(k, caps, recap))
<1> DEFINE none == NewKeyboardState.saved
           r == [k EXCEPT !.alphabetShift = SetLocked(k.alphabetShift, FALSE),
                          !.prevMainShiftLocked = FALSE, !.prevSymbolsShifted = FALSE,
                          !.shiftKey = "RELEASING", !.symbolKey = "RELEASING"]
           s == RestoreKeyboardState(r, caps, recap)
           m == [s EXCEPT !.saved = none]
<1>1. /\ SetLocked(k.alphabetShift, FALSE) \in AlphabetShiftStates
      /\ "RELEASING" \in ShiftKeyStates /\ "RELEASING" \in ModifierKeyStates
  BY DEF SetLocked, AlphabetShiftStates, ShiftKeyStates, ModifierKeyStates
<1>2. Plain(r)
  BY <1>1 DEF Plain, KeyboardStates
<1>3. Good(s) /\ Good(SetAlphabetKeyboard(r, caps, recap))
  BY <1>2, RestoreGood, SetAlphabetGood
<1>4. none \in SavedStates /\ ~none.isEmojiMode
  BY DEF NewKeyboardState, SavedStates, ShiftModes
<1>5. LoadKeyboard(k, caps, recap) \in {m, SetAlphabetKeyboard(r, caps, recap)}
  BY DEF LoadKeyboard
<1> HIDE DEF none, s
<1>6. /\ m \in KeyboardStates /\ m.isEmojiMode = s.isEmojiMode /\ m.saved = none
      /\ m.isAlphabetMode = s.isAlphabetMode /\ m.alphabetShift = s.alphabetShift
      /\ m.isSymbolShifted = s.isSymbolShifted /\ m.switchState = s.switchState
      /\ m.layout = s.layout
  BY <1>3, <1>4 DEF Good, Plain, KeyboardStates
<1> HIDE DEF m
<1>7. Good(m)
  BY <1>3, <1>4, <1>6 DEF Good, Plain, PagesIn, LockDrawnIn
<1>8. QED
  BY <1>3, <1>5, <1>7

-----------------------------------------------------------------------------
(***************************************************************************)
(* Fields Good does not look at, and the switch states a key release or a  *)
(* slide enters.                                                           *)
(***************************************************************************)

\* Changing the shift key's modifier state keeps Good.
LEMMA ModifierGood ==
    ASSUME NEW k, Good(k), NEW m \in ShiftKeyStates
    PROVE  Good([k EXCEPT !.shiftKey = m])
<1>1. [k EXCEPT !.shiftKey = m] \in KeyboardStates /\ Alike([k EXCEPT !.shiftKey = m], k)
  BY DEF Good, Plain, KeyboardStates, Alike
<1>2. QED
  BY <1>1, GoodAlike

\* Changing the ?123 key's modifier state keeps Good.
LEMMA SymbolKeyGood ==
    ASSUME NEW k, Good(k), NEW m \in ModifierKeyStates
    PROVE  Good([k EXCEPT !.symbolKey = m])
<1>1. [k EXCEPT !.symbolKey = m] \in KeyboardStates /\ Alike([k EXCEPT !.symbolKey = m], k)
  BY DEF Good, Plain, KeyboardStates, Alike
<1>2. QED
  BY <1>1, GoodAlike

\* Changing a flag that Good does not read keeps Good.
LEMMA FlagGood ==
    ASSUME NEW k, Good(k), NEW b \in BOOLEAN
    PROVE  /\ Good([k EXCEPT !.inDoubleTapShift = b])
           /\ Good([k EXCEPT !.unshiftedFromShifted = b])
           /\ Good([k EXCEPT !.doubleTapTimer = b])
           /\ Good([k EXCEPT !.prevSymbolsShifted = b])
           /\ Good([k EXCEPT !.displayed = b])
<1>1. ASSUME NEW m \in {[k EXCEPT !.inDoubleTapShift = b],
                        [k EXCEPT !.unshiftedFromShifted = b],
                        [k EXCEPT !.doubleTapTimer = b],
                        [k EXCEPT !.prevSymbolsShifted = b],
                        [k EXCEPT !.displayed = b]}
      PROVE  m \in KeyboardStates /\ Alike(m, k)
  BY DEF Good, Plain, KeyboardStates, Alike
<1>2. QED
  BY <1>1, GoodAlike

\* Which switch states a good record may move to.
LEMMA SwitchStateGood ==
    ASSUME NEW k, Good(k), NEW s \in SwitchStates,
           s = "MOMENTARY_ALPHA_SHIFT" => k.isAlphabetMode,
           s = "ALPHA" => k.layout \notin SymbolLayouts,
           s \in {"SYMBOL_BEGIN", "SYMBOL", "MOMENTARY_SYMBOL_AND_MORE"} =>
             k.layout \in SymbolLayouts
    PROVE  Good([k EXCEPT !.switchState = s])
<1> DEFINE m == [k EXCEPT !.switchState = s]
<1>1. /\ m \in KeyboardStates /\ m.isEmojiMode = k.isEmojiMode /\ m.saved = k.saved
      /\ m.isAlphabetMode = k.isAlphabetMode /\ m.alphabetShift = k.alphabetShift
      /\ m.isSymbolShifted = k.isSymbolShifted /\ m.switchState = s
      /\ m.layout = k.layout
  BY DEF Good, Plain, KeyboardStates
<1> HIDE DEF m
<1>2. Good(m)
  BY <1>1 DEF Good, Plain, PagesIn, LockDrawnIn
<1>3. QED
  BY <1>2 DEF m

-----------------------------------------------------------------------------
(***************************************************************************)
(* The shift key.                                                          *)
(***************************************************************************)

\* onPressShift keeps Good.
LEMMA PressShiftGood ==
    ASSUME NEW k, Good(k)
    PROVE  Good(PressShift(k))
<1>1. Good(PressShiftAgain(k))
  BY FlagGood, SetShiftLockedGood DEF PressShiftAgain
<1>2. Good(PressShiftOnce(k))
  <2> DEFINE f == [[k EXCEPT !.inDoubleTapShift = FALSE] EXCEPT !.doubleTapTimer = TRUE]
  <2>1. Good(f)
    BY FlagGood
  <2> HIDE DEF f
  <2>2. Good(SetShifted(f, "SHIFT_LOCK_SHIFTED")) /\ Good(SetShifted(f, "MANUAL_SHIFT"))
    BY <2>1, SetShiftedGood DEF ShiftModes
  <2>3. PressShiftOnce(k) \in {[SetShifted(f, "SHIFT_LOCK_SHIFTED") EXCEPT !.shiftKey = "PRESSING"],
                               [f EXCEPT !.shiftKey = "PRESSING_ON_SHIFTED"],
                               [SetShifted(f, "MANUAL_SHIFT") EXCEPT !.shiftKey = "PRESSING"]}
    BY DEF PressShiftOnce, f
  <2>4. "PRESSING" \in ShiftKeyStates /\ "PRESSING_ON_SHIFTED" \in ShiftKeyStates
    BY DEF ShiftKeyStates, ModifierKeyStates
  <2>5. /\ Good([SetShifted(f, "SHIFT_LOCK_SHIFTED") EXCEPT !.shiftKey = "PRESSING"])
        /\ Good([SetShifted(f, "MANUAL_SHIFT") EXCEPT !.shiftKey = "PRESSING"])
        /\ Good([f EXCEPT !.shiftKey = "PRESSING_ON_SHIFTED"])
    BY <2>1, <2>2, <2>4, ModifierGood
  <2>6. QED
    BY <2>3, <2>5
<1>3. Good([[ToggleShiftInSymbols(k) EXCEPT !.switchState = "MOMENTARY_SYMBOL_AND_MORE"]
               EXCEPT !.shiftKey = "PRESSING"])
  BY ToggleShiftInSymbolsGood, SwitchStateGood, ModifierGood
     DEF Good, SwitchStates, ShiftKeyStates, ModifierKeyStates
<1>4. QED
  BY <1>1, <1>2, <1>3 DEF PressShift

\* A plain release of shift keeps Good.
LEMMA ReleasePlainShiftGood ==
    ASSUME NEW k, Good(k), NEW sliding
    PROVE  Good(ReleasePlainShift(k, sliding))
<1> DEFINE u == SetShifted(k, "UNSHIFT")
           unshift == [u EXCEPT !.unshiftedFromShifted = TRUE]
           m == [k EXCEPT !.switchState = "MOMENTARY_ALPHA_SHIFT"]
<1>1. Good(SetShiftLocked(k, TRUE)) /\ Good(SetShiftLocked(k, FALSE))
  BY SetShiftLockedGood
<1>2. Good(u)
  BY SetShiftedGood DEF ShiftModes
<1> HIDE DEF u
<1>3. Good(unshift)
  BY <1>2, FlagGood
<1>4. IsManualShifted(k.alphabetShift) => Good(m)
  <2> HAVE IsManualShifted(k.alphabetShift)
  <2>1. k.isAlphabetMode
    BY DEF Good, PagesIn, IsManualShifted
  <2>2. "MOMENTARY_ALPHA_SHIFT" \in SwitchStates
    BY DEF SwitchStates
  <2>3. QED
    BY <2>1, <2>2, SwitchStateGood
<1> HIDE DEF unshift, m
<1>5. QED
  BY <1>1, <1>3, <1>4 DEF ReleasePlainShift, unshift, u, m

\* onReleaseShift keeps Good.
LEMMA ReleaseShiftGood ==
    ASSUME NEW k, Good(k), NEW sliding, NEW caps, NEW recap \in RecapModes
    PROVE  Good(ReleaseShift(k, sliding, caps, recap))
<1> DEFINE r == [k EXCEPT !.unshiftedFromShifted = FALSE]
           d == [r EXCEPT !.inDoubleTapShift = FALSE]
<1>1. Good(r)
  BY FlagGood
<1> HIDE DEF r
<1>2. Good(d)
  BY <1>1, FlagGood
<1> HIDE DEF d
<1>3. "RELEASING" \in ShiftKeyStates
  BY DEF ShiftKeyStates, ModifierKeyStates
<1>4. Good(ReleaseChordedShift(r, caps, recap))
  <2> DEFINE u == IF IsShiftLockShifted(r.alphabetShift) THEN SetShiftLocked(r, TRUE)
                  ELSE SetShifted(r, "UNSHIFT")
             m == [u EXCEPT !.shiftKey = "RELEASING"]
  <2>1. Good(u)
    BY <1>1, SetShiftLockedGood, SetShiftedGood DEF ShiftModes
  <2> HIDE DEF u
  <2>2. Good(m)
    BY <1>3, <2>1, ModifierGood
  <2> HIDE DEF m
  <2>3. QED
    BY <2>2, OnUpdateShiftGood DEF ReleaseChordedShift, m, u
<1>5. Good(ReleasePlainShift(r, sliding))
  BY <1>1, ReleasePlainShiftGood
<1>6. Good(UpdateShiftStateForRecapitalize(k, k.recapitalizeMode))
  BY RecapitalizeGood
<1>7. Good(ToggleShiftInSymbols(k))
  BY ToggleShiftInSymbolsGood DEF Good
<1>8. PICK after : /\ Good(after)
                   /\ ReleaseShift(k, sliding, caps, recap) = [after EXCEPT !.shiftKey = "RELEASING"]
  BY <1>2, <1>4, <1>5, <1>6, <1>7 DEF ReleaseShift, r, d
<1>9. QED
  BY <1>3, <1>8, ModifierGood

-----------------------------------------------------------------------------
(***************************************************************************)
(* The ?123 / ABC key and the events.                                      *)
(***************************************************************************)

\* onPressSymbol keeps Good.
LEMMA PressSymbolGood ==
    ASSUME NEW k, Good(k), NEW caps, NEW recap \in RecapModes
    PROVE  Good(PressSymbol(k, caps, recap))
<1> DEFINE t == ToggleAlphabetAndSymbols(k, caps, recap)
           p == [t EXCEPT !.symbolKey = "PRESSING"]
           m == [p EXCEPT !.switchState = "MOMENTARY_ALPHA_AND_SYMBOL"]
<1>1. Good(t)
  BY ToggleGood DEF Good
<1> HIDE DEF t
<1>2. Good(p)
  BY <1>1, SymbolKeyGood DEF ModifierKeyStates
<1> HIDE DEF p
<1>3. Good(m)
  BY <1>2, SwitchStateGood DEF SwitchStates
<1>4. QED
  BY <1>3 DEF PressSymbol, t, p

\* onReleaseSymbol keeps Good.
LEMMA ReleaseSymbolGood ==
    ASSUME NEW k, Good(k), NEW sliding, NEW caps, NEW recap \in RecapModes
    PROVE  Good(ReleaseSymbol(k, sliding, caps, recap))
<1>1. Good(ToggleAlphabetAndSymbols(k, caps, recap))
  BY ToggleGood DEF Good
<1>2. Good([k EXCEPT !.prevSymbolsShifted = FALSE])
  BY FlagGood
<1>3. PICK after : /\ Good(after)
                   /\ ReleaseSymbol(k, sliding, caps, recap) = [after EXCEPT !.symbolKey = "RELEASING"]
  BY <1>1, <1>2 DEF ReleaseSymbol
<1>4. QED
  BY <1>3, SymbolKeyGood DEF ModifierKeyStates

\* The press of a key that is no modifier keeps Good.
LEMMA PressOtherGood ==
    ASSUME NEW k, Good(k), NEW single, NEW caps
    PROVE  Good(PressOther(k, single, caps))
<1> DEFINE s == OtherKeyPressedOnShift(k.shiftKey)
           y == OtherKeyPressed(k.symbolKey)
           e == Display(k, "ALPHABET")
<1>1. s \in ShiftKeyStates /\ y \in ModifierKeyStates
  BY DEF Good, Plain, KeyboardStates, OtherKeyPressedOnShift, OtherKeyPressed,
         ShiftKeyStates, ModifierKeyStates
<1>2. k.isAlphabetMode => Good(e)
  <2> HAVE k.isAlphabetMode
  <2>1. /\ Plain(e) /\ e.layout = "ALPHABET" /\ e.isAlphabetMode
        /\ e.isSymbolShifted = k.isSymbolShifted /\ e.switchState = k.switchState
    BY DisplayType DEF Good, AlphabetLayouts
  <2>2. k.layout \in AlphabetLayouts
    BY DEF Good, PagesIn
  <2> HIDE DEF e
  <2>3. QED
    BY <2>1, <2>2 DEF Good, PagesIn, LockDrawnIn, AlphabetLayouts, SymbolLayouts
<1>3. PICK d : /\ Good(d) /\ d \in {k, e}
               /\ PressOther(k, single, caps) =
                    [d EXCEPT !.shiftKey = OtherKeyPressedOnShift(@), !.symbolKey = OtherKeyPressed(@)]
  BY <1>2 DEF PressOther
<1>4. d.shiftKey = k.shiftKey /\ d.symbolKey = k.symbolKey
  BY <1>3 DEF Good, Plain, Display, KeyboardStates
<1>5. PressOther(k, single, caps) = [[d EXCEPT !.shiftKey = s] EXCEPT !.symbolKey = y]
  BY <1>3, <1>4 DEF Good, Plain, KeyboardStates
<1>6. Good([d EXCEPT !.shiftKey = s])
  BY <1>1, <1>3, ModifierGood
<1>7. QED
  BY <1>1, <1>5, <1>6, SymbolKeyGood

\* onPressKey keeps Good.
LEMMA PressKeyGood ==
    ASSUME NEW k, Good(k), NEW code, NEW single, NEW caps, NEW recap \in RecapModes
    PROVE  Good(OnPressKey(k, code, single, caps, recap))
<1> DEFINE t == IF code = "SHIFT" THEN k ELSE [k EXCEPT !.doubleTapTimer = FALSE]
<1>1. Good(t)
  BY FlagGood
<1> HIDE DEF t
<1>2. Good(PressShift(t)) /\ Good(PressSymbol(t, caps, recap)) /\ Good(PressOther(t, single, caps))
  BY <1>1, PressShiftGood, PressSymbolGood, PressOtherGood
<1>3. QED
  BY <1>1, <1>2 DEF OnPressKey, t

\* onReleaseKey keeps Good.
LEMMA ReleaseKeyGood ==
    ASSUME NEW k, Good(k), NEW code, NEW sliding, NEW caps, NEW recap \in RecapModes
    PROVE  Good(OnReleaseKey(k, code, sliding, caps, recap))
<1>1. Good(SetShiftLocked(k, ~IsShiftLocked(k.alphabetShift)))
  BY SetShiftLockedGood
<1>2. QED
  BY <1>1, ReleaseShiftGood, ReleaseSymbolGood DEF OnReleaseKey

\* onFinishSlidingInput keeps Good.
LEMMA FinishSlidingGood ==
    ASSUME NEW k, Good(k), NEW caps, NEW recap \in RecapModes
    PROVE  Good(OnFinishSlidingInput(k, caps, recap))
BY ToggleGood, ToggleShiftInSymbolsGood, SetAlphabetGood DEF OnFinishSlidingInput, Good

\* The switch-state part of onEvent keeps Good.
LEMMA AdvanceGood ==
    ASSUME NEW k, Good(k), k.layout # "NO_LAYOUT", NEW code, NEW caps, NEW recap \in RecapModes
    PROVE  Good(AdvanceSwitchState(k, code, caps, recap))
<1> DEFINE s == IF k.isAlphabetMode THEN "ALPHA" ELSE "SYMBOL_BEGIN"
           t == ToggleAlphabetAndSymbols(k, caps, recap)
<1>1. /\ "ALPHA" \in SwitchStates /\ "SYMBOL_BEGIN" \in SwitchStates
      /\ "SYMBOL" \in SwitchStates
  BY DEF SwitchStates
<1>2. k.layout \in AlphabetLayouts \cup SymbolLayouts
  BY DEF Good, Plain, KeyboardStates
<1>3. Good([k EXCEPT !.switchState = s])
  <2>1. k.isAlphabetMode => k.layout \notin SymbolLayouts
    BY DEF Good, PagesIn, AlphabetLayouts, SymbolLayouts
  <2>2. ~k.isAlphabetMode => k.layout \in SymbolLayouts
    BY <1>2 DEF Good, PagesIn
  <2>3. QED
    BY <1>1, <2>1, <2>2, SwitchStateGood
<1>4. ASSUME k.switchState \in {"SYMBOL_BEGIN", "MOMENTARY_SYMBOL_AND_MORE"},
             NEW v \in {"SYMBOL_BEGIN", "SYMBOL"}
      PROVE  Good([k EXCEPT !.switchState = v])
  <2>1. k.layout \in SymbolLayouts
    BY <1>4 DEF Good, PagesIn
  <2>2. QED
    BY <1>1, <2>1, SwitchStateGood
<1>5. Good([t EXCEPT !.prevSymbolsShifted = FALSE])
  BY ToggleGood, FlagGood DEF Good
<1>6. QED
  BY <1>3, <1>4, <1>5 DEF AdvanceSwitchState

\* onEvent keeps Good.
LEMMA EventGood ==
    ASSUME NEW k, Good(k), k.layout # "NO_LAYOUT", NEW code, NEW caps, NEW recap \in RecapModes
    PROVE  Good(OnEvent(k, code, caps, recap))
<1> DEFINE s == AdvanceSwitchState(k, code, caps, recap)
<1>1. Good(s)
  BY AdvanceGood
<1> HIDE DEF s
<1>2. Good(UpdateAlphabetShiftState(s, caps, recap)) /\ Good(SetAlphabetKeyboard(s, caps, recap))
  BY <1>1, UpdateAlphabetGood, SetAlphabetGood DEF Good
<1>3. QED
  BY <1>1, <1>2 DEF OnEvent, s

-----------------------------------------------------------------------------
(***************************************************************************)
(* The specification.                                                      *)
(***************************************************************************)

\* A new KeyboardState is good.
LEMMA InitGood == Init => Good(kb)
<1> SUFFICES ASSUME Init PROVE Good(kb)
  OBVIOUS
<1>1. NewKeyboardState \in KeyboardStates
  BY DEF NewKeyboardState, KeyboardStates, SavedStates, SwitchStates, AlphabetShiftStates,
         ShiftKeyStates, ModifierKeyStates, ShiftModes
<1>2. QED
  BY <1>1 DEF Init, Good, Plain, PagesIn, LockDrawnIn, NewKeyboardState,
              AlphabetLayouts, SymbolLayouts

\* One step per callback; each starts from the record with `displayed' reset.
LEMMA NextGood == Good(kb) /\ [Next]_kb => Good(kb)'
<1> SUFFICES ASSUME Good(kb), [Next]_kb PROVE Good(kb)'
  OBVIOUS
<1>1. Good(Idle) /\ Plain(Idle)
  BY FlagGood DEF Idle, Good
<1>2. Shown => Idle.layout # "NO_LAYOUT"
  BY DEF Shown, Idle, Good, Plain, KeyboardStates
<1>3. CASE UNCHANGED kb
  BY <1>3
<1>4. CASE Save
  BY <1>1, <1>4, SaveGood DEF Save
<1>5. CASE DoubleTapTimeout
  BY <1>1, <1>5, FlagGood DEF DoubleTapTimeout
<1>6. ASSUME NEW caps \in AutoCaps, NEW recap \in RecapModes, Load(caps, recap)
      PROVE  Good(kb)'
  BY <1>1, <1>6, LoadGood DEF Load
<1>7. ASSUME NEW caps \in AutoCaps, NEW recap \in RecapModes, UpdateShift(caps, recap)
      PROVE  Good(kb)'
  BY <1>1, <1>7, OnUpdateShiftGood DEF UpdateShift
<1>8. ASSUME NEW caps \in AutoCaps, NEW recap \in RecapModes, ResetToAlphabet(caps, recap)
      PROVE  Good(kb)'
  BY <1>1, <1>8, BackToAlphabetGood DEF ResetToAlphabet, ResetKeyboardStateToAlphabet
<1>9. ASSUME NEW caps \in AutoCaps, NEW recap \in RecapModes, FinishSliding(caps, recap)
      PROVE  Good(kb)'
  BY <1>1, <1>9, FinishSlidingGood DEF FinishSliding
<1>10. ASSUME NEW caps \in AutoCaps, NEW recap \in RecapModes, NEW code \in KeyCodes,
              NEW single \in BOOLEAN, PressKey(code, single, caps, recap)
       PROVE  Good(kb)'
  BY <1>1, <1>10, PressKeyGood DEF PressKey
<1>11. ASSUME NEW caps \in AutoCaps, NEW recap \in RecapModes, NEW code \in KeyCodes,
              NEW sliding \in BOOLEAN, ReleaseKey(code, sliding, caps, recap)
       PROVE  Good(kb)'
  BY <1>1, <1>11, ReleaseKeyGood DEF ReleaseKey
<1>12. ASSUME NEW caps \in AutoCaps, NEW recap \in RecapModes, NEW code \in KeyCodes,
              Type(code, caps, recap)
       PROVE  Good(kb)'
  BY <1>1, <1>2, <1>12, EventGood DEF Type
<1>13. QED
  BY <1>3, <1>4, <1>5, <1>6, <1>7, <1>8, <1>9, <1>10, <1>11, <1>12 DEF Next

\* Good is an invariant: the strengthening the theorems below follow from.
LEMMA AlwaysGood == Spec => []Good(kb)
BY InitGood, NextGood, PTL DEF Spec

\* Every callback sequence keeps the fields of KeyboardState in their domains.
THEOREM TypeCorrect == Spec => []TypeOK
<1>1. Good(kb) => TypeOK
  BY DEF Good, Plain, TypeOK
<1>2. QED
  BY <1>1, AlwaysGood, PTL

\* The mode flags, the switch state and the displayed keyboard agree after
\* every callback of every caller.
THEOREM PagesAlwaysCoherent == Spec => []PagesCoherent
<1>1. Good(kb) => PagesCoherent
  BY DEF Good, PagesCoherent
<1>2. QED
  BY <1>1, AlwaysGood, PTL

\* The keyboard is never drawn as shift locked while the alphabet shift state
\* is not, whatever recapitalization, reload or chord happened.
THEOREM LockNeverMisdrawn == Spec => []LockDisplayHonest
<1>1. Good(kb) => LockDisplayHonest
  BY DEF Good, LockDisplayHonest
<1>2. QED
  BY <1>1, AlwaysGood, PTL

-----------------------------------------------------------------------------
(***************************************************************************)
(* KeyboardState implements CapsLock when no recapitalization runs: each   *)
(* callback turns the lock over, changes the page, saves, loads, or keeps  *)
(* all three.  And a keyboard drawn as shifted by hand is shifted by hand. *)
(*                                                                         *)
(* Again there is one lemma per method, in the order of the source.  Each  *)
(* says what the method does to the page, to the lock in either of its two *)
(* homes and to the saved state; most leave all of them alone (Kept).      *)
(***************************************************************************)

Honest(k) ==
    k.layout \in {"ALPHABET_MANUAL_SHIFTED", "ALPHABET_SHIFT_LOCK_SHIFTED"} =>
        IsManualShifted(k.alphabetShift)

\* The page, both homes of the lock and the saved state are the same.
Kept(m, k) ==
    /\ m.isAlphabetMode = k.isAlphabetMode
    /\ IsShiftLocked(m.alphabetShift) <=> IsShiftLocked(k.alphabetShift)
    /\ m.prevMainShiftLocked = k.prevMainShiftLocked
    /\ m.saved = k.saved

\* Displaying a layout changes nothing else that the lock depends on.
LEMMA DisplayKept ==
    ASSUME NEW k, Plain(k), NEW l \in AlphabetLayouts \cup SymbolLayouts
    PROVE  Kept(Display(k, l), k) /\ Display(k, l).shiftKey = k.shiftKey
BY DEF Display, KeyboardStates, Plain, Kept

\* ShiftOn always ends shifted by hand, ShiftOff never.
LEMMA ShiftStatesByHand ==
    ASSUME NEW a \in AlphabetShiftStates
    PROVE  IsManualShifted(ShiftOn(a)) /\ ~IsManualShifted(ShiftOff(a))
BY DEF ShiftOn, ShiftOff, IsManualShifted, IsShiftLocked, AlphabetShiftStates

\* setShifted keeps the lock, unless it makes a locked keyboard automatically
\* shifted.
LEMMA SetShiftedKept ==
    ASSUME NEW k, Good(k), NEW mode \in ShiftModes,
           mode = "AUTOMATIC_SHIFT" => ~IsShiftLocked(k.alphabetShift)
    PROVE  /\ Kept(SetShifted(k, mode), k)
           /\ Honest(k) => Honest(SetShifted(k, mode))
           /\ k.alphabetShift = "UNSHIFTED" /\ mode \in {"AUTOMATIC_SHIFT", "UNSHIFT"} =>
                ~IsManualShifted(SetShifted(k, mode).alphabetShift)
<1> DEFINE d == IF mode = PrevShiftMode(k) THEN k ELSE Display(k, LayoutOfShiftMode[mode])
           a == CASE mode = "AUTOMATIC_SHIFT" -> "AUTOMATIC_SHIFTED"
                  [] mode = "UNSHIFT"         -> ShiftOff(k.alphabetShift)
                  [] OTHER                    -> ShiftOn(k.alphabetShift)
           m == [d EXCEPT !.alphabetShift = a]
<1>1. CASE ~k.isAlphabetMode
  BY <1>1 DEF SetShifted, Kept, Good, PagesIn, IsManualShifted
<1>2. CASE k.isAlphabetMode
  <2>1. k \in KeyboardStates /\ Plain(k) /\ k.alphabetShift \in AlphabetShiftStates
    BY DEF Good, Plain, KeyboardStates
  <2>2. LayoutOfShiftMode[mode] \in AlphabetLayouts
    BY DEF LayoutOfShiftMode, ShiftModes, AlphabetLayouts
  <2>3. Plain(d) /\ Kept(d, k) /\ d.alphabetShift = k.alphabetShift
    BY <2>1, <2>2, DisplayType, DisplayKept DEF Kept
  <2>4. SetShifted(k, mode) = m
    BY <1>2, <2>3 DEF SetShifted
  <2>5. IsShiftLocked(a) <=> IsShiftLocked(k.alphabetShift)
    BY <2>1, ShiftStateTypes DEF IsShiftLocked
  <2>6. mode \in {"AUTOMATIC_SHIFT", "UNSHIFT"} <=> ~IsManualShifted(a)
    BY <2>1, ShiftStatesByHand DEF IsManualShifted, ShiftModes
  <2>7. d.layout \in {"ALPHABET_MANUAL_SHIFTED", "ALPHABET_SHIFT_LOCK_SHIFTED"} /\ Honest(k)
          => IsManualShifted(a)
    <3>1. CASE mode = PrevShiftMode(k)
      BY <2>1, <2>6, <3>1 DEF Honest, PrevShiftMode, IsAutomaticShifted, IsManualShifted
    <3>2. CASE mode # PrevShiftMode(k)
      <4>1. d.layout = LayoutOfShiftMode[mode]
        BY <2>1, <2>2, <3>2, DisplayType
      <4>2. QED
        BY <2>6, <4>1 DEF LayoutOfShiftMode, ShiftModes
    <3>3. QED
      BY <3>1, <3>2
  <2> HIDE DEF d, a
  <2>8. /\ m.isAlphabetMode = d.isAlphabetMode /\ m.alphabetShift = a
        /\ m.prevMainShiftLocked = d.prevMainShiftLocked /\ m.saved = d.saved
        /\ m.layout = d.layout
    BY <2>3 DEF Plain, KeyboardStates
  <2>9. QED
    BY <2>3, <2>4, <2>5, <2>6, <2>7, <2>8 DEF Kept, Honest
<1>3. QED
  BY <1>1, <1>2

\* Without recapitalization an update of the shift state leaves the lock alone.
LEMMA UpdateAlphabetKept ==
    ASSUME NEW k, Good(k), NEW caps
    PROVE  /\ Kept(UpdateAlphabetShiftState(k, caps, "NONE"), k)
           /\ Honest(k) => Honest(UpdateAlphabetShiftState(k, caps, "NONE"))
           /\ k.alphabetShift = "UNSHIFTED" =>
                ~IsManualShifted(UpdateAlphabetShiftState(k, caps, "NONE").alphabetShift)
<1> DEFINE mode == IF caps /= "OFF" THEN "AUTOMATIC_SHIFT" ELSE "UNSHIFT"
           m == UpdateAlphabetShiftState(k, caps, "NONE")
<1>1. m = k \/ (m = SetShifted(k, mode) /\ ~IsShiftLocked(k.alphabetShift))
  BY DEF UpdateAlphabetShiftState
<1>2. mode \in ShiftModes /\ mode \in {"AUTOMATIC_SHIFT", "UNSHIFT"}
  BY DEF ShiftModes
<1>3. Kept(k, k) /\ (k.alphabetShift = "UNSHIFTED" => ~IsManualShifted(k.alphabetShift))
  BY DEF Kept, IsManualShifted
<1> HIDE DEF mode, m
<1>4. QED
  BY <1>1, <1>2, <1>3, SetShiftedKept DEF m

\* onUpdateShiftState does the same after it has noted the recapitalize mode.
LEMMA OnUpdateShiftKept ==
    ASSUME NEW k, Good(k), NEW caps, "NONE" \in RecapModes
    PROVE  /\ Kept(OnUpdateShiftState(k, caps, "NONE"), k)
           /\ Honest(k) => Honest(OnUpdateShiftState(k, caps, "NONE"))
           /\ k.alphabetShift = "UNSHIFTED" =>
                ~IsManualShifted(OnUpdateShiftState(k, caps, "NONE").alphabetShift)
<1> DEFINE m == [k EXCEPT !.recapitalizeMode = "NONE"]
<1>1. m \in KeyboardStates /\ Alike(m, k) /\ m.prevMainShiftLocked = k.prevMainShiftLocked
  BY DEF Good, Plain, KeyboardStates, Alike
<1>2. Good(m)
  BY <1>1, GoodAlike
<1> HIDE DEF m
<1>3. OnUpdateShiftState(k, caps, "NONE") = UpdateAlphabetShiftState(m, caps, "NONE")
  BY DEF OnUpdateShiftState, m
<1>4. QED
  BY <1>1, <1>2, <1>3, UpdateAlphabetKept DEF Kept, Alike, Honest

\* setAlphabetKeyboard ends on the letters with the lock it found there.
LEMMA SetAlphabetKept ==
    ASSUME NEW k, Plain(k), NEW caps, "NONE" \in RecapModes
    PROVE  LET m == SetAlphabetKeyboard(k, caps, "NONE")
           IN  /\ m.isAlphabetMode /\ Honest(m) /\ m.saved = k.saved
               /\ IsShiftLocked(m.alphabetShift) <=> IsShiftLocked(k.alphabetShift)
               /\ m.prevMainShiftLocked = k.prevMainShiftLocked
               /\ k.alphabetShift = "UNSHIFTED" => ~IsManualShifted(m.alphabetShift)
<1> DEFINE d == Display(k, "ALPHABET")
           m == [d EXCEPT !.isAlphabetMode = TRUE, !.isEmojiMode = FALSE,
                          !.isSymbolShifted = FALSE, !.recapitalizeMode = "NONE",
                          !.switchState = "ALPHA"]
<1>1. Plain(d) /\ d.layout = "ALPHABET" /\ Kept(d, k) /\ d.alphabetShift = k.alphabetShift
  BY DisplayType, DisplayKept DEF AlphabetLayouts
<1> HIDE DEF d
<1>2. /\ Plain(m) /\ m.layout = "ALPHABET" /\ m.isAlphabetMode
      /\ ~m.isSymbolShifted /\ m.switchState = "ALPHA" /\ m.alphabetShift = d.alphabetShift
      /\ m.prevMainShiftLocked = d.prevMainShiftLocked /\ m.saved = d.saved
  BY <1>1 DEF Plain, KeyboardStates, SwitchStates
<1>3. SetAlphabetKeyboard(k, caps, "NONE") = OnUpdateShiftState(m, caps, "NONE")
  BY DEF SetAlphabetKeyboard, d
<1> HIDE DEF m
<1>4. Good(m) /\ Honest(m)
  BY <1>2 DEF Good, PagesIn, LockDrawnIn, AlphabetLayouts, SymbolLayouts, Honest
<1>5. QED
  BY <1>1, <1>2, <1>3, <1>4, OnUpdateShiftKept DEF Kept

\* setShiftLocked off the letters does nothing; on them it sets the lock.
LEMMA SetShiftLockedKept ==
    ASSUME NEW k, Good(k), NEW locked \in BOOLEAN
    PROVE  LET m == SetShiftLocked(k, locked)
           IN  /\ ~k.isAlphabetMode => m = k
               /\ k.isAlphabetMode =>
                    /\ m.isAlphabetMode /\ m.saved = k.saved
                    /\ m.prevMainShiftLocked = k.prevMainShiftLocked
                    /\ IsShiftLocked(m.alphabetShift) <=> locked
                    /\ Honest(k) /\ (locked \/ IsShiftLocked(k.alphabetShift)
                                       \/ ~IsManualShifted(k.alphabetShift)) => Honest(m)
<1> DEFINE a == k.alphabetShift
           d == CASE locked /\ (~IsShiftLocked(a) \/ IsShiftLockShifted(a)) ->
                       Display(k, "ALPHABET_SHIFT_LOCKED")
                  [] ~locked /\ IsShiftLocked(a) -> Display(k, "ALPHABET")
                  [] OTHER -> k
           m == [d EXCEPT !.alphabetShift = SetLocked(a, locked)]
<1>1. CASE ~k.isAlphabetMode
  BY <1>1 DEF SetShiftLocked
<1>2. CASE k.isAlphabetMode
  <2>1. Plain(k) /\ a \in AlphabetShiftStates
    BY DEF Good, Plain, KeyboardStates
  <2>2. Plain(d) /\ Kept(d, k) /\ d.alphabetShift = a
    BY <2>1, DisplayType, DisplayKept DEF AlphabetLayouts, Kept
  <2>3. d.layout \in {"ALPHABET_SHIFT_LOCKED", "ALPHABET"} \/ d = k
    BY <2>1, DisplayType DEF AlphabetLayouts
  <2>4. d = k => \/ locked /\ IsShiftLocked(a) /\ SetLocked(a, locked) = a
                 \/ ~locked /\ ~IsShiftLocked(a)
                 \/ d.layout \in {"ALPHABET_SHIFT_LOCKED", "ALPHABET"}
    BY <2>1, DisplayType DEF AlphabetLayouts, SetLocked
  <2>5. SetShiftLocked(k, locked) = m
    BY <1>2 DEF SetShiftLocked
  <2>6. IsShiftLocked(SetLocked(a, locked)) <=> locked
    BY <2>1, ShiftStateTypes DEF IsShiftLocked
  <2> HIDE DEF d
  <2>7. /\ m.isAlphabetMode = d.isAlphabetMode /\ m.alphabetShift = SetLocked(a, locked)
        /\ m.prevMainShiftLocked = d.prevMainShiftLocked /\ m.saved = d.saved
        /\ m.layout = d.layout
    BY <2>2 DEF Plain, KeyboardStates
  <2> HIDE DEF m
  <2>8. Honest(k) /\ (locked \/ IsShiftLocked(a) \/ ~IsManualShifted(a)) => Honest(m)
    BY <2>3, <2>4, <2>7 DEF Honest
  <2>9. QED
    BY <1>2, <2>2, <2>5, <2>6, <2>7, <2>8 DEF Kept
<1>3. QED
  BY <1>1, <1>2

-----------------------------------------------------------------------------
(***************************************************************************)
(* What a method may do to the lock.                                       *)
(***************************************************************************)

\* The lock, in whichever home it has now.
Lock(k) == IF k.isAlphabetMode THEN IsShiftLocked(k.alphabetShift) ELSE k.prevMainShiftLocked

Keeps(m, k) ==
    m.isAlphabetMode = k.isAlphabetMode /\ (Lock(m) <=> Lock(k)) /\ m.saved = k.saved
Turns(m, k) ==
    k.isAlphabetMode /\ m.isAlphabetMode /\ (Lock(m) <=> ~Lock(k)) /\ m.saved = k.saved
Pages(m, k) ==
    m.isAlphabetMode = ~k.isAlphabetMode /\ (Lock(m) <=> Lock(k)) /\ m.saved = k.saved

\* Records that agree on every field the lock, its saving and Honest look at.
Same(m, k) ==
    /\ m.isAlphabetMode = k.isAlphabetMode
    /\ m.alphabetShift = k.alphabetShift
    /\ m.prevMainShiftLocked = k.prevMainShiftLocked
    /\ m.saved = k.saved
    /\ m.layout = k.layout

\* The fields that say nothing about the lock.
LEMMA FlagSame ==
    ASSUME NEW k, Plain(k), NEW v
    PROVE  /\ Same([k EXCEPT !.shiftKey = v], k)
           /\ Same([k EXCEPT !.symbolKey = v], k)
           /\ Same([k EXCEPT !.switchState = v], k)
           /\ Same([k EXCEPT !.inDoubleTapShift = v], k)
           /\ Same([k EXCEPT !.unshiftedFromShifted = v], k)
           /\ Same([k EXCEPT !.doubleTapTimer = v], k)
           /\ Same([k EXCEPT !.prevSymbolsShifted = v], k)
           /\ Same([k EXCEPT !.displayed = v], k)
BY DEF Plain, KeyboardStates, Same

\* Records that agree stand for each other on both sides.
LEMMA SameFits ==
    ASSUME NEW k, NEW m, NEW k2, NEW m2, Same(k2, k), Same(m2, m)
    PROVE  /\ Honest(m2) <=> Honest(m)
           /\ Keeps(m2, k2) <=> Keeps(m, k)
           /\ Turns(m2, k2) <=> Turns(m, k)
           /\ Pages(m2, k2) <=> Pages(m, k)
BY DEF Same, Honest, Keeps, Turns, Pages, Lock

\* Same is an equivalence as far as it is used.
LEMMA SameTrivia ==
    ASSUME NEW k, NEW m, NEW n
    PROVE  Same(k, k) /\ (Same(m, k) /\ Same(n, m) => Same(n, k))
BY DEF Same

\* A method that keeps both homes keeps the lock.
LEMMA KeptKeeps ==
    ASSUME NEW k, NEW m, Kept(m, k)
    PROVE  Keeps(m, k)
BY DEF Kept, Keeps, Lock

\* setSymbolsKeyboard leaves the lock where toggleAlphabetAndSymbols put it.
LEMMA SetSymbolsKept ==
    ASSUME NEW k, Plain(k), NEW shifted \in BOOLEAN
    PROVE  LET m == SetSymbols(k, shifted)
           IN  /\ ~m.isAlphabetMode /\ m.saved = k.saved /\ Honest(m)
               /\ m.prevMainShiftLocked = k.prevMainShiftLocked
<1> DEFINE l == IF shifted THEN "SYMBOLS_SHIFTED" ELSE "SYMBOLS"
           d == Display(k, l)
           m == SetSymbols(k, shifted)
<1>1. Plain(d) /\ Kept(d, k)
  BY DisplayType, DisplayKept DEF SymbolLayouts
<1>2. m = [d EXCEPT !.isAlphabetMode = FALSE, !.isSymbolShifted = shifted,
                    !.recapitalizeMode = "NONE",
                    !.alphabetShift = SetLocked(d.alphabetShift, FALSE),
                    !.switchState = "SYMBOL_BEGIN"]
  BY DEF SetSymbols
<1>3. m.layout \in SymbolLayouts
  BY SetSymbolsGood
<1> HIDE DEF d, m
<1>4. ~m.isAlphabetMode /\ m.saved = d.saved /\ m.prevMainShiftLocked = d.prevMainShiftLocked
  BY <1>1, <1>2 DEF Plain, KeyboardStates
<1>5. Honest(m)
  BY <1>3 DEF Honest, SymbolLayouts
<1>6. QED
  BY <1>1, <1>4, <1>5 DEF Kept, m

\* The way back to the letters brings the lock home.
LEMMA BackToAlphabetPages ==
    ASSUME NEW k, Plain(k), ~k.isAlphabetMode, NEW caps, "NONE" \in RecapModes,
           k.alphabetShift = "UNSHIFTED"
    PROVE  LET m == BackToAlphabet(k, caps, "NONE") IN Pages(m, k) /\ Honest(m)
<1> DEFINE s == [k EXCEPT !.prevSymbolsShifted = k.isSymbolShifted]
           a == SetAlphabetKeyboard(s, caps, "NONE")
           l == IF a.prevMainShiftLocked THEN SetShiftLocked(a, TRUE) ELSE a
           m == [l EXCEPT !.prevMainShiftLocked = FALSE]
<1>1. Plain(s) /\ Same(s, k)
  BY FlagSame DEF Plain, KeyboardStates
<1> HIDE DEF s
<1>2. /\ Good(a) /\ a.isAlphabetMode /\ Honest(a) /\ a.saved = s.saved
      /\ ~IsShiftLocked(a.alphabetShift)
      /\ a.prevMainShiftLocked = s.prevMainShiftLocked
  BY <1>1, SetAlphabetGood, SetAlphabetKept DEF Same, IsShiftLocked
<1> HIDE DEF a
<1>3. /\ Good(l) /\ l.isAlphabetMode /\ Honest(l) /\ l.saved = a.saved
      /\ IsShiftLocked(l.alphabetShift) <=> a.prevMainShiftLocked
  BY <1>2, SetShiftLockedGood, SetShiftLockedKept
<1> HIDE DEF l
<1>4. /\ m.isAlphabetMode = l.isAlphabetMode /\ m.alphabetShift = l.alphabetShift
      /\ m.saved = l.saved /\ m.layout = l.layout
  BY <1>3 DEF Good, Plain, KeyboardStates
<1>5. BackToAlphabet(k, caps, "NONE") = m
  BY DEF BackToAlphabet, l, a, s
<1> HIDE DEF m
<1>6. k.isAlphabetMode \in BOOLEAN
  BY DEF Plain, KeyboardStates
<1>7. QED
  BY <1>1, <1>2, <1>3, <1>4, <1>5, <1>6 DEF Same, Pages, Lock, Honest

\* toggleAlphabetAndSymbols takes the lock from one home to the other.
LEMMA TogglePages ==
    ASSUME NEW k, Good(k), NEW caps, "NONE" \in RecapModes
    PROVE  LET m == ToggleAlphabetAndSymbols(k, caps, "NONE") IN Pages(m, k) /\ Honest(m)
<1>1. CASE ~k.isAlphabetMode
  BY <1>1, BackToAlphabetPages DEF ToggleAlphabetAndSymbols, Good, PagesIn
<1>2. CASE k.isAlphabetMode
  <2> DEFINE s == SetSymbols(k, k.prevSymbolsShifted)
             locked == IsShiftLocked(k.alphabetShift)
             m == [s EXCEPT !.prevMainShiftLocked = locked, !.prevSymbolsShifted = FALSE]
  <2>1. Plain(k) /\ k.prevSymbolsShifted \in BOOLEAN
    BY DEF Good, Plain, KeyboardStates
  <2>2. Good(s) /\ ~s.isAlphabetMode /\ s.saved = k.saved /\ Honest(s)
    BY <2>1, SetSymbolsGood, SetSymbolsKept
  <2> HIDE DEF s
  <2>3. /\ m.isAlphabetMode = s.isAlphabetMode /\ m.alphabetShift = s.alphabetShift
        /\ m.saved = s.saved /\ m.layout = s.layout /\ m.prevMainShiftLocked = locked
    BY <2>2 DEF Good, Plain, KeyboardStates
  <2>4. ToggleAlphabetAndSymbols(k, caps, "NONE") = m
    BY <1>2 DEF ToggleAlphabetAndSymbols, s
  <2> HIDE DEF m
  <2>5. s.isAlphabetMode \in BOOLEAN
    BY <2>2 DEF Good, Plain, KeyboardStates
  <2>6. QED
    BY <1>2, <2>2, <2>3, <2>4, <2>5 DEF Pages, Lock, Honest
<1>3. QED
  BY <1>1, <1>2

\* toggleShiftInSymbols only happens on the symbols, where the lock is away.
LEMMA ToggleShiftInSymbolsKept ==
    ASSUME NEW k, Plain(k), ~k.isAlphabetMode
    PROVE  Keeps(ToggleShiftInSymbols(k), k) /\ Honest(ToggleShiftInSymbols(k))
<1>1. (~k.isSymbolShifted) \in BOOLEAN /\ k.isAlphabetMode = FALSE
  BY DEF Plain, KeyboardStates
<1>2. Good(ToggleShiftInSymbols(k))
  BY ToggleShiftInSymbolsGood
<1>3. ToggleShiftInSymbols(k).isAlphabetMode \in BOOLEAN
  BY <1>2 DEF Good, Plain, KeyboardStates
<1>4. QED
  BY <1>1, <1>3, SetSymbolsKept DEF ToggleShiftInSymbols, Keeps, Lock

\* onSaveKeyboardState saves the lock from either home.
LEMMA SaveKept ==
    ASSUME NEW k, Good(k)
    PROVE  LET m == SaveKeyboardState(k)
           IN  /\ m.isAlphabetMode = k.isAlphabetMode /\ (Lock(m) <=> Lock(k))
               /\ m.saved.isValid /\ (m.saved.isAlphabetShiftLocked <=> Lock(k))
               /\ Honest(k) => Honest(m)
<1> DEFINE s == SaveKeyboardState(k).saved
           m == [k EXCEPT !.saved = s]
<1>1. k \in KeyboardStates
  BY DEF Good, Plain
<1>2. SaveKeyboardState(k) = m /\ s.isValid /\ (s.isAlphabetShiftLocked <=> Lock(k))
  BY <1>1 DEF SaveKeyboardState, KeyboardStates, Lock
<1> HIDE DEF s
<1>3. /\ m.saved = s /\ m.isAlphabetMode = k.isAlphabetMode
      /\ m.alphabetShift = k.alphabetShift
      /\ m.prevMainShiftLocked = k.prevMainShiftLocked /\ m.layout = k.layout
  BY <1>1 DEF KeyboardStates
<1> HIDE DEF m
<1>4. QED
  BY <1>2, <1>3 DEF Lock, Honest

\* onRestoreKeyboardState brings the saved lock back to the home of its page.
LEMMA RestoreKept ==
    ASSUME NEW k, Plain(k), k.alphabetShift = "UNSHIFTED", NEW caps, "NONE" \in RecapModes
    PROVE  LET m == RestoreKeyboardState(k, caps, "NONE")
           IN  (Lock(m) <=> k.saved.isAlphabetShiftLocked) /\ Honest(m)
<1> DEFINE s == k.saved
           p == [k EXCEPT !.prevMainShiftLocked = s.isAlphabetShiftLocked]
           b == SetAlphabetKeyboard(p, caps, "NONE")
           a == SetShiftLocked(b, s.isAlphabetShiftLocked)
           c == SetShifted(a, s.shiftMode)
           y == SetSymbols(p, s.shiftMode = "MANUAL_SHIFT")
<1>1. s \in SavedStates /\ ~s.isEmojiMode
  BY DEF Plain, KeyboardStates
<1>2. s.isAlphabetShiftLocked \in BOOLEAN /\ s.shiftMode \in ShiftModes
  BY <1>1 DEF SavedStates
<1>3. Plain(p) /\ p.alphabetShift = "UNSHIFTED"
      /\ p.prevMainShiftLocked = s.isAlphabetShiftLocked
  BY <1>2 DEF Plain, KeyboardStates
<1>4. RestoreKeyboardState(k, caps, "NONE") =
        IF s.isAlphabetMode THEN IF s.isAlphabetShiftLocked THEN a ELSE c ELSE y
  BY <1>1 DEF RestoreKeyboardState
<1> HIDE DEF p
<1>5. /\ Good(b) /\ b.isAlphabetMode /\ Honest(b)
      /\ ~IsShiftLocked(b.alphabetShift) /\ ~IsManualShifted(b.alphabetShift)
  BY <1>3, SetAlphabetGood, SetAlphabetKept DEF IsShiftLocked
<1> HIDE DEF b
<1>6. /\ Good(a) /\ a.isAlphabetMode /\ Honest(a)
      /\ IsShiftLocked(a.alphabetShift) <=> s.isAlphabetShiftLocked
  BY <1>2, <1>5, SetShiftLockedGood, SetShiftLockedKept
<1> HIDE DEF a
<1>7. ~s.isAlphabetShiftLocked => Kept(c, a) /\ Honest(c)
  BY <1>2, <1>6, SetShiftedKept
<1>8. /\ ~y.isAlphabetMode /\ Honest(y)
      /\ y.prevMainShiftLocked = s.isAlphabetShiftLocked
  BY <1>3, SetSymbolsKept
<1> HIDE DEF c, y
<1>9. QED
  BY <1>4, <1>6, <1>7, <1>8 DEF Kept, Lock

\* onLoadKeyboard restores the lock that was saved, and no other.
LEMMA LoadKept ==
    ASSUME NEW k, Plain(k), NEW caps, "NONE" \in RecapModes
    PROVE  LET m == LoadKeyboard(k, caps, "NONE")
           IN  /\ Lock(m) <=> k.saved.isValid /\ k.saved.isAlphabetShiftLocked
               /\ ~m.saved.isValid /\ Honest(m)
<1> DEFINE none == NewKeyboardState.saved
           r == [k EXCEPT !.alphabetShift = SetLocked(k.alphabetShift, FALSE),
                          !.prevMainShiftLocked = FALSE, !.prevSymbolsShifted = FALSE,
                          !.shiftKey = "RELEASING", !.symbolKey = "RELEASING"]
           s == RestoreKeyboardState(r, caps, "NONE")
           m == [s EXCEPT !.saved = none]
           a == SetAlphabetKeyboard(r, caps, "NONE")
<1>1. SetLocked(k.alphabetShift, FALSE) = "UNSHIFTED"
  BY DEF SetLocked
<1>2. /\ Plain(r) /\ r.alphabetShift = "UNSHIFTED" /\ r.saved = k.saved
      /\ r.isAlphabetMode = k.isAlphabetMode
  BY <1>1 DEF Plain, KeyboardStates, AlphabetShiftStates, ShiftKeyStates, ModifierKeyStates
<1>3. LoadKeyboard(k, caps, "NONE") = IF k.saved.isValid THEN m ELSE a
  BY DEF LoadKeyboard
<1> HIDE DEF r
<1>4. Good(s) /\ (Lock(s) <=> k.saved.isAlphabetShiftLocked) /\ Honest(s)
  BY <1>2, RestoreGood, RestoreKept
<1>5. a.isAlphabetMode /\ Honest(a) /\ a.saved = k.saved /\ ~IsShiftLocked(a.alphabetShift)
  BY <1>2, SetAlphabetKept DEF IsShiftLocked
<1> HIDE DEF s, a
<1>6. /\ m.isAlphabetMode = s.isAlphabetMode /\ m.alphabetShift = s.alphabetShift
      /\ m.prevMainShiftLocked = s.prevMainShiftLocked /\ m.layout = s.layout
      /\ m.saved = none
  BY <1>4 DEF Good, Plain, KeyboardStates
<1>7. ~none.isValid
  BY DEF NewKeyboardState
<1> HIDE DEF m, none
<1>8. QED
  BY <1>3, <1>4, <1>5, <1>6, <1>7 DEF Lock, Honest

-----------------------------------------------------------------------------
(***************************************************************************)
(* The keys and the events.                                                *)
(***************************************************************************)

\* A keyboard drawn right stays so, and the lock stays or is turned over.
Right(m, k) == (Keeps(m, k) \/ Turns(m, k)) /\ Honest(m)

\* setShiftLocked keeps the lock or turns it over.
LEMMA SetShiftLockedRight ==
    ASSUME NEW k, Good(k), Honest(k), NEW locked \in BOOLEAN,
           locked \/ IsShiftLocked(k.alphabetShift) \/ ~IsManualShifted(k.alphabetShift)
    PROVE  /\ Right(SetShiftLocked(k, locked), k)
           /\ locked /\ IsShiftLocked(k.alphabetShift) => Keeps(SetShiftLocked(k, locked), k)
<1>1. CASE ~k.isAlphabetMode
  <2>1. SetShiftLocked(k, locked) = k
    BY <1>1, SetShiftLockedKept
  <2>2. QED
    BY <2>1 DEF Right, Keeps
<1>2. CASE k.isAlphabetMode
  <2> DEFINE m == SetShiftLocked(k, locked)
  <2>1. /\ m.isAlphabetMode /\ m.saved = k.saved /\ Honest(m)
        /\ IsShiftLocked(m.alphabetShift) <=> locked
    BY <1>2, SetShiftLockedKept
  <2>2. m.isAlphabetMode = k.isAlphabetMode
    <3>1. Good(m)
      BY SetShiftLockedGood
    <3>2. m.isAlphabetMode \in BOOLEAN /\ k.isAlphabetMode \in BOOLEAN
      BY <3>1 DEF Good, Plain, KeyboardStates
    <3>3. QED
      BY <1>2, <2>1, <3>2
  <2> HIDE DEF m
  <2>3. Right(m, k) /\ (locked /\ IsShiftLocked(k.alphabetShift) => Keeps(m, k))
    BY <1>2, <2>1, <2>2 DEF Right, Keeps, Turns, Lock
  <2>4. QED
    BY <2>3 DEF m
<1>3. QED
  BY <1>1, <1>2

\* setShifted by hand, or back, keeps the lock.
LEMMA SetShiftedRight ==
    ASSUME NEW k, Good(k), Honest(k), NEW mode \in ShiftModes \ {"AUTOMATIC_SHIFT"}
    PROVE  Keeps(SetShifted(k, mode), k) /\ Honest(SetShifted(k, mode))
BY SetShiftedKept, KeptKeeps

\* Setting flags before or after a method changes nothing of this.
LEMMA RightFits ==
    ASSUME NEW k, NEW m, NEW k2, NEW m2, Same(k2, k), Same(m2, m)
    PROVE  Right(m2, k2) <=> Right(m, k)
BY SameFits DEF Right

\* onPressShift turns the lock over by a double tap, and in no other way.
LEMMA PressShiftRight ==
    ASSUME NEW k, Good(k), Honest(k), k.recapitalizeMode = "NONE"
    PROVE  Right(PressShift(k), k)
<1>1. Right(PressShiftAgain(k), k)
  <2> DEFINE d == [k EXCEPT !.inDoubleTapShift = TRUE]
  <2>1. Good(d) /\ Same(d, k) /\ Honest(d)
    <3>1. Good(d)
      BY FlagGood
    <3>2. Same(d, k)
      BY FlagSame DEF Good
    <3>3. QED
      BY <3>1, <3>2 DEF Same, Honest
  <2>2. PressShiftAgain(k) \in {SetShiftLocked(d, TRUE), d}
    BY DEF PressShiftAgain
  <2> HIDE DEF d
  <2>3. Right(SetShiftLocked(d, TRUE), d) /\ Right(d, d)
    BY <2>1, SetShiftLockedRight DEF Right, Keeps
  <2>4. \A m : Right(m, d) => Right(m, k)
    BY <2>1, RightFits DEF Same
  <2>5. QED
    BY <2>2, <2>3, <2>4
<1>2. Right(PressShiftOnce(k), k)
  <2> DEFINE f == [[k EXCEPT !.inDoubleTapShift = FALSE] EXCEPT !.doubleTapTimer = TRUE]
             n == SetShifted(f, "SHIFT_LOCK_SHIFTED")
             o == SetShifted(f, "MANUAL_SHIFT")
  <2>1. Good(f) /\ Same(f, k) /\ Honest(f)
    <3>1. Good(f)
      BY FlagGood
    <3>2. Same(f, k)
      BY DEF Same, Good, Plain, KeyboardStates
    <3>3. QED
      BY <3>1, <3>2 DEF Same, Honest
  <2>2. PressShiftOnce(k) \in {[n EXCEPT !.shiftKey = "PRESSING"],
                               [f EXCEPT !.shiftKey = "PRESSING_ON_SHIFTED"],
                               [o EXCEPT !.shiftKey = "PRESSING"]}
    BY DEF PressShiftOnce
  <2> HIDE DEF f
  <2>3. Good(n) /\ Good(o) /\ Right(n, f) /\ Right(o, f) /\ Right(f, f)
    BY <2>1, SetShiftedGood, SetShiftedRight DEF Right, Keeps, ShiftModes
  <2> HIDE DEF n, o
  <2>4. /\ Same([n EXCEPT !.shiftKey = "PRESSING"], n)
        /\ Same([o EXCEPT !.shiftKey = "PRESSING"], o)
        /\ Same([f EXCEPT !.shiftKey = "PRESSING_ON_SHIFTED"], f)
    BY <2>1, <2>3, FlagSame DEF Good
  <2>5. \A m, m2 : Right(m, f) /\ Same(m2, m) => Right(m2, k)
    BY <2>1, RightFits DEF Same
  <2>6. QED
    BY <2>2, <2>3, <2>4, <2>5
<1>3. ~k.isAlphabetMode => Right(PressShift(k), k)
  <2> HAVE ~k.isAlphabetMode
  <2> DEFINE t == ToggleShiftInSymbols(k)
             m == [[t EXCEPT !.switchState = "MOMENTARY_SYMBOL_AND_MORE"]
                     EXCEPT !.shiftKey = "PRESSING"]
  <2>1. Good(t) /\ Keeps(t, k) /\ Honest(t)
    BY ToggleShiftInSymbolsGood, ToggleShiftInSymbolsKept DEF Good
  <2>2. PressShift(k) = m
    BY DEF PressShift
  <2> HIDE DEF t
  <2>3. Same(m, t)
    BY <2>1 DEF Same, Good, Plain, KeyboardStates
  <2> HIDE DEF m
  <2>4. QED
    BY <2>1, <2>2, <2>3, SameTrivia, RightFits DEF Right
<1>4. QED
  BY <1>1, <1>2, <1>3 DEF PressShift

\* A plain release of shift turns the lock over after a slide or a tap.
LEMMA ReleasePlainShiftRight ==
    ASSUME NEW k, Good(k), Honest(k), NEW sliding
    PROVE  Right(ReleasePlainShift(k, sliding), k)
<1> DEFINE u == SetShifted(k, "UNSHIFT")
           n == [u EXCEPT !.unshiftedFromShifted = TRUE]
           m == [k EXCEPT !.switchState = "MOMENTARY_ALPHA_SHIFT"]
<1>1. Right(SetShiftLocked(k, TRUE), k)
  BY SetShiftLockedRight
<1>2. IsShiftLocked(k.alphabetShift) => Right(SetShiftLocked(k, FALSE), k)
  BY SetShiftLockedRight
<1>3. Right(n, k)
  <2>1. Good(u) /\ Right(u, k)
    BY SetShiftedGood, SetShiftedRight DEF Right, ShiftModes
  <2> HIDE DEF u
  <2>2. Same(n, u)
    BY <2>1, FlagSame DEF Good
  <2> HIDE DEF n
  <2>3. QED
    BY <2>1, <2>2, SameTrivia, RightFits
<1>4. Right(k, k) /\ Right(m, k)
  <2>1. Same(m, k) /\ Right(k, k)
    BY FlagSame DEF Good, Right, Keeps
  <2>2. QED
    BY <2>1, SameTrivia, RightFits
<1>5. ReleasePlainShift(k, sliding) \in
        {SetShiftLocked(k, TRUE), m, k, n}
          \cup {q \in {SetShiftLocked(k, FALSE)} : IsShiftLocked(k.alphabetShift)}
  BY DEF ReleasePlainShift
<1> HIDE DEF n, m
<1>6. QED
  BY <1>1, <1>2, <1>3, <1>4, <1>5

\* The end of a chord unshifts, or leaves the lock on, and updates the shift.
LEMMA ReleaseChordedRight ==
    ASSUME NEW k, Good(k), Honest(k), NEW caps, "NONE" \in RecapModes
    PROVE  Right(ReleaseChordedShift(k, caps, "NONE"), k)
<1> DEFINE u == IF IsShiftLockShifted(k.alphabetShift) THEN SetShiftLocked(k, TRUE)
                ELSE SetShifted(k, "UNSHIFT")
           m == [u EXCEPT !.shiftKey = "RELEASING"]
           n == OnUpdateShiftState(m, caps, "NONE")
<1>1. Good(u) /\ Right(u, k)
  BY SetShiftLockedGood, SetShiftedGood, SetShiftLockedRight, SetShiftedRight
     DEF Right, ShiftModes
<1>2. ReleaseChordedShift(k, caps, "NONE") = n
  BY DEF ReleaseChordedShift
<1> HIDE DEF u
<1>3. Good(m) /\ Same(m, u)
  <2>1. Same(m, u)
    BY <1>1, FlagSame DEF Good
  <2>2. Good(m)
    BY <1>1, ModifierGood DEF ShiftKeyStates, ModifierKeyStates
  <2>3. QED
    BY <2>1, <2>2
<1> HIDE DEF m
<1>4. Right(m, k)
  BY <1>1, <1>3, RightFits DEF Same
<1>5. Kept(n, m) /\ Honest(n)
  BY <1>3, <1>4, OnUpdateShiftKept DEF Right
<1> HIDE DEF n
<1>6. QED
  BY <1>2, <1>4, <1>5 DEF Right, Kept, Keeps, Turns, Lock

\* onReleaseShift keeps the lock or turns it over.
LEMMA ReleaseShiftRight ==
    ASSUME NEW k, Good(k), Honest(k), k.recapitalizeMode = "NONE",
           NEW sliding, NEW caps, "NONE" \in RecapModes
    PROVE  Right(ReleaseShift(k, sliding, caps, "NONE"), k)
<1> DEFINE r == [k EXCEPT !.unshiftedFromShifted = FALSE]
           d == [r EXCEPT !.inDoubleTapShift = FALSE]
           c == ReleaseChordedShift(r, caps, "NONE")
           q == ReleasePlainShift(r, sliding)
           t == ToggleShiftInSymbols(k)
           after == IF k.isAlphabetMode
                    THEN IF k.inDoubleTapShift THEN d
                         ELSE IF k.shiftKey = "CHORDING" THEN c ELSE q
                    ELSE IF k.shiftKey = "CHORDING" THEN t ELSE k
           m == [after EXCEPT !.shiftKey = "RELEASING"]
<1>1. ReleaseShift(k, sliding, caps, "NONE") = m
  BY DEF ReleaseShift
<1>2. Good(r) /\ Same(r, k) /\ Honest(r)
  <2>1. Good(r)
    BY FlagGood
  <2>2. Same(r, k)
    BY FlagSame DEF Good
  <2>3. QED
    BY <2>1, <2>2 DEF Same, Honest
<1>3. Good(c) /\ Good(q) /\ Right(c, r) /\ Right(q, r)
  <2>1. Good(q) /\ Right(q, r) /\ Right(c, r)
    BY <1>2, ReleasePlainShiftGood, ReleasePlainShiftRight, ReleaseChordedRight
  <2>2. Good(c)
    <3> DEFINE u == IF IsShiftLockShifted(r.alphabetShift) THEN SetShiftLocked(r, TRUE)
                    ELSE SetShifted(r, "UNSHIFT")
               v == [u EXCEPT !.shiftKey = "RELEASING"]
    <3>1. Good(u)
      BY <1>2, SetShiftLockedGood, SetShiftedGood DEF ShiftModes
    <3> HIDE DEF u
    <3>2. Good(v)
      BY <3>1, ModifierGood DEF ShiftKeyStates, ModifierKeyStates
    <3> HIDE DEF v
    <3>3. QED
      BY <3>2, OnUpdateShiftGood DEF ReleaseChordedShift, v, u
  <2>3. QED
    BY <2>1, <2>2
<1>4. Good(d) /\ Same(d, r)
  <2> HIDE DEF r
  <2>1. Good(d)
    BY <1>2, FlagGood
  <2>2. Same(d, r)
    BY <1>2, FlagSame DEF Good
  <2>3. QED
    BY <2>1, <2>2
<1>5. ~k.isAlphabetMode => Good(t) /\ Right(t, k)
  BY ToggleShiftInSymbolsGood, ToggleShiftInSymbolsKept DEF Good, Right
<1> HIDE DEF r, d, c, q, t
<1>6. Right(d, r) /\ Right(k, k)
  BY <1>2, <1>4 DEF Same, Right, Keeps, Lock, Honest
<1>7. \A n : Right(n, r) => Right(n, k)
  BY <1>2, RightFits DEF Same
<1>8. Good(after) /\ Right(after, k)
  BY <1>3, <1>4, <1>5, <1>6, <1>7
<1> HIDE DEF after
<1>9. Same(m, after)
  BY <1>8, FlagSame DEF Good
<1> HIDE DEF m
<1>10. QED
  BY <1>1, <1>8, <1>9, RightFits DEF Same

-----------------------------------------------------------------------------
\* The lock is not touched, on whichever page it ends.
Quiet(m, k) == (Keeps(m, k) \/ Pages(m, k)) /\ Honest(m)

\* Setting flags before or after changes nothing of this either.
LEMMA QuietFits ==
    ASSUME NEW k, NEW m, NEW k2, NEW m2, Same(k2, k), Same(m2, m)
    PROVE  Quiet(m2, k2) <=> Quiet(m, k)
BY SameFits DEF Quiet

\* onPressSymbol takes the lock along.
LEMMA PressSymbolQuiet ==
    ASSUME NEW k, Good(k), NEW caps, "NONE" \in RecapModes
    PROVE  Quiet(PressSymbol(k, caps, "NONE"), k)
<1> DEFINE t == ToggleAlphabetAndSymbols(k, caps, "NONE")
           m == [t EXCEPT !.symbolKey = "PRESSING",
                          !.switchState = "MOMENTARY_ALPHA_AND_SYMBOL"]
<1>1. Good(t) /\ Quiet(t, k)
  BY ToggleGood, TogglePages DEF Good, Quiet
<1>2. PressSymbol(k, caps, "NONE") = m
  BY DEF PressSymbol
<1> HIDE DEF t
<1>3. Same(m, t)
  BY <1>1 DEF Same, Good, Plain, KeyboardStates
<1> HIDE DEF m
<1>4. QED
  BY <1>1, <1>2, <1>3, QuietFits DEF Same

\* onReleaseSymbol takes the lock along.
LEMMA ReleaseSymbolQuiet ==
    ASSUME NEW k, Good(k), Honest(k), NEW sliding, NEW caps, "NONE" \in RecapModes
    PROVE  Quiet(ReleaseSymbol(k, sliding, caps, "NONE"), k)
<1> DEFINE t == ToggleAlphabetAndSymbols(k, caps, "NONE")
           p == [k EXCEPT !.prevSymbolsShifted = FALSE]
           after == IF k.symbolKey = "CHORDING" THEN t ELSE IF ~sliding THEN p ELSE k
           m == [after EXCEPT !.symbolKey = "RELEASING"]
<1>1. Good(t) /\ Quiet(t, k)
  BY ToggleGood, TogglePages DEF Good, Quiet
<1>2. Good(p) /\ Same(p, k) /\ Quiet(k, k)
  <2>1. Good(p)
    BY FlagGood
  <2>2. Same(p, k)
    BY FlagSame DEF Good
  <2>3. QED
    BY <2>1, <2>2 DEF Quiet, Keeps
<1>3. ReleaseSymbol(k, sliding, caps, "NONE") = m
  BY DEF ReleaseSymbol
<1> HIDE DEF t, p
<1>4. Good(after) /\ Quiet(after, k)
  BY <1>1, <1>2, QuietFits DEF Same
<1> HIDE DEF after
<1>5. Same(m, after)
  BY <1>4, FlagSame DEF Good
<1> HIDE DEF m
<1>6. QED
  BY <1>3, <1>4, <1>5, QuietFits DEF Same

\* The press of a key that is no modifier redraws, and changes no lock.
LEMMA PressOtherQuiet ==
    ASSUME NEW k, Good(k), Honest(k), NEW single, NEW caps
    PROVE  Quiet(PressOther(k, single, caps), k)
<1> DEFINE e == Display(k, "ALPHABET")
<1>1. Plain(e) /\ Quiet(e, k)
  <2>1. Plain(e) /\ e.layout = "ALPHABET" /\ Kept(e, k)
    BY DisplayType, DisplayKept DEF Good, AlphabetLayouts
  <2> HIDE DEF e
  <2>2. QED
    BY <2>1, KeptKeeps DEF Quiet, Honest
<1>2. Plain(k) /\ Quiet(k, k)
  BY DEF Good, Quiet, Keeps
<1>3. PICK d \in {k, e} :
         PressOther(k, single, caps) =
           [d EXCEPT !.shiftKey = OtherKeyPressedOnShift(@), !.symbolKey = OtherKeyPressed(@)]
  BY DEF PressOther
<1> HIDE DEF e
<1>4. Plain(d) /\ Quiet(d, k)
  BY <1>1, <1>2
<1>5. Same(PressOther(k, single, caps), d)
  BY <1>3, <1>4 DEF Same, Plain, KeyboardStates
<1>6. QED
  BY <1>4, <1>5, QuietFits DEF Same

\* onPressKey: only shift may turn the lock over.
LEMMA PressKeyEffect ==
    ASSUME NEW k, Good(k), Honest(k), k.recapitalizeMode = "NONE",
           NEW code, NEW single, NEW caps, "NONE" \in RecapModes
    PROVE  LET m == OnPressKey(k, code, single, caps, "NONE")
           IN  Quiet(m, k) \/ (code = "SHIFT" /\ Right(m, k))
<1> DEFINE t == IF code = "SHIFT" THEN k ELSE [k EXCEPT !.doubleTapTimer = FALSE]
<1>1. Good(t) /\ Same(t, k) /\ Honest(t)
  <2>1. Good(t)
    BY FlagGood
  <2>2. Same(t, k)
    BY FlagSame, SameTrivia DEF Good
  <2>3. QED
    BY <2>1, <2>2 DEF Same, Honest
<1>2. code = "SHIFT" => t = k
  OBVIOUS
<1> HIDE DEF t
<1>3. /\ code = "SHIFT" => Right(PressShift(t), k)
      /\ Quiet(PressSymbol(t, caps, "NONE"), t)
      /\ Quiet(PressOther(t, single, caps), t)
      /\ Quiet(t, t)
  BY <1>1, <1>2, PressShiftRight, PressSymbolQuiet, PressOtherQuiet DEF Quiet, Keeps
<1>4. \A m : Quiet(m, t) => Quiet(m, k)
  BY <1>1, QuietFits DEF Same
<1>5. QED
  BY <1>3, <1>4 DEF OnPressKey, t

\* onReleaseKey: only shift and caps lock may turn the lock over.
LEMMA ReleaseKeyEffect ==
    ASSUME NEW k, Good(k), Honest(k), k.recapitalizeMode = "NONE",
           NEW code, NEW sliding, NEW caps, "NONE" \in RecapModes
    PROVE  LET m == OnReleaseKey(k, code, sliding, caps, "NONE")
           IN  Quiet(m, k) \/ (code \in {"SHIFT", "CAPSLOCK"} /\ Right(m, k))
<1>1. Right(SetShiftLocked(k, ~IsShiftLocked(k.alphabetShift)), k)
  BY SetShiftLockedRight
<1>2. Quiet(k, k)
  BY DEF Quiet, Keeps
<1>3. QED
  BY <1>1, <1>2, ReleaseShiftRight, ReleaseSymbolQuiet DEF OnReleaseKey

\* onFinishSlidingInput takes the lock along.
LEMMA FinishSlidingQuiet ==
    ASSUME NEW k, Good(k), Honest(k), NEW caps, "NONE" \in RecapModes
    PROVE  Quiet(OnFinishSlidingInput(k, caps, "NONE"), k)
<1>1. k.switchState = "MOMENTARY_SYMBOL_AND_MORE" => ~k.isAlphabetMode
  BY DEF Good, PagesIn, AlphabetLayouts, SymbolLayouts
<1>2. k.switchState = "MOMENTARY_ALPHA_SHIFT" => k.isAlphabetMode
  BY DEF Good, PagesIn
<1>3. Quiet(ToggleAlphabetAndSymbols(k, caps, "NONE"), k) /\ Quiet(k, k)
  BY TogglePages DEF Quiet, Keeps
<1>4. ~k.isAlphabetMode => Quiet(ToggleShiftInSymbols(k), k)
  BY ToggleShiftInSymbolsKept DEF Good, Quiet
<1>5. k.isAlphabetMode => Quiet(SetAlphabetKeyboard(k, caps, "NONE"), k)
  <2> HAVE k.isAlphabetMode
  <2> DEFINE m == SetAlphabetKeyboard(k, caps, "NONE")
  <2>1. /\ m.isAlphabetMode /\ Honest(m) /\ m.saved = k.saved
        /\ IsShiftLocked(m.alphabetShift) <=> IsShiftLocked(k.alphabetShift)
    BY SetAlphabetKept DEF Good
  <2>2. m.isAlphabetMode = TRUE /\ k.isAlphabetMode = TRUE
    <3>1. Good(m)
      BY SetAlphabetGood DEF Good
    <3>2. QED
      BY <2>1, <3>1 DEF Good, Plain, KeyboardStates
  <2> HIDE DEF m
  <2>3. Quiet(m, k)
    BY <2>1, <2>2 DEF Quiet, Keeps, Lock
  <2>4. QED
    BY <2>3 DEF m
<1>6. QED
  BY <1>1, <1>2, <1>3, <1>4, <1>5 DEF OnFinishSlidingInput

\* onEvent returns to the letters after a symbol and a space, and takes the
\* lock along.
LEMMA EventQuiet ==
    ASSUME NEW k, Good(k), k.layout # "NO_LAYOUT", Honest(k),
           NEW code, code # "ALPHA_FROM_EMOJI", NEW caps, "NONE" \in RecapModes
    PROVE  Quiet(OnEvent(k, code, caps, "NONE"), k)
<1> DEFINE s == AdvanceSwitchState(k, code, caps, "NONE")
           t == ToggleAlphabetAndSymbols(k, caps, "NONE")
           p == [t EXCEPT !.prevSymbolsShifted = FALSE]
           m == UpdateAlphabetShiftState(s, caps, "NONE")
<1>1. Good(s)
  BY AdvanceGood
<1>2. Quiet(s, k)
  <2>1. Good(t) /\ Quiet(t, k)
    BY ToggleGood, TogglePages DEF Good, Quiet
  <2> HIDE DEF t
  <2>2. Same(p, t)
    BY <2>1, FlagSame DEF Good
  <2>3. Quiet(p, k)
    BY <2>1, <2>2, QuietFits DEF Same
  <2> HIDE DEF p
  <2>4. Quiet(k, k)
    BY DEF Quiet, Keeps
  <2>5. \A v : Quiet([k EXCEPT !.switchState = v], k)
    <3> TAKE v
    <3>1. Same([k EXCEPT !.switchState = v], k)
      BY FlagSame DEF Good
    <3>2. QED
      BY <2>4, <3>1, QuietFits DEF Same
  <2>6. QED
    BY <2>3, <2>4, <2>5 DEF AdvanceSwitchState, p, t
<1> HIDE DEF s
<1>3. Kept(m, s) /\ Honest(m)
  BY <1>1, <1>2, UpdateAlphabetKept DEF Quiet
<1> HIDE DEF m
<1>4. Quiet(m, k)
  BY <1>2, <1>3 DEF Quiet, Kept, Keeps, Pages, Lock
<1>5. QED
  BY <1>2, <1>4 DEF OnEvent, s, m

-----------------------------------------------------------------------------
(***************************************************************************)
(* The specification, when the caller never recapitalizes.  Only the emoji *)
(* panel has the ALPHA_FROM_EMOJI key, and it has a handler of its own.    *)
(***************************************************************************)

NoRecapitalization ==
    RecapModes \subseteq {"NONE"} /\ "ALPHA_FROM_EMOJI" \notin KeyCodes

ByShiftKeys ==
    \E caps \in AutoCaps, recap \in RecapModes, b \in BOOLEAN :
       \/ PressKey("SHIFT", b, caps, recap)
       \/ ReleaseKey("SHIFT", b, caps, recap)
       \/ ReleaseKey("CAPSLOCK", b, caps, recap)

Saves(m, k) ==
    /\ m.isAlphabetMode = k.isAlphabetMode /\ (Lock(m) <=> Lock(k))
    /\ m.saved.isValid /\ (m.saved.isAlphabetShiftLocked <=> Lock(k))
Loads(m, k) ==
    (Lock(m) <=> k.saved.isValid /\ k.saved.isAlphabetShiftLocked) /\ ~m.saved.isValid

\* What one callback does to the lock, and which callback it then is.
LEMMA NextEffect ==
    ASSUME NoRecapitalization, Good(kb), Honest(kb), [Next]_kb
    PROVE  /\ Honest(kb)'
           /\ \/ Quiet(kb', kb)
              \/ ByShiftKeys /\ Right(kb', kb)
              \/ Saves(kb', kb)
              \/ (\E caps \in AutoCaps, recap \in RecapModes : Load(caps, recap))
                   /\ Loads(kb', kb)
<1>1. Good(Idle) /\ Same(Idle, kb) /\ Honest(Idle) /\ Idle.recapitalizeMode = "NONE"
  <2>1. Good(Idle)
    BY FlagGood DEF Idle
  <2>2. Same(Idle, kb)
    BY FlagSame DEF Idle, Good
  <2>3. Idle.recapitalizeMode = "NONE"
    BY <2>1 DEF Good, Plain, KeyboardStates, NoRecapitalization
  <2>4. QED
    BY <2>1, <2>2, <2>3 DEF Same, Honest
<1>2. Plain(Idle) /\ (Shown => Idle.layout # "NO_LAYOUT")
  BY <1>1 DEF Shown, Same, Good
<1>3. ASSUME NEW m, Quiet(m, Idle)
      PROVE  Quiet(m, kb) /\ Honest(m)
  BY <1>1, <1>3, QuietFits DEF Same, Quiet
<1>4. ASSUME NEW m, Right(m, Idle)
      PROVE  Right(m, kb) /\ Honest(m)
  BY <1>1, <1>4, RightFits DEF Same, Right
<1>5. ASSUME NEW m, Saves(m, Idle) \/ Loads(m, Idle)
      PROVE  (Saves(m, Idle) => Saves(m, kb)) /\ (Loads(m, Idle) => Loads(m, kb))
  BY <1>1 DEF Same, Saves, Loads, Lock
<1>6. ASSUME NEW recap \in RecapModes
      PROVE  recap = "NONE" /\ "NONE" \in RecapModes
  BY <1>6 DEF NoRecapitalization
<1>7. CASE UNCHANGED kb
  BY <1>7 DEF Quiet, Keeps
<1>8. CASE Save
  <2>1. kb' = SaveKeyboardState(Idle)
    BY <1>8 DEF Save
  <2>2. Saves(kb', Idle) /\ Honest(kb')
    BY <1>1, <2>1, SaveKept DEF Saves
  <2>3. QED
    BY <1>5, <2>2 DEF Honest
<1>9. CASE DoubleTapTimeout
  <2>1. Same(kb', Idle)
    BY <1>1, <1>9, FlagSame DEF DoubleTapTimeout, Good
  <2>2. Quiet(kb', Idle)
    BY <1>1, <2>1, QuietFits DEF Same, Quiet, Keeps
  <2>3. QED
    BY <1>3, <2>2 DEF Honest
<1>10. ASSUME NEW caps \in AutoCaps, NEW recap \in RecapModes, Load(caps, recap)
       PROVE  Loads(kb', kb) /\ Honest(kb)'
  <2>1. Loads(kb', Idle) /\ Honest(kb')
    BY <1>2, <1>6, <1>10, LoadKept DEF Load, Loads
  <2>2. QED
    BY <1>5, <2>1 DEF Honest
<1>11. ASSUME NEW caps \in AutoCaps, NEW recap \in RecapModes,
              UpdateShift(caps, recap) \/ ResetToAlphabet(caps, recap) \/ FinishSliding(caps, recap)
       PROVE  Quiet(kb', kb) /\ Honest(kb)'
  <2>1. UpdateShift(caps, recap) => Quiet(kb', Idle)
    BY <1>1, <1>6, OnUpdateShiftKept, KeptKeeps DEF UpdateShift, Quiet
  <2>2. ResetToAlphabet(caps, recap) => Quiet(kb', Idle)
    <3>1. ~Idle.isAlphabetMode => Quiet(BackToAlphabet(Idle, caps, "NONE"), Idle)
      BY <1>1, <1>2, <1>6, BackToAlphabetPages DEF Good, PagesIn, Quiet
    <3>2. Quiet(Idle, Idle)
      BY <1>1 DEF Quiet, Keeps
    <3>3. QED
      BY <1>6, <3>1, <3>2 DEF ResetToAlphabet, ResetKeyboardStateToAlphabet
  <2>3. FinishSliding(caps, recap) => Quiet(kb', Idle)
    BY <1>1, <1>6, FinishSlidingQuiet DEF FinishSliding
  <2>4. QED
    BY <1>3, <1>11, <2>1, <2>2, <2>3 DEF Honest
<1>12. ASSUME NEW caps \in AutoCaps, NEW recap \in RecapModes, NEW code \in KeyCodes,
              NEW single \in BOOLEAN, PressKey(code, single, caps, recap)
       PROVE  (Quiet(kb', kb) \/ (ByShiftKeys /\ Right(kb', kb))) /\ Honest(kb)'
  <2>1. Quiet(kb', Idle) \/ (code = "SHIFT" /\ Right(kb', Idle))
    BY <1>1, <1>6, <1>12, PressKeyEffect DEF PressKey
  <2>2. code = "SHIFT" => ByShiftKeys
    BY <1>12 DEF ByShiftKeys
  <2>3. QED
    BY <1>3, <1>4, <2>1, <2>2 DEF Honest
<1>13. ASSUME NEW caps \in AutoCaps, NEW recap \in RecapModes, NEW code \in KeyCodes,
              NEW sliding \in BOOLEAN, ReleaseKey(code, sliding, caps, recap)
       PROVE  (Quiet(kb', kb) \/ (ByShiftKeys /\ Right(kb', kb))) /\ Honest(kb)'
  <2>1. Quiet(kb', Idle) \/ (code \in {"SHIFT", "CAPSLOCK"} /\ Right(kb', Idle))
    BY <1>1, <1>6, <1>13, ReleaseKeyEffect DEF ReleaseKey
  <2>2. code \in {"SHIFT", "CAPSLOCK"} => ByShiftKeys
    BY <1>13 DEF ByShiftKeys
  <2>3. QED
    BY <1>3, <1>4, <2>1, <2>2 DEF Honest
<1>14. ASSUME NEW caps \in AutoCaps, NEW recap \in RecapModes, NEW code \in KeyCodes,
              Type(code, caps, recap)
       PROVE  Quiet(kb', kb) /\ Honest(kb)'
  <2>1. code # "ALPHA_FROM_EMOJI"
    BY DEF NoRecapitalization
  <2>2. Quiet(kb', Idle)
    BY <1>1, <1>2, <1>6, <1>14, <2>1, EventQuiet DEF Type
  <2>3. QED
    BY <1>3, <2>2 DEF Honest
<1>15. QED
  BY <1>7, <1>8, <1>9, <1>10, <1>11, <1>12, <1>13, <1>14 DEF Next

\* Each effect on the record is a step of CapsLock, or none.
LEMMA EffectMaps ==
    ASSUME Good(kb), Good(kb)'
    PROVE  /\ Keeps(kb', kb) => UNCHANGED Caps!vars
           /\ Pages(kb', kb) => Caps!ChangePage /\ ~Caps!TurnOver
           /\ Turns(kb', kb) => Caps!TurnOver
           /\ Saves(kb', kb) => Caps!Save /\ ~Caps!TurnOver
           /\ Loads(kb', kb) => Caps!Load
<1>1. /\ kb.isAlphabetMode \in BOOLEAN /\ kb'.isAlphabetMode \in BOOLEAN
      /\ kb.prevMainShiftLocked \in BOOLEAN /\ kb'.prevMainShiftLocked \in BOOLEAN
      /\ kb.saved \in SavedStates /\ kb'.saved \in SavedStates
  BY DEF Good, Plain, KeyboardStates
<1>2. CapsLocked = Lock(kb) /\ CapsLocked' = Lock(kb')
  BY DEF CapsLocked, Lock
<1>3. Lock(kb) \in BOOLEAN /\ Lock(kb') \in BOOLEAN
  <2>1. ASSUME NEW k, k.isAlphabetMode \in BOOLEAN, k.prevMainShiftLocked \in BOOLEAN
        PROVE  Lock(k) \in BOOLEAN
    <3>1. CASE k.isAlphabetMode
      BY <3>1 DEF Lock, IsShiftLocked
    <3>2. CASE ~k.isAlphabetMode
      BY <2>1, <3>2 DEF Lock
    <3>3. QED
      BY <3>1, <3>2
  <2>2. QED
    BY <1>1, <2>1
<1>4. kb'.saved = kb.saved => SavedLock' = SavedLock
  BY DEF SavedLock
<1>5. /\ kb'.saved.isValid /\ (kb'.saved.isAlphabetShiftLocked <=> Lock(kb)) =>
           SavedLock' = (IF Lock(kb) THEN "LOCKED" ELSE "UNLOCKED")
      /\ ~kb'.saved.isValid => SavedLock' = "NONE"
      /\ kb.saved.isValid /\ kb.saved.isAlphabetShiftLocked <=> SavedLock = "LOCKED"
  BY <1>1, <1>3 DEF SavedLock, SavedStates
<1>6. Keeps(kb', kb) => UNCHANGED Caps!vars
  BY <1>2, <1>3, <1>4 DEF Keeps, Caps!vars
<1>7. Pages(kb', kb) => Caps!ChangePage /\ ~Caps!TurnOver
  BY <1>1, <1>2, <1>3, <1>4 DEF Pages, Caps!ChangePage, Caps!TurnOver
<1>8. Turns(kb', kb) => Caps!TurnOver
  BY <1>1, <1>2, <1>3, <1>4 DEF Turns, Caps!TurnOver
<1>9. Saves(kb', kb) => Caps!Save /\ ~Caps!TurnOver
  BY <1>2, <1>3, <1>5 DEF Saves, Caps!Save, Caps!TurnOver
<1>10. Loads(kb', kb) => Caps!Load
  BY <1>1, <1>2, <1>3, <1>5 DEF Loads, Caps!Load
<1>11. QED
  BY <1>6, <1>7, <1>8, <1>9, <1>10

\* The invariant the step lemmas need.
LEMMA AlwaysHonest ==
    ASSUME NoRecapitalization
    PROVE  Spec => [](Good(kb) /\ Honest(kb))
<1>1. Init => Good(kb) /\ Honest(kb)
  BY InitGood DEF Init, NewKeyboardState, Honest
<1>2. Good(kb) /\ Honest(kb) /\ [Next]_kb => (Good(kb) /\ Honest(kb))'
  BY NextGood, NextEffect
<1>3. QED
  BY <1>1, <1>2, PTL DEF Spec

\* Without recapitalization, the keyboard is never drawn as shifted by hand
\* while the alphabet shift state is not, although setShifted skips redraws.
THEOREM ManualNeverMisdrawn ==
    ASSUME NoRecapitalization
    PROVE  Spec => []ManualDisplayHonest
<1>1. Honest(kb) => ManualDisplayHonest
  BY DEF Honest, ManualDisplayHonest
<1>2. QED
  BY <1>1, AlwaysHonest, PTL

\* Without recapitalization KeyboardState implements CapsLock: the lock is
\* remembered across symbols, chords, slides and reloads, by every caller.
THEOREM CapsLockImplemented ==
    ASSUME NoRecapitalization
    PROVE  Spec => CapsLockRemembered
<1>1. Init => Caps!Init
  <2> SUFFICES ASSUME Init PROVE Caps!Init
    OBVIOUS
  <2>1. kb = NewKeyboardState
    BY DEF Init
  <2>2. QED
    BY <2>1 DEF Caps!Init, NewKeyboardState, CapsLocked, SavedLock
<1>2. Good(kb) /\ Honest(kb) /\ [Next]_kb => [Caps!Next]_(Caps!vars)
  <2> SUFFICES ASSUME Good(kb), Honest(kb), [Next]_kb
               PROVE  [Caps!Next]_(Caps!vars)
    OBVIOUS
  <2>1. Good(kb)'
    BY NextGood
  <2>2. \/ Keeps(kb', kb) \/ Pages(kb', kb) \/ Turns(kb', kb)
        \/ Saves(kb', kb) \/ Loads(kb', kb)
    BY NextEffect DEF Quiet, Right
  <2>3. QED
    BY <2>1, <2>2, EffectMaps DEF Caps!Next
<1>3. QED
  BY <1>1, <1>2, AlwaysHonest, PTL DEF Spec, CapsLockRemembered, Caps!Spec

\* Without recapitalization only a press or release of shift, a release of
\* caps lock or a reload turns caps lock over, whatever the interleaving.
THEOREM OnlyShiftKeysTurnOver ==
    ASSUME NoRecapitalization
    PROVE  Spec => CapsLockOnlyByShiftKeys
<1> DEFINE Allowed ==
             \E caps \in AutoCaps, recap \in RecapModes, b \in BOOLEAN :
                \/ PressKey("SHIFT", b, caps, recap)
                \/ ReleaseKey("SHIFT", b, caps, recap)
                \/ ReleaseKey("CAPSLOCK", b, caps, recap)
                \/ Load(caps, recap)
<1>1. Good(kb) /\ Honest(kb) /\ [Next]_kb => [Caps!TurnOver => Allowed]_kb
  <2> SUFFICES ASSUME Good(kb), Honest(kb), [Next]_kb, Caps!TurnOver
               PROVE  Allowed
    OBVIOUS
  <2>1. Good(kb)'
    BY NextGood
  <2>2. ~Keeps(kb', kb)
    <3>1. CapsLocked \in BOOLEAN
      BY DEF CapsLocked, Good, Plain, KeyboardStates, IsShiftLocked
    <3>2. UNCHANGED Caps!vars => FALSE
      BY <3>1 DEF Caps!TurnOver, Caps!vars
    <3>3. QED
      BY <2>1, <3>2, EffectMaps
  <2>3. ByShiftKeys \/ \E caps \in AutoCaps, recap \in RecapModes : Load(caps, recap)
    BY <2>1, <2>2, NextEffect, EffectMaps DEF Quiet
  <2>4. QED
    BY <2>3 DEF ByShiftKeys
<1>2. QED
  BY <1>1, AlwaysHonest, PTL DEF Spec, CapsLockOnlyByShiftKeys
=============================================================================
