---------------------------- MODULE Touch_proofs ----------------------------
(***************************************************************************)
(* Proofs about Touch, for any fingers, keys and events.                   *)
(*                                                                         *)
(* TouchTypeCorrect, LockTurnsUnderShift and TouchesTypeOnce hold of every *)
(* keyboard.  QueueAndTimersLive, StaleTouchesTypeNoKey,                   *)
(* LettersPressedBeforeTyped and TypedInOrder are about keyboards without  *)
(* more keys panels (NoPanels): while a panel is up, MainKeyboardView does *)
(* not pass on the events of the other fingers, some fingers are missing   *)
(* from the queue and others stay in it after they were lifted, and TLC    *)
(* refutes the four of them (the order of typing with three fingers).      *)
(*                                                                         *)
(* The proofs go bottom up, as the handlers call each other.  The first    *)
(* part says what each call of KeyboardState does to the displayed page    *)
(* and to caps lock; the next ones what each method of PointerTracker and  *)
(* PointerTrackerQueue does to the world; the `Effect' lemmas what each    *)
(* action does.  Only those are used by the proofs of the invariants:      *)
(* TypeInv (types, and a keyboard is shown), OnceInv (what a finger that   *)
(* has typed looks like, and that no swipe follows a panel) and LiveInv    *)
(* (queue, timers and announced keys).                                     *)
(*                                                                         *)
(* The methods that go over the queue are folds; the lemmas of FoldFacts,  *)
(* instantiated for each fold, carry an invariant through them.            *)
(***************************************************************************)
EXTENDS Touch, KeyboardState_proofs

-----------------------------------------------------------------------------
(***************************************************************************)
(* The keyboard under the fingers.                                         *)
(***************************************************************************)

\* A KeyboardState that has shown a keyboard and draws it right.
Board(k) == Good(k) /\ Honest(k) /\ k.layout # "NO_LAYOUT"

\* A page that is not the letters is a symbols page.
OnSymbols(m) == ~m.isAlphabetMode => m.layout \in SymbolLayouts

LockKept(m, k) == Lock(m) <=> Lock(k)

LEMMA NoneIsAMode == "NONE" \in RecapModes /\ \A k : Good(k) => k.recapitalizeMode = "NONE"
BY TouchAssumption DEF Good, Plain, KeyboardStates

LEMMA BoardIs ==
    ASSUME NEW k, Good(k), Honest(k)
    PROVE  Board(k) <=> OnSymbols(k)
BY DEF Board, OnSymbols, Good, PagesIn, Plain, KeyboardStates, AlphabetLayouts, SymbolLayouts

\* updateAlphabetShiftState draws letters only.
LEMMA UpdateDraws ==
    ASSUME NEW k, Good(k), OnSymbols(k), NEW caps
    PROVE  /\ OnSymbols(UpdateAlphabetShiftState(k, caps, "NONE"))
           /\ OnSymbols(OnUpdateShiftState(k, caps, "NONE"))
<1> DEFINE r == [k EXCEPT !.recapitalizeMode = "NONE"]
<1>1. r \in KeyboardStates /\ Alike(r, k)
  BY NoneIsAMode DEF Good, Plain, KeyboardStates, Alike
<1>2. Good(r) /\ OnSymbols(r)
  BY <1>1, GoodAlike DEF Alike, OnSymbols
<1>3. ASSUME NEW b, Good(b), OnSymbols(b)
      PROVE  OnSymbols(UpdateAlphabetShiftState(b, caps, "NONE"))
  <2>1. CASE b.isAlphabetMode
    BY <1>3, <2>1, UpdateAlphabetKept DEF Kept, OnSymbols
  <2>2. CASE ~b.isAlphabetMode
    BY <1>3, <2>2 DEF UpdateAlphabetShiftState
  <2>3. QED
    BY <2>1, <2>2
<1> HIDE DEF r
<1>4. QED
  BY <1>2, <1>3 DEF OnUpdateShiftState, r

LEMMA UpdateBoard ==
    ASSUME NEW k, Board(k), NEW caps
    PROVE  LET m == OnUpdateShiftState(k, caps, "NONE") IN Board(m) /\ LockKept(m, k)
<1> DEFINE m == OnUpdateShiftState(k, caps, "NONE")
<1>1. Good(k) /\ Honest(k) /\ OnSymbols(k)
  BY BoardIs DEF Board
<1>2. Good(m) /\ Honest(m) /\ Kept(m, k) /\ OnSymbols(m)
  BY <1>1, NoneIsAMode, OnUpdateShiftGood, OnUpdateShiftKept, UpdateDraws
<1> HIDE DEF m
<1>3. QED
  BY <1>2, BoardIs, KeptKeeps DEF Keeps, LockKept, m

\* toggleAlphabetAndSymbols shows the other page.
LEMMA ToggleDraws ==
    ASSUME NEW k, Good(k), NEW caps
    PROVE  OnSymbols(ToggleAlphabetAndSymbols(k, caps, "NONE"))
<1> DEFINE m == ToggleAlphabetAndSymbols(k, caps, "NONE")
<1>1. CASE k.isAlphabetMode
  <2> DEFINE s == SetSymbols(k, k.prevSymbolsShifted)
  <2>1. k.prevSymbolsShifted \in BOOLEAN
    BY DEF Good, Plain, KeyboardStates
  <2>2. Good(s) /\ s.layout \in SymbolLayouts
    BY <2>1, SetSymbolsGood DEF Good
  <2>3. s \in KeyboardStates
    BY <2>2 DEF Good, Plain
  <2> HIDE DEF s
  <2>4. m = [s EXCEPT !.prevMainShiftLocked = IsShiftLocked(k.alphabetShift),
                      !.prevSymbolsShifted = FALSE]
    BY <1>1 DEF ToggleAlphabetAndSymbols, s
  <2>5. m.layout = s.layout
    BY <2>3, <2>4 DEF KeyboardStates
  <2>6. QED
    BY <2>2, <2>5 DEF OnSymbols
<1>2. CASE ~k.isAlphabetMode
  <2>1. Pages(m, k)
    BY NoneIsAMode, TogglePages
  <2>2. QED
    BY <1>2, <2>1 DEF Pages, OnSymbols
<1>3. QED
  BY <1>1, <1>2

\* A flag set afterwards leaves the page.
LEMMA SameDraws ==
    ASSUME NEW k, NEW m, Same(m, k), OnSymbols(k)
    PROVE  OnSymbols(m)
BY DEF Same, OnSymbols

LEMMA PressBoard ==
    ASSUME NEW k, Board(k), NEW code, NEW single, NEW caps
    PROVE  LET m == OnPressKey(k, code, single, caps, "NONE")
           IN  Board(m) /\ (code # "SHIFT" => LockKept(m, k))
<1> DEFINE m == OnPressKey(k, code, single, caps, "NONE")
           p == [k EXCEPT !.doubleTapTimer = FALSE]
           t == IF code = "SHIFT" THEN k ELSE p
<1>1. Good(k) /\ Honest(k) /\ OnSymbols(k) /\ k.recapitalizeMode = "NONE"
  BY BoardIs, NoneIsAMode DEF Board
<1>2. Good(m) /\ (Quiet(m, k) \/ (code = "SHIFT" /\ Right(m, k)))
  BY <1>1, NoneIsAMode, PressKeyGood, PressKeyEffect
<1>3. Good(p) /\ Same(p, k)
  BY <1>1, FlagGood, FlagSame DEF Good
<1>4. Good(t) /\ OnSymbols(t) /\ t.recapitalizeMode = "NONE" /\ t.isAlphabetMode = k.isAlphabetMode
  BY <1>1, <1>3, SameDraws, NoneIsAMode DEF Same
<1>5. m = CASE code = "SHIFT"               -> PressShift(t)
            [] code = "CAPSLOCK"            -> t
            [] code = "SWITCH_ALPHA_SYMBOL" -> PressSymbol(t, caps, "NONE")
            [] OTHER                        -> PressOther(t, single, caps)
  BY DEF OnPressKey
<1> HIDE DEF m, t
<1>6. CASE code = "SHIFT"
  <2>1. m = PressShift(t) /\ m.isAlphabetMode = k.isAlphabetMode
    <3>1. m = PressShift(t)
      BY <1>5, <1>6
    <3>2. Right(m, k)
      <4>1. t = k
        BY <1>6 DEF t
      <4>2. QED
        BY <1>1, <3>1, <4>1, PressShiftRight
    <3>3. QED
      BY <3>1, <3>2 DEF Right, Keeps, Turns
  <2>2. ASSUME ~k.isAlphabetMode PROVE OnSymbols(m)
    <3> DEFINE s == ToggleShiftInSymbols(t)
    <3>1. s \in KeyboardStates /\ s.layout \in SymbolLayouts
      BY <1>4, ToggleShiftInSymbolsGood DEF Good, Plain
    <3> HIDE DEF s
    <3>2. m = [s EXCEPT !.switchState = "MOMENTARY_SYMBOL_AND_MORE", !.shiftKey = "PRESSING"]
      BY <1>4, <2>1, <2>2 DEF PressShift, s
    <3>3. m.layout = s.layout
      BY <3>1, <3>2 DEF KeyboardStates
    <3>4. QED
      BY <3>1, <3>3 DEF OnSymbols
  <2>3. OnSymbols(m)
    BY <2>1, <2>2 DEF OnSymbols
  <2>4. Honest(m)
    BY <1>2 DEF Quiet, Right
  <2>5. QED
    BY <1>2, <1>6, <2>3, <2>4, BoardIs DEF m
<1>7. CASE code # "SHIFT"
  <2>1. Quiet(m, k)
    BY <1>2, <1>7
  <2>2. ASSUME code = "CAPSLOCK" PROVE OnSymbols(m)
    BY <1>4, <1>5, <2>2
  <2>3. ASSUME code = "SWITCH_ALPHA_SYMBOL" PROVE OnSymbols(m)
    <3> DEFINE s == ToggleAlphabetAndSymbols(t, caps, "NONE")
    <3>1. s \in KeyboardStates /\ OnSymbols(s)
      BY <1>4, NoneIsAMode, ToggleGood, ToggleDraws DEF Good, Plain
    <3> HIDE DEF s
    <3>2. m = [s EXCEPT !.symbolKey = "PRESSING", !.switchState = "MOMENTARY_ALPHA_AND_SYMBOL"]
      BY <1>5, <2>3 DEF PressSymbol, s
    <3>3. m.layout = s.layout /\ m.isAlphabetMode = s.isAlphabetMode
      BY <3>1, <3>2 DEF KeyboardStates
    <3>4. QED
      BY <3>1, <3>3 DEF OnSymbols
  <2>4. ASSUME code \notin {"CAPSLOCK", "SWITCH_ALPHA_SYMBOL"} PROVE OnSymbols(m)
    <3> DEFINE reset == /\ ~single /\ t.isAlphabetMode /\ caps /= "CHARACTERS"
                        /\ \/ IsAutomaticShifted(t.alphabetShift)
                           \/ IsManualShifted(t.alphabetShift) /\ t.shiftKey = "RELEASING"
               d == IF reset THEN Display(t, "ALPHABET") ELSE t
    <3>1. /\ d = t \/ (d = Display(t, "ALPHABET") /\ t.isAlphabetMode)
          /\ m = [d EXCEPT !.shiftKey = OtherKeyPressedOnShift(@),
                           !.symbolKey = OtherKeyPressed(@)]
      BY <1>5, <1>7, <2>4 DEF PressOther
    <3> HIDE DEF d
    <3>2. d \in KeyboardStates /\ d.isAlphabetMode = t.isAlphabetMode
      BY <1>4, <3>1, DisplayType DEF Good, Plain, AlphabetLayouts
    <3>3. OnSymbols(d)
      BY <1>4, <3>1, <3>2 DEF OnSymbols
    <3>4. m.layout = d.layout /\ m.isAlphabetMode = d.isAlphabetMode
      BY <3>1, <3>2 DEF KeyboardStates
    <3>5. QED
      BY <3>3, <3>4 DEF OnSymbols
  <2>5. OnSymbols(m)
    BY <2>2, <2>3, <2>4
  <2>6. QED
    BY <1>2, <2>1, <2>5, BoardIs DEF Quiet, Keeps, Pages, LockKept, m
<1>8. QED
  BY <1>6, <1>7

LEMMA ReleaseBoard ==
    ASSUME NEW k, Board(k), NEW code, NEW sliding, NEW caps
    PROVE  LET m == OnReleaseKey(k, code, sliding, caps, "NONE")
           IN  Board(m) /\ (code \notin {"SHIFT", "CAPSLOCK"} => LockKept(m, k))
<1> DEFINE m == OnReleaseKey(k, code, sliding, caps, "NONE")
<1>1. Good(k) /\ Honest(k) /\ OnSymbols(k) /\ k.recapitalizeMode = "NONE"
  BY BoardIs, NoneIsAMode DEF Board
<1>2. Good(m) /\ (Quiet(m, k) \/ (code \in {"SHIFT", "CAPSLOCK"} /\ Right(m, k)))
  BY <1>1, NoneIsAMode, ReleaseKeyGood, ReleaseKeyEffect
<1>3. Honest(m) /\ (code \notin {"SHIFT", "CAPSLOCK"} => LockKept(m, k))
  BY <1>2 DEF Quiet, Right, Keeps, Pages, LockKept
<1>4. OnSymbols(m)
  <2> HIDE DEF m
  <2>1. ASSUME code = "SHIFT", ~m.isAlphabetMode PROVE m.layout \in SymbolLayouts
    <3> DEFINE s == ToggleShiftInSymbols(k)
               after == IF k.shiftKey = "CHORDING" THEN s ELSE k
    <3>1. m = ReleaseShift(k, sliding, caps, "NONE")
      BY <2>1 DEF OnReleaseKey, m
    <3>2. Right(m, k)
      BY <1>1, <3>1, NoneIsAMode, ReleaseShiftRight
    <3>3. ~k.isAlphabetMode
      BY <2>1, <3>2 DEF Right, Keeps, Turns
    <3>4. s \in KeyboardStates /\ s.layout \in SymbolLayouts
      BY <1>1, ToggleShiftInSymbolsGood DEF Good, Plain
    <3> HIDE DEF s
    <3>5. after \in KeyboardStates /\ after.layout \in SymbolLayouts
      BY <1>1, <3>3, <3>4 DEF Good, Plain, OnSymbols
    <3>6. m = [after EXCEPT !.shiftKey = "RELEASING"]
      BY <1>1, <3>1, <3>3 DEF ReleaseShift, s
    <3> HIDE DEF after
    <3>7. QED
      BY <3>5, <3>6 DEF KeyboardStates
  <2>2. ASSUME code = "CAPSLOCK", ~m.isAlphabetMode PROVE m.layout \in SymbolLayouts
    <3>1. m = SetShiftLocked(k, ~IsShiftLocked(k.alphabetShift))
      BY <2>2 DEF OnReleaseKey, m
    <3>2. (~IsShiftLocked(k.alphabetShift)) \in BOOLEAN
      BY DEF IsShiftLocked
    <3>3. ~k.isAlphabetMode /\ m = k
      BY <1>1, <2>2, <3>1, <3>2, SetShiftLockedKept
    <3>4. QED
      BY <1>1, <3>3 DEF OnSymbols
  <2>3. ASSUME code = "SWITCH_ALPHA_SYMBOL" PROVE OnSymbols(m)
    <3> DEFINE t == ToggleAlphabetAndSymbols(k, caps, "NONE")
               p == [k EXCEPT !.prevSymbolsShifted = FALSE]
               after == IF k.symbolKey = "CHORDING" THEN t ELSE IF ~sliding THEN p ELSE k
    <3>1. t \in KeyboardStates /\ OnSymbols(t)
      BY <1>1, NoneIsAMode, ToggleGood, ToggleDraws DEF Good, Plain
    <3>2. p \in KeyboardStates /\ OnSymbols(p)
      BY <1>1, FlagGood, FlagSame, SameDraws DEF Good, Plain
    <3> HIDE DEF t, p
    <3>3. after \in KeyboardStates /\ OnSymbols(after)
      BY <1>1, <3>1, <3>2 DEF Good, Plain
    <3>4. m = [after EXCEPT !.symbolKey = "RELEASING"]
      BY <2>3 DEF OnReleaseKey, ReleaseSymbol, t, p, m
    <3> HIDE DEF after
    <3>5. QED
      BY <3>3, <3>4 DEF KeyboardStates, OnSymbols
  <2>4. ASSUME code \notin {"SHIFT", "CAPSLOCK", "SWITCH_ALPHA_SYMBOL"} PROVE m = k
    BY <2>4 DEF OnReleaseKey, m
  <2>5. QED
    BY <1>1, <2>1, <2>2, <2>3, <2>4 DEF OnSymbols
<1>5. QED
  BY <1>2, <1>3, <1>4, BoardIs

LEMMA FinishSlidingBoard ==
    ASSUME NEW k, Board(k), NEW caps
    PROVE  LET m == OnFinishSlidingInput(k, caps, "NONE") IN Board(m) /\ LockKept(m, k)
<1> DEFINE m == OnFinishSlidingInput(k, caps, "NONE")
<1>1. Good(k) /\ Honest(k) /\ OnSymbols(k)
  BY BoardIs DEF Board
<1>2. Good(m) /\ Quiet(m, k)
  BY <1>1, NoneIsAMode, FinishSlidingGood, FinishSlidingQuiet
<1>3. OnSymbols(m)
  <2> DEFINE a == SetAlphabetKeyboard(k, caps, "NONE")
  <2>1. OnSymbols(ToggleAlphabetAndSymbols(k, caps, "NONE"))
    BY <1>1, ToggleDraws
  <2>2. OnSymbols(ToggleShiftInSymbols(k))
    BY <1>1, ToggleShiftInSymbolsGood DEF Good, OnSymbols
  <2>3. a.isAlphabetMode
    BY <1>1, NoneIsAMode, SetAlphabetKept DEF Good
  <2> HIDE DEF a
  <2>4. OnSymbols(a)
    BY <2>3 DEF OnSymbols
  <2>5. QED
    BY <1>1, <2>1, <2>2, <2>4 DEF OnFinishSlidingInput, a
<1>4. QED
  BY <1>2, <1>3, BoardIs DEF Quiet, Keeps, Pages, LockKept

LEMMA EventBoard ==
    ASSUME NEW k, Board(k), NEW code, code # "ALPHA_FROM_EMOJI", NEW caps
    PROVE  LET m == OnEvent(k, code, caps, "NONE") IN Board(m) /\ LockKept(m, k)
<1> DEFINE m == OnEvent(k, code, caps, "NONE")
           s == AdvanceSwitchState(k, code, caps, "NONE")
           t == ToggleAlphabetAndSymbols(k, caps, "NONE")
<1>1. Good(k) /\ Honest(k) /\ OnSymbols(k) /\ k \in KeyboardStates
  BY BoardIs DEF Board, Good, Plain
<1>2. Good(m) /\ Quiet(m, k)
  BY NoneIsAMode, EventGood, EventQuiet DEF Board
<1>3. Good(s)
  BY NoneIsAMode, AdvanceGood DEF Board
<1>4. t \in KeyboardStates /\ OnSymbols(t)
  BY <1>1, NoneIsAMode, ToggleGood, ToggleDraws DEF Good, Plain
<1> HIDE DEF t
<1>5. OnSymbols(s)
  <2> DEFINE p == [t EXCEPT !.prevSymbolsShifted = FALSE]
             a(v) == [k EXCEPT !.switchState = v]
  <2>1. p.isAlphabetMode = t.isAlphabetMode /\ p.layout = t.layout
    BY <1>4 DEF KeyboardStates
  <2>2. \A v : a(v).isAlphabetMode = k.isAlphabetMode /\ a(v).layout = k.layout
    BY <1>1 DEF KeyboardStates
  <2>3. s = k \/ s = p \/ \E v : s = a(v)
    BY DEF AdvanceSwitchState, t
  <2> HIDE DEF s, p, a
  <2>4. QED
    BY <1>1, <1>4, <2>1, <2>2, <2>3 DEF OnSymbols
<1> HIDE DEF s
<1>6. m = s \/ m = UpdateAlphabetShiftState(s, caps, "NONE")
  BY DEF OnEvent, s
<1>7. OnSymbols(m)
  BY <1>3, <1>5, <1>6, UpdateDraws
<1>8. QED
  BY <1>2, <1>7, BoardIs DEF Quiet, Keeps, Pages, LockKept

LEMMA CodeInputBoard ==
    ASSUME NEW k, Board(k), NEW code, code # "ALPHA_FROM_EMOJI", NEW caps
    PROVE  LET m == CodeInput(k, code, caps) IN Board(m) /\ LockKept(m, k)
<1> DEFINE symbolShift == code = "SHIFT" /\ k.layout \notin AlphabetLayouts
           u == IF code \in {"SHIFT", "SPACE", "OTHER"} /\ ~symbolShift
                THEN OnUpdateShiftState(k, caps, "NONE") ELSE k
           c == IF symbolShift THEN "OTHER" ELSE code
<1>1. Board(u) /\ LockKept(u, k)
  BY UpdateBoard DEF LockKept
<1>2. c # "ALPHA_FROM_EMOJI"
  OBVIOUS
<1>3. CodeInput(k, code, caps) = OnEvent(u, c, caps, "NONE")
  BY DEF CodeInput
<1> HIDE DEF u, c
<1>4. QED
  BY <1>1, <1>2, <1>3, EventBoard DEF LockKept

LEMMA ResetBoard ==
    ASSUME NEW k, Board(k), NEW caps
    PROVE  LET m == ResetKeyboardStateToAlphabet(k, caps, "NONE")
           IN  Board(m) /\ LockKept(m, k)
<1> DEFINE m == BackToAlphabet(k, caps, "NONE")
<1>1. Good(k) /\ Honest(k) /\ Plain(k)
  BY DEF Board, Good
<1>2. ASSUME ~k.isAlphabetMode PROVE Board(m) /\ LockKept(m, k)
  <2>1. Good(m)
    BY <1>1, NoneIsAMode, BackToAlphabetGood
  <2>2. k.alphabetShift = "UNSHIFTED"
    BY <1>1, <1>2 DEF Good, PagesIn
  <2>3. Pages(m, k) /\ Honest(m)
    BY <1>1, <1>2, <2>2, NoneIsAMode, BackToAlphabetPages
  <2> HIDE DEF m
  <2>4. OnSymbols(m)
    BY <1>2, <2>3 DEF Pages, OnSymbols
  <2>5. QED
    BY <2>1, <2>3, <2>4, BoardIs DEF Pages, LockKept
<1>3. QED
  BY <1>2 DEF ResetKeyboardStateToAlphabet, LockKept

\* A load draws the page it restores.
LEMMA LoadBoard ==
    ASSUME NEW k, Plain(k), NEW caps
    PROVE  Board(LoadKeyboard(k, caps, "NONE"))
<1> DEFINE m == LoadKeyboard(k, caps, "NONE")
           r == [k EXCEPT !.alphabetShift = SetLocked(k.alphabetShift, FALSE),
                          !.prevMainShiftLocked = FALSE, !.prevSymbolsShifted = FALSE,
                          !.shiftKey = "RELEASING", !.symbolKey = "RELEASING"]
           s == r.saved
           p == [r EXCEPT !.prevMainShiftLocked = s.isAlphabetShiftLocked]
           b == SetAlphabetKeyboard(p, caps, "NONE")
           a == SetShiftLocked(b, s.isAlphabetShiftLocked)
           x == RestoreKeyboardState(r, caps, "NONE")
           y == SetSymbols(p, s.shiftMode = "MANUAL_SHIFT")
<1>1. Good(m) /\ Honest(m)
  BY NoneIsAMode, LoadGood, LoadKept
<1>2. r \in KeyboardStates /\ r.saved = k.saved /\ ~r.isEmojiMode
  BY DEF Plain, KeyboardStates, SetLocked, AlphabetShiftStates, ShiftKeyStates, ModifierKeyStates
<1>3. Plain(r) /\ s \in SavedStates /\ ~s.isEmojiMode
  BY <1>2 DEF Plain, KeyboardStates
<1>4. m = IF k.saved.isValid THEN [x EXCEPT !.saved = NewKeyboardState.saved]
          ELSE SetAlphabetKeyboard(r, caps, "NONE")
  BY DEF LoadKeyboard
<1> HIDE DEF m, r
<1>5. Plain(p)
  BY <1>2, <1>3 DEF Plain, KeyboardStates, SavedStates
<1>6. x = CASE s.isAlphabetMode -> IF s.isAlphabetShiftLocked THEN a
                                   ELSE SetShifted(a, s.shiftMode)
            [] ~s.isAlphabetMode /\ s.isEmojiMode -> p
            [] OTHER -> y
  BY DEF RestoreKeyboardState
<1> HIDE DEF x, s, p
<1>7. SetAlphabetKeyboard(r, caps, "NONE").isAlphabetMode
  BY <1>3, NoneIsAMode, SetAlphabetKept
<1>8. b.isAlphabetMode /\ Good(b)
  BY <1>5, NoneIsAMode, SetAlphabetKept, SetAlphabetGood
<1> HIDE DEF b
<1>9. a.isAlphabetMode /\ Good(a)
  BY <1>3, <1>8, SetShiftLockedKept, SetShiftLockedGood DEF SavedStates
<1>10. ASSUME NEW mode \in ShiftModes PROVE SetShifted(a, mode).isAlphabetMode
  <2> HIDE DEF a
  <2> DEFINE d == IF mode = PrevShiftMode(a) THEN a ELSE Display(a, LayoutOfShiftMode[mode])
             v == CASE mode = "AUTOMATIC_SHIFT" -> "AUTOMATIC_SHIFTED"
                    [] mode = "UNSHIFT"         -> ShiftOff(d.alphabetShift)
                    [] OTHER                    -> ShiftOn(d.alphabetShift)
  <2>1. LayoutOfShiftMode[mode] \in AlphabetLayouts
    BY DEF LayoutOfShiftMode, ShiftModes, AlphabetLayouts
  <2>2. d \in KeyboardStates /\ d.isAlphabetMode
    BY <1>9, <2>1, DisplayType DEF Good, Plain
  <2>3. SetShifted(a, mode) = [d EXCEPT !.alphabetShift = v]
    BY <1>9 DEF SetShifted
  <2> HIDE DEF d, v
  <2>4. QED
    BY <2>2, <2>3 DEF KeyboardStates
<1>11. y.layout \in SymbolLayouts
  BY <1>5, SetSymbolsGood
<1> HIDE DEF a, y
<1>12. OnSymbols(x)
  <2>1. s.shiftMode \in ShiftModes
    BY <1>3 DEF SavedStates
  <2>2. QED
    BY <1>3, <1>6, <1>9, <1>10, <1>11, <2>1 DEF OnSymbols
<1>13. x \in KeyboardStates
  BY <1>3, NoneIsAMode, RestoreGood DEF Good, Plain, x
<1>14. OnSymbols(m)
  <2> DEFINE e == [x EXCEPT !.saved = NewKeyboardState.saved]
  <2>1. e.isAlphabetMode = x.isAlphabetMode /\ e.layout = x.layout
    BY <1>13 DEF KeyboardStates
  <2> HIDE DEF e
  <2>2. OnSymbols(e)
    BY <1>12, <2>1 DEF OnSymbols
  <2>3. QED
    BY <1>4, <1>7, <2>2 DEF OnSymbols, e
<1>15. QED
  BY <1>1, <1>14, BoardIs DEF m

\* The listener's flag is reset after every callback.
LEMMA ShownBoard ==
    ASSUME NEW k, Board(k), NEW b \in BOOLEAN
    PROVE  LET m == [k EXCEPT !.displayed = b] IN Board(m) /\ LockKept(m, k)
<1>1. Good([k EXCEPT !.displayed = b]) /\ Same([k EXCEPT !.displayed = b], k)
  BY FlagGood, FlagSame DEF Board, Good
<1>2. QED
  BY <1>1 DEF Same, Board, Honest, LockKept, Lock

-----------------------------------------------------------------------------
(***************************************************************************)
(* Worlds: what a call of a tracker on its listener changes.               *)
(***************************************************************************)

Panels == [finger : Fingers \cup {NoKey}, shown : BOOLEAN]
Worlds == [kb : KeyboardStates, tr : [Fingers -> Trackers], queue : Seq(Fingers),
           panel : Panels]

Fine(w) == w \in Worlds /\ Board(w.kb)

\* A tracker that makes calls keeps its touch, although a displayed keyboard
\* drops its long press.
Steady(u, t) ==
    /\ u.key = t.key /\ u.disabled = t.disabled /\ u.panel = t.panel /\ u.stale = t.stale
    /\ u.longPress => t.longPress
    /\ u.repeat => t.repeat
    /\ u.cursorMoved => t.cursorMoved

\* What the calls of one finger leave of the others.
Beside(u, t) == Steady(u, t) /\ u.announced = t.announced /\ u.typed = t.typed

Calls(v, w, f) ==
    /\ Fine(v) /\ v.queue = w.queue /\ v.panel = w.panel
    /\ \A g \in Fingers : Steady(v.tr[g], w.tr[g]) /\ (g # f => Beside(v.tr[g], w.tr[g]))

LEMMA CallsTrivia ==
    ASSUME NEW f
    PROVE  /\ \A w : Fine(w) => Calls(w, w, f)
           /\ \A u, v, w : Calls(u, v, f) /\ Calls(v, w, f) => Calls(u, w, f)
BY DEF Calls, Steady, Beside

\* One tracker is replaced.
Put(w, f, u) == [w EXCEPT !.tr[f] = u]

LEMMA PutFine ==
    ASSUME NEW w \in Worlds, NEW f \in Fingers, NEW u \in Trackers
    PROVE  LET v == Put(w, f, u)
           IN  /\ v \in Worlds /\ (Fine(w) => Fine(v))
               /\ v.kb = w.kb /\ v.queue = w.queue /\ v.panel = w.panel
               /\ v.tr[f] = u
               /\ \A g \in Fingers : g # f => v.tr[g] = w.tr[g]
BY DEF Put, Worlds, Fine

LEMMA ListenFine ==
    ASSUME NEW w \in Worlds, NEW k, Board(k)
    PROVE  LET v == Listen(w, k)
           IN  /\ Fine(v) /\ LockKept(v.kb, k)
               /\ v.queue = w.queue /\ v.panel = w.panel
               /\ \A g \in Fingers : Beside(v.tr[g], w.tr[g])
<1> DEFINE m == [k EXCEPT !.displayed = FALSE]
           t == IF k.displayed THEN [g \in Fingers |-> [w.tr[g] EXCEPT !.longPress = FALSE]]
                ELSE w.tr
           v == Listen(w, k)
<1>1. Board(m) /\ LockKept(m, k)
  BY ShownBoard
<1>2. m \in KeyboardStates
  BY <1>1 DEF Board, Good, Plain
<1>3. v = [w EXCEPT !.kb = m, !.tr = t]
  BY DEF Listen
<1> HIDE DEF m, v
<1>4. t \in [Fingers -> Trackers] /\ \A g \in Fingers : Beside(t[g], w.tr[g])
  <2>1. w.tr \in [Fingers -> Trackers]
    BY DEF Worlds
  <2>2. \A a \in Trackers : [a EXCEPT !.longPress = FALSE] \in Trackers
                            /\ Beside([a EXCEPT !.longPress = FALSE], a)
    BY DEF Trackers, Beside, Steady
  <2>3. QED
    BY <2>1, <2>2 DEF Beside, Steady
<1> HIDE DEF t
<1>5. v.kb = m /\ v.tr = t /\ v.queue = w.queue /\ v.panel = w.panel /\ v \in Worlds
  BY <1>2, <1>3, <1>4 DEF Worlds
<1>6. QED
  BY <1>1, <1>4, <1>5 DEF Fine, v

\* The home page is history only.
LEMMA SetHomeFine ==
    ASSUME NEW w, Fine(w), NEW f
    PROVE  LET v == SetHome(w, f)
           IN  /\ Fine(v) /\ v.kb = w.kb /\ v.queue = w.queue /\ v.panel = w.panel
               /\ \A g \in Fingers : Beside(v.tr[g], w.tr[g])
<1> DEFINE h(g) == IF g /= f THEN "NONE" ELSE IF w.kb.isAlphabetMode THEN "ALPHA" ELSE "SYMBOLS"
           t == [g \in Fingers |-> [w.tr[g] EXCEPT !.home = h(g)]]
           v == SetHome(w, f)
<1>1. w \in Worlds /\ w.tr \in [Fingers -> Trackers]
  BY DEF Fine, Worlds
<1>2. \A a \in Trackers : \A x \in {"NONE", "ALPHA", "SYMBOLS"} :
         [a EXCEPT !.home = x] \in Trackers /\ Beside([a EXCEPT !.home = x], a)
  BY DEF Trackers, Beside, Steady
<1>3. t \in [Fingers -> Trackers] /\ \A g \in Fingers : Beside(t[g], w.tr[g])
  BY <1>1, <1>2
<1>4. v = [w EXCEPT !.tr = t]
  BY DEF SetHome
<1> HIDE DEF t, v
<1>5. v.kb = w.kb /\ v.tr = t /\ v.queue = w.queue /\ v.panel = w.panel /\ v \in Worlds
  BY <1>1, <1>3, <1>4 DEF Worlds
<1>6. QED
  BY <1>3, <1>5 DEF Fine, v

\* A call by f after which the record of its history is u.
LEMMA CallFine ==
    ASSUME NEW w, Fine(w), NEW h, Fine(h), h.queue = w.queue, h.panel = w.panel,
           \A g \in Fingers : Beside(h.tr[g], w.tr[g]),
           NEW k, Board(k), NEW f \in Fingers, NEW u \in Trackers,
           Steady(u, Listen(h, k).tr[f])
    PROVE  LET v == Put(Listen(h, k), f, u)
           IN  Calls(v, w, f) /\ v.tr[f] = u /\ LockKept(v.kb, k)
<1> DEFINE l == Listen(h, k)
           v == Put(l, f, u)
<1>1. /\ Fine(l) /\ LockKept(l.kb, k) /\ l.queue = w.queue /\ l.panel = w.panel
      /\ \A g \in Fingers : Beside(l.tr[g], h.tr[g])
  BY ListenFine DEF Fine
<1>2. \A g \in Fingers : Beside(l.tr[g], w.tr[g])
  BY <1>1 DEF Beside, Steady
<1> HIDE DEF l
<1>3. /\ Fine(v) /\ v.kb = l.kb /\ v.queue = l.queue /\ v.panel = l.panel
      /\ v.tr[f] = u /\ \A g \in Fingers : g # f => v.tr[g] = l.tr[g]
  BY <1>1, PutFine DEF Fine
<1> HIDE DEF v
<1>4. Steady(u, w.tr[f])
  BY <1>2 DEF Beside, Steady, l
<1>5. \A g \in Fingers : Steady(v.tr[g], w.tr[g]) /\ (g # f => Beside(v.tr[g], w.tr[g]))
  BY <1>2, <1>3, <1>4 DEF Beside
<1>6. QED
  BY <1>1, <1>3, <1>5 DEF Calls, v, l

LEMMA TypingIsTyped == \A before, what \in Typed : Typing(before, what) \in Typed
BY DEF Typing, Typed

LEMMA PressCalls ==
    ASSUME NEW w, Fine(w), NEW f \in Fingers, NEW key \in Keys, NEW caps
    PROVE  LET v == Press(w, f, key, caps)
           IN  /\ Calls(v, w, f) /\ v.tr[f].typed = w.tr[f].typed
               /\ v.tr[f].announced =
                    IF w.tr[f].disabled \/ Muted(w.tr[f], key) THEN w.tr[f].announced ELSE key
               /\ key # "SHIFT" => LockKept(v.kb, w.kb)
<1> DEFINE v == Press(w, f, key, caps)
           h == IF key = "SWITCH_ALPHA_SYMBOL" THEN SetHome(w, f) ELSE w
           k == OnPressKey(w.kb, CodeOf(key), Len(w.queue) = 1, caps, "NONE")
           l == Listen(h, k)
           u == [l.tr[f] EXCEPT !.announced = key]
<1>1. CASE w.tr[f].disabled \/ Muted(w.tr[f], key)
  BY <1>1, CallsTrivia DEF Press, LockKept
<1>2. CASE ~(w.tr[f].disabled \/ Muted(w.tr[f], key))
  <2>1. /\ Fine(h) /\ h.queue = w.queue /\ h.panel = w.panel
        /\ \A g \in Fingers : Beside(h.tr[g], w.tr[g])
    BY SetHomeFine DEF Beside, Steady
  <2>2. Board(k) /\ (key # "SHIFT" => LockKept(k, w.kb))
    <3>1. Board(w.kb) /\ (key # "SHIFT" => CodeOf(key) # "SHIFT")
      BY DEF Fine, CodeOf
    <3>2. QED
      BY <3>1, PressBoard
  <2> HIDE DEF h, k
  <2>3. Fine(l) /\ \A g \in Fingers : Beside(l.tr[g], h.tr[g])
    BY <2>1, <2>2, ListenFine DEF Fine
  <2>4. l.tr[f] \in Trackers
    BY <2>3 DEF Fine, Worlds
  <2>5. v = Put(l, f, u)
    BY <1>2 DEF Press, Put, h, k
  <2> HIDE DEF v, l
  <2>6. u \in Trackers /\ Steady(u, l.tr[f]) /\ u.announced = key /\ u.typed = l.tr[f].typed
    BY <2>4 DEF Trackers, Steady
  <2> HIDE DEF u
  <2>7. Calls(v, w, f) /\ v.tr[f] = u /\ LockKept(v.kb, k)
    BY <2>1, <2>2, <2>5, <2>6, CallFine DEF l
  <2>8. u.typed = w.tr[f].typed
    BY <2>1, <2>3, <2>6 DEF Beside
  <2>9. QED
    BY <1>2, <2>2, <2>6, <2>7, <2>8 DEF LockKept, v
<1>3. QED
  BY <1>1, <1>2

LEMMA ReleaseCalls ==
    ASSUME NEW w, Fine(w), NEW f \in Fingers, NEW key, NEW sliding, NEW caps
    PROVE  LET v == Release(w, f, key, sliding, caps)
           IN  /\ Calls(v, w, f) /\ v.tr[f].typed = w.tr[f].typed
               /\ key \notin {"SHIFT", "CAPSLOCK"} => LockKept(v.kb, w.kb)
<1> DEFINE v == Release(w, f, key, sliding, caps)
           k == OnReleaseKey(w.kb, CodeOf(key), sliding, caps, "NONE")
           l == Listen(w, k)
           u == [l.tr[f] EXCEPT !.announced = NoKey]
<1>1. CASE w.tr[f].disabled \/ Muted(w.tr[f], key)
  BY <1>1, CallsTrivia DEF Release, LockKept
<1>2. CASE ~(w.tr[f].disabled \/ Muted(w.tr[f], key))
  <2>1. \A g \in Fingers : Beside(w.tr[g], w.tr[g])
    BY DEF Beside, Steady
  <2>2. Board(k) /\ (key \notin {"SHIFT", "CAPSLOCK"} => LockKept(k, w.kb))
    <3>1. Board(w.kb) /\ (key \notin {"SHIFT", "CAPSLOCK"} => CodeOf(key) \notin {"SHIFT", "CAPSLOCK"})
      BY DEF Fine, CodeOf
    <3>2. QED
      BY <3>1, ReleaseBoard
  <2> HIDE DEF k
  <2>3. Fine(l) /\ \A g \in Fingers : Beside(l.tr[g], w.tr[g])
    BY <2>2, ListenFine DEF Fine
  <2>4. l.tr[f] \in Trackers
    BY <2>3 DEF Fine, Worlds
  <2>5. v = Put(l, f, u)
    BY <1>2 DEF Release, Put, k
  <2> HIDE DEF v, l
  <2>6. u \in Trackers /\ Steady(u, l.tr[f]) /\ u.typed = l.tr[f].typed
    BY <2>4 DEF Trackers, Steady
  <2> HIDE DEF u
  <2>7. Calls(v, w, f) /\ v.tr[f] = u /\ LockKept(v.kb, k)
    BY <2>1, <2>2, <2>5, <2>6, CallFine DEF l
  <2>8. u.typed = w.tr[f].typed
    BY <2>3, <2>6 DEF Beside
  <2>9. QED
    BY <2>2, <2>7, <2>8 DEF LockKept, v
<1>3. QED
  BY <1>1, <1>2

LEMMA SendCodeCalls ==
    ASSUME NEW w, Fine(w), NEW f \in Fingers, NEW key \in Keys \cup {"LETTER"}, NEW caps
    PROVE  LET v == SendCode(w, f, key, caps)
           IN  /\ Calls(v, w, f) /\ v.tr[f].announced = w.tr[f].announced
               /\ v.tr[f].typed \in {w.tr[f].typed, Typing(w.tr[f].typed, "KEY")}
               /\ LockKept(v.kb, w.kb)
<1> DEFINE v == SendCode(w, f, key, caps)
           h == IF key = "SWITCH_ALPHA_SYMBOL" THEN SetHome(w, NoKey) ELSE w
           k == CodeInput(w.kb, CodeOf(key), caps)
           l == Listen(h, k)
           n == Typing(l.tr[f].typed, "KEY")
           u == [l.tr[f] EXCEPT !.typed = n]
<1>1. CASE Muted(w.tr[f], key)
  BY <1>1, CallsTrivia DEF SendCode, LockKept
<1>2. CASE ~Muted(w.tr[f], key)
  <2>1. /\ Fine(h) /\ h.queue = w.queue /\ h.panel = w.panel
        /\ \A g \in Fingers : Beside(h.tr[g], w.tr[g])
    BY SetHomeFine DEF Beside, Steady
  <2>2. Board(k) /\ LockKept(k, w.kb)
    <3>1. Board(w.kb) /\ CodeOf(key) # "ALPHA_FROM_EMOJI"
      BY TouchAssumption DEF Fine, CodeOf, KeyNames
    <3>2. QED
      BY <3>1, CodeInputBoard
  <2> HIDE DEF h, k
  <2>3. Fine(l) /\ \A g \in Fingers : Beside(l.tr[g], h.tr[g])
    BY <2>1, <2>2, ListenFine DEF Fine
  <2>4. l.tr[f] \in Trackers
    BY <2>3 DEF Fine, Worlds
  <2>5. v = Put(l, f, u)
    BY <1>2 DEF SendCode, Put, h, k
  <2>6. n \in Typed
    BY <2>4, TypingIsTyped DEF Trackers, Typed
  <2> HIDE DEF v, l, n
  <2>10. /\ u \in Trackers /\ Steady(u, l.tr[f]) /\ u.announced = l.tr[f].announced
         /\ u.typed = n
    BY <2>4, <2>6 DEF Trackers, Steady
  <2> HIDE DEF u
  <2>7. Calls(v, w, f) /\ v.tr[f] = u /\ LockKept(v.kb, k)
    BY <2>1, <2>2, <2>5, <2>10, CallFine DEF l
  <2>8. u.typed = Typing(w.tr[f].typed, "KEY") /\ u.announced = w.tr[f].announced
    BY <2>1, <2>3, <2>10 DEF Beside, n
  <2>9. QED
    BY <2>2, <2>7, <2>8 DEF LockKept, v
<1>3. QED
  BY <1>1, <1>2

LEMMA SendDeleteCalls ==
    ASSUME NEW w, Fine(w), NEW f \in Fingers, NEW what \in Typed, NEW caps
    PROVE  LET v == SendDelete(w, f, what, caps)
           IN  /\ Calls(v, w, f) /\ v.tr[f].announced = w.tr[f].announced
               /\ v.tr[f].typed = Typing(w.tr[f].typed, what)
               /\ LockKept(v.kb, w.kb)
<1> DEFINE v == SendDelete(w, f, what, caps)
           k == CodeInput(w.kb, "OTHER", caps)
           l == Listen(w, k)
           n == Typing(l.tr[f].typed, what)
           u == [l.tr[f] EXCEPT !.typed = n]
<1>1. \A g \in Fingers : Beside(w.tr[g], w.tr[g])
  BY DEF Beside, Steady
<1>2. Board(k) /\ LockKept(k, w.kb)
  BY CodeInputBoard DEF Fine
<1> HIDE DEF k
<1>3. Fine(l) /\ \A g \in Fingers : Beside(l.tr[g], w.tr[g])
  BY <1>2, ListenFine DEF Fine
<1>4. l.tr[f] \in Trackers
  BY <1>3 DEF Fine, Worlds
<1>5. v = Put(l, f, u)
  BY DEF SendDelete, Put, k
<1>6. n \in Typed
  BY <1>4, TypingIsTyped DEF Trackers
<1> HIDE DEF v, l, n
<1>7. /\ u \in Trackers /\ Steady(u, l.tr[f]) /\ u.announced = l.tr[f].announced
      /\ u.typed = n
  BY <1>4, <1>6 DEF Trackers, Steady
<1> HIDE DEF u
<1>8. Calls(v, w, f) /\ v.tr[f] = u /\ LockKept(v.kb, k)
  BY <1>1, <1>2, <1>5, <1>7, CallFine DEF l
<1>9. u.typed = Typing(w.tr[f].typed, what) /\ u.announced = w.tr[f].announced
  BY <1>3, <1>7 DEF Beside, n
<1>10. QED
  BY <1>2, <1>8, <1>9 DEF LockKept, v

\* The key a finger was on is typed and released, unless it was on none.
LEMMA DetectCalls ==
    ASSUME NEW w, Fine(w), NEW f \in Fingers, NEW key \in Keys \cup {NoKey}, NEW caps
    PROVE  LET v == DetectAndSendKey(w, f, key, caps)
           IN  /\ Calls(v, w, f)
               /\ v.tr[f].typed \in {w.tr[f].typed, Typing(w.tr[f].typed, "KEY")}
               /\ key # "SHIFT" => LockKept(v.kb, w.kb)
<1> DEFINE s == SendCode(w, f, key, caps)
           no == FALSE
           v == Release(s, f, key, no, caps)
<1>1. CASE key = NoKey
  BY <1>1, CallsTrivia DEF DetectAndSendKey, LockKept
<1>2. CASE key # NoKey
  <2>1. key \in Keys /\ key # "CAPSLOCK"
    BY <1>2, TouchAssumption DEF KeyNames
  <2>2. /\ Calls(s, w, f) /\ s.tr[f].typed \in {w.tr[f].typed, Typing(w.tr[f].typed, "KEY")}
        /\ LockKept(s.kb, w.kb)
    BY <2>1, SendCodeCalls
  <2>3. Fine(s)
    BY <2>2 DEF Calls
  <2> HIDE DEF s, no
  <2>4. /\ Calls(v, s, f) /\ v.tr[f].typed = s.tr[f].typed
        /\ key # "SHIFT" => LockKept(v.kb, s.kb)
    BY <2>1, <2>3, ReleaseCalls
  <2>5. DetectAndSendKey(w, f, key, caps) = v
    BY <1>2 DEF DetectAndSendKey, s, no
  <2> HIDE DEF v
  <2>6. Calls(v, w, f)
    BY <2>2, <2>4, CallsTrivia
  <2>7. QED
    BY <2>2, <2>4, <2>5, <2>6 DEF LockKept
<1>3. QED
  BY <1>1, <1>2

\* The finger has swiped from delete.
Swiped(t) == t.cursorMoved /\ t.key = "DELETE"

\* What an up event types: a key, unless the finger was cancelled; the selection of
\* a swipe, also of a cancelled finger; and both if a finger did both.
UpTypes(n, t) ==
    \/ n = t.typed
    \/ ~t.disabled /\ n = Typing(t.typed, "KEY")
    \/ Swiped(t) /\ n = Typing(t.typed, "SELECTION")
    \/ Swiped(t) /\ t.panel

\* What an up event makes of the finger's tracker.
Ended(u, t) ==
    /\ u.key = NoKey /\ ~u.longPress /\ ~u.repeat /\ ~u.panel
    /\ u.disabled = t.disabled /\ u.stale = t.stale
    /\ UpTypes(u.typed, t)

LEMMA CancelTrackingFine ==
    ASSUME NEW w, Fine(w), NEW f \in Fingers
    PROVE  LET v == CancelTracking(w, f)
           IN  /\ Fine(v) /\ v.kb = w.kb /\ v.queue = w.queue /\ v.panel = w.panel
               /\ \A g \in Fingers : g # f => v.tr[g] = w.tr[g]
               /\ v.tr[f].disabled \/ w.tr[f].panel
               /\ v.tr[f] \in {w.tr[f], [w.tr[f] EXCEPT !.disabled = TRUE]}
<1> DEFINE u == [w.tr[f] EXCEPT !.disabled = TRUE]
<1>1. CASE w.tr[f].panel
  BY <1>1 DEF CancelTracking
<1>2. CASE ~w.tr[f].panel
  <2>1. w \in Worlds /\ w.tr[f] \in Trackers
    BY DEF Fine, Worlds
  <2>2. u \in Trackers /\ u.disabled
    BY <2>1 DEF Trackers
  <2>3. CancelTracking(w, f) = Put(w, f, u)
    BY <1>2 DEF CancelTracking, Put
  <2> HIDE DEF u
  <2> DEFINE v == Put(w, f, u)
  <2>4. /\ Fine(v) /\ v.kb = w.kb /\ v.queue = w.queue /\ v.panel = w.panel /\ v.tr[f] = u
        /\ \A g \in Fingers : g # f => v.tr[g] = w.tr[g]
    BY <2>1, <2>2, PutFine
  <2> HIDE DEF v
  <2>5. QED
    BY <2>2, <2>3, <2>4 DEF u, v
<1>3. QED
  BY <1>1, <1>2

LEMMA DismissFine ==
    ASSUME NEW w, Fine(w), NEW f \in Fingers
    PROVE  LET v == DismissPanel(w, f)
           IN  /\ Fine(v) /\ v.kb = w.kb /\ v.queue = w.queue
               /\ ~w.tr[f].panel => v = w
               /\ \A g \in Fingers : g # f => v.tr[g] = w.tr[g]
               /\ v.tr[f] = [w.tr[f] EXCEPT !.panel = FALSE]
<1> DEFINE u == [w.tr[f] EXCEPT !.panel = FALSE]
           n == Put(w, f, u)
           q == [w.panel EXCEPT !.shown = FALSE]
           v == [n EXCEPT !.panel = q]
<1>1. w \in Worlds /\ w.tr[f] \in Trackers /\ w.panel \in Panels
  BY DEF Fine, Worlds
<1>2. u \in Trackers /\ (~w.tr[f].panel => u = w.tr[f]) /\ q \in Panels
  BY <1>1 DEF Trackers, Panels
<1>3. CASE ~w.tr[f].panel
  BY <1>2, <1>3 DEF DismissPanel
<1>4. CASE w.tr[f].panel
  <2>1. /\ Fine(n) /\ n \in Worlds /\ n.kb = w.kb /\ n.queue = w.queue
        /\ n.tr[f] = u /\ \A g \in Fingers : g # f => n.tr[g] = w.tr[g]
    <3> HIDE DEF u
    <3>1. QED
      BY <1>1, <1>2, PutFine
  <2>2. DismissPanel(w, f) = v
    BY <1>4 DEF DismissPanel, Put
  <2> HIDE DEF n, u, q
  <2>3. v \in Worlds /\ v.kb = n.kb /\ v.tr = n.tr /\ v.queue = n.queue
    BY <1>2, <2>1 DEF Worlds
  <2> HIDE DEF v
  <2>4. QED
    BY <1>4, <2>1, <2>2, <2>3 DEF Fine, u
<1>5. QED
  BY <1>3, <1>4

LEMMA UpInternalFine ==
    ASSUME NEW w, Fine(w), NEW f \in Fingers, NEW lift, NEW caps
    PROVE  LET v == UpInternal(w, f, lift, caps)
           IN  /\ Fine(v) /\ v.queue = w.queue
               /\ \A g \in Fingers : g # f => Beside(v.tr[g], w.tr[g])
               /\ Ended(v.tr[f], w.tr[f])
               /\ ~w.tr[f].panel => v.panel = w.panel
               /\ w.tr[f].key # "SHIFT" => LockKept(v.kb, w.kb)
<1> DEFINE t == w.tr[f]
           x == [t EXCEPT !.longPress = FALSE, !.repeat = FALSE, !.dragging = FALSE,
                          !.sliding = FALSE, !.key = NoKey, !.repeating = FALSE]
           r == Put(w, f, x)
           v == UpInternal(w, f, lift, caps)
<1>1. w \in Worlds /\ t \in Trackers /\ t.key \in Keys \cup {NoKey}
  BY DEF Fine, Worlds, Trackers
<1>2. /\ x \in Trackers /\ x.key = NoKey /\ ~x.longPress /\ ~x.repeat
      /\ x.disabled = t.disabled /\ x.stale = t.stale /\ x.panel = t.panel
      /\ x.typed = t.typed /\ x.cursorMoved = t.cursorMoved
  BY <1>1 DEF Trackers
<1> HIDE DEF x
<1>3. /\ Fine(r) /\ r.kb = w.kb /\ r.queue = w.queue /\ r.panel = w.panel
      /\ r.tr[f] = x /\ \A g \in Fingers : g # f => r.tr[g] = w.tr[g]
  BY <1>1, <1>2, PutFine
<1> HIDE DEF r
<1> DEFINE swipe == t.cursorMoved /\ t.key = "DELETE" /\ lift.selected = f
           d == SendDelete(r, f, "SELECTION", caps)
           e == IF swipe THEN d ELSE r
           s == DetectAndSendKey(r, f, t.key, caps)
           o == Listen(s, OnFinishSlidingInput(s.kb, caps, "NONE"))
           l == SendCode(e, f, "LETTER", caps)
           c == [e EXCEPT !.tr[f].cursorMoved = FALSE]
\* The world before a panel is dismissed.
<1> DEFINE Done(a) == /\ Calls(a, r, f) /\ UpTypes(a.tr[f].typed, t)
                      /\ t.key # "SHIFT" => LockKept(a.kb, w.kb)
<1>4. Done(r)
  BY <1>2, <1>3, CallsTrivia DEF LockKept, UpTypes
<1>16. /\ Done(e)
       /\ e.tr[f].typed = t.typed \/ Swiped(t)
  <2>1. /\ Calls(d, r, f) /\ d.tr[f].typed = Typing(t.typed, "SELECTION")
        /\ LockKept(d.kb, w.kb)
    <3>1. "SELECTION" \in Typed
      BY DEF Typed
    <3>2. QED
      BY <1>2, <1>3, <3>1, SendDeleteCalls
  <2>2. swipe => Swiped(t)
    BY DEF Swiped
  <2> HIDE DEF d, swipe, t
  <2>3. swipe => Done(d)
    BY <2>1, <2>2 DEF UpTypes
  <2>4. QED
    BY <1>2, <1>3, <1>4, <2>2, <2>3
<1> HIDE DEF e
<1>17. Fine(e) /\ e.tr[f] \in Trackers /\ e \in Worlds
  BY <1>16 DEF Calls, Fine, Worlds
<1>5. ASSUME ~t.disabled, t.panel PROVE Done(l)
  <2>1. /\ Calls(l, e, f) /\ l.tr[f].typed \in {e.tr[f].typed, Typing(e.tr[f].typed, "KEY")}
        /\ LockKept(l.kb, e.kb)
    BY <1>17, SendCodeCalls
  <2> HIDE DEF l, t
  <2>2. Calls(l, r, f)
    BY <1>16, <2>1, CallsTrivia
  <2>3. UpTypes(l.tr[f].typed, t)
    BY <1>5, <1>16, <2>1 DEF UpTypes
  <2>4. QED
    BY <1>16, <2>1, <2>2, <2>3 DEF LockKept
<1>6. Done(c)
  <2> DEFINE y == [e.tr[f] EXCEPT !.cursorMoved = FALSE]
  <2>1. y \in Trackers /\ Steady(y, e.tr[f]) /\ y.typed = e.tr[f].typed
    BY <1>17 DEF Trackers, Steady
  <2>2. c = Put(e, f, y)
    BY DEF Put
  <2> HIDE DEF c, y
  <2>3. /\ Fine(c) /\ c.kb = e.kb /\ c.queue = e.queue /\ c.panel = e.panel
        /\ c.tr[f] = y /\ \A g \in Fingers : g # f => c.tr[g] = e.tr[g]
    BY <1>17, <2>1, <2>2, PutFine
  <2>4. Calls(c, e, f)
    BY <1>17, <2>1, <2>3 DEF Calls, Beside, Steady
  <2>5. Calls(c, r, f)
    BY <1>16, <2>4, CallsTrivia
  <2>6. QED
    BY <1>16, <2>1, <2>3, <2>5
<1>7. ASSUME ~t.disabled PROVE Done(s) /\ Done(o)
  <2>1. Done(s)
    <3>1. /\ Calls(s, r, f) /\ s.tr[f].typed \in {t.typed, Typing(t.typed, "KEY")}
          /\ t.key # "SHIFT" => LockKept(s.kb, r.kb)
      BY <1>1, <1>2, <1>3, DetectCalls
    <3> HIDE DEF s, t
    <3>2. QED
      BY <1>3, <1>7, <3>1 DEF UpTypes
  <2>2. Fine(s)
    BY <2>1 DEF Calls
  <2> HIDE DEF s
  <2>3. /\ Board(OnFinishSlidingInput(s.kb, caps, "NONE"))
        /\ LockKept(OnFinishSlidingInput(s.kb, caps, "NONE"), s.kb)
    BY <2>2, FinishSlidingBoard DEF Fine
  <2>4. /\ Fine(o) /\ o.queue = s.queue /\ o.panel = s.panel /\ LockKept(o.kb, s.kb)
        /\ \A g \in Fingers : Beside(o.tr[g], s.tr[g])
    BY <2>2, <2>3, ListenFine DEF Fine, LockKept
  <2> HIDE DEF o
  <2>5. Calls(o, s, f)
    BY <2>4 DEF Calls, Beside
  <2>6. Calls(o, r, f)
    BY <2>1, <2>5, CallsTrivia
  <2>7. QED
    BY <2>1, <2>4, <2>6 DEF Beside, LockKept
<1>8. PICK a : Done(a) /\ v = DismissPanel(a, f)
  <2>1. r = [w EXCEPT !.tr[f] = [@ EXCEPT !.longPress = FALSE, !.repeat = FALSE,
                                          !.dragging = FALSE, !.sliding = FALSE,
                                          !.key = NoKey, !.repeating = FALSE]]
    BY DEF r, Put, x
  <2>2. \/ \E a \in {e, l} : Done(a) /\ t.panel /\ v = DismissPanel(a, f)
        \/ \E a \in {r, c, s, o} : Done(a) /\ ~t.panel /\ v = a
    <3>1. \/ t.panel /\ v = DismissPanel(e, f)
          \/ t.panel /\ ~t.disabled /\ v = DismissPanel(l, f)
          \/ ~t.panel /\ v \in {r, c}
          \/ ~t.panel /\ ~t.disabled /\ v \in {s, o}
      BY <2>1 DEF UpInternal, e
    <3> HIDE DEF Done, l, c, s, o, v
    <3>2. QED
      BY <1>4, <1>5, <1>6, <1>7, <1>16, <3>1
  <2> HIDE DEF l, c, s, o, v
  <2>3. ASSUME NEW a, Done(a), ~t.panel PROVE a = DismissPanel(a, f)
    <3>1. ~a.tr[f].panel
      BY <1>2, <1>3, <2>3 DEF Calls, Steady
    <3>2. QED
      BY <3>1 DEF DismissPanel
  <2>4. QED
    BY <2>2, <2>3
<1> HIDE DEF v
<1>9. Fine(a) /\ a.queue = w.queue /\ a.panel = w.panel
  BY <1>3, <1>8 DEF Calls
<1>10. a.tr[f] \in Trackers
  BY <1>9 DEF Fine, Worlds
<1>11. /\ Fine(v) /\ v.kb = a.kb /\ v.queue = a.queue /\ (~a.tr[f].panel => v = a)
       /\ \A g \in Fingers : g # f => v.tr[g] = a.tr[g]
       /\ v.tr[f] = [a.tr[f] EXCEPT !.panel = FALSE]
  BY <1>8, <1>9, DismissFine
<1>12. Steady(a.tr[f], x) /\ \A g \in Fingers : g # f => Beside(a.tr[g], w.tr[g])
  BY <1>3, <1>8 DEF Calls
<1>13. Ended(v.tr[f], t)
  <2>1. /\ v.tr[f].key = a.tr[f].key /\ v.tr[f].longPress = a.tr[f].longPress
        /\ v.tr[f].repeat = a.tr[f].repeat /\ ~v.tr[f].panel
        /\ v.tr[f].disabled = a.tr[f].disabled /\ v.tr[f].stale = a.tr[f].stale
        /\ v.tr[f].typed = a.tr[f].typed
    BY <1>10, <1>11 DEF Trackers
  <2>2. QED
    BY <1>2, <1>8, <1>12, <2>1 DEF Ended, Steady
<1>14. ~t.panel => v.panel = w.panel
  BY <1>2, <1>9, <1>11, <1>12 DEF Steady
<1>15. QED
  BY <1>8, <1>9, <1>11, <1>12, <1>13, <1>14 DEF v, LockKept

-----------------------------------------------------------------------------
(***************************************************************************)
(* Fingers released by the event of another finger.                        *)
(***************************************************************************)

\* What a phantom up event makes of a tracker: it can do nothing more.
Released(u, t) ==
    /\ u.key = NoKey /\ ~u.longPress /\ ~u.repeat /\ ~u.panel /\ u.disabled
    /\ u.stale = t.stale
    /\ UpTypes(u.typed, t)

\* The fingers of R are released, the others left alone.
Flushed(v, w, R) ==
    /\ Fine(v)
    /\ \A g \in Fingers : IF g \in R THEN Released(v.tr[g], w.tr[g])
                          ELSE Beside(v.tr[g], w.tr[g])
    /\ (\A g \in Fingers : ~w.tr[g].panel) => v.panel = w.panel
    /\ (\A g \in Fingers : w.tr[g].key # "SHIFT") => LockKept(v.kb, w.kb)

LEMMA PhantomUpFine ==
    ASSUME NEW w, Fine(w), NEW f \in Fingers, NEW lift, NEW caps
    PROVE  LET v == PhantomUp(w, f, lift, caps)
           IN  /\ Fine(v) /\ v.queue = w.queue
               /\ \A g \in Fingers : g # f => Beside(v.tr[g], w.tr[g])
               /\ Released(v.tr[f], w.tr[f])
               /\ ~w.tr[f].panel => v.panel = w.panel
               /\ w.tr[f].key # "SHIFT" => LockKept(v.kb, w.kb)
<1> DEFINE u == UpInternal(w, f, lift, caps)
           v == CancelTracking(u, f)
<1>1. /\ Fine(u) /\ u.queue = w.queue
      /\ \A g \in Fingers : g # f => Beside(u.tr[g], w.tr[g])
      /\ Ended(u.tr[f], w.tr[f])
      /\ ~w.tr[f].panel => u.panel = w.panel
      /\ w.tr[f].key # "SHIFT" => LockKept(u.kb, w.kb)
  BY UpInternalFine
<1> HIDE DEF u
<1>2. /\ Fine(v) /\ v.kb = u.kb /\ v.queue = u.queue /\ v.panel = u.panel
      /\ \A g \in Fingers : g # f => v.tr[g] = u.tr[g]
      /\ v.tr[f].disabled \/ u.tr[f].panel
      /\ v.tr[f] \in {u.tr[f], [u.tr[f] EXCEPT !.disabled = TRUE]}
  BY <1>1, CancelTrackingFine
<1>3. u.tr[f] \in Trackers
  BY <1>1 DEF Fine, Worlds
<1> HIDE DEF v
<1>4. Released(v.tr[f], w.tr[f])
  BY <1>1, <1>2, <1>3 DEF Ended, Released, Trackers
<1>5. PhantomUp(w, f, lift, caps) = v
  BY DEF PhantomUp, u, v
<1>6. QED
  BY <1>1, <1>2, <1>4, <1>5

LEMMA FlushedMore ==
    ASSUME NEW w, NEW R, NEW v, Flushed(v, w, R), NEW f \in Fingers,
           NEW x, Fine(x),
           \A g \in Fingers : g # f => Beside(x.tr[g], v.tr[g]),
           Released(x.tr[f], v.tr[f]),
           ~v.tr[f].panel => x.panel = v.panel,
           v.tr[f].key # "SHIFT" => LockKept(x.kb, v.kb)
    PROVE  Flushed(x, w, R \cup {f})
<1>1. ASSUME NEW g \in Fingers
      PROVE  IF g \in R \cup {f} THEN Released(x.tr[g], w.tr[g])
             ELSE Beside(x.tr[g], w.tr[g])
  <2>1. CASE g # f
    BY <2>1 DEF Flushed, Released, UpTypes, Swiped, Beside, Steady
  <2>2. CASE g = f /\ g \in R
    <3>1. v.tr[g].disabled /\ v.tr[g].key # "DELETE" /\ Released(v.tr[g], w.tr[g])
      BY <2>2, TouchAssumption DEF Flushed, Released, KeyNames
    <3>2. x.tr[g].typed = v.tr[g].typed
      BY <2>2, <3>1 DEF Released, UpTypes, Swiped
    <3>3. QED
      BY <2>2, <3>1, <3>2 DEF Released
  <2>3. CASE g = f /\ g \notin R
    <3>1. Beside(v.tr[g], w.tr[g]) /\ Released(x.tr[g], v.tr[g])
      BY <2>3 DEF Flushed
    <3>2. QED
      BY <2>3, <3>1 DEF Released, UpTypes, Swiped, Beside, Steady
  <2>4. QED
    BY <2>1, <2>2, <2>3
<1>2. ASSUME \A g \in Fingers : ~w.tr[g].panel PROVE x.panel = w.panel
  BY <1>2 DEF Flushed, Released, Beside, Steady
<1>3. ASSUME \A g \in Fingers : w.tr[g].key # "SHIFT" PROVE LockKept(x.kb, w.kb)
  <2>1. v.tr[f].key # "SHIFT"
    BY <1>3, TouchAssumption DEF Flushed, Released, Beside, Steady, KeyNames
  <2>2. QED
    BY <1>3, <2>1 DEF Flushed, LockKept
<1>4. QED
  BY <1>1, <1>2, <1>3 DEF Flushed

LEMMA FlushedNone ==
    ASSUME NEW w, Fine(w)
    PROVE  Flushed(w, w, {})
BY DEF Flushed, Beside, Steady, LockKept

\* The fold of PhantomUpAll.
PhantomStep(v, g, S, lift, caps) == IF g \in S THEN v ELSE PhantomUp(v, g, lift, caps)
Phantoms == INSTANCE FoldFacts WITH op <- PhantomStep

LEMMA PhantomUpAllFine ==
    ASSUME NEW w, Fine(w), NEW q \in Seq(Fingers), NEW S, NEW lift, NEW caps
    PROVE  LET v == PhantomUpAll(w, q, S, lift, caps)
           IN  v.queue = w.queue /\ Flushed(v, w, ToSet(q) \ S)
<1> DEFINE R(n) == {q[i] : i \in 1..n} \ S
           T == [n \in Nat |-> {v \in Worlds : v.queue = w.queue /\ Flushed(v, w, R(n))}]
           v == PhantomUpAll(w, q, S, lift, caps)
<1>1. v = Phantoms!Fold(w, q, S, lift, caps)
  BY DEF PhantomUpAll, FoldLeft, MapThenFoldSet, Max, PhantomStep,
         Phantoms!Fold, Phantoms!Steps, Phantoms!Step, Phantoms!Max
<1> HIDE DEF v
<1>2. w \in T[0]
  <2>1. R(0) = {} /\ w \in Worlds
    BY DEF Fine
  <2>2. QED
    BY <2>1, FlushedNone
<1>3. ASSUME NEW n \in 1..Len(q), NEW u \in T[n - 1]
      PROVE  PhantomStep(u, q[n], S, lift, caps) \in T[n]
  <2> DEFINE x == PhantomUp(u, q[n], lift, caps)
  <2>1. n \in Nat /\ n - 1 \in Nat /\ q[n] \in Fingers
    OBVIOUS
  <2>2. u \in Worlds /\ u.queue = w.queue /\ Flushed(u, w, R(n - 1))
    BY <2>1
  <2>3. CASE q[n] \in S
    <3>1. R(n) = R(n - 1)
      BY <2>1, <2>3
    <3>2. PhantomStep(u, q[n], S, lift, caps) = u
      BY <2>3 DEF PhantomStep
    <3> HIDE DEF R
    <3>3. QED
      BY <2>1, <2>2, <3>1, <3>2
  <2>4. CASE q[n] \notin S
    <3>1. R(n) = R(n - 1) \cup {q[n]}
      BY <2>1, <2>4
    <3> HIDE DEF R
    <3>2. Fine(u)
      BY <2>2 DEF Flushed
    <3>3. /\ Fine(x) /\ x.queue = u.queue
          /\ \A g \in Fingers : g # q[n] => Beside(x.tr[g], u.tr[g])
          /\ Released(x.tr[q[n]], u.tr[q[n]])
          /\ ~u.tr[q[n]].panel => x.panel = u.panel
          /\ u.tr[q[n]].key # "SHIFT" => LockKept(x.kb, u.kb)
      BY <2>1, <3>2, PhantomUpFine
    <3>4. PhantomStep(u, q[n], S, lift, caps) = x
      BY <2>4 DEF PhantomStep
    <3> HIDE DEF x
    <3>5. Flushed(x, w, R(n))
      <4>1. Flushed(x, w, R(n - 1) \cup {q[n]})
        BY <2>1, <2>2, <3>3, FlushedMore
      <4>2. QED
        BY <3>1, <4>1
    <3>6. x \in Worlds
      BY <3>3 DEF Fine
    <3>7. QED
      BY <2>1, <2>2, <3>3, <3>4, <3>5, <3>6
  <2>5. QED
    BY <2>3, <2>4
<1>4. Phantoms!Fold(w, q, S, lift, caps) \in T[Len(q)]
  <2> HIDE DEF T
  <2>1. QED
    BY <1>2, <1>3, Phantoms!FoldInvariant
<1>5. Len(q) \in Nat /\ R(Len(q)) = ToSet(q) \ S
  BY DEF ToSet
<1> HIDE DEF R
<1>6. QED
  BY <1>1, <1>4, <1>5 DEF v

\* The fold of Only.
OnlyStep(v, g, S, b, c) == IF g \in S THEN Append(v, g) ELSE v
Onlys == INSTANCE FoldFacts WITH op <- OnlyStep

LEMMA OnlyFacts ==
    ASSUME NEW q \in Seq(Fingers), NEW S
    PROVE  LET s == Only(q, S)
           IN  /\ s \in Seq(Fingers) /\ ToSet(s) = ToSet(q) \cap S
               /\ IsInjective(q) => IsInjective(s)
<1> DEFINE Seen(n) == {q[i] : i \in 1..n}
           T == [n \in Nat |-> {v \in Seq(Fingers) : /\ ToSet(v) = Seen(n) \cap S
                                                     /\ IsInjective(q) => IsInjective(v)}]
           s == Only(q, S)
           w == <<>>
<1>1. s = Onlys!Fold(w, q, S, 0, 0)
  BY DEF Only, FoldLeft, MapThenFoldSet, Max, OnlyStep,
         Onlys!Fold, Onlys!Steps, Onlys!Step, Onlys!Max
<1> HIDE DEF s
<1>2. w \in T[0]
  <2>1. w \in Seq(Fingers) /\ ToSet(w) = {} /\ IsInjective(w) /\ Seen(0) = {}
    BY DEF ToSet, IsInjective
  <2>2. QED
    BY <2>1
<1> HIDE DEF w
<1>3. ASSUME NEW n \in 1..Len(q), NEW v \in T[n - 1]
      PROVE  OnlyStep(v, q[n], S, 0, 0) \in T[n]
  <2> DEFINE x == Append(v, q[n])
  <2>1. n \in Nat /\ n - 1 \in Nat /\ n \in DOMAIN q /\ q[n] \in Fingers /\ Len(q) \in Nat
    OBVIOUS
  <2>2. /\ v \in Seq(Fingers) /\ ToSet(v) = Seen(n - 1) \cap S
        /\ IsInjective(q) => IsInjective(v)
    BY <2>1
  <2>3. Seen(n) = Seen(n - 1) \cup {q[n]}
    BY <2>1
  <2>4. CASE q[n] \notin S
    <3>1. OnlyStep(v, q[n], S, 0, 0) = v
      BY <2>4 DEF OnlyStep
    <3>2. Seen(n) \cap S = Seen(n - 1) \cap S
      BY <2>3, <2>4
    <3> HIDE DEF Seen
    <3>3. QED
      BY <2>1, <2>2, <3>1, <3>2
  <2>5. CASE q[n] \in S
    <3>1. OnlyStep(v, q[n], S, 0, 0) = x
      BY <2>5 DEF OnlyStep
    <3>2. x \in Seq(Fingers) /\ ToSet(x) = ToSet(v) \cup {q[n]}
      <4>1. /\ x \in Seq(Fingers) /\ Len(x) = Len(v) + 1 /\ x[Len(x)] = q[n]
            /\ \A i \in 1..Len(v) : x[i] = v[i]
        BY <2>1, <2>2
      <4>2. DOMAIN x = 1..(Len(v) + 1) /\ DOMAIN v = 1..Len(v) /\ Len(v) \in Nat
        BY <2>1, <2>2, <4>1
      <4> HIDE DEF x
      <4>3. QED
        BY <4>1, <4>2 DEF ToSet
    <3>3. ASSUME IsInjective(q) PROVE q[n] \notin Seen(n - 1)
      BY <2>1, <3>3 DEF IsInjective
    <3>4. ASSUME IsInjective(q) PROVE IsInjective(x)
      <4>1. \A i \in DOMAIN v : v[i] # q[n]
        BY <2>2, <3>3, <3>4 DEF ToSet
      <4>2. /\ Len(x) = Len(v) + 1 /\ x[Len(v) + 1] = q[n]
            /\ \A i \in 1..Len(v) : x[i] = v[i]
            /\ DOMAIN x = 1..(Len(v) + 1) /\ DOMAIN v = 1..Len(v) /\ Len(v) \in Nat
        BY <2>1, <2>2
      <4> HIDE DEF x
      <4>3. IsInjective(v)
        BY <2>2, <3>4
      <4>4. QED
        BY <4>1, <4>2, <4>3 DEF IsInjective
    <3> HIDE DEF Seen, x
    <3>5. QED
      BY <2>1, <2>2, <2>3, <2>5, <3>1, <3>2, <3>4
  <2>6. QED
    BY <2>4, <2>5
<1>4. Onlys!Fold(w, q, S, 0, 0) \in T[Len(q)]
  <2> HIDE DEF T
  <2>1. QED
    BY <1>2, <1>3, Onlys!FoldInvariant
<1>5. Len(q) \in Nat /\ Seen(Len(q)) = ToSet(q)
  BY DEF ToSet
<1> HIDE DEF Seen
<1>6. QED
  BY <1>1, <1>4, <1>5 DEF s

LEMMA ForgetFacts ==
    ASSUME NEW q \in Seq(Fingers), NEW f \in Fingers
    PROVE  /\ Forget(q, f) \in Seq(Fingers) /\ ToSet(Forget(q, f)) = ToSet(q) \ {f}
           /\ IsInjective(q) => IsInjective(Forget(q, f))
<1>1. ToSet(q) \subseteq Fingers
  BY DEF ToSet
<1>2. QED
  BY <1>1, OnlyFacts DEF Forget

LEMMA Members ==
    ASSUME NEW s \in Seq(Fingers)
    PROVE  \A x : x \in ToSet(s) <=> \E i \in 1..Len(s) : x = s[i]
<1>1. DOMAIN s = 1..Len(s)
  OBVIOUS
<1>2. QED
  BY <1>1 DEF ToSet

LEMMA Distinct ==
    ASSUME NEW s \in Seq(Fingers)
    PROVE  IsInjective(s) <=> \A i, j \in 1..Len(s) : s[i] = s[j] => i = j
<1>1. DOMAIN s = 1..Len(s)
  OBVIOUS
<1>2. QED
  BY <1>1 DEF IsInjective

\* Two sequences, one behind the other.
LEMMA JoinFacts ==
    ASSUME NEW s \in Seq(Fingers), NEW t \in Seq(Fingers)
    PROVE  /\ s \o t \in Seq(Fingers) /\ ToSet(s \o t) = ToSet(s) \cup ToSet(t)
           /\ IsInjective(s) /\ IsInjective(t) /\ ToSet(s) \cap ToSet(t) = {}
                => IsInjective(s \o t)
<1> DEFINE x == s \o t
           n == Len(s)
           m == Len(t)
<1>1. /\ x \in Seq(Fingers) /\ Len(x) = n + m /\ n \in Nat /\ m \in Nat
      /\ \A i \in 1..n : x[i] = s[i]
      /\ \A i \in 1..m : x[n + i] = t[i]
  OBVIOUS
<1> HIDE DEF x, n, m
<1>2. ASSUME NEW i \in 1..(n + m)
      PROVE  \/ i \in 1..n /\ x[i] = s[i]
             \/ i - n \in 1..m /\ x[i] = t[i - n]
  <2>1. CASE i <= n
    BY <1>1, <2>1
  <2>2. CASE i > n
    <3>1. i - n \in 1..m /\ n + (i - n) = i
      BY <1>1, <2>2
    <3>2. QED
      BY <1>1, <3>1
  <2>3. QED
    BY <1>1, <2>1, <2>2
<1>3. /\ \A e : e \in ToSet(x) <=> \E i \in 1..(n + m) : e = x[i]
      /\ \A e : e \in ToSet(s) <=> \E i \in 1..n : e = s[i]
      /\ \A e : e \in ToSet(t) <=> \E i \in 1..m : e = t[i]
  <2>1. \A e : e \in ToSet(x) <=> \E i \in 1..(n + m) : e = x[i]
    BY <1>1, Members
  <2>2. \A e : e \in ToSet(s) <=> \E i \in 1..n : e = s[i]
    BY Members DEF n
  <2>3. \A e : e \in ToSet(t) <=> \E i \in 1..m : e = t[i]
    BY Members DEF m
  <2>4. QED
    BY <2>1, <2>2, <2>3
<1>4. ToSet(x) = ToSet(s) \cup ToSet(t)
  <2>1. ASSUME NEW e \in ToSet(x) PROVE e \in ToSet(s) \cup ToSet(t)
    BY <1>2, <1>3
  <2>2. ASSUME NEW e \in ToSet(s) PROVE e \in ToSet(x)
    <3>1. PICK i \in 1..n : e = s[i]
      BY <1>3
    <3>2. i \in 1..(n + m) /\ x[i] = e
      BY <1>1, <3>1
    <3>3. QED
      BY <1>3, <3>2
  <2>3. ASSUME NEW e \in ToSet(t) PROVE e \in ToSet(x)
    <3>1. PICK i \in 1..m : e = t[i]
      BY <1>3
    <3>2. n + i \in 1..(n + m) /\ x[n + i] = e
      BY <1>1, <3>1
    <3>3. QED
      BY <1>3, <3>2
  <2>4. QED
    BY <2>1, <2>2, <2>3
<1>5. ASSUME IsInjective(s), IsInjective(t), ToSet(s) \cap ToSet(t) = {}
      PROVE  IsInjective(x)
  <2>1. /\ \A i, j \in 1..n : s[i] = s[j] => i = j
        /\ \A i, j \in 1..m : t[i] = t[j] => i = j
    BY <1>5, Distinct DEF n, m
  <2>2. \A i \in 1..n : \A j \in 1..m : s[i] # t[j]
    BY <1>3, <1>5
  <2>3. \A i, j \in 1..(n + m) : x[i] = x[j] => i = j
    BY <1>1, <1>2, <2>1, <2>2
  <2>4. QED
    BY <1>1, <2>3, Distinct
<1>6. QED
  BY <1>1, <1>4, <1>5 DEF x

\* A sequence cut in two.
LEMMA CutFacts ==
    ASSUME NEW q \in Seq(Fingers), NEW n \in 0..Len(q)
    PROVE  LET s == SubSeq(q, 1, n)
               t == SubSeq(q, n + 1, Len(q))
           IN  /\ s \in Seq(Fingers) /\ t \in Seq(Fingers) /\ ToSet(q) = ToSet(s) \cup ToSet(t)
               /\ IsInjective(q) =>
                    IsInjective(s) /\ IsInjective(t) /\ ToSet(s) \cap ToSet(t) = {}
<1> DEFINE s == SubSeq(q, 1, n)
           t == SubSeq(q, n + 1, Len(q))
           m == Len(q) - n
<1>1. /\ s \in Seq(Fingers) /\ Len(s) = n /\ \A i \in 1..n : s[i] = q[i]
      /\ t \in Seq(Fingers) /\ Len(t) = m /\ \A i \in 1..m : t[i] = q[n + i]
      /\ Len(q) \in Nat /\ n \in Nat /\ m \in Nat /\ Len(q) = n + m
  OBVIOUS
<1> HIDE DEF s, t, m
<1>2. /\ \A e : e \in ToSet(q) <=> \E i \in 1..Len(q) : e = q[i]
      /\ \A e : e \in ToSet(s) <=> \E i \in 1..n : e = q[i]
      /\ \A e : e \in ToSet(t) <=> \E i \in 1..m : e = q[n + i]
  <2>1. ASSUME NEW e PROVE e \in ToSet(s) <=> \E i \in 1..n : e = q[i]
    <3>1. s \in Seq(Fingers) /\ Len(s) = n
      BY <1>1
    <3>2. e \in ToSet(s) <=> \E i \in 1..n : e = s[i]
      BY <3>1, Members
    <3>3. QED
      BY <1>1, <3>2
  <2>2. ASSUME NEW e PROVE e \in ToSet(t) <=> \E i \in 1..m : e = q[n + i]
    <3>1. t \in Seq(Fingers) /\ Len(t) = m
      BY <1>1
    <3>2. e \in ToSet(t) <=> \E i \in 1..m : e = t[i]
      BY <3>1, Members
    <3>3. QED
      BY <1>1, <3>2
  <2>3. \A e : e \in ToSet(q) <=> \E i \in 1..Len(q) : e = q[i]
    BY Members
  <2>4. QED
    BY <2>1, <2>2, <2>3
<1>3. ToSet(q) = ToSet(s) \cup ToSet(t)
  <2>1. \A i \in 1..Len(q) : i \in 1..n \/ (i - n \in 1..m /\ i = n + (i - n))
    BY <1>1
  <2>2. \A i \in 1..n : i \in 1..Len(q)
    BY <1>1
  <2>3. \A i \in 1..m : n + i \in 1..Len(q)
    BY <1>1
  <2>4. \A e : e \in ToSet(q) <=> e \in ToSet(s) \/ e \in ToSet(t)
    BY <1>2, <2>1, <2>2, <2>3
  <2>5. QED
    BY <2>4
<1>4. ASSUME IsInjective(q)
      PROVE  IsInjective(s) /\ IsInjective(t) /\ ToSet(s) \cap ToSet(t) = {}
  <2>1. \A i, j \in 1..Len(q) : q[i] = q[j] => i = j
    BY <1>4, Distinct
  <2>2. \A i, j \in 1..n : s[i] = s[j] => i = j
    BY <1>1, <2>1
  <2>3. \A i, j \in 1..m : t[i] = t[j] => i = j
    BY <1>1, <2>1
  <2>4. \A i \in 1..n : \A j \in 1..m : q[i] # q[n + j]
    BY <1>1, <2>1
  <2>5. IsInjective(s)
    BY <1>1, <2>2, Distinct
  <2>6. IsInjective(t)
    BY <1>1, <2>3, Distinct
  <2>7. ToSet(s) \cap ToSet(t) = {}
    BY <1>2, <2>4
  <2>8. QED
    BY <2>5, <2>6, <2>7
<1>5. QED
  BY <1>1, <1>3, <1>4 DEF s, t

\* A nonempty set of numbers has a least one.
LEMMA MinIs ==
    ASSUME NEW I \in SUBSET Nat, I # {}
    PROVE  Min(I) \in I /\ \A j \in I : Min(I) <= j
<1> DEFINE S == {n \in Nat : \A j \in 0..n : j \notin I}
<1>1. ASSUME \A m \in I : \E j \in I : j < m PROVE FALSE
  <2>1. 0 \in S
    BY <1>1
  <2>2. ASSUME NEW n \in Nat, n \in S PROVE n + 1 \in S
    BY <1>1, <2>2
  <2>3. Nat \subseteq S
    <3> HIDE DEF S
    <3>1. QED
      BY <2>1, <2>2, Onlys!SetInduction
  <2>4. PICK i \in I : i \in Nat
    OBVIOUS
  <2>5. QED
    BY <2>3, <2>4
<1>2. \E m \in I : \A j \in I : m <= j
  BY <1>1
<1>3. QED
  BY <1>2 DEF Min

\* The fingers older than f are those before its place in the queue.
LEMMA OlderFacts ==
    ASSUME NEW q \in Seq(Fingers), NEW f
    PROVE  LET o == OlderThan(q, f)
           IN  \E n \in 0..Len(q) :
                 /\ o = SubSeq(q, 1, n) /\ o \in Seq(Fingers) /\ Len(o) = n
                 /\ \A i \in 1..n : o[i] = q[i] /\ q[i] # f
                 /\ n < Len(q) => q[n + 1] = f
<1> DEFINE I == {i \in 1..Len(q) : q[i] = f}
           o == OlderThan(q, f)
<1>1. Len(q) \in Nat
  OBVIOUS
<1>2. ASSUME NEW n \in 0..Len(q)
      PROVE  LET s == SubSeq(q, 1, n)
             IN  s \in Seq(Fingers) /\ Len(s) = n /\ \A i \in 1..n : s[i] = q[i]
  BY <1>1
<1>3. CASE I = {}
  <2>1. \A i \in 1..Len(q) : q[i] # f
    BY <1>3
  <2>2. o = q
    BY <2>1 DEF OlderThan, Contains
  <2>3. q = SubSeq(q, 1, Len(q)) /\ Len(q) \in 0..Len(q)
    BY <1>1
  <2> DEFINE n == Len(q)
  <2>4. /\ n \in 0..Len(q) /\ ~(n < Len(q))
        /\ o = SubSeq(q, 1, n) /\ o \in Seq(Fingers) /\ Len(o) = n
        /\ \A i \in 1..n : o[i] = q[i] /\ q[i] # f
    BY <1>1, <2>1, <2>2, <2>3
  <2> HIDE DEF n, o
  <2>5. QED
    BY <2>4 DEF o
<1>4. CASE I # {}
  <2> DEFINE m == Min(I)
  <2>1. m \in I /\ \A j \in I : m <= j
    <3>1. I \in SUBSET Nat
      BY <1>1
    <3> HIDE DEF I
    <3>2. QED
      BY <1>4, <3>1, MinIs
  <2>2. SelectInSeq(q, LAMBDA g : g = f) = m
    BY <1>4 DEF SelectInSeq
  <2>3. Contains(q, f)
    BY <2>1 DEF Contains
  <2>4. o = SubSeq(q, 1, m - 1)
    BY <2>2, <2>3 DEF OlderThan
  <2> HIDE DEF m, o
  <2>5. m \in 1..Len(q) /\ q[m] = f /\ m - 1 \in 0..Len(q) /\ m = (m - 1) + 1
    BY <1>1, <2>1
  <2>6. \A i \in 1..(m - 1) : i \in 1..Len(q) /\ q[i] # f
    BY <1>1, <2>1, <2>5
  <2>7. /\ o \in Seq(Fingers) /\ Len(o) = m - 1
        /\ \A i \in 1..(m - 1) : o[i] = q[i] /\ q[i] # f
    BY <1>2, <2>4, <2>5, <2>6
  <2>8. QED
    BY <2>4, <2>5, <2>7 DEF o
<1>5. QED
  BY <1>3, <1>4

LEMMA FlushedQueue ==
    ASSUME NEW w, NEW R, NEW v, Flushed(v, w, R), NEW q \in Seq(Fingers)
    PROVE  LET x == [v EXCEPT !.queue = q] IN Flushed(x, w, R) /\ x.queue = q
<1> DEFINE x == [v EXCEPT !.queue = q]
<1>1. v \in Worlds
  BY DEF Flushed, Fine
<1>2. x \in Worlds /\ x.kb = v.kb /\ x.tr = v.tr /\ x.panel = v.panel /\ x.queue = q
  BY <1>1 DEF Worlds
<1> HIDE DEF x
<1>3. Flushed(x, w, R)
  BY <1>2 DEF Flushed, Fine
<1>4. QED
  BY <1>2, <1>3 DEF x

LEMMA ReleaseAllFine ==
    ASSUME NEW w, Fine(w), NEW except, NEW lift, NEW caps
    PROVE  LET v == ReleaseAllExcept(w, except, lift, caps)
           IN  /\ Flushed(v, w, ToSet(w.queue) \ {except})
               /\ v.queue = Only(w.queue, {except})
<1> DEFINE u == PhantomUpAll(w, w.queue, {except}, lift, caps)
<1>1. w.queue \in Seq(Fingers)
  BY DEF Fine, Worlds
<1>2. u.queue = w.queue /\ Flushed(u, w, ToSet(w.queue) \ {except})
  BY <1>1, PhantomUpAllFine
<1>3. ReleaseAllExcept(w, except, lift, caps) = [u EXCEPT !.queue = Only(u.queue, {except})]
  BY DEF ReleaseAllExcept
<1> HIDE DEF u
<1>4. Only(u.queue, {except}) \in Seq(Fingers)
  BY <1>1, <1>2, OnlyFacts
<1>5. QED
  BY <1>2, <1>3, <1>4, FlushedQueue

\* The fingers an up event of f releases.
Outrun(w, f) == {g \in ToSet(OlderThan(w.queue, f)) : ~IsModifier(w.tr[g].key)}

LEMMA ReleaseOlderFine ==
    ASSUME NEW w, Fine(w), NEW f \in Fingers, NEW lift, NEW caps
    PROVE  LET v == ReleaseOlderThan(w, f, lift, caps)
           IN  /\ Flushed(v, w, Outrun(w, f)) /\ f \notin Outrun(w, f)
               /\ v.queue \in Seq(Fingers) /\ ToSet(v.queue) \subseteq ToSet(w.queue)
               /\ IsInjective(w.queue) =>
                    /\ IsInjective(v.queue)
                    /\ ToSet(v.queue) = ToSet(w.queue) \ Outrun(w, f)
<1> DEFINE q == w.queue
           older == OlderThan(q, f)
           held == {g \in Fingers : IsModifier(w.tr[g].key)}
           u == PhantomUpAll(w, older, held, lift, caps)
           keep == Only(older, held)
           v == ReleaseOlderThan(w, f, lift, caps)
<1>1. q \in Seq(Fingers) /\ Len(q) \in Nat
  BY DEF Fine, Worlds
<1>2. PICK n \in 0..Len(q) : /\ older = SubSeq(q, 1, n) /\ older \in Seq(Fingers)
                             /\ Len(older) = n
                             /\ \A i \in 1..n : older[i] = q[i] /\ q[i] # f
                             /\ n < Len(q) => q[n + 1] = f
  BY <1>1, OlderFacts
<1> DEFINE rest == SubSeq(q, n + 1, Len(q))
<1>3. /\ rest \in Seq(Fingers) /\ ToSet(q) = ToSet(older) \cup ToSet(rest)
      /\ IsInjective(q) =>
           IsInjective(older) /\ IsInjective(rest) /\ ToSet(older) \cap ToSet(rest) = {}
  BY <1>1, <1>2, CutFacts
<1> HIDE DEF older
<1>4. Outrun(w, f) = ToSet(older) \ held /\ f \notin Outrun(w, f)
  <2>1. \A e : e \in ToSet(older) <=> \E i \in 1..n : e = older[i]
    <3>1. older \in Seq(Fingers) /\ Len(older) = n
      BY <1>2
    <3>2. QED
      BY <3>1, Members
  <2>2. f \notin ToSet(older) /\ ToSet(older) \subseteq Fingers
    BY <1>1, <1>2, <2>1
  <2>3. QED
    BY <2>2 DEF Outrun, older
<1>5. u.queue = q /\ Flushed(u, w, Outrun(w, f))
  <2> HIDE DEF held
  <2>1. u.queue = q /\ Flushed(u, w, ToSet(older) \ held)
    <3>1. older \in Seq(Fingers)
      BY <1>2
    <3>2. QED
      BY <3>1, PhantomUpAllFine
  <2> HIDE DEF u
  <2>2. QED
    BY <1>4, <2>1
<1>6. /\ keep \in Seq(Fingers) /\ ToSet(keep) = ToSet(older) \cap held
      /\ IsInjective(older) => IsInjective(keep)
  BY <1>2, OnlyFacts
<1>7. v = [u EXCEPT !.queue = keep \o SubSeq(u.queue, Len(older) + 1, Len(u.queue))]
  BY DEF ReleaseOlderThan, older
<1> HIDE DEF u, keep, rest, held, v
<1> DEFINE x == keep \o rest
<1>8. v = [u EXCEPT !.queue = x]
  BY <1>2, <1>5, <1>7 DEF rest
<1>9. /\ x \in Seq(Fingers) /\ ToSet(x) = ToSet(keep) \cup ToSet(rest)
      /\ IsInjective(keep) /\ IsInjective(rest) /\ ToSet(keep) \cap ToSet(rest) = {}
           => IsInjective(x)
  BY <1>3, <1>6, JoinFacts
<1> HIDE DEF x
<1>10. Flushed(v, w, Outrun(w, f)) /\ v.queue = x
  BY <1>5, <1>8, <1>9, FlushedQueue
<1>11. QED
  BY <1>3, <1>4, <1>6, <1>9, <1>10 DEF v

-----------------------------------------------------------------------------
(***************************************************************************)
(* The finger's own events.                                                *)
(***************************************************************************)

\* An event of f leaves the other fingers, the queue and the panel alone.
Own(v, w, f) ==
    /\ Fine(v) /\ v.queue = w.queue /\ v.panel = w.panel
    /\ \A g \in Fingers : g # f => Beside(v.tr[g], w.tr[g])

LEMMA OwnTrivia ==
    ASSUME NEW f
    PROVE  /\ \A w : Fine(w) => Own(w, w, f)
           /\ \A u, v, w : Own(u, v, f) /\ Own(v, w, f) => Own(u, w, f)
           /\ \A v, w : Calls(v, w, f) => Own(v, w, f)
BY DEF Own, Calls, Beside, Steady

LEMMA PutOwn ==
    ASSUME NEW w, Fine(w), NEW f \in Fingers, NEW u \in Trackers
    PROVE  LET v == Put(w, f, u) IN Own(v, w, f) /\ v.tr[f] = u /\ v.kb = w.kb
<1> DEFINE v == Put(w, f, u)
<1>1. w \in Worlds
  BY DEF Fine
<1>2. /\ Fine(v) /\ v.kb = w.kb /\ v.queue = w.queue /\ v.panel = w.panel
      /\ v.tr[f] = u /\ \A g \in Fingers : g # f => v.tr[g] = w.tr[g]
  BY <1>1, PutFine
<1> HIDE DEF v
<1>3. QED
  BY <1>2 DEF Own, Beside, Steady, v

LEMMA TimerFine ==
    ASSUME NEW w, Fine(w), NEW f \in Fingers, NEW key
    PROVE  LET v == StartLongPressTimer(w, f, key)
               u == v.tr[f]
               t == w.tr[f]
           IN  /\ Own(v, w, f) /\ v.kb = w.kb
               /\ u.key = t.key /\ u.disabled = t.disabled /\ u.panel = t.panel
               /\ u.stale = t.stale /\ u.announced = t.announced /\ u.typed = t.typed
               /\ u.repeat = t.repeat /\ u.cursorMoved = t.cursorMoved
               /\ u.longPress => t.longPress \/ key \in LongPressKeys
<1> DEFINE h(g) == w.tr[g].longPress /\ w.tr[g].key /= "SHIFT"
           r == [g \in Fingers |-> [w.tr[g] EXCEPT !.longPress = h(g)]]
           d == [w EXCEPT !.tr = r]
           x == [d.tr[f] EXCEPT !.longPress = TRUE]
           v == StartLongPressTimer(w, f, key)
<1>1. w \in Worlds /\ w.tr \in [Fingers -> Trackers]
  BY DEF Fine, Worlds
<1>2. \A a \in Trackers : \A b \in BOOLEAN :
         LET c == [a EXCEPT !.longPress = b]
         IN  /\ c \in Trackers /\ c.longPress = b
             /\ c.key = a.key /\ c.disabled = a.disabled /\ c.panel = a.panel
             /\ c.stale = a.stale /\ c.announced = a.announced /\ c.typed = a.typed
             /\ c.repeat = a.repeat /\ c.cursorMoved = a.cursorMoved
  BY DEF Trackers
<1>3. \A g \in Fingers : h(g) \in BOOLEAN /\ (h(g) => w.tr[g].longPress)
  BY <1>1 DEF Trackers
<1> HIDE DEF h
<1>4. r \in [Fingers -> Trackers] /\ \A g \in Fingers : /\ Beside(r[g], w.tr[g])
                                                        /\ r[g].repeat = w.tr[g].repeat
                                                        /\ r[g].cursorMoved = w.tr[g].cursorMoved
  <2>1. ASSUME NEW g \in Fingers
        PROVE  /\ r[g] \in Trackers /\ Beside(r[g], w.tr[g])
               /\ r[g].repeat = w.tr[g].repeat /\ r[g].cursorMoved = w.tr[g].cursorMoved
    <3> DEFINE a == w.tr[g]
               b == h(g)
               c == [a EXCEPT !.longPress = b]
    <3>1. a \in Trackers /\ b \in BOOLEAN /\ (b => a.longPress)
      BY <1>1, <1>3
    <3>2. r[g] = c
      OBVIOUS
    <3> HIDE DEF a, b, r
    <3>3. /\ c \in Trackers /\ c.longPress = b
          /\ c.key = a.key /\ c.disabled = a.disabled /\ c.panel = a.panel
          /\ c.stale = a.stale /\ c.announced = a.announced /\ c.typed = a.typed
          /\ c.repeat = a.repeat /\ c.cursorMoved = a.cursorMoved
      BY <1>2, <3>1
    <3> HIDE DEF c
    <3>4. QED
      BY <3>1, <3>2, <3>3 DEF Beside, Steady, a
  <2>2. r = [g \in Fingers |-> r[g]]
    OBVIOUS
  <2> HIDE DEF r
  <2>3. QED
    BY <2>1, <2>2
<1> HIDE DEF r
<1>5. d \in Worlds /\ d.kb = w.kb /\ d.tr = r /\ d.queue = w.queue /\ d.panel = w.panel
  BY <1>1, <1>4 DEF Worlds
<1> HIDE DEF d
<1>6. Own(d, w, f) /\ Fine(d)
  BY <1>4, <1>5 DEF Own, Fine
<1>7. d.tr[f] \in Trackers /\ TRUE \in BOOLEAN
  BY <1>4, <1>5
<1>8. v = d \/ (key \in LongPressKeys /\ v = Put(d, f, x))
  <2> DEFINE on == /\ key \in LongPressKeys
                   /\ key = "SHIFT" => w.kb.layout \in AlphabetLayouts
                   /\ w.tr[f].dragging => key /= "SPACE"
  <2>1. v = IF on THEN Put(d, f, x) ELSE d
    BY Zenon DEF StartLongPressTimer, Put, d, r, h
  <2> HIDE DEF v, x
  <2>2. QED
    BY <2>1
<1>9. /\ x \in Trackers
      /\ x.key = d.tr[f].key /\ x.disabled = d.tr[f].disabled /\ x.panel = d.tr[f].panel
      /\ x.stale = d.tr[f].stale /\ x.announced = d.tr[f].announced
      /\ x.typed = d.tr[f].typed /\ x.repeat = d.tr[f].repeat
      /\ x.cursorMoved = d.tr[f].cursorMoved
  BY <1>7 DEF Trackers
<1> HIDE DEF v, x
<1>10. CASE v = d
  BY <1>4, <1>5, <1>6, <1>10 DEF Beside, Steady, v
<1>11. CASE key \in LongPressKeys /\ v = Put(d, f, x)
  <2>1. Own(v, d, f) /\ v.tr[f] = x /\ v.kb = d.kb
    BY <1>6, <1>9, <1>11, PutOwn
  <2>2. Own(v, w, f)
    BY <1>6, <2>1, OwnTrivia
  <2>3. QED
    BY <1>4, <1>5, <1>9, <1>11, <2>1, <2>2 DEF Beside, Steady, v
<1>12. QED
  BY <1>8, <1>10, <1>11

\* The keys whose press LetterPressedBeforeTyped is about.
TypingKeys == {"LETTER", "SPACE", "DELETE"}

LEMMA DownFine ==
    ASSUME NEW w, Fine(w), NEW f \in Fingers, NEW key \in Keys \cup {NoKey}, NEW caps
    PROVE  LET v == DownInternal(w, f, key, caps)
               u == v.tr[f]
               t == w.tr[f]
           IN  /\ Own(v, w, f)
               /\ u.key = key /\ ~u.disabled /\ u.panel = t.panel
               /\ u.stale = t.stale /\ u.typed = t.typed
               /\ u.cursorMoved => t.cursorMoved
               /\ u.repeat => t.repeat \/ key \in RepeatKeys
               /\ u.longPress => t.longPress \/ key \in LongPressKeys
               /\ key \in TypingKeys => u.announced = key
               /\ key # "SHIFT" => LockKept(v.kb, w.kb)
<1> DEFINE t == w.tr[f]
           a == [t EXCEPT !.key = key, !.disabled = FALSE, !.dragging = FALSE,
                          !.sliding = FALSE]
           d == Put(w, f, a)
           p == Press(d, f, key, caps)
           b == [p.tr[f] EXCEPT !.repeat = @ \/ key \in RepeatKeys]
           r == Put(p, f, b)
           s == StartLongPressTimer(r, f, key)
           slides == SlidesCursor(key)
           c == [s.tr[f] EXCEPT !.slidingCursor = slides]
           x == Put(s, f, c)
           v == DownInternal(w, f, key, caps)
<1>1. w \in Worlds /\ t \in Trackers
  BY DEF Fine, Worlds
<1>2. /\ a \in Trackers /\ a.key = key /\ ~a.disabled /\ a.panel = t.panel /\ ~a.dragging
      /\ a.stale = t.stale /\ a.typed = t.typed /\ a.repeat = t.repeat
      /\ a.longPress = t.longPress /\ a.cursorMoved = t.cursorMoved
  BY <1>1 DEF Trackers
<1>3. v = IF key = NoKey THEN d ELSE x
  BY DEF DownInternal, Put
<1> HIDE DEF a, x
<1>4. Own(d, w, f) /\ d.tr[f] = a /\ d.kb = w.kb /\ Fine(d)
  BY <1>2, PutOwn DEF Own
<1> HIDE DEF d, v
<1>5. CASE key = NoKey
  <2>1. key \notin TypingKeys
    BY <1>5, TouchAssumption DEF TypingKeys, KeyNames
  <2>2. QED
    BY <1>2, <1>3, <1>4, <1>5, <2>1 DEF LockKept, v
<1>6. CASE key # NoKey
  <2>1. key \in Keys
    BY <1>6
  <2>2. /\ Calls(p, d, f) /\ p.tr[f].typed = d.tr[f].typed
        /\ p.tr[f].announced = IF d.tr[f].disabled \/ Muted(d.tr[f], key)
                               THEN d.tr[f].announced ELSE key
        /\ key # "SHIFT" => LockKept(p.kb, d.kb)
    BY <1>4, <2>1, PressCalls
  <2> HIDE DEF p
  <2>3. Own(p, d, f) /\ Fine(p) /\ Steady(p.tr[f], a) /\ p.tr[f].announced = key
        /\ p.tr[f].typed = t.typed
    BY <1>2, <1>4, <2>2, OwnTrivia DEF Calls, Muted
  <2>4. p.tr[f] \in Trackers
    BY <2>3 DEF Fine, Worlds
  <2>5. /\ b \in Trackers /\ b.key = p.tr[f].key /\ b.disabled = p.tr[f].disabled
        /\ b.panel = p.tr[f].panel /\ b.stale = p.tr[f].stale
        /\ b.typed = p.tr[f].typed /\ b.announced = p.tr[f].announced
        /\ b.longPress = p.tr[f].longPress /\ b.cursorMoved = p.tr[f].cursorMoved
        /\ b.repeat => p.tr[f].repeat \/ key \in RepeatKeys
    BY <2>4 DEF Trackers
  <2> HIDE DEF b
  <2>6. Own(r, p, f) /\ r.tr[f] = b /\ r.kb = p.kb /\ Fine(r)
    BY <2>3, <2>5, PutOwn DEF Own
  <2> HIDE DEF r
  <2>7. /\ Own(s, r, f) /\ s.kb = r.kb /\ Fine(s)
        /\ s.tr[f].key = b.key /\ s.tr[f].disabled = b.disabled /\ s.tr[f].panel = b.panel
        /\ s.tr[f].stale = b.stale /\ s.tr[f].announced = b.announced
        /\ s.tr[f].typed = b.typed /\ s.tr[f].repeat = b.repeat
        /\ s.tr[f].cursorMoved = b.cursorMoved
        /\ s.tr[f].longPress => b.longPress \/ key \in LongPressKeys
    BY <2>6, TimerFine DEF Own
  <2> HIDE DEF s
  <2>8. s.tr[f] \in Trackers
    BY <2>7 DEF Fine, Worlds
  <2> slides \in BOOLEAN
    BY DEF SlidesCursor
  <2> HIDE DEF slides
  <2>9. /\ c \in Trackers /\ c.key = s.tr[f].key /\ c.disabled = s.tr[f].disabled
        /\ c.panel = s.tr[f].panel /\ c.stale = s.tr[f].stale
        /\ c.typed = s.tr[f].typed /\ c.announced = s.tr[f].announced
        /\ c.longPress = s.tr[f].longPress /\ c.repeat = s.tr[f].repeat
        /\ c.cursorMoved = s.tr[f].cursorMoved
    BY <2>8 DEF Trackers
  <2> HIDE DEF c
  <2>10. Own(x, s, f) /\ x.tr[f] = c /\ x.kb = s.kb
    BY <2>7, <2>9, PutOwn DEF x
  <2>11. Own(x, w, f)
    BY <1>4, <2>3, <2>6, <2>7, <2>10, OwnTrivia
  <2>12. /\ x.tr[f].key = key /\ ~x.tr[f].disabled /\ x.tr[f].panel = t.panel
         /\ x.tr[f].stale = t.stale /\ x.tr[f].typed = t.typed
         /\ x.tr[f].announced = key
         /\ x.tr[f].cursorMoved => t.cursorMoved
         /\ x.tr[f].repeat => t.repeat \/ key \in RepeatKeys
         /\ x.tr[f].longPress => t.longPress \/ key \in LongPressKeys
    BY <1>2, <2>3, <2>5, <2>7, <2>9, <2>10 DEF Steady
  <2>13. key # "SHIFT" => LockKept(x.kb, w.kb)
    BY <1>4, <2>2, <2>6, <2>7, <2>10
  <2>14. v = x
    BY <1>3, <1>6
  <2>15. QED
    BY <2>11, <2>12, <2>13, <2>14 DEF v
<1>7. QED
  BY <1>5, <1>6

\* What a move, a down event or a long press leaves of the finger's touch.
Lasting(u, t) ==
    /\ u.disabled = t.disabled /\ u.panel = t.panel /\ u.stale = t.stale /\ u.typed = t.typed
    /\ u.cursorMoved => t.cursorMoved

LEMMA DragOutFine ==
    ASSUME NEW w, Fine(w), NEW f \in Fingers, NEW key \in Keys, NEW caps
    PROVE  LET v == DragOut(w, f, key, caps)
               u == v.tr[f]
           IN  /\ Own(v, w, f) /\ Lasting(u, w.tr[f]) /\ u.key = w.tr[f].key
               /\ ~u.longPress /\ ~u.repeat
               /\ key # "SHIFT" => LockKept(v.kb, w.kb)
<1> DEFINE b == IF w.tr[f].dragging THEN w.tr[f].sliding ELSE IsModifier(key)
           yes == TRUE
           r == Release(w, f, key, yes, caps)
           u == [r.tr[f] EXCEPT !.sliding = b, !.dragging = TRUE,
                                !.longPress = FALSE, !.repeat = FALSE]
           v == Put(r, f, u)
<1>1. DragOut(w, f, key, caps) = v
  BY DEF DragOut, Put
<1>2. key # "CAPSLOCK" /\ w.tr[f] \in Trackers
  BY TouchAssumption DEF KeyNames, Fine, Worlds
<1>3. b \in BOOLEAN
  <2>1. w.tr[f].sliding \in BOOLEAN
    BY <1>2 DEF Trackers
  <2>2. IsModifier(key) \in BOOLEAN
    BY DEF IsModifier
  <2>3. QED
    BY <2>1, <2>2
<1> HIDE DEF b, v, yes
<1>4. /\ Calls(r, w, f) /\ r.tr[f].typed = w.tr[f].typed
      /\ key # "SHIFT" => LockKept(r.kb, w.kb)
  BY <1>2, ReleaseCalls
<1> HIDE DEF r
<1>5. Fine(r) /\ Own(r, w, f) /\ r.tr[f] \in Trackers /\ Steady(r.tr[f], w.tr[f])
  BY <1>4, OwnTrivia DEF Calls, Fine, Worlds
<1>6. /\ u \in Trackers /\ u.key = r.tr[f].key /\ Lasting(u, r.tr[f])
      /\ ~u.longPress /\ ~u.repeat
  BY <1>3, <1>5 DEF Trackers, Lasting
<1> HIDE DEF u
<1>7. Own(v, r, f) /\ v.tr[f] = u /\ v.kb = r.kb
  BY <1>5, <1>6, PutOwn DEF v
<1>8. Own(v, w, f)
  BY <1>5, <1>7, OwnTrivia
<1>9. QED
  BY <1>1, <1>4, <1>5, <1>6, <1>7, <1>8 DEF Lasting, Steady

LEMMA DragInFine ==
    ASSUME NEW w, Fine(w), NEW f \in Fingers, NEW key \in Keys, NEW caps
    PROVE  LET v == DragIn(w, f, key, caps)
               u == v.tr[f]
               t == w.tr[f]
           IN  /\ Own(v, w, f) /\ Lasting(u, t) /\ u.key = key
               /\ u.longPress => t.longPress \/ key \in LongPressKeys
               /\ u.repeat => t.repeat
               /\ ~t.disabled /\ key \in TypingKeys => u.announced = key
               /\ key # "SHIFT" => LockKept(v.kb, w.kb)
<1> DEFINE p == Press(w, f, key, caps)
           a == [p.tr[f] EXCEPT !.key = key]
           r == Put(p, f, a)
           v == StartLongPressTimer(r, f, key)
<1>1. DragIn(w, f, key, caps) = v
  BY DEF DragIn, Put
<1>2. /\ Calls(p, w, f) /\ p.tr[f].typed = w.tr[f].typed
      /\ p.tr[f].announced = IF w.tr[f].disabled \/ Muted(w.tr[f], key)
                             THEN w.tr[f].announced ELSE key
      /\ key # "SHIFT" => LockKept(p.kb, w.kb)
  BY PressCalls
<1> HIDE DEF p, v
<1>3. Fine(p) /\ Own(p, w, f) /\ p.tr[f] \in Trackers /\ Steady(p.tr[f], w.tr[f])
  BY <1>2, OwnTrivia DEF Calls, Fine, Worlds
<1>4. /\ a \in Trackers /\ a.key = key /\ Lasting(a, p.tr[f]) /\ a.announced = p.tr[f].announced
      /\ a.longPress = p.tr[f].longPress /\ a.repeat = p.tr[f].repeat
  BY <1>3 DEF Trackers, Lasting
<1> HIDE DEF a
<1>5. Own(r, p, f) /\ r.tr[f] = a /\ r.kb = p.kb /\ Fine(r)
  BY <1>3, <1>4, PutOwn DEF Own
<1> HIDE DEF r
<1>6. /\ Own(v, r, f) /\ v.kb = r.kb
      /\ v.tr[f].key = a.key /\ v.tr[f].disabled = a.disabled /\ v.tr[f].panel = a.panel
      /\ v.tr[f].stale = a.stale /\ v.tr[f].announced = a.announced
      /\ v.tr[f].typed = a.typed /\ v.tr[f].repeat = a.repeat
      /\ v.tr[f].cursorMoved = a.cursorMoved
      /\ v.tr[f].longPress => a.longPress \/ key \in LongPressKeys
  BY <1>5, TimerFine DEF v
<1>7. Own(v, w, f)
  BY <1>3, <1>5, <1>6, OwnTrivia
<1>8. ASSUME ~w.tr[f].disabled, key \in TypingKeys PROVE v.tr[f].announced = key
  BY <1>2, <1>4, <1>6, <1>8 DEF Muted, IsModifier, TypingKeys
<1>9. QED
  BY <1>1, <1>2, <1>3, <1>4, <1>5, <1>6, <1>7, <1>8 DEF Lasting, Steady

LEMMA MoveToFine ==
    ASSUME NEW w, Fine(w), NEW f \in Fingers, NEW key \in Keys \cup {NoKey}, NEW caps
    PROVE  LET v == MoveTo(w, f, key, caps)
               u == v.tr[f]
               t == w.tr[f]
           IN  /\ Own(v, w, f) /\ Lasting(u, t) /\ u.key = key
               /\ u.longPress => key \in LongPressKeys \/ (t.longPress /\ t.key = NoKey)
               /\ u.repeat => t.repeat /\ t.key = NoKey
               /\ ~t.disabled /\ key \in TypingKeys => u.announced = key
               /\ "SHIFT" \notin {t.key, key} => LockKept(v.kb, w.kb)
<1> DEFINE t == w.tr[f]
           out == IF t.key = NoKey THEN w ELSE DragOut(w, f, t.key, caps)
           a == [out.tr[f] EXCEPT !.key = NoKey]
           n == Put(out, f, a)
           d == DragIn(out, f, key, caps)
           v == MoveTo(w, f, key, caps)
<1>1. v = IF key = NoKey THEN n ELSE d
  BY DEF MoveTo, Put
<1>2. t \in Trackers /\ t.key \in Keys \cup {NoKey}
  BY DEF Fine, Worlds, Trackers
<1>3. /\ Own(out, w, f) /\ Lasting(out.tr[f], t)
      /\ out.tr[f].longPress => t.longPress /\ t.key = NoKey
      /\ out.tr[f].repeat => t.repeat /\ t.key = NoKey
      /\ t.key # "SHIFT" => LockKept(out.kb, w.kb)
  <2>1. CASE t.key = NoKey
    BY <2>1, OwnTrivia DEF Lasting, LockKept
  <2>2. CASE t.key # NoKey
    <3>1. t.key \in Keys
      BY <1>2, <2>2
    <3> HIDE DEF t
    <3>2. w.tr[f] = t
      BY DEF t
    <3>3. QED
      BY <2>2, <3>1, <3>2, DragOutFine
  <2>3. QED
    BY <2>1, <2>2
<1> HIDE DEF out, v
<1>4. Fine(out) /\ out.tr[f] \in Trackers
  BY <1>3 DEF Own, Fine, Worlds
<1>5. CASE key = NoKey
  <2>1. /\ a \in Trackers /\ a.key = NoKey /\ Lasting(a, out.tr[f])
        /\ a.longPress = out.tr[f].longPress /\ a.repeat = out.tr[f].repeat
    BY <1>4 DEF Trackers, Lasting
  <2> HIDE DEF a
  <2>2. Own(n, out, f) /\ n.tr[f] = a /\ n.kb = out.kb
    BY <1>4, <2>1, PutOwn
  <2> HIDE DEF n
  <2>3. Own(n, w, f)
    BY <1>3, <2>2, OwnTrivia
  <2>4. key \notin TypingKeys
    BY <1>5, TouchAssumption DEF TypingKeys, KeyNames
  <2>5. QED
    BY <1>1, <1>3, <1>5, <2>1, <2>2, <2>3, <2>4 DEF Lasting, v
<1>6. CASE key # NoKey
  <2>1. key \in Keys
    BY <1>6
  <2>2. /\ Own(d, out, f) /\ Lasting(d.tr[f], out.tr[f]) /\ d.tr[f].key = key
        /\ d.tr[f].longPress => out.tr[f].longPress \/ key \in LongPressKeys
        /\ d.tr[f].repeat => out.tr[f].repeat
        /\ ~out.tr[f].disabled /\ key \in TypingKeys => d.tr[f].announced = key
        /\ key # "SHIFT" => LockKept(d.kb, out.kb)
    BY <1>4, <2>1, DragInFine
  <2> HIDE DEF d
  <2>3. Own(d, w, f)
    BY <1>3, <2>2, OwnTrivia
  <2>4. QED
    BY <1>1, <1>3, <1>6, <2>2, <2>3 DEF Lasting, LockKept, v
<1>7. QED
  BY <1>5, <1>6

\* The world with another queue.
LEMMA QueueFine ==
    ASSUME NEW w, Fine(w), NEW q \in Seq(Fingers)
    PROVE  LET v == [w EXCEPT !.queue = q]
           IN  /\ Fine(v) /\ v.kb = w.kb /\ v.tr = w.tr /\ v.panel = w.panel
               /\ v.queue = q
<1> DEFINE v == [w EXCEPT !.queue = q]
<1>1. w \in Worlds
  BY DEF Fine
<1>2. v \in Worlds /\ v.kb = w.kb /\ v.tr = w.tr /\ v.panel = w.panel /\ v.queue = q
  BY <1>1 DEF Worlds
<1> HIDE DEF v
<1>3. QED
  BY <1>2 DEF Fine, v

LEMMA CancelKeyTrackingFine ==
    ASSUME NEW w, Fine(w), NEW f \in Fingers
    PROVE  LET v == CancelKeyTracking(w, f)
               u == v.tr[f]
               t == w.tr[f]
           IN  /\ Fine(v) /\ v.kb = w.kb /\ v.panel = w.panel /\ v.queue = Forget(w.queue, f)
               /\ \A g \in Fingers : g # f => Beside(v.tr[g], w.tr[g])
               /\ u.disabled \/ t.panel
               /\ u.key = t.key /\ u.panel = t.panel /\ u.stale = t.stale /\ u.typed = t.typed
               /\ u.longPress = t.longPress /\ u.repeat = t.repeat
               /\ u.cursorMoved => t.cursorMoved
<1> DEFINE t == w.tr[f]
           a == [t EXCEPT !.dragging = FALSE, !.sliding = FALSE]
           r == Put(w, f, a)
           c == CancelTracking(r, f)
           v == [c EXCEPT !.queue = Forget(c.queue, f)]
<1>1. CancelKeyTracking(w, f) = v
  BY DEF CancelKeyTracking, Put
<1>2. t \in Trackers /\ w.queue \in Seq(Fingers)
  BY DEF Fine, Worlds
<1>3. /\ a \in Trackers /\ a.key = t.key /\ Lasting(a, t)
      /\ a.longPress = t.longPress /\ a.repeat = t.repeat
  BY <1>2 DEF Trackers, Lasting
<1> HIDE DEF a
<1>4. Own(r, w, f) /\ r.tr[f] = a /\ r.kb = w.kb /\ Fine(r)
  BY <1>3, PutOwn DEF Own
<1> HIDE DEF r
<1>5. /\ Fine(c) /\ c.kb = r.kb /\ c.queue = r.queue /\ c.panel = r.panel
      /\ \A g \in Fingers : g # f => c.tr[g] = r.tr[g]
      /\ c.tr[f].disabled \/ r.tr[f].panel
      /\ c.tr[f] \in {r.tr[f], [r.tr[f] EXCEPT !.disabled = TRUE]}
  BY <1>4, CancelTrackingFine
<1> HIDE DEF c
<1>6. /\ c.tr[f].key = t.key /\ c.tr[f].panel = t.panel /\ c.tr[f].stale = t.stale
      /\ c.tr[f].typed = t.typed /\ c.tr[f].longPress = t.longPress
      /\ c.tr[f].repeat = t.repeat /\ (c.tr[f].disabled \/ t.panel)
      /\ c.tr[f].cursorMoved => t.cursorMoved
  <2>1. /\ [a EXCEPT !.disabled = TRUE].key = a.key /\ [a EXCEPT !.disabled = TRUE].panel = a.panel
        /\ [a EXCEPT !.disabled = TRUE].stale = a.stale
        /\ [a EXCEPT !.disabled = TRUE].typed = a.typed
        /\ [a EXCEPT !.disabled = TRUE].longPress = a.longPress
        /\ [a EXCEPT !.disabled = TRUE].repeat = a.repeat
        /\ [a EXCEPT !.disabled = TRUE].cursorMoved = a.cursorMoved
    BY <1>3 DEF Trackers
  <2>2. QED
    BY <1>3, <1>4, <1>5, <2>1 DEF Lasting
<1>7. c.queue = w.queue /\ c.panel = w.panel /\ c.kb = w.kb
      /\ \A g \in Fingers : g # f => Beside(c.tr[g], w.tr[g])
  BY <1>4, <1>5 DEF Own
<1>8. Forget(c.queue, f) \in Seq(Fingers)
  BY <1>2, <1>7, ForgetFacts
<1>9. /\ Fine(v) /\ v.kb = c.kb /\ v.tr = c.tr /\ v.panel = c.panel
      /\ v.queue = Forget(c.queue, f)
  BY <1>5, <1>8, QueueFine
<1> HIDE DEF v, t
<1>10. QED
  BY <1>1, <1>6, <1>7, <1>9 DEF t

\* What a long press makes of a finger that kept its key: nothing, a panel, or
\* a finger out of the queue that can do nothing more.
LEMMA LongPressedFine ==
    ASSUME NEW w, Fine(w), NEW f \in Fingers, NEW picker, NEW caps
    PROVE  LET v == LongPressed(w, f, picker, caps)
               u == v.tr[f]
               t == w.tr[f]
           IN  /\ Fine(v)
               /\ \A g \in Fingers : g # f => Beside(v.tr[g], w.tr[g])
               /\ u.key = t.key /\ u.stale = t.stale /\ u.typed = t.typed
               /\ u.longPress => t.longPress
               /\ u.repeat => t.repeat
               /\ u.cursorMoved => t.cursorMoved
               /\ \/ v = w
                  \/ /\ t.key = "LETTER" /\ u.panel /\ v.queue = w.queue
                     /\ ~u.cursorMoved
                  \/ /\ v.queue = Forget(w.queue, f) /\ v.panel = w.panel
                     /\ u.disabled /\ ~t.panel /\ ~u.panel
               /\ t.key # "SHIFT" => LockKept(v.kb, w.kb)
<1> DEFINE t == w.tr[f]
           c == CancelKeyTracking(w, f)
           single == TRUE
           sliding == FALSE
           k1 == OnPressKey(c.kb, "CAPSLOCK", single, caps, "NONE")
           k2 == CodeInput(k1, "CAPSLOCK", caps)
           locked == OnReleaseKey(k2, "CAPSLOCK", sliding, caps, "NONE")
           spaced == OnReleaseKey(c.kb, "SPACE", sliding, caps, "NONE")
           l == Listen(c, locked)
           s == Listen(c, spaced)
           a == [s.tr[f] EXCEPT !.announced = NoKey]
           n == Put(s, f, a)
           b == [t EXCEPT !.panel = TRUE]
           q == [finger |-> f, shown |-> TRUE]
           m == Put(w, f, b)
           x == [m EXCEPT !.panel = q]
           v == LongPressed(w, f, picker, caps)
           Out(y) == /\ Fine(y)
                     /\ \A g \in Fingers : g # f => Beside(y.tr[g], w.tr[g])
                     /\ y.tr[f].key = t.key /\ y.tr[f].stale = t.stale
                     /\ y.tr[f].typed = t.typed
                     /\ y.tr[f].longPress => t.longPress
                     /\ y.tr[f].repeat => t.repeat
                     /\ y.tr[f].cursorMoved => t.cursorMoved
           Ends(y) == /\ y.queue = Forget(w.queue, f) /\ y.panel = w.panel
                      /\ y.tr[f].disabled /\ ~t.panel /\ ~y.tr[f].panel
<1>1. \/ v = w
      \/ t.key = "SHIFT" /\ ~t.panel /\ v = l
      \/ t.key = "SPACE" /\ ~t.panel /\ v = n
      \/ t.key = "LETTER" /\ ~t.cursorMoved /\ v = x
  <2>1. v = CASE t.panel \/ t.cursorMoved \/ t.key = NoKey -> w
              [] ~t.panel /\ ~t.cursorMoved /\ t.key = "SHIFT" -> l
              [] ~t.panel /\ ~t.cursorMoved /\ t.key = "SPACE" /\ picker -> n
              [] ~t.panel /\ ~t.cursorMoved /\ t.key = "LETTER" -> x
              [] OTHER -> w
    BY DEF LongPressed, Put
  <2> HIDE DEF v, l, n, x, t
  <2> DEFINE p == t.panel \/ t.cursorMoved
  <2>2. v = CASE p \/ t.key = NoKey -> w
              [] ~p /\ t.key = "SHIFT" -> l
              [] ~p /\ t.key = "SPACE" /\ picker -> n
              [] ~p /\ t.key = "LETTER" -> x
              [] OTHER -> w
    BY <2>1
  <2>3. ~p => ~t.panel /\ ~t.cursorMoved
    OBVIOUS
  <2> HIDE DEF p
  <2>4. QED
    BY <2>2, <2>3
<1>2. w \in Worlds /\ t \in Trackers
  BY DEF Fine, Worlds
<1> HIDE DEF t
<1>3. /\ Fine(c) /\ c.kb = w.kb /\ c.panel = w.panel /\ c.queue = Forget(w.queue, f)
      /\ \A g \in Fingers : g # f => Beside(c.tr[g], w.tr[g])
      /\ c.tr[f].disabled \/ t.panel
      /\ c.tr[f].key = t.key /\ c.tr[f].panel = t.panel /\ c.tr[f].stale = t.stale
      /\ c.tr[f].typed = t.typed /\ (c.tr[f].cursorMoved => t.cursorMoved)
      /\ c.tr[f].longPress = t.longPress /\ c.tr[f].repeat = t.repeat
  BY CancelKeyTrackingFine DEF t
<1>4. Board(c.kb)
  BY <1>3 DEF Fine
<1> HIDE DEF c, v, single, sliding
<1>5. Board(locked)
  <2>1. Board(k1)
    BY <1>4, PressBoard
  <2> HIDE DEF k1
  <2>2. Board(k2)
    BY <2>1, CodeInputBoard
  <2> HIDE DEF k2
  <2>3. QED
    BY <2>2, ReleaseBoard
<1>6. Board(spaced) /\ LockKept(spaced, c.kb)
  BY <1>4, ReleaseBoard
<1> HIDE DEF locked, spaced
<1>7. Out(w)
  BY DEF Beside, Steady, t
<1>8. Out(l) /\ (~t.panel => Ends(l))
  <2>1. Fine(l) /\ l.queue = c.queue /\ l.panel = c.panel
        /\ \A g \in Fingers : Beside(l.tr[g], c.tr[g])
    BY <1>3, <1>5, ListenFine DEF Fine
  <2> HIDE DEF l
  <2>2. QED
    BY <1>3, <2>1 DEF Beside, Steady
<1>9. Out(n) /\ (~t.panel => Ends(n)) /\ LockKept(n.kb, w.kb)
  <2>1. Fine(s) /\ s.queue = c.queue /\ s.panel = c.panel /\ LockKept(s.kb, spaced)
        /\ \A g \in Fingers : Beside(s.tr[g], c.tr[g])
    BY <1>3, <1>6, ListenFine DEF Fine
  <2> HIDE DEF s
  <2>2. s.tr[f] \in Trackers
    BY <2>1 DEF Fine, Worlds
  <2>3. a \in Trackers /\ Steady(a, s.tr[f]) /\ a.typed = s.tr[f].typed
    BY <2>2 DEF Trackers, Steady
  <2> HIDE DEF a
  <2>4. Own(n, s, f) /\ n.tr[f] = a /\ n.kb = s.kb
    BY <2>1, <2>3, PutOwn
  <2> HIDE DEF n
  <2>5. LockKept(n.kb, w.kb)
    BY <1>3, <1>6, <2>1, <2>4 DEF LockKept
  <2>6. Out(n)
    BY <1>3, <2>1, <2>3, <2>4 DEF Own, Beside, Steady
  <2>7. ~t.panel => Ends(n)
    BY <1>3, <2>1, <2>3, <2>4 DEF Own, Beside, Steady
  <2>8. QED
    BY <2>5, <2>6, <2>7
<1>10. /\ Out(x) /\ LockKept(x.kb, w.kb) /\ x.tr[f].panel /\ x.queue = w.queue
       /\ x.tr[f].cursorMoved = t.cursorMoved
  <2>1. /\ b \in Trackers /\ b.panel /\ b.key = t.key /\ b.stale = t.stale /\ b.typed = t.typed
        /\ b.longPress = t.longPress /\ b.repeat = t.repeat /\ b.cursorMoved = t.cursorMoved
    BY <1>2 DEF Trackers
  <2>2. q \in Panels
    BY DEF Panels
  <2> HIDE DEF b, q
  <2>3. Own(m, w, f) /\ m.tr[f] = b /\ m.kb = w.kb /\ m \in Worlds
    BY <2>1, PutOwn DEF Own, Fine
  <2> HIDE DEF m
  <2>4. x \in Worlds /\ x.kb = m.kb /\ x.tr = m.tr /\ x.queue = m.queue
    BY <2>2, <2>3 DEF Worlds
  <2> HIDE DEF x
  <2>5. QED
    BY <2>1, <2>3, <2>4 DEF Own, Fine, LockKept
<1> HIDE DEF l, n, x
<1>11. Out(v)
  BY <1>1, <1>7, <1>8, <1>9, <1>10
<1>12. /\ \/ v = w
          \/ /\ t.key = "LETTER" /\ v.tr[f].panel /\ v.queue = w.queue
             /\ ~v.tr[f].cursorMoved
          \/ Ends(v)
       /\ t.key # "SHIFT" => LockKept(v.kb, w.kb)
  <2> HIDE DEF Ends, Out
  <2>1. LockKept(w.kb, w.kb)
    BY DEF LockKept
  <2>2. QED
    BY <1>1, <1>8, <1>9, <1>10, <2>1
<1>13. QED
  BY <1>11, <1>12 DEF v, t

-----------------------------------------------------------------------------
(***************************************************************************)
(* The effect of every event and message, from a well-formed world.        *)
(***************************************************************************)

LEMMA Turned ==
    ASSUME NEW v \in Worlds, Becomes(v)
    PROVE  World' = v
BY DEF Becomes, World, Worlds

\* Every finger keeps its touch, and caps lock its state.
Calm(v, w) ==
    /\ Fine(v) /\ v.queue = w.queue /\ v.panel = w.panel /\ LockKept(v.kb, w.kb)
    /\ \A g \in Fingers : Beside(v.tr[g], w.tr[g])

LEMMA CalmTrivia ==
    /\ \A w : Fine(w) => Calm(w, w)
    /\ \A u, v, w : Calm(u, v) /\ Calm(v, w) => Calm(u, w)
BY DEF Calm, Beside, Steady, LockKept

LEMMA ListenCalm ==
    ASSUME NEW w, Fine(w), NEW k, Board(k), LockKept(k, w.kb)
    PROVE  Calm(Listen(w, k), w)
<1> DEFINE v == Listen(w, k)
<1>1. w \in Worlds
  BY DEF Fine
<1>2. /\ Fine(v) /\ LockKept(v.kb, k) /\ v.queue = w.queue /\ v.panel = w.panel
      /\ \A g \in Fingers : Beside(v.tr[g], w.tr[g])
  BY <1>1, ListenFine
<1> HIDE DEF v
<1>3. QED
  BY <1>2 DEF Calm, LockKept, v

LEMMA PutCalm ==
    ASSUME NEW w, Fine(w), NEW f \in Fingers, NEW u \in Trackers, Beside(u, w.tr[f])
    PROVE  Calm(Put(w, f, u), w)
<1> DEFINE v == Put(w, f, u)
<1>1. Own(v, w, f) /\ v.tr[f] = u /\ v.kb = w.kb
  BY PutOwn
<1> HIDE DEF v
<1>2. QED
  BY <1>1 DEF Own, Calm, LockKept, v

LEMMA CalmTurned ==
    ASSUME NEW v, Calm(v, World), Becomes(v)
    PROVE  Calm(World', World)
<1>1. v \in Worlds
  BY DEF Calm, Fine
<1>2. QED
  BY <1>1, Turned

LEMMA TapTimeoutEffect ==
    ASSUME Fine(World), ShiftTapTimeout
    PROVE  Calm(World', World) /\ touching' = touching
<1> DEFINE no == FALSE
           i == [kb EXCEPT !.displayed = no]
           k == [i EXCEPT !.doubleTapTimer = no]
<1>1. Board(kb) /\ World \in Worlds
  BY DEF Fine, World
<1>2. kb' = k /\ UNCHANGED <<tr, queue, panel, touching>>
  BY DEF ShiftTapTimeout, DoubleTapTimeout, Idle
<1>3. no \in BOOLEAN
  OBVIOUS
<1> HIDE DEF no
<1>4. Board(i) /\ LockKept(i, kb)
  BY <1>1, <1>3, ShownBoard
<1> HIDE DEF i
<1>5. Good(k) /\ Same(k, i)
  BY <1>3, <1>4, FlagGood, FlagSame DEF Board, Good
<1> HIDE DEF k
<1>6. Board(k) /\ LockKept(k, kb)
  BY <1>4, <1>5 DEF Same, Board, Honest, LockKept, Lock
<1>7. k \in KeyboardStates
  BY <1>5 DEF Good, Plain
<1>8. World' = [World EXCEPT !.kb = k]
  BY <1>2 DEF World
<1>9. /\ World' \in Worlds /\ World'.kb = k /\ World.kb = kb /\ World'.tr = World.tr
      /\ World'.queue = World.queue /\ World'.panel = World.panel
  BY <1>1, <1>2, <1>7, <1>8 DEF World, Worlds
<1>10. QED
  BY <1>2, <1>6, <1>9 DEF Calm, Fine, Beside, Steady

LEMMA EditorUpdateEffect ==
    ASSUME Fine(World), NEW caps, EditorUpdate(caps)
    PROVE  Calm(World', World) /\ touching' = touching
<1> DEFINE k == OnUpdateShiftState(kb, caps, "NONE")
<1>1. World.kb = kb /\ Board(kb)
  BY DEF Fine, World
<1>2. Board(k) /\ LockKept(k, kb)
  BY <1>1, UpdateBoard
<1>3. Becomes(Listen(World, k)) /\ touching' = touching
  BY DEF EditorUpdate
<1> HIDE DEF k
<1>4. Calm(Listen(World, k), World)
  BY <1>1, <1>2, ListenCalm
<1>5. QED
  BY <1>3, <1>4, CalmTurned

LEMMA RestartEffect ==
    ASSUME Fine(World), NEW caps, Restart(caps)
    PROVE  Calm(World', World) /\ touching' = touching
<1> DEFINE r == ResetKeyboardStateToAlphabet(kb, caps, "NONE")
           k == OnUpdateShiftState(r, caps, "NONE")
<1>1. World.kb = kb /\ Board(kb)
  BY DEF Fine, World
<1>2. Becomes(Listen(World, k)) /\ touching' = touching
  BY DEF Restart
<1>3. Board(r) /\ LockKept(r, kb)
  BY <1>1, ResetBoard
<1> HIDE DEF r
<1>4. Board(k) /\ LockKept(k, r)
  BY <1>3, UpdateBoard
<1> HIDE DEF k
<1>5. Calm(Listen(World, k), World)
  BY <1>1, <1>3, <1>4, ListenCalm DEF LockKept
<1>6. QED
  BY <1>2, <1>5, CalmTurned

\* What deletions sent on the way leave of the finger that sends them.
Deletes(u, t) ==
    /\ u.key = t.key /\ u.disabled = t.disabled /\ u.panel = t.panel /\ u.stale = t.stale
    /\ u.announced = t.announced
    /\ u.longPress => t.longPress
    /\ u.repeat => t.repeat
    /\ u.typed = t.typed \/ (t.key = "DELETE" /\ u.typed = Typing(t.typed, "DELETIONS"))

Erased(v, w, f) ==
    /\ Fine(v) /\ v.queue = w.queue /\ v.panel = w.panel /\ LockKept(v.kb, w.kb)
    /\ \A g \in Fingers : g # f => Beside(v.tr[g], w.tr[g])
    /\ Deletes(v.tr[f], w.tr[f])

LEMMA ErasedTrivia ==
    ASSUME NEW f \in Fingers
    PROVE  /\ \A v, w : Calm(v, w) => Erased(v, w, f)
           /\ \A u, v, w : Calm(u, v) /\ Erased(v, w, f) => Erased(u, w, f)
           /\ \A u, v, w : Erased(u, v, f) /\ Calm(v, w) => Erased(u, w, f)
BY DEF Calm, Erased, Deletes, Beside, Steady, LockKept

LEMMA PutErased ==
    ASSUME NEW w, Fine(w), NEW f \in Fingers, NEW u \in Trackers, Deletes(u, w.tr[f])
    PROVE  LET v == Put(w, f, u) IN Erased(v, w, f) /\ v.tr[f] = u /\ v.kb = w.kb
<1> DEFINE v == Put(w, f, u)
<1>1. Own(v, w, f) /\ v.tr[f] = u /\ v.kb = w.kb
  BY PutOwn
<1> HIDE DEF v
<1>2. QED
  BY <1>1 DEF Own, Erased, LockKept, v

LEMMA ErasedTurned ==
    ASSUME NEW f, NEW v, Erased(v, World, f), Becomes(v)
    PROVE  Erased(World', World, f) /\ tr' = v.tr
<1>1. v \in Worlds
  BY DEF Erased, Fine
<1>2. World' = v
  BY <1>1, Turned
<1>3. QED
  BY <1>2 DEF Becomes

LEMMA MoveCursorEffect ==
    ASSUME Fine(World), NEW f \in Fingers, NEW deletes, NEW caps, MoveCursor(f, deletes, caps)
    PROVE  /\ Erased(World', World, f) /\ touching' = touching
           /\ f \in touching /\ ~tr[f].disabled /\ ~tr[f].panel
<1> DEFINE t == tr[f]
           b1 == t.repeat /\ t.key /= "DELETE"
           b2 == t.longPress /\ t.key /= "DELETE"
           u == [t EXCEPT !.cursorMoved = TRUE, !.repeat = b1, !.longPress = b2]
           m == Put(World, f, u)
           d == SendDelete(m, f, "DELETIONS", caps)
           v == IF t.key = "DELETE" /\ deletes THEN d ELSE m
<1>1. World.kb = kb /\ Board(kb) /\ World.tr = tr /\ t \in Trackers
  BY DEF Fine, World, Worlds
<1>2. /\ Becomes(v) /\ touching' = touching
      /\ f \in touching /\ ~tr[f].disabled /\ ~tr[f].panel
  BY DEF MoveCursor, Put, World
<1>3. /\ b1 \in BOOLEAN /\ b2 \in BOOLEAN /\ (b1 => t.repeat) /\ (b2 => t.longPress)
  BY <1>1 DEF Trackers
<1> HIDE DEF b1, b2, t
<1>4. u \in Trackers /\ Deletes(u, t) /\ u.typed = t.typed /\ u.key = t.key
  BY <1>1, <1>3 DEF Trackers, Deletes
<1> HIDE DEF u
<1>5. World.tr[f] = t
  BY <1>1 DEF t
<1>6. Erased(m, World, f) /\ m.tr[f] = u
  BY <1>4, <1>5, PutErased
<1> HIDE DEF m
<1>7. Fine(m) /\ "DELETIONS" \in Typed
  BY <1>6 DEF Erased, Typed
<1>8. /\ Calls(d, m, f) /\ d.tr[f].announced = m.tr[f].announced
      /\ d.tr[f].typed = Typing(m.tr[f].typed, "DELETIONS")
      /\ LockKept(d.kb, m.kb)
  BY <1>7, SendDeleteCalls
<1> HIDE DEF d
<1>9. ASSUME t.key = "DELETE" PROVE Erased(d, World, f)
  <2>1. Deletes(d.tr[f], World.tr[f])
    BY <1>4, <1>5, <1>6, <1>8, <1>9 DEF Calls, Steady, Deletes
  <2>2. QED
    BY <1>6, <1>8, <2>1 DEF Calls, Erased, Beside, Steady, LockKept
<1>10. Erased(v, World, f)
  BY <1>6, <1>9
<1> HIDE DEF v
<1>11. QED
  BY <1>2, <1>10, ErasedTurned

LEMMA RepeatEffect ==
    ASSUME Fine(World), NEW f \in Fingers, NEW later, NEW caps, Repeat(f, later, caps)
    PROVE  /\ Erased(World', World, f) /\ touching' = touching
           /\ tr[f].repeat /\ (tr'[f].cursorMoved => tr[f].cursorMoved)
<1> DEFINE t == tr[f]
           u == [t EXCEPT !.repeating = FALSE, !.repeat = FALSE]
           n == Put(World, f, u)
           single == Len(queue) = 1
           k == OnPressKey(kb, "OTHER", single, caps, "NONE")
           p == IF t.disabled THEN World ELSE Listen(World, k)
           more == Typing(p.tr[f].typed, "DELETIONS")
           a == [p.tr[f] EXCEPT !.repeating = TRUE, !.typed = more]
           r == Put(p, f, a)
           c == IF later THEN OnEvent(r.kb, "OTHER", caps, "NONE")
                ELSE CodeInput(r.kb, "OTHER", caps)
           s == Listen(r, c)
           v == IF t.key /= "DELETE" THEN n ELSE s
           NotMoved(x) == x.tr[f].cursorMoved => t.cursorMoved
<1>1. World.kb = kb /\ Board(kb) /\ World.tr = tr /\ t \in Trackers
  BY DEF Fine, World, Worlds
<1>2. Becomes(v) /\ touching' = touching /\ tr[f].repeat
  <2>1. touching' = touching /\ tr[f].repeat
    BY DEF Repeat
  <2>2. r = [p EXCEPT !.tr[f] = [p.tr[f] EXCEPT !.repeating = TRUE, !.typed = more]]
    BY DEF Put
  <2>3. n = [World EXCEPT !.tr[f] = [@ EXCEPT !.repeating = FALSE, !.repeat = FALSE]]
    BY DEF Put, World
  <2> HIDE DEF r, n
  <2>4. QED
    BY <2>1, <2>2, <2>3 DEF Repeat
<1> HIDE DEF t, single
<1>3. World.tr[f] = t
  BY <1>1 DEF t
<1>4. u \in Trackers /\ Beside(u, t)
  BY <1>1 DEF Trackers, Beside, Steady
<1> HIDE DEF u
<1>5. Calm(n, World)
  BY <1>3, <1>4, PutCalm
<1>6. Board(k) /\ LockKept(k, kb)
  BY <1>1, PressBoard
<1> HIDE DEF k, n
<1>7. Calm(p, World)
  BY <1>1, <1>6, ListenCalm, CalmTrivia
<1> HIDE DEF p
<1>8. p.tr[f] \in Trackers /\ Fine(p) /\ p.tr[f].key = t.key /\ NotMoved(p)
  BY <1>3, <1>7 DEF Calm, Fine, Worlds, Beside, Steady
<1>9. more \in Typed
  <2>1. p.tr[f].typed \in Typed /\ "DELETIONS" \in Typed
    BY <1>8 DEF Trackers, Typed
  <2>2. QED
    BY <2>1, TypingIsTyped
<1>10. ASSUME t.key = "DELETE" PROVE Erased(s, World, f) /\ NotMoved(s)
  <2>1. a \in Trackers /\ Deletes(a, p.tr[f]) /\ a.cursorMoved = p.tr[f].cursorMoved
    <3>1. more = Typing(p.tr[f].typed, "DELETIONS")
      OBVIOUS
    <3> HIDE DEF more
    <3>2. QED
      BY <1>8, <1>9, <1>10, <3>1 DEF Trackers, Deletes
  <2> HIDE DEF a
  <2>2. Erased(r, p, f) /\ r.tr[f] = a
    BY <1>8, <2>1, PutErased
  <2> HIDE DEF r
  <2>3. Board(r.kb) /\ Fine(r)
    BY <2>2 DEF Erased, Fine
  <2>4. Board(c) /\ LockKept(c, r.kb)
    BY <2>3, CodeInputBoard, EventBoard
  <2> HIDE DEF c
  <2>5. Calm(s, r)
    BY <2>3, <2>4, ListenCalm
  <2> HIDE DEF s
  <2>6. Erased(s, World, f)
    BY <1>7, <2>2, <2>5, ErasedTrivia
  <2>7. NotMoved(s)
    BY <1>8, <2>1, <2>2, <2>5 DEF Calm, Beside, Steady
  <2>8. QED
    BY <2>6, <2>7
<1>11. NotMoved(n) /\ Erased(n, World, f)
  BY <1>3, <1>5, ErasedTrivia DEF Calm, Beside, Steady
<1> HIDE DEF s
<1>12. Erased(v, World, f) /\ NotMoved(v)
  BY <1>10, <1>11
<1> HIDE DEF v
<1>13. tr' = v.tr /\ Erased(World', World, f)
  BY <1>2, <1>12, ErasedTurned
<1>14. QED
  BY <1>2, <1>12, <1>13 DEF t

LEMMA MoveEffect ==
    ASSUME Fine(World), NEW f \in Fingers, NEW key \in Keys \cup {NoKey}, NEW caps,
           Move(f, key, caps)
    PROVE  LET u == tr'[f]
               t == tr[f]
           IN  /\ f \in touching /\ ~t.disabled /\ touching' = touching
               /\ Own(World', World, f) /\ Lasting(u, t) /\ u.key = key
               /\ u.longPress => key \in LongPressKeys \/ (t.longPress /\ t.key = NoKey)
               /\ u.repeat => t.repeat /\ t.key = NoKey
               /\ key \in TypingKeys => u.announced = key
               /\ "SHIFT" \notin {t.key, key} => LockKept(kb', kb)
<1> DEFINE v == MoveTo(World, f, key, caps)
<1>1. World.kb = kb /\ World.tr = tr
  BY DEF World
<1>2. /\ Becomes(v) /\ f \in touching /\ ~tr[f].disabled /\ touching' = touching
  BY DEF Move
<1>3. /\ Own(v, World, f) /\ Lasting(v.tr[f], tr[f]) /\ v.tr[f].key = key
      /\ v.tr[f].longPress => key \in LongPressKeys \/ (tr[f].longPress /\ tr[f].key = NoKey)
      /\ v.tr[f].repeat => tr[f].repeat /\ tr[f].key = NoKey
      /\ ~tr[f].disabled /\ key \in TypingKeys => v.tr[f].announced = key
      /\ "SHIFT" \notin {tr[f].key, key} => LockKept(v.kb, kb)
  <2> HIDE DEF v
  <2> DEFINE w == World
  <2>1. Fine(w) /\ w.kb = kb /\ w.tr = tr
    BY <1>1
  <2> HIDE DEF w
  <2>2. LET x == MoveTo(w, f, key, caps)
        IN  /\ Own(x, w, f) /\ Lasting(x.tr[f], w.tr[f]) /\ x.tr[f].key = key
            /\ x.tr[f].longPress => key \in LongPressKeys \/ (w.tr[f].longPress /\ w.tr[f].key = NoKey)
            /\ x.tr[f].repeat => w.tr[f].repeat /\ w.tr[f].key = NoKey
            /\ ~w.tr[f].disabled /\ key \in TypingKeys => x.tr[f].announced = key
            /\ "SHIFT" \notin {w.tr[f].key, key} => LockKept(x.kb, w.kb)
    BY <2>1, MoveToFine
  <2>3. v = MoveTo(w, f, key, caps)
    BY DEF v, w
  <2>4. QED
    BY <2>1, <2>2, <2>3 DEF w
<1> HIDE DEF v
<1>4. World' = v
  BY <1>2, <1>3, Turned DEF Own, Fine
<1>5. tr' = v.tr /\ kb' = v.kb
  BY <1>2 DEF Becomes
<1>6. QED
  BY <1>2, <1>3, <1>4, <1>5

LEMMA LeavePanelEffect ==
    ASSUME Fine(World), NEW f \in Fingers, LeavePanel(f)
    PROVE  /\ Fine(World') /\ kb' = kb /\ queue' = queue /\ touching' = touching
           /\ panel' = [panel EXCEPT !.shown = FALSE]
           /\ \A g \in Fingers : tr'[g] = [tr[g] EXCEPT !.panel = FALSE]
<1> DEFINE t == [g \in Fingers |-> [tr[g] EXCEPT !.panel = FALSE]]
           p == [panel EXCEPT !.shown = FALSE]
<1>1. World \in Worlds /\ World.kb = kb /\ Board(kb)
  BY DEF Fine, World
<1>2. World.tr = tr /\ World.queue = queue /\ World.panel = panel
  BY DEF World
<1>3. tr \in [Fingers -> Trackers] /\ queue \in Seq(Fingers) /\ panel \in Panels
      /\ kb \in KeyboardStates
  BY <1>1, <1>2 DEF Worlds
<1>4. kb' = kb /\ tr' = t /\ queue' = queue /\ panel' = p /\ touching' = touching
  BY DEF LeavePanel
<1>5. p \in Panels
  BY <1>3 DEF Panels
<1>6. \A a \in Trackers : [a EXCEPT !.panel = FALSE] \in Trackers
  BY DEF Trackers
<1>7. t \in [Fingers -> Trackers]
  BY <1>3, <1>6
<1>8. World' \in Worlds /\ World'.kb = kb
  <2> HIDE DEF t, p
  <2>1. World' = [kb |-> kb, tr |-> t, queue |-> queue, panel |-> p]
    BY <1>4 DEF World
  <2>2. QED
    BY <1>3, <1>5, <1>7, <2>1 DEF Worlds
<1>9. QED
  BY <1>1, <1>4, <1>8 DEF Fine

\* The long press timers of all fingers stop before the message is handled.
LEMMA LongPressEffect ==
    ASSUME Fine(World), NEW f \in Fingers, NEW picker, NEW caps, LongPress(f, picker, caps)
    PROVE  LET u == tr'[f]
               t == tr[f]
           IN  /\ t.longPress /\ touching' = touching /\ Fine(World')
               /\ \A g \in Fingers : ~tr'[g].longPress
               /\ \A g \in Fingers : g # f => Beside(tr'[g], tr[g])
               /\ u.key = t.key /\ u.stale = t.stale /\ u.typed = t.typed
               /\ u.repeat => t.repeat /\ (u.cursorMoved => t.cursorMoved)
               /\ \/ queue' = queue /\ panel' = panel /\ Beside(u, t)
                  \/ t.key = "LETTER" /\ ~u.cursorMoved /\ u.panel /\ queue' = queue
                  \/ /\ queue' = Forget(queue, f) /\ panel' = panel
                     /\ u.disabled /\ ~t.panel /\ ~u.panel
               /\ t.key # "SHIFT" => LockKept(kb', kb)
<1> DEFINE r == [g \in Fingers |-> [tr[g] EXCEPT !.longPress = FALSE]]
           q == [World EXCEPT !.tr = r]
           v == LongPressed(q, f, picker, caps)
<1>1. World \in Worlds /\ World.kb = kb /\ Board(kb)
  BY DEF Fine, World
<1>2. World.tr = tr /\ World.queue = queue /\ World.panel = panel
  BY DEF World
<1>3. tr \in [Fingers -> Trackers]
  BY <1>1, <1>2 DEF Worlds
<1>4. tr[f].longPress /\ Becomes(v) /\ touching' = touching
  BY <1>2 DEF LongPress
<1>5. \A a \in Trackers : LET c == [a EXCEPT !.longPress = FALSE]
                          IN  c \in Trackers /\ Beside(c, a) /\ ~c.longPress
  BY DEF Trackers, Beside, Steady
<1>6. r \in [Fingers -> Trackers]
      /\ \A g \in Fingers : Beside(r[g], tr[g]) /\ ~r[g].longPress
  BY <1>3, <1>5
<1> HIDE DEF r
<1>7. q \in Worlds /\ q.kb = kb /\ q.tr = r /\ q.queue = queue /\ q.panel = panel
  BY <1>1, <1>2, <1>6 DEF Worlds
<1>8. Fine(q)
  BY <1>1, <1>7 DEF Fine
<1> HIDE DEF q
<1>9. /\ Fine(v)
      /\ \A g \in Fingers : g # f => Beside(v.tr[g], q.tr[g])
      /\ v.tr[f].key = q.tr[f].key /\ v.tr[f].stale = q.tr[f].stale
      /\ v.tr[f].typed = q.tr[f].typed
      /\ v.tr[f].longPress => q.tr[f].longPress
      /\ v.tr[f].repeat => q.tr[f].repeat
      /\ v.tr[f].cursorMoved => q.tr[f].cursorMoved
      /\ \/ v = q
         \/ /\ q.tr[f].key = "LETTER" /\ v.tr[f].panel /\ v.queue = q.queue
            /\ ~v.tr[f].cursorMoved
         \/ /\ v.queue = Forget(q.queue, f) /\ v.panel = q.panel
            /\ v.tr[f].disabled /\ ~q.tr[f].panel /\ ~v.tr[f].panel
      /\ q.tr[f].key # "SHIFT" => LockKept(v.kb, q.kb)
  BY <1>8, LongPressedFine
<1> HIDE DEF v
<1>10. World' = v
  BY <1>4, <1>9, Turned DEF Fine
<1>11. tr' = v.tr /\ kb' = v.kb /\ queue' = v.queue /\ panel' = v.panel
  BY <1>4 DEF Becomes
<1>12. Fine(World')
  BY <1>9, <1>10
<1>13. \A g \in Fingers : ~tr'[g].longPress
  BY <1>6, <1>7, <1>9, <1>11 DEF Beside, Steady
<1>14. \A g \in Fingers : g # f => Beside(tr'[g], tr[g])
  BY <1>6, <1>7, <1>9, <1>11 DEF Beside, Steady
<1>15. /\ tr'[f].key = tr[f].key /\ tr'[f].stale = tr[f].stale /\ tr'[f].typed = tr[f].typed
       /\ tr'[f].repeat => tr[f].repeat
       /\ tr'[f].cursorMoved => tr[f].cursorMoved
       /\ tr[f].key # "SHIFT" => LockKept(kb', kb)
  BY <1>6, <1>7, <1>9, <1>11 DEF Beside, Steady
<1>16. \/ queue' = queue /\ panel' = panel /\ Beside(tr'[f], tr[f])
       \/ tr[f].key = "LETTER" /\ ~tr'[f].cursorMoved /\ tr'[f].panel /\ queue' = queue
       \/ /\ queue' = Forget(queue, f) /\ panel' = panel
          /\ tr'[f].disabled /\ ~tr[f].panel /\ ~tr'[f].panel
  BY <1>6, <1>7, <1>9, <1>11 DEF Beside, Steady
<1>17. QED
  BY <1>4, <1>12, <1>13, <1>14, <1>15, <1>16

LEMMA NewFieldEffect ==
    ASSUME Fine(World), NEW caps, NewField(caps)
    PROVE  /\ Fine(World') /\ queue' = queue /\ touching' = touching
           /\ panel'.shown => panel.shown
           /\ \A g \in Fingers :
                LET u == tr'[g]
                    t == tr[g]
                IN  /\ u.key = t.key /\ u.typed = t.typed /\ u.announced = t.announced
                    /\ ~u.longPress /\ ~u.repeat /\ ~u.panel
                    /\ u.disabled <=> t.disabled \/ Contains(queue, g)
                    /\ u.stale <=> t.stale \/ g \in touching
                    /\ u.cursorMoved => t.cursorMoved
<1> DEFINE b(g) == tr[g].disabled \/ Contains(queue, g)
           r == [g \in Fingers |-> [tr[g] EXCEPT !.longPress = FALSE, !.repeat = FALSE,
                                                 !.panel = FALSE, !.disabled = b(g)]]
           shown == panel.shown /\ \A g \in Fingers : ~tr[g].panel
           p == [panel EXCEPT !.shown = shown]
           w == [World EXCEPT !.tr = r]
           c == [w EXCEPT !.panel = p]
           d(g) == c.tr[g].stale \/ g \in touching
           s == [g \in Fingers |-> [c.tr[g] EXCEPT !.stale = d(g)]]
           m == [c EXCEPT !.tr = s]
           k == LoadKeyboard(kb, caps, "NONE")
           v == Listen(m, k)
<1>1. World \in Worlds /\ World.kb = kb /\ Board(kb)
  BY DEF Fine, World
<1>2. World.tr = tr /\ World.queue = queue /\ World.panel = panel
  BY DEF World
<1>3. tr \in [Fingers -> Trackers] /\ panel \in Panels
  BY <1>1, <1>2 DEF Worlds
<1>4. Becomes(v) /\ touching' = touching
  <2>1. touching' = touching
    BY DEF NewField
  <2>2. CancelAllOngoingEvents(World) = c
    BY DEF CancelAllOngoingEvents, World
  <2> HIDE DEF c
  <2>3. NewField(caps) => Becomes(v)
    BY <2>2 DEF NewField
  <2>4. QED
    BY <2>1, <2>3
<1>5. shown \in BOOLEAN /\ (shown => panel.shown)
  BY <1>3 DEF Panels
<1> HIDE DEF shown
<1>6. p \in Panels /\ (p.shown => panel.shown)
  BY <1>3, <1>5 DEF Panels
<1> HIDE DEF p
<1>7. ASSUME NEW g \in Fingers
      PROVE  /\ r[g] \in Trackers
             /\ r[g].key = tr[g].key /\ r[g].typed = tr[g].typed
             /\ r[g].announced = tr[g].announced /\ r[g].stale = tr[g].stale
             /\ r[g].cursorMoved = tr[g].cursorMoved
             /\ ~r[g].longPress /\ ~r[g].repeat /\ ~r[g].panel
             /\ r[g].disabled <=> tr[g].disabled \/ Contains(queue, g)
  <2> DEFINE a == tr[g]
             o == b(g)
             e == [a EXCEPT !.longPress = FALSE, !.repeat = FALSE,
                            !.panel = FALSE, !.disabled = o]
  <2>1. r[g] = e
    OBVIOUS
  <2>2. a \in Trackers
    BY <1>3
  <2>3. o \in BOOLEAN /\ (o <=> tr[g].disabled \/ Contains(queue, g))
    BY <2>2 DEF Trackers, Contains
  <2> HIDE DEF a, o, b, r
  <2>4. /\ e \in Trackers
        /\ e.key = a.key /\ e.typed = a.typed
        /\ e.announced = a.announced /\ e.stale = a.stale
        /\ ~e.longPress /\ ~e.repeat /\ ~e.panel /\ e.disabled = o
        /\ e.cursorMoved = a.cursorMoved
    BY <2>2, <2>3 DEF Trackers
  <2> HIDE DEF e
  <2>5. QED
    BY <2>1, <2>3, <2>4 DEF a
<1>8. r \in [Fingers -> Trackers]
  <2>1. r = [g \in Fingers |-> r[g]]
    OBVIOUS
  <2> HIDE DEF r
  <2>2. QED
    BY <1>7, <2>1
<1> HIDE DEF r, b
<1>9. w \in Worlds /\ w.kb = kb /\ w.tr = r /\ w.queue = queue /\ w.panel = panel
  BY <1>1, <1>2, <1>8 DEF Worlds
<1> HIDE DEF w
<1>10. c \in Worlds /\ c.kb = kb /\ c.tr = r /\ c.queue = queue /\ c.panel = p
  BY <1>6, <1>9 DEF Worlds
<1> HIDE DEF c
<1>11. ASSUME NEW g \in Fingers
       PROVE  /\ s[g] \in Trackers
              /\ s[g].key = r[g].key /\ s[g].typed = r[g].typed
              /\ s[g].announced = r[g].announced /\ s[g].cursorMoved = r[g].cursorMoved
              /\ s[g].longPress = r[g].longPress /\ s[g].repeat = r[g].repeat
              /\ s[g].panel = r[g].panel /\ s[g].disabled = r[g].disabled
              /\ s[g].stale <=> tr[g].stale \/ g \in touching
  <2> DEFINE a == r[g]
             o == d(g)
             e == [a EXCEPT !.stale = o]
  <2>1. s[g] = e
    BY <1>10
  <2>2. a \in Trackers /\ a.stale = tr[g].stale
    BY <1>7
  <2>3. o \in BOOLEAN /\ (o <=> tr[g].stale \/ g \in touching)
    BY <1>10, <2>2 DEF Trackers
  <2> HIDE DEF a, o, d, s
  <2>4. /\ e \in Trackers /\ e.stale = o
        /\ e.key = a.key /\ e.typed = a.typed /\ e.announced = a.announced
        /\ e.longPress = a.longPress /\ e.repeat = a.repeat /\ e.panel = a.panel
        /\ e.disabled = a.disabled /\ e.cursorMoved = a.cursorMoved
    BY <2>2, <2>3 DEF Trackers
  <2> HIDE DEF e
  <2>5. QED
    BY <2>1, <2>3, <2>4 DEF a
<1>12. s \in [Fingers -> Trackers]
  <2>1. s = [g \in Fingers |-> s[g]]
    OBVIOUS
  <2> HIDE DEF s
  <2>2. QED
    BY <1>11, <2>1
<1> HIDE DEF s, d
<1>13. m \in Worlds /\ m.tr = s /\ m.queue = queue /\ m.panel = p
  BY <1>10, <1>12 DEF Worlds
<1> HIDE DEF m
<1>14. Board(k)
  BY <1>1, LoadBoard DEF Board, Good
<1> HIDE DEF k
<1>15. /\ Fine(v) /\ v.queue = m.queue /\ v.panel = m.panel
       /\ \A g \in Fingers : Beside(v.tr[g], m.tr[g])
  BY <1>13, <1>14, ListenFine
<1> HIDE DEF v
<1>16. World' = v
  BY <1>4, <1>15, Turned DEF Fine
<1>17. tr' = v.tr /\ queue' = v.queue /\ panel' = v.panel
  BY <1>4 DEF Becomes
<1>18. ASSUME NEW g \in Fingers
       PROVE  /\ tr'[g].key = tr[g].key /\ tr'[g].typed = tr[g].typed
              /\ tr'[g].announced = tr[g].announced
              /\ ~tr'[g].longPress /\ ~tr'[g].repeat /\ ~tr'[g].panel
              /\ tr'[g].disabled <=> tr[g].disabled \/ Contains(queue, g)
              /\ tr'[g].stale <=> tr[g].stale \/ g \in touching
              /\ tr'[g].cursorMoved => tr[g].cursorMoved
  <2>1. Beside(tr'[g], s[g])
    BY <1>13, <1>15, <1>17
  <2>2. QED
    BY <1>7, <1>11, <2>1 DEF Beside, Steady
<1>19. Fine(World')
  BY <1>15, <1>16
<1>20. queue' = queue /\ (panel'.shown => panel.shown)
  BY <1>6, <1>13, <1>15, <1>17
<1>21. QED
  BY <1>4, <1>18, <1>19, <1>20

\* What others make of a tracker, one thing after the other.
LEMMA OneAfterTheOther ==
    ASSUME NEW u, NEW v, NEW t
    PROVE  /\ Beside(u, v) /\ Beside(v, t) => Beside(u, t)
           /\ Beside(u, v) /\ Released(v, t) => Released(u, t)
BY DEF Beside, Steady, Released

LEMMA AppendFacts ==
    ASSUME NEW q \in Seq(Fingers), NEW f \in Fingers
    PROVE  LET x == Append(q, f)
           IN  /\ x \in Seq(Fingers) /\ ToSet(x) = ToSet(q) \cup {f}
               /\ IsInjective(q) /\ f \notin ToSet(q) => IsInjective(x)
<1> DEFINE s == <<f>>
<1>1. Append(q, f) = q \o s
  OBVIOUS
<1>2. s \in Seq(Fingers) /\ ToSet(s) = {f} /\ IsInjective(s)
  BY DEF ToSet, IsInjective
<1> HIDE DEF s
<1>3. /\ q \o s \in Seq(Fingers) /\ ToSet(q \o s) = ToSet(q) \cup ToSet(s)
      /\ IsInjective(q) /\ IsInjective(s) /\ ToSet(q) \cap ToSet(s) = {} => IsInjective(q \o s)
  BY <1>2, JoinFacts
<1>4. QED
  BY <1>1, <1>2, <1>3

\* A finger that presses a modifier key first releases all the others.
LEMMA DownClears ==
    ASSUME NEW w, Fine(w), NEW key, NEW lift, NEW caps
    PROVE  LET c == IF IsModifier(key) THEN ReleaseAllExcept(w, NoKey, lift, caps) ELSE w
           IN  \E R \in {{}, ToSet(w.queue)} :
                 /\ Flushed(c, w, R) /\ c.queue \in Seq(Fingers)
                 /\ ToSet(c.queue) = ToSet(w.queue) \ R
                 /\ IsInjective(w.queue) => IsInjective(c.queue)
<1> DEFINE a == ReleaseAllExcept(w, NoKey, lift, caps)
<1>1. w.queue \in Seq(Fingers)
  BY DEF Fine, Worlds
<1>2. ToSet(w.queue) \ {NoKey} = ToSet(w.queue) /\ ToSet(w.queue) \cap {NoKey} = {}
  <2>1. ToSet(w.queue) \subseteq Fingers
    BY <1>1 DEF ToSet
  <2>2. NoKey \notin Fingers
    BY TouchAssumption
  <2>3. QED
    BY <2>1, <2>2
<1>3. Flushed(a, w, ToSet(w.queue)) /\ a.queue = Only(w.queue, {NoKey})
  <2>1. Flushed(a, w, ToSet(w.queue) \ {NoKey}) /\ a.queue = Only(w.queue, {NoKey})
    BY ReleaseAllFine
  <2> HIDE DEF a
  <2>2. QED
    BY <1>2, <2>1
<1>4. /\ Only(w.queue, {NoKey}) \in Seq(Fingers) /\ ToSet(Only(w.queue, {NoKey})) = {}
      /\ IsInjective(w.queue) => IsInjective(Only(w.queue, {NoKey}))
  BY <1>1, <1>2, OnlyFacts
<1>5. Flushed(w, w, {})
  BY FlushedNone
<1> HIDE DEF a
<1>6. CASE IsModifier(key)
  BY <1>3, <1>4, <1>6 DEF a
<1>7. CASE ~IsModifier(key)
  BY <1>1, <1>5, <1>7
<1>8. QED
  BY <1>6, <1>7

\* What happens to the fingers other than f when those of R are released.
Shaken(v, w, f, R) ==
    /\ Fine(v)
    /\ \A g \in Fingers : g # f => IF g \in R THEN Released(v.tr[g], w.tr[g])
                                   ELSE Beside(v.tr[g], w.tr[g])
    /\ (\A g \in Fingers : ~w.tr[g].panel) => v.panel = w.panel

LEMMA NewTouchFacts ==
    ASSUME NEW t \in Trackers
    PROVE  LET u == NewTouch(t)
           IN  /\ u \in Trackers /\ u.typed = "NOTHING" /\ ~u.stale /\ u.announced = NoKey
               /\ u.key = t.key /\ u.disabled = t.disabled /\ u.panel = t.panel
               /\ u.longPress = t.longPress /\ u.repeat = t.repeat
               /\ u.cursorMoved = t.cursorMoved
<1> DEFINE a == [t EXCEPT !.announced = NoKey]
           b == [a EXCEPT !.typed = "NOTHING"]
           c == [b EXCEPT !.home = "NONE"]
           u == [c EXCEPT !.stale = FALSE]
           Still(x, y) == /\ x.key = y.key /\ x.disabled = y.disabled /\ x.panel = y.panel
                         /\ x.longPress = y.longPress /\ x.repeat = y.repeat
                         /\ x.cursorMoved = y.cursorMoved
<1>1. a \in Trackers /\ a.announced = NoKey /\ Still(a, t)
  BY DEF Trackers
<1>2. NewTouch(t) = u
  BY DEF NewTouch
<1> HIDE DEF a
<1>3. b \in Trackers /\ b.announced = NoKey /\ b.typed = "NOTHING" /\ Still(b, a)
  BY <1>1 DEF Trackers, Typed
<1> HIDE DEF b
<1>4. c \in Trackers /\ c.announced = NoKey /\ c.typed = "NOTHING" /\ Still(c, b)
  BY <1>3 DEF Trackers
<1> HIDE DEF c
<1>5. u \in Trackers /\ u.announced = NoKey /\ u.typed = "NOTHING" /\ ~u.stale /\ Still(u, c)
  BY <1>4 DEF Trackers
<1> HIDE DEF u
<1>6. QED
  BY <1>1, <1>2, <1>3, <1>4, <1>5

\* A down event that MainKeyboardView passes on.
DownHeard(v, w, f, key) ==
    LET u == v.tr[f]
        t == w.tr[f]
    IN  \E R \in {{}, ToSet(w.queue)} :
          /\ Shaken(v, w, f, R)
          /\ ToSet(v.queue) = (ToSet(w.queue) \ R) \cup {f}
          /\ IsInjective(w.queue) /\ f \notin ToSet(w.queue) => IsInjective(v.queue)
          /\ u.typed = "NOTHING" /\ ~u.stale /\ u.key = key /\ ~u.disabled
          /\ u.panel => t.panel /\ (u.cursorMoved => t.cursorMoved)
          /\ u.longPress => t.longPress \/ key \in LongPressKeys
          /\ u.repeat => t.repeat \/ key \in RepeatKeys
          /\ key \in TypingKeys => u.announced = key
          /\ key # "SHIFT" /\ (\A g \in Fingers : w.tr[g].key # "SHIFT") => LockKept(v.kb, w.kb)

LEMMA DownHeardFine ==
    ASSUME NEW w, Fine(w), NEW f \in Fingers, NEW key \in Keys \cup {NoKey}, NEW lift, NEW caps
    PROVE  LET c == IF IsModifier(key) THEN ReleaseAllExcept(w, NoKey, lift, caps) ELSE w
               a == [c EXCEPT !.queue = Append(@, f), !.tr[f] = NewTouch(@)]
           IN  DownHeard(DownInternal(a, f, key, caps), w, f, key)
<1> DEFINE c == IF IsModifier(key) THEN ReleaseAllExcept(w, NoKey, lift, caps) ELSE w
           u == NewTouch(c.tr[f])
           q == Append(c.queue, f)
           a == [c EXCEPT !.queue = q, !.tr[f] = u]
           v == DownInternal(a, f, key, caps)
<1>1. PICK R \in {{}, ToSet(w.queue)} :
         /\ Flushed(c, w, R) /\ c.queue \in Seq(Fingers)
         /\ ToSet(c.queue) = ToSet(w.queue) \ R
         /\ IsInjective(w.queue) => IsInjective(c.queue)
  BY DownClears
<1> HIDE DEF c
<1>2. c \in Worlds /\ c.tr[f] \in Trackers /\ Fine(c)
  BY <1>1 DEF Flushed, Fine, Worlds
<1>3. /\ u \in Trackers /\ u.typed = "NOTHING" /\ ~u.stale /\ u.announced = NoKey
      /\ u.key = c.tr[f].key /\ u.disabled = c.tr[f].disabled /\ u.panel = c.tr[f].panel
      /\ u.longPress = c.tr[f].longPress /\ u.repeat = c.tr[f].repeat
      /\ u.cursorMoved = c.tr[f].cursorMoved
  BY <1>2, NewTouchFacts
<1>4. /\ q \in Seq(Fingers) /\ ToSet(q) = ToSet(c.queue) \cup {f}
      /\ IsInjective(c.queue) /\ f \notin ToSet(c.queue) => IsInjective(q)
  BY <1>1, AppendFacts
<1> HIDE DEF u, q
<1>5. /\ a \in Worlds /\ a.kb = c.kb /\ a.queue = q /\ a.panel = c.panel /\ a.tr[f] = u
      /\ \A g \in Fingers : g # f => a.tr[g] = c.tr[g]
  BY <1>2, <1>3, <1>4 DEF Worlds
<1> HIDE DEF a
<1>6. Fine(a)
  BY <1>2, <1>5 DEF Fine
<1>7. /\ Own(v, a, f)
      /\ v.tr[f].key = key /\ ~v.tr[f].disabled /\ v.tr[f].panel = u.panel
      /\ v.tr[f].stale = u.stale /\ v.tr[f].typed = u.typed
      /\ v.tr[f].cursorMoved => u.cursorMoved
      /\ v.tr[f].repeat => u.repeat \/ key \in RepeatKeys
      /\ v.tr[f].longPress => u.longPress \/ key \in LongPressKeys
      /\ key \in TypingKeys => v.tr[f].announced = key
      /\ key # "SHIFT" => LockKept(v.kb, a.kb)
  <2>1. /\ Own(v, a, f)
        /\ v.tr[f].key = key /\ ~v.tr[f].disabled /\ v.tr[f].panel = a.tr[f].panel
        /\ v.tr[f].stale = a.tr[f].stale /\ v.tr[f].typed = a.tr[f].typed
        /\ v.tr[f].cursorMoved => a.tr[f].cursorMoved
        /\ v.tr[f].repeat => a.tr[f].repeat \/ key \in RepeatKeys
        /\ v.tr[f].longPress => a.tr[f].longPress \/ key \in LongPressKeys
        /\ key \in TypingKeys => v.tr[f].announced = key
        /\ key # "SHIFT" => LockKept(v.kb, a.kb)
    BY <1>6, DownFine
  <2> HIDE DEF v
  <2>2. QED
    BY <1>5, <2>1
<1> HIDE DEF v
<1>8. /\ c.tr[f].panel => w.tr[f].panel /\ (c.tr[f].cursorMoved => w.tr[f].cursorMoved)
      /\ c.tr[f].longPress => w.tr[f].longPress
      /\ c.tr[f].repeat => w.tr[f].repeat
  BY <1>1 DEF Flushed, Released, Beside, Steady
<1>9. Shaken(v, w, f, R)
  <2>1. Fine(v)
    BY <1>7 DEF Own
  <2>2. ASSUME NEW g \in Fingers, g # f
        PROVE  IF g \in R THEN Released(v.tr[g], w.tr[g]) ELSE Beside(v.tr[g], w.tr[g])
    <3>1. Beside(v.tr[g], c.tr[g])
      BY <1>5, <1>7, <2>2 DEF Own
    <3>2. IF g \in R THEN Released(c.tr[g], w.tr[g]) ELSE Beside(c.tr[g], w.tr[g])
      BY <1>1 DEF Flushed
    <3>3. QED
      BY <3>1, <3>2, OneAfterTheOther
  <2>3. (\A g \in Fingers : ~w.tr[g].panel) => v.panel = w.panel
    BY <1>1, <1>5, <1>7 DEF Flushed, Own
  <2>4. QED
    BY <2>1, <2>2, <2>3 DEF Shaken
<1>10. /\ ToSet(v.queue) = (ToSet(w.queue) \ R) \cup {f}
       /\ IsInjective(w.queue) /\ f \notin ToSet(w.queue) => IsInjective(v.queue)
  BY <1>1, <1>4, <1>5, <1>7 DEF Own
<1>11. key # "SHIFT" /\ (\A g \in Fingers : w.tr[g].key # "SHIFT") => LockKept(v.kb, w.kb)
  BY <1>1, <1>5, <1>7 DEF Flushed, LockKept
<1>12. DownHeard(v, w, f, key)
  BY <1>3, <1>7, <1>8, <1>9, <1>10, <1>11 DEF DownHeard
<1>13. QED
  BY <1>12 DEF v, a, u, q, c

LEMMA DownEffect ==
    ASSUME Fine(World), NEW f \in Fingers, NEW key \in Keys \cup {NoKey}, NEW lift,
           NEW caps, Down(f, key, lift, caps)
    PROVE  /\ f \notin touching /\ touching' = touching \cup {f}
           /\ \/ Heard(f) /\ DownHeard(World', World, f, key)
              \/ /\ ~Heard(f) /\ Shaken(World', World, f, {})
                 /\ kb' = kb /\ queue' = queue /\ tr'[f].typed = "NOTHING"
                 /\ tr'[f].panel = tr[f].panel /\ tr'[f].cursorMoved = tr[f].cursorMoved
<1> DEFINE c == IF IsModifier(key) THEN ReleaseAllExcept(World, NoKey, lift, caps) ELSE World
           a == [c EXCEPT !.queue = Append(@, f), !.tr[f] = NewTouch(@)]
           v == DownInternal(a, f, key, caps)
           u == NewTouch(tr[f])
           n == Put(World, f, u)
<1>1. f \notin touching /\ touching' = touching \cup {f}
  BY DEF Down
<1>2. IF Heard(f) THEN Becomes(v)
      ELSE UNCHANGED <<kb, queue, panel>> /\ tr' = [tr EXCEPT ![f] = u]
  BY DEF Down
<1>3. DownHeard(v, World, f, key)
  BY DownHeardFine
<1> HIDE DEF v
<1>4. CASE Heard(f)
  <2>1. v \in Worlds
    BY <1>3 DEF DownHeard, Shaken, Fine
  <2>2. World' = v
    BY <1>2, <1>4, <2>1, Turned
  <2>3. QED
    BY <1>1, <1>3, <1>4, <2>2
<1>5. CASE ~Heard(f)
  <2>1. World.kb = kb /\ World.tr = tr /\ World.queue = queue /\ World.panel = panel
    BY DEF World
  <2>2. tr[f] \in Trackers
    BY <2>1 DEF Fine, Worlds
  <2>3. /\ u \in Trackers /\ u.typed = "NOTHING" /\ u.panel = tr[f].panel
        /\ u.cursorMoved = tr[f].cursorMoved
    BY <2>2, NewTouchFacts
  <2> HIDE DEF u
  <2>4. UNCHANGED <<kb, queue, panel>> /\ tr' = [tr EXCEPT ![f] = u]
    BY <1>2, <1>5
  <2>5. World' = n
    BY <2>4 DEF World, Put
  <2>6. Own(n, World, f) /\ n.tr[f] = u
    BY <2>3, PutOwn
  <2> HIDE DEF n
  <2>7. Shaken(n, World, f, {})
    BY <2>6 DEF Own, Shaken
  <2>8. tr'[f] = u
    <3>1. World'.tr = tr'
      BY DEF World
    <3>2. QED
      BY <2>5, <2>6, <3>1
  <2>9. QED
    BY <1>1, <1>5, <2>3, <2>4, <2>5, <2>7, <2>8
<1>6. QED
  BY <1>4, <1>5

\* An up event that MainKeyboardView passes on: it releases the other fingers
\* when it ends on a modifier key, else the older ones that are on none.
UpReleases(w, f) == IF IsModifier(w.tr[f].key) THEN ToSet(w.queue) \ {f} ELSE Outrun(w, f)

UpHeard(v, w, f) ==
    /\ Shaken(v, w, f, UpReleases(w, f)) /\ Ended(v.tr[f], w.tr[f])
    /\ ToSet(v.queue) \subseteq ToSet(w.queue) \ {f}
    /\ IsInjective(w.queue) =>
         /\ IsInjective(v.queue)
         /\ ToSet(v.queue) = (ToSet(w.queue) \ UpReleases(w, f)) \ {f}
    /\ (\A g \in Fingers : w.tr[g].key # "SHIFT") => LockKept(v.kb, w.kb)

LEMMA UpReleasesFine ==
    ASSUME NEW w, Fine(w), NEW f \in Fingers, NEW lift, NEW caps
    PROVE  LET r == IF IsModifier(w.tr[f].key) THEN ReleaseAllExcept(w, f, lift, caps)
                    ELSE ReleaseOlderThan(w, f, lift, caps)
               R == UpReleases(w, f)
           IN  /\ Flushed(r, w, R) /\ f \notin R
               /\ r.queue \in Seq(Fingers) /\ ToSet(r.queue) \subseteq ToSet(w.queue)
               /\ IsInjective(w.queue) => IsInjective(r.queue) /\ ToSet(r.queue) \ {f} = (ToSet(w.queue) \ R) \ {f}
<1> DEFINE a == ReleaseAllExcept(w, f, lift, caps)
           b == ReleaseOlderThan(w, f, lift, caps)
           q == Only(w.queue, {f})
<1>1. w.queue \in Seq(Fingers)
  BY DEF Fine, Worlds
<1>2. Flushed(a, w, ToSet(w.queue) \ {f}) /\ a.queue = q
  BY ReleaseAllFine
<1>3. /\ q \in Seq(Fingers) /\ ToSet(q) = ToSet(w.queue) \cap {f}
      /\ IsInjective(w.queue) => IsInjective(q)
  BY <1>1, OnlyFacts
<1>4. /\ Flushed(b, w, Outrun(w, f)) /\ f \notin Outrun(w, f)
      /\ b.queue \in Seq(Fingers) /\ ToSet(b.queue) \subseteq ToSet(w.queue)
      /\ IsInjective(w.queue) =>
           /\ IsInjective(b.queue)
           /\ ToSet(b.queue) = ToSet(w.queue) \ Outrun(w, f)
  BY ReleaseOlderFine
<1> HIDE DEF a, b, q
<1>5. CASE IsModifier(w.tr[f].key)
  BY <1>2, <1>3, <1>5 DEF UpReleases, a
<1>6. CASE ~IsModifier(w.tr[f].key)
  BY <1>4, <1>6 DEF UpReleases, b
<1>7. QED
  BY <1>5, <1>6

LEMMA UpHeardFine ==
    ASSUME NEW w, Fine(w), NEW f \in Fingers, NEW lift, NEW caps
    PROVE  LET r == IF IsModifier(w.tr[f].key) THEN ReleaseAllExcept(w, f, lift, caps)
                    ELSE ReleaseOlderThan(w, f, lift, caps)
               up == UpInternal(r, f, lift, caps)
           IN  UpHeard([up EXCEPT !.queue = Forget(@, f)], w, f)
<1> DEFINE r == IF IsModifier(w.tr[f].key) THEN ReleaseAllExcept(w, f, lift, caps)
                ELSE ReleaseOlderThan(w, f, lift, caps)
           R == UpReleases(w, f)
           up == UpInternal(r, f, lift, caps)
           q == Forget(up.queue, f)
           v == [up EXCEPT !.queue = q]
<1>1. /\ Flushed(r, w, R) /\ f \notin R
      /\ r.queue \in Seq(Fingers) /\ ToSet(r.queue) \subseteq ToSet(w.queue)
      /\ IsInjective(w.queue) => IsInjective(r.queue) /\ ToSet(r.queue) \ {f} = (ToSet(w.queue) \ R) \ {f}
  BY UpReleasesFine
<1> HIDE DEF r, R
<1>2. Fine(r) /\ Beside(r.tr[f], w.tr[f])
  BY <1>1 DEF Flushed
<1>3. /\ Fine(up) /\ up.queue = r.queue
      /\ \A g \in Fingers : g # f => Beside(up.tr[g], r.tr[g])
      /\ Ended(up.tr[f], r.tr[f])
      /\ ~r.tr[f].panel => up.panel = r.panel
      /\ r.tr[f].key # "SHIFT" => LockKept(up.kb, r.kb)
  BY <1>2, UpInternalFine
<1> HIDE DEF up
<1>4. /\ q \in Seq(Fingers) /\ ToSet(q) = ToSet(r.queue) \ {f}
      /\ IsInjective(r.queue) => IsInjective(q)
  BY <1>1, <1>3, ForgetFacts
<1> HIDE DEF q
<1>5. Fine(v) /\ v.kb = up.kb /\ v.tr = up.tr /\ v.panel = up.panel /\ v.queue = q
  BY <1>3, <1>4, QueueFine
<1> HIDE DEF v
<1>6. Ended(v.tr[f], w.tr[f])
  BY <1>2, <1>3, <1>5 DEF Ended, UpTypes, Swiped, Beside, Steady
<1>7. Shaken(v, w, f, R)
  <2>1. ASSUME NEW g \in Fingers, g # f
        PROVE  IF g \in R THEN Released(v.tr[g], w.tr[g]) ELSE Beside(v.tr[g], w.tr[g])
    <3>1. Beside(v.tr[g], r.tr[g])
      BY <1>3, <1>5, <2>1
    <3>2. IF g \in R THEN Released(r.tr[g], w.tr[g]) ELSE Beside(r.tr[g], w.tr[g])
      BY <1>1 DEF Flushed
    <3>3. QED
      BY <3>1, <3>2, OneAfterTheOther
  <2>2. (\A g \in Fingers : ~w.tr[g].panel) => v.panel = w.panel
    BY <1>1, <1>2, <1>3, <1>5 DEF Flushed, Beside, Steady
  <2>3. QED
    BY <1>5, <2>1, <2>2 DEF Shaken
<1>8. (\A g \in Fingers : w.tr[g].key # "SHIFT") => LockKept(v.kb, w.kb)
  BY <1>1, <1>2, <1>3, <1>5 DEF Flushed, Beside, Steady, LockKept
<1>9. /\ ToSet(v.queue) \subseteq ToSet(w.queue) \ {f}
      /\ IsInjective(w.queue) =>
           IsInjective(v.queue) /\ ToSet(v.queue) = (ToSet(w.queue) \ R) \ {f}
  BY <1>1, <1>4, <1>5
<1>10. UpHeard(v, w, f)
  BY <1>6, <1>7, <1>8, <1>9 DEF UpHeard, R
<1>11. QED
  BY <1>10 DEF v, q, up, r

LEMMA UpEffect ==
    ASSUME Fine(World), NEW f \in Fingers, NEW lift, NEW caps, Up(f, lift, caps)
    PROVE  /\ f \in touching /\ touching' = touching \ {f}
           /\ \/ Heard(f) /\ UpHeard(World', World, f)
              \/ ~Heard(f) /\ World' = World /\ UNCHANGED <<kb, tr, queue, panel>>
<1> DEFINE r == IF IsModifier(World.tr[f].key) THEN ReleaseAllExcept(World, f, lift, caps)
                ELSE ReleaseOlderThan(World, f, lift, caps)
           up == UpInternal(r, f, lift, caps)
           v == [up EXCEPT !.queue = Forget(@, f)]
<1>1. f \in touching /\ touching' = touching \ {f}
  BY DEF Up
<1>2. World.tr = tr
  BY DEF World
<1>3. IF Heard(f) THEN Becomes(v) ELSE UNCHANGED <<kb, tr, queue, panel>>
  BY <1>2 DEF Up
<1>4. UpHeard(v, World, f)
  BY UpHeardFine
<1> HIDE DEF v, up, r
<1>5. CASE Heard(f)
  <2>1. v \in Worlds
    BY <1>4 DEF UpHeard, Shaken, Fine
  <2>2. Becomes(v)
    BY <1>3, <1>5
  <2>3. World' = v
    BY <2>1, <2>2, Turned
  <2>4. QED
    BY <1>1, <1>4, <1>5, <2>3
<1>6. CASE ~Heard(f)
  <2>1. UNCHANGED <<kb, tr, queue, panel>>
    BY <1>3, <1>6
  <2>2. World' = World
    BY <2>1 DEF World
  <2>3. QED
    BY <1>1, <1>6, <2>1, <2>2
<1>7. QED
  BY <1>5, <1>6

\* A cancelled gesture that MainKeyboardView passes on empties the queue.
CancelHeard(v, w, f) ==
    /\ Shaken(v, w, f, ToSet(w.queue)) /\ ToSet(v.queue) = {}
    /\ IsInjective(w.queue) => IsInjective(v.queue)
    /\ ~v.tr[f].longPress /\ ~v.tr[f].repeat /\ ~v.tr[f].panel
    /\ \/ f \in ToSet(w.queue) /\ Released(v.tr[f], w.tr[f])
       \/ /\ v.tr[f].key = w.tr[f].key /\ v.tr[f].disabled = w.tr[f].disabled
          /\ v.tr[f].stale = w.tr[f].stale /\ v.tr[f].typed = w.tr[f].typed
          /\ f \notin ToSet(w.queue)
    /\ (\A g \in Fingers : w.tr[g].key # "SHIFT") => LockKept(v.kb, w.kb)

LEMMA CancelHeardFine ==
    ASSUME NEW w, Fine(w), NEW f \in Fingers, NEW lift, NEW caps
    PROVE  LET off == [w EXCEPT !.tr = [g \in Fingers |->
                         [w.tr[g] EXCEPT !.disabled =
                            @ \/ (Contains(w.queue, g) /\ ~w.tr[g].panel)]]]
               rel == ReleaseAllExcept(off, NoKey, lift, caps)
               self == [rel EXCEPT !.tr[f] = [@ EXCEPT !.longPress = FALSE, !.repeat = FALSE,
                                                       !.dragging = FALSE, !.sliding = FALSE]]
           IN  CancelHeard(DismissPanel(self, f), w, f)
<1> DEFINE b(g) == w.tr[g].disabled \/ (Contains(w.queue, g) /\ ~w.tr[g].panel)
           t == [g \in Fingers |-> [w.tr[g] EXCEPT !.disabled = b(g)]]
           off == [w EXCEPT !.tr = t]
           rel == ReleaseAllExcept(off, NoKey, lift, caps)
           u == [rel.tr[f] EXCEPT !.longPress = FALSE, !.repeat = FALSE,
                                  !.dragging = FALSE, !.sliding = FALSE]
           self == Put(rel, f, u)
           v == DismissPanel(self, f)
           Q == ToSet(w.queue)
<1>1. w \in Worlds /\ w.tr \in [Fingers -> Trackers] /\ w.queue \in Seq(Fingers)
  BY DEF Fine, Worlds
<1>2. \A g \in Fingers : Contains(w.queue, g) <=> g \in Q
  BY <1>1, Members DEF Contains
<1>3. ASSUME NEW g \in Fingers
      PROVE  /\ t[g] \in Trackers
             /\ t[g].key = w.tr[g].key /\ t[g].panel = w.tr[g].panel
             /\ t[g].stale = w.tr[g].stale /\ t[g].typed = w.tr[g].typed
             /\ t[g].longPress = w.tr[g].longPress /\ t[g].repeat = w.tr[g].repeat
             /\ t[g].announced = w.tr[g].announced
             /\ t[g].cursorMoved = w.tr[g].cursorMoved
             /\ w.tr[g].disabled => t[g].disabled
             /\ g \notin Q => t[g].disabled = w.tr[g].disabled
  <2> DEFINE a == w.tr[g]
             o == b(g)
             e == [a EXCEPT !.disabled = o]
  <2>1. t[g] = e
    OBVIOUS
  <2>2. a \in Trackers
    BY <1>1
  <2>3. o \in BOOLEAN /\ (a.disabled => o) /\ (g \notin Q => o = a.disabled)
    BY <1>2, <2>2 DEF Trackers
  <2> HIDE DEF a, o, b, t
  <2>4. /\ e \in Trackers /\ e.disabled = o
        /\ e.key = a.key /\ e.panel = a.panel /\ e.stale = a.stale /\ e.typed = a.typed
        /\ e.longPress = a.longPress /\ e.repeat = a.repeat /\ e.announced = a.announced
        /\ e.cursorMoved = a.cursorMoved
    BY <2>2, <2>3 DEF Trackers
  <2> HIDE DEF e
  <2>5. QED
    BY <2>1, <2>3, <2>4 DEF a
<1>4. t \in [Fingers -> Trackers]
  <2>1. t = [g \in Fingers |-> t[g]]
    OBVIOUS
  <2> HIDE DEF t
  <2>2. QED
    BY <1>3, <2>1
<1> HIDE DEF t, b
<1>5. /\ off \in Worlds /\ off.kb = w.kb /\ off.tr = t /\ off.queue = w.queue
      /\ off.panel = w.panel
  BY <1>1, <1>4 DEF Worlds
<1>6. Fine(off)
  BY <1>5 DEF Fine
<1> HIDE DEF off
<1>7. /\ Flushed(rel, off, Q) /\ rel.queue \in Seq(Fingers) /\ ToSet(rel.queue) = {}
      /\ IsInjective(w.queue) => IsInjective(rel.queue)
  <2>1. Flushed(rel, off, ToSet(off.queue) \ {NoKey}) /\ rel.queue = Only(off.queue, {NoKey})
    BY <1>6, ReleaseAllFine
  <2>2. Q \subseteq Fingers /\ NoKey \notin Fingers
    BY <1>1, TouchAssumption DEF ToSet
  <2>3. /\ Only(w.queue, {NoKey}) \in Seq(Fingers)
        /\ ToSet(Only(w.queue, {NoKey})) = Q \cap {NoKey}
        /\ IsInjective(w.queue) => IsInjective(Only(w.queue, {NoKey}))
    BY <1>1, OnlyFacts
  <2> HIDE DEF rel
  <2>4. ToSet(off.queue) \ {NoKey} = Q
    BY <1>5, <2>2
  <2> HIDE DEF Q
  <2>5. QED
    BY <1>5, <2>1, <2>2, <2>3, <2>4
<1> HIDE DEF rel, Q
<1>8. Fine(rel) /\ rel.tr[f] \in Trackers
  BY <1>7 DEF Flushed, Fine, Worlds
<1>9. /\ u \in Trackers /\ ~u.longPress /\ ~u.repeat /\ u.key = rel.tr[f].key
      /\ Lasting(u, rel.tr[f])
  BY <1>8 DEF Trackers, Lasting
<1> HIDE DEF u
<1>10. Own(self, rel, f) /\ self.tr[f] = u /\ self.kb = rel.kb /\ Fine(self)
  BY <1>8, <1>9, PutOwn DEF Own
<1> HIDE DEF self
<1>11. /\ Fine(v) /\ v.kb = self.kb /\ v.queue = self.queue
       /\ ~self.tr[f].panel => v = self
       /\ \A g \in Fingers : g # f => v.tr[g] = self.tr[g]
       /\ v.tr[f] = [self.tr[f] EXCEPT !.panel = FALSE]
  BY <1>10, DismissFine
<1> HIDE DEF v
<1>12. /\ v.tr[f].key = u.key /\ v.tr[f].disabled = u.disabled /\ v.tr[f].stale = u.stale
       /\ v.tr[f].typed = u.typed /\ ~v.tr[f].panel /\ ~v.tr[f].longPress /\ ~v.tr[f].repeat
  BY <1>9, <1>10, <1>11 DEF Trackers
<1>13. ASSUME NEW g \in Fingers
       PROVE  IF g \in Q THEN Released(rel.tr[g], w.tr[g]) ELSE Beside(rel.tr[g], w.tr[g])
  <2>1. IF g \in Q THEN Released(rel.tr[g], t[g]) ELSE Beside(rel.tr[g], t[g])
    BY <1>5, <1>7 DEF Flushed
  <2>2. CASE g \in Q
    BY <1>3, <2>1, <2>2 DEF Released, UpTypes, Swiped
  <2>3. CASE g \notin Q
    BY <1>3, <2>1, <2>3 DEF Beside, Steady
  <2>4. QED
    BY <2>2, <2>3
<1>14. Shaken(v, w, f, Q)
  <2>1. ASSUME NEW g \in Fingers, g # f
        PROVE  IF g \in Q THEN Released(v.tr[g], w.tr[g]) ELSE Beside(v.tr[g], w.tr[g])
    <3>1. Beside(v.tr[g], rel.tr[g])
      BY <1>10, <1>11, <2>1 DEF Own
    <3>2. QED
      BY <1>13, <3>1, OneAfterTheOther
  <2>2. ASSUME \A g \in Fingers : ~w.tr[g].panel PROVE v.panel = w.panel
    <3>1. \A g \in Fingers : ~t[g].panel
      BY <1>3, <2>2
    <3>2. rel.panel = w.panel
      BY <1>5, <1>7, <3>1 DEF Flushed
    <3>3. ~self.tr[f].panel
      BY <1>9, <1>10, <1>13, <2>2 DEF Lasting, Released, Beside, Steady
    <3>4. QED
      BY <1>10, <1>11, <3>2, <3>3 DEF Own
  <2>3. QED
    BY <1>11, <2>1, <2>2 DEF Shaken
<1>15. ASSUME \A g \in Fingers : w.tr[g].key # "SHIFT" PROVE LockKept(v.kb, w.kb)
  <2>1. \A g \in Fingers : t[g].key # "SHIFT"
    BY <1>3, <1>15
  <2>2. QED
    BY <1>5, <1>7, <1>10, <1>11, <2>1 DEF Flushed
<1>16. \/ f \in Q /\ Released(v.tr[f], w.tr[f])
       \/ /\ v.tr[f].key = w.tr[f].key /\ v.tr[f].disabled = w.tr[f].disabled
          /\ v.tr[f].stale = w.tr[f].stale /\ v.tr[f].typed = w.tr[f].typed
          /\ f \notin Q
  <2>1. CASE f \in Q
    BY <1>9, <1>12, <1>13, <2>1 DEF Released, Lasting
  <2>2. CASE f \notin Q
    BY <1>9, <1>12, <1>13, <2>2 DEF Beside, Steady, Lasting
  <2>3. QED
    BY <2>1, <2>2
<1>17. ToSet(v.queue) = {} /\ (IsInjective(w.queue) => IsInjective(v.queue))
  BY <1>7, <1>10, <1>11 DEF Own
<1>18. CancelHeard(v, w, f)
  BY <1>12, <1>14, <1>15, <1>16, <1>17 DEF CancelHeard, Q
<1>19. QED
  BY <1>18 DEF v, self, u, rel, off, t, b, Put

LEMMA CancelEffect ==
    ASSUME Fine(World), NEW f \in Fingers, NEW lift, NEW caps, Cancel(f, lift, caps)
    PROVE  /\ f \in touching /\ touching' = {}
           /\ \/ Heard(f) /\ CancelHeard(World', World, f)
              \/ ~Heard(f) /\ World' = World /\ UNCHANGED <<kb, tr, queue, panel>>
<1> DEFINE off == [World EXCEPT !.tr = [g \in Fingers |->
                     [World.tr[g] EXCEPT !.disabled =
                        @ \/ (Contains(World.queue, g) /\ ~World.tr[g].panel)]]]
           rel == ReleaseAllExcept(off, NoKey, lift, caps)
           self == [rel EXCEPT !.tr[f] = [@ EXCEPT !.longPress = FALSE, !.repeat = FALSE,
                                                   !.dragging = FALSE, !.sliding = FALSE]]
           v == DismissPanel(self, f)
<1>1. f \in touching /\ touching' = {}
  BY DEF Cancel
<1>2. World.tr = tr /\ World.queue = queue
  BY DEF World
<1>3. off = [World EXCEPT !.tr = [g \in Fingers |->
               [tr[g] EXCEPT !.disabled = @ \/ (Contains(queue, g) /\ ~tr[g].panel)]]]
  BY <1>2
<1>4. IF Heard(f) THEN Becomes(v) ELSE UNCHANGED <<kb, tr, queue, panel>>
  <2> HIDE DEF off
  <2>1. QED
    BY <1>3, ZenonT(20) DEF Cancel
<1>5. CancelHeard(v, World, f)
  BY CancelHeardFine, Zenon
<1> HIDE DEF v, self, rel, off
<1>6. CASE Heard(f)
  <2>1. v \in Worlds
    BY <1>5 DEF CancelHeard, Shaken, Fine
  <2>2. Becomes(v)
    BY <1>4, <1>6
  <2>3. World' = v
    BY <2>1, <2>2, Turned
  <2>4. QED
    BY <1>1, <1>5, <1>6, <2>3
<1>7. CASE ~Heard(f)
  <2>1. UNCHANGED <<kb, tr, queue, panel>>
    BY <1>4, <1>7
  <2>2. World' = World
    BY <2>1 DEF World
  <2>3. QED
    BY <1>1, <1>7, <2>1, <2>2
<1>8. QED
  BY <1>6, <1>7

-----------------------------------------------------------------------------
(***************************************************************************)
(* Every step keeps the world well-formed.                                 *)
(***************************************************************************)

TypeInv == Fine(World) /\ touching \subseteq Fingers

LEMMA TypeInvInit == TouchInit => TypeInv
<1> SUFFICES ASSUME TouchInit PROVE TypeInv
  OBVIOUS
<1> DEFINE no == FALSE
           n == NewKeyboardState
           l == LoadKeyboard(n, "OFF", "NONE")
           k == [l EXCEPT !.displayed = no]
<1>1. Plain(n)
  BY DEF Plain, NewKeyboardState, KeyboardStates,
         AlphabetShiftStates, ShiftKeyStates, ModifierKeyStates, SavedStates, ShiftModes,
         SwitchStates
<1>2. Board(l)
  <2> HIDE DEF n
  <2>1. QED
    BY <1>1, LoadBoard
<1>3. no \in BOOLEAN
  OBVIOUS
<1> HIDE DEF no, l, n
<1>4. Board(k)
  BY <1>2, <1>3, ShownBoard
<1>5. kb = k
  BY DEF TouchInit, k, l, n, no
<1> HIDE DEF k
<1>6. NewTracker \in Trackers
  BY DEF NewTracker, Trackers, Typed
<1>7. tr \in [Fingers -> Trackers]
  BY <1>6 DEF TouchInit
<1>8. queue \in Seq(Fingers) /\ panel \in Panels /\ touching = {}
  BY DEF TouchInit, Panels
<1>9. kb \in KeyboardStates
  BY <1>4, <1>5 DEF Board, Good, Plain
<1>10. QED
  BY <1>4, <1>5, <1>7, <1>8, <1>9 DEF TypeInv, Fine, World, Worlds

LEMMA TypeInvNext == TypeInv /\ [TouchNext]_touchVars => TypeInv'
<1> SUFFICES ASSUME TypeInv, [TouchNext]_touchVars PROVE TypeInv'
  OBVIOUS
<1>1. Fine(World) /\ touching \subseteq Fingers
  BY DEF TypeInv
<1>2. ASSUME Fine(World'), touching' \subseteq Fingers PROVE TypeInv'
  BY <1>2 DEF TypeInv
<1>3. ASSUME Calm(World', World), touching' = touching PROVE TypeInv'
  BY <1>1, <1>2, <1>3 DEF Calm
<1>4. CASE UNCHANGED touchVars
  <2>1. World' = World /\ touching' = touching
    BY <1>4 DEF touchVars, World
  <2>2. QED
    BY <1>1, <1>2, <2>1
<1>5. CASE ShiftTapTimeout
  BY <1>1, <1>3, <1>5, TapTimeoutEffect
<1>6. ASSUME NEW f \in Fingers, LeavePanel(f) PROVE TypeInv'
  BY <1>1, <1>2, <1>6, LeavePanelEffect
<1>7. ASSUME NEW caps \in AutoCaps, EditorUpdate(caps) PROVE TypeInv'
  BY <1>1, <1>3, <1>7, EditorUpdateEffect
<1>8. ASSUME NEW caps \in AutoCaps, NewField(caps) PROVE TypeInv'
  BY <1>1, <1>2, <1>8, NewFieldEffect
<1>9. ASSUME NEW caps \in AutoCaps, Restart(caps) PROVE TypeInv'
  BY <1>1, <1>3, <1>9, RestartEffect
<1>10. ASSUME NEW f \in Fingers, NEW key \in Keys \cup {NoKey}, NEW lift \in Lifts,
              NEW caps \in AutoCaps, Down(f, key, lift, caps)
       PROVE  TypeInv'
  <2>1. Fine(World') /\ touching' = touching \cup {f}
    BY <1>1, <1>10, DownEffect DEF DownHeard, Shaken
  <2>2. QED
    BY <1>1, <1>2, <2>1
<1>11. ASSUME NEW f \in Fingers, NEW key \in Keys \cup {NoKey}, NEW caps \in AutoCaps,
              Move(f, key, caps)
       PROVE  TypeInv'
  <2>1. Own(World', World, f) /\ touching' = touching
    BY <1>1, <1>11, MoveEffect
  <2>2. QED
    BY <1>1, <1>2, <2>1 DEF Own
<1>12. ASSUME NEW f \in Fingers, NEW lift \in Lifts, NEW caps \in AutoCaps, Up(f, lift, caps)
       PROVE  TypeInv'
  <2>1. Fine(World') /\ touching' = touching \ {f}
    BY <1>1, <1>12, UpEffect DEF UpHeard, Shaken
  <2>2. QED
    BY <1>1, <1>2, <2>1
<1>13. ASSUME NEW f \in Fingers, NEW b \in BOOLEAN, NEW caps \in AutoCaps,
              MoveCursor(f, b, caps)
       PROVE  TypeInv'
  BY <1>1, <1>2, <1>13, MoveCursorEffect DEF Erased
<1>14. ASSUME NEW f \in Fingers, NEW lift \in Lifts, NEW caps \in AutoCaps,
              Cancel(f, lift, caps)
       PROVE  TypeInv'
  <2>1. Fine(World') /\ touching' = {}
    BY <1>1, <1>14, CancelEffect DEF CancelHeard, Shaken
  <2>2. QED
    BY <1>2, <2>1
<1>15. ASSUME NEW f \in Fingers, NEW b \in BOOLEAN, NEW caps \in AutoCaps,
              LongPress(f, b, caps)
       PROVE  TypeInv'
  <2>1. Fine(World') /\ touching' = touching
    BY <1>1, <1>15, LongPressEffect
  <2>2. QED
    BY <1>1, <1>2, <2>1
<1>16. ASSUME NEW f \in Fingers, NEW b \in BOOLEAN, NEW caps \in AutoCaps, Repeat(f, b, caps)
       PROVE  TypeInv'
  BY <1>1, <1>2, <1>16, RepeatEffect DEF Erased
<1> HIDE DEF TypeInv
<1>17. QED
  BY <1>4, <1>5, <1>6, <1>7, <1>8, <1>9, <1>10, <1>11, <1>12, <1>13, <1>14, <1>15, <1>16
     DEF TouchNext

LEMMA AlwaysFine == TouchSpec => []TypeInv
BY TypeInvInit, TypeInvNext, PTL DEF TouchSpec

\* Every motion event, message and call from the editor keeps the trackers, the
\* queue, the panel and KeyboardState in their domains, whatever fingers, keys
\* and events there are.
THEOREM TouchTypeCorrect == TouchSpec => []TouchTypeOK
<1>1. TypeInv => TouchTypeOK
  BY DEF TypeInv, TouchTypeOK, TypeOK, Fine, World, Worlds, Panels
<1>2. QED
  BY <1>1, AlwaysFine, PTL

-----------------------------------------------------------------------------
(***************************************************************************)
(* Caps lock is left alone by every finger that is not on shift.           *)
(***************************************************************************)

LEMMA LockStep ==
    ASSUME TypeInv, [TouchNext]_touchVars,
           \A g \in Fingers : tr[g].key # "SHIFT" /\ tr'[g].key # "SHIFT",
           \A caps \in AutoCaps : ~NewField(caps)
    PROVE  LockKept(kb', kb)
<1>1. Fine(World) /\ World.kb = kb /\ World'.kb = kb' /\ World.tr = tr /\ World'.tr = tr'
  BY DEF TypeInv, World
<1>2. ASSUME Calm(World', World) PROVE LockKept(kb', kb)
  BY <1>1, <1>2 DEF Calm
<1>3. ASSUME kb' = kb PROVE LockKept(kb', kb)
  BY <1>3 DEF LockKept
<1>4. CASE UNCHANGED touchVars
  BY <1>3, <1>4 DEF touchVars
<1>5. CASE ShiftTapTimeout
  BY <1>1, <1>2, <1>5, TapTimeoutEffect
<1>6. ASSUME NEW f \in Fingers, LeavePanel(f) PROVE LockKept(kb', kb)
  BY <1>1, <1>3, <1>6, LeavePanelEffect
<1>7. ASSUME NEW caps \in AutoCaps, EditorUpdate(caps) PROVE LockKept(kb', kb)
  BY <1>1, <1>2, <1>7, EditorUpdateEffect
<1>9. ASSUME NEW caps \in AutoCaps, Restart(caps) PROVE LockKept(kb', kb)
  BY <1>1, <1>2, <1>9, RestartEffect
<1>10. ASSUME NEW f \in Fingers, NEW key \in Keys \cup {NoKey}, NEW lift \in Lifts,
              NEW caps \in AutoCaps, Down(f, key, lift, caps)
       PROVE  LockKept(kb', kb)
  <2>1. DownHeard(World', World, f, key) \/ kb' = kb
    BY <1>1, <1>10, DownEffect
  <2>2. ASSUME DownHeard(World', World, f, key) PROVE LockKept(kb', kb)
    <3>1. tr'[f].key = key
      BY <1>1, <2>2 DEF DownHeard
    <3>2. key # "SHIFT" /\ (\A g \in Fingers : World.tr[g].key # "SHIFT")
            => LockKept(World'.kb, World.kb)
      BY <2>2 DEF DownHeard
    <3>3. QED
      BY <1>1, <3>1, <3>2
  <2>3. QED
    BY <1>3, <2>1, <2>2
<1>11. ASSUME NEW f \in Fingers, NEW key \in Keys \cup {NoKey}, NEW caps \in AutoCaps,
              Move(f, key, caps)
       PROVE  LockKept(kb', kb)
  <2>1. tr'[f].key = key /\ ("SHIFT" \notin {tr[f].key, key} => LockKept(kb', kb))
    BY <1>1, <1>11, MoveEffect
  <2>2. QED
    BY <2>1
<1>12. ASSUME NEW f \in Fingers, NEW lift \in Lifts, NEW caps \in AutoCaps, Up(f, lift, caps)
       PROVE  LockKept(kb', kb)
  <2>1. UpHeard(World', World, f) \/ kb' = kb
    BY <1>1, <1>12, UpEffect
  <2>2. QED
    BY <1>1, <1>3, <2>1 DEF UpHeard
<1>13. ASSUME NEW f \in Fingers, NEW b \in BOOLEAN, NEW caps \in AutoCaps,
              MoveCursor(f, b, caps)
       PROVE  LockKept(kb', kb)
  BY <1>1, <1>13, MoveCursorEffect DEF Erased
<1>14. ASSUME NEW f \in Fingers, NEW lift \in Lifts, NEW caps \in AutoCaps,
              Cancel(f, lift, caps)
       PROVE  LockKept(kb', kb)
  <2>1. CancelHeard(World', World, f) \/ kb' = kb
    BY <1>1, <1>14, CancelEffect
  <2>2. QED
    BY <1>1, <1>3, <2>1 DEF CancelHeard
<1>15. ASSUME NEW f \in Fingers, NEW b \in BOOLEAN, NEW caps \in AutoCaps,
              LongPress(f, b, caps)
       PROVE  LockKept(kb', kb)
  <2>1. tr[f].key # "SHIFT" => LockKept(kb', kb)
    BY <1>1, <1>15, LongPressEffect
  <2>2. QED
    BY <2>1
<1>16. ASSUME NEW f \in Fingers, NEW b \in BOOLEAN, NEW caps \in AutoCaps, Repeat(f, b, caps)
       PROVE  LockKept(kb', kb)
  BY <1>1, <1>16, RepeatEffect DEF Erased
<1>17. QED
  BY <1>4, <1>5, <1>6, <1>7, <1>9, <1>10, <1>11, <1>12, <1>13, <1>14, <1>15, <1>16
     DEF TouchNext

\* Caps lock turns over only while a finger is on the shift key or the text
\* field changes: no slide, chord, phantom up event, long press, key repeat or
\* update of the editor does it, with any number of fingers, keys and panels.
THEOREM LockTurnsUnderShift == TouchSpec => LockTurnsUnderShiftOnly
<1> DEFINE UnderShift == (CapsLocked /= CapsLocked' /\ kb.saved = kb'.saved) =>
                      \/ \E f \in Fingers : "SHIFT" \in {tr[f].key, tr'[f].key}
                      \/ \E caps \in AutoCaps : NewField(caps)
<1>1. TypeInv /\ TypeInv' /\ [TouchNext]_touchVars => [UnderShift]_touchVars
  <2> SUFFICES ASSUME TypeInv, TypeInv', [TouchNext]_touchVars, CapsLocked /= CapsLocked',
                      \A f \in Fingers : "SHIFT" \notin {tr[f].key, tr'[f].key},
                      \A caps \in AutoCaps : ~NewField(caps)
               PROVE  FALSE
    OBVIOUS
  <2>1. LockKept(kb', kb)
    BY LockStep
  <2>2. CapsLocked = Lock(kb) /\ CapsLocked' = Lock(kb')
    BY DEF CapsLocked, Lock
  <2>3. kb \in KeyboardStates /\ kb' \in KeyboardStates
    BY DEF TypeInv, Fine, Worlds, World
  <2>4. \A k \in KeyboardStates : Lock(k) \in BOOLEAN
    <3>1. ASSUME NEW k \in KeyboardStates PROVE Lock(k) \in BOOLEAN
      <4>1. k.prevMainShiftLocked \in BOOLEAN /\ IsShiftLocked(k.alphabetShift) \in BOOLEAN
        BY DEF KeyboardStates, IsShiftLocked
      <4>2. QED
        BY <4>1 DEF Lock
    <3>2. QED
      BY <3>1
  <2>5. QED
    BY <2>1, <2>2, <2>3, <2>4 DEF LockKept
<1>2. QED
  BY <1>1, AlwaysFine, PTL DEF TouchSpec, LockTurnsUnderShiftOnly

-----------------------------------------------------------------------------
(***************************************************************************)
(* A touch types once.                                                     *)
(***************************************************************************)

Gone(w, T, f) == f \notin T /\ f \notin ToSet(w.queue)

\* A finger that has typed its key or its selection is on no key, follows no panel,
\* and is cancelled unless it has left the glass and the queue for good.
Spent(w, T, f) ==
    LET t == w.tr[f]
    IN  /\ t.typed \in {"KEY", "SELECTION", "KEY_TOO"}
        /\ ~t.panel /\ t.key = NoKey /\ (t.disabled \/ Gone(w, T, f))

\* A finger never swipes and follows a panel, and types no more once it is spent.
Single(w, T, f) ==
    /\ ~(w.tr[f].panel /\ w.tr[f].cursorMoved)
    /\ w.tr[f].typed \in {"NOTHING", "DELETIONS"} \/ Spent(w, T, f)

OnceInv == \A f \in Fingers : Single(World, touching, f)

\* What typing makes of a touch that has typed no key yet.
LEMMA TypingFresh ==
    ASSUME NEW before \in {"NOTHING", "DELETIONS"}
    PROVE  /\ Typing(before, "KEY") \in {"KEY", "KEY_TOO"}
           /\ Typing(before, "SELECTION") = "SELECTION"
           /\ Typing(before, "DELETIONS") = "DELETIONS"
BY DEF Typing

\* A finger that others leave alone stays as it is.
LEMMA BesideOnce ==
    ASSUME NEW v, NEW w, NEW S, NEW T, NEW f, Beside(v.tr[f], w.tr[f]),
           Single(w, T, f), Gone(w, T, f) => Gone(v, S, f)
    PROVE  Single(v, S, f)
BY DEF Beside, Steady, Single, Spent

\* What an up event types, and it types nothing for a finger that is spent.
LEMMA UpTypesOnce ==
    ASSUME NEW w, NEW T, NEW f, Single(w, T, f), f \in T \/ f \in ToSet(w.queue),
           NEW n, UpTypes(n, w.tr[f])
    PROVE  \/ n = w.tr[f].typed
           \/ /\ w.tr[f].typed \in {"NOTHING", "DELETIONS"}
              /\ n \in {"KEY", "SELECTION", "KEY_TOO"}
              /\ ~w.tr[f].disabled \/ (Swiped(w.tr[f]) /\ n = "SELECTION")
<1> DEFINE t == w.tr[f]
<1>1. /\ ~(t.panel /\ t.cursorMoved)
      /\ \/ t.typed \in {"NOTHING", "DELETIONS"}
         \/ t.key = NoKey /\ t.disabled
  BY DEF Single, Spent, Gone
<1>2. NoKey # "DELETE"
  BY TouchAssumption DEF KeyNames
<1>3. CASE t.typed \in {"NOTHING", "DELETIONS"}
  BY <1>1, <1>3, TypingFresh DEF UpTypes, Swiped
<1>4. CASE t.key = NoKey /\ t.disabled
  BY <1>2, <1>4 DEF UpTypes, Swiped
<1>5. QED
  BY <1>1, <1>3, <1>4

\* A finger in the queue that is released types, but not again.
LEMMA ReleasedOnce ==
    ASSUME NEW v, NEW w, NEW S, NEW T, NEW f, Released(v.tr[f], w.tr[f]),
           Single(w, T, f), f \in ToSet(w.queue)
    PROVE  Single(v, S, f)
<1>1. UpTypes(v.tr[f].typed, w.tr[f])
  BY DEF Released
<1>2. v.tr[f].typed \in {"NOTHING", "DELETIONS", "KEY", "SELECTION", "KEY_TOO"}
  BY <1>1, UpTypesOnce DEF Single, Spent
<1>3. QED
  BY <1>2 DEF Released, Single, Spent

\* So does a finger that is lifted.
LEMMA EndedOnce ==
    ASSUME NEW v, NEW w, NEW S, NEW T, NEW f, Ended(v.tr[f], w.tr[f]),
           Single(w, T, f), f \in T, Gone(v, S, f)
    PROVE  Single(v, S, f)
<1>1. UpTypes(v.tr[f].typed, w.tr[f])
  BY DEF Ended
<1>2. v.tr[f].typed \in {"NOTHING", "DELETIONS", "KEY", "SELECTION", "KEY_TOO"}
  BY <1>1, UpTypesOnce DEF Single, Spent
<1>3. QED
  BY <1>2 DEF Ended, Single, Spent

LEMMA UpReleasesQueued ==
    ASSUME NEW w, Fine(w), NEW f \in Fingers
    PROVE  UpReleases(w, f) \subseteq ToSet(w.queue) \ {f}
<1> DEFINE q == w.queue
           o == OlderThan(q, f)
<1>1. q \in Seq(Fingers) /\ Len(q) \in Nat
  BY DEF Fine, Worlds
<1>2. PICK n \in 0..Len(q) : /\ o \in Seq(Fingers) /\ Len(o) = n
                             /\ \A i \in 1..n : o[i] = q[i] /\ q[i] # f
  BY <1>1, OlderFacts
<1> HIDE DEF o, q
<1>3. \A e : e \in ToSet(o) <=> \E i \in 1..n : e = o[i]
  <2>1. o \in Seq(Fingers) /\ Len(o) = n
    BY <1>2
  <2>2. QED
    BY <2>1, Members
<1>4. \A e : e \in ToSet(q) <=> \E i \in 1..Len(q) : e = q[i]
  BY <1>1, Members
<1>5. \A i \in 1..n : i \in 1..Len(q)
  BY <1>1, <1>2
<1>6. ToSet(o) \subseteq ToSet(q) \ {f}
  BY <1>2, <1>3, <1>4, <1>5
<1>7. Outrun(w, f) \subseteq ToSet(o)
  BY DEF Outrun, o, q
<1>8. QED
  BY <1>6, <1>7 DEF UpReleases, q

LEMMA OnceInit == TouchInit => OnceInv
BY DEF TouchInit, OnceInv, Single, World, NewTracker

LEMMA OnceNext == TypeInv /\ OnceInv /\ [TouchNext]_touchVars => OnceInv'
<1> SUFFICES ASSUME TypeInv, OnceInv, [TouchNext]_touchVars PROVE OnceInv'
  OBVIOUS
<1> DEFINE Old(f) == Single(World, touching, f)
           New(f) == Single(World', touching', f)
<1>1. /\ Fine(World) /\ World.queue = queue /\ World'.queue = queue'
      /\ World.tr = tr /\ World'.tr = tr'
  BY DEF TypeInv, World
<1>2. \A f \in Fingers : Old(f)
  BY DEF OnceInv
<1>3. (\A f \in Fingers : New(f)) => OnceInv'
  BY DEF OnceInv
<1> HIDE DEF New, Old
<1>4. SUFFICES \A f \in Fingers : New(f)
  BY <1>3
\* One finger.
<1>5. ASSUME NEW f \in Fingers, Beside(tr'[f], tr[f]),
             Gone(World, touching, f) => Gone(World', touching', f)
      PROVE  New(f)
  BY <1>1, <1>2, <1>5, BesideOnce DEF New, Old
<1>6. ASSUME NEW f \in Fingers, Released(tr'[f], tr[f]), f \in ToSet(queue)
      PROVE  New(f)
  BY <1>1, <1>2, <1>6, ReleasedOnce DEF New, Old
<1>7. ASSUME NEW f \in Fingers, Ended(tr'[f], tr[f]), f \in touching,
             Gone(World', touching', f)
      PROVE  New(f)
  BY <1>1, <1>2, <1>7, EndedOnce DEF New, Old
\* The key is the same, and the finger can do no more than before.
<1>8. ASSUME NEW f \in Fingers, tr'[f].typed = tr[f].typed, tr'[f].key = tr[f].key,
             tr[f].disabled => tr'[f].disabled,
             ~tr'[f].panel \/ (tr[f].panel /\ (tr'[f].cursorMoved => tr[f].cursorMoved)),
             Gone(World, touching, f) => Gone(World', touching', f)
      PROVE  New(f)
  BY <1>1, <1>2, <1>8 DEF New, Old, Single, Spent
<1>9. ASSUME Calm(World', World), touching' = touching PROVE \A f \in Fingers : New(f)
  BY <1>1, <1>5, <1>9 DEF Calm, Gone
<1>10. CASE UNCHANGED touchVars
  <2>1. World' = World /\ touching' = touching
    BY <1>10 DEF touchVars, World
  <2>2. QED
    BY <1>1, <1>2, <2>1 DEF New, Old
<1>11. CASE ShiftTapTimeout
  BY <1>1, <1>9, <1>11, TapTimeoutEffect
<1>12. ASSUME NEW f \in Fingers, LeavePanel(f) PROVE \A g \in Fingers : New(g)
  <2>1. /\ queue' = queue /\ touching' = touching
        /\ \A g \in Fingers : tr'[g] = [tr[g] EXCEPT !.panel = FALSE]
    BY <1>1, <1>12, LeavePanelEffect
  <2>2. \A g \in Fingers : tr[g] \in Trackers
    BY <1>1 DEF Fine, Worlds
  <2>3. \A g \in Fingers : /\ tr'[g].typed = tr[g].typed /\ tr'[g].key = tr[g].key
                           /\ tr'[g].disabled = tr[g].disabled /\ ~tr'[g].panel
    BY <2>1, <2>2 DEF Trackers
  <2>4. QED
    BY <1>1, <1>8, <2>1, <2>3 DEF Gone
<1>13. ASSUME NEW caps \in AutoCaps, EditorUpdate(caps) PROVE \A g \in Fingers : New(g)
  BY <1>1, <1>9, <1>13, EditorUpdateEffect
<1>14. ASSUME NEW caps \in AutoCaps, NewField(caps) PROVE \A g \in Fingers : New(g)
  <2>1. /\ queue' = queue /\ touching' = touching
        /\ \A g \in Fingers : /\ tr'[g].key = tr[g].key /\ tr'[g].typed = tr[g].typed
                              /\ ~tr'[g].panel
                              /\ tr[g].disabled => tr'[g].disabled
    BY <1>1, <1>14, NewFieldEffect
  <2>2. QED
    BY <1>1, <1>8, <2>1 DEF Gone
<1>15. ASSUME NEW caps \in AutoCaps, Restart(caps) PROVE \A g \in Fingers : New(g)
  BY <1>1, <1>9, <1>15, RestartEffect
\* The fingers other than f, when those of R are released.
<1>16. ASSUME NEW f \in Fingers, NEW R, R \subseteq ToSet(queue),
              Shaken(World', World, f, R),
              touching' \subseteq touching \cup {f}, ToSet(queue') \subseteq ToSet(queue) \cup {f}
       PROVE  \A g \in Fingers : g # f => New(g)
  <2> SUFFICES ASSUME NEW g \in Fingers, g # f PROVE New(g)
    OBVIOUS
  <2>1. Gone(World, touching, g) => Gone(World', touching', g)
    BY <1>1, <1>16 DEF Gone
  <2>2. IF g \in R THEN Released(tr'[g], tr[g]) ELSE Beside(tr'[g], tr[g])
    BY <1>1, <1>16 DEF Shaken
  <2>3. QED
    BY <1>5, <1>6, <1>16, <2>1, <2>2
<1>17. ASSUME NEW f \in Fingers, NEW key \in Keys \cup {NoKey}, NEW lift \in Lifts,
              NEW caps \in AutoCaps, Down(f, key, lift, caps)
       PROVE  \A g \in Fingers : New(g)
  <2>1. touching' = touching \cup {f}
    BY <1>1, <1>17, DownEffect
  <2>2. \E R : /\ R \subseteq ToSet(queue) /\ Shaken(World', World, f, R)
               /\ ToSet(queue') \subseteq ToSet(queue) \cup {f} /\ tr'[f].typed = "NOTHING"
               /\ tr'[f].panel => tr[f].panel /\ (tr'[f].cursorMoved => tr[f].cursorMoved)
    <3>1. CASE DownHeard(World', World, f, key)
      BY <1>1, <3>1 DEF DownHeard
    <3>2. CASE /\ Shaken(World', World, f, {}) /\ queue' = queue /\ tr'[f].typed = "NOTHING"
               /\ tr'[f].panel = tr[f].panel /\ tr'[f].cursorMoved = tr[f].cursorMoved
      BY <3>2
    <3>3. QED
      BY <1>1, <1>17, <3>1, <3>2, DownEffect
  <2>3. New(f)
    BY <1>1, <1>2, <2>2 DEF New, Old, Single
  <2>4. \A g \in Fingers : g # f => New(g)
    BY <1>16, <2>1, <2>2
  <2>5. QED
    BY <2>3, <2>4
<1>18. ASSUME NEW f \in Fingers, NEW key \in Keys \cup {NoKey}, NEW caps \in AutoCaps,
              Move(f, key, caps)
       PROVE  \A g \in Fingers : New(g)
  <2>1. /\ f \in touching /\ ~tr[f].disabled /\ touching' = touching
        /\ Own(World', World, f) /\ Lasting(tr'[f], tr[f])
    BY <1>1, <1>18, MoveEffect
  <2>2. tr[f].typed \in {"NOTHING", "DELETIONS"}
    BY <1>1, <1>2, <2>1 DEF Old, Single, Spent, Gone
  <2>3. New(f)
    BY <1>1, <1>2, <2>1, <2>2 DEF New, Old, Single, Lasting
  <2>4. \A g \in Fingers : g # f => New(g)
    BY <1>1, <1>5, <2>1 DEF Own, Gone
  <2>5. QED
    BY <2>3, <2>4
<1>19. ASSUME NEW f \in Fingers, NEW lift \in Lifts, NEW caps \in AutoCaps, Up(f, lift, caps)
       PROVE  \A g \in Fingers : New(g)
  <2>1. f \in touching /\ touching' = touching \ {f}
    BY <1>1, <1>19, UpEffect
  <2>2. CASE UpHeard(World', World, f)
    <3>1. UpReleases(World, f) \subseteq ToSet(queue)
      BY <1>1, UpReleasesQueued
    <3>2. /\ Shaken(World', World, f, UpReleases(World, f)) /\ Ended(tr'[f], tr[f])
          /\ ToSet(queue') \subseteq ToSet(queue) \ {f}
      BY <1>1, <2>2 DEF UpHeard
    <3>3. New(f)
      BY <1>1, <1>7, <2>1, <3>2 DEF Gone
    <3>4. \A g \in Fingers : g # f => New(g)
      BY <1>16, <2>1, <3>1, <3>2
    <3>5. QED
      BY <3>3, <3>4
  <2>3. CASE World' = World
    BY <1>1, <1>2, <2>1, <2>3 DEF New, Old, Single, Spent, Gone
  <2>4. QED
    BY <1>1, <1>19, <2>2, <2>3, UpEffect
<1>20. ASSUME NEW f \in Fingers, NEW b \in BOOLEAN, NEW caps \in AutoCaps,
              MoveCursor(f, b, caps)
       PROVE  \A g \in Fingers : New(g)
  <2>1. /\ Erased(World', World, f) /\ touching' = touching
        /\ f \in touching /\ ~tr[f].disabled /\ ~tr[f].panel
    BY <1>1, <1>20, MoveCursorEffect
  <2>2. tr[f].typed \in {"NOTHING", "DELETIONS"}
    BY <1>1, <1>2, <2>1 DEF Old, Single, Spent, Gone
  <2>3. tr'[f].typed \in {"NOTHING", "DELETIONS"} /\ ~tr'[f].panel
    BY <1>1, <2>1, <2>2, TypingFresh DEF Erased, Deletes
  <2>4. New(f)
    BY <1>1, <2>3 DEF New, Single
  <2>5. \A g \in Fingers : g # f => New(g)
    BY <1>1, <1>5, <2>1 DEF Erased, Gone
  <2>6. QED
    BY <2>4, <2>5
<1>21. ASSUME NEW f \in Fingers, NEW lift \in Lifts, NEW caps \in AutoCaps,
              Cancel(f, lift, caps)
       PROVE  \A g \in Fingers : New(g)
  <2>1. touching' = {}
    BY <1>1, <1>21, CancelEffect
  <2>2. CASE CancelHeard(World', World, f)
    <3>1. Shaken(World', World, f, ToSet(queue)) /\ ToSet(queue') = {}
      BY <1>1, <2>2 DEF CancelHeard
    <3>2. New(f)
      <4>1. CASE f \in ToSet(queue) /\ Released(tr'[f], tr[f])
        BY <1>6, <4>1
      <4>2. CASE /\ tr'[f].key = tr[f].key /\ tr'[f].disabled = tr[f].disabled
                 /\ tr'[f].typed = tr[f].typed
        <5>1. ~tr'[f].panel
          BY <1>1, <2>2 DEF CancelHeard
        <5>2. QED
          BY <1>1, <1>8, <2>1, <3>1, <4>2, <5>1 DEF Gone
      <4>3. QED
        BY <1>1, <2>2, <4>1, <4>2 DEF CancelHeard
    <3>3. \A g \in Fingers : g # f => New(g)
      BY <1>16, <2>1, <3>1
    <3>4. QED
      BY <3>2, <3>3
  <2>3. CASE World' = World
    BY <1>1, <1>2, <2>1, <2>3 DEF New, Old, Single, Spent, Gone
  <2>4. QED
    BY <1>1, <1>21, <2>2, <2>3, CancelEffect
<1>22. ASSUME NEW f \in Fingers, NEW b \in BOOLEAN, NEW caps \in AutoCaps,
              LongPress(f, b, caps)
       PROVE  \A g \in Fingers : New(g)
  <2>1. /\ touching' = touching
        /\ \A g \in Fingers : g # f => Beside(tr'[g], tr[g])
        /\ tr'[f].key = tr[f].key /\ tr'[f].typed = tr[f].typed
        /\ \/ queue' = queue /\ panel' = panel /\ Beside(tr'[f], tr[f])
           \/ tr[f].key = "LETTER" /\ ~tr'[f].cursorMoved /\ tr'[f].panel /\ queue' = queue
           \/ /\ queue' = Forget(queue, f) /\ panel' = panel
              /\ tr'[f].disabled /\ ~tr[f].panel /\ ~tr'[f].panel
    BY <1>1, <1>22, LongPressEffect
  <2>2. queue \in Seq(Fingers)
    BY <1>1 DEF Fine, Worlds
  <2>3. ToSet(queue') \subseteq ToSet(queue)
    BY <2>1, <2>2, ForgetFacts
  <2>4. \A g \in Fingers : Gone(World, touching, g) => Gone(World', touching', g)
    BY <1>1, <2>1, <2>3 DEF Gone
  <2>5. \A g \in Fingers : g # f => New(g)
    BY <1>5, <2>1, <2>4
  <2>6. New(f)
    <3>1. CASE Beside(tr'[f], tr[f])
      BY <1>5, <2>4, <3>1
    <3>2. CASE tr[f].key = "LETTER" /\ ~tr'[f].cursorMoved
      <4>1. tr[f].key # NoKey
        BY <3>2, TouchAssumption DEF KeyNames
      <4>2. tr[f].typed \in {"NOTHING", "DELETIONS"}
        BY <1>1, <1>2, <4>1 DEF Old, Single, Spent
      <4>3. QED
        BY <1>1, <2>1, <3>2, <4>2 DEF New, Single
    <3>3. CASE tr'[f].disabled /\ ~tr'[f].panel
      BY <1>8, <2>1, <2>4, <3>3
    <3>4. QED
      BY <2>1, <3>1, <3>2, <3>3
  <2>7. QED
    BY <2>5, <2>6
<1>23. ASSUME NEW f \in Fingers, NEW b \in BOOLEAN, NEW caps \in AutoCaps, Repeat(f, b, caps)
       PROVE  \A g \in Fingers : New(g)
  <2>1. /\ Erased(World', World, f) /\ touching' = touching
        /\ tr'[f].cursorMoved => tr[f].cursorMoved
    BY <1>1, <1>23, RepeatEffect
  <2>2. Deletes(tr'[f], tr[f]) /\ queue' = queue
    BY <1>1, <2>1 DEF Erased
  <2>3. CASE tr'[f].typed = tr[f].typed
    <3>1. New(f)
      BY <1>1, <1>8, <2>1, <2>2, <2>3 DEF Deletes, Gone
    <3>2. \A g \in Fingers : g # f => New(g)
      BY <1>1, <1>5, <2>1 DEF Erased, Gone
    <3>3. QED
      BY <3>1, <3>2
  <2>4. CASE tr[f].key = "DELETE" /\ tr'[f].typed = Typing(tr[f].typed, "DELETIONS")
    <3>1. tr[f].key # NoKey
      BY <2>4, TouchAssumption DEF KeyNames
    <3>2. tr[f].typed \in {"NOTHING", "DELETIONS"}
      BY <1>1, <1>2, <3>1 DEF Old, Single, Spent
    <3>3. tr'[f].typed \in {"NOTHING", "DELETIONS"}
      BY <2>4, <3>2, TypingFresh
    <3>4. New(f)
      BY <1>1, <1>2, <2>1, <2>2, <3>3 DEF New, Old, Single, Deletes
    <3>5. \A g \in Fingers : g # f => New(g)
      BY <1>1, <1>5, <2>1 DEF Erased, Gone
    <3>6. QED
      BY <3>4, <3>5
  <2>5. QED
    BY <2>2, <2>3, <2>4 DEF Deletes
<1>24. QED
  BY <1>10, <1>11, <1>12, <1>13, <1>14, <1>15, <1>17, <1>18, <1>19, <1>20, <1>21, <1>22, <1>23
     DEF TouchNext

LEMMA AlwaysOnce == TouchSpec => [](TypeInv /\ OnceInv)
<1>1. TouchInit => TypeInv /\ OnceInv
  BY TypeInvInit, OnceInit
<1>2. TypeInv /\ OnceInv /\ [TouchNext]_touchVars => (TypeInv /\ OnceInv)'
  BY TypeInvNext, OnceNext
<1>3. QED
  BY <1>1, <1>2, PTL DEF TouchSpec

\* A touch types one key or one swiped selection at most and nothing after it, no
\* repeat or step of a swipe either, through phantom up events, long presses,
\* panels, cancelled gestures and new fields, with any fingers and keys.
THEOREM TouchesTypeOnce == TouchSpec => []TypedOnce
<1>1. OnceInv => TypedOnce
  BY DEF OnceInv, Single, Spent, TypedOnce, World
<1>2. QED
  BY <1>1, AlwaysOnce, PTL

-----------------------------------------------------------------------------
(***************************************************************************)
(* Without more keys panels, the queue and the timers are live.            *)
(***************************************************************************)

\* No key of the keyboard opens a panel: the hypothesis of the theorems below.
NoPanels == "LETTER" \notin LongPressKeys

\* A finger has a timer only while it can still act on it; on the glass it is
\* in the queue or cancelled; one that is not cancelled came down in the current
\* text field; and one that can still type, cancelled if it swiped from delete,
\* has announced its key.
Live(w, T, f) ==
    LET t == w.tr[f]
        Q == ToSet(w.queue)
    IN  /\ ~t.panel
        /\ t.longPress => f \in T /\ ~t.disabled /\ t.key \in LongPressKeys
        /\ t.repeat => f \in Q /\ ~t.disabled /\ t.key = "DELETE"
        /\ f \in T => f \in Q \/ t.disabled
        /\ f \in T /\ t.stale => t.disabled
        /\ f \in T /\ (~t.disabled \/ Swiped(t)) /\ t.key \in TypingKeys => t.announced = t.key

LiveInv ==
    /\ IsInjective(queue) /\ ToSet(queue) \subseteq touching /\ ~panel.shown
    /\ \A f \in Fingers : Live(World, touching, f)

LEMMA BesideLive ==
    ASSUME NEW v, NEW w, NEW S, NEW T, NEW f, Beside(v.tr[f], w.tr[f]), Live(w, T, f),
           f \in S <=> f \in T, f \in ToSet(v.queue) <=> f \in ToSet(w.queue)
    PROVE  Live(v, S, f)
BY DEF Beside, Steady, Live, Swiped

LEMMA ReleasedLive ==
    ASSUME NEW v, NEW w, NEW S, NEW f, Released(v.tr[f], w.tr[f])
    PROVE  Live(v, S, f)
<1>1. NoKey \notin TypingKeys
  BY TouchAssumption DEF KeyNames, TypingKeys
<1>2. QED
  BY <1>1 DEF Released, Live

LEMMA EndedLive ==
    ASSUME NEW v, NEW w, NEW S, NEW f, Ended(v.tr[f], w.tr[f]), f \notin S
    PROVE  Live(v, S, f)
BY DEF Ended, Live

\* Without panels every event is passed on.
LEMMA AllHeard ==
    ASSUME LiveInv
    PROVE  \A f \in Fingers : Heard(f) /\ ~tr[f].panel
BY DEF LiveInv, Live, World, Heard

LEMMA LiveInit == TouchInit => LiveInv
<1> SUFFICES ASSUME TouchInit PROVE LiveInv
  OBVIOUS
<1>1. /\ queue = <<>> /\ touching = {} /\ ~panel.shown
      /\ \A f \in Fingers : /\ ~tr[f].panel /\ ~tr[f].longPress /\ ~tr[f].repeat
  BY DEF TouchInit, NewTracker
<1>2. ToSet(queue) = {} /\ IsInjective(queue)
  BY <1>1 DEF ToSet, IsInjective
<1>3. QED
  BY <1>1, <1>2 DEF LiveInv, Live, World

LEMMA LiveNext ==
    ASSUME NoPanels, TypeInv, LiveInv, [TouchNext]_touchVars
    PROVE  LiveInv'
<1> DEFINE Old(f) == Live(World, touching, f)
           New(f) == Live(World', touching', f)
           Lined == IsInjective(queue') /\ ToSet(queue') \subseteq touching' /\ ~panel'.shown
<1>1. /\ Fine(World) /\ World.queue = queue /\ World'.queue = queue'
      /\ World.tr = tr /\ World'.tr = tr' /\ World.panel = panel /\ World'.panel = panel'
  BY DEF TypeInv, World
<1>2. /\ \A f \in Fingers : Old(f)
      /\ IsInjective(queue) /\ ToSet(queue) \subseteq touching /\ ~panel.shown
      /\ \A g \in Fingers : ~World.tr[g].panel
  BY DEF LiveInv, Live
<1>3. Lined /\ (\A f \in Fingers : New(f)) => LiveInv'
  BY DEF LiveInv
<1> HIDE DEF New, Old
<1>4. SUFFICES Lined /\ \A f \in Fingers : New(f)
  BY <1>3
<1>5. ASSUME NEW f \in Fingers, Beside(tr'[f], tr[f]),
             f \in touching' <=> f \in touching, f \in ToSet(queue') <=> f \in ToSet(queue)
      PROVE  New(f)
  BY <1>1, <1>2, <1>5, BesideLive DEF New, Old
<1>6. ASSUME NEW f \in Fingers, Released(tr'[f], tr[f])
      PROVE  New(f)
  BY <1>1, <1>6, ReleasedLive DEF New
<1>7. ASSUME Calm(World', World), touching' = touching
      PROVE  Lined /\ \A f \in Fingers : New(f)
  <2>1. queue' = queue /\ panel' = panel /\ \A f \in Fingers : Beside(tr'[f], tr[f])
    BY <1>1, <1>7 DEF Calm
  <2>2. QED
    BY <1>2, <1>5, <1>7, <2>1
\* The key deletes on the way.
<1>7a. ASSUME NEW f \in Fingers, Erased(World', World, f), touching' = touching,
              ~tr[f].disabled \/ (tr'[f].cursorMoved => tr[f].cursorMoved)
       PROVE  Lined /\ \A g \in Fingers : New(g)
  <2>1. /\ queue' = queue /\ panel' = panel /\ Deletes(tr'[f], tr[f])
        /\ \A g \in Fingers : g # f => Beside(tr'[g], tr[g])
    BY <1>1, <1>7a DEF Erased
  <2>2. New(f)
    BY <1>1, <1>2, <1>7a, <2>1 DEF New, Old, Live, Swiped, Deletes
  <2>3. \A g \in Fingers : g # f => New(g)
    BY <1>5, <1>7a, <2>1
  <2>4. QED
    BY <1>2, <1>7a, <2>1, <2>2, <2>3
<1>8. CASE UNCHANGED touchVars
  <2>1. World' = World /\ touching' = touching /\ queue' = queue /\ panel' = panel
    BY <1>8 DEF touchVars, World
  <2>2. QED
    BY <1>1, <1>2, <2>1 DEF New, Old
<1>9. CASE ShiftTapTimeout
  BY <1>1, <1>7, <1>9, TapTimeoutEffect
<1>10. ASSUME NEW f \in Fingers, LeavePanel(f) PROVE FALSE
  BY <1>10, AllHeard DEF LeavePanel
<1>11. ASSUME NEW caps \in AutoCaps, EditorUpdate(caps)
       PROVE  Lined /\ \A g \in Fingers : New(g)
  BY <1>1, <1>7, <1>11, EditorUpdateEffect
<1>12. ASSUME NEW caps \in AutoCaps, NewField(caps)
       PROVE  Lined /\ \A g \in Fingers : New(g)
  <2>1. /\ queue' = queue /\ touching' = touching /\ (panel'.shown => panel.shown)
        /\ \A g \in Fingers :
              /\ tr'[g].key = tr[g].key /\ tr'[g].announced = tr[g].announced
              /\ ~tr'[g].longPress /\ ~tr'[g].repeat /\ ~tr'[g].panel
              /\ tr'[g].disabled <=> tr[g].disabled \/ Contains(queue, g)
              /\ tr'[g].cursorMoved => tr[g].cursorMoved
    BY <1>1, <1>12, NewFieldEffect
  <2>2. \A g \in Fingers : Contains(queue, g) <=> g \in ToSet(queue)
    BY <1>1, Members DEF Contains, Fine, Worlds
  <2>3. \A g \in Fingers : New(g)
    BY <1>1, <1>2, <2>1, <2>2 DEF New, Old, Live, Swiped
  <2>4. QED
    BY <1>2, <2>1, <2>3
<1>13. ASSUME NEW caps \in AutoCaps, Restart(caps)
       PROVE  Lined /\ \A g \in Fingers : New(g)
  BY <1>1, <1>7, <1>13, RestartEffect
<1>14. ASSUME NEW f \in Fingers, NEW R, Shaken(World', World, f, R),
              \A g \in Fingers : g # f => /\ g \in touching' <=> g \in touching
                                          /\ g \notin R => (g \in ToSet(queue') <=> g \in ToSet(queue))
       PROVE  ~panel'.shown /\ \A g \in Fingers : g # f => New(g)
  <2>1. ASSUME NEW g \in Fingers, g # f PROVE New(g)
    <3>1. IF g \in R THEN Released(tr'[g], tr[g]) ELSE Beside(tr'[g], tr[g])
      BY <1>1, <1>14, <2>1 DEF Shaken
    <3>2. QED
      BY <1>5, <1>6, <1>14, <2>1, <3>1
  <2>2. panel' = panel
    BY <1>1, <1>2, <1>14 DEF Shaken
  <2>3. QED
    BY <1>2, <2>1, <2>2
<1>15. ASSUME NEW f \in Fingers, NEW key \in Keys \cup {NoKey}, NEW lift \in Lifts,
              NEW caps \in AutoCaps, Down(f, key, lift, caps)
       PROVE  Lined /\ \A g \in Fingers : New(g)
  <2>1. f \notin touching /\ touching' = touching \cup {f} /\ DownHeard(World', World, f, key)
    BY <1>1, <1>15, DownEffect, AllHeard
  <2>2. f \notin ToSet(queue) /\ ~tr[f].longPress /\ ~tr[f].repeat /\ ~tr[f].panel
    BY <1>1, <1>2, <2>1 DEF Old, Live
  <2>3. PICK R \in {{}, ToSet(queue)} :
          /\ Shaken(World', World, f, R)
          /\ ToSet(queue') = (ToSet(queue) \ R) \cup {f} /\ IsInjective(queue')
          /\ ~tr'[f].stale /\ tr'[f].key = key /\ ~tr'[f].disabled /\ ~tr'[f].panel
          /\ tr'[f].longPress => key \in LongPressKeys
          /\ tr'[f].repeat => key \in RepeatKeys
          /\ key \in TypingKeys => tr'[f].announced = key
    BY <1>1, <1>2, <2>1, <2>2 DEF DownHeard
  <2>4. ~panel'.shown /\ \A g \in Fingers : g # f => New(g)
    <3>1. \A g \in Fingers : g # f => /\ g \in touching' <=> g \in touching
                                      /\ g \notin R => (g \in ToSet(queue') <=> g \in ToSet(queue))
      BY <2>1, <2>3
    <3>2. QED
      BY <1>14, <2>3, <3>1
  <2>5. tr'[f].repeat => key = "DELETE"
    BY <2>3, TouchAssumption
  <2>6. New(f)
    BY <1>1, <2>1, <2>3, <2>5 DEF New, Live
  <2>7. Lined
    BY <1>2, <2>1, <2>3, <2>4
  <2>8. QED
    BY <2>4, <2>6, <2>7
<1>16. ASSUME NEW f \in Fingers, NEW key \in Keys \cup {NoKey}, NEW caps \in AutoCaps,
              Move(f, key, caps)
       PROVE  Lined /\ \A g \in Fingers : New(g)
  <2>1. /\ f \in touching /\ ~tr[f].disabled /\ touching' = touching
        /\ Own(World', World, f) /\ Lasting(tr'[f], tr[f]) /\ tr'[f].key = key
        /\ tr'[f].longPress => key \in LongPressKeys \/ (tr[f].longPress /\ tr[f].key = NoKey)
        /\ tr'[f].repeat => tr[f].repeat /\ tr[f].key = NoKey
        /\ key \in TypingKeys => tr'[f].announced = key
    BY <1>1, <1>16, MoveEffect
  <2>2. queue' = queue /\ panel' = panel /\ \A g \in Fingers : g # f => Beside(tr'[g], tr[g])
    BY <1>1, <2>1 DEF Own
  <2>3. NoKey \notin LongPressKeys /\ NoKey # "DELETE"
    BY TouchAssumption DEF KeyNames
  <2>4. New(f)
    BY <1>1, <1>2, <2>1, <2>2, <2>3 DEF New, Old, Live, Lasting
  <2>5. \A g \in Fingers : g # f => New(g)
    BY <1>5, <2>1, <2>2
  <2>6. QED
    BY <1>2, <2>1, <2>2, <2>4, <2>5
<1>17. ASSUME NEW f \in Fingers, NEW lift \in Lifts, NEW caps \in AutoCaps, Up(f, lift, caps)
       PROVE  Lined /\ \A g \in Fingers : New(g)
  <2>1. f \in touching /\ touching' = touching \ {f} /\ UpHeard(World', World, f)
    BY <1>1, <1>17, UpEffect, AllHeard
  <2> DEFINE R == UpReleases(World, f)
  <2>2. /\ Shaken(World', World, f, R) /\ Ended(tr'[f], tr[f])
        /\ IsInjective(queue') /\ ToSet(queue') = (ToSet(queue) \ R) \ {f}
    BY <1>1, <1>2, <2>1 DEF UpHeard
  <2> HIDE DEF R
  <2>3. ~panel'.shown /\ \A g \in Fingers : g # f => New(g)
    <3>1. \A g \in Fingers : g # f => /\ g \in touching' <=> g \in touching
                                      /\ g \notin R => (g \in ToSet(queue') <=> g \in ToSet(queue))
      BY <2>1, <2>2
    <3>2. QED
      BY <1>14, <2>2, <3>1
  <2>4. New(f)
    BY <1>1, <2>1, <2>2, EndedLive DEF New
  <2>5. Lined
    BY <1>2, <2>1, <2>2, <2>3
  <2>6. QED
    BY <2>3, <2>4, <2>5
<1>18. ASSUME NEW f \in Fingers, NEW b \in BOOLEAN, NEW caps \in AutoCaps,
              MoveCursor(f, b, caps)
       PROVE  Lined /\ \A g \in Fingers : New(g)
  <2>1. /\ Erased(World', World, f) /\ touching' = touching
        /\ f \in touching /\ ~tr[f].disabled
    BY <1>1, <1>18, MoveCursorEffect
  <2>2. QED
    BY <1>7a, <2>1
<1>19. ASSUME NEW f \in Fingers, NEW lift \in Lifts, NEW caps \in AutoCaps,
              Cancel(f, lift, caps)
       PROVE  Lined /\ \A g \in Fingers : New(g)
  <2>1. touching' = {} /\ CancelHeard(World', World, f)
    BY <1>1, <1>19, CancelEffect, AllHeard
  <2>2. /\ Shaken(World', World, f, ToSet(queue)) /\ ToSet(queue') = {} /\ IsInjective(queue')
        /\ ~tr'[f].longPress /\ ~tr'[f].repeat /\ ~tr'[f].panel
    BY <1>1, <1>2, <2>1 DEF CancelHeard
  <2>3. New(f)
    BY <1>1, <2>1, <2>2 DEF New, Live
  <2>4. ASSUME NEW g \in Fingers, g # f PROVE New(g)
    <3>1. IF g \in ToSet(queue) THEN Released(tr'[g], tr[g]) ELSE Beside(tr'[g], tr[g])
      BY <1>1, <2>2, <2>4 DEF Shaken
    <3>2. CASE g \in ToSet(queue)
      BY <1>6, <3>1, <3>2
    <3>3. CASE g \notin ToSet(queue)
      BY <1>1, <1>2, <2>1, <3>1, <3>3 DEF New, Old, Live, Beside, Steady
    <3>4. QED
      BY <3>2, <3>3
  <2>5. panel' = panel
    BY <1>1, <1>2, <2>2 DEF Shaken
  <2>6. QED
    BY <1>2, <2>1, <2>2, <2>3, <2>4, <2>5
<1>20. ASSUME NEW f \in Fingers, NEW b \in BOOLEAN, NEW caps \in AutoCaps,
              LongPress(f, b, caps)
       PROVE  Lined /\ \A g \in Fingers : New(g)
  <2>1. /\ tr[f].longPress /\ touching' = touching
        /\ \A g \in Fingers : ~tr'[g].longPress
        /\ \A g \in Fingers : g # f => Beside(tr'[g], tr[g])
        /\ tr'[f].key = tr[f].key
        /\ tr'[f].repeat => tr[f].repeat
        /\ \/ queue' = queue /\ panel' = panel /\ Beside(tr'[f], tr[f])
           \/ tr[f].key = "LETTER" /\ tr'[f].panel /\ queue' = queue
           \/ /\ queue' = Forget(queue, f) /\ panel' = panel
              /\ tr'[f].disabled /\ ~tr[f].panel /\ ~tr'[f].panel
    BY <1>1, <1>20, LongPressEffect
  <2>2. tr[f].key \in LongPressKeys
    BY <1>1, <1>2, <2>1 DEF Old, Live
  <2>3. tr[f].key \notin {"LETTER", "DELETE"}
    BY <2>2, TouchAssumption DEF NoPanels
  <2>4. CASE queue' = queue /\ panel' = panel /\ Beside(tr'[f], tr[f])
    BY <1>2, <1>5, <2>1, <2>4
  <2>5. CASE /\ queue' = Forget(queue, f) /\ panel' = panel
             /\ tr'[f].disabled /\ ~tr[f].panel /\ ~tr'[f].panel
    <3>1. queue \in Seq(Fingers)
      BY <1>1 DEF Fine, Worlds
    <3>2. ToSet(queue') = ToSet(queue) \ {f} /\ IsInjective(queue')
      BY <1>2, <2>5, <3>1, ForgetFacts
    <3>3. \A g \in Fingers : g # f => New(g)
      BY <1>5, <2>1, <3>2
    <3>4. ~tr'[f].repeat /\ ~tr'[f].longPress
      BY <1>1, <1>2, <2>1, <2>3 DEF Old, Live
    <3>5. New(f)
      BY <1>1, <1>2, <2>1, <2>3, <2>5, <3>4 DEF New, Live, Swiped
    <3>6. QED
      BY <1>2, <2>1, <2>5, <3>2, <3>3, <3>5
  <2>6. QED
    BY <2>1, <2>3, <2>4, <2>5
<1>21. ASSUME NEW f \in Fingers, NEW b \in BOOLEAN, NEW caps \in AutoCaps, Repeat(f, b, caps)
       PROVE  Lined /\ \A g \in Fingers : New(g)
  BY <1>1, <1>7a, <1>21, RepeatEffect
<1> HIDE DEF Lined
<1>22. QED
  BY <1>8, <1>9, <1>10, <1>11, <1>12, <1>13, <1>15, <1>16, <1>17, <1>18, <1>19, <1>20, <1>21
     DEF TouchNext

LEMMA AlwaysLive ==
    ASSUME NoPanels
    PROVE  TouchSpec => [](TypeInv /\ OnceInv /\ LiveInv)
<1>1. TouchInit => TypeInv /\ OnceInv /\ LiveInv
  BY TypeInvInit, OnceInit, LiveInit
<1>2. TypeInv /\ OnceInv /\ LiveInv /\ [TouchNext]_touchVars
      => (TypeInv /\ OnceInv /\ LiveInv)'
  BY TypeInvNext, OnceNext, LiveNext
<1>3. QED
  BY <1>1, <1>2, PTL DEF TouchSpec

\* On a keyboard without more keys panels, no timer outlives the touch that
\* started it and the queue holds fingers on the glass, each once, whatever the
\* fingers, events, slides, chords and flushes.
THEOREM QueueAndTimersLive ==
    ASSUME NoPanels
    PROVE  TouchSpec => []QueueAndTimersAreLive
<1>1. TypeInv /\ LiveInv => QueueAndTimersAreLive
  <2> SUFFICES ASSUME TypeInv, LiveInv PROVE QueueAndTimersAreLive
    OBVIOUS
  <2>1. World.tr = tr /\ World.queue = queue
    BY DEF World
  <2>2. queue \in Seq(Fingers)
    BY <2>1 DEF TypeInv, Fine, Worlds
  <2>3. \A f \in Fingers : f \in ToSet(queue) => Contains(queue, f)
    BY <2>2, Members DEF Contains
  <2>4. NoKey \notin LongPressKeys /\ NoKey # "DELETE"
    BY TouchAssumption DEF KeyNames
  <2>5. ASSUME NEW f \in Fingers
        PROVE  /\ tr[f].longPress \/ tr[f].repeat =>
                     f \in touching /\ ~tr[f].disabled /\ ~tr[f].stale /\ tr[f].key /= NoKey
               /\ tr[f].repeat => Contains(queue, f) /\ tr[f].key = "DELETE"
    <3>1. Live(World, touching, f) /\ ToSet(queue) \subseteq touching
      BY DEF LiveInv
    <3>2. QED
      BY <2>1, <2>3, <2>4, <3>1 DEF Live
  <2>6. QED
    BY <2>5 DEF LiveInv, QueueAndTimersAreLive
<1>2. QED
  BY <1>1, AlwaysLive, PTL

-----------------------------------------------------------------------------
(***************************************************************************)
(* Without more keys panels, who types and in which order.                 *)
(***************************************************************************)

\* The fingers of the queue before f, that an up event of f releases unless
\* they are on a modifier key, are all those before a finger it releases.
LEMMA OutrunFirst ==
    ASSUME NEW w, Fine(w), IsInjective(w.queue), NEW u \in Fingers,
           NEW i \in DOMAIN w.queue, NEW j \in DOMAIN w.queue, i < j,
           w.queue[j] \in Outrun(w, u) \cup {u}
    PROVE  w.queue[i] \in Outrun(w, u) \/ IsModifier(w.tr[w.queue[i]].key)
<1> DEFINE q == w.queue
           o == OlderThan(q, u)
<1>1. q \in Seq(Fingers) /\ Len(q) \in Nat
  BY DEF Fine, Worlds
<1>2. i \in 1..Len(q) /\ j \in 1..Len(q) /\ i < j /\ q[i] \in Fingers
  BY <1>1
<1>3. \A m, n \in 1..Len(q) : q[m] = q[n] => m = n
  BY <1>1 DEF IsInjective
<1>4. PICK n \in 0..Len(q) : /\ o \in Seq(Fingers) /\ Len(o) = n
                             /\ \A m \in 1..n : o[m] = q[m] /\ q[m] # u
                             /\ n < Len(q) => q[n + 1] = u
  BY <1>1, OlderFacts
<1>5. q[i] \in ToSet(o) => q[i] \in Outrun(w, u) \/ IsModifier(w.tr[q[i]].key)
  BY DEF Outrun
<1>6. q[j] \in ToSet(o) \/ q[j] = u
  BY DEF Outrun
<1> HIDE DEF q, o
<1>7. \A e : e \in ToSet(o) <=> \E m \in 1..n : e = o[m]
  <2>1. o \in Seq(Fingers) /\ Len(o) = n
    BY <1>4
  <2>2. QED
    BY <2>1, Members
<1>8. i \in 1..n
  <2>1. CASE q[j] = u
    <3>1. ~(j \in 1..n)
      BY <1>4, <2>1
    <3>2. n + 1 \in 1..Len(q) /\ q[n + 1] = u
      BY <1>1, <1>2, <1>4, <3>1
    <3>3. j = n + 1
      BY <1>2, <1>3, <2>1, <3>2
    <3>4. QED
      BY <1>1, <1>2, <1>4, <3>3
  <2>2. CASE q[j] \in ToSet(o)
    <3>1. PICK m \in 1..n : q[j] = o[m]
      BY <1>7, <2>2
    <3>2. q[j] = q[m] /\ m \in 1..Len(q)
      BY <1>1, <1>4, <3>1
    <3>3. j = m
      BY <1>2, <1>3, <3>2
    <3>4. QED
      BY <1>1, <1>2, <1>4, <3>3
  <2>3. QED
    BY <1>6, <2>1, <2>2
<1>9. q[i] \in ToSet(o)
  BY <1>4, <1>7, <1>8
<1>10. QED
  BY <1>5, <1>9 DEF q

\* A finger types a key only on the glass and not cancelled, a selection also when
\* it was cancelled; and every older finger of the queue leaves it or is on a
\* modifier key.
Ordered(f) ==
    /\ f \in touching
    /\ ~tr[f].disabled \/ (Swiped(tr[f]) /\ tr'[f].typed = "SELECTION")
    /\ \A i, j \in DOMAIN queue :
          i < j /\ queue[j] = f =>
             queue[i] \notin ToSet(queue') \/ IsModifier(tr[queue[i]].key)

\* What a step makes a finger type: nothing, a deletion on the glass, or a key or a
\* selection in its turn.
Typist(f) ==
    \/ tr'[f].typed \in {tr[f].typed, "NOTHING"}
    \/ tr'[f].typed = "DELETIONS" /\ f \in touching /\ ~tr[f].disabled
    \/ Ordered(f)

LEMMA TypistOrdered ==
    ASSUME NoPanels, TypeInv, OnceInv, LiveInv, [TouchNext]_touchVars
    PROVE  \A f \in Fingers : Typist(f)
<1> DEFINE Old(f) == Live(World, touching, f)
<1>1. /\ Fine(World) /\ World.queue = queue /\ World'.queue = queue'
      /\ World.tr = tr /\ World'.tr = tr'
  BY DEF TypeInv, World
<1>2. /\ \A f \in Fingers : Old(f)
      /\ IsInjective(queue) /\ ToSet(queue) \subseteq touching
  BY DEF LiveInv
<1>3. /\ queue \in Seq(Fingers)
      /\ \A i \in DOMAIN queue : queue[i] \in Fingers /\ queue[i] \in ToSet(queue)
  <2>1. queue \in Seq(Fingers)
    BY <1>1 DEF Fine, Worlds
  <2>2. QED
    BY <2>1 DEF ToSet
<1>4. ASSUME NEW f \in Fingers, f \in ToSet(queue), UpTypes(tr'[f].typed, tr[f])
      PROVE  \/ tr'[f].typed = tr[f].typed
             \/ ~tr[f].disabled \/ (Swiped(tr[f]) /\ tr'[f].typed = "SELECTION")
  <2>1. Single(World, touching, f)
    BY DEF OnceInv
  <2>2. QED
    BY <1>1, <1>4, <2>1, UpTypesOnce
<1>5. ASSUME NEW f \in Fingers, tr'[f].typed = tr[f].typed PROVE Typist(f)
  BY <1>5 DEF Typist
<1>6. ASSUME NEW f \in Fingers, Beside(tr'[f], tr[f]) PROVE Typist(f)
  BY <1>5, <1>6 DEF Beside
\* A finger released with the whole queue.
<1>7. ASSUME NEW f \in Fingers, Released(tr'[f], tr[f]), f \in ToSet(queue),
             ToSet(queue') \cap ToSet(queue) = {}
      PROVE  Typist(f)
  <2>1. CASE tr'[f].typed = tr[f].typed
    BY <1>5, <2>1
  <2>2. CASE ~tr[f].disabled \/ (Swiped(tr[f]) /\ tr'[f].typed = "SELECTION")
    BY <1>2, <1>3, <1>7, <2>2 DEF Typist, Ordered
  <2>3. QED
    BY <1>4, <1>7, <2>1, <2>2 DEF Released
<1> HIDE DEF Old
<1>8. ASSUME NEW f \in Fingers, Erased(World', World, f), f \in touching, ~tr[f].disabled
      PROVE  \A g \in Fingers : Typist(g)
  <2>1. Deletes(tr'[f], tr[f]) /\ \A g \in Fingers : g # f => Beside(tr'[g], tr[g])
    BY <1>1, <1>8 DEF Erased
  <2>2. CASE tr'[f].typed = tr[f].typed
    BY <1>5, <1>6, <2>1, <2>2
  <2>3. CASE tr[f].key = "DELETE" /\ tr'[f].typed = Typing(tr[f].typed, "DELETIONS")
    <3>1. tr[f].key # NoKey
      BY <2>3, TouchAssumption DEF KeyNames
    <3>2. tr[f].typed \in {"NOTHING", "DELETIONS"}
      BY <1>1, <3>1 DEF OnceInv, Single, Spent
    <3>3. tr'[f].typed = "DELETIONS"
      BY <2>3, <3>2, TypingFresh
    <3>4. QED
      BY <1>6, <1>8, <2>1, <3>3 DEF Typist
  <2>4. QED
    BY <2>1, <2>2, <2>3 DEF Deletes
<1>9. ASSUME Calm(World', World) PROVE \A f \in Fingers : Typist(f)
  BY <1>1, <1>6, <1>9 DEF Calm
<1>10. CASE UNCHANGED touchVars
  BY <1>5, <1>10 DEF touchVars
<1>11. CASE ShiftTapTimeout
  BY <1>1, <1>9, <1>11, TapTimeoutEffect
<1>12. ASSUME NEW f \in Fingers, LeavePanel(f) PROVE FALSE
  BY <1>12, AllHeard DEF LeavePanel
<1>13. ASSUME NEW caps \in AutoCaps, EditorUpdate(caps) PROVE \A g \in Fingers : Typist(g)
  BY <1>1, <1>9, <1>13, EditorUpdateEffect
<1>14. ASSUME NEW caps \in AutoCaps, NewField(caps) PROVE \A g \in Fingers : Typist(g)
  BY <1>1, <1>5, <1>14, NewFieldEffect
<1>15. ASSUME NEW caps \in AutoCaps, Restart(caps) PROVE \A g \in Fingers : Typist(g)
  BY <1>1, <1>9, <1>15, RestartEffect
<1>16. ASSUME NEW f \in Fingers, NEW key \in Keys \cup {NoKey}, NEW lift \in Lifts,
              NEW caps \in AutoCaps, Down(f, key, lift, caps)
       PROVE  \A g \in Fingers : Typist(g)
  <2>1. f \notin touching /\ DownHeard(World', World, f, key)
    BY <1>1, <1>16, DownEffect, AllHeard
  <2>2. f \notin ToSet(queue)
    BY <1>2, <2>1
  <2>3. PICK R \in {{}, ToSet(queue)} :
          /\ Shaken(World', World, f, R) /\ tr'[f].typed = "NOTHING"
          /\ ToSet(queue') = (ToSet(queue) \ R) \cup {f}
    BY <1>1, <2>1 DEF DownHeard
  <2>4. Typist(f)
    BY <2>3 DEF Typist
  <2>5. ASSUME NEW g \in Fingers, g # f PROVE Typist(g)
    <3>1. IF g \in R THEN Released(tr'[g], tr[g]) ELSE Beside(tr'[g], tr[g])
      BY <1>1, <2>3, <2>5 DEF Shaken
    <3>2. CASE g \in R
      <4>1. R = ToSet(queue)
        BY <2>3, <3>2
      <4>2. ToSet(queue') \cap ToSet(queue) = {}
        BY <2>2, <2>3, <4>1
      <4>3. QED
        BY <1>7, <3>1, <3>2, <4>1, <4>2
    <3>3. CASE g \notin R
      BY <1>6, <3>1, <3>3
    <3>4. QED
      BY <3>2, <3>3
  <2>6. QED
    BY <2>4, <2>5
<1>17. ASSUME NEW f \in Fingers, NEW key \in Keys \cup {NoKey}, NEW caps \in AutoCaps,
              Move(f, key, caps)
       PROVE  \A g \in Fingers : Typist(g)
  <2>1. Own(World', World, f) /\ Lasting(tr'[f], tr[f])
    BY <1>1, <1>17, MoveEffect
  <2>2. \A g \in Fingers : g # f => Typist(g)
    BY <1>1, <1>6, <2>1 DEF Own
  <2>3. Typist(f)
    BY <1>5, <2>1 DEF Lasting
  <2>4. QED
    BY <2>2, <2>3
<1>18. ASSUME NEW f \in Fingers, NEW lift \in Lifts, NEW caps \in AutoCaps, Up(f, lift, caps)
       PROVE  \A g \in Fingers : Typist(g)
  <2>1. f \in touching /\ UpHeard(World', World, f)
    BY <1>1, <1>18, UpEffect, AllHeard
  <2> DEFINE R == UpReleases(World, f)
  <2>2. /\ Shaken(World', World, f, R) /\ Ended(tr'[f], tr[f])
        /\ ToSet(queue') = (ToSet(queue) \ R) \ {f}
    BY <1>1, <1>2, <2>1 DEF UpHeard
  <2>3. R \subseteq ToSet(queue) \ {f}
    BY <1>1, UpReleasesQueued
  <2>4. ASSUME NEW g \in R \cup {f}, NEW i \in DOMAIN queue, NEW j \in DOMAIN queue,
               i < j, queue[j] = g
        PROVE  queue[i] \notin ToSet(queue') \/ IsModifier(tr[queue[i]].key)
    <3>1. CASE IsModifier(tr[f].key)
      <4>1. R = ToSet(queue) \ {f}
        BY <1>1, <3>1 DEF UpReleases
      <4>2. QED
        BY <2>2, <4>1
    <3>2. CASE ~IsModifier(tr[f].key)
      <4>1. R = Outrun(World, f)
        BY <1>1, <3>2 DEF UpReleases
      <4>2. queue[i] \in R \/ IsModifier(tr[queue[i]].key)
        BY <1>1, <1>2, <2>4, <4>1, OutrunFirst
      <4>3. QED
        BY <2>2, <4>2
    <3>3. QED
      BY <3>1, <3>2
  <2> HIDE DEF R
  <2>5. ASSUME NEW g \in Fingers, g \in R \cup {f}, UpTypes(tr'[g].typed, tr[g])
        PROVE  Typist(g)
    <3>1. g \in touching /\ Single(World, touching, g)
      BY <1>2, <2>1, <2>3, <2>5 DEF OnceInv
    <3>2. CASE tr'[g].typed = tr[g].typed
      BY <1>5, <3>2
    <3>3. CASE ~tr[g].disabled \/ (Swiped(tr[g]) /\ tr'[g].typed = "SELECTION")
      BY <2>4, <2>5, <3>1, <3>3 DEF Typist, Ordered
    <3>4. QED
      BY <1>1, <2>5, <3>1, <3>2, <3>3, UpTypesOnce
  <2>6. Typist(f)
    BY <2>2, <2>5 DEF Ended
  <2>7. ASSUME NEW g \in Fingers, g # f PROVE Typist(g)
    <3>1. IF g \in R THEN Released(tr'[g], tr[g]) ELSE Beside(tr'[g], tr[g])
      BY <1>1, <2>2, <2>7 DEF Shaken
    <3>2. QED
      BY <1>6, <2>5, <3>1 DEF Released
  <2>8. QED
    BY <2>6, <2>7
<1>19. ASSUME NEW f \in Fingers, NEW b \in BOOLEAN, NEW caps \in AutoCaps,
              MoveCursor(f, b, caps)
       PROVE  \A g \in Fingers : Typist(g)
  BY <1>1, <1>8, <1>19, MoveCursorEffect
<1>20. ASSUME NEW f \in Fingers, NEW lift \in Lifts, NEW caps \in AutoCaps,
              Cancel(f, lift, caps)
       PROVE  \A g \in Fingers : Typist(g)
  <2>1. CancelHeard(World', World, f)
    BY <1>1, <1>20, CancelEffect, AllHeard
  <2>2. /\ Shaken(World', World, f, ToSet(queue)) /\ ToSet(queue') = {}
        /\ \/ f \in ToSet(queue) /\ Released(tr'[f], tr[f])
           \/ tr'[f].typed = tr[f].typed
    BY <1>1, <2>1 DEF CancelHeard
  <2>3. Typist(f)
    BY <1>5, <1>7, <2>2
  <2>4. ASSUME NEW g \in Fingers, g # f PROVE Typist(g)
    <3>1. IF g \in ToSet(queue) THEN Released(tr'[g], tr[g]) ELSE Beside(tr'[g], tr[g])
      BY <1>1, <2>2, <2>4 DEF Shaken
    <3>2. QED
      BY <1>6, <1>7, <2>2, <3>1
  <2>5. QED
    BY <2>3, <2>4
<1>21. ASSUME NEW f \in Fingers, NEW b \in BOOLEAN, NEW caps \in AutoCaps,
              LongPress(f, b, caps)
       PROVE  \A g \in Fingers : Typist(g)
  <2>1. /\ \A g \in Fingers : g # f => Beside(tr'[g], tr[g])
        /\ tr'[f].typed = tr[f].typed
    BY <1>1, <1>21, LongPressEffect
  <2>2. QED
    BY <1>5, <1>6, <2>1
<1>22. ASSUME NEW f \in Fingers, NEW b \in BOOLEAN, NEW caps \in AutoCaps, Repeat(f, b, caps)
       PROVE  \A g \in Fingers : Typist(g)
  <2>1. Erased(World', World, f) /\ tr[f].repeat
    BY <1>1, <1>22, RepeatEffect
  <2>2. f \in touching /\ ~tr[f].disabled
    BY <1>1, <1>2, <2>1 DEF Old, Live
  <2>3. QED
    BY <1>8, <2>1, <2>2
<1>23. QED
  BY <1>10, <1>11, <1>12, <1>13, <1>14, <1>15, <1>16, <1>17, <1>18, <1>19, <1>20, <1>21, <1>22
     DEF TouchNext

\* On a keyboard without more keys panels, a finger that was down when the text
\* field changed types no key into the new field and repeats no deletion there,
\* however it is lifted, flushed by another finger or cancelled; what it may still
\* delete is the selection of a swipe from delete that was under way.
THEOREM StaleTouchesTypeNoKey ==
    ASSUME NoPanels
    PROVE  TouchSpec => StaleTouchTypesNoKey
<1> DEFINE A(f) == tr[f].stale /\ tr'[f].typed /= "NOTHING" =>
                      \/ tr'[f].typed = tr[f].typed
                      \/ tr'[f].typed = "SELECTION" /\ tr[f].cursorMoved /\ tr[f].key = "DELETE"
<1>1. TypeInv /\ OnceInv /\ LiveInv /\ [TouchNext]_touchVars => [\A f \in Fingers : A(f)]_touchVars
  <2> SUFFICES ASSUME TypeInv, OnceInv, LiveInv, [TouchNext]_touchVars, NEW f \in Fingers
               PROVE  A(f)
    OBVIOUS
  <2>1. Typist(f)
    BY TypistOrdered
  <2>2. Live(World, touching, f) /\ World.tr = tr
    BY DEF LiveInv, World
  <2>3. f \in touching /\ tr[f].stale => tr[f].disabled
    BY <2>2 DEF Live
  <2>4. QED
    BY <2>1, <2>3 DEF Typist, Ordered, Swiped
<1>2. QED
  BY <1>1, AlwaysLive, PTL DEF TouchSpec, StaleTouchTypesNoKey

\* On a keyboard without more keys panels, the letter, space or delete that a lifted
\* finger types, and the selection it deletes, is of a key that it has announced
\* with onPressKey and not released since, as KeyboardActionListener demands.
THEOREM LettersPressedBeforeTyped ==
    ASSUME NoPanels
    PROVE  TouchSpec => LetterPressedBeforeTyped
<1> DEFINE A(f) == TypedMore(f) /\ tr[f].key \in {"LETTER", "SPACE", "DELETE"} /\ ~tr[f].panel =>
                      tr[f].announced = tr[f].key
<1>1. TypeInv /\ OnceInv /\ LiveInv /\ [TouchNext]_touchVars => [\A f \in Fingers : A(f)]_touchVars
  <2> SUFFICES ASSUME TypeInv, OnceInv, LiveInv, [TouchNext]_touchVars,
                      NEW f \in Fingers, TypedMore(f), tr[f].key \in TypingKeys
               PROVE  tr[f].announced = tr[f].key
    BY DEF TypingKeys
  <2>1. f \in touching /\ (~tr[f].disabled \/ Swiped(tr[f]))
    BY TypistOrdered DEF Typist, Ordered, TypedMore
  <2>2. Live(World, touching, f) /\ World.tr = tr
    BY DEF LiveInv, World
  <2>3. QED
    BY <2>1, <2>2 DEF Live
<1>2. QED
  BY <1>1, AlwaysLive, PTL DEF TouchSpec, LetterPressedBeforeTyped

\* On a keyboard without more keys panels, keys and swiped selections are typed in
\* the order their fingers came down, by whichever finger's event: when a finger
\* types, every older finger leaves the queue in the same step or is on a modifier
\* key.
THEOREM TypedInOrder ==
    ASSUME NoPanels
    PROVE  TouchSpec => OlderFingersTypedFirst
<1> DEFINE A == \A i, j \in DOMAIN queue :
                   i < j /\ TypedMore(queue[j]) =>
                      ~Contains(queue', queue[i]) \/ IsModifier(tr[queue[i]].key)
<1>1. TypeInv /\ TypeInv' /\ OnceInv /\ LiveInv /\ [TouchNext]_touchVars => [A]_touchVars
  <2> SUFFICES ASSUME TypeInv, TypeInv', OnceInv, LiveInv, [TouchNext]_touchVars,
                      NEW i \in DOMAIN queue, NEW j \in DOMAIN queue,
                      i < j, TypedMore(queue[j])
               PROVE  ~Contains(queue', queue[i]) \/ IsModifier(tr[queue[i]].key)
    OBVIOUS
  <2>1. queue \in Seq(Fingers) /\ queue' \in Seq(Fingers)
    BY DEF TypeInv, Fine, Worlds, World
  <2>2. queue[j] \in Fingers
    BY <2>1
  <2>3. queue[i] \notin ToSet(queue') \/ IsModifier(tr[queue[i]].key)
    BY <2>2, TypistOrdered DEF Typist, Ordered, TypedMore
  <2>4. Contains(queue', queue[i]) => queue[i] \in ToSet(queue')
    BY <2>1, Members DEF Contains
  <2>5. QED
    BY <2>3, <2>4
<1> HIDE DEF A
<1>2. TouchSpec => [][A]_touchVars
  BY <1>1, AlwaysLive, PTL DEF TouchSpec
<1>3. QED
  BY <1>2 DEF A, OlderFingersTypedFirst
=============================================================================
