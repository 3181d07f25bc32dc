-------------------------------- MODULE Touch --------------------------------
(***************************************************************************)
(* keyboard/PointerTracker.java, PointerTrackerQueue.java, TimerHandler    *)
(* and the event filter of MainKeyboardView: from fingers on the glass to  *)
(* the calls of the KeyboardActionListener, composed with the              *)
(* KeyboardState they drive through LatinIMELegacy and KeyboardSwitcher.   *)
(*                                                                         *)
(* Everything runs on the main thread, one motion event or Handler message *)
(* at a time, but an event of one finger reaches into the trackers of the  *)
(* others (phantom up events, cancelled timers, a changed layout).  A      *)
(* method is an operator from the world before the call to the world after *)
(* it; an action is one event or message and applies the whole handler.    *)
(*                                                                         *)
(* A key is its code and stays at its place on every page, so looking the  *)
(* key up again after a layout change finds the same key.  Dragging is     *)
(* allowed on every key, as in all the shipped configurations, and gesture *)
(* input is off.  No recapitalization runs.                                *)
(***************************************************************************)
EXTENDS KeyboardState, SequencesExt

CONSTANTS
    Fingers,        \* pointer ids
    Keys,           \* the keys under test
    NoKey,          \* a place outside every key
    LongPressKeys,  \* keys whose style has enableLongPress or more keys
    RepeatKeys,     \* keys whose style has isRepeatable
    Events          \* the kinds of rarer events the environment produces

KeyNames == {"SHIFT", "SWITCH_ALPHA_SYMBOL", "LETTER", "SPACE", "DELETE"}

ASSUME TouchAssumption ==
    /\ Keys \subseteq KeyNames /\ NoKey \notin KeyNames
    /\ LongPressKeys \subseteq {"SHIFT", "LETTER", "SPACE"}
    /\ RepeatKeys \subseteq {"DELETE"}
    /\ Events \subseteq {"drag", "outside", "cancel", "newField", "restart"}
    /\ \A f \in Fingers : f \notin KeyNames \cup {NoKey}
    /\ RecapModes = {"NONE"}

VARIABLES
    tr,        \* the PointerTracker of each finger
    queue,     \* PointerTrackerQueue, oldest first
    panel,     \* the more keys panel: the finger it follows, and is it shown
    touching   \* fingers on the glass

touchVars == <<kb, tr, queue, panel, touching>>

IsModifier(key) == key \in {"SHIFT", "SWITCH_ALPHA_SYMBOL"}
CodeOf(key)     == IF key = "DELETE" THEN "OTHER" ELSE key
SlidesCursor(key) == key \in {"SPACE", "DELETE"}

\* What a touch typed: the KEY it was lifted from; DELETIONS, the repeats of the
\* delete key or the steps of a swipe from it; SELECTION, the text that a swipe
\* from delete selected, after its deletions if any; KEY_TOO, a key on top of its
\* deletions; or MORE than that.
Typed == {"NOTHING", "DELETIONS", "KEY", "SELECTION", "KEY_TOO", "MORE"}

Typing(before, what) ==
    CASE before = "NOTHING" -> what
      [] before = "DELETIONS" -> IF what = "KEY" THEN "KEY_TOO" ELSE what
      [] OTHER -> "MORE"

\* `announced', `typed', `home' and `stale' record the history of the touch: the
\* key whose onPressKey was sent and not released yet, what the touch typed, the
\* page a slide from ?123 returns to, and whether the text field changed under
\* the finger.
Trackers ==
    [key           : Keys \cup {NoKey},   \* mCurrentKey
     disabled      : BOOLEAN,             \* mIsTrackingForActionDisabled
     dragging      : BOOLEAN,             \* mIsInDraggingFinger
     sliding       : BOOLEAN,             \* mIsInSlidingKeyInput
     panel         : BOOLEAN,             \* mMoreKeysPanel != null
     cursorMoved   : BOOLEAN,             \* mCursorMoved
     slidingCursor : BOOLEAN,             \* mIsSlidingCursor
     repeating     : BOOLEAN,             \* mCurrentRepeatingKeyCode is set
     longPress     : BOOLEAN,             \* MSG_LONGPRESS_(SHIFT_)KEY is queued
     repeat        : BOOLEAN,             \* MSG_REPEAT_KEY is queued
     announced     : Keys \cup {NoKey},
     typed         : Typed,
     home          : {"NONE", "ALPHA", "SYMBOLS"},
     stale         : BOOLEAN]

NewTracker ==
    [key |-> NoKey, disabled |-> FALSE, dragging |-> FALSE, sliding |-> FALSE,
     panel |-> FALSE, cursorMoved |-> FALSE, slidingCursor |-> FALSE,
     repeating |-> FALSE, longPress |-> FALSE, repeat |-> FALSE,
     announced |-> NoKey, typed |-> "NOTHING", home |-> "NONE", stale |-> FALSE]

\* The history starts again with every touch.
NewTouch(t) ==
    [t EXCEPT !.announced = NoKey, !.typed = "NOTHING", !.home = "NONE", !.stale = FALSE]

World == [kb |-> kb, tr |-> tr, queue |-> queue, panel |-> panel]
Becomes(w) == kb' = w.kb /\ tr' = w.tr /\ queue' = w.queue /\ panel' = w.panel

-----------------------------------------------------------------------------
(***************************************************************************)
(* The calls a tracker makes on its listener.                              *)
(***************************************************************************)

\* KeyboardState answers with k.  Displaying a keyboard removes every queued
\* long press (MainKeyboardView.setKeyboard).
Listen(w, k) ==
    [w EXCEPT !.kb = [k EXCEPT !.displayed = FALSE],
              !.tr = IF k.displayed THEN [g \in Fingers |-> [@[g] EXCEPT !.longPress = FALSE]]
                     ELSE @]

Muted(t, key) == t.dragging /\ IsModifier(key)

\* History: ?123 pressed by f (by no finger for NoKey) makes f the one whose
\* slide returns to the current page.
SetHome(w, f) ==
    [w EXCEPT !.tr = [g \in Fingers |-> [@[g] EXCEPT !.home =
        IF g /= f THEN "NONE" ELSE IF w.kb.isAlphabetMode THEN "ALPHA" ELSE "SYMBOLS"]]]

Press(w, f, key, caps) ==
    LET h == IF key = "SWITCH_ALPHA_SYMBOL" THEN SetHome(w, f) ELSE w
    IN  IF w.tr[f].disabled \/ Muted(w.tr[f], key) THEN w
        ELSE [Listen(h, OnPressKey(w.kb, CodeOf(key), Len(w.queue) = 1, caps, "NONE"))
                EXCEPT !.tr[f].announced = key]

Release(w, f, key, sliding, caps) ==
    IF w.tr[f].disabled \/ Muted(w.tr[f], key) THEN w
    ELSE [Listen(w, OnReleaseKey(w.kb, CodeOf(key), sliding, caps, "NONE"))
            EXCEPT !.tr[f].announced = NoKey]

\* LatinIMELegacy.onCodeInput: a shift key on the symbols is CODE_SYMBOL_SHIFT,
\* which no switch state knows; InputLogic asks for a shift update at once
\* after shift, a separator and delete; then KeyboardSwitcher.onEvent.
CodeInput(k, code, caps) ==
    LET symbolShift == code = "SHIFT" /\ k.layout \notin AlphabetLayouts
        u == IF code \in {"SHIFT", "SPACE", "OTHER"} /\ ~symbolShift
             THEN OnUpdateShiftState(k, caps, "NONE") ELSE k
    IN  OnEvent(u, IF symbolShift THEN "OTHER" ELSE code, caps, "NONE")

SendCode(w, f, key, caps) ==
    LET h == IF key = "SWITCH_ALPHA_SYMBOL" THEN SetHome(w, NoKey) ELSE w
    IN  IF Muted(w.tr[f], key) THEN w
        ELSE [Listen(h, CodeInput(w.kb, CodeOf(key), caps))
                EXCEPT !.tr[f].typed = Typing(@, "KEY")]

\* CODE_DELETE, for a repeat of the key, a step of a swipe or a selection.
SendDelete(w, f, what, caps) ==
    [Listen(w, CodeInput(w.kb, "OTHER", caps)) EXCEPT !.tr[f].typed = Typing(@, what)]

-----------------------------------------------------------------------------
(***************************************************************************)
(* PointerTracker.                                                         *)
(***************************************************************************)

\* cancelTrackingForAction.
CancelTracking(w, f) ==
    IF w.tr[f].panel THEN w ELSE [w EXCEPT !.tr[f].disabled = TRUE]

DismissPanel(w, f) ==
    IF w.tr[f].panel THEN [w EXCEPT !.tr[f].panel = FALSE, !.panel.shown = FALSE] ELSE w

DetectAndSendKey(w, f, key, caps) ==
    IF key = NoKey THEN w ELSE Release(SendCode(w, f, key, caps), f, key, FALSE, caps)

\* What an up event finds: is the finger over a key of its panel, and which finger,
\* if any, has swiped from delete and left text selected (deleting it leaves none).
Lifts ==
    [hit      : {FALSE, panel.shown},
     selected : {NoKey} \cup {f \in Fingers : tr[f].cursorMoved /\ tr[f].key = "DELETE"}]

\* Bug: the code of the repeating key was reset before it is compared.
RepeatCodeReset(t) == FALSE

\* The key repeated, so that its release types nothing.
Repeated(t) == t.key \in RepeatKeys /\ t.repeating /\ ~t.dragging

\* onUpEventInternal.  The end of a swipe from delete, onUpWithDeletePointerActive,
\* comes before every return, also for a cancelled finger; that of a swipe from
\* space only restarts the suggestions.
UpInternal(w, f, lift, caps) ==
    LET t == w.tr[f]
        r == [w EXCEPT !.tr[f] = [@ EXCEPT !.longPress = FALSE, !.repeat = FALSE,
                                           !.dragging = FALSE, !.sliding = FALSE,
                                           !.key = NoKey, !.repeating = FALSE]]
        e == IF t.cursorMoved /\ t.key = "DELETE" /\ lift.selected = f
             THEN SendDelete(r, f, "SELECTION", caps) ELSE r
        s == DetectAndSendKey(r, f, t.key, caps)
    IN  IF t.panel
        THEN DismissPanel(IF lift.hit /\ ~t.disabled /\ w.panel.finger = f
                          THEN SendCode(e, f, "LETTER", caps) ELSE e, f)
        ELSE IF t.cursorMoved THEN [e EXCEPT !.tr[f].cursorMoved = FALSE]
        ELSE IF t.disabled THEN r
        ELSE IF Repeated(t) THEN r
        ELSE IF t.sliding THEN Listen(s, OnFinishSlidingInput(s.kb, caps, "NONE")) ELSE s

\* Bug: a flushed finger stays active.
PhantomUpStaysActive(w, f, lift, caps) == UpInternal(w, f, lift, caps)

PhantomUp(w, f, lift, caps) == CancelTracking(UpInternal(w, f, lift, caps), f)

\* The fingers of S, in the order of the queue q.
Only(q, S) == FoldLeft(LAMBDA s, g : IF g \in S THEN Append(s, g) ELSE s, <<>>, q)

\* The fingers of q outside S get a phantom up event, oldest first.
PhantomUpAll(w, q, S, lift, caps) ==
    FoldLeft(LAMBDA v, g : IF g \in S THEN v ELSE PhantomUp(v, g, lift, caps), w, q)

\* Bug: the released fingers stay in the queue.
ReleaseKeepsQueue(w, except, lift, caps) == PhantomUpAll(w, w.queue, {except}, lift, caps)

\* releaseAllPointersExcept; except = NoKey releases all of them.
ReleaseAllExcept(w, except, lift, caps) ==
    [PhantomUpAll(w, w.queue, {except}, lift, caps) EXCEPT !.queue = Only(@, {except})]

\* Bug: off by one, the finger just before f is not older.
OlderThanByTwo(q, f) == SubSeq(q, 1, SelectInSeq(q, LAMBDA g : g = f) - 2)

\* A finger that is not in the queue counts as newer than all of it.
OlderThan(q, f) == IF Contains(q, f) THEN SubSeq(q, 1, SelectInSeq(q, LAMBDA g : g = f) - 1)
                   ELSE q

\* releaseAllPointersOlderThan: fingers on a modifier key stay.
ReleaseOlderThan(w, f, lift, caps) ==
    LET older == OlderThan(w.queue, f)
        held  == {g \in Fingers : IsModifier(w.tr[g].key)}
    IN  [PhantomUpAll(w, older, held, lift, caps)
            EXCEPT !.queue = Only(older, held) \o SubSeq(@, Len(older) + 1, Len(@))]

\* Starting any long press timer drops the one of a held shift key.
StartLongPressTimer(w, f, key) ==
    LET d == [w EXCEPT !.tr = [g \in Fingers |->
                [w.tr[g] EXCEPT !.longPress = @ /\ w.tr[g].key /= "SHIFT"]]]
        enabled == /\ key \in LongPressKeys
                   /\ key = "SHIFT" => w.kb.layout \in AlphabetLayouts
                   /\ w.tr[f].dragging => key /= "SPACE"      \* no more keys
    IN  IF enabled THEN [d EXCEPT !.tr[f].longPress = TRUE] ELSE d

DownInternal(w, f, key, caps) ==
    LET d == [w EXCEPT !.tr[f] = [@ EXCEPT !.key = key, !.disabled = FALSE,
                                           !.dragging = FALSE, !.sliding = FALSE]]
        p == Press(d, f, key, caps)
        s == StartLongPressTimer([p EXCEPT !.tr[f].repeat = @ \/ key \in RepeatKeys], f, key)
    IN  IF key = NoKey THEN d ELSE [s EXCEPT !.tr[f].slidingCursor = SlidesCursor(key)]

\* Bug: the key the finger leaves is not released.
DragOutUnreleased(w, f, key, caps) ==
    LET fromModifier == IF w.tr[f].dragging THEN w.tr[f].sliding ELSE IsModifier(key)
    IN  [w EXCEPT !.tr[f] = [@ EXCEPT !.sliding = fromModifier, !.dragging = TRUE,
                                      !.longPress = FALSE, !.repeat = FALSE]]

DragOut(w, f, key, caps) ==
    LET fromModifier == IF w.tr[f].dragging THEN w.tr[f].sliding ELSE IsModifier(key)
    IN  [Release(w, f, key, TRUE, caps) EXCEPT
            !.tr[f] = [@ EXCEPT !.sliding = fromModifier, !.dragging = TRUE,
                                !.longPress = FALSE, !.repeat = FALSE]]

\* Bug: the key the finger enters is not pressed.
DragInUnpressed(w, f, key, caps) ==
    StartLongPressTimer([w EXCEPT !.tr[f].key = key], f, key)

DragIn(w, f, key, caps) ==
    LET p == [Press(w, f, key, caps) EXCEPT !.tr[f].key = key]
    IN  StartLongPressTimer(p, f, key)

\* onMoveEventInternal when the finger changed keys.  A dragging finger starts
\* no key repeat.
MoveTo(w, f, key, caps) ==
    LET old == w.tr[f].key
        out == IF old = NoKey THEN w ELSE DragOut(w, f, old, caps)
    IN  IF key = NoKey THEN [out EXCEPT !.tr[f].key = NoKey] ELSE DragIn(out, f, key, caps)

Forget(q, f) == Only(q, Fingers \ {f})

\* cancelKeyTracking: the tracker leaves the queue, its key stays current.
CancelKeyTracking(w, f) ==
    [CancelTracking([w EXCEPT !.tr[f] = [@ EXCEPT !.dragging = FALSE, !.sliding = FALSE]], f)
        EXCEPT !.queue = Forget(@, f)]

\* onLongPressed; `picker' says whether the input method picker opens.
LongPressed(w, f, picker, caps) ==
    LET t == w.tr[f]
        c == CancelKeyTracking(w, f)
        locked == OnReleaseKey(CodeInput(OnPressKey(c.kb, "CAPSLOCK", TRUE, caps, "NONE"),
                                         "CAPSLOCK", caps), "CAPSLOCK", FALSE, caps, "NONE")
    IN  CASE t.panel \/ t.cursorMoved \/ t.key = NoKey -> w
          [] ~t.panel /\ ~t.cursorMoved /\ t.key = "SHIFT" -> Listen(c, locked)
          [] ~t.panel /\ ~t.cursorMoved /\ t.key = "SPACE" /\ picker ->
               [Listen(c, OnReleaseKey(c.kb, "SPACE", FALSE, caps, "NONE"))
                  EXCEPT !.tr[f].announced = NoKey]
          [] ~t.panel /\ ~t.cursorMoved /\ t.key = "LETTER" ->
               [w EXCEPT !.tr[f].panel = TRUE, !.panel = [finger |-> f, shown |-> TRUE]]
          [] OTHER -> w

-----------------------------------------------------------------------------
(***************************************************************************)
(* Motion events.  While a panel is up and its finger is the only one in   *)
(* the queue, MainKeyboardView does not pass on the events of the others.  *)
(***************************************************************************)

Heard(f) == panel.shown /\ Len(queue) = 1 => tr[f].panel

TouchInit ==
    /\ kb = [LoadKeyboard(NewKeyboardState, "OFF", "NONE") EXCEPT !.displayed = FALSE]
    /\ tr = [f \in Fingers |-> NewTracker]
    /\ queue = <<>>
    /\ panel = [finger |-> NoKey, shown |-> FALSE]
    /\ touching = {}

\* ACTION_DOWN.  A modifier key first releases every other finger.  (The noise
\* filter of onDownEvent never applies: mUpTime is never assigned.)
Down(f, key, lift, caps) ==
    LET cleared == IF IsModifier(key) THEN ReleaseAllExcept(World, NoKey, lift, caps) ELSE World
        added == [cleared EXCEPT !.queue = Append(@, f), !.tr[f] = NewTouch(@)]
    IN  /\ f \notin touching
        /\ key = NoKey => "outside" \in Events
        /\ touching' = touching \cup {f}
        /\ IF Heard(f) THEN Becomes(DownInternal(added, f, key, caps))
           ELSE UNCHANGED <<kb, queue, panel>> /\ tr' = [tr EXCEPT ![f] = NewTouch(@)]

\* ACTION_UP.
Up(f, lift, caps) ==
    LET released == IF IsModifier(tr[f].key) THEN ReleaseAllExcept(World, f, lift, caps)
                    ELSE ReleaseOlderThan(World, f, lift, caps)
        up == UpInternal(released, f, lift, caps)
    IN  /\ f \in touching
        /\ touching' = touching \ {f}
        /\ IF Heard(f) THEN Becomes([up EXCEPT !.queue = Forget(@, f)])
           ELSE UNCHANGED <<kb, tr, queue, panel>>

\* ACTION_MOVE to another key, or off the keys.  A finger that came down on
\* space or delete stays there and moves the cursor.
Move(f, key, caps) ==
    /\ "drag" \in Events /\ f \in touching /\ Heard(f)
    /\ ~tr[f].disabled /\ ~tr[f].panel
    /\ ~(tr[f].slidingCursor /\ SlidesCursor(tr[f].key))
    /\ key /= tr[f].key
    /\ Becomes(MoveTo(World, f, key, caps))
    /\ UNCHANGED touching

\* The cursor moves by some steps; on delete, codes are sent when the editor
\* does not report a cursor position.
MoveCursor(f, deletes, caps) ==
    LET key == tr[f].key
        m == [World EXCEPT !.tr[f] = [tr[f] EXCEPT !.cursorMoved = TRUE,
                                                   !.repeat = @ /\ key /= "DELETE",
                                                   !.longPress = @ /\ key /= "DELETE"]]
    IN  /\ "drag" \in Events /\ f \in touching /\ Heard(f)
        /\ ~tr[f].disabled /\ ~tr[f].panel
        /\ tr[f].slidingCursor /\ SlidesCursor(key)
        /\ Becomes(IF key = "DELETE" /\ deletes
                   THEN SendDelete(m, f, "DELETIONS", caps) ELSE m)
        /\ UNCHANGED touching

\* The finger leaves its panel, which dismisses the panels of all fingers.
LeavePanel(f) ==
    /\ "drag" \in Events /\ f \in touching /\ Heard(f)
    /\ tr[f].panel /\ ~tr[f].disabled /\ panel.finger = f
    /\ tr' = [g \in Fingers |-> [tr[g] EXCEPT !.panel = FALSE]]
    /\ panel' = [panel EXCEPT !.shown = FALSE]
    /\ UNCHANGED <<kb, queue, touching>>

\* ACTION_CANCEL of the whole gesture; f is the pointer it names.
Cancel(f, lift, caps) ==
    LET off == [World EXCEPT !.tr = [g \in Fingers |->
                  [tr[g] EXCEPT !.disabled = @ \/ (Contains(queue, g) /\ ~tr[g].panel)]]]
        rel == ReleaseAllExcept(off, NoKey, lift, caps)
        self == [rel EXCEPT !.tr[f] = [@ EXCEPT !.longPress = FALSE, !.repeat = FALSE,
                                                !.dragging = FALSE, !.sliding = FALSE]]
    IN  /\ "cancel" \in Events /\ f \in touching
        /\ touching' = {}
        /\ IF Heard(f) THEN Becomes(DismissPanel(self, f))
           ELSE UNCHANGED <<kb, tr, queue, panel>>

-----------------------------------------------------------------------------
(***************************************************************************)
(* Handler messages and calls from the editor.                             *)
(***************************************************************************)

\* MSG_LONGPRESS_KEY and MSG_LONGPRESS_SHIFT_KEY: all the others are dropped.
LongPress(f, picker, caps) ==
    LET quiet == [World EXCEPT !.tr = [g \in Fingers |-> [@[g] EXCEPT !.longPress = FALSE]]]
    IN  /\ tr[f].longPress
        /\ Becomes(LongPressed(quiet, f, picker, caps))
        /\ UNCHANGED touching

\* MSG_REPEAT_KEY: the key is pressed and typed again, and the timer restarts.
\* With text before the cursor the deletion asks for the shift update later: that
\* one is an EditorUpdate.
Repeat(f, later, caps) ==
    LET key == tr[f].key
        k == OnPressKey(kb, "OTHER", Len(queue) = 1, caps, "NONE")
        pressed == IF tr[f].disabled THEN World ELSE Listen(World, k)
        t == pressed.tr[f]
        again == [pressed EXCEPT !.tr[f] = [t EXCEPT !.repeating = TRUE,
                                                     !.typed = Typing(t.typed, "DELETIONS")]]
        typed == IF later THEN OnEvent(again.kb, "OTHER", caps, "NONE")
                 ELSE CodeInput(again.kb, "OTHER", caps)
    IN  /\ tr[f].repeat
        /\ Becomes(IF key /= "DELETE"
                   THEN [World EXCEPT !.tr[f] = [@ EXCEPT !.repeating = FALSE, !.repeat = FALSE]]
                   ELSE Listen(again, typed))
        /\ UNCHANGED touching

ShiftTapTimeout ==
    /\ DoubleTapTimeout
    /\ UNCHANGED <<tr, queue, panel, touching>>

\* MSG_UPDATE_SHIFT_STATE and every other update the editor asks for.
EditorUpdate(caps) ==
    /\ Becomes(Listen(World, OnUpdateShiftState(kb, caps, "NONE")))
    /\ UNCHANGED touching

\* Bug: the timers stop and the panels go, but the fingers stay active.
CancelOnlyTimersAndPanels(w) ==
    [w EXCEPT !.tr = [f \in Fingers |-> [@[f] EXCEPT !.longPress = FALSE, !.repeat = FALSE,
                                                     !.panel = FALSE]],
              !.panel.shown = @ /\ \A f \in Fingers : ~w.tr[f].panel]

\* MainKeyboardView.cancelAllOngoingEvents: the timers stop, the panels go, and
\* the fingers in the queue are cancelled but stay there.
CancelAllOngoingEvents(w) ==
    [w EXCEPT !.tr = [f \in Fingers |->
                        [w.tr[f] EXCEPT !.longPress = FALSE, !.repeat = FALSE, !.panel = FALSE,
                                        !.disabled = @ \/ Contains(w.queue, f)]],
              !.panel.shown = @ /\ \A f \in Fingers : ~w.tr[f].panel]

\* onStartInputViewInternal in a different field: closing() cancels what is
\* going on, then the keyboard is loaded.  Fingers may still be down.
NewField(caps) ==
    LET closed == CancelAllOngoingEvents(World)
        marked == [closed EXCEPT !.tr = [f \in Fingers |->
                     [closed.tr[f] EXCEPT !.stale = @ \/ f \in touching]]]
    IN  /\ "newField" \in Events
        /\ Becomes(Listen(marked, LoadKeyboard(kb, caps, "NONE")))
        /\ UNCHANGED touching

\* onStartInputViewInternal restarting in the same field.
Restart(caps) ==
    LET k == ResetKeyboardStateToAlphabet(kb, caps, "NONE")
    IN  /\ "restart" \in Events
        /\ Becomes(Listen(World, OnUpdateShiftState(k, caps, "NONE")))
        /\ UNCHANGED touching

TouchNext ==
    \/ ShiftTapTimeout
    \/ \E f \in Fingers : LeavePanel(f)
    \/ \E caps \in AutoCaps :
          \/ EditorUpdate(caps)
          \/ NewField(caps)
          \/ Restart(caps)
          \/ \E f \in Fingers :
                \/ \E key \in Keys \cup {NoKey} :
                      \/ \E lift \in Lifts : Down(f, key, lift, caps)
                      \/ Move(f, key, caps)
                \/ \E lift \in Lifts : Up(f, lift, caps) \/ Cancel(f, lift, caps)
                \/ \E b \in BOOLEAN :
                      \/ MoveCursor(f, b, caps)
                      \/ LongPress(f, b, caps)
                      \/ Repeat(f, b, caps)

TouchSpec == TouchInit /\ [][TouchNext]_touchVars

TouchTypeOK ==
    /\ TypeOK
    /\ tr \in [Fingers -> Trackers]
    /\ queue \in Seq(Fingers)
    /\ panel \in [finger : Fingers \cup {NoKey}, shown : BOOLEAN]
    /\ touching \subseteq Fingers

-----------------------------------------------------------------------------
(***************************************************************************)
(* Safety.                                                                 *)
(***************************************************************************)

\* The finger, lifted really or virtually, types a key or its selection.
TypedMore(f)  == tr'[f].typed \notin {tr[f].typed, "NOTHING", "DELETIONS"}
Lifted(f)     == f \in touching /\ f \notin touching'

\* The finger came down on the key and is still there.
Holds(f, key) ==
    /\ f \in touching /\ Contains(queue, f)
    /\ tr[f].key = key /\ ~tr[f].dragging /\ ~tr[f].disabled

\* The queue holds fingers on the glass, each once, although it shrinks in the
\* middle of events of other fingers; and a long press or key repeat is queued
\* only for a finger that can still act on it, so that no timer outlives a touch
\* that was released, cancelled or flushed by another finger, nor its text field.
QueueAndTimersAreLive ==
    /\ IsInjective(queue) /\ ToSet(queue) \subseteq touching
    /\ \A f \in Fingers :
          /\ tr[f].longPress \/ tr[f].repeat =>
                f \in touching /\ ~tr[f].disabled /\ ~tr[f].stale /\ tr[f].key /= NoKey
          /\ tr[f].repeat => Contains(queue, f) /\ tr[f].key = "DELETE"

\* A shift or ?123 key that KeyboardState believes to be held is under a finger
\* that came down on it and has not left it.
HeldModifierHasFinger ==
    /\ kb.shiftKey /= "RELEASING" => \E f \in Fingers : Holds(f, "SHIFT")
    /\ kb.symbolKey /= "RELEASING" => \E f \in Fingers : Holds(f, "SWITCH_ALPHA_SYMBOL")

\* A slide from ?123 or from shift on the letters is over when the last finger
\* is up, however the other finger interfered: no momentary page stays on.
NoMomentaryPageAtRest ==
    touching = {} =>
        kb.switchState \notin {"MOMENTARY_ALPHA_AND_SYMBOL", "MOMENTARY_ALPHA_SHIFT"}

\* A slide from ?123 to another key, or off the keys, ends on the page it
\* started from, unless ?123 was pressed or typed again meanwhile.
SlideReturns ==
    [][\A f \in Fingers :
          Lifted(f) /\ tr[f].sliding /\ ~tr[f].disabled /\ tr'[f].home /= "NONE" =>
             kb'.isAlphabetMode = (tr'[f].home = "ALPHA")]_touchVars

\* A touch types a key or the selection it swiped once, and nothing after it: not
\* again when it is really lifted after a phantom up event, a long press or a
\* panel, and no late repeat or step of a swipe.
TypedOnce == \A f \in Fingers : tr[f].typed /= "MORE"

\* On a keyboard without panels a touch that deleted by repeats or by a swipe
\* types no key when it is lifted, also not when another finger lifts it.
NoKeyAfterDeletions == \A f \in Fingers : tr[f].typed /= "KEY_TOO"

\* Keys are typed in the order their fingers came down: when a finger types,
\* every older finger has typed or gone, or is on a modifier key.
OlderFingersTypedFirst ==
    [][\A i, j \in DOMAIN queue :
          i < j /\ TypedMore(queue[j]) =>
             ~Contains(queue', queue[i]) \/ IsModifier(tr[queue[i]].key)]_touchVars

\* A finger that was down when the text field changed types no key into the new
\* field and repeats no deletion there; only the end of a swipe that was under way
\* may still delete what is selected.
StaleTouchTypesNoKey ==
    [][\A f \in Fingers : tr[f].stale /\ tr'[f].typed /= "NOTHING" =>
          \/ tr'[f].typed = tr[f].typed
          \/ tr'[f].typed = "SELECTION" /\ tr[f].cursorMoved /\ tr[f].key = "DELETE"]_touchVars

\* While no finger is on the shift key, caps lock stays as it is (a new field
\* aside): no other key, slide, chord, timer or update turns it over.
LockTurnsUnderShiftOnly ==
    [][(CapsLocked /= CapsLocked' /\ kb.saved = kb'.saved) =>
         \/ \E f \in Fingers : "SHIFT" \in {tr[f].key, tr'[f].key}
         \/ \E caps \in AutoCaps : NewField(caps)]_touchVars

\* KeyboardActionListener: "onPressKey ... is sent before the onCodeInput is
\* called": the letter, space or delete that a lifted finger types, it announced.
LetterPressedBeforeTyped ==
    [][\A f \in Fingers :
          TypedMore(f) /\ tr[f].key \in {"LETTER", "SPACE", "DELETE"} /\ ~tr[f].panel =>
             tr[f].announced = tr[f].key]_touchVars
=============================================================================
