# TLA+ models of the FUTO keyboard

The keyboard is an Android input method: a fork of AOSP LatinIME in Java, with a
transformer language model, voice input and a Compose user interface in Kotlin,
and dictionaries and inference in C++. This directory models what decides what a
touch types (`KeyboardState`, `Touch`), how the word typed gets its correction
(`Suggestions`), and where the corrections come from: the cached context of the
language model (`LmContext`) and the dictionaries that learn, as the Java side runs
them (`ExpandableDictionary`) and as the native side stores them (`PatriciaTrie`).
Below: the inventory of the system, the plan, then the modules, what the runs
show, and what is proved. Paths are relative to
`src/java/src/org/futo/inputmethod/` unless they begin with `src/`.

## 1. Inventory

| Component | State it keeps | Operations | Talks to | Hard about it | Correct when |
|---|---|---|---|---|---|
| `keyboard/internal/KeyboardState` with `AlphabetShiftState`, `ShiftKeyState`, `ModifierKeyState` | page flags, switch state, alphabet shift state, the two modifier keys, the saved state, two "previous" flags | load, save, update shift, reset, press, release, type, finish sliding | `KeyboardSwitcher` through `SwitchActions`, which calls back at once | six fields describe one page; the lock lives in three places; a redraw is skipped when the old state says so | the fields agree with each other and with the display; caps lock is remembered |
| `keyboard/PointerTracker` (one per finger) | current key, dragging, sliding, disabled, panel, cursor and repeat flags | down, move, up, cancel, phantom up, long press, repeat | the listener (`LatinIMELegacy`), the queue, the timers, panels | an event of one finger runs code of the others; keys that were pressed disappear with a layout change | a touch types once, in order, what it pressed; nothing stays held |
| `PointerTrackerQueue` | active fingers, oldest first | add, remove, release older / except / all, cancel all | trackers | it changes while it is iterated over | it holds live fingers, each once |
| `TimerHandler` | queued Handler messages | start, cancel, handle | trackers, `MainKeyboardView` | a message outlives its reason | it fires only for a touch that can use it |
| `MainKeyboardView`, `MoreKeysKeyboardView` | panel on display and its finger | filter events, show / dismiss panel, cancel everything | trackers | other fingers under a panel | ignored touches stay ignored |
| `KeyboardSwitcher` | keyboard on display | load, save, set keyboard | `KeyboardState`, view | synchronous callbacks | the display follows the state |
| `latin/LatinIMELegacy` and its `UIHandler` | pending framework callbacks, the field's `EditorInfo`, queued messages | start / finish input, key callbacks, retries | everything | callbacks postponed over a rotation; messages against calls of a dictionary thread | every started input is finished once; the view is loaded for the current field |
| `latin/inputlogic/InputLogic`, `WordComposer`, `RichInputConnection` | composing word, space state, cached text and cursor | code input, batch input, cursor moves | editor over IPC, suggestions | belated selection updates | the caches equal the editor's text |
| `latin/ExpandableBinaryDictionary` with its subclasses `UserHistoryDictionary`, `UserBinaryDictionary` | native dictionary, file, `mIsReloading`, `mNeedsToRecreate`, read/write lock | query, update, reload, close, clear, flush | one background executor, content provider, disk | asynchronous reload racing queries, closes and removals; a flush in two steps on disk | no query without a live dictionary; one reload at a time, and it ends; what was saved stays |
| `latin/DictionaryFacilitatorImpl` | the group of dictionaries of a locale | reset, load main asynchronously, query | the dictionaries | swap of the group under queries | queries use a live group |
| `latin/xlm/LanguageModelFacilitator` | sequence ids, semaphore, model, timeout count | request, process, wait, destroy | coroutines, `InputLogic`, `WordComposer` | conflated requests against a blocking wait; answers written from another thread | the newest request is answered, its answer prevails, a waiter is woken |
| native `LanguageModelState` (`src/native/jni/org_futo_inputmethod_latin_xlm_LanguageModel.cpp`, `ggml/context.cpp`, the cache of `ggml/llama.cpp`) | key-value cache, `active_context`, `past_mixes`, hypotheses | predict, correct, rescore, reset | facilitator, one thread | what is reused must be what the request asks about; hypotheses share one cache | the logits sampled continue the request |
| native dictionary, format 4 (`src/native/jni/src/dictionary/structure`) | trie nodes and arrays in a buffer, lookup table, probability entries | add, count, remove, compact | `BinaryDictionary` | nodes move and are split, ids are reused and renumbered | a word, its node and its id lead to each other; words are independent |
| `latin/xlm/TrainingWorker`, `ModelPaths` | training log, model files | train, import, reset | facilitator | background work on files in use | - |
| Voice input, clipboard history, UIX, settings, updates, event combiners, the suggestion search of the native decoder | see `PROJECT.json` | | | mostly I/O, UI and text transformation | - |

Everything a touch does runs on the main thread, one motion event or Handler
message at a time; the hard behaviours there are orders of events nobody wrote a
test for, early returns, and state that outlives its reason. The dictionaries
and the language model add threads, locks, coroutines and a file that survives
the process; the native code adds state that is reused from one call to the next.
`PROJECT.json` lists the hazards at their lines, with the properties that cover
them or the reason why none does.

## 2. Plan

Done, in the order of what decides most about a word typed:

1. `ShiftStates`, `KeyboardState` (with the abstract `CapsLock` it implements),
   `Touch` = trackers, queue, timers, panels composed with `KeyboardState`;
   `KeyboardState_proofs`, `Touch_proofs`.
2. `ExpandableDictionary` and `ExpandableDictionary_proofs`.
3. `Suggestions` and `Suggestions_proofs`.
4. `LmContext` and `LmContext_proofs`.
5. `PatriciaTrie`, with the abstract `LearnedWords` it implements;
   `PatriciaTrieShape_proofs`, `PatriciaTrie_proofs`.

Left:

* `ImeLifecycle`: the postponed framework callbacks of `UIHandler` (lines 425-534 of
  `LatinIMELegacy`) over a rotation, the retry of the input connection's caches, the
  wait for the dictionary; an abstract order of start, view and finish that it refines.
* An abstract specification of typing (keys are typed in the order of their
  presses, each press once) refined by `Touch`.
* Proofs: of `Touch`, the modifiers and the slides (`HeldModifierHasFinger`,
  `NoMomentaryPageAtRest`, `SlideReturns`).
* Candidates: the caches of `RichInputConnection`, the swap of dictionary groups in
  `DictionaryFacilitatorImpl`, the jobs of voice input, gesture input in `Touch`,
  loading and destroying the language model in `Suggestions`.

## 3. Modules

* **`ShiftStates`** - the three small state classes as pure operators.
* **`KeyboardState`** - the class is one record `kb`; every method is an operator
  from the record before the call to the record after it, so nested calls compose
  as in the source, the synchronous callback
  `requestUpdatingShiftState` -> `onUpdateShiftState` included. Three fields belong
  to the other side of `SwitchActions`: `layout` (the keyboard on display),
  `displayed` (did the call display one) and `doubleTapTimer`. Its own `Spec` lets
  every callback happen in any order with any argument: an over-approximation of
  every caller, so its safety properties hold for all of them.
* **`CapsLock`** - the abstract promise: one bit, turned over on the letters only,
  untouched by page changes, kept over save and load. `KeyboardState` implements it
  with `alphabet <- isAlphabetMode`, `locked <-` the lock bit in whichever of its
  two homes, `saved <-` the saved lock.
* **`Touch`** - `PointerTracker`, its queue, the timers, the panel and the event
  filter, composed with `KeyboardState` (it EXTENDS it and applies its operators). An
  action is one motion event, one Handler message or one call of the editor, with
  everything the handler does. `kb` is the keyboard state; `tr` the tracker of each
  finger; `queue`, `panel`, `touching` are shared. Four fields of a tracker
  (`announced`, `typed`, `home`, `stale`) are history the properties speak about; no
  guard reads them. `typed` is what the touch has sent so far: nothing, deletions
  (repeats of delete, or the steps of a swipe from it), a key, the selection a swipe
  from delete made, a key on top of deletions, or more than that. What an up event
  finds in the view and the editor is its parameter `lift`: is the finger over a key
  of its panel, and has a finger that swiped from delete left text selected. The end
  of such a swipe (`onUpWithDeletePointerActive`, `PointerTracker.java:1009`) deletes
  the selection before every early return of `onUpEventInternal`, on phantom up events
  and for cancelled fingers too; the end of a swipe from space only restarts the
  suggestions, and types nothing. A repeated delete asks for its shift update at once
  or, with text before the cursor, later (`Repeat`): the later one is an
  `EditorUpdate`.
* **`Suggestions`** - the main thread (`word`, `correction`, `main`), which types,
  erases, commits and posts numbered requests, and the coroutine that answers them
  (`at`, `request`, `looked`, `answer`), which writes its decision into the main
  thread's composer when it gets there. The steps of both interleave where the code
  shares state: the request may be overtaken at each of the processor's steps, and
  the check of the sequence id and the show that follows it are two steps. A
  separator commits at once when nothing is being computed; otherwise it waits for
  the semaphore and then for the newest id, and may time out in either wait. Words
  are numbered by the request that follows the key which made them, which is all
  that matters about a word here: a decision is right when it is about that word.
* **`LmContext`** - one native model. A cell of the key-value cache is the set of
  sequences that own it, its position, and the text its token was computed over,
  which is what its contents depend on; a token computed over cells that do not
  form one text is `Garbled`. `SeqRm`, `SeqCp` and `Decode` are the cache operations
  of llama.cpp; `FastForward` and `CachedMixes` decide what a request reuses. A
  request is decoded in steps (batches of the prompt, then the touches of the word
  one by one, each of which may fail), then sampled: hypotheses are begun, decoded,
  extended, and given sequences of their own. Probabilities are left open: every
  ranking of tokens and every choice of continuations is possible; the score of a
  hypothesis is the list of texts whose probabilities were multiplied. `spoiled` is
  history: it is set by a failed decoding, by a second batch of one prompt and by
  sampling given up among its hypotheses, and reset when the cache is emptied.
* **`ExpandableDictionary`** - calls of any number of threads, each in its steps
  (`pc`): the unlocked test whether to reload, the compare-and-set of
  `mIsReloading`, the queueing of the reload, then the call's own task or the read
  lock with its time-out. The executor (`queue`, `task`, `at`) takes the write lock
  for each task and runs it in the steps that the disk and the flags can tell apart.
  `kind` picks the subclass: the typing history (updates, flush before close, kept
  in a cache and reopened, cleared with personalization) or the user's word list
  (recreated when its content provider changes). A dictionary's contents are a set
  of words and the version of the provider it was built from. `Crash` ends the
  process between any two steps and keeps the file.
* **`PatriciaTrie`** - the buffers of one dictionary of format 4 as a record `d` of
  nodes, arrays of siblings, lookup table, counts and pairs. `Walk` and the four ways
  to insert a word are the code's; a moved node forwards to its copy, children find
  their new parent through it. `Compacted` is the garbage collection with its
  renumbering, over any choice of expired entries. Letters are numbers, counts are
  0 or 1 (seen, known), and an n-gram is a pair.
* **`LearnedWords`** - the abstract promise: words are seen, known or absent; an
  operation on one word changes no other, and only words forgotten (removed, or
  expired in a compaction) go. `PatriciaTrie` implements it with the words read back
  from the lookup table through the parents (`WordsAreIndependent`).
* **`MCKeyboardState`, `MCTouch`, `MCSuggestions`, `MCLmContext`,
  `MCExpandableDictionary`, `MCPatriciaTrie`** - sets of codes, fingers, tokens,
  threads and words, and symmetry where values are interchangeable.
* **`KeyboardState_proofs`, `Touch_proofs`, `ExpandableDictionary_proofs`,
  `Suggestions_proofs`, `LmContext_proofs`, `PatriciaTrieShape_proofs`,
  `PatriciaTrie_proofs`** - the proofs.
* **`FoldFacts`** - lemmas about folds over a sequence and about recursive functions,
  for any operation; it models nothing. `Touch_proofs` instantiates it for the loops
  over the pointer queue, `LmContext_proofs` for those over batches, cells and
  hypotheses, and `PatriciaTrieShape_proofs` for the walks over the trie and the
  copies of a compaction.

Operators named in a comment `Bug: ...` are faulty variants of the definition that
follows them. They are used by no specification; `PROJECT.json` names the property
each one breaks when it takes the definition's place.

### Abstractions

* Auto caps is `OFF`, `WORDS` or `CHARACTERS`; key codes are the classes
  `KeyboardState` tells apart. Each step chooses the editor's caps value once: a
  handler that updates the shift state twice keeps only the last update.
* A key is its code and has the same place on every page, so the lookup after a
  layout change finds the key again. Key geometry (hysteresis, sudden-move and
  bogus-move corrections) is left out: a move either changes the key or does not.
  Dragging is allowed from every key, as all shipped configurations set it.
* Gesture input is off, and so are recapitalization (in `Touch`; `KeyboardState`
  has it) and the accessibility delegate. `mIsEmojiMode` is never set by the code,
  `CODE_ALPHA_FROM_EMOJI` is on no installed keyboard, and the up-to-down noise
  filter of `onDownEvent` compares with `mUpTime`, which is never assigned: all
  three are dead in the source and in the model.
* Delays are not measured: a queued message may fire at any moment while queued.
* `Suggestions`: auto-correction and the transformer are on and the language stays,
  so that no request takes the legacy way through Handler messages. Every change of
  the word is followed by a request. The code posts none after separators other than
  space (`InputLogic.java:995-1018`), with lookups switched off, without a connection or
  after `ignoreNextUpdate` (`LanguageModelFacilitator.kt:505-515`), and when a word
  with suggestion spans is resumed (`InputLogic.java:1692-1720`); and it drops a
  request without answering it when there is no keyboard yet (line 236). What an older
  answer does to a word changed in these ways is not modelled, and the properties do not
  speak of it. The suggestion
  algorithms are a choice of a decision among the words asked about. The composer is
  shared without a lock in the code; a step of the model reads or writes it once.
* `ExpandableDictionary`: a query thread gives up on the lock only when a task wants
  or holds it (`tryLock` would succeed otherwise). Calls begin only while the queue
  has room (`MaxQueue`), which bounds the state and not the code. A flush does not
  fail and a removal deletes what it should. A dictionary loaded from an absent file
  cannot happen: the reload creates one. The migration of an older format
  (`BinaryDictionary.java:589-626`: delete, then rename) succeeds or fails in one step,
  so that no crash falls between the two; the flush, which does the same, is in steps.
* `LmContext`: tokens and touches are model values, tensors are not modelled. A
  touch's mix is told apart by its place and token alone, as `past_mixes` compares
  them. The contexts of the runs do not contain the token `XBU` that marks the user's
  input (`MarkIsOurs` in section 5): tokenization is not modelled.
* `PatriciaTrie`: bytes, shortcuts, timestamps and the limits of the counters are left
  out, and so is the context of a word at the beginning of a sentence, which the code
  adds as a word of its own (`ver4_patricia_trie_policy.cpp:380-422`); `MaxNodes`
  stands for the buffer size from which the code refuses updates, checked before an
  insertion as there, which may therefore exceed it.

## 4. Runs

No run constrains the state: the state spaces are finite as they stand, and every
passing run explores them completely. Deadlock is checked everywhere.

| Run | Instance | Shows |
|---|---|---|
| `KeyboardState` | 2 caps values, 3 recapitalize modes, the codes of `RecapCodes`; 274,778 states | page flags, switch state and display agree (`PagesCoherent`); a drawn lock is a lock (`LockDisplayHonest`) |
| `KeyboardStateCaps` | 3 caps values, no recapitalization, every installed code; 59,633 states | `CapsLockRemembered` (implements `CapsLock`), `CapsLockOnlyByShiftKeys`, `ManualDisplayHonest`; an update takes no shift away while its key is held (`HeldShiftStays`) |
| `TouchSlide` | 3 fingers, shift / ?123 / a letter, drags; 59,262 states up to symmetry | types, those of `KeyboardState` among them; nothing stays held (`HeldModifierHasFinger`), no momentary page at rest, slides come home (`SlideReturns`), only shift turns the lock (`LockTurnsUnderShiftOnly`) |
| `TouchField` | 2 fingers, shift / letter / space / repeating delete, long presses of shift and space, drags and swipes, cancelled gestures, new and restarted fields; 164,388 states | no dead finger in the queue or behind a timer (`QueueAndTimersAreLive`), no key typed into the wrong field (`StaleTouchTypesNoKey`), on top of deletions (`NoKeyAfterDeletions`), or unannounced (`LetterPressedBeforeTyped`) |
| `TouchPanel` | 2 fingers, letter with panel / space with long press / repeating delete, drags and swipes, places off the keys; 40,317 states | a touch types one key or selection, and nothing after it (`TypedOnce`); older fingers type first (`OlderFingersTypedFirst`) |
| `Suggestions` | 5 requests, the transformer disabled by the second timeout in a row; 164,115 states | `AnsweredMeansFresh`, `WaitedCommitIsRight`; liveness: `NewestIsAnswered`, `WaitEnds` |
| `Lm` | 2 contexts, one a prefix of the other, 2 touches, words of up to 2 letters, 3 tokens, batches of 2, 2 hypotheses, one round of continuations, one failure; states up to symmetry | what is reused is what the request asks about (`CacheIsWhatItClaims`, `AnswersTheRequest`), hypotheses have sequences of their own (`HypothesesApart`) |
| `Dictionary` | 2 threads, 1 word, room for 2 tasks, one change of the provider, one death of the process, either subclass, any file left behind; 233,841 states | `ReadersHaveDictionary`, `OneReload`, `MemoryCoversFile`, `PendingWritesFlushed`, `SavedWordsStay`; liveness: `ReloadEnds`, `CallsReturn` |
| `Trie` | 5 words over 2 letters, the one of two letters that begin a third as context, updates refused from 3 nodes; 21,910 states | `WordsRoundTrip`, `EntriesBelongToWords`, `CompactionKeepsWords`, `PairsComeFromTyping`, and the refinement of `LearnedWords` (`WordsAreIndependent`) |

Why the bounds are enough:

* Touch: two fingers show each kind of interference between two (an event of one
  acting on another); the third of `TouchSlide` lets a modifier be held while two
  others chord or slide, so that the queue has a kept part on both sides of the finger
  that is lifted. Instances differ in the keys because the product of all keys and
  events is out of reach, and because a property is checked where the code keeps it:
  `HeldModifierHasFinger` and `NoMomentaryPageAtRest` do not survive a cancelled
  gesture or a panel (below). That two or three fingers are enough is no longer an
  argument where a theorem says so for any number (section 5). Where it does not, it
  can be wrong: `OlderFingersTypedFirst` holds in `TouchPanel` because a finger that
  is left in the queue and comes down again needs two others to show (below).
* `Suggestions`: a request can be computed, one collected too late, one dropped by
  conflation, one posted while the answer is checked, and a fifth after the commit;
  two timeouts disable the transformer and the next field enables it again.
* `Lm`: the prompts of the two contexts extend, shorten and repeat one another and
  the longest needs a second batch; two touches make cached mixes extend and shorten;
  two hypotheses can come from one parent, which is when sequences are reassigned,
  with several rounds left to the argument that a round depends on the last only.
* `Dictionary`: two threads reach the unlocked test together; two queued tasks are
  a close behind a flush or a reload behind a removal; the crash falls between any
  two steps of each task.
* `Trie`: the five words make every kind of insertion happen (a sibling, a split
  with and without a new branch, an intermediate node that becomes a word, a first
  child); three nodes and what an insertion adds to them leave room for a chain of
  moves, a forward link of arrays, and compactions before and after. The context is
  a word of two letters, so that a split can revive it after its removal (below).

### Fairness

`KeyboardState`, `Touch`, `LmContext` and `PatriciaTrie` state none: a finger need
not lift, a message may stay queued, and nothing must be asked.

`ExpandableDictionary`: weak fairness of the executor, a thread pool thread of the
process that nothing but a reader's lock holds up, and of each thread that has begun a
call. Readers let go of the lock (their fairness), and no new one overtakes a waiting
writer, which is how `ReentrantReadWriteLock` treats a writer at the head of its
queue; a reader that cannot get the lock times out. No fairness for the user, the
provider or the crash.

`Suggestions`: weak fairness of the processor, a coroutine on `Dispatchers.Default`
that runs as long as the service's lifecycle, and of the main thread's own steps. None
for the timeout: that a wait ends is shown without its help. None for the user.

### Disagreements

Three runs must find their property violated:

* `TouchMomentary`: slide from shift or ?123 onto a letter, hold until its panel
  opens, lift: `onUpEventInternal` returns in the panel branch and
  `onFinishSlidingInput` is never called; the momentary page stays.
* `LmScores`: the score of a continued hypothesis is the candidate's probability times
  the score of the hypothesis at the candidate's rank, not of its parent
  (`sequences[i]` for `sequences[seq]`).
* `SuggestionsCommit`: a decision computed before the last letters is written into
  the composer after them, by the dictionary path, which does not compare the
  sequence id, or by the other between its check and its show. A separator pressed
  before the next computation takes the semaphore does not wait and commits it.

Others were met while modelling. The modules contain the behaviour, and no property
is stated that the code does not keep:

* Auto caps on, shift tapped off, rotate: the keyboard comes back drawn as
  automatically shifted while its state is unshifted (`KeyboardState.java:179`).
* A tap of the shift key of the symbols is typed as `CODE_SYMBOL_SHIFT`, and
  `KeyboardState` waits for `CODE_SHIFT` (line 632): the momentary state stays, so
  that a symbol and a space no longer return to the letters.
* Slide from a letter onto shift and lift: shift is typed and released, but never
  pressed (`PointerTracker.java:1000`; `KeyboardActionListener.java:24`). For letters
  the contract is kept and checked, `LetterPressedBeforeTyped`.
* Swipe from delete, and lift the finger after a new field has cancelled it: what is
  selected in the new field is deleted, because the end of the swipe comes before the test
  whether the tracker is disabled (`PointerTracker.java:1009`, against the comment at
  142: "no longer triggering any action because it has been canceled"). The model
  does so too; `StaleTouchTypesNoKey` allows this one and nothing else. A cancelled
  gesture has the same effect in the same field.
* A finger whose down event was dropped under a panel types a key when it moves and
  lifts after the panel is gone (`MainKeyboardView.java:731`). It is not in the queue:
  it may open a panel of its own, a new field does not cancel it, and while its panel
  is up the lift of another finger is dropped and leaves that one in the queue, twice
  when it comes down again. TLC refutes `QueueAndTimersAreLive`,
  `StaleTouchTypesNoKey`, `LetterPressedBeforeTyped` and `NoKeyAfterDeletions` with
  panels and two fingers, and `OlderFingersTypedFirst` with panels and three.
* `mNeedsToRecreate` set while a reload runs is cleared by that reload
  (`ExpandableBinaryDictionary.java:624`): the change of the provider is not loaded.
* A compaction keeps a leaf that lost its last child, because the count of children
  is not reset for it (`dynamic_pt_gc_event_listeners.cpp:43`, against the comment at
  29); it costs space, and the next compaction may remove it.
* A prompt longer than one batch loses the cells of its earlier batches
  (`org_futo_inputmethod_latin_xlm_LanguageModel.cpp:354`); a failed decoding and NaN
  logits among the hypotheses leave the cache other than what is claimed. The
  properties of `LmContext` about the cache hold until one of these happens
  (`spoiled`) and again after the next reset.
* A wait that times out sends the separator without committing the word
  (`LanguageModelFacilitator.kt:153`).

## 5. Proofs

`KeyboardState_proofs` proves for every `AutoCaps`, `RecapModes` and `KeyCodes`
within `CapsAssumption`:

* `TypeCorrect`: `Spec => []TypeOK`;
* `PagesAlwaysCoherent`: `Spec => []PagesCoherent`;
* `LockNeverMisdrawn`: `Spec => []LockDisplayHonest`.

None of the three is inductive alone. The proof carries one inductive invariant,
`Good`: the types, the coherence of the pages, the honesty of the drawn lock, and that
the emoji mode is never set. The parts need each other: whether `setShiftLocked` has
to redraw can only be told when the alphabet shift state is that of the page shown,
the release of a chord and `toggleAlphabetAndSymbols` rely on each switch state
belonging to one page, and a reload with an emoji mode saved would restore it over a
shift state that was just reset. The argument is by lemmas about the operators, one
per method, bottom up (`SetShifted`, `SetShiftLocked`, `UpdateAlphabetShiftState`,
`SetAlphabetKeyboard`, `SetSymbols`, the toggles, restore and load, press, release,
slide, type): each says that the method takes a record with the three properties to
one with them. The induction step then has one case per action and cites the lemma of
its method.

The second part of the module proves, under `NoRecapitalization` (the caller
never recapitalizes, and no installed key sends `CODE_ALPHA_FROM_EMOJI`):

* `CapsLockImplemented`: `Spec => CapsLockRemembered`, that is, `KeyboardState`
  implements `CapsLock`;
* `OnlyShiftKeysTurnOver`: `Spec => CapsLockOnlyByShiftKeys`;
* `ManualNeverMisdrawn`: `Spec => []ManualDisplayHonest`.

The assumption is needed: recapitalizing a selection sets the shift state from the
text, over a lock. The first two follow from what each method does to the lock in its
two homes, again one lemma per method: it keeps both homes (`Kept`), moves the lock
with the page (`Pages`), turns it over (`Turns`), saves it or loads it. `NextEffect`
puts them together, one case per action, and `EffectMaps` says which step of `CapsLock`
each effect is. `Good` is needed on the way: a toggle of the symbols' shift keeps the
lock only because its switch state belongs to the symbols, and the return to the
letters brings back exactly `mPrevMainKeyboardWasShiftLocked` only because the shift
state was reset when the letters were left. `Honest`, the third property, is inductive
with `Good`, and needs that an unlock of a keyboard shifted by hand never happens.

`ExpandableDictionary_proofs` proves for every set of threads and words, and every
number of queued tasks, changes of the provider and crashes, within
`DictionaryAssumption`:

* `TypeCorrect`: `Spec => []TypeOK`;
* `ReadersSafe`: `Spec => []ReadersHaveDictionary`, which with the types is inductive
  as it stands: a task begins only when nobody reads, and nobody begins to read while
  one runs;
* `OneReloadAlways`: `Spec => []OneReload`, from `TaskInv`. Where a reload is under way
  is split into the caller that won the flag, the queue and the executor; at most one
  holds, and one if the flag is set. That the flag is reset by the reload itself
  needs each step of the executor to belong to the task it runs;
* `MemoryNeverBehind`: `Spec => []MemoryCoversFile`, and `SavedWordsKept`:
  `Spec => SavedWordsStay`, an action property, both from `FileInv`: a flush has an
  open dictionary, no file is there while one is created, an unreadable file has no
  words to lose, and a history is never marked for recreation;
* `NothingUnsavedAtClose`: `Spec => PendingWritesFlushed`. The inductive part,
  `FlushInv`, says that every close of a typing history, running, queued or about to be
  queued, finds memory and file in agreement: a flush comes before it with no update
  in between, or no update comes before it and the two agree already or a flush is
  being run. It holds because only the main thread updates and closes, its close
  follows its flush at once, and what other threads queue between the two changes no
  word.

`Touch_proofs` proves for any fingers, keys and events, within `TouchAssumption`
(fingers are not keys; long press and repeat are styles of the keys that have them;
no recapitalization):

* `TouchTypeCorrect`: `TouchSpec => []TouchTypeOK`;
* `LockTurnsUnderShift`: `TouchSpec => LockTurnsUnderShiftOnly`;
* `TouchesTypeOnce`: `TouchSpec => []TypedOnce`;

and, for keyboards without more keys panels (`NoPanels`: no letter has a long press),

* `QueueAndTimersLive`: `TouchSpec => []QueueAndTimersAreLive`;
* `StaleTouchesTypeNoKey`: `TouchSpec => StaleTouchTypesNoKey`;
* `LettersPressedBeforeTyped`: `TouchSpec => LetterPressedBeforeTyped`;
* `TypedInOrder`: `TouchSpec => OlderFingersTypedFirst`.

`NoPanels` is needed: with panels the code does not keep the four (section 4). The
proofs go bottom up as the handlers call each other. `Board` is what `KeyboardState`
keeps under every call (`Good` and `Honest` of the proofs above, and that a keyboard
is displayed); each method of the tracker and of the queue has a lemma that says what
it does to the world it is given, and each action an `Effect` lemma in which no
definition of the model is left: which fingers are released (`Released`), lifted
(`Ended`), or left to themselves (`Beside`), and what the queue becomes. Over them,
`TypeInv` says that the world is well-formed; `OnceInv` that no finger both swipes and
follows a panel, and that one which has typed a key or its selection is on no key,
follows no panel, and is cancelled unless it is off the glass and out of the queue, so
that no event makes it type again; `LiveInv` that a finger with a timer can still act
on it, that a finger on the glass is in the queue or cancelled, and that one which can
still type has announced its key and is not of an earlier field. `TypistOrdered` adds
the order: the fingers an event makes type, and those it takes out of the queue, are a
prefix of it up to the modifiers. That a touch types no key after its deletions
(`NoKeyAfterDeletions`) is a property of its own, because panels break it and not
`TypedOnce`.

The loops over the queue are folds. What a fold does to every sequence is an
induction over its length, and the prover cannot instantiate an induction theorem
whose parameter is an operator; `FoldFacts` therefore states induction of a set
(`SetInduction`, from the well-foundedness of the natural numbers) and derives from it
that an invariant is carried through a fold (`FoldInvariant`), with the operation of
the fold as a constant of the module, which each use instantiates. In the same way
`RecursionUnfolds` says that a recursive function whose values depend on those of lower
rank satisfies the equation that defines it; `PatriciaTrieShape_proofs` needs it.

`Suggestions_proofs` proves for any number of requests and any limit on timeouts,
within `SuggestionsAssumption`:

* `TypeCorrect`: `Spec => []TypeOK`, where the type includes the order of the ids
  (`Ordered`): finished, in work, waiting, newest;
* `AnswersFresh`: `Spec => []AnsweredMeansFresh`;
* `WaitedCommits`: `Spec => WaitedCommitIsRight`, an action property.

The inductive invariant is `IInv`: the types, the property, and `Fresh`: while the
main thread types nothing, the newest request, wherever it is, is for the word in the
composer, and so is everything the processor has read since it took it. Without
`Fresh` the step that shows an answer says nothing about the word it is shown for;
without `Ordered` an older answer could be announced under the newest id.

`LmContext_proofs` proves for any contexts, touches, vocabulary, batch size, number of
results and number of failures, within `LmAssumption`:

* `LmTypeCorrect`: `Spec => []TypeOK`;
* `LmHypothesesApart`: `Spec => []HypothesesApart`: a free sequence is always found for
  a hypothesis that shares its parent's (`FreeFound`, a counting argument), and giving
  it away takes it from nobody;

and, where the token `XBU` is in no text before the cursor (`MarkIsOurs`),

* `LmCacheIsWhatItClaims`: `Spec => []CacheIsWhatItClaims`;
* `LmAnswersTheRequest`: `Spec => []AnswersTheRequest`.

`MarkIsOurs` is needed, and TLC shows it: if the text can contain the mark, a prompt
may be a proper beginning of the previous one and still end with it. Then nothing of the
prompt is left to decode, `n_past` is not set back, and the mixes of the last word
count as cached although other tokens were decoded at their positions
(`org_futo_inputmethod_latin_xlm_LanguageModel.cpp:424-426`, under the comment "We have
to recompute embeds completely if prompt changed"). Whether a text can produce the token
is up to the tokenizer, which is not part of the model. Without the mark in the text a
prompt ends with it exactly once, so no prompt begins another one that differs.

The invariant is `CacheInv`, with the types. `Holds(kv, text)` says that sequence 0
has one cell for each position of the text, computed over the text up to there; it is
what `Form` says, position by position, and survives what is removed, copied or
decoded elsewhere. Each stage of a request knows one such text: before the first batch
the active context with the past mixes (`ClaimRight`), after the prompt the prompt,
with the past mixes behind it if nothing had to be decoded (`PromptRight`), while
sampling the whole of what is wanted (`WantedRight`). Between them, the cells are
those of sequence 0 alone or, among the hypotheses, below `size` shared with it
(`SequencesRight`): sequence 0 itself may be given to another hypothesis, with a copy
of its parent's cells, and this would put a second cell at a position of the text if
the parent had one there of its own. A second batch of a prompt breaks `PromptRight`,
which is why it sets `spoiled`. The lemmas under the actions say what each cache
operation does to a text held: `RmReady` (what follows a beginning is removed),
`DecodeHolds` (a batch behind a text gives the longer text), `RmHolds`, `CpHolds` and
`DecodeKeeps` (the operations of the hypotheses leave it alone), `ReassignFacts` (each
hypothesis its own sequence, the text kept).

`PatriciaTrieShape_proofs` and `PatriciaTrie_proofs` prove for any words, contexts and
limit on nodes, within `TrieAssumption`:

* `TrieTyped`: `Spec => []TrieTypeOK`, every link leads somewhere;
* `WordsAreFound`: `Spec => []WordsRoundTrip`;
* `EntriesAreOfWords`: `Spec => []EntriesBelongToWords`;
* `CompactionForgetsNone`: `Spec => []CompactionKeepsWords`: whatever entries expire, a
  compaction keeps exactly the words that have another one;
* `PairsAreTyped`: `Spec => PairsComeFromTyping`, an action property;
* `TrieKeepsPromise`: `Spec => WordsAreIndependent`: the buffers, with their splits, moved
  nodes, forward links and compactions, implement `LearnedWords`.

The promises are about words, and a word is what a walk from the root makes of
letters, links and arrays that are never where they were: a step may touch any of
them, and a type invariant says nothing about which. The inductive invariant is
`TrieInv`: the trie is `Sound`, that is, there are functions `pre` and `at` that give
the letters before each node and each array, such that links, parents, children and
siblings agree with them (`Shape`), and the nodes and the lookup table name each other
(`Entries`). A node that moved and its copy, an array and its forward link, have the
same letters before them, so nobody has to know how often a node moved. The functions
are quantified inside the invariant: no variable of the code holds them, and each step
says what they become.

The argument goes bottom up. A recursive reading (fetching a moved node, the chain of
an array, the letters of a node, the walk for a word) unfolds one step at a time
(`RecursionUnfolds`), with the rank that makes it end: links go to the end of the
buffer, parents have fewer letters, the walk has fewer letters left. From this,
`SpelledBy` of a node is `pre` with its own letters, and the walk finds exactly the
node that spells the word, or says where on the way it stops and why. Each of the four
ways to insert makes the word `Added`: the trie is sound again, has the word, and
every other word keeps its entry and its pairs. For a split or a move the witness
`pre` and `at` are extended by the copies. For a compaction the nodes that survive are
copied in the order of their traversal, each with the children and the parent of the
old one under the new numbers; the copies of a sound trie are sound, and spell what
the originals did. The theorems are then one case for each action.

The proof of `PairsAreTyped` failed first, for a good reason. A word that was removed
stays as a node with its id; when that node is split, its second part is written as a
terminal without the mark of the removal, so the removed word is in the lookup table
again, without an entry (`reallocatePtNodeAndAddNewPtNodes`). Pairs with it as the
word before are then kept under its id, and count as pairs of words only from the
moment it gets an entry itself. So a new pair need not have its second word typed: it
may be the first one, if that had no entry. `PairsComeFromTyping` says so, and the
context of the run `Trie` is a word that this happens to.

Only model-checked: of `KeyboardState`, `HeldShiftStays`; of `Touch`,
`NoKeyAfterDeletions`, and `HeldModifierHasFinger`, `NoMomentaryPageAtRest` and
`SlideReturns`, which relate the modifiers and the switch state of `KeyboardState` to
the fingers call by call; and liveness (`ReloadEnds`, `CallsReturn`, `NewestIsAnswered`,
`WaitEnds`), which with ENABLED is out of the prover's reach. The modules proved about
declare no RECURSIVE operator.

## 6. Not modelled

`PROJECT.json` gives the status of every component. In short:

* **Input callbacks over a rotation** (`UIHandler`), the editor's side of
  `RichInputConnection`, and the text transformations of `InputLogic` beyond the word
  in the composer: left for later, in the order of the plan.
* **Model lifetime**: `destroyModel`, loading, training, the change of the language.
  Requests of a language without a model take the legacy way, which is AOSP's.
* **The suggestion search** of the native decoder and the tensor arithmetic: pure
  computation over data, without state from one call to the next beyond the parts
  modelled.
* **Rare failures of the dictionaries**: a flush that fails, deletes that fail, the
  partial flushes of a long initial load.
* **Vendored code**: `src/native/jni/src/ggml` and `sentencepiece`, generated headers of
  more than 100,000 lines included, but for the key-value cache operations that
  `LmContext` translates.
* Drawing, layout parsing, settings, downloads, voice input, clipboard: I/O and views.

The map in `PROJECT.json` covers most of the lines of the classes modelled. As a share
of the native sources it is small, because nearly all of these are vendored, and
because most of the keyboard's own logic is written in Java and Kotlin.
