---------------------------- MODULE Suggestions ----------------------------
(***************************************************************************)
(* How the word being typed gets its auto-correction, and how a separator  *)
(* commits it (LanguageModelFacilitator, and the parts of InputLogic,      *)
(* WordComposer and Suggest it works on).  The main thread types and posts *)
(* a numbered request after every change; one coroutine on another thread  *)
(* answers the requests, skipping those overtaken, and writes its decision *)
(* straight into the main thread's composer.  A separator commits what the *)
(* composer holds, waiting first for a computation that is under way.      *)
(*                                                                         *)
(* Auto-correction and the transformer are switched on and the language    *)
(* does not change, so that no request goes the old way through the        *)
(* handler's messages, and every change of the word is followed by a       *)
(* request (README.md has the changes for which the code posts none).      *)
(* Words are numbered by the request that follows the key which made them; *)
(* 0 is the empty word.                                                    *)
(***************************************************************************)
EXTENDS Naturals, Sequences

CONSTANTS
  MaxRequests,   \* bound on the requests: the user stops typing when it is reached
  TimeoutLimit,  \* consecutive timeouts the transformer survives: 5 in the code
  NoWord         \* no auto-correction: null

ASSUME SuggestionsAssumption ==
  /\ MaxRequests \in Nat \ {0} /\ TimeoutLimit \in Nat
  /\ NoWord \notin Nat

VARIABLES
  word,        \* the word in WordComposer
  correction,  \* its mAutoCorrection: the word the decision was made for
  main,        \* where the main thread is
  seq,         \* currentSequenceId
  waiting,     \* requests emitted and not yet collected, oldest first
  finished,    \* the newest id in sequenceIdFinishedFlow
  at,          \* where the processor is
  request,     \* the request it works on
  looked,      \* the word the dictionaries were asked about
  answer,      \* its decision: the word it is for
  lastWord,    \* mLastComposedWord: the word typed, and the word whose decision it became
  timeouts,    \* numConsecutiveTimeouts
  disabled     \* transformerDisabled

composer == <<word, correction>>
processor == <<at, request, looked, answer>>
slowness == <<timeouts, disabled>>
vars == <<composer, main, seq, waiting, finished, processor, lastWord, slowness>>

----------------------------------------------------------------------------
WordIds == 0..MaxRequests
Requests == [id : 1..MaxRequests, word : WordIds]
Nothing == [id |-> 0, word |-> 0]

\* The computation semaphore is taken from the start of a computation to its end.
Computing == at \notin {"idle", "collected"}

\* A decision is shown at most once for each request, in the order of the requests.
Ordered ==
  /\ \A i \in DOMAIN waiting : finished < waiting[i].id /\ waiting[i].id <= seq
  /\ \A i, j \in DOMAIN waiting : i < j => waiting[i].id < waiting[j].id
  /\ at # "idle" => /\ finished < request.id /\ request.id <= seq
                    /\ \A i \in DOMAIN waiting : request.id < waiting[i].id
  /\ finished <= seq

TypeOK ==
  /\ word \in WordIds /\ correction \in WordIds \cup {NoWord}
  /\ main \in {"idle", "posting", "acquiring", "awaiting"}
  /\ main \in {"acquiring", "awaiting"} => word # 0
  /\ main # "idle" => seq < MaxRequests
  /\ seq \in 0..MaxRequests /\ finished \in 0..MaxRequests
  /\ waiting \in Seq(Requests)
  /\ at \in {"idle", "collected", "started", "looked", "answered", "checked"}
  /\ request \in Requests \cup {Nothing} /\ looked \in WordIds
  /\ answer \in WordIds \cup {NoWord}
  /\ lastWord \in [typed : WordIds, as : WordIds]
  /\ timeouts \in 0..(TimeoutLimit + 1) /\ disabled \in BOOLEAN
  /\ timeouts > TimeoutLimit => disabled
  /\ Ordered

Init ==
  /\ word = 0 /\ correction = NoWord /\ main = "idle"
  /\ seq = 0 /\ waiting = << >> /\ finished = 0
  /\ at = "idle" /\ request = Nothing /\ looked = 0 /\ answer = NoWord
  /\ lastWord = [typed |-> 0, as |-> 0]
  /\ timeouts = 0 /\ disabled = FALSE

----------------------------------------------------------------------------
(* The main thread *)

Ready == main = "idle" /\ seq < MaxRequests

\* A letter, or a backspace within the word.
Type ==
  /\ Ready
  /\ word' = seq + 1 /\ correction' = NoWord
  /\ main' = "posting"
  /\ UNCHANGED <<seq, waiting, finished, processor, lastWord, slowness>>

\* The backspace that removes the last letter.
Erase ==
  /\ Ready /\ word # 0
  /\ word' = 0 /\ correction' = NoWord
  /\ main' = "posting"
  /\ UNCHANGED <<seq, waiting, finished, processor, lastWord, slowness>>

\* At the end of each input transaction.
UpdateSuggestionStripAsync ==
  /\ main = "posting"
  /\ seq' = seq + 1
  /\ waiting' = Append(waiting, [id |-> seq + 1, word |-> word])
  /\ main' = "idle"
  /\ UNCHANGED <<composer, finished, processor, lastWord, slowness>>

\* What the editor gets for the word: the decision in the composer, or the word.
Commit ==
  /\ lastWord' = [typed |-> word, as |-> IF correction = NoWord THEN word ELSE correction]
  /\ word' = 0 /\ correction' = NoWord
  /\ main' = "posting"

CommitAtOnce ==
  /\ Ready /\ word # 0 /\ ~Computing
  /\ Commit
  /\ UNCHANGED <<seq, waiting, finished, processor, slowness>>

BlockUntilComplete ==
  /\ Ready /\ word # 0 /\ Computing
  /\ main' = "acquiring"
  /\ UNCHANGED <<composer, seq, waiting, finished, processor, lastWord, slowness>>

AcquireAndRelease ==
  /\ main = "acquiring" /\ ~Computing
  /\ main' = "awaiting"
  /\ UNCHANGED <<composer, seq, waiting, finished, processor, lastWord, slowness>>

\* Bug: the wait ends with the running computation, whichever it was for.
CommitWhenAcquired ==
  /\ main = "awaiting"
  /\ Commit
  /\ timeouts' = 0
  /\ UNCHANGED <<seq, waiting, finished, processor, disabled>>

CommitWhenFinished ==
  /\ main = "awaiting" /\ finished >= seq
  /\ Commit
  /\ timeouts' = 0
  /\ UNCHANGED <<seq, waiting, finished, processor, disabled>>

\* After 700 ms: nothing is committed, the word goes on being composed, and the
\* separator is sent to the editor all the same.
Timeout ==
  /\ main \in {"acquiring", "awaiting"}
  /\ timeouts' = IF timeouts > TimeoutLimit THEN timeouts ELSE timeouts + 1
  /\ disabled' = (disabled \/ timeouts' > TimeoutLimit)
  /\ main' = "posting"
  /\ UNCHANGED <<composer, seq, waiting, finished, processor, lastWord>>

\* Bug: the count of timeouts survives the field.
StartInputKeepsCount ==
  /\ main = "idle"
  /\ word' = 0 /\ correction' = NoWord
  /\ lastWord' = [typed |-> 0, as |-> 0]
  /\ disabled' = FALSE
  /\ UNCHANGED <<main, seq, waiting, finished, processor, timeouts>>

\* Another field: the composer is reset, the requests are not.
StartInput ==
  /\ main = "idle"
  /\ word' = 0 /\ correction' = NoWord
  /\ lastWord' = [typed |-> 0, as |-> 0]
  /\ timeouts' = 0 /\ disabled' = FALSE
  /\ UNCHANGED <<main, seq, waiting, finished, processor>>

----------------------------------------------------------------------------
(* The processor *)

\* Bug: conflation keeps the oldest request and drops the newer ones.
CollectOldest ==
  /\ at = "idle" /\ waiting # << >>
  /\ request' = Head(waiting)
  /\ waiting' = << >>
  /\ at' = "collected"
  /\ UNCHANGED <<composer, main, seq, finished, looked, answer, lastWord, slowness>>

\* The flow is conflated: the processor takes any of the requests emitted since the
\* last one, and the older ones are gone.
Collect ==
  /\ at = "idle"
  /\ \E i \in DOMAIN waiting :
       /\ request' = waiting[i]
       /\ waiting' = SubSeq(waiting, i + 1, Len(waiting))
  /\ at' = "collected"
  /\ UNCHANGED <<composer, main, seq, finished, looked, answer, lastWord, slowness>>

\* The semaphore is fair: a main thread that waits for it goes first.
Acquire ==
  /\ at = "collected" /\ main # "acquiring"
  /\ correction' = NoWord
  /\ at' = "started"
  /\ UNCHANGED <<word, main, seq, waiting, finished, request, looked, answer, lastWord,
                 slowness>>

\* The dictionaries are asked about the word the composer holds at that moment ...
AskDictionaries ==
  /\ at = "started"
  /\ looked' = word
  /\ at' = "looked"
  /\ UNCHANGED <<composer, main, seq, waiting, finished, request, answer, lastWord,
                 slowness>>

\* ... and the decision is taken about the one it holds when they have answered:
\* the word as typed, or one of the suggestions in its place.  With no word typed
\* there may be nothing to show, which leaves the correction alone.
Decision(suggestedFor) ==
  IF word = 0 THEN {0, NoWord} ELSE {word} \cup suggestedFor

\* There is no model for the language, it is being loaded, or it is disabled.
DictionaryAnswers ==
  /\ at = "looked"
  /\ answer' \in Decision({looked})
  /\ at' = "checked"
  /\ UNCHANGED <<composer, main, seq, waiting, finished, request, looked, lastWord,
                 slowness>>

LanguageModelAnswers ==
  /\ at = "looked" /\ ~disabled
  /\ answer' \in Decision({looked, request.word})
  /\ at' = "answered"
  /\ UNCHANGED <<composer, main, seq, waiting, finished, request, looked, lastWord,
                 slowness>>

\* Only the model's answer is compared with the newest request.
StillWanted ==
  /\ at = "answered" /\ request.id >= seq
  /\ at' = "checked"
  /\ UNCHANGED <<composer, main, seq, waiting, finished, request, looked, answer,
                 lastWord, slowness>>

\* Bug: a request counts as older than itself.
OvertakenByItself ==
  /\ at = "answered" /\ request.id <= seq
  /\ at' = "idle"
  /\ UNCHANGED <<composer, main, seq, waiting, finished, request, looked, answer,
                 lastWord, slowness>>

Overtaken ==
  /\ at = "answered" /\ request.id < seq
  /\ at' = "idle"
  /\ UNCHANGED <<composer, main, seq, waiting, finished, request, looked, answer,
                 lastWord, slowness>>

\* Bug: the id announced is the newest, not that of the answer.
ShowMarksNewest ==
  /\ at = "checked"
  /\ correction' = IF answer = NoWord THEN correction ELSE answer
  /\ finished' = seq
  /\ at' = "idle"
  /\ UNCHANGED <<word, main, seq, waiting, request, looked, answer, lastWord, slowness>>

\* The decision goes into the composer, whatever it holds by now.
ShowSuggestionStrip ==
  /\ at = "checked"
  /\ correction' = IF answer = NoWord THEN correction ELSE answer
  /\ finished' = request.id
  /\ at' = "idle"
  /\ UNCHANGED <<word, main, seq, waiting, request, looked, answer, lastWord, slowness>>

----------------------------------------------------------------------------
User == Type \/ Erase \/ CommitAtOnce \/ BlockUntilComplete \/ StartInput

MainGoesOn == UpdateSuggestionStripAsync \/ AcquireAndRelease \/ CommitWhenFinished

Processor ==
  \/ Collect \/ Acquire \/ AskDictionaries
  \/ DictionaryAnswers \/ LanguageModelAnswers
  \/ StillWanted \/ Overtaken \/ ShowSuggestionStrip

Next == User \/ MainGoesOn \/ Timeout \/ Processor

\* Both threads run; nothing promises that a wait times out, or that the user types.
Fairness == WF_vars(MainGoesOn) /\ WF_vars(Processor)

Spec == Init /\ [][Next]_vars /\ Fairness

----------------------------------------------------------------------------
(* Properties *)

\* Once the newest request is answered, the composer's auto-correction is one for
\* the word in it: the answers of older requests, which are written into the same
\* composer from the other thread, have left nothing behind.
AnsweredMeansFresh ==
  finished = seq /\ main # "posting" /\ word # 0 => correction \in {NoWord, word}

\* A separator that has waited for the computation commits the word typed or a
\* correction of it, never a decision about an earlier state of the word.
WaitedCommitIsRight ==
  [][main = "awaiting" => lastWord' = lastWord \/ lastWord'.as = lastWord'.typed]_vars

\* The newest request is answered, although requests are skipped and answers
\* dropped.
NewestIsAnswered ==
  \A k \in 1..MaxRequests : seq = k ~> finished >= k \/ seq > k

\* A separator that waits is let go by an answer, also if no timeout helps it.
WaitEnds == main \in {"acquiring", "awaiting"} ~> main = "posting"

\* What the comment on commitCurrentAutoCorrection says: it commits a correction of
\* the word typed, or just the word typed.
CommitsTheTypedWord == lastWord.as = lastWord.typed
=============================================================================
