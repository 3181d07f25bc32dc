------------------------- MODULE Suggestions_proofs -------------------------
(***************************************************************************)
(* Proofs about Suggestions, for every number of requests and every limit  *)
(* on timeouts.                                                            *)
(***************************************************************************)
EXTENDS Suggestions, TLAPS

\* What the processor knows about the newest request while the main thread types
\* nothing: the request, and from then on everything read from the composer, is
\* about the word in it.
Settled == main # "posting" /\ word # 0

Fresh ==
  /\ \A i \in DOMAIN waiting : Settled /\ waiting[i].id = seq => waiting[i].word = word
  /\ Settled /\ at # "idle" /\ request.id = seq =>
       /\ request.word = word
       /\ at \in {"looked", "answered", "checked"} => looked = word
       /\ at \in {"answered", "checked"} => answer = word

IInv == TypeOK /\ Fresh /\ AnsweredMeansFresh

----------------------------------------------------------------------------
(* The queue of requests *)

LEMMA IdsAreNumbers ==
  ASSUME TypeOK
  PROVE  /\ seq \in Nat /\ finished \in Nat /\ request.id \in Nat
         /\ \A i \in DOMAIN waiting : i \in Nat /\ waiting[i].id \in Nat
<1>1. \A r \in Requests \cup {Nothing} : r.id \in Nat
  BY SuggestionsAssumption DEF Requests, Nothing
<1>2. \A i \in DOMAIN waiting : i \in Nat /\ waiting[i] \in Requests
  BY DEF TypeOK
<1> QED
  BY <1>1, <1>2, SuggestionsAssumption DEF TypeOK

\* A request with a new, larger id joins the end of the queue.
LEMMA PostKeepsOrder ==
  ASSUME TypeOK, UpdateSuggestionStripAsync
  PROVE  /\ waiting' \in Seq(Requests)
         /\ Ordered'
         /\ \A i \in DOMAIN waiting' :
              \/ i \in DOMAIN waiting /\ waiting'[i] = waiting[i]
              \/ waiting'[i] = [id |-> seq', word |-> word]
<1> DEFINE new == [id |-> seq + 1, word |-> word]
<1>1. /\ waiting \in Seq(Requests) /\ new \in Requests
      /\ waiting' = Append(waiting, new) /\ seq' = seq + 1
  BY SuggestionsAssumption DEF TypeOK, UpdateSuggestionStripAsync, Requests, WordIds
<1>2. /\ waiting' \in Seq(Requests)
      /\ \A i \in DOMAIN waiting' :
           \/ i \in DOMAIN waiting /\ waiting'[i] = waiting[i]
           \/ i = Len(waiting) + 1 /\ waiting'[i] = new
      /\ \A i \in DOMAIN waiting : i \in Nat /\ i < Len(waiting) + 1
      /\ DOMAIN waiting' = 1..(Len(waiting) + 1)
  BY <1>1
<1>3. Ordered
  BY DEF TypeOK
<1>4. new.id = seq + 1 /\ at' = at /\ request' = request /\ finished' = finished
  BY DEF UpdateSuggestionStripAsync, processor
<1>5. \A i \in DOMAIN waiting' : finished' < waiting'[i].id /\ waiting'[i].id <= seq'
  BY <1>1, <1>2, <1>3, <1>4, IdsAreNumbers DEF Ordered
<1>6. \A i, j \in DOMAIN waiting' : i < j => waiting'[i].id < waiting'[j].id
  <2> SUFFICES ASSUME NEW i \in DOMAIN waiting', NEW j \in DOMAIN waiting', i < j
               PROVE  waiting'[i].id < waiting'[j].id
    OBVIOUS
  <2>1. i \in DOMAIN waiting
    BY <1>1, <1>2
  <2>2. CASE j \in DOMAIN waiting /\ waiting'[j] = waiting[j]
    BY <2>1, <2>2, <1>2, <1>3 DEF Ordered
  <2>3. CASE waiting'[j] = new
    BY <2>1, <2>3, <1>2, <1>3, <1>4, IdsAreNumbers DEF Ordered
  <2> QED
    BY <1>2, <2>2, <2>3
<1>7. Ordered'
  BY <1>1, <1>2, <1>3, <1>4, <1>5, <1>6, IdsAreNumbers DEF Ordered
<1> QED
  BY <1>1, <1>2, <1>7

\* The requests after the one collected are the newer ones, unchanged.
LEMMA CollectKeepsOrder ==
  ASSUME TypeOK, Collect
  PROVE  /\ waiting' \in Seq(Requests)
         /\ request' \in Requests
         /\ Ordered'
         /\ \A i \in DOMAIN waiting' : \E j \in DOMAIN waiting : waiting'[i] = waiting[j]
         /\ \E j \in DOMAIN waiting : request' = waiting[j]
<1>1. PICK k \in DOMAIN waiting : /\ request' = waiting[k]
                                  /\ waiting' = SubSeq(waiting, k + 1, Len(waiting))
  BY DEF Collect
<1>2. waiting \in Seq(Requests) /\ k \in 1..Len(waiting) /\ Len(waiting) \in Nat
  BY <1>1 DEF TypeOK
<1>3. /\ waiting' \in Seq(Requests)
      /\ DOMAIN waiting' = 1..(Len(waiting) - k)
      /\ \A i \in DOMAIN waiting' : waiting'[i] = waiting[k + i]
  BY <1>1, <1>2
<1>4. \A i \in DOMAIN waiting' : k + i \in DOMAIN waiting /\ k < k + i
  BY <1>2, <1>3
<1>5. request' \in Requests
  BY <1>1, <1>2
<1>6. Ordered /\ seq' = seq /\ finished' = finished
  BY DEF TypeOK, Collect
<1>7. \A i \in DOMAIN waiting' : /\ finished' < waiting'[i].id /\ waiting'[i].id <= seq'
                                 /\ request'.id < waiting'[i].id
  BY <1>1, <1>3, <1>4, <1>6 DEF Ordered
<1>8. \A i, j \in DOMAIN waiting' : i < j => waiting'[i].id < waiting'[j].id
  <2> SUFFICES ASSUME NEW i \in DOMAIN waiting', NEW j \in DOMAIN waiting', i < j
               PROVE  waiting'[i].id < waiting'[j].id
    OBVIOUS
  <2>1. k + i \in DOMAIN waiting /\ k + j \in DOMAIN waiting /\ k + i < k + j
    BY <1>2, <1>3, <1>4
  <2> QED
    BY <2>1, <1>3, <1>6 DEF Ordered
<1>9. Ordered'
  BY <1>1, <1>6, <1>7, <1>8 DEF Ordered
<1> QED
  BY <1>1, <1>3, <1>4, <1>5, <1>9

----------------------------------------------------------------------------
(* Type correctness, with the order of the ids *)

LEMMA InitTypeOK == Init => TypeOK
<1> SUFFICES ASSUME Init PROVE TypeOK
  OBVIOUS
<1> USE SuggestionsAssumption DEF Init
<1>1. waiting \in Seq(Requests) /\ DOMAIN waiting = {}
  OBVIOUS
<1>2. Ordered
  BY <1>1 DEF Ordered
<1>3. timeouts \in 0..(TimeoutLimit + 1) /\ ~ timeouts > TimeoutLimit
  OBVIOUS
<1>4. disabled \in BOOLEAN
  BY Zenon
<1>5. lastWord \in [typed : WordIds, as : WordIds]
  BY DEF WordIds
<1> QED
  BY <1>1, <1>2, <1>3, <1>4, <1>5 DEF TypeOK, WordIds, Nothing

LEMMA NextTypeOK == TypeOK /\ [Next]_vars => TypeOK'
<1> SUFFICES ASSUME TypeOK, [Next]_vars PROVE TypeOK'
  OBVIOUS
<1> USE SuggestionsAssumption
<1>1. CASE Type
  BY <1>1 DEF TypeOK, Ordered, Type, Ready, WordIds, processor, slowness
<1>2. CASE Erase
  BY <1>2 DEF TypeOK, Ordered, Erase, Ready, WordIds, processor, slowness
<1>3. CASE UpdateSuggestionStripAsync
  BY <1>3, PostKeepsOrder
     DEF TypeOK, UpdateSuggestionStripAsync, composer, processor, slowness
<1>4. CASE CommitAtOnce
  BY <1>4 DEF TypeOK, Ordered, CommitAtOnce, Commit, Ready, WordIds, processor, slowness
<1>5. CASE BlockUntilComplete
  BY <1>5 DEF TypeOK, Ordered, BlockUntilComplete, Ready, composer, processor, slowness
<1>6. CASE AcquireAndRelease
  BY <1>6 DEF TypeOK, Ordered, AcquireAndRelease, composer, processor, slowness
<1>7. CASE CommitWhenFinished
  BY <1>7 DEF TypeOK, Ordered, CommitWhenFinished, Commit, WordIds, processor
<1>8. CASE Timeout
  <2>1. timeouts' \in 0..(TimeoutLimit + 1)
    BY <1>8 DEF TypeOK, Timeout
  <2>2. disabled' \in BOOLEAN /\ (timeouts' > TimeoutLimit => disabled')
    BY <1>8, Zenon DEF Timeout
  <2> QED
    BY <1>8, <2>1, <2>2 DEF TypeOK, Ordered, Timeout, composer, processor
<1>9. CASE StartInput
  <2>1. timeouts' \in 0..(TimeoutLimit + 1) /\ ~ timeouts' > TimeoutLimit
    BY <1>9 DEF StartInput
  <2>2. disabled' \in BOOLEAN
    BY <1>9, Zenon DEF StartInput
  <2>3. lastWord' \in [typed : WordIds, as : WordIds] /\ word' \in WordIds
    BY <1>9 DEF StartInput, WordIds
  <2> QED
    BY <1>9, <2>1, <2>2, <2>3 DEF TypeOK, Ordered, StartInput, processor
<1>10. CASE Collect
  BY <1>10, CollectKeepsOrder DEF TypeOK, Collect, composer, slowness
<1>11. CASE Acquire
  BY <1>11 DEF TypeOK, Ordered, Acquire, slowness
<1>12. CASE AskDictionaries
  BY <1>12 DEF TypeOK, Ordered, AskDictionaries, composer, slowness
<1>13. CASE DictionaryAnswers
  BY <1>13 DEF TypeOK, Ordered, DictionaryAnswers, Decision, WordIds, composer, slowness
<1>14. CASE LanguageModelAnswers
  BY <1>14
     DEF TypeOK, Ordered, LanguageModelAnswers, Decision, WordIds, Requests, Nothing,
         composer, slowness
<1>15. CASE StillWanted
  BY <1>15 DEF TypeOK, Ordered, StillWanted, composer, slowness
<1>16. CASE Overtaken
  BY <1>16 DEF TypeOK, Ordered, Overtaken, composer, slowness
<1>17. CASE ShowSuggestionStrip
  BY <1>17 DEF TypeOK, Ordered, ShowSuggestionStrip, Requests, Nothing, slowness
<1>18. CASE UNCHANGED vars
  BY <1>18 DEF TypeOK, Ordered, vars, composer, processor, slowness
<1> QED
  BY <1>1, <1>2, <1>3, <1>4, <1>5, <1>6, <1>7, <1>8, <1>9, <1>10, <1>11, <1>12, <1>13,
     <1>14, <1>15, <1>16, <1>17, <1>18
     DEF Next, User, MainGoesOn, Processor

\* TypeOK holds in every state.
THEOREM TypeCorrect == Spec => []TypeOK
<1>1. Init => TypeOK
  BY InitTypeOK
<1>2. TypeOK /\ [Next]_vars => TypeOK'
  BY NextTypeOK
<1> QED
  BY <1>1, <1>2, PTL DEF Spec

----------------------------------------------------------------------------
(* The newest decision is about the word in the composer *)

LEMMA InitFresh == Init => Fresh /\ AnsweredMeansFresh
  BY DEF Init, Fresh, AnsweredMeansFresh, Settled

\* A step that begins a transaction leaves nothing settled; what the others do to
\* the newest request keeps it about the word.
LEMMA NextFresh == IInv /\ TypeOK' /\ [Next]_vars => Fresh'
<1> SUFFICES ASSUME TypeOK, Fresh, AnsweredMeansFresh, TypeOK', [Next]_vars PROVE Fresh'
  BY DEF IInv
<1>1. CASE main' = "posting" \/ word' = 0
  BY <1>1 DEF Fresh, Settled
<1>2. CASE UpdateSuggestionStripAsync
  <2>1. /\ seq' = seq + 1 /\ seq \in Nat /\ word' = word /\ request' = request
        /\ (at # "idle" => request.id <= seq /\ request.id \in Nat)
        /\ at' = at
    BY <1>2, IdsAreNumbers DEF UpdateSuggestionStripAsync, composer, processor, TypeOK, Ordered
  <2>2. \A i \in DOMAIN waiting : waiting[i].id <= seq /\ waiting[i].id \in Nat
    BY IdsAreNumbers DEF TypeOK, Ordered
  <2>3. \A i \in DOMAIN waiting' : waiting'[i].id = seq' => waiting'[i].word = word'
    BY <1>2, <2>1, <2>2, PostKeepsOrder
  <2> QED
    BY <2>1, <2>3 DEF Fresh
<1>3. CASE BlockUntilComplete \/ AcquireAndRelease
  BY <1>3 DEF BlockUntilComplete, AcquireAndRelease, Fresh, Settled, Ready, composer,
              processor
<1>4. CASE Collect
  <2>1. /\ UNCHANGED <<word, main, seq>> /\ at' = "collected"
    BY <1>4 DEF Collect, composer
  <2> QED
    BY <2>1, <1>4, CollectKeepsOrder DEF Fresh, Settled
<1>5. CASE Acquire
  BY <1>5 DEF Acquire, Fresh, Settled
<1>6. CASE AskDictionaries
  BY <1>6 DEF AskDictionaries, Fresh, Settled, composer
<1>7. CASE DictionaryAnswers
  BY <1>7 DEF DictionaryAnswers, Decision, Fresh, Settled, composer
<1>8. CASE LanguageModelAnswers
  BY <1>8 DEF LanguageModelAnswers, Decision, Fresh, Settled, composer
<1>9. CASE StillWanted \/ Overtaken
  BY <1>9 DEF StillWanted, Overtaken, Fresh, Settled, composer
<1>10. CASE ShowSuggestionStrip
  BY <1>10 DEF ShowSuggestionStrip, Fresh, Settled
<1>11. CASE UNCHANGED vars
  BY <1>11 DEF Fresh, Settled, vars, composer, processor
<1>12. CASE Type \/ Erase \/ CommitAtOnce \/ CommitWhenFinished \/ Timeout \/ StartInput
  BY <1>1, <1>12 DEF Type, Erase, CommitAtOnce, CommitWhenFinished, Commit, Timeout, StartInput
<1> QED
  BY <1>2, <1>3, <1>4, <1>5, <1>6, <1>7, <1>8, <1>9, <1>10, <1>11, <1>12
     DEF Next, User, MainGoesOn, Processor

LEMMA NextAnswered == IInv /\ TypeOK' /\ [Next]_vars => AnsweredMeansFresh'
<1> SUFFICES ASSUME TypeOK, Fresh, AnsweredMeansFresh, TypeOK', [Next]_vars
             PROVE  AnsweredMeansFresh'
  BY DEF IInv
<1>1. CASE main' = "posting" \/ word' = 0
  BY <1>1 DEF AnsweredMeansFresh
<1>2. CASE UpdateSuggestionStripAsync
  <2>1. finished' < seq' /\ finished' \in Nat /\ seq' \in Nat
    BY <1>2, IdsAreNumbers DEF UpdateSuggestionStripAsync, TypeOK, Ordered
  <2> QED
    BY <2>1 DEF AnsweredMeansFresh
<1>3. CASE BlockUntilComplete \/ AcquireAndRelease
  BY <1>3 DEF BlockUntilComplete, AcquireAndRelease, AnsweredMeansFresh, Ready, composer
<1>4. CASE Acquire
  BY <1>4 DEF Acquire, AnsweredMeansFresh
<1>5. CASE Collect \/ AskDictionaries \/ DictionaryAnswers \/ LanguageModelAnswers
             \/ StillWanted \/ Overtaken
  BY <1>5 DEF Collect, AskDictionaries, DictionaryAnswers, LanguageModelAnswers,
              StillWanted, Overtaken, AnsweredMeansFresh, composer
<1>6. CASE ShowSuggestionStrip
  <2>1. word # NoWord
    BY SuggestionsAssumption DEF TypeOK, WordIds
  <2> QED
    BY <1>6, <2>1 DEF ShowSuggestionStrip, AnsweredMeansFresh, Fresh, Settled
<1>7. CASE UNCHANGED vars
  BY <1>7 DEF AnsweredMeansFresh, vars, composer
<1>8. CASE Type \/ Erase \/ CommitAtOnce \/ CommitWhenFinished \/ Timeout \/ StartInput
  BY <1>1, <1>8 DEF Type, Erase, CommitAtOnce, CommitWhenFinished, Commit, Timeout, StartInput
<1> QED
  BY <1>2, <1>3, <1>4, <1>5, <1>6, <1>7, <1>8 DEF Next, User, MainGoesOn, Processor

LEMMA Invariant == Spec => []IInv
<1>1. Init => IInv
  BY InitTypeOK, InitFresh DEF IInv
<1>2. IInv /\ [Next]_vars => IInv'
  BY NextTypeOK, NextFresh, NextAnswered DEF IInv
<1> QED
  BY <1>1, <1>2, PTL DEF Spec

\* When the newest request is answered, the composer's auto-correction is for its
\* word.
THEOREM AnswersFresh == Spec => []AnsweredMeansFresh
<1>1. IInv => AnsweredMeansFresh
  BY DEF IInv
<1> QED
  BY <1>1, Invariant, PTL

----------------------------------------------------------------------------
(* A separator that has waited *)

LEMMA WaitedStep ==
  ASSUME IInv, [Next]_vars, main = "awaiting"
  PROVE  lastWord' = lastWord \/ lastWord'.as = lastWord'.typed
<1>1. CASE CommitWhenFinished
  <2>1. finished = seq
    BY <1>1, IdsAreNumbers DEF CommitWhenFinished, IInv, TypeOK, Ordered
  <2>2. correction \in {NoWord, word}
    BY <2>1 DEF IInv, TypeOK, AnsweredMeansFresh
  <2> QED
    BY <1>1, <2>2 DEF CommitWhenFinished, Commit
<1>2. CASE UpdateSuggestionStripAsync \/ AcquireAndRelease \/ Timeout \/ UNCHANGED vars
  BY <1>2 DEF UpdateSuggestionStripAsync, AcquireAndRelease, Timeout, vars
<1>3. CASE Processor
  BY <1>3 DEF Processor, Collect, Acquire, AskDictionaries, DictionaryAnswers,
              LanguageModelAnswers, StillWanted, Overtaken, ShowSuggestionStrip
<1>4. ~User
  BY DEF User, Type, Erase, CommitAtOnce, BlockUntilComplete, StartInput, Ready
<1> QED
  BY <1>1, <1>2, <1>3, <1>4 DEF Next, MainGoesOn

\* A separator that has waited commits the word typed or a correction of it.
THEOREM WaitedCommits == Spec => WaitedCommitIsRight
<1>1. IInv /\ [Next]_vars =>
        [main = "awaiting" => lastWord' = lastWord \/ lastWord'.as = lastWord'.typed]_vars
  BY WaitedStep
<1> QED
  BY <1>1, Invariant, PTL DEF Spec, WaitedCommitIsRight
=============================================================================
