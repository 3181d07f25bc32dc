-------------------- MODULE ExpandableDictionary_proofs --------------------
(***************************************************************************)
(* ExpandableDictionary for every number of threads, words, queued tasks,  *)
(* provider changes and crashes.                                           *)
(*                                                                         *)
(* The exclusion of readers and tasks is inductive on its own.  That one   *)
(* reload at most is under way needs to know which steps belong to a       *)
(* reload; that a saved word stays needs a dictionary to be open during a  *)
(* flush, no file to be there while one is created, and the mark for       *)
(* recreation never to be set on a history.  These are the parts of        *)
(* TaskInv and FileInv.  That nothing unsaved is closed is about the order *)
(* of the queue: CloseInv says what precedes a close in it.                *)
(***************************************************************************)
EXTENDS ExpandableDictionary, TLAPS

\* What is queued and run is a task.
LEMMA TaskTypes ==
    /\ \A op \in {"none", "reload", "flush", "close", "clear", "remove", "read", "open"} :
         Task(op) \in Tasks
    /\ \A op \in {"reload", "flush", "close", "clear", "remove"} : Task(op) # Idle
    /\ \A w \in Words : Update(w) \in Tasks /\ Update(w) # Idle
    /\ \A k \in Tasks : k.op = "update" => k.word \in Words
    /\ \A k \in Tasks : k.op = "none" <=> k = Idle
    /\ Idle \in Tasks /\ Idle.op = "none"
<1>1. \A op \in {"none", "reload", "flush", "close", "clear", "remove", "read", "open"} :
        Task(op) \in Tasks
  BY DEF Tasks
<1>2. \A op : Task(op).op = op
  BY DEF Task
<1>3. \A w : Update(w).op = "update" /\ Update(w).word = w
  BY DEF Update
<1>4. \A w \in Words : Update(w) \in Tasks
  BY DEF Tasks
<1>5. Idle \in Tasks /\ Idle.op = "none"
  BY <1>1, <1>2 DEF Idle
<1>6. ASSUME NEW k \in Tasks
      PROVE  (k.op = "update" => k.word \in Words) /\ (k.op = "none" <=> k = Idle)
  BY <1>2, <1>3 DEF Tasks, Idle
<1>7. QED
  BY <1>1, <1>2, <1>3, <1>4, <1>5, <1>6

\* What is stored is a file and a dictionary.
LEMMA StoredTypes ==
    /\ NoFile \in Files /\ NoDict \in Dicts /\ Nothing \in Contents
    /\ \A c \in Contents : Opened(c) \in Dicts /\ [is |-> "good", has |-> c] \in Files
    /\ \A f \in Files : f.has \in Contents /\ [f EXCEPT !.is = "good"] \in Files
    /\ \A e \in Dicts : e.has \in Contents
BY DictionaryAssumption
   DEF NoFile, Files, NoDict, Dicts, Nothing, Contents, Opened

LEMMA InitType == Init => TypeOK
<1> SUFFICES ASSUME Init PROVE TypeOK OBVIOUS
<1>1. file \in Files
  BY DictionaryAssumption, StoredTypes
     DEF Init, InitialFiles, Files, NoFile, Nothing, Contents
<1>2. kind \in {"history", "user"} /\ dict \in Dicts /\ task \in Tasks /\ at \in Steps
  BY TaskTypes, StoredTypes DEF Init, Steps
<1>3. source \in 0..MaxSource /\ crashes \in 0..MaxCrashes
  BY DictionaryAssumption DEF Init
<1>4. needsToRecreate \in BOOLEAN /\ isReloading \in BOOLEAN /\ closed \in BOOLEAN
  BY DEF Init
<1>5. /\ pc \in [Threads -> {"idle", "reload", "schedule", "act", "lock", "reading"}]
      /\ job \in [Threads -> Tasks]
  BY TaskTypes DEF Init
<1>6. queue \in Seq(Tasks \ {Idle}) /\ (task = Idle <=> at = "idle")
  BY DEF Init
<1>7. QED
  BY <1>1, <1>2, <1>3, <1>4, <1>5, <1>6 DEF TypeOK

\* A call moves one thread and queues one task at most.
LEMMA CallerType ==
    ASSUME TypeOK, NEW t \in Threads, Read(t) \/ CallerStep(t)
    PROVE  TypeOK'
<1> USE TaskTypes DEF callerVars, executorVars, stored, environment, Goto
<1>1. CASE Read(t)
  BY <1>1 DEF TypeOK, Read, Call
<1>2. CASE AsyncReload(t)
  BY <1>2 DEF TypeOK, AsyncReload
<1>3. CASE ScheduleReload(t)
  BY <1>3 DEF TypeOK, ScheduleReload
<1>4. CASE Act(t)
  <2>1. job[t] \in Tasks /\ (job[t].op \in {"update", "close"} => job[t] # Idle)
    BY DEF TypeOK
  <2>2. queue' \in Seq(Tasks \ {Idle})
    BY <1>4, <2>1 DEF TypeOK, Act
  <2>3. QED
    BY <1>4, <2>2 DEF TypeOK, Act
<1>5. CASE ReadLock(t)
  BY <1>5 DEF TypeOK, ReadLock
<1>6. CASE ReadTimeout(t)
  BY <1>6 DEF TypeOK, ReadTimeout
<1>7. CASE \E corrupted \in BOOLEAN : ReadDone(t, corrupted)
  BY <1>7 DEF TypeOK, ReadDone
<1>8. QED
  BY <1>1, <1>2, <1>3, <1>4, <1>5, <1>6, <1>7 DEF CallerStep

\* So do the calls of the main thread and the other events.
LEMMA EventType ==
    ASSUME TypeOK,
           \/ \E w \in Words : UpdateEntriesForWord(w)
           \/ Reopen \/ Close \/ Clear \/ SourceChanges \/ Crash
    PROVE  TypeOK'
<1> USE TaskTypes, StoredTypes, DictionaryAssumption
    DEF callerVars, executorVars, stored, environment, Goto
<1>1. CASE \E w \in Words : UpdateEntriesForWord(w)
  BY <1>1 DEF TypeOK, UpdateEntriesForWord, Call
<1>2. CASE Reopen
  BY <1>2 DEF TypeOK, Reopen, Call
<1>3. CASE Close
  BY <1>3 DEF TypeOK, Close
<1>4. CASE Clear
  BY <1>4 DEF TypeOK, Clear
<1>5. CASE SourceChanges
  BY <1>5 DEF TypeOK, SourceChanges
<1>6. CASE Crash
  <2>1. file' \in Files /\ dict' \in Dicts /\ task' \in Tasks /\ at' \in Steps
    BY <1>6 DEF TypeOK, Crash, Steps
  <2>2. /\ pc' \in [Threads -> {"idle", "reload", "schedule", "act", "lock", "reading"}]
        /\ job' \in [Threads -> Tasks]
    BY <1>6 DEF Crash
  <2>3. source' \in 0..MaxSource /\ crashes' \in 0..MaxCrashes
    BY <1>6 DEF TypeOK, Crash
  <2>4. needsToRecreate' \in BOOLEAN /\ isReloading' \in BOOLEAN /\ closed' \in BOOLEAN
    BY <1>6 DEF Crash
  <2>5. /\ kind' \in {"history", "user"}
        /\ queue' \in Seq(Tasks \ {Idle}) /\ (task' = Idle <=> at' = "idle")
    BY <1>6 DEF TypeOK, Crash
  <2>6. QED
    BY <2>1, <2>2, <2>3, <2>4, <2>5 DEF TypeOK
<1>7. QED
  BY <1>1, <1>2, <1>3, <1>4, <1>5, <1>6

\* A step of the executor stays within its task.
LEMMA ExecutorType ==
    ASSUME TypeOK, ExecutorStep
    PROVE  TypeOK'
<1> USE TaskTypes, StoredTypes, DictionaryAssumption
    DEF callerVars, stored, environment, others, unchangedByTask, EndTask
<1> DEFINE Rest == /\ kind \in {"history", "user"}
                   /\ needsToRecreate \in BOOLEAN /\ isReloading \in BOOLEAN
                   /\ closed \in BOOLEAN /\ queue \in Seq(Tasks \ {Idle})
                   /\ pc \in [Threads -> {"idle", "reload", "schedule", "act", "lock",
                                          "reading"}]
                   /\ job \in [Threads -> Tasks]
                   /\ source \in 0..MaxSource /\ crashes \in 0..MaxCrashes
           Run == task \in Tasks /\ at \in Steps /\ (task = Idle <=> at = "idle")
           Kept == file \in Files /\ dict \in Dicts
<1>0. TypeOK <=> Rest /\ Run /\ Kept
  BY DEF TypeOK
<1>00. TypeOK' <=> Rest' /\ Run' /\ Kept'
  BY DEF TypeOK
<1>1. CASE TakeTask
  <2>1. Head(queue) \in Tasks \ {Idle} /\ Tail(queue) \in Seq(Tasks \ {Idle})
    BY <1>1 DEF TypeOK, TakeTask
  <2>2. QED
    BY <1>1, <2>1 DEF TypeOK, TakeTask, Steps
<1>2. CASE WriteLock
  BY <1>2 DEF TypeOK, WriteLock, Steps
<1>3. CASE SkipTask \/ StartFlush \/ NothingToFlush
  BY <1>3 DEF TypeOK, SkipTask, StartFlush, NothingToFlush, Steps
<1>4. CASE ApplyUpdate
  <2>1. task.word \in Words
    BY <1>4 DEF TypeOK, ApplyUpdate
  <2>2. dict.has \in Contents /\ dict.open \in BOOLEAN
    BY DEF TypeOK, Dicts
  <2>3. [dict.has EXCEPT !.words = @ \cup {task.word}] \in Contents
    BY <2>1, <2>2 DEF Contents
  <2>4. dict' = [dict EXCEPT !.has = [dict.has EXCEPT !.words = @ \cup {task.word}],
                             !.updated = TRUE]
    BY <1>4, <2>2 DEF ApplyUpdate, TypeOK, Dicts, Contents
  <2>5. dict' \in Dicts
    BY <2>3, <2>4 DEF TypeOK, Dicts
  <2>6. QED
    BY <1>4, <2>5 DEF TypeOK, ApplyUpdate, Steps
<1>5. CASE RemoveOldFile
  BY <1>5 DEF TypeOK, RemoveOldFile, Steps
<1>6. CASE RenameNewFile
  <2>1. Kept'
    BY <1>6 DEF TypeOK, RenameNewFile
  <2>2. Run'
    BY <1>6 DEF TypeOK, RenameNewFile, Steps
  <2>3. Rest'
    BY <1>6 DEF TypeOK, RenameNewFile
  <2>4. QED
    BY <1>00, <2>1, <2>2, <2>3
<1>7. CASE CloseBinaryDictionary
  BY <1>7 DEF TypeOK, CloseBinaryDictionary, Steps
<1>8. CASE ReloadKeeps \/ ReloadLoads \/ MigrationFails
  BY <1>8 DEF TypeOK, ReloadKeeps, ReloadLoads, MigrationFails, Steps
<1>9. CASE StartRemove
  BY <1>9 DEF TypeOK, StartRemove, Steps
<1>10. CASE RemoveBinaryDictionary
  BY <1>10 DEF TypeOK, RemoveBinaryDictionary, Steps
<1>11. CASE CreateOnMemory
  BY <1>11 DEF TypeOK, CreateOnMemory, Steps
<1>12. CASE LoadInitialContents
  <2>1. dict' \in Dicts
    BY <1>12 DEF TypeOK, LoadInitialContents, Dicts, Contents
  <2>2. QED
    BY <1>12, <2>1 DEF TypeOK, LoadInitialContents, Steps
<1>13. CASE ClearNeedsToRecreate \/ FinishReload
  BY <1>13 DEF TypeOK, ClearNeedsToRecreate, FinishReload, Steps
<1>14. QED
  BY <1>1, <1>2, <1>3, <1>4, <1>5, <1>6, <1>7, <1>8, <1>9, <1>10, <1>11, <1>12, <1>13
     DEF ExecutorStep

LEMMA NextType == TypeOK /\ [Next]_vars => TypeOK'
<1> SUFFICES ASSUME TypeOK, [Next]_vars PROVE TypeOK' OBVIOUS
<1>1. CASE UNCHANGED vars
  BY <1>1 DEF vars, TypeOK
<1>2. CASE Next
  BY <1>2, CallerType, EventType, ExecutorType DEF Next
<1>3. QED
  BY <1>1, <1>2

\* The variables keep their types, and a task is at hand exactly while the executor
\* is busy.
THEOREM TypeCorrect == Spec => []TypeOK
BY InitType, NextType, PTL DEF Spec

----------------------------------------------------------------------------
(* Readers and tasks exclude each other *)

\* The executor is in a task's body, or no reader's dictionary changes.
LEMMA DictStays ==
    ASSUME [Next]_vars, dict' # dict
    PROVE  WriteLocked \/ Crash
<1> USE DEF callerVars, stored, others, unchangedByTask, WriteLocked
<1>1. CASE \E t \in Threads : Read(t) \/ CallerStep(t)
  BY <1>1 DEF Read, Call, CallerStep, AsyncReload, ScheduleReload, Act, ReadLock,
              ReadTimeout, ReadDone
<1>2. CASE \/ \E w \in Words : UpdateEntriesForWord(w)
           \/ Reopen \/ Close \/ Clear \/ SourceChanges
  BY <1>2 DEF UpdateEntriesForWord, Call, Reopen, Close, Clear, SourceChanges
<1>3. CASE ExecutorStep
  BY <1>3 DEF ExecutorStep, TakeTask, WriteLock, SkipTask, StartFlush, NothingToFlush,
       ApplyUpdate, RemoveOldFile, RenameNewFile, CloseBinaryDictionary, ReloadKeeps,
       ReloadLoads, MigrationFails, StartRemove, RemoveBinaryDictionary, CreateOnMemory,
       LoadInitialContents, ClearNeedsToRecreate, FinishReload
<1>4. QED
  BY <1>1, <1>2, <1>3 DEF Next, vars

\* The executor enters a task's body only when nobody reads.
LEMMA BodyEntered ==
    ASSUME [Next]_vars, WriteLocked', ~WriteLocked
    PROVE  Reading = {} /\ pc' = pc
<1> USE DEF callerVars, executorVars, others, unchangedByTask, WriteLocked
<1>1. CASE \E t \in Threads : Read(t) \/ CallerStep(t)
  BY <1>1 DEF Read, Call, CallerStep, AsyncReload, ScheduleReload, Act, ReadLock,
              ReadTimeout, ReadDone
<1>2. CASE \/ \E w \in Words : UpdateEntriesForWord(w)
           \/ Reopen \/ Close \/ Clear \/ SourceChanges \/ Crash
  BY <1>2 DEF UpdateEntriesForWord, Call, Reopen, Close, Clear, SourceChanges, Crash
<1>3. CASE ExecutorStep
  BY <1>3 DEF ExecutorStep, TakeTask, WriteLock, SkipTask, StartFlush, NothingToFlush,
       ApplyUpdate, RemoveOldFile, RenameNewFile, CloseBinaryDictionary, ReloadKeeps,
       ReloadLoads, MigrationFails, StartRemove, RemoveBinaryDictionary, CreateOnMemory,
       LoadInitialContents, ClearNeedsToRecreate, FinishReload
<1>4. QED
  BY <1>1, <1>2, <1>3 DEF Next, vars

\* A thread starts to read only with an open dictionary and an idle executor.
LEMMA ReadingEntered ==
    ASSUME TypeOK, [Next]_vars, NEW t \in Threads, pc'[t] = "reading", pc[t] # "reading"
    PROVE  dict.open /\ at = "idle" /\ at' = at /\ dict' = dict
<1> USE DEF Goto, callerVars, executorVars, stored, others, unchangedByTask, TypeOK
<1>1. CASE \E u \in Threads : Read(u) \/ CallerStep(u)
  BY <1>1 DEF Read, Call, CallerStep, AsyncReload, ScheduleReload, Act, ReadLock,
              ReadTimeout, ReadDone, ReadersWait
<1>2. CASE \/ \E w \in Words : UpdateEntriesForWord(w)
           \/ Reopen \/ Close \/ Clear \/ SourceChanges \/ Crash
  BY <1>2, DictionaryAssumption
     DEF UpdateEntriesForWord, Call, Reopen, Close, Clear, SourceChanges, Crash
<1>3. CASE ExecutorStep
  BY <1>3 DEF ExecutorStep, TakeTask, WriteLock, SkipTask, StartFlush, NothingToFlush,
       ApplyUpdate, RemoveOldFile, RenameNewFile, CloseBinaryDictionary, ReloadKeeps,
       ReloadLoads, MigrationFails, StartRemove, RemoveBinaryDictionary, CreateOnMemory,
       LoadInitialContents, ClearNeedsToRecreate, FinishReload
<1>4. QED
  BY <1>1, <1>2, <1>3 DEF Next, vars

LEMMA NextReaders ==
    TypeOK /\ ReadersHaveDictionary /\ [Next]_vars => ReadersHaveDictionary'
<1> SUFFICES ASSUME TypeOK, ReadersHaveDictionary, [Next]_vars, Reading' # {}
             PROVE  dict'.open /\ ~WriteLocked'
  BY DEF ReadersHaveDictionary
<1>1. PICK t \in Threads : pc'[t] = "reading"
  BY DEF Reading
<1>2. CASE pc[t] = "reading"
  <2>1. dict.open /\ ~WriteLocked /\ Reading # {}
    BY <1>2 DEF ReadersHaveDictionary, Reading
  <2>2. ~Crash
    BY <1>1 DEF Crash
  <2>3. dict' = dict
    BY <2>1, <2>2, DictStays
  <2>4. QED
    BY <2>1, <2>3, BodyEntered
<1>3. CASE pc[t] # "reading"
  BY <1>1, <1>3, ReadingEntered DEF WriteLocked
<1>4. QED
  BY <1>2, <1>3

\* No suggestion is ever computed on a dictionary that is closed, or being changed,
\* however many threads suggest.
THEOREM ReadersSafe == Spec => []ReadersHaveDictionary
<1>1. Init => ReadersHaveDictionary
  BY DEF Init, ReadersHaveDictionary, Reading
<1>2. QED
  BY <1>1, NextReaders, TypeCorrect, PTL DEF Spec

----------------------------------------------------------------------------
(* One reload at a time *)

Scheduled(t) == t \in Threads /\ pc[t] = "schedule"
Queued(i) == i \in 1..Len(queue) /\ queue[i].op = "reload"
Running == task.op = "reload"

\* The steps that only some tasks take.
StepInTask ==
    /\ at \in {"contents", "clearFlag", "finish"} => Running
    /\ at = "remove" => task.op \in {"reload", "clear", "remove"}
    /\ at = "create" => task.op \in {"reload", "clear"}

\* A reload is under way exactly when the flag says so, and in one place.
TaskInv ==
    /\ StepInTask
    /\ isReloading => Running \/ (\E t : Scheduled(t)) \/ (\E i : Queued(i))
    /\ ~isReloading => ~Running /\ (\A t : ~Scheduled(t)) /\ (\A i : ~Queued(i))
    /\ \A t, u : Scheduled(t) /\ Scheduled(u) => t = u
    /\ \A i, j : Queued(i) /\ Queued(j) => i = j
    /\ Running => (\A t : ~Scheduled(t)) /\ (\A i : ~Queued(i))
    /\ \A t, i : ~(Scheduled(t) /\ Queued(i))

\* A queue that gets a task that is no reload has the same reloads.
LEMMA QueueOther ==
    ASSUME TypeOK, NEW k \in Tasks, k.op # "reload", queue' = Append(queue, k), NEW i
    PROVE  (i \in 1..Len(queue') /\ queue'[i].op = "reload") <=> Queued(i)
<1>1. /\ Len(queue') = Len(queue) + 1 /\ Len(queue) \in Nat
      /\ \A j \in 1..Len(queue) : queue'[j] = queue[j]
      /\ queue'[Len(queue) + 1] = k
  BY DEF TypeOK
<1>2. QED
  BY <1>1 DEF Queued

\* Where nothing about reloads changes, the invariant stays.
LEMMA SameReloads ==
    ASSUME TaskInv,
           isReloading' = isReloading,
           \A t : Scheduled(t)' <=> Scheduled(t),
           \A i : Queued(i)' <=> Queued(i),
           Running' <=> Running,
           StepInTask'
    PROVE  TaskInv'
BY DEF TaskInv

LEMMA CallerTask ==
    ASSUME TypeOK, TaskInv, NEW t \in Threads, Read(t) \/ CallerStep(t)
    PROVE  TaskInv'
<1> USE DEF callerVars, executorVars, Goto
<1>1. CASE Read(t)
  <2>1. \A u : Scheduled(u)' <=> Scheduled(u)
    BY <1>1 DEF Read, Call, Scheduled, TypeOK
  <2>2. QED
    BY <1>1, <2>1, SameReloads DEF Read, Call, Queued, Running, TaskInv, StepInTask
<1>2. CASE AsyncReload(t) /\ isReloading
  <2>1. \A u : Scheduled(u)' <=> Scheduled(u)
    BY <1>2 DEF AsyncReload, Scheduled, TypeOK
  <2>2. QED
    BY <1>2, <2>1, SameReloads DEF AsyncReload, Queued, Running, TaskInv, StepInTask
<1>3. CASE AsyncReload(t) /\ ~isReloading
  <2>1. \A u : Scheduled(u)' <=> u = t
    BY <1>3 DEF AsyncReload, Scheduled, TypeOK, TaskInv
  <2>2. (\A i : ~Queued(i)') /\ ~Running /\ isReloading' /\ task' = task /\ at' = at
    BY <1>3 DEF AsyncReload, Queued, Running, TaskInv, StepInTask
  <2>3. QED
    BY <1>3, <2>1, <2>2 DEF TaskInv, StepInTask, Running
<1>4. CASE ScheduleReload(t)
  <2>1. Scheduled(t)
    BY <1>4 DEF ScheduleReload, Scheduled
  <2>2. \A u : ~Scheduled(u)'
    BY <1>4, <2>1 DEF ScheduleReload, Scheduled, TypeOK, TaskInv
  <2>3. /\ Len(queue') = Len(queue) + 1 /\ Len(queue) \in Nat
        /\ \A j \in 1..Len(queue) : queue'[j] = queue[j]
        /\ queue'[Len(queue) + 1] = Task("reload")
    BY <1>4, TaskTypes DEF ScheduleReload, TypeOK
  <2>4. \A i : Queued(i)' <=> i = Len(queue) + 1
    BY <2>1, <2>3 DEF Queued, TaskInv, Task
  <2>5. isReloading /\ isReloading' /\ ~Running /\ task' = task /\ at' = at
    BY <1>4, <2>1 DEF ScheduleReload, TaskInv, Running
  <2>6. QED
    BY <2>2, <2>4, <2>5 DEF TaskInv, StepInTask, Running
<1>5. CASE Act(t)
  <2>1. \A u : Scheduled(u)' <=> Scheduled(u)
    BY <1>5 DEF Act, Scheduled, TypeOK
  <2>2. \A i : Queued(i)' <=> Queued(i)
    <3>1. CASE job[t].op \in {"update", "close"}
      BY <1>5, <3>1, QueueOther DEF Act, TypeOK, Queued
    <3>2. CASE job[t].op \notin {"update", "close"}
      BY <1>5, <3>2 DEF Act, Queued
    <3>3. QED
      BY <3>1, <3>2
  <2>3. QED
    BY <1>5, <2>1, <2>2, SameReloads DEF Act, Running, TaskInv, StepInTask
<1>6. CASE ReadLock(t) \/ ReadTimeout(t)
  <2>1. \A u : Scheduled(u)' <=> Scheduled(u)
    BY <1>6 DEF ReadLock, ReadTimeout, Scheduled, TypeOK
  <2>2. QED
    BY <1>6, <2>1, SameReloads DEF ReadLock, ReadTimeout, Queued, Running, TaskInv, StepInTask
<1>7. CASE \E corrupted \in BOOLEAN : ReadDone(t, corrupted)
  <2>1. \A u : Scheduled(u)' <=> Scheduled(u)
    BY <1>7 DEF ReadDone, Scheduled, TypeOK
  <2>2. \A i : Queued(i)' <=> Queued(i)
    <3>1. CASE queue' = queue
      BY <3>1 DEF Queued
    <3>2. CASE queue' = Append(queue, Task("remove"))
      <4>1. Task("remove") \in Tasks /\ Task("remove").op # "reload"
        BY TaskTypes DEF Task
      <4>2. QED
        BY <3>2, <4>1, QueueOther DEF Queued
    <3>3. QED
      BY <1>7, <3>1, <3>2 DEF ReadDone
  <2>3. QED
    BY <1>7, <2>1, <2>2, SameReloads DEF ReadDone, Running, TaskInv, StepInTask
<1>8. QED
  BY <1>1, <1>2, <1>3, <1>4, <1>5, <1>6, <1>7 DEF CallerStep

LEMMA EventTask ==
    ASSUME TypeOK, TaskInv,
           \/ \E w \in Words : UpdateEntriesForWord(w)
           \/ Reopen \/ Close \/ Clear \/ SourceChanges \/ Crash
    PROVE  TaskInv'
<1> USE DictionaryAssumption DEF callerVars, executorVars, Goto
<1>1. CASE (\E w \in Words : UpdateEntriesForWord(w)) \/ Reopen
  <2>1. \A u : Scheduled(u)' <=> Scheduled(u)
    BY <1>1 DEF UpdateEntriesForWord, Reopen, Call, Scheduled, TypeOK
  <2>2. QED
    BY <1>1, <2>1, SameReloads
       DEF UpdateEntriesForWord, Reopen, Call, Queued, Running, TaskInv, StepInTask
<1>2. CASE Close
  <2>1. \A u : Scheduled(u)' <=> Scheduled(u)
    BY <1>2 DEF Close, Scheduled, TypeOK
  <2>2. \A i : Queued(i)' <=> Queued(i)
    <3>1. CASE queue' = queue
      BY <3>1 DEF Queued
    <3>2. CASE queue' = Append(queue, Task("flush"))
      <4>1. Task("flush") \in Tasks /\ Task("flush").op # "reload"
        BY TaskTypes DEF Task
      <4>2. QED
        BY <3>2, <4>1, QueueOther DEF Queued
    <3>3. QED
      BY <1>2, <3>1, <3>2 DEF Close
  <2>3. QED
    BY <1>2, <2>1, <2>2, SameReloads DEF Close, Running, TaskInv, StepInTask
<1>3. CASE Clear
  <2>1. Task("clear") \in Tasks /\ Task("clear").op # "reload"
    BY TaskTypes DEF Task
  <2>2. \A i : Queued(i)' <=> Queued(i)
    BY <1>3, <2>1, QueueOther DEF Queued, Clear
  <2>3. QED
    BY <1>3, <2>2, SameReloads DEF Clear, Scheduled, Running, TaskInv, StepInTask
<1>4. CASE SourceChanges
  BY <1>4, SameReloads DEF SourceChanges, Scheduled, Queued, Running, TaskInv, StepInTask
<1>5. CASE Crash
  BY <1>5, TaskTypes DEF Crash, Scheduled, Queued, Running, TaskInv, StepInTask
<1>6. QED
  BY <1>1, <1>2, <1>3, <1>4, <1>5

LEMMA ExecutorTask ==
    ASSUME TypeOK, TaskInv, ExecutorStep
    PROVE  TaskInv'
<1> USE DEF callerVars, others, unchangedByTask
<1>1. CASE TakeTask
  <2>1. /\ queue \in Seq(Tasks \ {Idle}) /\ queue # << >> /\ queue' = Tail(queue)
        /\ task' = Head(queue) /\ task = Idle
    BY <1>1 DEF TakeTask, TypeOK
  <2>2. /\ Len(queue) \in Nat \ {0} /\ Len(queue') = Len(queue) - 1
        /\ \A i \in 1..Len(queue') : queue'[i] = queue[i + 1]
        /\ task' = queue[1]
    BY <2>1
  <2>3. ~Running /\ (Running' <=> Queued(1))
    BY <2>1, <2>2, TaskTypes DEF Running, Queued
  <2>4. \A i : Queued(i)' <=> i \in Nat \ {0} /\ Queued(i + 1)
    BY <2>2 DEF Queued
  <2>5. \A i : Queued(i) => i = 1 \/ (i - 1 \in Nat \ {0} /\ Queued((i - 1) + 1))
    BY <2>2 DEF Queued
  <2>6. isReloading' = isReloading /\ at' = "lock" /\ \A u : Scheduled(u)' <=> Scheduled(u)
    BY <1>1 DEF TakeTask, Scheduled
  <2>7. \A i : Queued(i) => i \in Nat
    BY DEF Queued
  <2>8. (\E i : Queued(i)) => Running' \/ (\E i : Queued(i)')
    BY <2>3, <2>4, <2>5
  <2>9. \A i, j : Queued(i)' /\ Queued(j)' => i = j
    BY <2>4 DEF TaskInv
  <2>10. Running' => \A i : ~Queued(i)'
    <3> SUFFICES ASSUME Running', NEW i, Queued(i)' PROVE FALSE OBVIOUS
    <3>1. Queued(1) /\ Queued(i + 1) /\ i \in Nat \ {0}
      BY <2>3, <2>4
    <3>2. i + 1 = 1
      BY <3>1 DEF TaskInv
    <3>3. QED
      BY <3>1, <3>2
  <2>11. QED
    BY <2>3, <2>4, <2>6, <2>8, <2>9, <2>10 DEF TaskInv, StepInTask, Running
<1>2. CASE FinishReload
  <2>1. Running /\ isReloading
    BY <1>2 DEF FinishReload, TaskInv, StepInTask, Running
  <2>2. (\A t : ~Scheduled(t)) /\ (\A i : ~Queued(i))
    BY <2>1 DEF TaskInv
  <2>3. ~isReloading' /\ ~Running' /\ at' = "idle"
    BY <1>2, TaskTypes DEF FinishReload, EndTask, Running
  <2>4. (\A t : ~Scheduled(t)') /\ (\A i : ~Queued(i)')
    BY <1>2, <2>2 DEF FinishReload, Scheduled, Queued
  <2>5. QED
    BY <2>3, <2>4 DEF TaskInv, StepInTask, Running
<1>3. CASE \/ WriteLock \/ SkipTask \/ StartFlush \/ NothingToFlush \/ ApplyUpdate
           \/ RemoveOldFile \/ RenameNewFile \/ CloseBinaryDictionary \/ ReloadKeeps
           \/ ReloadLoads \/ MigrationFails \/ StartRemove \/ RemoveBinaryDictionary
           \/ CreateOnMemory \/ LoadInitialContents \/ ClearNeedsToRecreate
  <2>1. isReloading' = isReloading /\ queue' = queue /\ pc' = pc
    BY <1>3 DEF WriteLock, SkipTask, StartFlush, NothingToFlush, ApplyUpdate,
       RemoveOldFile, RenameNewFile, CloseBinaryDictionary, ReloadKeeps, ReloadLoads,
       MigrationFails, StartRemove, RemoveBinaryDictionary, CreateOnMemory,
       LoadInitialContents, ClearNeedsToRecreate
  <2>2. /\ Running' <=> Running
        /\ StepInTask'
    BY <1>3, TaskTypes DEF WriteLock, SkipTask, StartFlush, NothingToFlush, ApplyUpdate,
       RemoveOldFile, RenameNewFile, CloseBinaryDictionary, ReloadKeeps, ReloadLoads,
       MigrationFails, StartRemove, RemoveBinaryDictionary, CreateOnMemory,
       LoadInitialContents, ClearNeedsToRecreate, EndTask, Running, TaskInv, StepInTask
  <2>3. QED
    BY <2>1, <2>2, SameReloads DEF Scheduled, Queued
<1>4. QED
  BY <1>1, <1>2, <1>3 DEF ExecutorStep

LEMMA NextTask == TypeOK /\ TaskInv /\ [Next]_vars => TaskInv'
<1> SUFFICES ASSUME TypeOK, TaskInv, [Next]_vars PROVE TaskInv' OBVIOUS
<1>1. CASE UNCHANGED vars
  BY <1>1 DEF vars, TaskInv, StepInTask, Scheduled, Queued, Running
<1>2. CASE Next
  BY <1>2, CallerTask, EventTask, ExecutorTask DEF Next
<1>3. QED
  BY <1>1, <1>2

\* The set of places where a reload is under way has no more than one element.
LEMMA OneReloadFrom == TaskInv => OneReload
<1> SUFFICES ASSUME TaskInv PROVE OneReload OBVIOUS
<1> DEFINE Callers == {<<"caller", t>> : t \in {u \in Threads : pc[u] = "schedule"}}
           Places == {<<"queue", i>> : i \in {j \in DOMAIN queue : queue[j].op = "reload"}}
           Tasking == {<<"task", op>> : op \in {"reload"} \cap {task.op}}
<1>0. Reloads = (Callers \cup Places) \cup Tasking
  BY Zenon DEF Reloads
<1>1. (~\E t : Scheduled(t)) => Callers = {}
  BY DEF Scheduled
<1>2. (~\E i : Queued(i)) => Places = {}
  BY DEF Queued
<1>3. ~Running => Tasking = {}
  BY DEF Running
<1>4. ASSUME isReloading PROVE \E r \in Reloads : Reloads = {r}
  <2>1. CASE Running
    <3>1. Callers = {} /\ Places = {}
      BY <1>1, <1>2, <2>1 DEF TaskInv
    <3>2. Tasking = {<<"task", "reload">>}
      BY <2>1 DEF Running
    <3> HIDE DEF Callers, Places, Tasking
    <3>3. QED
      BY <1>0, <3>1, <3>2
  <2>2. CASE \E t : Scheduled(t)
    <3>1. PICK t : Scheduled(t)
      BY <2>2
    <3>2. Places = {} /\ Tasking = {}
      BY <1>2, <1>3, <2>2 DEF TaskInv
    <3>3. \A u \in Threads : pc[u] = "schedule" <=> u = t
      BY <3>1 DEF TaskInv, Scheduled
    <3>4. Callers = {<<"caller", t>>}
      BY <3>1, <3>3 DEF Scheduled
    <3> HIDE DEF Callers, Places, Tasking
    <3>5. QED
      BY <1>0, <3>2, <3>4
  <2>3. CASE \E i : Queued(i)
    <3>1. PICK i : Queued(i)
      BY <2>3
    <3>2. Callers = {} /\ Tasking = {}
      BY <1>1, <1>3, <2>3 DEF TaskInv
    <3>3. \A j \in DOMAIN queue : queue[j].op = "reload" <=> j = i
      BY <3>1 DEF TaskInv, Queued
    <3>4. Places = {<<"queue", i>>}
      BY <3>1, <3>3 DEF Queued
    <3> HIDE DEF Callers, Places, Tasking
    <3>5. QED
      BY <1>0, <3>2, <3>4
  <2>4. QED
    BY <1>4, <2>1, <2>2, <2>3 DEF TaskInv
<1>5. ASSUME ~isReloading PROVE Reloads = {}
  <2>1. Callers = {} /\ Places = {} /\ Tasking = {}
    BY <1>1, <1>2, <1>3, <1>5 DEF TaskInv
  <2> HIDE DEF Callers, Places, Tasking
  <2>2. QED
    BY <1>0, <2>1
<1>6. QED
  BY <1>4, <1>5 DEF OneReload

LEMMA InitTask == Init => TaskInv
BY TaskTypes DEF Init, TaskInv, StepInTask, Scheduled, Queued, Running

\* The flag stands for one reload: no two are ever queued, and none is forgotten.
THEOREM OneReloadAlways == Spec => []OneReload
<1>1. Spec => []TaskInv
  BY InitTask, NextTask, TypeCorrect, PTL DEF Spec
<1>2. QED
  BY <1>1, OneReloadFrom, PTL

----------------------------------------------------------------------------
(* What is saved stays *)

\* A flush and an update have a dictionary; where nothing can be read on disk there
\* are no words to lose; a dictionary is only created where there is no file.
FileInv ==
    /\ kind = "history" => ~needsToRecreate
    /\ file.is \in {"absent", "broken"} => file.has.words = {}
    /\ at \in {"flush", "rename", "apply", "contents"} => dict.open
    /\ at = "create" => file = NoFile
    /\ at = "remove" /\ task.op = "reload" /\ kind = "history" => file.has.words = {}
    /\ MemoryCoversFile

LEMMA InitFile == Init => FileInv
BY DEF Init, FileInv, MemoryCoversFile, InitialFiles, NoFile, NoDict, Nothing

LEMMA CallerFile ==
    ASSUME FileInv,
           \/ \E t \in Threads : Read(t) \/ CallerStep(t)
           \/ \E w \in Words : UpdateEntriesForWord(w)
           \/ Reopen \/ Close \/ Clear \/ SourceChanges \/ Crash
    PROVE  FileInv'
<1> USE DEF callerVars, executorVars, stored, environment, FileInv, MemoryCoversFile
<1>1. CASE \E t \in Threads : Read(t) \/ CallerStep(t)
  BY <1>1 DEF Read, Call, CallerStep, AsyncReload, ScheduleReload, Act, ReadLock,
              ReadTimeout, ReadDone
<1>2. CASE \/ \E w \in Words : UpdateEntriesForWord(w)
           \/ Reopen \/ Close \/ Clear \/ SourceChanges
  BY <1>2 DEF UpdateEntriesForWord, Call, Reopen, Close, Clear, SourceChanges
<1>3. CASE Crash
  BY <1>3 DEF Crash, NoDict
<1>4. QED
  BY <1>1, <1>2, <1>3

LEMMA ExecutorFile ==
    ASSUME TypeOK, TaskInv, FileInv, ExecutorStep
    PROVE  FileInv'
<1> USE DEF callerVars, stored, environment, others, unchangedByTask, EndTask,
            FileInv, MemoryCoversFile
<1>1. CASE TakeTask \/ WriteLock \/ SkipTask \/ StartFlush \/ NothingToFlush
           \/ ReloadKeeps \/ ClearNeedsToRecreate \/ FinishReload
  BY <1>1 DEF TakeTask, WriteLock, SkipTask, StartFlush, NothingToFlush, ReloadKeeps,
              ClearNeedsToRecreate, FinishReload
<1>2. CASE ApplyUpdate
  <2>1. dict'.open = dict.open /\ dict.has.words \subseteq dict'.has.words
    BY <1>2 DEF ApplyUpdate, TypeOK, Dicts, Contents
  <2>2. QED
    BY <1>2, <2>1 DEF ApplyUpdate
<1>3. CASE RemoveOldFile
  BY <1>3 DEF RemoveOldFile, NoFile, Nothing
<1>4. CASE RenameNewFile
  <2>1. file'.has = dict'.has /\ dict'.open /\ file'.is = "good"
    BY <1>4 DEF RenameNewFile, Opened
  <2>2. at' \in {"apply", "clearFlag", "idle"}
    BY <1>4 DEF RenameNewFile
  <2>3. QED
    BY <1>4, <2>1, <2>2 DEF RenameNewFile
<1>5. CASE CloseBinaryDictionary
  BY <1>5 DEF CloseBinaryDictionary, NoDict
<1>6. CASE ReloadLoads
  BY <1>6 DEF ReloadLoads, Opened, TypeOK, Files
<1>7. CASE MigrationFails
  BY <1>7 DEF MigrationFails, NoDict, NoFile, Nothing
<1>8. CASE StartRemove
  BY <1>8 DEF StartRemove, MustCreate
<1>9. CASE RemoveBinaryDictionary
  BY <1>9 DEF RemoveBinaryDictionary, NoDict, NoFile, Nothing
<1>10. CASE CreateOnMemory
  BY <1>10 DEF CreateOnMemory, Opened, NoFile, Nothing
<1>11. CASE LoadInitialContents
  <2>1. CASE kind = "user"
    BY <1>11, <2>1 DEF LoadInitialContents, TypeOK, Dicts, Contents
  <2>2. CASE kind # "user"
    BY <1>11, <2>2 DEF LoadInitialContents
  <2>3. QED
    BY <2>1, <2>2
<1>12. QED
  BY <1>1, <1>2, <1>3, <1>4, <1>5, <1>6, <1>7, <1>8, <1>9, <1>10, <1>11 DEF ExecutorStep

LEMMA NextFile == TypeOK /\ TaskInv /\ FileInv /\ [Next]_vars => FileInv'
<1> SUFFICES ASSUME TypeOK, TaskInv, FileInv, [Next]_vars PROVE FileInv' OBVIOUS
<1>1. CASE UNCHANGED vars
  BY <1>1 DEF vars, FileInv, MemoryCoversFile
<1>2. CASE Next
  BY <1>2, CallerFile, ExecutorFile DEF Next
<1>3. QED
  BY <1>1, <1>2

\* The dictionary in memory has every word that is on file.
THEOREM MemoryNeverBehind == Spec => []MemoryCoversFile
<1>1. Spec => []TaskInv
  BY InitTask, NextTask, TypeCorrect, PTL DEF Spec
<1>2. Spec => []FileInv
  BY <1>1, InitFile, NextFile, TypeCorrect, PTL DEF Spec
<1>3. FileInv => MemoryCoversFile
  BY DEF FileInv
<1>4. QED
  BY <1>2, <1>3, PTL

\* What a step may do to the words on file.
SavedStep ==
    kind = "history" =>
       \/ SavedWords \subseteq SavedWords'
       \/ at = "remove" /\ task.op \in {"clear", "remove"}
       \/ MigrationFails
       \/ at = "rename" /\ crashes' # crashes

LEMMA NextSaves == TypeOK /\ TaskInv /\ FileInv /\ [Next]_vars => SavedStep
<1> SUFFICES ASSUME TypeOK, TaskInv, FileInv, [Next]_vars, kind = "history" PROVE SavedStep
  BY DEF SavedStep
<1> USE DEF SavedStep, SavedWords
<1>1. CASE UNCHANGED vars
  BY <1>1 DEF vars
<1>2. CASE \/ \E t \in Threads : Read(t) \/ CallerStep(t)
           \/ \E w \in Words : UpdateEntriesForWord(w)
           \/ Reopen \/ Close \/ Clear \/ SourceChanges
  <2>1. UNCHANGED <<file, dict, at>>
    BY <1>2 DEF Read, Call, CallerStep, AsyncReload, ScheduleReload, Act, ReadLock,
                ReadTimeout, ReadDone, UpdateEntriesForWord, Reopen, Close, Clear,
                SourceChanges, stored, executorVars
  <2>2. QED
    BY <2>1
<1>3. CASE Crash
  BY <1>3 DEF Crash, TypeOK
<1>4. CASE ExecutorStep
  <2> USE DEF stored, EndTask
  <2>1. CASE TakeTask \/ WriteLock \/ SkipTask \/ StartFlush \/ NothingToFlush
             \/ ReloadKeeps \/ StartRemove \/ ClearNeedsToRecreate \/ FinishReload
             \/ CreateOnMemory \/ LoadInitialContents \/ CloseBinaryDictionary
             \/ ApplyUpdate
    <3>1. file' = file /\ at # "rename" /\ at' # "rename"
      BY <2>1 DEF TakeTask, WriteLock, SkipTask, StartFlush, NothingToFlush, ReloadKeeps,
                  StartRemove, ClearNeedsToRecreate, FinishReload, CreateOnMemory,
                  LoadInitialContents, CloseBinaryDictionary, ApplyUpdate
    <3>2. QED
      BY <3>1
  <2>2. CASE RemoveOldFile
    BY <2>2 DEF RemoveOldFile, FileInv, MemoryCoversFile
  <2>3. CASE RenameNewFile
    <3>1. file'.has = dict.has /\ dict'.has = dict.has /\ at = "rename"
      BY <2>3 DEF RenameNewFile, Opened
    <3>2. QED
      BY <3>1
  <2>4. CASE ReloadLoads
    <3>1. file'.has = file.has /\ at # "rename" /\ at' # "rename"
      BY <2>4 DEF ReloadLoads, TypeOK, Files
    <3>2. QED
      BY <3>1
  <2>5. CASE MigrationFails
    BY <2>5
  <2>6. CASE RemoveBinaryDictionary
    <3>1. at = "remove" /\ at # "rename"
      BY <2>6 DEF RemoveBinaryDictionary
    <3>2. CASE task.op = "reload"
      BY <3>1, <3>2 DEF FileInv
    <3>3. CASE task.op \in {"clear", "remove"}
      BY <3>1, <3>3
    <3>4. QED
      BY <3>1, <3>2, <3>3 DEF TaskInv, StepInTask
  <2>7. QED
    BY <1>4, <2>1, <2>2, <2>3, <2>4, <2>5, <2>6 DEF ExecutorStep
<1>5. QED
  BY <1>1, <1>2, <1>3, <1>4 DEF Next

\* A word on file stays there over every flush, close and reload; only clearing, a
\* corrupted dictionary, a failed migration or a death before the rename loses it.
THEOREM SavedWordsKept == Spec => SavedWordsStay
<1>1. Spec => []TaskInv
  BY InitTask, NextTask, TypeCorrect, PTL DEF Spec
<1>2. Spec => []FileInv
  BY <1>1, InitFile, NextFile, TypeCorrect, PTL DEF Spec
<1>3. TypeOK /\ TaskInv /\ FileInv /\ [Next]_vars
        => [kind = "history" =>
               \/ SavedWords \subseteq SavedWords'
               \/ at = "remove" /\ task.op \in {"clear", "remove"}
               \/ MigrationFails
               \/ at = "rename" /\ crashes' # crashes]_vars
  BY NextSaves DEF SavedStep
<1>4. QED
  BY <1>1, <1>2, <1>3, TypeCorrect, PTL DEF Spec, SavedWordsStay
----------------------------------------------------------------------------
(* What is pending is flushed before a close *)

\* Memory and file agree; between the two halves of a flush there is no file.
UpToDate == at # "rename" /\ dict.has.words \subseteq file.has.words

\* When the place i of the queue is reached, memory and file agree: a flush waits
\* before it with no update in between, or none is needed, or one is running.
FlushQueued(i) ==
    \E j \in 1..(i - 1) : queue[j].op = "flush"
                             /\ \A k \in (j + 1)..(i - 1) : queue[k].op # "update"

NoUpdateBefore(i) == \A k \in 1..(i - 1) : queue[k].op # "update"

FlushedBefore(i) ==
    \/ FlushQueued(i)
    \/ NoUpdateBefore(i)
         /\ (task.op = "flush" \/ (task.op # "update" /\ UpToDate))

\* Only the main thread updates and closes, and its close follows its flush at once.
CallInv ==
    /\ \A t \in Threads \ {Main} : pc[t] # "idle" => job[t].op = "read"
    /\ pc[Main] \in {"reload", "schedule"} => job[Main].op # "close"

\* A closed dictionary is empty, only an update or a flush of the history writes the
\* file, a dictionary without updates is as the file, and every close, running,
\* queued or about to be queued, finds memory and file in agreement.
CloseInv ==
    /\ dict.open \/ dict = NoDict
    /\ at \in {"flush", "rename"} => task.op \in {"update", "flush"}
    /\ at # "rename" /\ ~dict.updated => dict.has.words \subseteq file.has.words
    /\ task.op = "close" => UpToDate
    /\ \A i \in 1..Len(queue) : queue[i].op = "close" => FlushedBefore(i)
    /\ pc[Main] = "act" /\ job[Main].op = "close" => FlushedBefore(Len(queue) + 1)

FlushInv == CallInv /\ (kind = "history" => CloseInv)

LEMMA InitFlush == Init => FlushInv
BY DictionaryAssumption DEF Init, FlushInv, CallInv, CloseInv, NoDict, Nothing, Idle, Task

\* What a call does to the callers.
LEMMA NextCalls == TypeOK /\ CallInv /\ [Next]_vars => CallInv'
<1> SUFFICES ASSUME TypeOK, CallInv, [Next]_vars PROVE CallInv' OBVIOUS
<1> USE DictionaryAssumption DEF TypeOK, CallInv, Goto, callerVars
<1>1. CASE \E t \in Threads : Read(t)
  BY <1>1 DEF Read, Call, Task
<1>2. CASE \E t \in Threads : CallerStep(t)
  BY <1>2 DEF CallerStep, AsyncReload, ScheduleReload, Act, ReadLock, ReadTimeout, ReadDone
<1>3. CASE (\E w \in Words : UpdateEntriesForWord(w)) \/ Reopen
  BY <1>3 DEF UpdateEntriesForWord, Reopen, Call, Task, Update
<1>4. CASE Close \/ Clear \/ SourceChanges \/ Crash
  BY <1>4 DEF Close, Clear, SourceChanges, Crash, Task
<1>5. CASE ExecutorStep
  BY <1>5 DEF ExecutorStep, TakeTask, WriteLock, SkipTask, StartFlush, NothingToFlush,
       ApplyUpdate, RemoveOldFile, RenameNewFile, CloseBinaryDictionary, ReloadKeeps,
       ReloadLoads, MigrationFails, StartRemove, RemoveBinaryDictionary, CreateOnMemory,
       LoadInitialContents, ClearNeedsToRecreate, FinishReload, others, unchangedByTask
<1>6. QED
  BY <1>1, <1>2, <1>3, <1>4, <1>5 DEF Next, vars

\* A place of the queue stays protected when a task is queued behind it, and the
\* place behind a new task is protected when that is a flush, or no update.
LEMMA QueuedBehind ==
    ASSUME TypeOK, UNCHANGED <<task, at, dict, file>>,
           NEW k \in Tasks, queue' = Append(queue, k)
    PROVE  /\ Len(queue) \in Nat /\ Len(queue') = Len(queue) + 1
           /\ queue'[Len(queue) + 1] = k
           /\ \A i \in 1..Len(queue) : queue'[i] = queue[i]
           /\ \A i \in 1..(Len(queue) + 1) : FlushedBefore(i) => FlushedBefore(i)'
           /\ k.op = "flush" => FlushedBefore(Len(queue) + 1)'
           /\ k.op # "update" /\ FlushedBefore(Len(queue) + 1)
                => FlushedBefore(Len(queue) + 1)'
<1>1. /\ Len(queue) \in Nat /\ Len(queue') = Len(queue) + 1
      /\ queue'[Len(queue) + 1] = k
      /\ \A i \in 1..Len(queue) : queue'[i] = queue[i]
  BY DEF TypeOK
<1>2. UpToDate' <=> UpToDate
  BY DEF UpToDate
<1>3. ASSUME NEW i \in 1..(Len(queue) + 1), FlushedBefore(i)
      PROVE  FlushedBefore(i)'
  <2>1. \A j \in 1..(i - 1) : queue'[j] = queue[j]
    BY <1>1
  <2>2. FlushQueued(i) => FlushQueued(i)'
    BY <2>1 DEF FlushQueued
  <2>3. NoUpdateBefore(i) => NoUpdateBefore(i)'
    BY <2>1 DEF NoUpdateBefore
  <2>4. QED
    BY <1>2, <1>3, <2>2, <2>3 DEF FlushedBefore
<1>4. ASSUME k.op = "flush" PROVE FlushedBefore(Len(queue) + 1)'
  <2>1. FlushQueued(Len(queue) + 1)'
    BY <1>1, <1>4 DEF FlushQueued
  <2>2. QED
    BY <2>1 DEF FlushedBefore
<1>5. ASSUME k.op # "update", FlushedBefore(Len(queue) + 1)
      PROVE  FlushedBefore(Len(queue) + 1)'
  <2>1. FlushQueued(Len(queue) + 1) => FlushQueued(Len(queue) + 1)'
    BY <1>1, <1>5 DEF FlushQueued
  <2>2. NoUpdateBefore(Len(queue) + 1) => NoUpdateBefore(Len(queue) + 1)'
    BY <1>1, <1>5 DEF NoUpdateBefore
  <2>3. QED
    BY <1>2, <1>5, <2>1, <2>2 DEF FlushedBefore
<1>6. QED
  BY <1>1, <1>3, <1>4, <1>5

\* A task is queued that is no close, while the main thread is not about to close or
\* the task is no update.
LEMMA QueueKeepsClose ==
    ASSUME TypeOK, CloseInv, UNCHANGED <<task, at, dict, file>>,
           NEW k \in Tasks, queue' = Append(queue, k), k.op # "close",
           pc'[Main] = "act" /\ job'[Main].op = "close" =>
              k.op = "flush" \/ (k.op # "update" /\ pc[Main] = "act" /\ job[Main].op = "close")
    PROVE  CloseInv'
<1>1. \A i \in 1..Len(queue') : queue'[i].op = "close" => FlushedBefore(i)'
  BY QueuedBehind DEF CloseInv
<1>2. pc'[Main] = "act" /\ job'[Main].op = "close" => FlushedBefore(Len(queue) + 1)'
  BY QueuedBehind DEF CloseInv
<1>3. QED
  BY <1>1, <1>2 DEF CloseInv, UpToDate

\* Nothing is queued, and the main thread is not about to close unless it was.
LEMMA SameKeepsClose ==
    ASSUME CloseInv, UNCHANGED <<task, at, dict, file, queue>>,
           pc'[Main] = "act" /\ job'[Main].op = "close" =>
              pc[Main] = "act" /\ job[Main].op = "close"
    PROVE  CloseInv'
BY DEF CloseInv, UpToDate, FlushedBefore, FlushQueued, NoUpdateBefore

LEMMA CallerCloses ==
    ASSUME TypeOK, CallInv, CloseInv, NEW t \in Threads, Read(t) \/ CallerStep(t)
    PROVE  CloseInv'
<1> USE DictionaryAssumption DEF executorVars, stored, Goto
<1>1. CASE Read(t)
  <2>1. job'[Main].op = "close" => job[Main].op = "close" /\ pc'[Main] = pc[Main]
    BY <1>1 DEF Read, Call, Task, TypeOK
  <2>2. QED
    BY <1>1, <2>1, SameKeepsClose DEF Read, Call
<1>2. CASE AsyncReload(t)
  BY <1>2, SameKeepsClose DEF AsyncReload, CallInv, TypeOK
<1>3. CASE ScheduleReload(t)
  <2>1. Task("reload") \in Tasks /\ Task("reload").op = "reload"
    BY TaskTypes DEF Task
  <2>2. pc'[Main] = "act" /\ job'[Main].op = "close" => pc[Main] = "act"
    BY <1>3 DEF ScheduleReload, CallInv, TypeOK
  <2>3. UNCHANGED <<task, at, dict, file, job>> /\ queue' = Append(queue, Task("reload"))
    BY <1>3 DEF ScheduleReload
  <2>4. QED
    BY <2>1, <2>2, <2>3, QueueKeepsClose
<1>4. CASE Act(t)
  <2>1. /\ job[t] \in Tasks /\ UNCHANGED <<task, at, dict, file, job>>
        /\ pc[t] = "act" /\ pc'[t] # "act"
    BY <1>4 DEF Act, TypeOK
  <2>2. CASE job[t].op \notin {"update", "close"}
    <3>1. queue' = queue /\ (pc'[Main] = "act" => pc[Main] = "act")
      BY <1>4, <2>2 DEF Act, TypeOK
    <3>2. QED
      BY <2>1, <3>1, SameKeepsClose
  <2>3. CASE job[t].op \in {"update", "close"}
    <3>1. t = Main /\ queue' = Append(queue, job[t]) /\ pc'[Main] # "act"
      BY <1>4, <2>1, <2>3 DEF Act, CallInv
    <3>2. CASE job[t].op = "update"
      BY <2>1, <3>1, <3>2, QueueKeepsClose
    <3>3. CASE job[t].op = "close"
      <4>1. FlushedBefore(Len(queue) + 1)
        BY <2>1, <3>1, <3>3 DEF CloseInv
      <4>2. \A i \in 1..Len(queue') : queue'[i].op = "close" => FlushedBefore(i)'
        BY <2>1, <3>1, <4>1, QueuedBehind DEF CloseInv
      <4>3. QED
        BY <2>1, <3>1, <4>2 DEF CloseInv, UpToDate
    <3>4. QED
      BY <2>3, <3>2, <3>3
  <2>4. QED
    BY <2>2, <2>3
<1>5. CASE ReadLock(t) \/ ReadTimeout(t)
  BY <1>5, SameKeepsClose DEF ReadLock, ReadTimeout, TypeOK
<1>6. CASE \E corrupted \in BOOLEAN : ReadDone(t, corrupted)
  <2>1. PICK corrupted \in BOOLEAN : ReadDone(t, corrupted)
    BY <1>6
  <2>2. UNCHANGED <<task, at, dict, file, job>> /\ (pc'[Main] = "act" => pc[Main] = "act")
    BY <2>1 DEF ReadDone, TypeOK
  <2>3. CASE queue' = queue
    BY <2>2, <2>3, SameKeepsClose
  <2>4. CASE queue' = Append(queue, Task("remove"))
    <3>1. Task("remove") \in Tasks /\ Task("remove").op = "remove"
      BY TaskTypes DEF Task
    <3>2. QED
      BY <2>2, <2>4, <3>1, QueueKeepsClose
  <2>5. QED
    BY <2>1, <2>3, <2>4 DEF ReadDone
<1>7. QED
  BY <1>1, <1>2, <1>3, <1>4, <1>5, <1>6 DEF CallerStep

LEMMA EventCloses ==
    ASSUME TypeOK, CloseInv, kind = "history",
           \/ \E w \in Words : UpdateEntriesForWord(w)
           \/ Reopen \/ Close \/ Clear \/ SourceChanges \/ Crash
    PROVE  CloseInv'
<1> USE DictionaryAssumption DEF executorVars, stored, callerVars, Goto
<1>1. CASE (\E w \in Words : UpdateEntriesForWord(w)) \/ Reopen
  <2>1. job'[Main].op # "close"
    BY <1>1 DEF UpdateEntriesForWord, Reopen, Call, Task, Update, TypeOK
  <2>2. QED
    BY <1>1, <2>1, SameKeepsClose DEF UpdateEntriesForWord, Reopen, Call
<1>2. CASE Close
  <2>1. Task("flush") \in Tasks /\ Task("flush").op = "flush"
    BY TaskTypes DEF Task
  <2>2. UNCHANGED <<task, at, dict, file>> /\ queue' = Append(queue, Task("flush"))
    BY <1>2 DEF Close
  <2>3. QED
    BY <2>1, <2>2, QueueKeepsClose
<1>3. CASE Clear
  <2>1. Task("clear") \in Tasks /\ Task("clear").op = "clear"
    BY TaskTypes DEF Task
  <2>2. UNCHANGED <<task, at, dict, file, pc, job>> /\ queue' = Append(queue, Task("clear"))
        /\ pc[Main] = "idle"
    BY <1>3 DEF Clear
  <2>3. QED
    BY <2>1, <2>2, QueueKeepsClose
<1>4. CASE SourceChanges
  BY <1>4 DEF SourceChanges
<1>5. CASE Crash
  BY <1>5 DEF Crash, CloseInv, NoDict, Nothing, Idle, Task
<1>6. QED
  BY <1>1, <1>2, <1>3, <1>4, <1>5

\* Within its task, the executor keeps memory and file in agreement, unless that is
\* an update; a flush leaves them so.
LEMMA TaskAgrees ==
    ASSUME TypeOK, TaskInv, FileInv, CloseInv, kind = "history",
           ExecutorStep, ~TakeTask
    PROVE  /\ UNCHANGED <<queue, pc, job>>
           /\ dict'.open \/ dict' = NoDict
           /\ at' \in {"flush", "rename"} => task'.op \in {"update", "flush"}
           /\ at' # "rename" /\ ~dict'.updated => dict'.has.words \subseteq file'.has.words
           /\ task.op = "flush" \/ (task.op # "update" /\ UpToDate)
                => task'.op = "flush" \/ (task'.op # "update" /\ UpToDate')
           /\ task'.op = "close" => task.op = "close" /\ UpToDate'
<1> USE DEF callerVars, stored, others, unchangedByTask, EndTask, UpToDate
<1>0. task \in Tasks /\ Idle.op = "none" /\ NoDict.has.words = {} /\ dict \in Dicts
  BY TaskTypes DEF TypeOK, NoDict, Nothing
<1>1. CASE \/ WriteLock \/ SkipTask \/ StartFlush \/ NothingToFlush \/ ReloadKeeps
           \/ StartRemove \/ ClearNeedsToRecreate \/ FinishReload
  <2>1. UNCHANGED <<queue, pc, job, dict, file>> /\ at' # "rename" /\ at # "rename"
    BY <1>1 DEF WriteLock, SkipTask, StartFlush, NothingToFlush, ReloadKeeps,
       StartRemove, ClearNeedsToRecreate, FinishReload
  <2>2. task' = task \/ task' = Idle
    BY <1>1 DEF WriteLock, SkipTask, StartFlush, NothingToFlush, ReloadKeeps,
       StartRemove, ClearNeedsToRecreate, FinishReload
  <2>3. task.op = "flush" /\ task' = Idle => UpToDate
    BY <1>0, <1>1 DEF WriteLock, SkipTask, StartFlush, NothingToFlush, ReloadKeeps,
       StartRemove, ClearNeedsToRecreate, FinishReload, CloseInv, TaskInv, StepInTask,
       Running
  <2>4. at' \in {"flush", "rename"} => task'.op \in {"update", "flush"}
    BY <1>1 DEF WriteLock, SkipTask, StartFlush, NothingToFlush, ReloadKeeps,
       StartRemove, ClearNeedsToRecreate, FinishReload
  <2>5. QED
    BY <1>0, <2>1, <2>2, <2>3, <2>4 DEF CloseInv
<1>2. CASE ApplyUpdate
  <2>1. dict'.open = dict.open /\ dict'.updated /\ dict.open
    BY <1>0, <1>2 DEF ApplyUpdate, Dicts, FileInv
  <2>2. QED
    BY <1>0, <1>2, <2>1 DEF ApplyUpdate
<1>3. CASE RemoveOldFile
  BY <1>0, <1>3 DEF RemoveOldFile, CloseInv
<1>4. CASE RenameNewFile
  <2>1. dict' = Opened(dict.has) /\ file'.has = dict.has /\ dict'.open
        /\ dict'.has = dict.has /\ at' # "rename"
    BY <1>4 DEF RenameNewFile, Opened
  <2>2. task' = task \/ task' = Idle
    BY <1>4 DEF RenameNewFile
  <2>3. QED
    BY <1>0, <1>4, <2>1, <2>2 DEF RenameNewFile
<1>5. CASE CloseBinaryDictionary
  BY <1>0, <1>5 DEF CloseBinaryDictionary
<1>6. CASE ReloadLoads
  <2>1. dict'.open /\ dict'.has = file.has /\ file'.has = file.has
    BY <1>6 DEF ReloadLoads, Opened, TypeOK, Files
  <2>2. QED
    BY <1>6, <2>1 DEF ReloadLoads
<1>7. CASE MigrationFails \/ RemoveBinaryDictionary
  BY <1>0, <1>7 DEF MigrationFails, RemoveBinaryDictionary, NoDict, Nothing, TaskInv,
       StepInTask
<1>8. CASE CreateOnMemory
  BY <1>0, <1>8 DEF CreateOnMemory, Opened, Nothing, TaskInv, StepInTask
<1>9. CASE LoadInitialContents
  BY <1>0, <1>9 DEF LoadInitialContents, CloseInv
<1>10. QED
  BY <1>1, <1>2, <1>3, <1>4, <1>5, <1>6, <1>7, <1>8, <1>9 DEF ExecutorStep

\* The task at the head of the queue becomes the one that runs, and every other
\* moves up.
LEMMA TakeCloses ==
    ASSUME TypeOK, CloseInv, TakeTask
    PROVE  CloseInv'
<1>1. /\ queue \in Seq(Tasks \ {Idle}) /\ queue # << >> /\ queue' = Tail(queue)
      /\ task' = Head(queue) /\ task = Idle /\ at = "idle" /\ at' = "lock"
      /\ UNCHANGED <<dict, file, pc, job>>
  BY DEF TakeTask, TypeOK, stored, callerVars
<1>2. /\ Len(queue) \in Nat \ {0} /\ Len(queue') = Len(queue) - 1
      /\ \A i \in 1..Len(queue') : queue'[i] = queue[i + 1]
      /\ task' = queue[1]
  BY <1>1
<1>3. task.op = "none"
  BY <1>1, TaskTypes
<1>4. ASSUME NEW i \in 1..(Len(queue') + 1), FlushedBefore(i + 1)
      PROVE  FlushedBefore(i)'
  <2>1. CASE NoUpdateBefore(i + 1) /\ UpToDate
    <3>1. task'.op # "update" /\ UpToDate'
      BY <1>1, <1>2, <2>1 DEF NoUpdateBefore, UpToDate
    <3>2. \A k \in 1..(i - 1) : k + 1 \in 1..i /\ queue'[k] = queue[k + 1]
      BY <1>2
    <3>3. NoUpdateBefore(i)'
      BY <2>1, <3>2 DEF NoUpdateBefore
    <3>4. QED
      BY <3>1, <3>3 DEF FlushedBefore
  <2>2. CASE FlushQueued(i + 1)
    <3>1. PICK j \in 1..i : queue[j].op = "flush"
                               /\ \A k \in (j + 1)..i : queue[k].op # "update"
      BY <2>2 DEF FlushQueued
    <3>2. \A k \in j..(i - 1) : k > 0 => queue'[k] = queue[k + 1] /\ k + 1 \in (j + 1)..i
      BY <1>2
    <3>3. CASE j = 1
      <4>1. task'.op = "flush" /\ \A k \in 1..(i - 1) : queue'[k].op # "update"
        BY <1>2, <3>1, <3>2, <3>3
      <4>2. QED
        BY <4>1 DEF FlushedBefore, NoUpdateBefore
    <3>4. CASE j # 1
      <4>1. j - 1 \in 1..(i - 1) /\ queue'[j - 1] = queue[j]
        BY <1>2, <3>4
      <4>2. \A k \in ((j - 1) + 1)..(i - 1) : queue'[k].op # "update"
        BY <3>1, <3>2, <3>4
      <4>3. FlushQueued(i)'
        BY <3>1, <4>1, <4>2 DEF FlushQueued
      <4>4. QED
        BY <4>3 DEF FlushedBefore
    <3>5. QED
      BY <3>3, <3>4
  <2>3. QED
    BY <1>3, <1>4, <2>1, <2>2 DEF FlushedBefore
<1>5. task'.op = "close" => UpToDate'
  <2>1. FlushedBefore(1) => UpToDate
    BY <1>3 DEF FlushedBefore, FlushQueued
  <2>2. QED
    BY <1>1, <1>2, <2>1 DEF CloseInv, UpToDate
<1>6. \A i \in 1..Len(queue') : queue'[i].op = "close" => FlushedBefore(i)'
  <2> SUFFICES ASSUME NEW i \in 1..Len(queue'), queue'[i].op = "close"
               PROVE  FlushedBefore(i)'
    OBVIOUS
  <2>1. i + 1 \in 1..Len(queue) /\ queue[i + 1].op = "close"
    BY <1>2
  <2>2. QED
    BY <1>2, <1>4, <2>1 DEF CloseInv
<1>7. pc'[Main] = "act" /\ job'[Main].op = "close" => FlushedBefore(Len(queue) + 1)'
  <2>1. (Len(queue') + 1) + 1 = Len(queue) + 1 /\ Len(queue') + 1 \in 1..(Len(queue') + 1)
    BY <1>2
  <2>2. \A i : i = Len(queue') + 1 /\ FlushedBefore(i + 1) => FlushedBefore(i)'
    BY <1>4, <2>1
  <2>3. FlushedBefore(Len(queue) + 1) => FlushedBefore(Len(queue) + 1)'
    BY <2>1, <2>2
  <2>4. QED
    BY <1>1, <2>3 DEF CloseInv
<1>8. QED
  BY <1>1, <1>5, <1>6, <1>7 DEF CloseInv

LEMMA NextFlush ==
    TypeOK /\ TaskInv /\ FileInv /\ FlushInv /\ [Next]_vars => FlushInv'
<1> SUFFICES ASSUME TypeOK, TaskInv, FileInv, FlushInv, [Next]_vars PROVE FlushInv'
  OBVIOUS
<1>1. CallInv'
  BY NextCalls DEF FlushInv
<1>2. ASSUME kind' = "history" PROVE CloseInv'
  <2>1. kind = "history"
    BY <1>2 DEF Next, vars, Read, Call, CallerStep, AsyncReload, ScheduleReload, Act,
       ReadLock, ReadTimeout, ReadDone, UpdateEntriesForWord, Reopen, Close, Clear,
       SourceChanges, Crash, ExecutorStep, TakeTask, WriteLock, SkipTask, StartFlush,
       NothingToFlush, ApplyUpdate, RemoveOldFile, RenameNewFile, CloseBinaryDictionary,
       ReloadKeeps, ReloadLoads, MigrationFails, StartRemove, RemoveBinaryDictionary,
       CreateOnMemory, LoadInitialContents, ClearNeedsToRecreate, FinishReload,
       environment, others, unchangedByTask
  <2>2. CallInv /\ CloseInv
    BY <2>1 DEF FlushInv
  <2>3. CASE UNCHANGED vars
    BY <2>2, <2>3, SameKeepsClose DEF vars
  <2>4. CASE \E t \in Threads : Read(t) \/ CallerStep(t)
    BY <2>2, <2>4, CallerCloses
  <2>5. CASE \/ \E w \in Words : UpdateEntriesForWord(w)
             \/ Reopen \/ Close \/ Clear \/ SourceChanges \/ Crash
    BY <2>1, <2>2, <2>5, EventCloses
  <2>6. CASE TakeTask
    BY <2>2, <2>6, TakeCloses
  <2>7. CASE ExecutorStep /\ ~TakeTask
    <3>1. /\ UNCHANGED <<queue, pc, job>>
          /\ dict'.open \/ dict' = NoDict
          /\ at' \in {"flush", "rename"} => task'.op \in {"update", "flush"}
          /\ at' # "rename" /\ ~dict'.updated => dict'.has.words \subseteq file'.has.words
          /\ task.op = "flush" \/ (task.op # "update" /\ UpToDate)
               => task'.op = "flush" \/ (task'.op # "update" /\ UpToDate')
          /\ task'.op = "close" => task.op = "close" /\ UpToDate'
      BY <2>1, <2>2, <2>7, TaskAgrees
    <3>2. \A i : FlushedBefore(i) => FlushedBefore(i)'
      BY <3>1 DEF FlushedBefore, FlushQueued, NoUpdateBefore
    <3>3. \A i \in 1..Len(queue') : queue'[i].op = "close" => FlushedBefore(i)'
      BY <2>2, <3>1, <3>2 DEF CloseInv
    <3>4. pc'[Main] = "act" /\ job'[Main].op = "close" => FlushedBefore(Len(queue) + 1)'
      BY <2>2, <3>1, <3>2 DEF CloseInv
    <3>5. QED
      BY <3>1, <3>3, <3>4 DEF CloseInv
  <2>8. QED
    BY <2>3, <2>4, <2>5, <2>6, <2>7 DEF Next, ExecutorStep
<1>3. QED
  BY <1>1, <1>2 DEF FlushInv

\* However reloads and removals of the other threads are queued in between: when the
\* history is closed, every word typed before is on file.
THEOREM NothingUnsavedAtClose == Spec => PendingWritesFlushed
<1>1. Spec => []TaskInv
  BY InitTask, NextTask, TypeCorrect, PTL DEF Spec
<1>2. Spec => []FileInv
  BY <1>1, InitFile, NextFile, TypeCorrect, PTL DEF Spec
<1>3. Spec => []FlushInv
  BY <1>1, <1>2, InitFlush, NextFlush, TypeCorrect, PTL DEF Spec
<1>4. FlushInv => [CloseBinaryDictionary /\ kind = "history" =>
                      dict.has.words \subseteq file.has.words]_vars
  BY DEF FlushInv, CloseInv, CloseBinaryDictionary, UpToDate
<1>5. QED
  BY <1>3, <1>4, PTL DEF Spec, PendingWritesFlushed

=============================================================================
