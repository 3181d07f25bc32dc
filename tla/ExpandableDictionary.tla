------------------------ MODULE ExpandableDictionary ------------------------
(***************************************************************************)
(* An updatable dictionary as the Java side runs it                        *)
(* (ExpandableBinaryDictionary and its two subclasses): the typing history *)
(* ("history"), which starts empty and learns, and the user's word list    *)
(* ("user"), which is rebuilt from a content provider whenever that        *)
(* changes.  Every change is a task of one background thread, run under    *)
(* the write lock; suggestions are read by other threads under the read    *)
(* lock; whether a reload is needed is decided without any lock.  The      *)
(* process may die at any moment and leaves the file behind.               *)
(***************************************************************************)
EXTENDS Naturals, Sequences

CONSTANTS
  Threads,     \* the threads that call the dictionary
  Main,        \* the one that types, opens, closes and clears
  Words,       \* words the user may type
  NoWord,      \* not a word
  MaxQueue,    \* bound: no call starts when so many tasks are queued
  MaxSource,   \* bound on the changes of the content provider
  MaxCrashes   \* bound on the deaths of the process

ASSUME DictionaryAssumption ==
  /\ Main \in Threads
  /\ NoWord \notin Words
  /\ MaxQueue \in Nat /\ MaxSource \in Nat /\ MaxCrashes \in Nat

VARIABLES
  kind,             \* which of the two dictionaries this is
  file,             \* the dictionary on disk
  dict,             \* mBinaryDictionary
  needsToRecreate,  \* mNeedsToRecreate
  isReloading,      \* mIsReloading
  queue,            \* tasks of the background executor
  task, at,         \* the task it runs, and where it is in it
  pc, job,          \* of each calling thread: where it is, and in which call
  closed,           \* the owner has closed this dictionary
  source,           \* how often the content provider has changed
  crashes

vars == <<kind, file, dict, needsToRecreate, isReloading, queue, task, at, pc, job,
          closed, source, crashes>>

----------------------------------------------------------------------------
(* Contents, tasks and calls *)

Contents == [words : SUBSET Words, source : 0..MaxSource]
Nothing == [words |-> {}, source |-> 0]

\* On disk: absent, good, of an older format, or not readable.
Files == [is : {"absent", "good", "old", "broken"}, has : Contents]
NoFile == [is |-> "absent", has |-> Nothing]

\* In memory: null or open, with whether it has updates that are not on disk.
Dicts == [open : BOOLEAN, has : Contents, updated : BOOLEAN]
NoDict == [open |-> FALSE, has |-> Nothing, updated |-> FALSE]
Opened(contents) == [open |-> TRUE, has |-> contents, updated |-> FALSE]

\* Tasks of the executor, and the calls that queue them or read.
Task(op) == [op |-> op, word |-> NoWord]
Update(w) == [op |-> "update", word |-> w]
Idle == Task("none")
Tasks == {Task(op) : op \in {"none", "reload", "flush", "close", "clear", "remove",
                             "read", "open"}}
           \cup {Update(w) : w \in Words}

Steps == {"idle", "lock", "run", "remove", "create", "contents", "flush", "rename",
          "apply", "clearFlag", "finish"}

\* The executor holds the write lock from the step after "lock" on.
WriteLocked == at \notin {"idle", "lock"}

\* The lock lets no reader overtake a waiting writer.
ReadersWait == at # "idle"

Reading == {t \in Threads : pc[t] = "reading"}

TypeOK ==
  /\ kind \in {"history", "user"}
  /\ file \in Files
  /\ dict \in Dicts
  /\ needsToRecreate \in BOOLEAN /\ isReloading \in BOOLEAN /\ closed \in BOOLEAN
  /\ queue \in Seq(Tasks \ {Idle}) /\ task \in Tasks /\ at \in Steps
  /\ pc \in [Threads -> {"idle", "reload", "schedule", "act", "lock", "reading"}]
  /\ job \in [Threads -> Tasks]
  /\ task = Idle <=> at = "idle"
  /\ source \in 0..MaxSource /\ crashes \in 0..MaxCrashes

----------------------------------------------------------------------------
\* What an earlier version or an earlier life has left.
InitialFiles ==
  {NoFile, [is |-> "broken", has |-> Nothing]}
    \cup [is : {"good", "old"}, has : [words : {{}, Words}, source : {0}]]

Init ==
  /\ kind \in {"history", "user"}
  /\ file \in InitialFiles
  /\ dict = NoDict
  /\ needsToRecreate = FALSE /\ isReloading = FALSE /\ closed = FALSE
  /\ queue = << >> /\ task = Idle /\ at = "idle"
  /\ pc = [t \in Threads |-> "idle"] /\ job = [t \in Threads |-> Idle]
  /\ source = 0 /\ crashes = 0

----------------------------------------------------------------------------
(* Calls *)

HasRoom == Len(queue) < MaxQueue

Goto(t, where) == pc' = [pc EXCEPT ![t] = where]

callerVars == <<pc, job>>
executorVars == <<task, at>>
stored == <<file, dict>>
environment == <<kind, source, crashes>>

\* isReloadRequired
ReloadRequired == ~dict.open \/ needsToRecreate

\* Every call but close and clear begins with reloadDictionaryIfRequired, whose test
\* takes no lock.
Call(t, what) ==
  /\ HasRoom
  /\ pc[t] = "idle"
  /\ Goto(t, IF ReloadRequired THEN "reload" ELSE "act")
  /\ job' = [job EXCEPT ![t] = what]
  /\ UNCHANGED <<stored, needsToRecreate, isReloading, queue, executorVars, environment>>

Read(t) == Call(t, Task("read")) /\ UNCHANGED closed

\* A word is typed: it goes to the history of the open dictionary.
UpdateEntriesForWord(w) ==
  /\ kind = "history" /\ ~closed
  /\ Call(Main, Update(w))
  /\ UNCHANGED closed

\* The history dictionary is kept in a cache and handed out again after a close.
Reopen ==
  /\ kind = "history" /\ closed
  /\ Call(Main, Task("open"))
  /\ closed' = FALSE

\* Bug: the flag is read and set without compareAndSet.
AsyncReloadNoCas(t) ==
  /\ pc[t] = "reload"
  /\ isReloading' = TRUE
  /\ Goto(t, "schedule")
  /\ UNCHANGED <<stored, needsToRecreate, queue, executorVars, job, closed, environment>>

\* asyncReloadDictionary: only one reload is under way.
AsyncReload(t) ==
  /\ pc[t] = "reload"
  /\ isReloading' = TRUE
  /\ Goto(t, IF isReloading THEN "act" ELSE "schedule")
  /\ UNCHANGED <<stored, needsToRecreate, queue, executorVars, job, closed, environment>>

ScheduleReload(t) ==
  /\ pc[t] = "schedule"
  /\ queue' = Append(queue, Task("reload"))
  /\ Goto(t, "act")
  /\ UNCHANGED <<stored, needsToRecreate, isReloading, executorVars, job, closed, environment>>

\* What the call is for: an update or a close is queued, a read goes for the lock.
Act(t) ==
  /\ pc[t] = "act"
  /\ queue' = IF job[t].op \in {"update", "close"} THEN Append(queue, job[t]) ELSE queue
  /\ Goto(t, IF job[t].op = "read" THEN "lock" ELSE "idle")
  /\ UNCHANGED <<stored, needsToRecreate, isReloading, executorVars, job, closed, environment>>

\* tryLock succeeds; without a dictionary there is nothing to read.
ReadLock(t) ==
  /\ pc[t] = "lock"
  /\ ~ReadersWait
  /\ Goto(t, IF dict.open THEN "reading" ELSE "idle")
  /\ UNCHANGED <<stored, needsToRecreate, isReloading, queue, executorVars, job, closed,
                 environment>>

\* Bug: the lock is waited for without a timeout.
ReadTimeoutNever(t) == FALSE /\ pc[t] = "lock"

\* tryLock gives up after TIMEOUT_FOR_READ_OPS_IN_MILLISECONDS.
ReadTimeout(t) ==
  /\ pc[t] = "lock"
  /\ ReadersWait
  /\ Goto(t, "idle")
  /\ UNCHANGED <<stored, needsToRecreate, isReloading, queue, executorVars, job, closed,
                 environment>>

\* Suggestions are there; a dictionary found corrupted is to be removed.
ReadDone(t, corrupted) ==
  /\ pc[t] = "reading"
  /\ corrupted => HasRoom
  /\ queue' = IF corrupted THEN Append(queue, Task("remove")) ELSE queue
  /\ Goto(t, "idle")
  /\ UNCHANGED <<stored, needsToRecreate, isReloading, executorVars, job, closed, environment>>

\* Bug: nothing is flushed before.
CloseOnly ==
  /\ HasRoom
  /\ pc[Main] = "idle" /\ ~closed
  /\ closed' = TRUE
  /\ Goto(Main, "act") /\ job' = [job EXCEPT ![Main] = Task("close")]
  /\ UNCHANGED <<stored, needsToRecreate, isReloading, queue, executorVars, environment>>

\* close: the history queues a flush before.
Close ==
  /\ HasRoom
  /\ pc[Main] = "idle" /\ ~closed
  /\ closed' = TRUE
  /\ queue' = IF kind = "history" THEN Append(queue, Task("flush")) ELSE queue
  /\ Goto(Main, "act") /\ job' = [job EXCEPT ![Main] = Task("close")]
  /\ UNCHANGED <<stored, needsToRecreate, isReloading, executorVars, environment>>

\* The user turns personalization off.
Clear ==
  /\ HasRoom
  /\ kind = "history"
  /\ pc[Main] = "idle" /\ ~closed
  /\ queue' = Append(queue, Task("clear"))
  /\ UNCHANGED <<stored, needsToRecreate, isReloading, executorVars, callerVars, closed,
                 environment>>

\* The observer of the content provider; it is unregistered on close.
SourceChanges ==
  /\ kind = "user" /\ source < MaxSource
  /\ source' = source + 1
  /\ needsToRecreate' = (needsToRecreate \/ ~closed)
  /\ UNCHANGED <<kind, stored, isReloading, queue, executorVars, callerVars, closed, crashes>>

----------------------------------------------------------------------------
(* The executor *)

\* What a task leaves alone: the flags, unless it is a reload's end, and the rest.
others == <<queue, callerVars, closed, environment>>
unchangedByTask == <<needsToRecreate, isReloading, others>>

TakeTask ==
  /\ at = "idle" /\ queue # << >>
  /\ task' = Head(queue) /\ queue' = Tail(queue) /\ at' = "lock"
  /\ UNCHANGED <<stored, needsToRecreate, isReloading, callerVars, closed, environment>>

\* Bug: the task does not wait for the readers.
WriteLockEarly ==
  /\ at = "lock"
  /\ at' = "run"
  /\ UNCHANGED <<stored, task, unchangedByTask>>

WriteLock ==
  /\ at = "lock" /\ Reading = {}
  /\ at' = "run"
  /\ UNCHANGED <<stored, task, unchangedByTask>>

\* Bug: the lock is released, the task stays.
EndTaskKeepsTask == at' = "idle" /\ task' = task

\* The task ends and the lock is released.
EndTask == task' = Idle /\ at' = "idle"

\* A task that finds no dictionary does nothing.
SkipTask ==
  /\ at = "run" /\ task.op \in {"update", "flush"} /\ ~dict.open
  /\ EndTask
  /\ UNCHANGED <<stored, unchangedByTask>>

\* The dictionary is flushed before the update when it needs garbage collection; on
\* a flush, when it has updates or needs garbage collection.
StartFlush ==
  /\ at = "run" /\ task.op \in {"update", "flush"} /\ dict.open
  /\ at' = "flush"
  /\ UNCHANGED <<stored, task, unchangedByTask>>

NothingToFlush ==
  /\ at = "run" /\ task.op = "flush" /\ dict.open /\ ~dict.updated
  /\ EndTask
  /\ UNCHANGED <<stored, unchangedByTask>>

ApplyUpdate ==
  /\ task.op = "update"
  /\ at = "apply" \/ (at = "run" /\ dict.open)
  /\ dict' = [dict EXCEPT !.has.words = @ \cup {task.word}, !.updated = TRUE]
  /\ EndTask
  /\ UNCHANGED <<file, unchangedByTask>>

\* flushHeaderAndDictBuffers has written the new files aside: the old directory is
\* removed, then the new one renamed.
RemoveOldFile ==
  /\ at = "flush"
  /\ file' = NoFile /\ at' = "rename"
  /\ UNCHANGED <<dict, task, unchangedByTask>>

\* Then the dictionary is opened again from the file.
RenameNewFile ==
  /\ at = "rename"
  /\ file' = [is |-> "good", has |-> dict.has]
  /\ dict' = Opened(dict.has)
  /\ CASE task.op = "update" -> at' = "apply" /\ task' = task
       [] task.op = "reload" -> at' = "clearFlag" /\ task' = task
       [] OTHER              -> EndTask
  /\ UNCHANGED unchangedByTask

CloseBinaryDictionary ==
  /\ at = "run" /\ task.op = "close"
  /\ dict' = NoDict
  /\ EndTask
  /\ UNCHANGED <<file, unchangedByTask>>

\* The reload task: create a new dictionary, load the file, or keep what is there.
MustCreate == file.is = "absent" \/ needsToRecreate

ReloadKeeps ==
  /\ at = "run" /\ task.op = "reload" /\ ~MustCreate /\ dict.open
  /\ at' = "clearFlag"
  /\ UNCHANGED <<stored, task, unchangedByTask>>

\* loadBinaryDictionaryLocked; an older format is migrated, which takes the step
\* as a whole.
ReloadLoads ==
  /\ at = "run" /\ task.op = "reload" /\ ~MustCreate /\ ~dict.open
  /\ file.is \in {"good", "old"}
  /\ dict' = Opened(file.has) /\ file' = [file EXCEPT !.is = "good"]
  /\ at' = "clearFlag"
  /\ UNCHANGED <<task, unchangedByTask>>

\* A failed migration leaves neither a dictionary nor a file.
MigrationFails ==
  /\ at = "run" /\ task.op = "reload" /\ ~MustCreate /\ ~dict.open /\ file.is = "old"
  /\ dict' = NoDict /\ file' = NoFile
  /\ at' = "clearFlag"
  /\ UNCHANGED <<task, unchangedByTask>>

\* Bug: a file whose dictionary was closed is not loaded but created again.
StartRemoveAlways ==
  /\ at = "run"
  /\ \/ task.op \in {"clear", "remove"}
     \/ task.op = "reload" /\ (MustCreate \/ ~dict.open)
  /\ at' = "remove"
  /\ UNCHANGED <<stored, task, unchangedByTask>>

\* A dictionary that is cleared, corrupted, unreadable or to be created goes first.
StartRemove ==
  /\ at = "run"
  /\ \/ task.op \in {"clear", "remove"}
     \/ task.op = "reload" /\ (MustCreate \/ (~dict.open /\ file.is = "broken"))
  /\ at' = "remove"
  /\ UNCHANGED <<stored, task, unchangedByTask>>

\* Bug: the file stays.
RemoveBinaryDictionaryKeepsFile ==
  /\ at = "remove"
  /\ dict' = NoDict
  /\ IF task.op = "remove" THEN EndTask ELSE at' = "create" /\ task' = task
  /\ UNCHANGED <<file, unchangedByTask>>

RemoveBinaryDictionary ==
  /\ at = "remove"
  /\ dict' = NoDict /\ file' = NoFile
  /\ IF task.op = "remove" THEN EndTask ELSE at' = "create" /\ task' = task
  /\ UNCHANGED unchangedByTask

CreateOnMemory ==
  /\ at = "create"
  /\ dict' = Opened(Nothing)
  /\ IF task.op = "clear" THEN EndTask ELSE at' = "contents" /\ task' = task
  /\ UNCHANGED <<file, unchangedByTask>>

\* loadInitialContentsLocked: the history has none, and is not flushed then.
LoadInitialContents ==
  /\ at = "contents" /\ task.op = "reload"
  /\ IF kind = "user"
       THEN dict' = [dict EXCEPT !.has.source = source, !.updated = TRUE] /\ at' = "flush"
       ELSE dict' = dict /\ at' = "clearFlag"
  /\ UNCHANGED <<file, task, unchangedByTask>>

ClearNeedsToRecreate ==
  /\ at = "clearFlag"
  /\ needsToRecreate' = FALSE /\ at' = "finish"
  /\ UNCHANGED <<stored, isReloading, task, others>>

\* Bug: the flag is reset only when the reload has given a dictionary.
FinishReloadOnlyOpen ==
  /\ at = "finish"
  /\ isReloading' = ~dict.open
  /\ EndTask
  /\ UNCHANGED <<stored, needsToRecreate, others>>

FinishReload ==
  /\ at = "finish"
  /\ isReloading' = FALSE
  /\ EndTask
  /\ UNCHANGED <<stored, needsToRecreate, others>>

\* The process dies, and is started again with a new dictionary object.
Crash ==
  /\ crashes < MaxCrashes
  /\ crashes' = crashes + 1
  /\ dict' = NoDict /\ needsToRecreate' = FALSE /\ isReloading' = FALSE /\ closed' = FALSE
  /\ queue' = << >> /\ task' = Idle /\ at' = "idle"
  /\ pc' = [t \in Threads |-> "idle"] /\ job' = [t \in Threads |-> Idle]
  /\ UNCHANGED <<kind, file, source>>

----------------------------------------------------------------------------
CallerStep(t) ==
  \/ AsyncReload(t) \/ ScheduleReload(t) \/ Act(t)
  \/ ReadLock(t) \/ ReadTimeout(t)
  \/ \E corrupted \in BOOLEAN : ReadDone(t, corrupted)

ExecutorStep ==
  \/ TakeTask \/ WriteLock
  \/ SkipTask \/ StartFlush \/ NothingToFlush \/ ApplyUpdate
  \/ RemoveOldFile \/ RenameNewFile \/ CloseBinaryDictionary
  \/ ReloadKeeps \/ ReloadLoads \/ MigrationFails \/ StartRemove
  \/ RemoveBinaryDictionary \/ CreateOnMemory \/ LoadInitialContents
  \/ ClearNeedsToRecreate \/ FinishReload

Next ==
  \/ \E t \in Threads : Read(t) \/ CallerStep(t)
  \/ \E w \in Words : UpdateEntriesForWord(w)
  \/ Reopen \/ Close \/ Clear \/ SourceChanges
  \/ ExecutorStep
  \/ Crash

\* The executor's thread runs, and a thread that has begun a call goes on with it.
Fairness == WF_vars(ExecutorStep) /\ \A t \in Threads : WF_vars(CallerStep(t))

Spec == Init /\ [][Next]_vars /\ Fairness

----------------------------------------------------------------------------
(* Properties *)

\* A suggestion is computed by native code on the dictionary of that moment: none
\* is closed or replaced under it, although the tasks that do so are queued by
\* other threads, and the reference is read before the lock is taken.
ReadersHaveDictionary ==
  Reading # {} => dict.open /\ ~WriteLocked

\* Where a reload is under way: the caller that won the flag, the queue, the task.
Reloads ==
  {<<"caller", t>> : t \in {u \in Threads : pc[u] = "schedule"}}
    \cup {<<"queue", i>> : i \in {j \in DOMAIN queue : queue[j].op = "reload"}}
    \cup {<<"task", op>> : op \in {"reload"} \cap {task.op}}

\* mIsReloading is set exactly while one reload is under way: never two of them,
\* and never a flag left behind that would keep the dictionary from loading again.
OneReload ==
  /\ isReloading => \E r \in Reloads : Reloads = {r}
  /\ ~isReloading => Reloads = {}

\* Memory never falls behind the file, so that no flush can lose a word that an
\* earlier one has saved.
MemoryCoversFile ==
  kind = "history" /\ dict.open => file.has.words \subseteq dict.has.words

\* The close that comes after a flush finds nothing unsaved: every word that was
\* typed before close() is on file, whatever reloads and removals the other
\* threads have queued in between.
PendingWritesFlushed ==
  [][CloseBinaryDictionary /\ kind = "history" =>
       dict.has.words \subseteq file.has.words]_vars

\* What is on disk, or about to be put back by the rename.
SavedWords == IF at = "rename" THEN dict.has.words ELSE file.has.words

\* A word on file stays there over loads, closes, flushes and reloads, until the
\* history is cleared, found corrupted or cannot be migrated; otherwise only a death
\* of the process between the removal of the old file and the rename loses it.
SavedWordsStay ==
  [][kind = "history" =>
       \/ SavedWords \subseteq SavedWords'
       \/ at = "remove" /\ task.op \in {"clear", "remove"}
       \/ MigrationFails
       \/ at = "rename" /\ crashes' # crashes]_vars

\* The flag is reset at the end of every reload, whatever came of it: under the
\* executor's fairness a dictionary can always be loaded again.
ReloadEnds == isReloading ~> ~isReloading

\* A call returns, also while tasks keep coming: the thread that types is not held
\* up by the one that writes.
CallsReturn == \A t \in Threads : pc[t] # "idle" ~> pc[t] = "idle"
=============================================================================
