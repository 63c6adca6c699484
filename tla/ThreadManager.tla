---------------------------- MODULE ThreadManager ----------------------------
(***************************************************************************)
(* ThreadManager (threading/pthread/threadmanager.cpp): tasks are queued   *)
(* by the loop's thread and evaluated in Pulse, between epoll_wait and the *)
(* dispatch of its events.  Each launched task runs on a thread of its own *)
(* that works on the record kept in _runningTasks and reports by writing   *)
(* the record's status, without a lock.                                    *)
(*                                                                         *)
(* No task of the program queues another one from its own thread, nothing  *)
(* calls PurgeTasks, and _mutex and _pendingMutex are then taken by one    *)
(* thread only: they are not modelled.  Ids are drawn with rand(), so a    *)
(* pass visits the map in any order.                                       *)
(***************************************************************************)
EXTENDS FiniteSets

CONSTANT Ids      \* task ids in use at once: bounds the tasks in flight

VARIABLES
  threads,        \* _threads: the ids reserved by GenerateTaskId
  pending,        \* ids of the records in _pendingTasks
  running,        \* ids of the records in _runningTasks
  status,         \* status of the record of an id in _runningTasks
  completion,     \* whether its asyncCompletionTask is not NULL
  worker,         \* the thread of the task: not there, created or in the task
  main            \* where the loop's thread is in EvaluateTasks

vars == <<threads, pending, running, status, completion, worker, main>>

Statuses == {"PENDING", "LAUNCHED", "SHUTDOWN", "COMPLETED"}

\* The loop's thread: the task it looks at, those the pass has still to visit,
\* and completedTasksIds.  A completion that runs has control ("completion").
AtLoop == [at |-> "loop", todo |-> {}, completed |-> {}]
Main == {AtLoop} \cup [at : {"scan"}, todo : SUBSET Ids, completed : SUBSET Ids]
          \cup [at : {"created", "completion"}, id : Ids,
                todo : SUBSET Ids, completed : SUBSET Ids]

Scan(todo, completed) == [at |-> "scan", todo |-> todo, completed |-> completed]
At(place, id) == [at |-> place, id |-> id,
                  todo |-> main.todo \ {id}, completed |-> main.completed]

Init ==
  /\ threads = {} /\ pending = {} /\ running = {}
  /\ status = [id \in Ids |-> "COMPLETED"]
  /\ completion = [id \in Ids |-> FALSE]
  /\ worker = [id \in Ids |-> "none"]
  /\ main = AtLoop

-----------------------------------------------------------------------------
(* Queueing, by a callback of the loop or by a completion.                 *)

\* Mistake: the id is not looked up in _threads.
GenerateTaskId_NotTested(id) == threads' = threads \cup {id}

GenerateTaskId(id) == id \notin threads /\ threads' = threads \cup {id}

QueueAsyncTask(hasCompletion) ==
  /\ main.at \in {"loop", "completion"}
  /\ \E id \in Ids :
       /\ GenerateTaskId(id)
       /\ pending' = pending \cup {id}
       /\ completion' = [completion EXCEPT ![id] = hasCompletion]
  /\ UNCHANGED <<running, status, worker, main>>

-----------------------------------------------------------------------------
(* EvaluateTasks, called by Pulse.                                         *)

\* The pending records are copied into _runningTasks, then the pass begins.
MergePending ==
  /\ main.at = "loop"
  /\ running' = running \cup pending
  /\ pending' = {}
  /\ status' = [id \in Ids |-> IF id \in pending THEN "PENDING" ELSE status[id]]
  /\ main' = Scan(running \cup pending, {})
  /\ UNCHANGED <<threads, completion, worker>>

Visited(id, is) == main.at = "scan" /\ id \in main.todo /\ status[id] = is

SkipLaunched(id) ==
  /\ Visited(id, "LAUNCHED")
  /\ main' = Scan(main.todo \ {id}, main.completed)
  /\ UNCHANGED <<threads, pending, running, status, completion, worker>>

\* Mistake: the id is not given back.
DropCompleted_IdKept(id) ==
  /\ Visited(id, "COMPLETED")
  /\ main' = Scan(main.todo \ {id}, main.completed \cup {id})
  /\ UNCHANGED <<threads, pending, running, status, completion, worker>>

DropCompleted(id) ==
  /\ Visited(id, "COMPLETED")
  /\ threads' = threads \ {id}
  /\ main' = Scan(main.todo \ {id}, main.completed \cup {id})
  /\ UNCHANGED <<pending, running, status, completion, worker>>

\* Mistake: LAUNCHED is written after pthread_create, over the report of a
\* quick thread.
LaunchTask_StatusLate(id) ==
  /\ Visited(id, "PENDING")
  /\ status' = [status EXCEPT ![id] = "LAUNCHED"]
  /\ worker' \in {worker, [worker EXCEPT ![id] = "created"]}
  /\ main' = At("created", id)
  /\ UNCHANGED <<threads, pending, running, completion>>

\* The status is LAUNCHED before the thread exists; pthread_create succeeds.
LaunchTask(id) ==
  /\ Visited(id, "PENDING")
  /\ status' = [status EXCEPT ![id] = "LAUNCHED"]
  /\ worker' = [worker EXCEPT ![id] = "created"]
  /\ main' = At("created", id)
  /\ UNCHANGED <<threads, pending, running, completion>>

\* pthread_create fails: the status is PENDING again.  The key of the
\* uninitialized thread written to _threads is there already.
LaunchFails(id) ==
  /\ Visited(id, "PENDING")
  /\ status' = [status EXCEPT ![id] = "PENDING"]
  /\ main' = Scan(main.todo \ {id}, main.completed)
  /\ UNCHANGED <<threads, pending, running, completion, worker>>

\* The last test reads the status again: a quick thread may have reported.
NotShutdownYet(id) ==
  /\ main.at = "created" /\ main.id = id /\ status[id] # "SHUTDOWN"
  /\ main' = Scan(main.todo, main.completed)
  /\ UNCHANGED <<threads, pending, running, status, completion, worker>>

CompletionBegins(id) ==
  /\ \/ Visited(id, "SHUTDOWN")
     \/ main.at = "created" /\ main.id = id /\ status[id] = "SHUTDOWN"
  /\ main' = At("completion", id)
  /\ UNCHANGED <<threads, pending, running, status, completion, worker>>

\* Mistake: the id is not given back.
CompletionEnds_IdKept(id) ==
  /\ main.at = "completion" /\ main.id = id
  /\ status' = [status EXCEPT ![id] = "COMPLETED"]
  /\ main' = Scan(main.todo, main.completed \cup {id})
  /\ UNCHANGED <<threads, pending, running, completion, worker>>

CompletionEnds(id) ==
  /\ main.at = "completion" /\ main.id = id
  /\ status' = [status EXCEPT ![id] = "COMPLETED"]
  /\ threads' = threads \ {id}
  /\ main' = Scan(main.todo, main.completed \cup {id})
  /\ UNCHANGED <<pending, running, completion, worker>>

\* The records of completedTasksIds are erased and the pass is over.
PassEnds ==
  /\ main.at = "scan" /\ main.todo = {}
  /\ running' = running \ main.completed
  /\ main' = AtLoop
  /\ UNCHANGED <<threads, pending, status, completion, worker>>

-----------------------------------------------------------------------------
(* launchTask, on the thread of the task.                                  *)

TaskStarts(id) ==
  /\ worker[id] = "created"
  /\ worker' = [worker EXCEPT ![id] = "task"]
  /\ UNCHANGED <<threads, pending, running, status, completion, main>>

TaskReturns(id) ==
  /\ worker[id] = "task"
  /\ status' = [status EXCEPT ![id] =
                  IF completion[id] THEN "SHUTDOWN" ELSE "COMPLETED"]
  /\ worker' = [worker EXCEPT ![id] = "none"]
  /\ UNCHANGED <<threads, pending, running, completion, main>>

-----------------------------------------------------------------------------
Visit(id) == \/ SkipLaunched(id) \/ DropCompleted(id)
             \/ LaunchTask(id) \/ LaunchFails(id)
             \/ NotShutdownYet(id) \/ CompletionBegins(id)

Next ==
  \/ \E hasCompletion \in BOOLEAN : QueueAsyncTask(hasCompletion)
  \/ MergePending \/ PassEnds
  \/ \E id \in Ids : Visit(id) \/ CompletionEnds(id) \/ TaskStarts(id) \/ TaskReturns(id)

Spec == Init /\ [][Next]_vars

-----------------------------------------------------------------------------
(* Properties.                                                             *)

\* Every variable has its type.
TypeOK ==
  /\ threads \subseteq Ids /\ pending \subseteq Ids /\ running \subseteq Ids
  /\ status \in [Ids -> Statuses]
  /\ completion \in [Ids -> BOOLEAN]
  /\ worker \in [Ids -> {"none", "created", "task"}]
  /\ main \in Main

\* A thread works on a record that is in _runningTasks and LAUNCHED, however
\* passes, reports and new tasks interleave: the address given to
\* pthread_create stays good.  And no record is LAUNCHED without a thread:
\* the pass would skip it for ever.
WorkersHaveRecords ==
  \A id \in Ids : worker[id] # "none" <=> id \in running /\ status[id] = "LAUNCHED"

\* Two tasks never share an id: only a record the pass is about to erase may
\* bear the id of a pending one, and the id of a task that is not over stays
\* reserved.
IdsAreUnique ==
  /\ pending \cap running \subseteq main.completed
  /\ pending \cup (running \ main.completed) \subseteq threads
  /\ \A id \in main.completed : worker[id] = "none"

\* The two together, and the types: no thread writes to a record that is erased
\* or stands for another task.
TaskRecords == TypeOK /\ WorkersHaveRecords /\ IdsAreUnique

\* What has become of the task of an id, seen by who queued it.
TaskOf(id) ==
  IF id \in pending THEN "queued"
  ELSE IF id \notin running \ main.completed THEN "free"
  ELSE IF status[id] = "PENDING" THEN "queued"
  ELSE IF status[id] = "LAUNCHED" THEN "running"
  ELSE IF main.at = "completion" /\ main.id = id THEN "completing"
  ELSE "returned"

Queue == INSTANCE TaskQueue WITH task <- [id \in Ids |-> TaskOf(id)]

\* The task manager implements the queue it stands for: each task launched
\* once and completed once, on the loop's thread, after it has returned.
Implements == Queue!Spec

\* A task that was queued runs, is completed and gives its id back.
QueuedAreCompleted == \A id \in Ids : id \in threads ~> id \notin threads

==============================================================================
