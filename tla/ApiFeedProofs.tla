---------------------------- MODULE ApiFeedProofs ----------------------------
(***************************************************************************)
(* Proofs about ThreadManager, for any set of ids, and about the flag      *)
(* _feeding of ApiFeed, for any number of feeds in flight.                 *)
(*                                                                         *)
(* A pass of EvaluateTasks is not atomic: threads report, and completions  *)
(* queue new tasks, while it is under way.  The invariant therefore says   *)
(* what the pass has seen that cannot change behind its back.  Each step   *)
(* of the camera's protocol is a step of the thread manager or leaves it   *)
(* alone, so that what is proved of the thread manager holds here too.     *)
(***************************************************************************)
EXTENDS ApiFeed, TLAPS

\* Where the pass is: what it has still to visit and what it will erase are
\* records of the map, apart from each other.
PassInv ==
  /\ main.todo \subseteq running /\ main.completed \subseteq running
  /\ main.todo \cap main.completed = {}
  /\ main.at \in {"created", "completion"} =>
        main.id \in running \ (main.todo \cup main.completed)
  /\ main.at = "created" => status[main.id] # "PENDING"
  /\ main.at = "completion" => status[main.id] = "SHUTDOWN"

\* What a status says of the completion: a record that waits for it has one,
\* and one that is COMPLETED before the pass has seen it has none.
StatusInv ==
  /\ \A id \in main.completed : status[id] = "COMPLETED"
  /\ \A id \in running \ main.completed :
        /\ status[id] = "SHUTDOWN" => completion[id]
        /\ status[id] = "COMPLETED" => ~completion[id]

IInv == TypeOK /\ PassInv /\ StatusInv /\ WorkersHaveRecords /\ IdsAreUnique

-----------------------------------------------------------------------------
LEMMA InitInv == Init => IInv
BY DEF Init, IInv, TypeOK, PassInv, StatusInv, WorkersHaveRecords, IdsAreUnique,
       AtLoop, Main, Statuses

LEMMA StepInv == IInv /\ [Next]_vars => IInv'
<1> USE DEF IInv, TypeOK, PassInv, StatusInv, WorkersHaveRecords, IdsAreUnique,
            Statuses
<1> SUFFICES ASSUME IInv, [Next]_vars PROVE IInv'
  OBVIOUS
<1>1. ASSUME NEW hasCompletion \in BOOLEAN, QueueAsyncTask(hasCompletion) PROVE IInv'
  BY <1>1 DEF QueueAsyncTask, GenerateTaskId, Main
<1>2. CASE MergePending
  BY <1>2 DEF MergePending, Scan, Main, AtLoop
<1>3. CASE PassEnds
  BY <1>3 DEF PassEnds, AtLoop, Main
<1>4. ASSUME NEW id \in Ids, SkipLaunched(id) PROVE IInv'
  BY <1>4 DEF SkipLaunched, Visited, Scan, Main, AtLoop
<1>5. ASSUME NEW id \in Ids, DropCompleted(id) PROVE IInv'
  BY <1>5 DEF DropCompleted, Visited, Scan, Main, AtLoop
<1>6. ASSUME NEW id \in Ids, LaunchTask(id) PROVE IInv'
  BY <1>6 DEF LaunchTask, Visited, At, Main, AtLoop
<1>7. ASSUME NEW id \in Ids, LaunchFails(id) PROVE IInv'
  BY <1>7 DEF LaunchFails, Visited, Scan, Main, AtLoop
<1>8. ASSUME NEW id \in Ids, NotShutdownYet(id) PROVE IInv'
  BY <1>8 DEF NotShutdownYet, Scan, Main, AtLoop
<1>9. ASSUME NEW id \in Ids, CompletionBegins(id) PROVE IInv'
  BY <1>9 DEF CompletionBegins, Visited, At, Main, AtLoop
<1>10. ASSUME NEW id \in Ids, CompletionEnds(id) PROVE IInv'
  BY <1>10 DEF CompletionEnds, Scan, Main, AtLoop
<1>11. ASSUME NEW id \in Ids, TaskStarts(id) PROVE IInv'
  BY <1>11 DEF TaskStarts
<1>12. ASSUME NEW id \in Ids, TaskReturns(id) PROVE IInv'
  BY <1>12 DEF TaskReturns
<1>13. CASE UNCHANGED vars
  BY <1>13 DEF vars
<1> QED
  BY <1>1, <1>2, <1>3, <1>4, <1>5, <1>6, <1>7, <1>8, <1>9, <1>10, <1>11,
     <1>12, <1>13 DEF Next, Visit

\* The inductive invariant holds in every state of every behaviour.
THEOREM Invariance == Spec => []IInv
BY InitInv, StepInv, PTL DEF Spec

\* Every variable of the thread manager keeps its type.
THEOREM TypeCorrect == Spec => []TypeOK
BY Invariance, PTL DEF IInv

\* The record a thread was given is in the map, LAUNCHED, until that thread
\* reports: launchTask never writes to an erased record.
THEOREM RecordsOutliveWorkers == Spec => []WorkersHaveRecords
BY Invariance, PTL DEF IInv

\* GenerateTaskId never gives out the id of a task that is not over.
THEOREM IdsNeverShared == Spec => []IdsAreUnique
BY Invariance, PTL DEF IInv

\* What a thread writes to is the record of its task, from its creation to its
\* report.
THEOREM RecordsStayGood == Spec => []TaskRecords
BY TypeCorrect, RecordsOutliveWorkers, IdsNeverShared, PTL DEF TaskRecords

-----------------------------------------------------------------------------
(* The refinement: each step moves at most the task of one id.             *)

tasks == [id \in Ids |-> TaskOf(id)]

LEMMA MovesOne ==
  ASSUME NEW id \in Ids, NEW to,
         TaskOf(id)' = to,
         \A other \in Ids \ {id} : TaskOf(other)' = TaskOf(other)
  PROVE  tasks' = [tasks EXCEPT ![id] = to]
BY DEF tasks

LEMMA MovesNone ==
  ASSUME \A id \in Ids : TaskOf(id)' = TaskOf(id)
  PROVE  tasks' = tasks
BY DEF tasks

LEMMA RefinesInit == Init => Queue!Init
BY DEF Init, Queue!Init, TaskOf

LEMMA RefinesStep == IInv /\ [Next]_vars => [Queue!Next]_Queue!vars
<1> USE DEF IInv, TypeOK, PassInv, StatusInv, WorkersHaveRecords, IdsAreUnique,
            Statuses
<1> SUFFICES ASSUME IInv, [Next]_vars PROVE [Queue!Next]_<<tasks, completion>>
  BY DEF Queue!vars, tasks
<1> DEFINE Stutters == tasks' = tasks /\ completion' = completion
<1> HIDE DEF Stutters
<1>0. ASSUME Stutters PROVE [Queue!Next]_<<tasks, completion>>
  BY <1>0 DEF Stutters
<1>1. ASSUME NEW hasCompletion \in BOOLEAN, QueueAsyncTask(hasCompletion)
      PROVE  [Queue!Next]_<<tasks, completion>>
  <2>1. PICK id \in Ids :
          /\ GenerateTaskId(id)
          /\ pending' = pending \cup {id}
          /\ completion' = [completion EXCEPT ![id] = hasCompletion]
    BY <1>1 DEF QueueAsyncTask
  <2>2. TaskOf(id) = "free" /\ TaskOf(id)' = "queued"
    BY <1>1, <2>1 DEF TaskOf, GenerateTaskId, QueueAsyncTask
  <2>3. \A other \in Ids \ {id} : TaskOf(other)' = TaskOf(other)
    BY <1>1, <2>1 DEF TaskOf, QueueAsyncTask
  <2>4. tasks' = [tasks EXCEPT ![id] = "queued"]
    BY <2>2, <2>3, MovesOne
  <2>5. Queue!Queue(id)
    BY <2>1, <2>2, <2>4 DEF Queue!Queue, Queue!Moves, tasks
  <2> QED
    BY <2>5 DEF Queue!Next
<1>2. CASE MergePending
  <2>1. \A id \in Ids : TaskOf(id)' = TaskOf(id)
    BY <1>2 DEF MergePending, TaskOf, Scan, AtLoop, Main
  <2> QED
    BY <1>2, <2>1, <1>0, MovesNone DEF MergePending, Stutters
<1>3. CASE PassEnds
  <2>1. \A id \in Ids : TaskOf(id)' = TaskOf(id)
    BY <1>3 DEF PassEnds, TaskOf, AtLoop, Main
  <2> QED
    BY <1>3, <2>1, <1>0, MovesNone DEF PassEnds, Stutters
<1>4. ASSUME NEW id \in Ids,
             \/ SkipLaunched(id) \/ LaunchFails(id)
             \/ NotShutdownYet(id) \/ TaskStarts(id)
      PROVE  [Queue!Next]_<<tasks, completion>>
  <2>1. \A other \in Ids : TaskOf(other)' = TaskOf(other)
    BY <1>4 DEF SkipLaunched, LaunchFails, NotShutdownYet, TaskStarts, TaskOf,
                Visited, Scan
  <2>2. completion' = completion
    BY <1>4 DEF SkipLaunched, LaunchFails, NotShutdownYet, TaskStarts
  <2> QED
    BY <2>1, <2>2, <1>0, MovesNone DEF Stutters
<1>5. ASSUME NEW id \in Ids, DropCompleted(id)
      PROVE  [Queue!Next]_<<tasks, completion>>
  <2>1. TaskOf(id) = "returned" /\ TaskOf(id)' = "free" /\ ~completion[id]
    BY <1>5 DEF DropCompleted, Visited, Scan, TaskOf
  <2>2. \A other \in Ids \ {id} : TaskOf(other)' = TaskOf(other)
    BY <1>5 DEF DropCompleted, Visited, Scan, TaskOf
  <2>3. tasks' = [tasks EXCEPT ![id] = "free"]
    BY <2>1, <2>2, MovesOne
  <2>4. Queue!Forget(id)
    BY <1>5, <2>1, <2>3 DEF DropCompleted, Queue!Forget, Queue!Moves, tasks
  <2> QED
    BY <2>4 DEF Queue!Next
<1>6. ASSUME NEW id \in Ids, LaunchTask(id)
      PROVE  [Queue!Next]_<<tasks, completion>>
  <2>1. TaskOf(id) = "queued" /\ TaskOf(id)' = "running"
    BY <1>6 DEF LaunchTask, Visited, At, TaskOf
  <2>2. \A other \in Ids \ {id} : TaskOf(other)' = TaskOf(other)
    BY <1>6 DEF LaunchTask, Visited, At, TaskOf
  <2>3. tasks' = [tasks EXCEPT ![id] = "running"]
    BY <2>1, <2>2, MovesOne
  <2>4. Queue!Launch(id)
    BY <1>6, <2>1, <2>3 DEF LaunchTask, Queue!Launch, Queue!Moves, tasks
  <2> QED
    BY <2>4 DEF Queue!Next
<1>7. ASSUME NEW id \in Ids, TaskReturns(id)
      PROVE  [Queue!Next]_<<tasks, completion>>
  <2>1. TaskOf(id) = "running" /\ TaskOf(id)' = "returned"
    BY <1>7 DEF TaskReturns, TaskOf
  <2>2. \A other \in Ids \ {id} : TaskOf(other)' = TaskOf(other)
    BY <1>7 DEF TaskReturns, TaskOf
  <2>3. tasks' = [tasks EXCEPT ![id] = "returned"]
    BY <2>1, <2>2, MovesOne
  <2>4. Queue!Return(id)
    BY <1>7, <2>1, <2>3 DEF TaskReturns, Queue!Return, Queue!Moves, tasks
  <2> QED
    BY <2>4 DEF Queue!Next
<1>8. ASSUME NEW id \in Ids, CompletionBegins(id)
      PROVE  [Queue!Next]_<<tasks, completion>>
  <2>1. TaskOf(id) = "returned" /\ TaskOf(id)' = "completing" /\ completion[id]
    BY <1>8 DEF CompletionBegins, Visited, At, TaskOf
  <2>2. \A other \in Ids \ {id} : TaskOf(other)' = TaskOf(other)
    BY <1>8 DEF CompletionBegins, Visited, At, TaskOf
  <2>3. \A other \in Ids : TaskOf(other) # "completing"
    BY <1>8 DEF CompletionBegins, Visited, TaskOf
  <2>4. tasks' = [tasks EXCEPT ![id] = "completing"]
    BY <2>1, <2>2, MovesOne
  <2>5. Queue!Complete(id)
    BY <1>8, <2>1, <2>3, <2>4
       DEF CompletionBegins, Queue!Complete, Queue!Moves, tasks
  <2> QED
    BY <2>5 DEF Queue!Next
<1>9. ASSUME NEW id \in Ids, CompletionEnds(id)
      PROVE  [Queue!Next]_<<tasks, completion>>
  <2>1. TaskOf(id) = "completing" /\ TaskOf(id)' = "free" /\ completion[id]
    BY <1>9 DEF CompletionEnds, Scan, TaskOf
  <2>2. \A other \in Ids \ {id} : TaskOf(other)' = TaskOf(other)
    BY <1>9 DEF CompletionEnds, Scan, TaskOf
  <2>3. tasks' = [tasks EXCEPT ![id] = "free"]
    BY <2>1, <2>2, MovesOne
  <2>4. Queue!Forget(id)
    BY <1>9, <2>1, <2>3 DEF CompletionEnds, Queue!Forget, Queue!Moves, tasks
  <2> QED
    BY <2>4 DEF Queue!Next
<1>10. CASE UNCHANGED vars
  <2>1. \A id \in Ids : TaskOf(id)' = TaskOf(id)
    BY <1>10 DEF vars, TaskOf
  <2> QED
    BY <1>10, <2>1, <1>0, MovesNone DEF vars, Stutters
<1> QED
  BY <1>1, <1>2, <1>3, <1>4, <1>5, <1>6, <1>7, <1>8, <1>9, <1>10 DEF Next, Visit

\* The thread manager implements the task queue: launched once, completed
\* once, after the task has returned and never beside another completion.
THEOREM Refinement == Spec => Implements
BY RefinesInit, RefinesStep, Invariance, PTL DEF Spec, Queue!Spec, Implements

-----------------------------------------------------------------------------
(* The flag _feeding.                                                      *)

\* The ids of feeds are ids, and every feed has a completion: none is forgotten
\* with the flag set.
FeedsHaveCompletions ==
  /\ feeds \subseteq Ids
  /\ \A id \in feeds : id \in pending \cup (running \ main.completed) => completion[id]

FeedInv == IInv /\ FeedsHaveCompletions /\ FeedingHasCause

LEMMA FeedStepIsStep == ApiNext => [Next]_vars
BY DEF ApiNext, SignalInputData, SignalIgnored, SendAsync, EvaluateTasks, DoFeedAsyncTask,
       SendTask, Returns, CompleteFeedAsyncTask, SendCompletionTask, Next, allVars

LEMMA FeedInitInv == ApiInit => FeedInv
<1> SUFFICES ASSUME ApiInit PROVE FeedInv
  OBVIOUS
<1>1. IInv
  BY InitInv DEF ApiInit
<1> QED
  BY <1>1 DEF ApiInit, Init, FeedInv, FeedsHaveCompletions, FeedingHasCause

LEMMA FeedStepInv == FeedInv /\ [ApiNext]_allVars => FeedInv'
<1> SUFFICES ASSUME FeedInv, [ApiNext]_allVars PROVE FeedInv'
  OBVIOUS
<1>1. IInv'
  BY StepInv, FeedStepIsStep DEF FeedInv, allVars
<1> SUFFICES FeedsHaveCompletions' /\ FeedingHasCause'
  BY <1>1 DEF FeedInv
<1> USE DEF FeedInv, IInv, TypeOK, PassInv, StatusInv, WorkersHaveRecords,
            IdsAreUnique, Statuses, FeedsHaveCompletions, FeedingHasCause
<1>2. CASE SignalInputData
  BY <1>2 DEF SignalInputData, QueueAsyncTask, GenerateTaskId, JustQueued
<1>3. CASE SignalIgnored
  BY <1>3 DEF SignalIgnored, allVars, vars, apiVars
<1>4. CASE EvaluateTasks
  <2>1. CASE MergePending
    BY <1>4, <2>1 DEF EvaluateTasks, apiVars, MergePending, Scan, AtLoop, Main
  <2>2. CASE PassEnds
    BY <1>4, <2>2 DEF EvaluateTasks, apiVars, PassEnds, AtLoop
  <2>3. ASSUME NEW id \in Ids, Visit(id)
        PROVE  FeedsHaveCompletions' /\ FeedingHasCause'
    <3>1. CASE SkipLaunched(id)
      BY <1>4, <3>1 DEF EvaluateTasks, apiVars, SkipLaunched, Visited, Scan
    <3>2. CASE DropCompleted(id)
      BY <1>4, <3>2 DEF EvaluateTasks, apiVars, DropCompleted, Visited, Scan
    <3>3. CASE LaunchTask(id)
      BY <1>4, <3>3 DEF EvaluateTasks, apiVars, LaunchTask, Visited, At
    <3>4. CASE LaunchFails(id)
      BY <1>4, <3>4 DEF EvaluateTasks, apiVars, LaunchFails, Visited, Scan
    <3>5. CASE NotShutdownYet(id)
      BY <1>4, <3>5 DEF EvaluateTasks, apiVars, NotShutdownYet, Scan
    <3>6. CASE CompletionBegins(id)
      BY <1>4, <3>6 DEF EvaluateTasks, apiVars, CompletionBegins, Visited, At
    <3> QED
      BY <2>3, <3>1, <3>2, <3>3, <3>4, <3>5, <3>6 DEF Visit
  <2> QED
    BY <1>4, <2>1, <2>2, <2>3 DEF EvaluateTasks
<1>5. ASSUME NEW id \in Ids, DoFeedAsyncTask(id)
      PROVE  FeedsHaveCompletions' /\ FeedingHasCause'
  BY <1>5 DEF DoFeedAsyncTask, TaskStarts
<1>6. ASSUME NEW id \in Ids, Returns(id)
      PROVE  FeedsHaveCompletions' /\ FeedingHasCause'
  BY <1>6 DEF Returns, TaskReturns, apiVars
<1>7. ASSUME NEW id \in Ids, CompleteFeedAsyncTask(id)
      PROVE  FeedsHaveCompletions' /\ FeedingHasCause'
  BY <1>7 DEF CompleteFeedAsyncTask, CompletionEnds, Scan
<1>9. ASSUME NEW hasCompletion \in BOOLEAN, SendAsync(hasCompletion)
      PROVE  FeedsHaveCompletions' /\ FeedingHasCause'
  BY <1>9 DEF SendAsync, QueueAsyncTask, GenerateTaskId, JustQueued
<1>10. ASSUME NEW id \in Ids, SendTask(id)
       PROVE  FeedsHaveCompletions' /\ FeedingHasCause'
  BY <1>10 DEF SendTask, TaskStarts, apiVars
<1>11. ASSUME NEW id \in Ids, SendCompletionTask(id)
       PROVE  FeedsHaveCompletions' /\ FeedingHasCause'
  BY <1>11 DEF SendCompletionTask, CompletionEnds, Scan, apiVars
<1>8. CASE UNCHANGED allVars
  BY <1>8 DEF allVars, vars, apiVars
<1> QED
  BY <1>2, <1>3, <1>4, <1>5, <1>6, <1>7, <1>8, <1>9, <1>10, <1>11 DEF ApiNext

\* _feeding is never left set by feeds that overlap: whatever their order, a
\* feed that will clear it is still in flight.
THEOREM FeedingIsCleared == ApiSpec => []FeedingHasCause
<1>1. FeedInv => FeedingHasCause
  BY DEF FeedInv
<1> QED
  BY <1>1, FeedInitInv, FeedStepInv, PTL DEF ApiSpec
==============================================================================
