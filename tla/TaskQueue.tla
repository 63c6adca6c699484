------------------------------ MODULE TaskQueue ------------------------------
(***************************************************************************)
(* What ThreadManager promises to the code that queues a task: the task is *)
(* launched once, its completion runs after the task has returned, one     *)
(* completion at a time, and only then may its id stand for another task.  *)
(***************************************************************************)

CONSTANT Ids

VARIABLES
  task,         \* what has become of the task an id stands for
  completion    \* whether it was queued with a completion

vars == <<task, completion>>

Init ==
  /\ task = [id \in Ids |-> "free"]
  /\ completion = [id \in Ids |-> FALSE]

Moves(id, from, to) == task[id] = from /\ task' = [task EXCEPT ![id] = to]

Queue(id) ==
  /\ Moves(id, "free", "queued")
  /\ \E c \in BOOLEAN : completion' = [completion EXCEPT ![id] = c]

Launch(id) == Moves(id, "queued", "running") /\ UNCHANGED completion
Return(id) == Moves(id, "running", "returned") /\ UNCHANGED completion

\* A completion runs on the loop's thread, hence alone.
Complete(id) ==
  /\ completion[id]
  /\ \A other \in Ids : task[other] # "completing"
  /\ Moves(id, "returned", "completing")
  /\ UNCHANGED completion

\* Only a task without a completion is forgotten once it has returned.
Forget(id) ==
  /\ Moves(id, IF completion[id] THEN "completing" ELSE "returned", "free")
  /\ UNCHANGED completion

Next == \E id \in Ids :
          Queue(id) \/ Launch(id) \/ Return(id) \/ Complete(id) \/ Forget(id)

Spec == Init /\ [][Next]_vars
==============================================================================
