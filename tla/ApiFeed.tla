------------------------------- MODULE ApiFeed -------------------------------
(***************************************************************************)
(* The camera's protocol (api3rdparty/apiprotocol.cpp) over ThreadManager: *)
(* whenever its descriptor is readable the loop's thread asks for a feed,  *)
(* which runs on a thread of its own.  The flag _feeding, written by that  *)
(* thread when it starts and by the completion, is what keeps feeds apart. *)
(* Feeds share the manager with the tasks that send events to an HTTP sink *)
(* (variant/basevariantappprotocolhandler.cpp), queued by any callback and *)
(* by completions.                                                         *)
(*                                                                         *)
(* Modelled from the moment ApiProtocolHandler::CompleteInit has linked    *)
(* the descriptor's handler with the protocol, for as long as both live.   *)
(***************************************************************************)
EXTENDS ThreadManager

VARIABLES
  feeding,    \* _feeding
  feeds       \* the ids whose last task is a feed, not a send

apiVars == <<feeding, feeds>>
allVars == <<vars, apiVars>>

ApiInit == Init /\ feeding = FALSE /\ feeds = {}

JustQueued == pending' \ pending

\* ApiFdHandler::OnEvent.  The descriptor is level triggered: nothing is read
\* from it before a feed runs, and it may be signalled again at each Pulse.
SignalInputData ==
  /\ main.at = "loop"
  /\ ~feeding
  /\ QueueAsyncTask(TRUE)
  /\ feeds' = feeds \cup JustQueued
  /\ UNCHANGED feeding

SignalIgnored == main.at = "loop" /\ feeding /\ UNCHANGED allVars

\* A send, or any other task: the manager takes one without a completion too.
SendAsync(hasCompletion) ==
  /\ QueueAsyncTask(hasCompletion)
  /\ feeds' = feeds \ JustQueued
  /\ UNCHANGED feeding

DoFeedAsyncTask(id) == id \in feeds /\ TaskStarts(id) /\ feeding' = TRUE /\ UNCHANGED feeds

SendTask(id) == id \notin feeds /\ TaskStarts(id) /\ UNCHANGED apiVars

Returns(id) == TaskReturns(id) /\ UNCHANGED apiVars

\* Mistake: the completion forgets the flag.
CompleteFeedAsyncTask_Forgets(id) ==
  id \in feeds /\ CompletionEnds(id) /\ UNCHANGED apiVars

CompleteFeedAsyncTask(id) ==
  id \in feeds /\ CompletionEnds(id) /\ feeding' = FALSE /\ UNCHANGED feeds

SendCompletionTask(id) == id \notin feeds /\ CompletionEnds(id) /\ UNCHANGED apiVars

EvaluateTasks ==
  /\ MergePending \/ PassEnds \/ \E id \in Ids : Visit(id)
  /\ UNCHANGED apiVars

ApiNext ==
  \/ SignalInputData \/ SignalIgnored \/ EvaluateTasks
  \/ \E hasCompletion \in BOOLEAN : SendAsync(hasCompletion)
  \/ \E id \in Ids : \/ DoFeedAsyncTask(id) \/ SendTask(id) \/ Returns(id)
                     \/ CompleteFeedAsyncTask(id) \/ SendCompletionTask(id)

\* Pulse keeps returning (a reactor with a timer armed), threads are scheduled,
\* tasks and completions return, pthread_create does not fail for ever; and the
\* descriptor of a camera that is on is signalled, unless a feed is under way.
ApiFairness ==
  /\ SF_allVars(SignalInputData)
  /\ WF_allVars(MergePending /\ UNCHANGED apiVars)
  /\ WF_allVars(PassEnds /\ UNCHANGED apiVars)
  /\ \A id \in Ids :
       /\ WF_allVars(Visit(id) /\ UNCHANGED apiVars)
       /\ SF_allVars(LaunchTask(id) /\ UNCHANGED apiVars)
       /\ WF_allVars(DoFeedAsyncTask(id) \/ SendTask(id)) /\ WF_allVars(Returns(id))
       /\ WF_allVars(CompleteFeedAsyncTask(id) \/ SendCompletionTask(id))

ApiSpec == ApiInit /\ [][ApiNext]_allVars
ApiFairSpec == ApiSpec /\ ApiFairness

-----------------------------------------------------------------------------
(* Properties.                                                             *)

\* _feeding never outlives the feeds, in whatever order overlapping feeds
\* start, return and complete: while it is set some feed has started and is
\* not completed, whose completion will clear it.
FeedingHasCause ==
  feeding => \E id \in feeds \cap (running \ main.completed) :
                worker[id] = "task" \/ status[id] = "SHUTDOWN"

\* The camera is never starved by a flag left set, a task left behind or sends
\* that keep coming: feeds start again and again.
FramesKeepFlowing == []<>(\E id \in feeds : worker[id] = "task")

\* What the comment on the early return of FeedAsync says: "return immediately
\* if previous thread is not finished yet".  No feed is asked for while the
\* thread of an earlier one is there.
PreviousFeedFinished ==
  [][SignalInputData => \A id \in feeds : worker[id] = "none"]_allVars

==============================================================================
