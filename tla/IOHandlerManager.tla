-------------------------- MODULE IOHandlerManager --------------------------
(***************************************************************************)
(* The epoll reactor of thelib (src/netio/epoll/iohandlermanager.cpp):     *)
(* registration of I/O handlers, the tokens that stand for them inside the *)
(* kernel, the two token vectors, the dead list and the Pulse loop.        *)
(*                                                                         *)
(* The kernel keeps, for each armed descriptor, the address of a token and *)
(* not of the handler: epoll_wait returns a batch of token addresses, and  *)
(* a callback of that batch may delete handlers whose events come later in *)
(* it.  A token therefore outlives its handler, and a freed token may not  *)
(* stand for another handler before the batch is over.                     *)
(*                                                                         *)
(* What a callback does is left to the caller: any sequence of the         *)
(* operations of "Caller", within the contract written on each of them.    *)
(***************************************************************************)
EXTENDS Naturals, FiniteSets

CONSTANTS
  Handlers,    \* IOHandler objects; an id is never used twice
  Timers,      \* the handlers that are IOTimers (a periodic timerfd)
  Tokens,      \* IOHandlerManagerToken objects
  NoHandler,   \* the NULL IOHandler pointer
  NoToken,     \* the NULL token pointer
  QuerySize    \* EPOLL_QUERY_SIZE, the most events of one epoll_wait

ASSUME NullAssumption  == NoHandler \notin Handlers /\ NoToken \notin Tokens
ASSUME TimerAssumption == Timers \subseteq Handlers

VARIABLES
  object,     \* "none" before the constructor, "live", "freed" after the destructor
  active,     \* _activeIOHandlers
  dead,       \* _deadIOHandlers
  token,      \* IOHandler::_pToken
  payload,    \* IOHandlerManagerToken::pPayload
  valid,      \* IOHandlerManagerToken::validPayload
  vector,     \* _tokensVector1 and _tokensVector2
  avail,      \* which of the two _pAvailableTokens points to
  interest,   \* the kernel's epoll set: the data.ptr of each armed handler
  query,      \* the events of _query that Pulse has not looked at yet
  current,    \* the event whose OnEvent is running
  doomed,     \* the handler whose destructor is running in DeleteDeadHandlers
  pc          \* where the main loop is

objects == <<object, active, dead, doomed>>
tokens  == <<token, payload, valid, vector, avail>>
vars    == <<objects, tokens, interest, query, current, pc>>

recycled == 3 - avail                       \* _pRecycledTokens

\* An entry of _query.  target is the handler that was armed when epoll_wait
\* returned: the code does not have it, the properties compare with it.
Event == [tok: Tokens, target: Handlers, err: BOOLEAN, hup: BOOLEAN]
NoEvent == [tok |-> NoToken, target |-> NoHandler, err |-> FALSE, hup |-> FALSE]

Held  == {token[h] : h \in active} \ {NoToken}
Fresh == Tokens \ (Held \cup vector[1] \cup vector[2])  \* not allocated yet

Armed == {h \in Handlers : interest[h] # NoToken}

Init ==
  /\ object   = [h \in Handlers |-> "none"]
  /\ active   = {}
  /\ dead     = {}
  /\ token    = [h \in Handlers |-> NoToken]
  /\ payload  = [t \in Tokens |-> NoHandler]
  /\ valid    = [t \in Tokens |-> FALSE]
  /\ vector   = [i \in {1, 2} |-> {}]
  /\ avail    = 1
  /\ interest = [h \in Handlers |-> NoToken]
  /\ query    = {}
  /\ current  = NoEvent
  /\ doomed   = NoHandler
  /\ pc       = "boot"

-----------------------------------------------------------------------------
(* Tokens.                                                                 *)

\* The token SetupToken takes: one of the available vector, a new one only
\* when that vector is empty.
TokenSource == IF vector[avail] = {} THEN Fresh ELSE vector[avail]

SetupToken(h, t) ==
  /\ t \in TokenSource
  /\ vector'  = [vector EXCEPT ![avail] = @ \ {t}]
  /\ payload' = [payload EXCEPT ![t] = h]
  /\ valid'   = [valid EXCEPT ![t] = TRUE]
  /\ token'   = [token EXCEPT ![h] = t]
  /\ UNCHANGED avail

FreeToken_ToAvailable(h) ==
  /\ vector'  = [vector EXCEPT ![avail] = @ \cup {token[h]}]
  /\ payload' = [payload EXCEPT ![token[h]] = NoHandler]
  /\ valid'   = [valid EXCEPT ![token[h]] = FALSE]
  /\ token'   = [token EXCEPT ![h] = NoToken]
  /\ UNCHANGED avail

FreeToken_StillValid(h) ==
  /\ vector'  = [vector EXCEPT ![recycled] = @ \cup {token[h]}]
  /\ token'   = [token EXCEPT ![h] = NoToken]
  /\ UNCHANGED <<payload, valid, avail>>

FreeToken(h) ==
  /\ vector'  = [vector EXCEPT ![recycled] = @ \cup {token[h]}]
  /\ payload' = [payload EXCEPT ![token[h]] = NoHandler]
  /\ valid'   = [valid EXCEPT ![token[h]] = FALSE]
  /\ token'   = [token EXCEPT ![h] = NoToken]
  /\ UNCHANGED avail

\* The end of Pulse: the longer vector becomes the available one.
SwapVectors ==
  /\ avail' = IF Cardinality(vector[1]) > Cardinality(vector[2]) THEN 1 ELSE 2
  /\ UNCHANGED <<token, payload, valid, vector>>

-----------------------------------------------------------------------------
(* The operations of the manager.                                          *)

\* IOHandler::IOHandler and RegisterIOHandler.
RegisterIOHandler(h) ==
  /\ object[h] = "none"
  /\ h \notin active
  /\ \E t \in Tokens : SetupToken(h, t)
  /\ object' = [object EXCEPT ![h] = "live"]
  /\ active' = active \cup {h}
  /\ UNCHANGED <<dead, doomed, interest>>

\* IOHandler::~IOHandler, the close of the descriptor (which takes it out of
\* the epoll set) and UnRegisterIOHandler.
Destroy(h) ==
  /\ object'   = [object EXCEPT ![h] = "freed"]
  /\ interest' = [interest EXCEPT ![h] = NoToken]
  /\ IF h \in active
       THEN FreeToken(h) /\ active' = active \ {h}
       ELSE UNCHANGED <<tokens, active>>

\* EnableReadData, EnableWriteData, EnableAcceptConnections, EnableTimer: the
\* kernel remembers the token of the handler.
Enable(h) ==
  /\ interest' = [interest EXCEPT ![h] = token[h]]
  /\ UNCHANGED <<objects, tokens>>

\* DisableReadData, DisableAcceptConnections, DisableTimer: EPOLL_CTL_DEL.
Disable(h) ==
  /\ interest' = [interest EXCEPT ![h] = NoToken]
  /\ UNCHANGED <<objects, tokens>>

\* EnqueueForDelete: out of the epoll set and into the dead list.  The handler
\* stays in the active list, and its token stays valid.
EnqueueForDelete(h) ==
  /\ interest' = [interest EXCEPT ![h] = NoToken]
  /\ dead'     = dead \cup {h}
  /\ UNCHANGED <<object, active, doomed, tokens>>

-----------------------------------------------------------------------------
(* Caller: what the code above the manager does while it runs, that is in  *)
(* OnEvent, in a completion task, in a destructor, in CleanupDeadProtocols. *)

Running  == pc \in {"boot", "tasks", "callback", "sweep", "protocols", "cleanup", "exitSweep"}
Stopping == pc \in {"cleanup", "exitSweep", "done"}

\* The handlers a caller holds a pointer to and may use.
Usable(h) == object[h] = "live" /\ h # doomed

CallerRegisters(h) == ~Stopping /\ RegisterIOHandler(h)
CallerEnables(h)   == Usable(h) /\ interest[h] = NoToken /\ Enable(h)
CallerDisables(h)  == Usable(h) /\ interest[h] # NoToken /\ Disable(h)
CallerEnqueues(h)  == Usable(h) /\ EnqueueForDelete(h)

\* The protocol that owns a carrier or a timer deletes it (~TCPProtocol,
\* ~BaseTimerProtocol).  Contract: never the handler whose OnEvent is running
\* and never one that is already in the dead list.
CallerDeletes(h) ==
  /\ Usable(h)
  /\ h \notin dead
  /\ h # current.target
  /\ pc \in {"boot", "tasks", "callback", "protocols", "cleanup"}
  /\ Destroy(h)
  /\ UNCHANGED <<dead, doomed>>

Caller ==
  /\ Running
  /\ \E h \in Handlers :
       \/ CallerRegisters(h)
       \/ CallerEnables(h)
       \/ CallerDisables(h)
       \/ CallerEnqueues(h)
       \/ CallerDeletes(h)
  /\ UNCHANGED <<query, current, pc>>

-----------------------------------------------------------------------------
(* Pulse and the main loop (rdkcmediaserver.cpp, Run and Cleanup).         *)

\* The services are started; the loop begins.
Run ==
  /\ pc = "boot"
  /\ pc' = "wait"
  /\ UNCHANGED <<objects, tokens, interest, query, current>>

\* epoll_wait returns events of armed handlers.  A timerfd never fails.
EpollWait(ready) ==
  /\ pc = "wait"
  /\ ready # {}
  /\ Cardinality(ready) =< QuerySize
  /\ \E err \in SUBSET (ready \ Timers) : \E hup \in SUBSET err :
       query' = {[tok |-> interest[h], target |-> h, err |-> h \in err, hup |-> h \in hup]
                   : h \in ready}
  /\ pc' = "tasks"
  /\ UNCHANGED <<objects, tokens, interest, current>>

\* EINTR: Pulse returns true at once, neither dispatching nor swapping.
EpollInterrupted ==
  /\ pc = "wait"
  /\ pc' = "sweep"
  /\ UNCHANGED <<objects, tokens, interest, query, current>>

\* SignalShutdown closed the epoll descriptor: Pulse returns false.
EpollFails ==
  /\ pc = "wait"
  /\ pc' = "cleanup"
  /\ UNCHANGED <<objects, tokens, interest, query, current>>

\* ThreadManager::EvaluateTasks returned.
TasksEvaluated ==
  /\ pc = "tasks"
  /\ pc' = "dispatch"
  /\ UNCHANGED <<objects, tokens, interest, query, current>>

\* The handler of the event was deleted since epoll_wait returned.
DropEvent(e) ==
  /\ pc = "dispatch"
  /\ ~valid[e.tok]
  /\ query' = query \ {e}
  /\ UNCHANGED <<objects, tokens, interest, current, pc>>

CondemnOnError_DeletesIt(e) ==
  /\ pc = "dispatch"
  /\ valid[e.tok] /\ e.err /\ ~e.hup
  /\ Destroy(payload[e.tok])
  /\ query' = query \ {e}
  /\ UNCHANGED <<dead, doomed, current, pc>>

\* EPOLLERR without EPOLLHUP: the handler is not called, only condemned.
CondemnOnError(e) ==
  /\ pc = "dispatch"
  /\ valid[e.tok] /\ e.err /\ ~e.hup
  /\ EnqueueForDelete(payload[e.tok])
  /\ query' = query \ {e}
  /\ UNCHANGED <<current, pc>>

DispatchEvent(e) ==
  /\ pc = "dispatch"
  /\ valid[e.tok] /\ (e.err => e.hup)
  /\ query'   = query \ {e}
  /\ current' = [tok |-> e.tok, target |-> payload[e.tok], err |-> e.err, hup |-> e.hup]
  /\ pc' = "callback"
  /\ UNCHANGED <<objects, tokens, interest>>

\* OnEvent returned true and the event was no error.
CallbackSucceeds ==
  /\ pc = "callback"
  /\ ~current.err
  /\ current' = NoEvent
  /\ pc' = "dispatch"
  /\ UNCHANGED <<objects, tokens, interest, query>>

\* OnEvent returned false, or the event was EPOLLERR and EPOLLHUP.
CallbackFails ==
  /\ pc = "callback"
  /\ EnqueueForDelete(payload[current.tok])
  /\ current' = NoEvent
  /\ pc' = "dispatch"
  /\ UNCHANGED query

PulseEnds ==
  /\ pc = "dispatch"
  /\ query = {}
  /\ SwapVectors
  /\ pc' = "sweep"
  /\ UNCHANGED <<objects, interest, query, current>>

\* One turn of the loop of DeleteDeadHandlers, up to the destructor: the first
\* element leaves the dead list.  The order of the map is left open.
DeleteBegins(h) ==
  /\ pc \in {"sweep", "exitSweep"}
  /\ doomed = NoHandler
  /\ h \in dead
  /\ dead'   = dead \ {h}
  /\ doomed' = h
  /\ UNCHANGED <<object, active, tokens, interest, query, current, pc>>

\* The destructor of the handler runs to its end.
DeleteEnds ==
  /\ doomed # NoHandler
  /\ Destroy(doomed)
  /\ doomed' = NoHandler
  /\ UNCHANGED <<dead, query, current, pc>>

SweepEnds_NoLoop ==
  /\ pc \in {"sweep", "exitSweep"}
  /\ doomed = NoHandler
  /\ pc' = IF pc = "sweep" THEN "protocols" ELSE "done"
  /\ UNCHANGED <<objects, tokens, interest, query, current>>

SweepEnds_LeavesSome ==
  /\ pc \in {"sweep", "exitSweep"}
  /\ doomed = NoHandler
  /\ pc = "exitSweep" => dead = {}
  /\ pc' = IF pc = "sweep" THEN "protocols" ELSE "done"
  /\ UNCHANGED <<objects, tokens, interest, query, current>>

SweepEnds ==
  /\ pc \in {"sweep", "exitSweep"}
  /\ doomed = NoHandler
  /\ dead = {}
  /\ pc' = IF pc = "sweep" THEN "protocols" ELSE "done"
  /\ UNCHANGED <<objects, tokens, interest, query, current>>

\* CleanupDeadProtocols returned; the next Pulse blocks in epoll_wait.
ProtocolsCleaned ==
  /\ pc = "protocols"
  /\ pc' = "wait"
  /\ UNCHANGED <<objects, tokens, interest, query, current>>

\* Cleanup, after the protocols are gone: ShutdownIOHandlers.
ShutdownIOHandlers ==
  /\ pc = "cleanup"
  /\ dead'     = dead \cup active
  /\ interest' = [h \in Handlers |-> IF h \in active THEN NoToken ELSE interest[h]]
  /\ pc' = "exitSweep"
  /\ UNCHANGED <<object, active, doomed, tokens, query, current>>

-----------------------------------------------------------------------------
Dispatch ==
  \/ \E e \in query : DropEvent(e) \/ CondemnOnError(e) \/ DispatchEvent(e)
  \/ PulseEnds

Return == CallbackSucceeds \/ CallbackFails

Sweep == (\E h \in Handlers : DeleteBegins(h)) \/ DeleteEnds \/ SweepEnds

Done == pc = "done" /\ UNCHANGED vars

Next ==
  \/ Caller
  \/ Run
  \/ \E ready \in SUBSET Armed : EpollWait(ready)
  \/ EpollInterrupted
  \/ EpollFails
  \/ TasksEvaluated
  \/ Dispatch
  \/ Return
  \/ Sweep
  \/ ProtocolsCleaned
  \/ ShutdownIOHandlers
  \/ Done

Spec == Init /\ [][Next]_vars

\* A periodic timerfd that stays armed becomes ready again and again.
TimerFires == \E ready \in SUBSET Armed : ready \cap Timers # {} /\ EpollWait(ready)

\* The loop is one thread that runs whenever it is not blocked in epoll_wait,
\* and every callback returns.
Fairness ==
  /\ WF_vars(Run)
  /\ WF_vars(TimerFires)
  /\ WF_vars(TasksEvaluated)
  /\ WF_vars(Dispatch)
  /\ WF_vars(Return)
  /\ WF_vars(Sweep)
  /\ WF_vars(ProtocolsCleaned)
  /\ WF_vars(ShutdownIOHandlers)

FairSpec == Spec /\ Fairness

-----------------------------------------------------------------------------
(* Properties.                                                             *)

TypeOK ==
  /\ object   \in [Handlers -> {"none", "live", "freed"}]
  /\ active   \subseteq Handlers
  /\ dead     \subseteq Handlers
  /\ token    \in [Handlers -> Tokens \cup {NoToken}]
  /\ payload  \in [Tokens -> Handlers \cup {NoHandler}]
  /\ valid    \in [Tokens -> BOOLEAN]
  /\ vector   \in [{1, 2} -> SUBSET Tokens]
  /\ avail    \in {1, 2}
  /\ interest \in [Handlers -> Tokens \cup {NoToken}]
  /\ query    \subseteq Event
  /\ current  \in Event \cup {NoEvent}
  /\ doomed   \in Handlers \cup {NoHandler}
  /\ pc \in {"boot", "wait", "tasks", "dispatch", "callback", "sweep", "protocols",
             "cleanup", "exitSweep", "done"}

\* An event still in the batch never reaches a handler other than the one it
\* was armed for, however many handlers were deleted and created by the
\* callbacks before it: its token stands for that handler or for none.
TokensAreWeakPointers ==
  \A e \in query : valid[e.tok] => payload[e.tok] = e.target

\* A valid token points to a handler that has not been deleted, and that
\* handler has no other token: Pulse never calls freed memory.
TokenOwnership ==
  /\ \A t \in Tokens :
       valid[t] => payload[t] \in Handlers /\ object[payload[t]] = "live" /\ token[payload[t]] = t
  /\ \A h \in active : token[h] \in Tokens /\ valid[token[h]] /\ payload[token[h]] = h

\* A token is held by a handler or rests in one of the two vectors, never two
\* of these at once: none is handed out twice.
TokenConservation ==
  /\ vector[1] \cap vector[2] = {}
  /\ Held \cap (vector[1] \cup vector[2]) = {}
  /\ \A g, h \in active : token[g] = token[h] => g = h

\* The dead list holds no deleted handler, so DeleteDeadHandlers deletes each
\* one once, and the one being deleted is not in it any more.
DeadAreLive == \A h \in dead : object[h] = "live" /\ h # doomed

\* The kernel holds the current token of live handlers only.
KernelHoldsOwnToken ==
  \A h \in Handlers : interest[h] # NoToken => object[h] = "live" /\ interest[h] = token[h]

\* Whatever the reactor follows is what the code takes it for: tokens, dead list
\* and kernel name live handlers, and no token serves two purposes.
PointersValid ==
  /\ TypeOK
  /\ TokenOwnership
  /\ TokenConservation
  /\ DeadAreLive
  /\ KernelHoldsOwnToken

\* Cleanup leaves no handler behind: what IOHandlerManager::Shutdown reports as
\* "Incomplete shutdown!" does not happen.
CompleteShutdown == pc = "done" => active = {} /\ dead = {}

\* The thread is blocked and no timer will wake it.
Asleep == pc = "wait" /\ Armed \cap Timers = {}

\* A handler in the dead list is deleted, unless the loop sleeps in epoll_wait
\* with no timer armed: one enqueued by CleanupDeadProtocols waits for a Pulse.
DeadAreDeleted == \A h \in Handlers : h \in dead ~> (object[h] = "freed" \/ Asleep)

-----------------------------------------------------------------------------
(* The reactor delivers events as EventDispatch says: tokens are invisible. *)

Abstract == INSTANCE EventDispatch WITH
  live      <- active,
  condemned <- {h \in active : h \in dead \/ h = doomed},
  pending   <- {e.target : e \in query},
  running   <- current.target

Implements == Abstract!Spec
=============================================================================
