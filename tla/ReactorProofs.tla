---------------------------- MODULE ReactorProofs ----------------------------
(***************************************************************************)
(* Proofs about the reactor: IOHandlerManager, for any number of handlers  *)
(* and tokens, and TCPCarrier, whatever the amount of output.              *)
(*                                                                         *)
(* The inductive invariant of IOHandlerManager says where a token may be:  *)
(* held by the live handler it points to, or at rest, invalid, in one      *)
(* vector; and an event of the batch whose token is invalid has it in the  *)
(* recycled vector, the one SetupToken does not take from before the batch *)
(* is over.                                                                *)
(***************************************************************************)
EXTENDS IOHandlerManager, TCPCarrier, TLAPS

\* The handlers of the active list are exactly the live objects.
ActiveIsLive == active = {h \in Handlers : object[h] = "live"}

\* Tokens at rest are invalid, and rest in one vector only.
Resting ==
  /\ vector[1] \cap vector[2] = {}
  /\ \A i \in {1, 2} : \A t \in vector[i] : ~valid[t]

DeadInv ==
  /\ dead \subseteq active
  /\ doomed # NoHandler => doomed \in active /\ doomed \notin dead
  /\ doomed # NoHandler => pc \in {"sweep", "exitSweep"}

\* The token of an event stands for its target, or rests with the recycled ones.
BatchInv ==
  \A e \in query :
    IF valid[e.tok] THEN payload[e.tok] = e.target
                    ELSE e.tok \in vector[recycled] /\ object[e.target] = "freed"

\* epoll_wait reports a handler once.
DistinctTargets == \A e, f \in query : e.target = f.target => e = f

PhaseInv ==
  /\ query # {} => pc \in {"tasks", "dispatch", "callback"}
  /\ pc # "callback" => current = NoEvent
  /\ pc = "callback" => /\ current \in Event
                        /\ current.target \in active
                        /\ token[current.target] = current.tok

ExitInv ==
  /\ pc = "exitSweep" => active \subseteq dead \cup {doomed}
  /\ pc = "done" => active = {}

IInv ==
  /\ TypeOK
  /\ ActiveIsLive
  /\ TokenOwnership
  /\ Resting
  /\ DeadInv
  /\ KernelHoldsOwnToken
  /\ BatchInv
  /\ DistinctTargets
  /\ PhaseInv
  /\ ExitInv

-----------------------------------------------------------------------------
(* The three operations that move tokens and handlers.                     *)

\* The inductive invariant without the parts about the batch and the phase of
\* the loop: what every single operation of the manager preserves.
CoreInv == TypeOK /\ ActiveIsLive /\ TokenOwnership /\ Resting /\ KernelHoldsOwnToken

\* Registering a handler takes a token that no event of the batch carries: a
\* recycled token is not among those SetupToken chooses from.
LEMMA RegisterLemma ==
  ASSUME IInv, NEW h \in Handlers, RegisterIOHandler(h),
         UNCHANGED <<query, current, pc>>
  PROVE  /\ CoreInv'
         /\ BatchInv'
         /\ \A g \in active : g \in active' /\ token'[g] = token[g]
         /\ active \subseteq active' /\ h \in active'
<1> USE DEF IInv, TypeOK, Event
<1>1. PICK t \in Tokens : SetupToken(h, t)
  BY DEF RegisterIOHandler
<1>2. /\ vector' = [vector EXCEPT ![avail] = @ \ {t}]
      /\ payload' = [payload EXCEPT ![t] = h]
      /\ valid' = [valid EXCEPT ![t] = TRUE]
      /\ token' = [token EXCEPT ![h] = t]
      /\ avail' = avail
      /\ object[h] = "none" /\ h \notin active
      /\ object' = [object EXCEPT ![h] = "live"]
      /\ active' = active \cup {h}
      /\ UNCHANGED <<dead, doomed, interest, query, current, pc>>
  BY <1>1 DEF RegisterIOHandler, SetupToken
<1>3. t \notin vector[recycled] /\ ~valid[t]
  <2>1. t \in vector[avail] \/ t \in Fresh
    BY <1>1 DEF SetupToken, TokenSource
  <2>2. CASE t \in vector[avail]
    BY <2>2 DEF Resting, recycled
  <2>3. CASE t \in Fresh
    <3>1. t \notin vector[1] /\ t \notin vector[2] /\ t \notin Held
      BY <2>3 DEF Fresh
    <3>2. ~valid[t]
      BY <3>1, NullAssumption DEF Held, TokenOwnership, ActiveIsLive
    <3> QED BY <3>1, <3>2 DEF recycled
  <2> QED BY <2>1, <2>2, <2>3
<1>4. TypeOK'
  BY <1>2
<1>5. ActiveIsLive'
  BY <1>2 DEF ActiveIsLive
<1>6. TokenOwnership'
  BY <1>2, <1>3 DEF TokenOwnership, ActiveIsLive
<1>7. Resting'
  BY <1>2, <1>3 DEF Resting, recycled
<1>8. KernelHoldsOwnToken'
  BY <1>2 DEF KernelHoldsOwnToken
<1>9. BatchInv'
  BY <1>2, <1>3 DEF BatchInv, recycled
<1> QED BY <1>2, <1>4, <1>5, <1>6, <1>7, <1>8, <1>9 DEF CoreInv

\* Destroying a handler invalidates its own token only, and that token goes
\* where the events of the batch may still find it.
LEMMA DestroyLemma ==
  ASSUME IInv, NEW h \in active, Destroy(h), dead' \subseteq dead,
         doomed' \in Handlers \cup {NoHandler},
         UNCHANGED <<query, current, pc>>
  PROVE  /\ CoreInv'
         /\ BatchInv'
         /\ active' = active \ {h}
         /\ \A g \in active' : token'[g] = token[g]
<1> USE DEF IInv, TypeOK, Event
<1>1. /\ vector' = [vector EXCEPT ![recycled] = @ \cup {token[h]}]
      /\ payload' = [payload EXCEPT ![token[h]] = NoHandler]
      /\ valid' = [valid EXCEPT ![token[h]] = FALSE]
      /\ token' = [token EXCEPT ![h] = NoToken]
      /\ avail' = avail
      /\ object' = [object EXCEPT ![h] = "freed"]
      /\ interest' = [interest EXCEPT ![h] = NoToken]
      /\ active' = active \ {h}
      /\ h \in Handlers /\ object[h] = "live"
  BY DEF Destroy, FreeToken, ActiveIsLive
<1>2. token[h] \in Tokens /\ valid[token[h]] /\ payload[token[h]] = h
  BY DEF TokenOwnership
<1>3. recycled \in {1, 2}
  BY DEF recycled
<1>4. TypeOK'
  BY <1>1, <1>2, <1>3
<1>5. ActiveIsLive'
  BY <1>1 DEF ActiveIsLive
<1>6. TokenOwnership'
  BY <1>1, <1>2, NullAssumption DEF TokenOwnership, ActiveIsLive
<1>7. Resting'
  <2>1. token[h] \notin vector[1] /\ token[h] \notin vector[2]
    BY <1>2 DEF Resting
  <2> QED BY <1>1, <1>2, <1>3, <2>1 DEF Resting
<1>8. KernelHoldsOwnToken'
  BY <1>1, NullAssumption DEF KernelHoldsOwnToken
<1>9. BatchInv'
  <2> SUFFICES ASSUME NEW e \in query
               PROVE  IF valid'[e.tok] THEN payload'[e.tok] = e.target
                        ELSE e.tok \in vector'[recycled'] /\ object'[e.target] = "freed"
    BY DEF BatchInv
  <2>1. CASE e.tok = token[h]
    BY <1>1, <1>2, <1>3, <2>1 DEF BatchInv, recycled
  <2>2. CASE e.tok # token[h]
    BY <1>1, <1>2, <1>3, <2>2 DEF BatchInv, recycled
  <2> QED BY <2>1, <2>2
<1> QED BY <1>1, <1>4, <1>5, <1>6, <1>7, <1>8, <1>9 DEF CoreInv

\* Condemning a handler takes it out of the kernel and leaves its token valid.
LEMMA EnqueueLemma ==
  ASSUME IInv, NEW h \in active, EnqueueForDelete(h),
         query' \subseteq query, current' \in Event \cup {NoEvent},
         pc' \in {"boot", "tasks", "dispatch", "callback", "sweep", "protocols",
                  "cleanup", "exitSweep"}
  PROVE  CoreInv' /\ BatchInv'
<1> USE DEF IInv, TypeOK, EnqueueForDelete, tokens
<1>1. h \in Handlers
  BY DEF ActiveIsLive
<1>2. TypeOK'
  BY <1>1
<1>3. ActiveIsLive' /\ TokenOwnership' /\ Resting'
  BY DEF ActiveIsLive, TokenOwnership, Resting
<1>4. KernelHoldsOwnToken'
  BY <1>1 DEF KernelHoldsOwnToken
<1>5. BatchInv'
  BY DEF BatchInv, recycled
<1> QED BY <1>2, <1>3, <1>4, <1>5 DEF CoreInv

-----------------------------------------------------------------------------
(* The inductive invariant.                                                *)

\* Every initial state satisfies the inductive invariant.
THEOREM InitInv == Init => IInv
BY NullAssumption
   DEF Init, IInv, TypeOK, ActiveIsLive, TokenOwnership, Resting, DeadInv,
       KernelHoldsOwnToken, BatchInv, DistinctTargets, PhaseInv, ExitInv

\* The caller's operations preserve the inductive invariant.
LEMMA CallerInv == IInv /\ Caller => IInv'
<1> SUFFICES ASSUME IInv, Caller PROVE IInv'
  OBVIOUS
<1> USE DEF IInv
<1>1. UNCHANGED <<query, current, pc>> /\ Running
  BY DEF Caller
<1>2. PICK h \in Handlers : \/ CallerRegisters(h)
                            \/ CallerEnables(h)
                            \/ CallerDisables(h)
                            \/ CallerEnqueues(h)
                            \/ CallerDeletes(h)
  BY DEF Caller
<1>3. ASSUME Usable(h) PROVE h \in active
  BY <1>3 DEF Usable, ActiveIsLive
<1>4. CASE CallerRegisters(h)
  <2>1. RegisterIOHandler(h) /\ UNCHANGED <<dead, doomed>> /\ ~Stopping
    BY <1>4 DEF CallerRegisters, RegisterIOHandler
  <2>2. /\ CoreInv' /\ BatchInv' /\ active \subseteq active'
        /\ \A g \in active : token'[g] = token[g]
    BY <1>1, <2>1, RegisterLemma
  <2>3. DistinctTargets' /\ DeadInv' /\ PhaseInv' /\ ExitInv'
    BY <1>1, <2>1, <2>2 DEF DistinctTargets, DeadInv, PhaseInv, ExitInv, Stopping, Event, TypeOK
  <2> QED BY <2>2, <2>3 DEF CoreInv
<1>5. CASE CallerEnables(h)
  <2>1. interest' = [interest EXCEPT ![h] = token[h]] /\ UNCHANGED <<objects, tokens>> /\ Usable(h)
    BY <1>5 DEF CallerEnables, Enable
  <2> QED BY <1>1, <1>3, <2>1 DEF TypeOK, ActiveIsLive, TokenOwnership, Resting, DeadInv,
             KernelHoldsOwnToken, BatchInv, DistinctTargets, PhaseInv, ExitInv, objects, tokens, Usable, recycled, Event
<1>6. CASE CallerDisables(h)
  <2>1. interest' = [interest EXCEPT ![h] = NoToken] /\ UNCHANGED <<objects, tokens>>
    BY <1>6 DEF CallerDisables, Disable
  <2> QED BY <1>1, <2>1 DEF TypeOK, ActiveIsLive, TokenOwnership, Resting, DeadInv,
             KernelHoldsOwnToken, BatchInv, DistinctTargets, PhaseInv, ExitInv, objects, tokens, recycled, Event
<1>7. CASE CallerEnqueues(h)
  <2>1. h \in active /\ EnqueueForDelete(h) /\ h # doomed
    BY <1>3, <1>7 DEF CallerEnqueues, Usable
  <2>2. CoreInv' /\ BatchInv'
    BY <1>1, <2>1, EnqueueLemma DEF TypeOK, Running
  <2>3. DistinctTargets' /\ DeadInv' /\ PhaseInv' /\ ExitInv'
    BY <1>1, <2>1 DEF DistinctTargets, DeadInv, PhaseInv, ExitInv, EnqueueForDelete, tokens, Event, Running
  <2> QED BY <2>2, <2>3 DEF CoreInv
<1>8. CASE CallerDeletes(h)
  <2>1. /\ h \in active /\ Destroy(h) /\ UNCHANGED <<dead, doomed>> /\ h # doomed
        /\ h \notin dead /\ h # current.target /\ pc # "exitSweep" /\ pc # "done"
    BY <1>3, <1>8 DEF CallerDeletes, Usable
  <2>2. /\ CoreInv' /\ BatchInv' /\ active' = active \ {h}
        /\ \A g \in active' : token'[g] = token[g]
    BY <1>1, <2>1, DestroyLemma DEF TypeOK
  <2>3. DistinctTargets' /\ DeadInv' /\ PhaseInv' /\ ExitInv'
    BY <1>1, <2>1, <2>2 DEF DistinctTargets, DeadInv, PhaseInv, ExitInv, Event
  <2> QED BY <2>2, <2>3 DEF CoreInv
<1> QED BY <1>2, <1>4, <1>5, <1>6, <1>7, <1>8

\* Steps that leave the handlers and the tokens alone keep the core.
LEMMA QuietLemma ==
  ASSUME CoreInv, UNCHANGED <<objects, tokens, interest>>,
         query' \subseteq Event, current' \in Event \cup {NoEvent},
         pc' \in {"boot", "wait", "tasks", "dispatch", "callback", "sweep", "protocols",
                  "cleanup", "exitSweep", "done"}
  PROVE  CoreInv'
BY DEF CoreInv, TypeOK, ActiveIsLive, TokenOwnership, Resting, KernelHoldsOwnToken,
       objects, tokens

\* Pulse preserves the inductive invariant: waiting, dispatching, swapping.
LEMMA PulseInv ==
  ASSUME IInv,
         \/ \E ready \in SUBSET Armed : EpollWait(ready)
         \/ EpollInterrupted
         \/ EpollFails
         \/ TasksEvaluated
         \/ Dispatch
         \/ Return
  PROVE  IInv'
<1> USE DEF IInv
<1>0. CoreInv
  BY DEF CoreInv
<1>1. ASSUME NEW ready \in SUBSET Armed, EpollWait(ready) PROVE IInv'
  <2>1. PICK err \in SUBSET (ready \ Timers) : \E hup \in SUBSET err :
          query' = {[tok |-> interest[h], target |-> h, err |-> h \in err, hup |-> h \in hup]
                      : h \in ready}
    BY <1>1 DEF EpollWait
  <2>2. PICK hup \in SUBSET err :
          query' = {[tok |-> interest[h], target |-> h, err |-> h \in err, hup |-> h \in hup]
                      : h \in ready}
    BY <2>1
  <2>3. pc = "wait" /\ pc' = "tasks" /\ UNCHANGED <<objects, tokens, interest, current>>
    BY <1>1 DEF EpollWait
  <2>4. \A h \in ready : /\ h \in active /\ h \in Handlers /\ interest[h] = token[h]
                         /\ token[h] \in Tokens /\ valid[token[h]] /\ payload[token[h]] = h
    BY DEF Armed, KernelHoldsOwnToken, ActiveIsLive, TokenOwnership
  <2>5. query' \subseteq Event
    <3>1. ASSUME NEW h \in ready
          PROVE  [tok |-> interest[h], target |-> h, err |-> h \in err, hup |-> h \in hup] \in Event
      <4>1. (h \in err) \in BOOLEAN /\ (h \in hup) \in BOOLEAN
        OBVIOUS
      <4> QED BY <2>4, <4>1, Zenon DEF Event
    <3> QED BY <2>2, <3>1
  <2>6. CoreInv'
    BY <1>0, <2>3, <2>5, QuietLemma DEF TypeOK
  <2>7. BatchInv'
    BY <2>2, <2>3, <2>4 DEF BatchInv, tokens
  <2>8. DistinctTargets' /\ DeadInv' /\ PhaseInv' /\ ExitInv'
    BY <2>2, <2>3 DEF DistinctTargets, DeadInv, PhaseInv, ExitInv, objects
  <2> QED BY <2>6, <2>7, <2>8 DEF CoreInv
<1>2. CASE EpollInterrupted \/ EpollFails \/ TasksEvaluated
  <2>1. /\ UNCHANGED <<objects, tokens, interest, query, current>>
        /\ \/ pc = "wait" /\ pc' \in {"sweep", "cleanup"}
           \/ pc = "tasks" /\ pc' = "dispatch"
    BY <1>2 DEF EpollInterrupted, EpollFails, TasksEvaluated
  <2>2. CoreInv'
    BY <1>0, <2>1, QuietLemma DEF TypeOK
  <2>3. BatchInv' /\ DistinctTargets' /\ DeadInv' /\ PhaseInv' /\ ExitInv'
    BY <2>1 DEF BatchInv, DistinctTargets, DeadInv, PhaseInv, ExitInv, objects, tokens, recycled
  <2> QED BY <2>2, <2>3 DEF CoreInv
<1>3. ASSUME NEW e \in query, DropEvent(e) PROVE IInv'
  <2>1. /\ UNCHANGED <<objects, tokens, interest, current, pc>>
        /\ query' = query \ {e} /\ pc = "dispatch"
    BY <1>3 DEF DropEvent
  <2>2. CoreInv'
    BY <1>0, <2>1, QuietLemma DEF TypeOK
  <2>3. BatchInv' /\ DistinctTargets' /\ DeadInv' /\ PhaseInv' /\ ExitInv'
    BY <2>1 DEF BatchInv, DistinctTargets, DeadInv, PhaseInv, ExitInv, objects, tokens, recycled
  <2> QED BY <2>2, <2>3 DEF CoreInv
<1>4. ASSUME NEW e \in query, CondemnOnError(e) PROVE IInv'
  <2>1. /\ pc = "dispatch" /\ valid[e.tok] /\ EnqueueForDelete(payload[e.tok])
        /\ query' = query \ {e} /\ UNCHANGED <<current, pc>>
    BY <1>4 DEF CondemnOnError
  <2>2. payload[e.tok] \in active
    BY <2>1 DEF TokenOwnership, ActiveIsLive, TypeOK, Event
  <2>3. CoreInv' /\ BatchInv'
    BY <2>1, <2>2, EnqueueLemma DEF TypeOK
  <2>4. DistinctTargets' /\ DeadInv' /\ PhaseInv' /\ ExitInv'
    BY <2>1, <2>2 DEF DistinctTargets, DeadInv, PhaseInv, ExitInv, EnqueueForDelete, tokens
  <2> QED BY <2>3, <2>4 DEF CoreInv
<1>5. ASSUME NEW e \in query, DispatchEvent(e) PROVE IInv'
  <2>1. /\ UNCHANGED <<objects, tokens, interest>>
        /\ query' = query \ {e} /\ pc = "dispatch" /\ pc' = "callback"
        /\ current' = [tok |-> e.tok, target |-> payload[e.tok], err |-> e.err, hup |-> e.hup]
        /\ valid[e.tok]
    BY <1>5 DEF DispatchEvent
  <2>2. e \in Event
    BY DEF TypeOK
  <2>3. /\ payload[e.tok] \in active /\ payload[e.tok] \in Handlers
        /\ token[payload[e.tok]] = e.tok
    BY <2>1, <2>2 DEF TokenOwnership, ActiveIsLive, Event
  <2>4. current' \in Event /\ current'.target = payload[e.tok] /\ current'.tok = e.tok
    BY <2>1, <2>2, <2>3 DEF Event
  <2>5. CoreInv'
    BY <1>0, <2>1, <2>4, QuietLemma DEF TypeOK
  <2>6. BatchInv' /\ DistinctTargets' /\ DeadInv' /\ ExitInv'
    BY <2>1 DEF BatchInv, DistinctTargets, DeadInv, ExitInv, objects, tokens, recycled
  <2>7. PhaseInv'
    BY <2>1, <2>3, <2>4 DEF PhaseInv, objects, tokens
  <2> QED BY <2>5, <2>6, <2>7 DEF CoreInv
<1>6. CASE PulseEnds
  <2>1. /\ UNCHANGED <<objects, token, payload, valid, vector, interest, query, current>>
        /\ query = {} /\ pc = "dispatch" /\ pc' = "sweep" /\ avail' \in {1, 2}
    BY <1>6 DEF PulseEnds, SwapVectors
  <2> QED BY <2>1 DEF TypeOK, ActiveIsLive, TokenOwnership, Resting, KernelHoldsOwnToken,
                      BatchInv, DistinctTargets, DeadInv, PhaseInv, ExitInv, objects
<1>7. CASE CallbackSucceeds
  <2>1. /\ UNCHANGED <<objects, tokens, interest, query>>
        /\ pc = "callback" /\ pc' = "dispatch" /\ current' = NoEvent
    BY <1>7 DEF CallbackSucceeds
  <2>2. CoreInv'
    BY <1>0, <2>1, QuietLemma DEF TypeOK
  <2>3. BatchInv' /\ DistinctTargets' /\ DeadInv' /\ PhaseInv' /\ ExitInv'
    BY <2>1 DEF BatchInv, DistinctTargets, DeadInv, PhaseInv, ExitInv, objects, tokens, recycled
  <2> QED BY <2>2, <2>3 DEF CoreInv
<1>8. CASE CallbackFails
  <2>1. /\ EnqueueForDelete(payload[current.tok]) /\ query' = query
        /\ pc = "callback" /\ pc' = "dispatch" /\ current' = NoEvent
    BY <1>8 DEF CallbackFails
  <2>2. payload[current.tok] \in active
    BY <2>1 DEF PhaseInv, TokenOwnership
  <2>3. CoreInv' /\ BatchInv'
    BY <2>1, <2>2, EnqueueLemma
  <2>4. DistinctTargets' /\ DeadInv' /\ PhaseInv' /\ ExitInv'
    BY <2>1, <2>2 DEF DistinctTargets, DeadInv, PhaseInv, ExitInv, EnqueueForDelete, tokens
  <2> QED BY <2>3, <2>4 DEF CoreInv
<1> QED BY <1>1, <1>2, <1>3, <1>4, <1>5, <1>6, <1>7, <1>8 DEF Dispatch, Return

\* DeleteDeadHandlers and the other phases of the main loop preserve it.
LEMMA LoopInv ==
  ASSUME IInv, Run \/ Sweep \/ ProtocolsCleaned \/ ShutdownIOHandlers
  PROVE  IInv'
<1> USE DEF IInv
<1>0. CoreInv
  BY DEF CoreInv
<1>1. CASE Run \/ SweepEnds \/ ProtocolsCleaned
  <2>1. /\ UNCHANGED <<objects, tokens, interest, query, current>>
        /\ \/ pc = "boot" /\ pc' = "wait"
           \/ pc = "sweep" /\ pc' = "protocols" /\ doomed = NoHandler
           \/ pc = "exitSweep" /\ pc' = "done" /\ dead = {} /\ doomed = NoHandler
           \/ pc = "protocols" /\ pc' = "wait"
    BY <1>1 DEF Run, SweepEnds, ProtocolsCleaned
  <2>2. CoreInv'
    BY <1>0, <2>1, QuietLemma DEF TypeOK
  <2>3. BatchInv' /\ DistinctTargets'
    BY <2>1 DEF BatchInv, DistinctTargets, objects, tokens, recycled
  <2>4. DeadInv' /\ PhaseInv'
    BY <2>1 DEF DeadInv, PhaseInv, objects, tokens
  <2>5. ExitInv'
    <3>1. active \subseteq Handlers /\ NoHandler \notin active
      BY NullAssumption DEF TypeOK
    <3> QED BY <2>1, <3>1 DEF ExitInv, objects
  <2> QED BY <2>2, <2>3, <2>4, <2>5 DEF CoreInv
<1>2. ASSUME NEW h \in Handlers, DeleteBegins(h) PROVE IInv'
  <2>1. /\ pc \in {"sweep", "exitSweep"} /\ doomed = NoHandler /\ h \in dead
        /\ dead' = dead \ {h} /\ doomed' = h
        /\ UNCHANGED <<object, active, tokens, interest, query, current, pc>>
    BY <1>2 DEF DeleteBegins
  <2>2. TypeOK'
    BY <2>1 DEF TypeOK, tokens
  <2>3. /\ ActiveIsLive' /\ TokenOwnership' /\ Resting' /\ KernelHoldsOwnToken'
        /\ BatchInv' /\ DistinctTargets' /\ PhaseInv'
    BY <2>1 DEF ActiveIsLive, TokenOwnership, Resting, KernelHoldsOwnToken, BatchInv,
                DistinctTargets, PhaseInv, tokens, recycled
  <2>4. DeadInv' /\ ExitInv'
    BY <2>1, NullAssumption DEF DeadInv, ExitInv, TypeOK
  <2> QED BY <2>2, <2>3, <2>4
<1>3. CASE DeleteEnds
  <2>1. /\ doomed \in active /\ doomed \notin dead /\ Destroy(doomed)
        /\ doomed' = NoHandler /\ UNCHANGED <<dead, query, current, pc>>
        /\ pc \in {"sweep", "exitSweep"}
    BY <1>3 DEF DeleteEnds, DeadInv
  <2>2. /\ CoreInv' /\ BatchInv' /\ active' = active \ {doomed}
        /\ \A g \in active' : token'[g] = token[g]
    BY <2>1, DestroyLemma
  <2>3. DistinctTargets' /\ DeadInv' /\ PhaseInv' /\ ExitInv'
    BY <2>1, <2>2 DEF DistinctTargets, DeadInv, PhaseInv, ExitInv
  <2> QED BY <2>2, <2>3 DEF CoreInv
<1>4. CASE ShutdownIOHandlers
  <2>1. /\ pc = "cleanup" /\ pc' = "exitSweep" /\ dead' = dead \cup active
        /\ interest' = [h \in Handlers |-> IF h \in active THEN NoToken ELSE interest[h]]
        /\ UNCHANGED <<object, active, doomed, tokens, query, current>>
    BY <1>4 DEF ShutdownIOHandlers
  <2>2. TypeOK'
    BY <2>1 DEF TypeOK, tokens
  <2>3. /\ ActiveIsLive' /\ TokenOwnership' /\ Resting' /\ KernelHoldsOwnToken'
        /\ BatchInv' /\ DistinctTargets' /\ PhaseInv'
    BY <2>1 DEF ActiveIsLive, TokenOwnership, Resting, KernelHoldsOwnToken, BatchInv,
                DistinctTargets, PhaseInv, tokens, recycled
  <2>4. DeadInv' /\ ExitInv'
    BY <2>1 DEF DeadInv, ExitInv
  <2> QED BY <2>2, <2>3, <2>4
<1> QED BY <1>1, <1>2, <1>3, <1>4 DEF Sweep

\* Every step of the reactor preserves the inductive invariant.
THEOREM StepInv == IInv /\ [Next]_vars => IInv'
<1> SUFFICES ASSUME IInv, [Next]_vars PROVE IInv'
  OBVIOUS
<1>1. CASE UNCHANGED vars
  BY <1>1 DEF IInv, TypeOK, ActiveIsLive, TokenOwnership, Resting, DeadInv,
     KernelHoldsOwnToken, BatchInv, DistinctTargets, PhaseInv, ExitInv, vars, objects, tokens,
     recycled
<1>2. CASE Next
  BY <1>1, <1>2, CallerInv, PulseInv, LoopInv DEF Next, Done
<1> QED BY <1>1, <1>2

\* The inductive invariant holds in every reachable state.
THEOREM Invariance == Spec => []IInv
<1>1. Init => IInv
  BY InitInv
<1>2. IInv /\ [Next]_vars => IInv'
  BY StepInv
<1> QED BY <1>1, <1>2, PTL DEF Spec

\* Type correctness of the reactor.
THEOREM TypeCorrect == Spec => []TypeOK
<1>1. IInv => TypeOK
  BY DEF IInv
<1> QED BY <1>1, Invariance, PTL

\* However handlers are created and deleted by the callbacks of a batch, an
\* event of it reaches the handler it was reported for, or none.
THEOREM EventsNeverMisdelivered == Spec => []TokensAreWeakPointers
<1>1. IInv => TokensAreWeakPointers
  BY DEF IInv, BatchInv, TokensAreWeakPointers
<1> QED BY <1>1, Invariance, PTL

\* Pulse never calls or condemns a deleted handler, and neither does the kernel
\* hold its token.
THEOREM NoDanglingHandler == Spec => [](TokenOwnership /\ DeadAreLive /\ KernelHoldsOwnToken)
<1>1. IInv => TokenOwnership /\ DeadAreLive /\ KernelHoldsOwnToken
  BY NullAssumption DEF IInv, DeadInv, DeadAreLive, ActiveIsLive
<1> QED BY <1>1, Invariance, PTL

\* No token is in two places.
THEOREM TokensConserved == Spec => []TokenConservation
<1>1. IInv => TokenConservation
  <2> SUFFICES ASSUME IInv PROVE TokenConservation
    OBVIOUS
  <2>1. Held \cap (vector[1] \cup vector[2]) = {}
    BY DEF IInv, Held, Resting, TokenOwnership
  <2>2. \A g, h \in active : token[g] = token[h] => g = h
    BY DEF IInv, TokenOwnership
  <2> QED BY <2>1, <2>2 DEF IInv, Resting, TokenConservation
<1> QED BY <1>1, Invariance, PTL

\* The five together: no step of the reactor follows a pointer that is stale.
THEOREM PointersStayValid == Spec => []PointersValid
BY TypeCorrect, NoDanglingHandler, TokensConserved, PTL DEF PointersValid

\* After Cleanup no handler is registered.
THEOREM ShutdownIsComplete == Spec => []CompleteShutdown
<1>1. IInv => CompleteShutdown
  BY DEF IInv, ExitInv, DeadInv, CompleteShutdown
<1> QED BY <1>1, Invariance, PTL

-----------------------------------------------------------------------------
(* The refinement.                                                         *)

\* The reactor starts as EventDispatch does.
LEMMA InitRefines == Init => Abstract!Init
BY NullAssumption DEF Init, Abstract!Init, NoEvent

\* A step of the caller is one of EventDispatch, or changes nothing it sees.
LEMMA CallerRefines ==
  ASSUME IInv, Caller
  PROVE  [Abstract!Next]_(Abstract!vars)
<1> USE DEF IInv
<1> DEFINE condemned == {h \in active : h \in dead \/ h = doomed}
           pending   == {e.target : e \in query}
<1>1. UNCHANGED <<query, current, pc>> /\ Running
  BY DEF Caller
<1>2. PICK h \in Handlers : \/ CallerRegisters(h)
                            \/ CallerEnables(h)
                            \/ CallerDisables(h)
                            \/ CallerEnqueues(h)
                            \/ CallerDeletes(h)
  BY DEF Caller
<1>3. pending' = pending /\ current'.target = current.target
  BY <1>1
<1>4. CASE CallerRegisters(h)
  <2>1. /\ object[h] = "none" /\ h \notin active /\ active' = active \cup {h}
        /\ UNCHANGED <<dead, doomed>>
    BY <1>4 DEF CallerRegisters, RegisterIOHandler
  <2>2. h \notin pending
    <3>1. ASSUME NEW e \in query PROVE e.target # h
      BY <2>1 DEF BatchInv, TokenOwnership, TypeOK, Event
    <3> QED BY <3>1
  <2>3. h \notin dead /\ h # doomed
    BY <2>1, NullAssumption DEF DeadInv
  <2>4. condemned' = condemned
    BY <2>1, <2>3
  <2>5. Abstract!Create(h)
    BY <1>3, <2>1, <2>2, <2>4 DEF Abstract!Create
  <2> QED BY <2>5 DEF Abstract!Next
<1>5. CASE CallerEnables(h) \/ CallerDisables(h)
  <2>1. UNCHANGED <<active, dead, doomed>>
    BY <1>5 DEF CallerEnables, CallerDisables, Enable, Disable, objects
  <2> QED BY <1>3, <2>1 DEF Abstract!vars
<1>6. CASE CallerEnqueues(h)
  <2>1. h \in active /\ dead' = dead \cup {h} /\ UNCHANGED <<active, doomed>>
    BY <1>6 DEF CallerEnqueues, Usable, EnqueueForDelete, ActiveIsLive
  <2>2. condemned' = condemned \cup {h}
    BY <2>1
  <2>3. Abstract!Condemn({h})
    BY <1>3, <2>1, <2>2 DEF Abstract!Condemn
  <2> QED BY <2>3 DEF Abstract!Next
<1>7. CASE CallerDeletes(h)
  <2>1. /\ h \in active /\ h \notin dead /\ h # doomed /\ h # current.target
        /\ active' = active \ {h} /\ UNCHANGED <<dead, doomed>>
    BY <1>7 DEF CallerDeletes, Usable, Destroy, ActiveIsLive
  <2>2. condemned' = condemned \ {h} /\ h \notin condemned
    BY <2>1
  <2>3. Abstract!Delete(h)
    BY <1>3, <2>1, <2>2 DEF Abstract!Delete
  <2> QED BY <2>3 DEF Abstract!Next
<1> QED BY <1>2, <1>4, <1>5, <1>6, <1>7

\* Processing an event removes its handler, and no other, from the pending ones.
LEMMA RemoveLemma ==
  ASSUME DistinctTargets, NEW e \in query, query' = query \ {e}
  PROVE  {f.target : f \in query'} = {f.target : f \in query} \ {e.target}
BY DEF DistinctTargets

\* A step of Pulse delivers, drops or fails one event, collects a batch,
\* returns from OnEvent, or changes nothing EventDispatch sees.
LEMMA PulseRefines ==
  ASSUME IInv,
         \/ \E ready \in SUBSET Armed : EpollWait(ready)
         \/ EpollInterrupted
         \/ EpollFails
         \/ TasksEvaluated
         \/ Dispatch
         \/ Return
  PROVE  [Abstract!Next]_(Abstract!vars)
<1> USE DEF IInv
<1> DEFINE condemned == {h \in active : h \in dead \/ h = doomed}
           pending   == {e.target : e \in query}
<1>0. NoEvent.target = NoHandler
  BY DEF NoEvent
<1>1. ASSUME NEW ready \in SUBSET Armed, EpollWait(ready) PROVE Abstract!Next
  <2>0. {e.target : e \in query'} = ready
    <3>1. PICK err \in SUBSET (ready \ Timers) : \E hup \in SUBSET err :
            query' = {[tok |-> interest[h], target |-> h, err |-> h \in err, hup |-> h \in hup]
                        : h \in ready}
      BY <1>1 DEF EpollWait
    <3>2. PICK hup \in SUBSET err :
            query' = {[tok |-> interest[h], target |-> h, err |-> h \in err, hup |-> h \in hup]
                        : h \in ready}
      BY <3>1
    <3>3. ASSUME NEW e \in query' PROVE e.target \in ready
      BY <3>2
    <3>4. ASSUME NEW h \in ready PROVE \E e \in query' : e.target = h
      <4> DEFINE e == [tok |-> interest[h], target |-> h, err |-> h \in err, hup |-> h \in hup]
      <4>1. e \in query'
        BY <3>2
      <4>2. e.target = h
        OBVIOUS
      <4> QED BY <4>1, <4>2
    <3> QED BY <3>3, <3>4
  <2>1. ready # {} /\ pc = "wait" /\ UNCHANGED <<objects, current>>
    BY <1>1 DEF EpollWait
  <2>2. query = {} /\ current = NoEvent
    BY <2>1 DEF PhaseInv
  <2>3. ready \subseteq active
    BY DEF Armed, KernelHoldsOwnToken, ActiveIsLive
  <2>4. Abstract!Collect(ready)
    BY <1>0, <2>0, <2>1, <2>2, <2>3 DEF Abstract!Collect, objects
  <2>5. ready \in SUBSET Handlers
    BY <2>3 DEF TypeOK
  <2> QED BY <2>4, <2>5 DEF Abstract!Next
<1>2. CASE EpollInterrupted \/ EpollFails \/ TasksEvaluated \/ PulseEnds
  <2>1. UNCHANGED <<objects, query, current>>
    BY <1>2 DEF EpollInterrupted, EpollFails, TasksEvaluated, PulseEnds
  <2> QED BY <2>1 DEF Abstract!vars, objects
<1>3. ASSUME NEW e \in query, pc = "dispatch"
      PROVE  /\ current.target = NoHandler /\ e.target \in pending
             /\ e.target \in Handlers
             /\ valid[e.tok] => payload[e.tok] = e.target /\ e.target \in active
             /\ ~valid[e.tok] => e.target \notin active
  BY <1>0, <1>3 DEF PhaseInv, TypeOK, Event, BatchInv, TokenOwnership, ActiveIsLive
<1>4. ASSUME NEW e \in query, DropEvent(e) PROVE Abstract!Next
  <2>1. /\ UNCHANGED <<objects, current>> /\ pc = "dispatch" /\ ~valid[e.tok]
        /\ query' = query \ {e}
    BY <1>4 DEF DropEvent
  <2>2. pending' = pending \ {e.target}
    BY <2>1, RemoveLemma
  <2>3. Abstract!Drop(e.target)
    BY <1>3, <2>1, <2>2 DEF Abstract!Drop, objects
  <2> QED BY <1>3, <2>1, <2>3 DEF Abstract!Next
<1>5. ASSUME NEW e \in query, CondemnOnError(e) PROVE Abstract!Next
  <2>1. /\ UNCHANGED <<active, doomed, current>> /\ pc = "dispatch" /\ valid[e.tok]
        /\ query' = query \ {e} /\ dead' = dead \cup {payload[e.tok]}
    BY <1>5 DEF CondemnOnError, EnqueueForDelete
  <2>2. pending' = pending \ {e.target} /\ condemned' = condemned \cup {e.target}
    <3>1. pending' = pending \ {e.target}
      BY <2>1, RemoveLemma
    <3>2. condemned' = condemned \cup {e.target}
      BY <1>3, <2>1
    <3> QED BY <3>1, <3>2
  <2>3. Abstract!Fail(e.target)
    BY <1>3, <2>1, <2>2 DEF Abstract!Fail
  <2> QED BY <1>3, <2>1, <2>3 DEF Abstract!Next
<1>6. ASSUME NEW e \in query, DispatchEvent(e) PROVE Abstract!Next
  <2>1. /\ UNCHANGED objects /\ pc = "dispatch" /\ valid[e.tok] /\ query' = query \ {e}
        /\ current'.target = payload[e.tok]
    BY <1>6 DEF DispatchEvent
  <2>2. pending' = pending \ {e.target}
    BY <2>1, RemoveLemma
  <2>3. Abstract!Deliver(e.target)
    BY <1>3, <2>1, <2>2 DEF Abstract!Deliver, objects
  <2> QED BY <1>3, <2>1, <2>3 DEF Abstract!Next
<1>7. CASE Return
  <2>1. /\ pc = "callback" /\ current' = NoEvent /\ UNCHANGED <<active, doomed, query>>
        /\ dead' = dead \/ dead' = dead \cup {payload[current.tok]}
    BY <1>7 DEF Return, CallbackSucceeds, CallbackFails, EnqueueForDelete, objects
  <2>2. /\ current.target \in active /\ current.target # NoHandler
        /\ payload[current.tok] = current.target
    BY <2>1, NullAssumption DEF PhaseInv, TokenOwnership, TypeOK
  <2>3. condemned' \in {condemned, condemned \cup {current.target}}
    BY <2>1, <2>2
  <2>4. Abstract!Return
    BY <1>0, <2>1, <2>2, <2>3 DEF Abstract!Return
  <2> QED BY <2>4 DEF Abstract!Next
<1> QED BY <1>1, <1>2, <1>4, <1>5, <1>6, <1>7 DEF Dispatch

\* DeleteDeadHandlers deletes condemned handlers only, after the batch.
LEMMA LoopRefines ==
  ASSUME IInv, Run \/ Sweep \/ ProtocolsCleaned \/ ShutdownIOHandlers
  PROVE  [Abstract!Next]_(Abstract!vars)
<1> USE DEF IInv
<1> DEFINE condemned == {h \in active : h \in dead \/ h = doomed}
<1>0. NoEvent.target = NoHandler
  BY DEF NoEvent
<1>1. CASE Run \/ SweepEnds \/ ProtocolsCleaned
  <2>1. UNCHANGED <<objects, query, current>>
    BY <1>1 DEF Run, SweepEnds, ProtocolsCleaned
  <2> QED BY <2>1 DEF Abstract!vars, objects
<1>2. ASSUME NEW h \in Handlers, DeleteBegins(h) PROVE UNCHANGED Abstract!vars
  <2>1. /\ h \in dead /\ h \in active /\ doomed = NoHandler /\ dead' = dead \ {h}
        /\ doomed' = h /\ UNCHANGED <<active, query, current>>
    BY <1>2 DEF DeleteBegins, DeadInv
  <2>2. condemned' = condemned
    BY <2>1, NullAssumption DEF TypeOK
  <2> QED BY <2>1, <2>2 DEF Abstract!vars
<1>3. CASE DeleteEnds
  <2>1. /\ doomed \in active /\ doomed \in Handlers /\ doomed \notin dead
        /\ pc \in {"sweep", "exitSweep"} /\ doomed' = NoHandler
        /\ active' = active \ {doomed} /\ UNCHANGED <<dead, query, current>>
    BY <1>3 DEF DeleteEnds, Destroy, DeadInv, TypeOK
  <2>2. query = {} /\ current = NoEvent
    BY <2>1 DEF PhaseInv
  <2>3. condemned' = condemned \ {doomed}
    BY <2>1, NullAssumption DEF TypeOK
  <2>4. PICK h \in Handlers : h = doomed
    BY <2>1
  <2>5. Abstract!Delete(h)
    BY <1>0, <2>1, <2>2, <2>3, <2>4, NullAssumption DEF Abstract!Delete
  <2> QED BY <2>5 DEF Abstract!Next
<1>4. CASE ShutdownIOHandlers
  <2>1. dead' = dead \cup active /\ UNCHANGED <<active, doomed, query, current>>
    BY <1>4 DEF ShutdownIOHandlers
  <2>2. PICK S \in SUBSET Handlers : S = active
    BY DEF TypeOK
  <2>3. condemned' = condemned \cup S
    BY <2>1, <2>2
  <2>4. Abstract!Condemn(S)
    BY <2>1, <2>2, <2>3 DEF Abstract!Condemn
  <2> QED BY <2>4 DEF Abstract!Next
<1> QED BY <1>1, <1>2, <1>3, <1>4 DEF Sweep

\* The reactor implements EventDispatch: every event goes to the handler it was
\* reported for, the handler in OnEvent is not deleted, and a condemned one is
\* deleted by the reactor only, with no event of the batch left to process.
THEOREM Refinement == Spec => Implements
<1>1. Init => Abstract!Init
  BY InitRefines
<1>2. IInv /\ [Next]_vars => [Abstract!Next]_(Abstract!vars)
  <2> SUFFICES ASSUME IInv, [Next]_vars PROVE [Abstract!Next]_(Abstract!vars)
    OBVIOUS
  <2>1. CASE UNCHANGED vars
    BY <2>1 DEF vars, objects, Abstract!vars
  <2>2. CASE Next
    BY <2>1, <2>2, CallerRefines, PulseRefines, LoopRefines DEF Next, Done
  <2> QED BY <2>1, <2>2
<1> QED BY <1>1, <1>2, Invariance, PTL DEF Spec, Implements, Abstract!Spec

-----------------------------------------------------------------------------
(* The output of a TCP carrier.  The macros never look at the kernel: what *)
(* makes them right is that the flag and the kernel agree, and that        *)
(* OnEvent is past the test of the flag only while the flag is set.        *)

FlagAgrees == writeDataEnabled <=> epollout

\* EPOLLOUT is given up by DisableWriteData only, after the event that had it.
CarrierArmed == at \in {"sending", "sent"} => epollout

CarrierInv == CarrierTypeOK /\ NoLostWakeup /\ FlagAgrees /\ CarrierArmed

\* CarrierTypeOK in two parts: the provers see the flags and the numbers apart.
Flags ==
  /\ writeDataEnabled \in BOOLEAN /\ enableWriteDataCalled \in BOOLEAN
  /\ epollout \in BOOLEAN /\ graceful \in BOOLEAN /\ writable \in BOOLEAN

Others ==
  /\ output \in 0..MaxOutput
  /\ fate \in {"alive", "graceful", "failed"}
  /\ at \in Places

Wakeup == NoLostWakeup /\ FlagAgrees /\ CarrierArmed

LEMMA CarrierStarts == CarrierInit => CarrierInv
<1>1. CarrierInit => Flags
  BY Zenon DEF CarrierInit, Flags
<1>2. CarrierInit => Others /\ Wakeup
  BY MaxOutputAssumption DEF CarrierInit, Others, Wakeup, Places, NoLostWakeup,
                             FlagAgrees, CarrierArmed
<1> QED
  BY <1>1, <1>2 DEF CarrierInv, CarrierTypeOK, Flags, Others, Wakeup

LEMMA CarrierSteps == CarrierInv /\ [CarrierNext]_carrierVars => CarrierInv'
<1> SUFFICES ASSUME Flags, Others, Wakeup, [CarrierNext]_carrierVars
             PROVE  Flags' /\ Others' /\ Wakeup'
  BY Zenon DEF CarrierInv, CarrierTypeOK, Flags, Others, Wakeup
<1> USE DEF Places, Enqueue, writeInterest, NoLostWakeup,
            FlagAgrees, CarrierArmed
<1>1. CASE Produces
  <2> PICK n \in 0..MaxOutput : Produce(n)
    BY <1>1 DEF Produces
  <2>1. Flags'
    BY Zenon DEF Produce, SignalOutputData, Flags
  <2>2. Others'
    BY MaxOutputAssumption DEF Produce, Others
  <2>3. Wakeup'
    <3>1. writeDataEnabled' /\ epollout'
      BY Zenon DEF Produce, SignalOutputData, Wakeup
    <3> QED
      BY <3>1, Zenon DEF Wakeup
  <2> QED
    BY <2>1, <2>2, <2>3
<1>2. CASE GracefullyEnqueueForDelete
  BY <1>2 DEF GracefullyEnqueueForDelete, Flags, Others, Wakeup
<1>3. ASSUME NEW in \in BOOLEAN, NEW out \in BOOLEAN, OnEvent(in, out)
      PROVE  Flags' /\ Others' /\ Wakeup'
  BY <1>3 DEF OnEvent, Flags, Others, Wakeup
<1>4. CASE ErrorEvent
  BY <1>4 DEF ErrorEvent, Flags, Others, Wakeup
<1>5. CASE Handler
  <2>1. CASE ReadReturns
    BY <2>1 DEF ReadReturns, Flags, Others, Wakeup
  <2>2. CASE ReadFails
    BY <2>2 DEF ReadFails, Flags, Others, Wakeup
  <2>3. CASE NothingToWrite
    <3>1. Flags'
      BY <2>3, Zenon DEF NothingToWrite, DISABLE_WRITE_DATA, Flags
    <3>2. Others' /\ Wakeup'
      BY <2>3 DEF NothingToWrite, DISABLE_WRITE_DATA, Others, Wakeup
    <3> QED
      BY <3>1, <3>2
  <2>4. CASE WriteFails
    BY <2>4 DEF WriteFails, Flags, Others, Wakeup
  <2>5. ASSUME NEW n \in 0..output, WriteSome(n)
        PROVE  Flags' /\ Others' /\ Wakeup'
    <3>1. Flags'
      BY <2>5, Zenon DEF WriteSome, DISABLE_WRITE_DATA, Flags
    <3>2. Others'
      BY <2>5, MaxOutputAssumption DEF WriteSome, DISABLE_WRITE_DATA, Others
    <3>3. epollout /\ epollout' /\ writeDataEnabled'
      <4>1. output > 0 /\ UNCHANGED <<epollout, writeDataEnabled>>
        BY <2>5, Zenon DEF WriteSome, DISABLE_WRITE_DATA
      <4> QED
        BY <4>1, Zenon DEF Wakeup
    <3> QED
      BY <3>1, <3>2, <3>3, Zenon DEF Wakeup
  <2>6. CASE ReadyForSendReturns
    BY <2>6 DEF ReadyForSendReturns, Flags, Others, Wakeup
  <2>7. CASE DisableWriteData
    <3>1. Flags'
      BY <2>7, Zenon DEF DisableWriteData, Flags
    <3>2. Others'
      BY <2>7 DEF DisableWriteData, Others
    <3>3. output' = output /\ at' = "loop"
      BY <2>7, Zenon DEF DisableWriteData
    <3>4. CASE ~enableWriteDataCalled /\ output = 0
      <4>1. ~writeDataEnabled' /\ ~epollout'
        BY <2>7, <3>4, Zenon DEF DisableWriteData
      <4> QED
        BY <3>1, <3>2, <3>3, <3>4, <4>1 DEF Wakeup
    <3>5. CASE ~(~enableWriteDataCalled /\ output = 0)
      <4>1. UNCHANGED <<writeDataEnabled, epollout>>
        BY <2>7, <3>5, Zenon DEF DisableWriteData
      <4> QED
        BY <3>1, <3>2, <3>3, <4>1 DEF Wakeup
    <3> QED
      BY <3>4, <3>5
  <2>8. CASE Deleted
    BY <2>8 DEF Deleted, Flags, Others, Wakeup
  <2> QED
    BY <1>5, <2>1, <2>2, <2>3, <2>4, <2>5, <2>6, <2>7, <2>8 DEF Handler
<1>6. CASE UNCHANGED carrierVars
  BY <1>6 DEF carrierVars, Flags, Others, Wakeup
<1> QED
  BY <1>1, <1>2, <1>3, <1>4, <1>5, <1>6 DEF CarrierNext

LEMMA CarrierInvariance == CarrierSpec => []CarrierInv
<1>1. CarrierInit => CarrierInv
  BY CarrierStarts
<1>2. CarrierInv /\ [CarrierNext]_carrierVars => CarrierInv'
  BY CarrierSteps
<1> QED BY <1>1, <1>2, PTL DEF CarrierSpec

\* Every variable of the carrier keeps its type.
THEOREM CarrierTypes == CarrierSpec => []CarrierTypeOK
<1>1. CarrierInv => CarrierTypeOK
  BY DEF CarrierInv
<1>2. CarrierSpec => []CarrierInv
  BY CarrierInvariance
<1> QED BY <1>1, <1>2, PTL

\* SignalOutputData and DISABLE_WRITE_DATA together never leave output waiting
\* with EPOLLOUT given up.
THEOREM WakeupsAreKept == CarrierSpec => []NoLostWakeup
<1>1. CarrierInv => NoLostWakeup
  BY DEF CarrierInv
<1>2. CarrierSpec => []CarrierInv
  BY CarrierInvariance
<1> QED BY <1>1, <1>2, PTL

LEMMA CarrierFlushes ==
  CarrierInv /\ [CarrierNext]_carrierVars =>
    [fate = "alive" /\ fate' = "graceful" => output' = 0]_carrierVars
<1> USE DEF CarrierInv, CarrierTypeOK, Places, Enqueue, writeInterest
<1> SUFFICES ASSUME CarrierInv, CarrierNext, fate = "alive", fate' = "graceful" PROVE output' = 0
  BY DEF carrierVars
<1>1. CASE Produces
  BY <1>1 DEF Produces, Produce
<1>2. CASE GracefullyEnqueueForDelete
  BY <1>2 DEF GracefullyEnqueueForDelete
<1>3. ASSUME NEW in \in BOOLEAN, NEW out \in BOOLEAN, OnEvent(in, out) PROVE output' = 0
  BY <1>3 DEF OnEvent
<1>4. CASE ErrorEvent
  BY <1>4 DEF ErrorEvent
<1>5. CASE Handler
  <2>1. CASE NothingToWrite
    BY <2>1 DEF NothingToWrite, DISABLE_WRITE_DATA
  <2>2. ASSUME NEW n \in 0..output, WriteSome(n) PROVE output' = 0
    BY <2>2 DEF WriteSome, DISABLE_WRITE_DATA
  <2>3. CASE \/ ReadReturns \/ ReadFails \/ WriteFails \/ ReadyForSendReturns
             \/ DisableWriteData \/ Deleted
    BY <2>3 DEF ReadReturns, ReadFails, WriteFails, ReadyForSendReturns,
                DisableWriteData, Deleted
  <2> QED
    BY <1>5, <2>1, <2>2, <2>3 DEF Handler
<1> QED
  BY <1>1, <1>2, <1>3, <1>4, <1>5 DEF CarrierNext

\* ReadyForSend and GracefullyEnqueueForDelete decide a graceful delete with
\* the output sent to its last byte.
THEOREM GracefulFlushes == CarrierSpec => FlushedFirst
<1>1. CarrierInv /\ [CarrierNext]_carrierVars =>
        [fate = "alive" /\ fate' = "graceful" => output' = 0]_carrierVars
  BY CarrierFlushes
<1>2. CarrierSpec => []CarrierInv
  BY CarrierInvariance
<1> QED BY <1>1, <1>2, PTL DEF CarrierSpec, FlushedFirst
==============================================================================
