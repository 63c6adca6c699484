--------------------------- MODULE ProtocolManager ---------------------------
(***************************************************************************)
(* The life of protocols (src/protocols/protocolmanager.cpp,               *)
(* baseprotocol.cpp, tcpprotocol.cpp, timer/basetimerprotocol.cpp) and of  *)
(* the I/O handlers that carry them, under the main loop of the server.    *)
(*                                                                         *)
(* Protocols form chains.  The far endpoint of a chain owns an I/O handler *)
(* (a carrier or a timer) and is owned by it: whichever dies first must    *)
(* take the other along, once.  Both sides have a dead list of their own,  *)
(* DeleteDeadHandlers empties one and CleanupDeadProtocols the other, and  *)
(* each deletion enqueues more.                                            *)
(*                                                                         *)
(* Events reach live handlers only: that is what IOHandlerManager shows.   *)
(***************************************************************************)
EXTENDS Naturals, FiniteSets, FiniteSetsExt

CONSTANTS
  MaxProtocols, \* bound: the most protocols created
  MaxHandlers,  \* bound: the most carriers and timers created
  NoProtocol,   \* the NULL protocol pointer
  NoHandler,    \* the NULL handler pointer
  Service,      \* the event of an acceptor or a connector, which carry no protocol
  Spared,       \* the id ProtocolManager::Shutdown spares: 5
  MaxChain,     \* bound: the most protocols a chain is created with
  MaxBatch,     \* bound: the most events of one Pulse
  MaxOutput     \* bound: the most protocols with something to send at a time

ASSUME BoundAssumption == MaxProtocols \in Nat /\ MaxHandlers \in Nat /\ MaxChain \in Nat

Protocols == 1 .. MaxProtocols     \* ids come from BaseProtocol::_idGenerator
Handlers  == 1 .. MaxHandlers      \* and from IOHandler::_idGenerator

ASSUME NullAssumption ==
  NoProtocol \notin Protocols /\ NoHandler \notin Handlers /\ Service \notin Handlers

VARIABLES
  object,       \* a protocol is "none", "live", "freed", or "rejected" (deleted by a connector)
  activeP,      \* ProtocolManager::_activeProtocols
  deadP,        \* ProtocolManager::_deadProtocols
  enqueued,     \* BaseProtocol::_enqueueForDelete
  graceful,     \* BaseProtocol::_gracefullyEnqueueForDelete
  near, far,    \* BaseProtocol::_pNearProtocol and _pFarProtocol
  keepsNear,    \* the InboundHTTP4RTMP ones, which called DeleteNearProtocol(false)
  output,       \* the protocols whose own output buffer is not empty
  registered,   \* the protocols the application knows (SetApplication)
  handlerOf,    \* TCPProtocol::_pCarrier, BaseTimerProtocol::_pTimer
  protocolOf,   \* IOHandler::_pProtocol
  handler,      \* a handler is "none", "live" or "freed"
  timers,       \* the handlers that are IOTimers
  deadH,        \* IOHandlerManager::_deadIOHandlers
  batch,        \* what is left of the events of this Pulse
  current,      \* the handler whose OnEvent runs, Service, or NoHandler
  pc            \* where the main loop is

links    == <<near, far, keepsNear>>
lists    == <<object, activeP, deadP, enqueued, registered>>
carriers == <<handlerOf, protocolOf, handler, timers>>
loop     == <<batch, current, pc>>
vars == <<links, lists, carriers, graceful, output, deadH, loop>>

Live(p) == object[p] = "live"
LiveHandlers == {h \in Handlers : handler[h] = "live"}

Init ==
  /\ object     = [p \in Protocols |-> "none"]
  /\ activeP    = {}
  /\ deadP      = {}
  /\ enqueued   = {}
  /\ graceful   = {}
  /\ near       = [p \in Protocols |-> NoProtocol]
  /\ far        = [p \in Protocols |-> NoProtocol]
  /\ keepsNear  = {}
  /\ output     = {}
  /\ registered = {}
  /\ handlerOf  = [p \in Protocols |-> NoHandler]
  /\ protocolOf = [h \in Handlers |-> NoProtocol]
  /\ handler    = [h \in Handlers |-> "none"]
  /\ timers     = {}
  /\ deadH      = {}
  /\ batch      = {}
  /\ current    = NoHandler
  /\ pc         = "wait"

-----------------------------------------------------------------------------
(* Walking a chain.                                                        *)

\* What following the pointers of link from p visits: the recursions of
\* BaseProtocol over _pNearProtocol and _pFarProtocol.
Along(link, p) ==
  LET visited[n \in 0 .. MaxProtocols] ==
        IF n = 0 THEN {p}
        ELSE LET before == visited[n - 1]
             IN  before \cup ({link[q] : q \in before} \ {NoProtocol})
  IN visited[MaxProtocols]

Inward(p) == Along(near, p)

GetFarEndpoint(p)  == CHOOSE q \in Along(far, p) : far[q] = NoProtocol
GetNearEndpoint(p) == CHOOSE q \in Inward(p) : near[q] = NoProtocol

Farther(q, r) == q # r /\ r \in Inward(q)     \* q is farther than r

\* GetOutputBuffer() != NULL: the default asks the near protocol, and
\* InboundHTTP4RTMP answers for itself only.
HasOutput(p) ==
  \E q \in output : /\ q \in Inward(p)
                    /\ \A r \in keepsNear : Farther(r, q) => r \notin Inward(p)

\* The protocol whose buffer it is.
OutputBuffer(p) ==
  CHOOSE q \in Inward(p) \cap output : \A r \in Inward(p) \cap output : ~Farther(r, q)

-----------------------------------------------------------------------------
(* The operations of BaseProtocol and ProtocolManager.                     *)

\* What EnqueueForDelete does to each protocol of S that has not been enqueued
\* yet: leave its application and the active list, enter the dead list.
EnqueueForDelete(S) ==
  /\ enqueued'   = enqueued \cup S
  /\ registered' = registered \ (S \ enqueued)
  /\ activeP'    = activeP \ (S \ enqueued)
  /\ deadP'      = deadP \cup (S \ enqueued)
  /\ UNCHANGED object

\* The protocols GracefullyEnqueueForDelete visits, from the far endpoint to the
\* first one whose output buffer is not empty.
GracefulWalk(p) ==
  LET chain == Inward(GetFarEndpoint(p))
  IN  {q \in chain : \A r \in chain : HasOutput(r) => ~Farther(r, q)}

GracefullyEnqueueForDelete(p) ==
  /\ graceful' = graceful \cup {p} \cup GracefulWalk(p)
  /\ IF \E q \in GracefulWalk(p) : HasOutput(q)
       THEN UNCHANGED lists
       ELSE EnqueueForDelete({GetNearEndpoint(p)})

ReadyForSend_NotGraceful(p) == EnqueueForDelete({})

\* ReadyForSend called on the far endpoint: the first graceful protocol of the
\* chain is enqueued.  InboundHTTP4RTMP only passes the call on.
ReadyForSend(p) ==
  LET stops == (graceful \ keepsNear) \cap Inward(p)
  IN  EnqueueForDelete({q \in stops : \A r \in stops : ~Farther(r, q)})

Taken_OnlyNear(p) == (IF p \in keepsNear THEN {} ELSE {near[p]}) \ {NoProtocol}

\* The neighbours ~BaseProtocol enqueues.
Taken(p) ==
  ({far[p]} \cup (IF p \in keepsNear THEN {} ELSE {near[p]})) \ {NoProtocol}

\* ~TCPProtocol or ~BaseTimerProtocol, which delete the handler, then
\* ~BaseProtocol: both neighbours are unlinked and enqueued.  What the object
\* held goes with it.
DeleteProtocol(p) ==
  LET new == Taken(p) \ enqueued
  IN  /\ object'     = [object EXCEPT ![p] = "freed"]
      /\ enqueued'   = (enqueued \cup Taken(p)) \ {p}
      /\ registered' = registered \ new
      /\ activeP'    = (activeP \ new) \ {p}
      /\ deadP'      = (deadP \cup new) \ {p}
      /\ near' = [q \in Protocols |-> IF q = p \/ q = far[p] THEN NoProtocol ELSE near[q]]
      /\ far'  = [q \in Protocols |-> IF q = p \/ q = near[p] THEN NoProtocol ELSE far[q]]
      /\ keepsNear'  = keepsNear \ {p}
      /\ graceful'   = graceful \ {p}
      /\ output'     = output \ {p}
      /\ handler'    = [h \in Handlers |-> IF h = handlerOf[p] THEN "freed" ELSE handler[h]]
      /\ protocolOf' = [h \in Handlers |-> IF h = handlerOf[p] THEN NoProtocol ELSE protocolOf[h]]
      /\ handlerOf'  = [handlerOf EXCEPT ![p] = NoHandler]
      /\ timers'     = timers \ {handlerOf[p]}

\* ~IOHandler: the protocol loses its handler and is enqueued.
DeleteHandler(h) ==
  /\ handler'    = [handler EXCEPT ![h] = "freed"]
  /\ handlerOf'  = [p \in Protocols |-> IF p = protocolOf[h] THEN NoHandler ELSE handlerOf[p]]
  /\ protocolOf' = [protocolOf EXCEPT ![h] = NoProtocol]
  /\ timers'     = timers \ {h}
  /\ EnqueueForDelete({protocolOf[h]} \ {NoProtocol})

\* Ids are handed out in order, and never again.
NextProtocol == Cardinality({p \in Protocols : object[p] # "none"}) + 1
NextHandler  == Cardinality({h \in Handlers : handler[h] # "none"}) + 1

\* The links of the chain first, ..., last, from the far end to the near end.
Linked(first, last) ==
  /\ near' = [p \in Protocols |-> IF p \in first .. last - 1 THEN p + 1 ELSE near[p]]
  /\ far'  = [p \in Protocols |-> IF p \in first + 1 .. last THEN p - 1 ELSE far[p]]

Bound(p, h) ==       \* a new handler, SetIOHandler and SetProtocol
  /\ h \in Handlers
  /\ handler'    = [handler EXCEPT ![h] = "live"]
  /\ handlerOf'  = [handlerOf EXCEPT ![p] = h]
  /\ protocolOf' = [protocolOf EXCEPT ![h] = p]

-----------------------------------------------------------------------------
(* What the code above does: in OnEvent, in a destructor, in an application *)
(* callback of SetApplication(NULL).                                       *)

\* TCPAcceptor::Accept, or TCPConnector::OnEvent when the application takes the
\* connection: chain, carrier, application.
NewConnection(first, last) ==
  /\ first < last
  /\ first .. last \subseteq Protocols
  /\ object'     = [p \in Protocols |-> IF p \in first .. last THEN "live" ELSE object[p]]
  /\ Bound(first, NextHandler)
  /\ activeP'    = activeP \cup (first .. last)
  /\ registered' = registered \cup {last}
  /\ Linked(first, last)
  /\ keepsNear' \in {keepsNear, keepsNear \cup {last}}
  /\ UNCHANGED <<deadP, enqueued, graceful, output, timers, deadH>>

\* TCPConnector::OnEvent when SignalProtocolCreated fails: the near endpoint is
\* deleted on the spot, bypassing the dead list.  It may have an application.
RejectedConnection(first, last) ==
  /\ current = Service
  /\ first < last
  /\ first .. last \subseteq Protocols
  /\ Bound(first, NextHandler)
  /\ object' = [p \in Protocols |-> IF p = last THEN "rejected"
                               ELSE IF p \in first .. last - 1 THEN "live" ELSE object[p]]
  /\ enqueued' = enqueued \cup {last - 1}
  /\ deadP'    = deadP \cup {last - 1}
  /\ activeP'  = activeP \cup (first .. last - 2)
  /\ registered' \in {registered, registered \cup {last}}
  /\ Linked(first, last - 1)
  /\ UNCHANGED <<keepsNear, graceful, output, timers, deadH>>

\* CreateProtocolChain when a later protocol cannot be spawned: the far endpoint
\* of what exists is deleted on the spot, and takes its near protocol along.
ChainFails(first, last) ==
  /\ first .. last \subseteq Protocols
  /\ object'   = [p \in Protocols |-> IF p = first THEN "freed"
                                 ELSE IF p \in first + 1 .. last THEN "live" ELSE object[p]]
  /\ enqueued' = enqueued \cup ({first + 1} \cap first .. last)
  /\ deadP'    = deadP \cup ({first + 1} \cap first .. last)
  /\ activeP'  = activeP \cup (first + 2 .. last)
  /\ Linked(first + 1, last)
  /\ UNCHANGED <<keepsNear, registered, graceful, output, carriers, deadH>>

\* A BaseTimerProtocol and its IOTimer.
NewTimer(p) ==
  /\ p \in Protocols
  /\ Bound(p, NextHandler)
  /\ timers'  = timers \cup {NextHandler}
  /\ object'  = [object EXCEPT ![p] = "live"]
  /\ activeP' = activeP \cup {p}
  /\ registered' \in {registered, registered \cup {p}}
  /\ UNCHANGED <<deadP, enqueued, links, graceful, output, deadH>>

\* p gets input: the carrier whose OnEvent runs passes it along its chain.
GetsInput(p) ==
  /\ pc = "callback"
  /\ current \in LiveHandlers \ timers
  /\ p \in Inward(protocolOf[current])

Substitute_FarNotReset(p, q) ==
  /\ GetsInput(p) /\ far[p] # NoProtocol /\ near[p] = NoProtocol /\ p \notin keepsNear
  /\ q \in Protocols
  /\ near' = [near EXCEPT ![far[p]] = q]
  /\ far'  = [far EXCEPT ![q] = far[p]]
  /\ keepsNear' \in {keepsNear, keepsNear \cup {q}}
  /\ object' = [object EXCEPT ![q] = "live"]
  /\ enqueued'   = enqueued \cup {p}
  /\ registered' = (registered \ {p}) \cup (IF p \in registered THEN {q} ELSE {})
  /\ activeP'    = (activeP \ {p}) \cup {q}
  /\ deadP'      = IF p \in enqueued THEN deadP ELSE deadP \cup {p}
  /\ UNCHANGED <<graceful, output, carriers, deadH>>

\* InboundRTMPSDiscriminatorProtocol, BindHTTP or BindSSL: a new protocol takes
\* the near end of the chain, and the old one is enqueued.
Substitute(p, q) ==
  /\ GetsInput(p) /\ far[p] # NoProtocol /\ near[p] = NoProtocol /\ p \notin keepsNear
  /\ q \in Protocols
  /\ near' = [near EXCEPT ![far[p]] = q]
  /\ far'  = [far EXCEPT ![p] = NoProtocol, ![q] = far[p]]
  /\ keepsNear' \in {keepsNear, keepsNear \cup {q}}
  /\ object' = [object EXCEPT ![q] = "live"]
  /\ enqueued'   = enqueued \cup {p}
  /\ registered' = (registered \ {p}) \cup (IF p \in registered THEN {q} ELSE {})
  /\ activeP'    = (activeP \ {p}) \cup {q}
  /\ deadP'      = IF p \in enqueued THEN deadP ELSE deadP \cup {p}
  /\ UNCHANGED <<graceful, output, carriers, deadH>>

\* InboundHTTP4RTMP::Bind: the session of the HTTP connection is created.
BindSession(p, q) ==
  /\ GetsInput(p) /\ p \in keepsNear /\ near[p] = NoProtocol
  /\ q \in Protocols
  /\ near' = [near EXCEPT ![p] = q]
  /\ far'  = [far EXCEPT ![q] = p]
  /\ object'  = [object EXCEPT ![q] = "live"]
  /\ activeP' = activeP \cup {q}
  /\ registered' = registered \cup (IF p \in registered THEN {q} ELSE {})
  /\ UNCHANGED <<keepsNear, deadP, enqueued, graceful, output, carriers, deadH>>

\* InboundRTMPProtocol after an encrypted handshake: RTMPE goes between the
\* protocol and its far neighbour.
Insert(p, q) ==
  /\ GetsInput(p) /\ far[p] # NoProtocol /\ near[p] = NoProtocol
  /\ q \in Protocols
  /\ near' = [near EXCEPT ![far[p]] = q, ![q] = p]
  /\ far'  = [far EXCEPT ![p] = q, ![q] = far[p]]
  /\ object'  = [object EXCEPT ![q] = "live"]
  /\ activeP' = activeP \cup {q}
  /\ UNCHANGED <<keepsNear, deadP, enqueued, registered, graceful, output, carriers, deadH>>

\* InboundHTTP4RTMP, RTMPT_STATE_IDLE: what the session has to send becomes the
\* body of the answer.
Relay(p) ==
  /\ GetsInput(p) /\ p \in keepsNear /\ near[p] # NoProtocol
  /\ output' = (output \ Inward(near[p])) \cup {p}
  /\ UNCHANGED <<links, lists, graceful, carriers, deadH>>

\* InboundHTTP4RTMP, RTMPT_STATE_CLOSE: the session is cut off at both ends and
\* enqueued; the answer is written and the connection goes away gracefully.
CloseSession(p) ==
  /\ GetsInput(p) /\ p \in keepsNear /\ near[p] # NoProtocol
  /\ LET session == GetNearEndpoint(p)
     IN /\ near' = [near EXCEPT ![p] = NoProtocol, ![far[session]] = NoProtocol]
        /\ far'  = [far EXCEPT ![near[p]] = NoProtocol, ![session] = NoProtocol]
        /\ EnqueueForDelete({session})
  /\ output'   = output \cup {p}
  /\ graceful' = graceful \cup {p, GetFarEndpoint(p)}
  /\ UNCHANGED <<keepsNear, carriers, deadH>>

CallsEnqueue(p) ==
  /\ Live(p)
  /\ EnqueueForDelete({p})
  /\ UNCHANGED <<links, graceful, output, carriers, deadH>>

CallsGracefully(p) ==
  /\ Live(p)
  /\ GracefullyEnqueueForDelete(p)
  /\ UNCHANGED <<links, output, carriers, deadH>>

\* Data to send is put into the buffer of a protocol that does not go away.
Writes(p) ==
  /\ Live(p) /\ p \notin enqueued \cup graceful
  /\ Cardinality(output) < MaxOutput
  /\ output' = output \cup {p}
  /\ UNCHANGED <<links, lists, graceful, carriers, deadH>>

\* OnEvent may build things; destructors and SetApplication(NULL) only enqueue
\* and write.
Business ==
  /\ \/ /\ pc = "callback"
        /\ LET new == NextProtocol
           IN  \/ \E last \in new .. new + MaxChain - 1 :
                    NewConnection(new, last) \/ RejectedConnection(new, last) \/ ChainFails(new, last)
               \/ NewTimer(new)
               \/ \E p \in Protocols :
                    \/ Substitute(p, new) \/ BindSession(p, new) \/ Insert(p, new)
                    \/ Relay(p) \/ CloseSession(p)
     \/ /\ pc \in {"callback", "sweep", "clean", "exitClean", "exitSweep"}
        /\ \E p \in Protocols : CallsEnqueue(p) \/ CallsGracefully(p) \/ Writes(p)
  /\ UNCHANGED loop

-----------------------------------------------------------------------------
(* The main loop.                                                          *)

\* epoll_wait reports live handlers that are not in the dead list (those are out
\* of the epoll set), acceptors and connectors.
Wait ==
  /\ pc = "wait"
  /\ batch' \in SUBSET ((LiveHandlers \ deadH) \cup {Service}) \ {{}}
  /\ Cardinality(batch') <= MaxBatch
  /\ pc' = "dispatch"
  /\ UNCHANGED <<links, lists, carriers, graceful, output, deadH, current>>

\* The handler is gone, or is a timer whose protocol is enqueued for delete
\* (IOTimer::OnEvent).
Ignored(h) ==
  \/ h \in Handlers /\ handler[h] # "live"
  \/ h \in timers /\ protocolOf[h] \in enqueued \cup graceful

Ignore(h) ==
  /\ pc = "dispatch"
  /\ Ignored(h)
  /\ batch' = batch \ {h}
  /\ UNCHANGED <<links, lists, carriers, graceful, output, deadH, current, pc>>

OnEvent(h) ==
  /\ pc = "dispatch"
  /\ ~Ignored(h)
  /\ batch'   = batch \ {h}
  /\ current' = h
  /\ pc' = "callback"
  /\ UNCHANGED <<links, lists, carriers, graceful, output, deadH>>

\* EPOLLOUT on a carrier: the first buffer that is not empty is sent to its end
\* and the chain is told, as it is when there was nothing to send.
Writable ==
  /\ pc = "callback"
  /\ current \in Handlers \ timers
  /\ LET p == protocolOf[current]
     IN  /\ output' = IF HasOutput(p) THEN output \ {OutputBuffer(p)} ELSE output
         /\ ReadyForSend(p)
  /\ current' = NoHandler
  /\ pc' = "dispatch"
  /\ UNCHANGED <<links, carriers, graceful, deadH, batch>>

OnEventReturns ==
  /\ pc = "callback"
  /\ deadH' \in {deadH, deadH \cup ({current} \cap Handlers)}
  /\ current' = NoHandler
  /\ pc' = "dispatch"
  /\ UNCHANGED <<links, lists, carriers, graceful, output, batch>>

PulseEnds_ProtocolsFirst ==
  /\ pc = "dispatch"
  /\ batch = {}
  /\ pc' = IF deadP = {} THEN "sweep" ELSE "clean"
  /\ UNCHANGED <<links, lists, carriers, graceful, output, deadH, batch, current>>

PulseEnds ==
  /\ pc = "dispatch"
  /\ batch = {}
  /\ pc' = "sweep"
  /\ UNCHANGED <<links, lists, carriers, graceful, output, deadH, batch, current>>

DeleteDeadHandlers ==
  \/ /\ pc \in {"sweep", "exitSweep"}
     /\ deadH # {}
     /\ DeleteHandler(Min(deadH))
     /\ deadH' = deadH \ {Min(deadH)}
     /\ UNCHANGED <<links, graceful, output, loop>>
  \/ /\ pc \in {"sweep", "exitSweep"}
     /\ deadH = {}
     /\ pc' = IF pc = "sweep" THEN "clean" ELSE "done"
     /\ UNCHANGED <<links, lists, carriers, graceful, output, deadH, batch, current>>

CleanupDeadProtocols_NoLoop ==
  \/ /\ pc \in {"clean", "exitClean"}
     /\ deadP # {}
     /\ DeleteProtocol(Min(deadP))
     /\ UNCHANGED <<deadH, loop>>
  \/ /\ pc = "clean"
     /\ pc' = "wait"
     /\ UNCHANGED <<links, lists, carriers, graceful, output, deadH, batch, current>>

CleanupDeadProtocols ==
  \/ /\ pc \in {"clean", "exitClean"}
     /\ deadP # {}
     /\ DeleteProtocol(Min(deadP))
     /\ UNCHANGED <<deadH, loop>>
  \/ /\ pc = "clean"
     /\ deadP = {}
     /\ pc' = "wait"
     /\ UNCHANGED <<links, lists, carriers, graceful, output, deadH, batch, current>>

\* Cleanup, after Pulse returned false: every active protocol but one goes to
\* the dead list, and _enqueueForDelete is left as it is.
Shutdown ==
  /\ pc = "wait"
  /\ LET doomed == activeP \ {Spared}
     IN  /\ deadP'      = deadP \cup doomed
         /\ activeP'    = activeP \ doomed
         /\ registered' = registered \ doomed
  /\ pc' = "exitClean"
  /\ UNCHANGED <<object, enqueued, links, carriers, graceful, output, deadH, batch, current>>

\* IOHandlerManager::ShutdownIOHandlers.
ShutdownIOHandlers ==
  /\ pc = "exitClean"
  /\ deadP = {}
  /\ deadH' = deadH \cup LiveHandlers
  /\ pc' = "exitSweep"
  /\ UNCHANGED <<links, lists, carriers, graceful, output, batch, current>>

Done == pc = "done" /\ UNCHANGED vars

Dispatch == (\E h \in batch : Ignore(h) \/ OnEvent(h)) \/ PulseEnds

Return == Writable \/ OnEventReturns

Next ==
  \/ Business
  \/ Wait
  \/ Dispatch
  \/ Return
  \/ DeleteDeadHandlers
  \/ CleanupDeadProtocols
  \/ Shutdown
  \/ ShutdownIOHandlers
  \/ Done

Spec == Init /\ [][Next]_vars

-----------------------------------------------------------------------------
(* Properties.                                                             *)

LiveProtocols == {p \in Protocols : Live(p)}

TypeOK ==
  /\ object \in [Protocols -> {"none", "live", "freed", "rejected"}]
  /\ handler \in [Handlers -> {"none", "live", "freed"}]
  /\ near \in [Protocols -> Protocols \cup {NoProtocol}]
  /\ far \in [Protocols -> Protocols \cup {NoProtocol}]
  /\ handlerOf \in [Protocols -> Handlers \cup {NoHandler}]
  /\ protocolOf \in [Handlers -> Protocols \cup {NoProtocol}]
  /\ UNION {activeP, deadP, enqueued, graceful, keepsNear, output, registered} \subseteq Protocols
  /\ timers \cup deadH \subseteq Handlers
  /\ batch \subseteq Handlers \cup {Service}
  /\ current \in Handlers \cup {Service, NoHandler}
  /\ pc \in {"wait", "dispatch", "callback", "sweep", "clean", "exitClean", "exitSweep", "done"}

\* Walking a chain never meets a deleted protocol: the links of live protocols
\* lead to live protocols and back.
LinksMutual ==
  \A p \in LiveProtocols :
    /\ near[p] # NoProtocol => Live(near[p]) /\ far[near[p]] = p
    /\ far[p] # NoProtocol => Live(far[p]) /\ near[far[p]] = p

\* A protocol and its handler point at each other while both exist, and neither
\* keeps a pointer to the other when it is gone.
HandlersMutual ==
  /\ \A p \in LiveProtocols : handlerOf[p] # NoHandler =>
       handler[handlerOf[p]] = "live" /\ protocolOf[handlerOf[p]] = p
  /\ \A h \in LiveHandlers : protocolOf[h] # NoProtocol =>
       Live(protocolOf[h]) /\ handlerOf[protocolOf[h]] = h

\* Whatever is in a dead list still exists, and a protocol is in one of the two
\* lists as long as it exists: each is deleted once.  It rests on the order of
\* the main loop, handlers first: a protocol deletes its handler without
\* looking at the dead list of the handlers.
NoDoubleFree ==
  /\ deadH \subseteq LiveHandlers
  /\ deadP \cap activeP = {}
  /\ deadP \cup activeP = LiveProtocols

\* The carrier whose OnEvent begins has a protocol with a near protocol: neither
\* TCPCarrier::OnEvent nor TCPProtocol::SignalInputData tests for NULL.
CarrierHasChain ==
  pc = "dispatch" =>
    \A h \in (batch \cap LiveHandlers) \ timers :
      /\ protocolOf[h] # NoProtocol
      /\ near[protocolOf[h]] # NoProtocol

\* The application knows active protocols only, but for those a connector
\* deleted behind its back.
RegisteredAreActive == \A p \in registered : p \in activeP \/ object[p] = "rejected"

\* What a callback reaches from any live protocol still exists: its neighbours,
\* its handler and, from the application's tables, itself.
PointersMutual ==
  /\ TypeOK
  /\ LinksMutual
  /\ HandlersMutual
  /\ RegisteredAreActive

\* A graceful delete is not forgotten: while the near endpoint of a chain waits
\* for it, the chain has output left, whose end will be noticed, or one of its
\* protocols is enqueued, or its carrier is.
GracefulIsRemembered ==
  \A p \in graceful \cap LiveProtocols :
    LET endpoint == GetFarEndpoint(p)
    IN  near[p] = NoProtocol /\ p # endpoint /\ handlerOf[endpoint] # NoHandler =>
          \/ Inward(endpoint) \cap (enqueued \cup output \cup deadP) # {}
          \/ handlerOf[endpoint] \in deadH

\* The loop goes to sleep with no work left, as no event may ever come; and when
\* the server stops, no handler is left and at most the protocol of id 5.
NothingLeftBehind ==
  /\ pc = "wait" => deadP \cup deadH = {}
  /\ pc = "done" => LiveHandlers = {} /\ LiveProtocols \subseteq {Spared}
=============================================================================
