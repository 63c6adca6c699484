---------------------------- MODULE EventDispatch ----------------------------
(***************************************************************************)
(* What the reactor promises to the code above it, without tokens: an      *)
(* event of a batch is delivered to the very handler it was reported for,  *)
(* or dropped when that handler has been deleted in the meantime.  The     *)
(* handler whose event is being processed is never deleted under it, and a *)
(* handler the reactor condemned is the only one it deletes on its own.    *)
(***************************************************************************)
CONSTANTS Handlers, NoHandler

VARIABLES
  live,        \* handlers constructed and not deleted
  condemned,   \* those waiting for the reactor to delete them
  pending,     \* handlers with an event left in the batch
  running      \* the handler whose OnEvent runs, or NoHandler

vars == <<live, condemned, pending, running>>

Init == live = {} /\ condemned = {} /\ pending = {} /\ running = NoHandler

Create(h) ==
  /\ h \notin live
  /\ h \notin pending
  /\ live' = live \cup {h}
  /\ UNCHANGED <<condemned, pending, running>>

Condemn(S) ==
  /\ S \subseteq live
  /\ condemned' = condemned \cup S
  /\ UNCHANGED <<live, pending, running>>

\* A batch is taken only when the one before it is used up.
Collect(S) ==
  /\ pending = {} /\ running = NoHandler
  /\ S # {} /\ S \subseteq live
  /\ pending' = S
  /\ UNCHANGED <<live, condemned, running>>

Deliver(h) ==
  /\ running = NoHandler
  /\ h \in pending /\ h \in live
  /\ pending' = pending \ {h}
  /\ running' = h
  /\ UNCHANGED <<live, condemned>>

\* The handler of the event is gone.
Drop(h) ==
  /\ running = NoHandler
  /\ h \in pending /\ h \notin live
  /\ pending' = pending \ {h}
  /\ UNCHANGED <<live, condemned, running>>

\* The event is an error: the handler is not called any more.
Fail(h) ==
  /\ running = NoHandler
  /\ h \in pending /\ h \in live
  /\ pending' = pending \ {h}
  /\ condemned' = condemned \cup {h}
  /\ UNCHANGED <<live, running>>

\* OnEvent returned; a handler that failed is condemned.
Return ==
  /\ running # NoHandler
  /\ running' = NoHandler
  /\ condemned' \in {condemned, condemned \cup {running}}
  /\ UNCHANGED <<live, pending>>

\* By its owner when it is not condemned, by the reactor when it is and no
\* event of the batch is left to process.
Delete(h) ==
  /\ h \in live /\ h # running
  /\ h \in condemned => pending = {} /\ running = NoHandler
  /\ live' = live \ {h}
  /\ condemned' = condemned \ {h}
  /\ UNCHANGED <<pending, running>>

Next ==
  \/ \E h \in Handlers : Create(h) \/ Deliver(h) \/ Drop(h) \/ Fail(h) \/ Delete(h)
  \/ \E S \in SUBSET Handlers : Condemn(S) \/ Collect(S)
  \/ Return

Spec == Init /\ [][Next]_vars
=============================================================================
