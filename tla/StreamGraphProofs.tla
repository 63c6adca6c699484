-------------------------- MODULE StreamGraphProofs --------------------------
(***************************************************************************)
(* Proofs about StreamGraph, for any in and out streams and connections:   *)
(* links stay mutual, nothing points to a deleted stream, and what exists  *)
(* for its consumers ends with the last of them.                           *)
(***************************************************************************)
EXTENDS StreamGraph, FiniteSetTheorems, TLAPS

\* A moov writer is linked in one direction, so nothing feeds or unlinks it.
WritersUnfed ==
    /\ \A i \in Ins : outs[i] \cap Writers = {}
    /\ (loop.left \cup {loop.at}) \cap Writers = {}

\* Out streams that are not constructed, too, have been told the truth.
ToldTruly == \A o \in Outs \ Writers : told[o] = "attached" <=> inOf[o] # NULL

Graph == LinksMutual /\ NoDanglingLink /\ WritersUnfed /\ ToldTruly /\ served \subseteq used

\* An out stream of the in stream that a loop walks had its turn or will, until
\* an edge's count ends the walk.
Turns == /\ Idle => loop.at = NULL /\ loop.left = {}
         /\ loop.over => loop.in \in EdgePulls /\ loop.left = {}
         /\ ~Idle /\ ~loop.over => outs[loop.in] \subseteq loop.met \cup loop.left

IInv == Graph /\ UnusedEnd /\ Turns

-----------------------------------------------------------------------------
(* The four ways in which the links change.                                *)

LEMMA Sides == /\ Ins \cap Outs = {} /\ NULL \notin Ins \cup Outs /\ Writers \subseteq Outs
               /\ \A s \in Ins \cup Outs : Proto[s] \in Protocols
               /\ EdgePulls \subseteq Ins /\ Vod \subseteq Ins /\ Kept \subseteq Outs \ Writers
BY GraphAssumption DEF GraphAssumption, Streams

\* One consumer left: Crushed counts it.
LEMMA LastConsumer ==
    ASSUME TypeOK, NEW i \in Ins, NEW o \in outs[i]
    PROVE  Cardinality(outs[i]) = 1 <=> outs[i] = {o}
<1>1. IsFiniteSet(Outs) /\ outs[i] \in SUBSET Outs
  BY GraphAssumption DEF GraphAssumption, TypeOK
<1>2. IsFiniteSet(outs[i])
  BY <1>1, FS_Subset
<1> QED
  BY <1>2, FS_Singleton

LEMMA LinkGraph ==
    ASSUME IInv, NEW i \in Ins, NEW o \in Outs, Link(i, o) PROVE IInv'
<1> USE Sides
<1>1. /\ i \in alive /\ o \in alive \ Writers /\ inOf[o] = NULL
      /\ outs' = [outs EXCEPT ![i] = outs[i] \cup {o}]
      /\ inOf' = [inOf EXCEPT ![o] = i]
      /\ told' = [told EXCEPT ![o] = "attached"]
      /\ served' = served \cup {i, o}
      /\ UNCHANGED <<alive, used, doomed, watched>>
  BY DEF Link, Linked
<1>2. loop' = IF i = loop.in /\ ~loop.over THEN [loop EXCEPT !.left = @ \cup {o}] ELSE loop
  BY DEF Link, Linked
<1>3. TypeOK'
  <2>1. loop' \in [in : Ins \cup {NULL}, at : Outs \cup {NULL}, left : SUBSET Outs,
                   over : BOOLEAN, met : SUBSET Outs]
    BY <1>2 DEF IInv, Graph, LinksMutual, TypeOK
  <2> QED
    BY <1>1, <2>1 DEF IInv, Graph, LinksMutual, TypeOK, Streams
<1>4. LinksMutual' /\ ToldTruly'
  BY <1>1, <1>3 DEF IInv, Graph, LinksMutual, TypeOK, ToldTruly, Living
<1>5. NoDanglingLink' /\ WritersUnfed'
  BY <1>1, <1>2 DEF IInv, Graph, LinksMutual, TypeOK, NoDanglingLink, WritersUnfed, Living
<1>6. UnusedEnd'
  BY <1>1 DEF IInv, Graph, LinksMutual, TypeOK, UnusedEnd, UnusedPullsEnd, OutputsEnd,
              IsEnqueueForDelete
<1>7. served' \subseteq used'
  BY <1>1 DEF IInv, Graph, LinksMutual, TypeOK
<1>8. Turns'
  BY <1>1, <1>2 DEF IInv, Graph, LinksMutual, TypeOK, Turns, Idle
<1> QED
  BY <1>4, <1>5, <1>6, <1>7, <1>8 DEF IInv, Graph

\* All out streams of i lose it, in both TakenOver and DeleteIn.
AllUnlinked(i) ==
    /\ outs' = [outs EXCEPT ![i] = {}]
    /\ inOf' = [o \in Outs |-> IF o \in outs[i] THEN NULL ELSE inOf[o]]
    /\ told' = [o \in Outs |-> IF o \in outs[i] THEN "detached" ELSE told[o]]
    /\ doomed \cup Lost(outs[i]) \subseteq doomed' /\ doomed' \subseteq Protocols

LEMMA AllUnlinkedGraph ==
    ASSUME IInv, NEW i \in Ins, AllUnlinked(i), Idle, loop' = loop,
           served' = served, used' = used, watched' \subseteq watched, watched \subseteq watched' \cup {i},
           NEW ended \in SUBSET (outs[i] \ Kept),
           \/ (alive' = alive /\ Proto[i] \in doomed') \/ alive' = alive \ ({i} \cup ended)
    PROVE  IInv'
<1> USE Sides
<1>1. /\ outs' = [outs EXCEPT ![i] = {}]
      /\ inOf' = [o \in Outs |-> IF o \in outs[i] THEN NULL ELSE inOf[o]]
      /\ told' = [o \in Outs |-> IF o \in outs[i] THEN "detached" ELSE told[o]]
      /\ doomed \subseteq doomed' /\ doomed' \subseteq Protocols
      /\ \A o \in outs[i] \cap Kept : Proto[o] \in doomed'
  BY DEF AllUnlinked, Lost
<1>2. TypeOK'
  BY <1>1 DEF IInv, Graph, LinksMutual, TypeOK
<1>3. LinksMutual' /\ ToldTruly'
  BY <1>1, <1>2 DEF IInv, Graph, LinksMutual, TypeOK, ToldTruly, Living, WritersUnfed
<1>4. NoDanglingLink' /\ WritersUnfed'
  <2>1. \A j \in Ins : \A o \in outs'[j] :
           j # i /\ o \in Outs /\ o \notin outs[i] /\ o \in alive /\ j \in alive
    BY <1>1 DEF IInv, Graph, LinksMutual, TypeOK, NoDanglingLink, WritersUnfed, Living
  <2>2. \A o \in Outs \ Writers :
           inOf'[o] # NULL => /\ o \notin outs[i] /\ inOf'[o] = inOf[o] /\ inOf[o] # i
                              /\ o \in alive /\ inOf[o] \in alive /\ inOf[o] \in Ins
    BY <1>1 DEF IInv, Graph, LinksMutual, TypeOK, NoDanglingLink, Living
  <2>3. \A s \in alive : s # i /\ s \notin outs[i] => s \in alive'
    OBVIOUS
  <2>4. outs[i] \subseteq Outs
    BY DEF IInv, Graph, LinksMutual, TypeOK
  <2>5. loop.left = loop'.left /\ loop.at = loop'.at /\ loop.in = NULL /\ loop'.in = NULL
    BY DEF Idle
  <2>6. loop.left = {} /\ loop.at = NULL
    BY <2>5 DEF IInv, Turns, Idle
  <2>7. \A j \in Ins : \A o \in outs'[j] : j \in alive' /\ o \in alive'
    BY <2>1, <2>3, <2>4
  <2>8. \A o \in Outs \ Writers : inOf'[o] # NULL => o \in alive' /\ inOf'[o] \in alive'
    BY <2>2, <2>3, <2>4
  <2>9. \A j \in Ins : outs'[j] \cap Writers = {}
    BY <1>1 DEF IInv, Graph, LinksMutual, TypeOK, WritersUnfed
  <2> QED
    BY <2>5, <2>6, <2>7, <2>8, <2>9 DEF NoDanglingLink, WritersUnfed, Living
<1>5. UnusedEnd'
  BY <1>1 DEF IInv, Graph, LinksMutual, TypeOK, UnusedEnd, UnusedPullsEnd, OutputsEnd,
              IsEnqueueForDelete
<1>6. Turns'
  BY DEF IInv, Turns, Idle
<1> QED
  BY <1>3, <1>4, <1>5, <1>6 DEF IInv, Graph

LEMMA TakenOverGraph ==
    ASSUME IInv, NEW i \in Ins, TakenOver(i) PROVE IInv'
<1>1. Lost(outs[i]) \subseteq Protocols
  BY Sides DEF Lost
<1>2. AllUnlinked(i) /\ Proto[i] \in doomed'
  BY <1>1, Sides DEF TakenOver, AllUnlinked, IInv, Graph, LinksMutual, TypeOK
<1>3. {} \in SUBSET (outs[i] \ Kept)
  OBVIOUS
<1> QED
  BY <1>2, <1>3, AllUnlinkedGraph DEF TakenOver

LEMMA DeleteInGraph ==
    ASSUME IInv, NEW i \in Ins, DeleteIn(i) PROVE IInv'
<1>1. Lost(outs[i]) \subseteq Protocols /\ UnlinkedVod(i, {}) \subseteq Protocols
  BY Sides DEF Lost, UnlinkedVod
<1>2. AllUnlinked(i)
  BY <1>1, Sides DEF DeleteIn, UnLinkAll, AllUnlinked, IInv, Graph, LinksMutual, TypeOK
<1>3. PICK ended \in SUBSET (outs[i] \ Kept) : alive' = alive \ ({i} \cup ended)
  BY DEF DeleteIn
<1> QED
  BY <1>2, <1>3, AllUnlinkedGraph DEF DeleteIn

LEMMA OutDiesGraph ==
    ASSUME IInv, NEW o \in Outs \ Writers, OutDies(o) PROVE IInv'
<1> USE Sides
<1> DEFINE i == inOf[o]
<1>1. /\ alive' = alive \ {o} /\ loop' = Unfed(o) /\ UNCHANGED <<used, watched, served>>
      /\ IF i = NULL THEN UNCHANGED <<outs, inOf, told, doomed>> ELSE UnLink(o)
  BY DEF OutDies
<1>2. /\ loop'.in = loop.in /\ loop'.at \in {loop.at, NULL} \ {o} /\ loop'.left \subseteq loop.left \ {o}
      /\ loop' \in [in : Ins \cup {NULL}, at : Outs \cup {NULL}, left : SUBSET Outs,
                    over : BOOLEAN, met : SUBSET Outs]
      /\ loop'.met = loop.met /\ (loop.over => loop'.over)
      /\ \/ loop'.over = loop.over /\ loop'.left = loop.left \ {o}
         \/ i = loop.in /\ loop.in \in EdgePulls
  BY <1>1 DEF Unfed, IInv, Graph, LinksMutual, TypeOK
<1>3. CASE i = NULL
  <2>1. UNCHANGED <<outs, inOf, told, doomed>> /\ \A j \in Ins : o \notin outs[j]
    BY <1>1, <1>3 DEF IInv, Graph, LinksMutual
  <2>2. LinksMutual' /\ ToldTruly'
    BY <1>1, <1>2, <2>1 DEF IInv, Graph, LinksMutual, TypeOK, ToldTruly, Living
  <2>3. NoDanglingLink' /\ WritersUnfed'
    BY <1>1, <1>2, <1>3, <2>1
    DEF IInv, Graph, LinksMutual, TypeOK, NoDanglingLink, WritersUnfed, Living
  <2>4. UnusedEnd'
    BY <1>1, <2>1 DEF IInv, UnusedEnd, UnusedPullsEnd, OutputsEnd, IsEnqueueForDelete
  <2>5. Turns'
    BY <1>2, <1>3, <2>1 DEF IInv, Graph, LinksMutual, TypeOK, Turns, Idle
  <2> QED
    BY <1>1, <2>2, <2>3, <2>4, <2>5 DEF IInv, Graph
<1>4. CASE i # NULL
  <2> DEFINE rest == outs[i] \ {o}
  <2>1. i \in Ins /\ o \in outs[i]
    BY <1>4 DEF IInv, Graph, LinksMutual, TypeOK
  <2>2. /\ outs' = [outs EXCEPT ![i] = rest]
        /\ inOf' = [inOf EXCEPT ![o] = NULL]
        /\ told' = [told EXCEPT ![o] = "detached"]
        /\ doomed' = doomed \cup Lost({o}) \cup Crushed(i) \cup UnlinkedVod(i, rest)
    BY <1>1, <1>4 DEF UnLink
  <2>3. doomed' \subseteq Protocols
    <3>1. Lost({o}) \subseteq Protocols
      BY DEF Lost
    <3>2. Crushed(i) \subseteq {Proto[i]} /\ UnlinkedVod(i, rest) \subseteq {Proto[i]}
      BY DEF Crushed, UnlinkedVod
    <3>3. doomed \subseteq Protocols
      BY DEF IInv, Graph, LinksMutual, TypeOK
    <3>4. Proto[i] \in Protocols
      BY <2>1
    <3> HIDE DEF i, rest
    <3> QED
      BY <2>2, <3>1, <3>2, <3>3, <3>4
  <2>4. TypeOK'
    BY <1>1, <1>2, <2>1, <2>2, <2>3 DEF IInv, Graph, LinksMutual, TypeOK
  <2>5. LinksMutual' /\ ToldTruly'
    <3>1. ASSUME NEW q \in Outs \ Writers PROVE told'[q] = "attached" <=> inOf'[q] # NULL
      BY <2>2, <3>1 DEF IInv, Graph, LinksMutual, TypeOK, ToldTruly
    <3>2. ASSUME NEW q \in Outs \ Writers, NEW j \in Ins PROVE q \in outs'[j] <=> inOf'[q] = j
      <4>1. CASE q = o
        BY <2>1, <2>2, <4>1 DEF IInv, Graph, LinksMutual, TypeOK
      <4>2. CASE q # o
        BY <2>1, <2>2, <4>2 DEF IInv, Graph, LinksMutual, TypeOK
      <4> QED
        BY <4>1, <4>2
    <3> QED
      BY <2>4, <3>1, <3>2 DEF LinksMutual, ToldTruly
  <2>6. NoDanglingLink' /\ WritersUnfed'
    BY <1>1, <1>2, <2>1, <2>2
    DEF IInv, Graph, LinksMutual, TypeOK, NoDanglingLink, WritersUnfed, Living
  <2>7. rest = {} /\ i \in EdgePulls \cup (Vod \ watched) => Proto[i] \in doomed'
    BY <2>1, <2>2, LastConsumer DEF IInv, Graph, LinksMutual, Crushed, UnlinkedVod
  <2>8. UnusedEnd'
    BY <1>1, <2>1, <2>2, <2>7
    DEF IInv, Graph, LinksMutual, TypeOK, UnusedEnd, UnusedPullsEnd, OutputsEnd, IsEnqueueForDelete
  <2>9. Turns'
    <3>1. CASE loop.in = i
      <4>1. \/ loop'.over /\ loop.in \in EdgePulls /\ loop'.left = {}
            \/ loop'.over = loop.over /\ loop'.left = loop.left \ {o}
        BY <1>1, <3>1 DEF Unfed, IInv, Graph, LinksMutual, TypeOK
      <4>2. outs'[i] = outs[i] \ {o}
        BY <2>1, <2>2 DEF IInv, Graph, LinksMutual, TypeOK
      <4> QED
        BY <1>2, <3>1, <4>1, <4>2 DEF IInv, Turns, Idle
    <3>2. CASE loop.in # i
      BY <1>2, <2>1, <2>2, <2>4, <3>2 DEF IInv, Graph, LinksMutual, TypeOK, NoDanglingLink, Turns, Idle
    <3> QED
      BY <3>1, <3>2
  <2> QED
    BY <1>1, <2>5, <2>6, <2>8, <2>9 DEF IInv, Graph
<1> QED
  BY <1>3, <1>4

-----------------------------------------------------------------------------
LEMMA InitInv == Init => IInv
BY Sides DEF Init, IInv, Graph, LinksMutual, TypeOK, NoDanglingLink, WritersUnfed, ToldTruly,
             UnusedEnd, UnusedPullsEnd, OutputsEnd, Turns, Idle, Walk, NoLoop, Living

\* The steps that leave the links alone; the loop may move to a stream it has
\* not met, or end.
LEMMA LoopGraph ==
    ASSUME IInv, UNCHANGED <<alive, used, outs, inOf, told, watched, served>>,
           doomed \subseteq doomed', doomed' \subseteq Protocols,
           loop' = loop \/ MoveNext \/ loop' = NoLoop
    PROVE  IInv'
<1>1. /\ loop' \in [in : Ins \cup {NULL}, at : Outs \cup {NULL}, left : SUBSET Outs,
                    over : BOOLEAN, met : SUBSET Outs]
      /\ loop'.in \in {loop.in, NULL}
      /\ (loop'.left \cup {loop'.at}) \subseteq (loop.left \cup {loop.at, NULL})
      /\ Turns'
  <2>1. CASE loop' = loop
    BY <2>1 DEF IInv, Graph, LinksMutual, TypeOK, Turns, Idle
  <2>2. CASE loop' = NoLoop
    BY <2>2 DEF NoLoop, Walk, Turns, Idle
  <2>3. ASSUME NEW o \in loop.left, loop' = Walk(loop.in, o, loop.left \ {o}, loop.met \cup {o})
        PROVE  /\ loop' \in [in : Ins \cup {NULL}, at : Outs \cup {NULL}, left : SUBSET Outs,
                             over : BOOLEAN, met : SUBSET Outs]
               /\ loop'.in = loop.in /\ loop.in # NULL /\ ~loop.over /\ ~loop'.over
               /\ loop'.left = loop.left \ {o} /\ loop'.at = o /\ loop'.met = loop.met \cup {o}
    BY <2>3 DEF Walk, IInv, Graph, LinksMutual, TypeOK, Turns, Idle
  <2>4. MoveNext /\ loop' # NoLoop => Turns'
    BY <2>3 DEF MoveNext, IInv, Turns, Idle
  <2> QED
    BY <2>1, <2>2, <2>3, <2>4 DEF MoveNext
<1>2. LinksMutual' /\ ToldTruly'
  BY <1>1 DEF IInv, Graph, LinksMutual, TypeOK, ToldTruly, Living
<1>3. NoDanglingLink' /\ WritersUnfed'
  BY <1>1, Sides DEF IInv, Graph, NoDanglingLink, WritersUnfed, Living
<1>4. UnusedEnd'
  BY DEF IInv, UnusedEnd, UnusedPullsEnd, OutputsEnd, IsEnqueueForDelete
<1> QED
  BY <1>1, <1>2, <1>3, <1>4 DEF IInv, Graph

LEMMA StepInv == IInv /\ [Next]_vars => IInv'
<1> SUFFICES ASSUME IInv, [Next]_vars PROVE IInv'
  OBVIOUS
<1> USE Sides
<1>1. ASSUME NEW s \in Streams, NewStream(s) PROVE IInv'
  <2>1. LinksMutual' /\ ToldTruly'
    BY <1>1 DEF NewStream, IInv, Graph, LinksMutual, TypeOK, ToldTruly, Living
  <2>2. NoDanglingLink' /\ WritersUnfed'
    BY <1>1 DEF NewStream, IInv, Graph, NoDanglingLink, WritersUnfed, Living
  <2>3. UnusedEnd'
    BY <1>1 DEF NewStream, IInv, Graph, UnusedEnd, UnusedPullsEnd, OutputsEnd, IsEnqueueForDelete
  <2> QED
    BY <1>1, <2>1, <2>2, <2>3 DEF NewStream, IInv, Graph, Turns, Idle
<1>2. ASSUME NEW i \in Ins, NEW o \in Outs, Link(i, o) PROVE IInv'
  BY <1>2, LinkGraph
<1>3. ASSUME NEW i \in Ins, TakenOver(i) PROVE IInv'
  BY <1>3, TakenOverGraph
<1>4. ASSUME NEW i \in Ins, DeleteIn(i) PROVE IInv'
  BY <1>4, DeleteInGraph
<1>5. ASSUME NEW i \in Ins, FeedBegins(i) PROVE IInv'
  <2>1. PICK o \in outs[i] : loop' = Walk(i, o, outs[i] \ {o}, {o})
    BY <1>5 DEF FeedBegins
  <2>2. UNCHANGED <<alive, used, outs, inOf, told, doomed, watched, served>> /\ i \in alive
    BY <1>5 DEF FeedBegins
  <2>3. LinksMutual' /\ ToldTruly'
    BY <2>1, <2>2 DEF IInv, Graph, LinksMutual, TypeOK, ToldTruly, Living, Walk
  <2>4. NoDanglingLink' /\ WritersUnfed'
    BY <2>1, <2>2 DEF IInv, Graph, LinksMutual, TypeOK, NoDanglingLink, WritersUnfed, Living, Walk
  <2>5. UnusedEnd'
    BY <2>2 DEF IInv, UnusedEnd, UnusedPullsEnd, OutputsEnd, IsEnqueueForDelete
  <2>6. Turns'
    BY <2>1, <2>2 DEF Turns, Idle, Walk
  <2> QED
    BY <2>2, <2>3, <2>4, <2>5, <2>6 DEF IInv, Graph
<1>6. ASSUME NEW i \in Ins, Subscribe(i) \/ Unsubscribe(i) PROVE IInv'
  <2>1. LinksMutual' /\ ToldTruly' /\ NoDanglingLink' /\ WritersUnfed'
    BY <1>6 DEF Subscribe, Unsubscribe, IInv, Graph, LinksMutual, TypeOK, ToldTruly, Living,
                NoDanglingLink, WritersUnfed
  <2>2. UnusedEnd'
    BY <1>6 DEF Subscribe, Unsubscribe, IInv, UnusedEnd, UnusedPullsEnd, OutputsEnd,
                IsEnqueueForDelete
  <2> QED
    BY <1>6, <2>1, <2>2 DEF Subscribe, Unsubscribe, IInv, Graph, Turns, Idle
<1>7. ASSUME NEW o \in Outs, DeleteOut(o) PROVE IInv'
  BY <1>7, OutDiesGraph DEF DeleteOut
<1>8. ASSUME NEW p \in Protocols, EnqueueForDelete(p) PROVE IInv'
  BY <1>8, LoopGraph DEF EnqueueForDelete, IInv, Graph, LinksMutual, TypeOK
<1>9. CASE FeedSucceeds
  BY <1>9, LoopGraph DEF FeedSucceeds, MoveOn, IInv, Graph, LinksMutual, TypeOK
<1>10. CASE FeedFails
  <2>1. loop.at \in Outs
    BY <1>10 DEF FeedFails, IInv, Graph, LinksMutual, TypeOK
  <2> QED
    BY <1>10, <2>1, LoopGraph DEF FeedFails, IInv, Graph, LinksMutual, TypeOK
<1>11. CASE PlaylistAdvances
  <2>1. loop.at \in Outs \ Writers
    BY <1>11 DEF PlaylistAdvances, IInv, Graph, LinksMutual, NoDanglingLink, TypeOK, WritersUnfed,
                 Streams
  <2> QED
    BY <1>11, <2>1, OutDiesGraph DEF PlaylistAdvances
<1>12. ASSUME NEW w \in Writers, NEW i \in Ins, MoovHeaderFails(w, i) PROVE IInv'
  <2>1. LinksMutual' /\ ToldTruly'
    BY <1>12 DEF MoovHeaderFails, IInv, Graph, LinksMutual, TypeOK, ToldTruly, Living, Streams
  <2>2. NoDanglingLink' /\ WritersUnfed'
    BY <1>12 DEF MoovHeaderFails, IInv, Graph, LinksMutual, TypeOK, NoDanglingLink, WritersUnfed,
                 Living
  <2>3. UnusedEnd'
    BY <1>12 DEF MoovHeaderFails, IInv, Graph, LinksMutual, TypeOK, UnusedEnd, UnusedPullsEnd,
                 OutputsEnd, IsEnqueueForDelete
  <2> QED
    BY <1>12, <2>1, <2>2, <2>3 DEF MoovHeaderFails, IInv, Graph, Turns, Idle
<1>13. CASE UNCHANGED vars
  BY <1>13, LoopGraph DEF vars, IInv, Graph, LinksMutual, TypeOK
<1> QED
  BY <1>1, <1>2, <1>3, <1>4, <1>5, <1>6, <1>7, <1>8, <1>9, <1>10, <1>11, <1>12, <1>13
  DEF Next, Loop

\* The inductive invariant holds in every state of every behaviour.
THEOREM Invariance == Spec => []IInv
BY InitInv, StepInv, PTL DEF Spec

-----------------------------------------------------------------------------
\* Both sides of a link agree, whoever links, unlinks, dies or takes over.
THEOREM LinksStayMutual == Spec => []LinksMutual
<1>1. IInv => LinksMutual
  BY DEF IInv, Graph
<1> QED
  BY <1>1, Invariance, PTL

\* No stream and no running loop keeps a pointer to a deleted stream.
THEOREM NothingDangles == Spec => []NoDanglingLink
<1>1. IInv => NoDanglingLink
  BY DEF IInv, Graph
<1> QED
  BY <1>1, Invariance, PTL

\* A pull ends with its last consumer, and a push with its source.
THEOREM NothingUnused == Spec => []UnusedEnd
<1>1. IInv => UnusedEnd
  BY DEF IInv
<1> QED
  BY <1>1, Invariance, PTL

\* An out stream that leaves never takes a pull with it that feeds others.
THEOREM OthersKeepPull == Spec => ConsumersKeepPull
<1> USE Sides
<1> DEFINE Spared(o, i) ==
        inOf[o] = i /\ inOf'[o] = NULL /\ outs'[i] # {} /\ Proto[i] # Proto[o]
          => (IsEnqueueForDelete(i)' => IsEnqueueForDelete(i))
           Kept_ == \A o \in Outs, i \in Ins \cap alive' : Spared(o, i)
<1>1. ASSUME IInv, [Next]_vars PROVE Kept_
  <2> SUFFICES ASSUME NEW o \in Outs, NEW i \in Ins, i \in alive', inOf[o] = i, inOf'[o] = NULL,
                      outs'[i] # {}, Proto[i] # Proto[o], Proto[i] \in doomed'
               PROVE  Proto[i] \in doomed
    BY DEF IsEnqueueForDelete
  <2>1. TypeOK /\ i # NULL /\ (o \notin Writers => o \in outs[i]) /\ outs[i] \cap Writers = {}
    BY <1>1 DEF IInv, Graph, LinksMutual, WritersUnfed
  <2>2. ASSUME NEW q \in Outs \ Writers, OutDies(q) PROVE Proto[i] \in doomed
    <3>1. inOf[q] # NULL /\ UnLink(q) /\ q = o
      BY <2>1, <2>2 DEF OutDies, UnLink, TypeOK
    <3>2. /\ outs' = [outs EXCEPT ![i] = outs[i] \ {o}] /\ o \in outs[i]
          /\ doomed' = doomed \cup Lost({o}) \cup Crushed(i) \cup UnlinkedVod(i, outs[i] \ {o})
      BY <2>1, <3>1 DEF UnLink
    <3>3. outs[i] \ {o} # {}
      BY <2>1, <3>2 DEF TypeOK
    <3>4. Crushed(i) = {} /\ UnlinkedVod(i, outs[i] \ {o}) = {}
      BY <2>1, <3>2, <3>3, LastConsumer DEF Crushed, UnlinkedVod
    <3> QED
      BY <3>2, <3>4 DEF Lost
  <2>3. ASSUME NEW j \in Ins, AllUnlinked(j) PROVE FALSE
    <3>1. o \in outs[j]
      BY <2>1, <2>3 DEF AllUnlinked
    <3>2. j = i
      BY <1>1, <3>1 DEF IInv, Graph, LinksMutual, TypeOK, WritersUnfed
    <3> QED
      BY <2>1, <2>3, <3>2 DEF AllUnlinked, TypeOK
  <2>4. ASSUME NEW j \in Ins, TakenOver(j) \/ DeleteIn(j) PROVE FALSE
    <3>1. Lost(outs[j]) \subseteq Protocols /\ UnlinkedVod(j, {}) \subseteq Protocols
      BY DEF Lost, UnlinkedVod
    <3>2. AllUnlinked(j)
      BY <2>1, <2>4, <3>1 DEF TakenOver, DeleteIn, UnLinkAll, AllUnlinked, TypeOK
    <3> QED
      BY <2>3, <3>2
  <2>5. ASSUME NEW q \in Outs, DeleteOut(q) PROVE Proto[i] \in doomed
    BY <2>2, <2>5 DEF DeleteOut
  <2>6. CASE PlaylistAdvances
    <3>1. loop.at \in Outs \ Writers
      BY <1>1, <2>6 DEF PlaylistAdvances, IInv, Graph, LinksMutual, NoDanglingLink, TypeOK,
                        WritersUnfed, Streams
    <3> QED
      BY <2>2, <2>6, <3>1 DEF PlaylistAdvances
  <2>7. ASSUME NEW j \in Ins, NEW q \in Outs, Link(j, q) PROVE FALSE
    BY <2>1, <2>7 DEF Link, Linked, TypeOK
  <2>8. ASSUME NEW w \in Writers, NEW j \in Ins, MoovHeaderFails(w, j) PROVE FALSE
    BY <2>1, <2>8 DEF MoovHeaderFails, TypeOK
  <2>9. CASE inOf' = inOf
    BY <2>1, <2>9
  <2> QED
    BY <1>1, <2>4, <2>5, <2>6, <2>7, <2>8, <2>9
    DEF Next, Loop, vars, NewStream, FeedBegins, Subscribe, Unsubscribe, EnqueueForDelete,
        FeedSucceeds, MoveOn, FeedFails
<1>2. IInv /\ [Next]_vars => [Kept_]_vars
  BY <1>1
<1> QED
  BY <1>2, Invariance, PTL DEF Spec, ConsumersKeepPull

\* When a feeding loop ends, all out streams the in stream then has had their
\* turn in it, or the in stream is enqueued, or it is an edge's pull that lost
\* a consumer in the loop.
THEOREM ConsumersHaveTurns == Spec => EveryConsumerMet
<1> USE Sides
<1> DEFINE Met == ~Idle /\ Idle' =>
                    \/ outs[loop.in] \subseteq loop.met
                    \/ Proto[loop.in] \in doomed'
                    \/ loop.over /\ loop.in \in EdgePulls
<1>1. ASSUME IInv, [Next]_vars PROVE Met
  <2> SUFFICES ASSUME ~Idle, Idle' PROVE Met
    OBVIOUS
  <2>1. loop.in # NULL /\ loop'.in = NULL
    BY DEF Idle
  <2>2. CASE MoveNext
    <3>1. loop.left = {}
      BY <2>1, <2>2 DEF MoveNext, Walk
    <3> QED
      BY <1>1, <3>1 DEF IInv, Turns
  <2>3. CASE FeedFails
    <3>1. CASE Proto[loop.in] = Proto[loop.at]
      BY <2>3, <3>1 DEF FeedFails
    <3>2. CASE Proto[loop.in] # Proto[loop.at]
      BY <2>2, <2>3, <3>2 DEF FeedFails, SameProtocol
    <3> QED
      BY <3>1, <3>2
  <2>4. ASSUME NEW i \in Ins, NEW o \in Outs, Link(i, o) PROVE FALSE
    BY <1>1, <2>1, <2>4 DEF Link, Linked, IInv, Graph, LinksMutual, TypeOK
  <2>5. ASSUME NEW o \in Outs, OutDies(o) PROVE FALSE
    BY <1>1, <2>1, <2>5 DEF OutDies, Unfed, IInv, Graph, LinksMutual, TypeOK
  <2>6. CASE PlaylistAdvances
    <3>1. loop.at \in Outs
      BY <1>1, <2>6 DEF PlaylistAdvances, IInv, Graph, LinksMutual, TypeOK, Streams
    <3> QED
      BY <2>5, <2>6, <3>1 DEF PlaylistAdvances
  <2> QED
    BY <1>1, <2>1, <2>2, <2>3, <2>4, <2>5, <2>6
    DEF Next, Loop, vars, NewStream, TakenOver, DeleteIn, DeleteOut, FeedBegins, Subscribe,
        Unsubscribe, EnqueueForDelete, FeedSucceeds, MoveOn, MoovHeaderFails, Idle
<1>2. IInv /\ [Next]_vars => [Met]_vars
  BY <1>1
<1> QED
  BY <1>2, Invariance, PTL DEF Spec, EveryConsumerMet
=============================================================================
