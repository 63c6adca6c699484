---------------------------- MODULE StreamGraph ----------------------------
(***************************************************************************)
(* The links between in and out streams (baseinstream.cpp,                 *)
(* baseoutstream.cpp, streamsmanager.cpp), what the router does when they  *)
(* end (originapplication.cpp, edgeapplication.cpp), and the loop that     *)
(* feeds the out streams of an in stream.  That loop is here what          *)
(* ListTraversal promises of it; LinkedList shows that it is.              *)
(***************************************************************************)
EXTENDS Naturals, FiniteSets

CONSTANTS Ins, Outs, Protocols, NULL,
          Proto,     \* the protocol each stream belongs to
          Writers,   \* moov writers: out streams linked in one direction
          Vod,       \* in streams that were pulled for a player (_isVod)
          EdgePulls, \* in streams an edge pulls from its origin
          Kept       \* out streams of a push, a recording or segments

Streams == Ins \cup Outs

ASSUME GraphAssumption ==
    /\ Ins \cap Outs = {} /\ NULL \notin Streams /\ IsFiniteSet(Outs)
    /\ Proto \in [Streams -> Protocols]
    /\ Writers \subseteq Outs /\ Kept \subseteq Outs \ Writers
    /\ Vod \subseteq Ins /\ EdgePulls \subseteq Ins

VARIABLES alive,    \* streams constructed and not deleted
          used,     \* ids are not given twice
          outs,     \* _outStreams
          inOf,     \* _pInStream
          told,     \* what an out stream was last told: attached or detached
          doomed,   \* protocols enqueued for delete
          watched,  \* VOD streams with a subscriber (_subscriberCount # 0)
          served,   \* ghost: streams that were linked
          loop      \* the feeding loop that runs

vars == <<alive, used, outs, inOf, told, doomed, watched, served, loop>>

\* The in stream, the out stream that is fed and those that come after it;
\* over: a count took the cursor to the end.  Ghost: met, those that had their
\* turn in this loop.
Walk(in, at, left, met) ==
    [in |-> in, at |-> at, left |-> left, over |-> FALSE, met |-> met]
NoLoop == Walk(NULL, NULL, {}, {})

TypeOK == /\ alive \subseteq used /\ used \subseteq Streams
          /\ outs \in [Ins -> SUBSET Outs] /\ inOf \in [Outs -> Ins \cup {NULL}]
          /\ told \in [Outs -> {"detached", "attached"}]
          /\ doomed \subseteq Protocols
          /\ watched \subseteq Vod /\ served \subseteq Streams
          /\ loop \in [in : Ins \cup {NULL}, at : Outs \cup {NULL}, left : SUBSET Outs,
                      over : BOOLEAN, met : SUBSET Outs]

Init == /\ alive = {} /\ used = {} /\ doomed = {} /\ watched = {} /\ served = {}
        /\ outs = [i \in Ins |-> {}] /\ inOf = [o \in Outs |-> NULL]
        /\ told = [o \in Outs |-> "detached"]
        /\ loop = NoLoop

Idle == loop.in = NULL
IsEnqueueForDelete(s) == Proto[s] \in doomed

(***************************************************************************)
(* Links.                                                                  *)
(***************************************************************************)
\* SetStreamsManager.  A protocol that is enqueued creates no streams.
NewStream(s) ==
    /\ s \notin used \cup Writers /\ ~IsEnqueueForDelete(s)
    /\ Idle \/ s \in Outs
    /\ alive' = alive \cup {s} /\ used' = used \cup {s}
    /\ watched' \in {watched, watched \cup ({s} \cap Vod)}
    /\ UNCHANGED <<outs, inOf, told, doomed, served, loop>>

\* Either side may be asked; callers ask for an out stream that is fresh or
\* that GetWaitingSubscribers returned, so one that is not linked.  One that
\* joins the list while it is walked is at its tail and is met, unless the
\* cursor is at the end already.
Linked(i, o) ==
    /\ i \in alive /\ o \in alive \ Writers /\ inOf[o] = NULL
    /\ outs' = [outs EXCEPT ![i] = @ \cup {o}]
    /\ told' = [told EXCEPT ![o] = "attached"]
    /\ served' = served \cup {i, o}
    /\ loop' = IF i = loop.in /\ ~loop.over THEN [loop EXCEPT !.left = @ \cup {o}] ELSE loop
    /\ UNCHANGED <<alive, used, doomed, watched>>

Link_OneWay(i, o) == Linked(i, o) /\ UNCHANGED inOf
Link(i, o) == Linked(i, o) /\ inOf' = [inOf EXCEPT ![o] = i]

\* SignalUnLinkingStreams, called while the links are still there: the origin
\* ends what it made for the stream, the edge counts who is left.
Lost_Ignored(S) == {}
Lost(S) == {Proto[o] : o \in S \cap Kept}

Crushed_NotCounted(i) == {Proto[j] : j \in {i} \cap EdgePulls}
Crushed(i) ==
    {Proto[j] : j \in {i} \cap {e \in EdgePulls : Cardinality(outs[e]) = 1}}

\* IsUnlinkedVod, after an out stream left.
UnlinkedVod(i, rest) ==
    {Proto[j] : j \in {i} \cap {v \in Vod \ watched : rest = {}}}

\* UnLink of both sides, asked of the out stream.
UnLink(o) ==
    LET i == inOf[o]
        rest == outs[i] \ {o}
    IN  /\ outs' = [outs EXCEPT ![i] = rest]
        /\ inOf' = [inOf EXCEPT ![o] = NULL]
        /\ told' = [told EXCEPT ![o] = "detached"]
        /\ doomed' = doomed \cup Lost({o}) \cup Crushed(i) \cup UnlinkedVod(i, rest)

\* Who is still fed when an out stream leaves.  The edge counts the consumers
\* with GetOutStreams, which takes the cursor to the end of the list.
Unfed_Kept(o) == loop

Unfed(o) ==
    LET counted == inOf[o] = loop.in /\ loop.in \in EdgePulls
    IN  [loop EXCEPT !.at = IF @ = o THEN NULL ELSE @,
                     !.left = IF counted THEN {} ELSE @ \ {o},
                     !.over = @ \/ counted]

\* UnLinkAll and the destructor of an in stream.
UnLinkAll(i) ==
    /\ outs' = [outs EXCEPT ![i] = {}]
    /\ inOf' = [o \in Outs |-> IF o \in outs[i] THEN NULL ELSE inOf[o]]
    /\ told' = [o \in Outs |-> IF o \in outs[i] THEN "detached" ELSE told[o]]
    /\ doomed' = doomed \cup Lost(outs[i])
         \cup (IF outs[i] = {} THEN {} ELSE UnlinkedVod(i, {}) \cup {Proto[j] : j \in {i} \cap EdgePulls})

\* A publisher takes the name of a pulled stream over.
TakenOver(i) ==
    /\ Idle /\ i \in alive /\ outs[i] # {}
    /\ outs' = [outs EXCEPT ![i] = {}]
    /\ inOf' = [o \in Outs |-> IF o \in outs[i] THEN NULL ELSE inOf[o]]
    /\ told' = [o \in Outs |-> IF o \in outs[i] THEN "detached" ELSE told[o]]
    /\ doomed' = doomed \cup {Proto[i]} \cup Lost(outs[i])
    /\ UNCHANGED <<alive, used, watched, served, loop>>

(***************************************************************************)
(* Deletes: by the sweep of the dead protocols, or at once.                *)
(***************************************************************************)
EnqueueForDelete(p) == /\ p \notin doomed
                       /\ doomed' = doomed \cup {p}
                       /\ UNCHANGED <<alive, used, outs, inOf, told, watched, served, loop>>

\* The sweep, or CloseStream on a connection that goes on.  The destructor
\* first tells the players that the stream is completed: those that a playlist
\* takes to its next item delete their out stream, as OutDies does; what the
\* next item links to this stream is unlinked with the rest.
DeleteIn(i) ==
    /\ Idle /\ i \in alive
    /\ UnLinkAll(i)
    /\ \E ended \in SUBSET (outs[i] \ Kept) : alive' = alive \ ({i} \cup ended)
    /\ watched' = watched \ {i}
    /\ UNCHANGED <<used, served, loop>>

\* The destructor of an out stream.
OutDies(o) ==
    /\ alive' = alive \ {o}
    /\ loop' = Unfed(o)
    /\ IF inOf[o] = NULL THEN UNCHANGED <<outs, inOf, told, doomed>>
       ELSE UnLink(o)
    /\ UNCHANGED <<used, watched, served>>

\* The sweep, or CloseStream on a connection that goes on.
DeleteOut(o) == Idle /\ o \in alive \ Writers /\ OutDies(o)

Subscribe(i) == /\ i \in (alive \cap Vod) \ watched
                /\ watched' = watched \cup {i}
                /\ UNCHANGED <<alive, used, outs, inOf, told, doomed, served, loop>>

Unsubscribe(i) ==
    /\ i \in alive \cap watched
    /\ watched' = watched \ {i}
    /\ doomed' = IF outs[i] = {} THEN doomed \cup {Proto[i]} ELSE doomed
    /\ UNCHANGED <<alive, used, outs, inOf, told, served, loop>>

(***************************************************************************)
(* The loop: MoveHead, FeedData for each out stream, MoveNext.             *)
(***************************************************************************)
FeedBegins(i) ==
    /\ Idle /\ i \in alive /\ ~IsEnqueueForDelete(i)
    /\ \E o \in outs[i] :
         loop' = Walk(i, o, outs[i] \ {o}, {o})
    /\ UNCHANGED <<alive, used, outs, inOf, told, doomed, watched, served>>

\* The loop goes on to an out stream it has not fed, or is over.
MoveNext == IF loop.left = {} THEN loop' = NoLoop
            ELSE \E o \in loop.left :
                    loop' = Walk(loop.in, o, loop.left \ {o}, loop.met \cup {o})

MoveOn == /\ MoveNext
          /\ UNCHANGED <<alive, used, outs, inOf, told, doomed, watched, served>>

\* It is skipped, FeedData succeeded, or it left the list meanwhile.
FeedSucceeds == ~Idle /\ MoveOn

\* FeedData returned false: it is enqueued; the loop ends if this enqueued
\* the in stream too.
SameProtocol_Always(i, o) == TRUE
SameProtocol(i, o) == Proto[i] = Proto[o]

FeedFails ==
    /\ ~Idle /\ loop.at # NULL /\ ~IsEnqueueForDelete(loop.at)
    /\ doomed' = doomed \cup {Proto[loop.at]}
    /\ IF SameProtocol(loop.in, loop.at) THEN loop' = NoLoop ELSE MoveNext
    /\ UNCHANGED <<alive, used, outs, inOf, told, watched, served>>

\* FeedData ends a playlist item: the next item deletes the out stream that
\* is being fed (CreateONS), and may link its own to the same in stream.
PlaylistAdvances == /\ ~Idle /\ loop.at \in alive
                    /\ OutDies(loop.at)

\* FeedData of a fragmented output: a writer that could not complete the
\* header stays linked to an in stream that does not know it.  (One that
\* completes it, or the initialization segment of DASH, unlinks itself.)
MoovHeaderFails(w, i) ==
    /\ ~Idle /\ loop.at \in alive
    /\ w \in Writers \ used /\ i \in alive
    /\ alive' = alive \cup {w} /\ used' = used \cup {w}
    /\ inOf' = [inOf EXCEPT ![w] = i]
    /\ told' = [told EXCEPT ![w] = "attached"]
    /\ UNCHANGED <<outs, doomed, watched, served, loop>>

Loop == \/ FeedSucceeds \/ FeedFails \/ PlaylistAdvances
        \/ \E w \in Writers, i \in Ins : MoovHeaderFails(w, i)

Next == \/ \E s \in Streams : NewStream(s)
        \/ \E i \in Ins, o \in Outs : Link(i, o)
        \/ \E i \in Ins : TakenOver(i) \/ DeleteIn(i) \/ FeedBegins(i)
                          \/ Subscribe(i) \/ Unsubscribe(i)
        \/ \E o \in Outs : DeleteOut(o)
        \/ \E p \in Protocols : EnqueueForDelete(p)
        \/ Loop

Spec == Init /\ [][Next]_vars

-----------------------------------------------------------------------------
Living(s) == s \in alive

\* Both sides of a link agree, and an out stream was last told what is true
\* (Link and UnLink of the two classes call each other).  Only a moov writer
\* is linked in one direction.
LinksMutual == /\ TypeOK
               /\ \A o \in Outs \ Writers :
                     /\ \A i \in Ins : o \in outs[i] <=> inOf[o] = i
                     /\ Living(o) => (told[o] = "attached" <=> inOf[o] # NULL)

\* No stream, and no running loop, keeps a pointer to one that was deleted,
\* whoever of the two is deleted first.
NoDanglingLink == /\ \A i \in Ins : \A o \in outs[i] : Living(i) /\ Living(o)
                  /\ \A o \in Outs \ Writers : inOf[o] # NULL => Living(o) /\ Living(inOf[o])
                  /\ loop.in # NULL => Living(loop.in)
                  /\ \A o \in (loop.left \cup {loop.at}) \ {NULL} : Living(o)

\* What exists for its consumers ends with the last of them: a pull of the
\* edge, and a stream pulled for a player that nobody waits for.
UnusedPullsEnd == \A i \in alive \cap served \cap (EdgePulls \cup (Vod \ watched)) :
                     outs[i] = {} => IsEnqueueForDelete(i)

\* A push, a recording and segments end when they lose their source.
OutputsEnd == \A o \in alive \cap served \cap Kept :
                 inOf[o] = NULL => IsEnqueueForDelete(o)

\* Neither side outlives what it was there for.
UnusedEnd == UnusedPullsEnd /\ OutputsEnd

\* An out stream that leaves never takes a pull with it that feeds others.
ConsumersKeepPull ==
    [][\A o \in Outs, i \in Ins \cap alive' :
          inOf[o] = i /\ inOf'[o] = NULL /\ outs'[i] # {} /\ Proto[i] # Proto[o]
            => (IsEnqueueForDelete(i)' => IsEnqueueForDelete(i))]_vars

\* When a feeding loop ends, every out stream the in stream has then had its
\* turn in it: those that joined, left or failed meanwhile cost the others
\* nothing.  Two exceptions: the in stream is itself enqueued, or it is a pull
\* of an edge that lost a consumer in the loop (the count ends the walk).
EveryConsumerMet ==
    [][~Idle /\ Idle' =>
          \/ outs[loop.in] \subseteq loop.met
          \/ Proto[loop.in] \in doomed'
          \/ loop.over /\ loop.in \in EdgePulls]_vars
=============================================================================
