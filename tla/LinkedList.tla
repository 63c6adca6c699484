----------------------------- MODULE LinkedList -----------------------------
(***************************************************************************)
(* utils/misc/linkedlist.h: the list with one cursor that holds the out    *)
(* streams of an in stream.  A node is known by its key; `rank' is no part *)
(* of the code, it is the order in which the nodes stand, so that "next"   *)
(* can be compared with something.  Callers are left open: any operation   *)
(* may come at any time, in the middle of a loop too.                      *)
(***************************************************************************)
EXTENDS Integers

CONSTANTS Keys, \* the keys nodes may have
          NULL,
          Span  \* bound: ranks lie in -Span..Span

ASSUME ListAssumption == NULL \notin Keys /\ Span \in Nat

VARIABLES nodes,    \* the keys in _allNodes
          prev, next,  \* pPrev and pNext of each node
          head, tail,  \* _pHead and _pTail
          current,     \* _pCurrent
          denyNext, denyPrev,
          rank,     \* ghost: where each node stands
          unmet,    \* ghost: there when the loop began, not met, not removed
          met,      \* ghost: met by the loop, not removed
          owed      \* ghost: the loop must still meet what is in `unmet'

pointers == <<nodes, prev, next, head, tail>>
cursor == <<current, denyNext, denyPrev>>
loop == <<unmet, met, owed>>
vars == <<pointers, cursor, rank, loop>>

Link == Keys \cup {NULL}
Ranks == -Span .. Span

TypeOK == /\ nodes \subseteq Keys /\ unmet \cup met \subseteq nodes
          /\ prev \in [Keys -> Link] /\ next \in [Keys -> Link]
          /\ head \in nodes \cup {NULL} /\ tail \in nodes \cup {NULL}
          /\ current \in nodes \cup {NULL}
          /\ denyNext \in BOOLEAN /\ denyPrev \in BOOLEAN /\ owed \in BOOLEAN
          /\ rank \in [Keys -> Int]

Init == /\ nodes = {} /\ unmet = {} /\ met = {} /\ owed = FALSE
        /\ prev = [k \in Keys |-> NULL] /\ next = prev
        /\ head = NULL /\ tail = NULL /\ current = NULL
        /\ denyNext = FALSE /\ denyPrev = FALSE
        /\ rank = [k \in Keys |-> 0]

(***************************************************************************)
(* Adding.                                                                 *)
(***************************************************************************)
RankAt(k, r) == r \in Ranks /\ rank' = [rank EXCEPT ![k] = r]

AddTail(k) ==
    /\ k \notin nodes
    /\ RankAt(k, IF tail = NULL THEN 0 ELSE rank[tail] + 1)
    /\ nodes' = nodes \cup {k}
    /\ next' = [next EXCEPT ![k] = NULL, ![tail] = k]
    /\ prev' = [prev EXCEPT ![k] = tail]
    /\ tail' = k
    /\ head' = IF tail = NULL THEN k ELSE head
    /\ UNCHANGED <<cursor, loop>>

AddHead(k) ==
    /\ k \notin nodes
    /\ RankAt(k, IF head = NULL THEN 0 ELSE rank[head] - 1)
    /\ nodes' = nodes \cup {k}
    /\ prev' = [prev EXCEPT ![k] = NULL, ![head] = k]
    /\ next' = [next EXCEPT ![k] = head]
    /\ head' = k
    /\ tail' = IF head = NULL THEN k ELSE tail
    /\ UNCHANGED <<cursor, loop>>

(***************************************************************************)
(* Removing: the cursor steps back, or forward with denyNext at the head.  *)
(***************************************************************************)
RemoveCursor_NoDeny(k) ==
    /\ denyNext' = FALSE /\ denyPrev' = FALSE
    /\ current' = IF current # k THEN current
                  ELSE IF prev[k] # NULL THEN prev[k] ELSE next[k]

RemoveCursor(k) ==
    /\ current' = IF current # k THEN current
                  ELSE IF prev[k] # NULL THEN prev[k] ELSE next[k]
    /\ denyPrev' = (current = k /\ prev[k] # NULL)
    /\ denyNext' = (current = k /\ prev[k] = NULL /\ next[k] # NULL)

Unhook_OneWay(k) ==
    /\ head' = IF prev[k] = NULL THEN next[k] ELSE head
    /\ tail' = IF next[k] = NULL THEN prev[k] ELSE tail
    /\ next' = [next EXCEPT ![prev[k]] = next[k], ![k] = NULL]
    /\ prev' = [prev EXCEPT ![k] = NULL]

Unhook(k) ==
    /\ head' = IF prev[k] = NULL THEN next[k] ELSE head
    /\ tail' = IF next[k] = NULL THEN prev[k] ELSE tail
    /\ next' = [next EXCEPT ![prev[k]] = next[k], ![k] = NULL]
    /\ prev' = [prev EXCEPT ![next[k]] = prev[k], ![k] = NULL]

\* What the code does not promise: a loop whose current head was removed
\* forgets that it stands on a node it has not met if another is removed.
Disturbs(k) == denyNext /\ k # current

Remove(k) ==
    /\ k \in nodes
    /\ nodes' = nodes \ {k}
    /\ Unhook(k)
    /\ RemoveCursor(k)
    /\ rank' = [rank EXCEPT ![k] = 0]
    /\ unmet' = unmet \ {k} /\ met' = met \ {k}
    /\ owed' = (owed /\ ~Disturbs(k))

Clear ==
    /\ nodes' = {} /\ head' = NULL /\ tail' = NULL
    /\ current' = NULL /\ denyNext' = FALSE /\ denyPrev' = FALSE
    /\ prev' = [k \in Keys |-> NULL] /\ next' = prev'
    /\ rank' = [k \in Keys |-> 0]
    /\ unmet' = {} /\ met' = {} /\ owed' = FALSE

(***************************************************************************)
(* Moving.  A loop is MoveHead, then MoveNext until it returns NULL.       *)
(***************************************************************************)
MoveHead ==
    /\ denyNext' = FALSE /\ denyPrev' = FALSE
    /\ current' = head
    /\ unmet' = nodes \ {head} /\ met' = nodes \cap {head}
    /\ owed' = (nodes # {})
    /\ UNCHANGED <<pointers, rank>>

MoveTail ==
    /\ denyNext' = FALSE /\ denyPrev' = FALSE
    /\ current' = tail
    /\ met' = {} /\ owed' = FALSE
    /\ UNCHANGED <<pointers, rank, unmet>>

After_StopsEarly == IF current = NULL \/ next[current] = tail THEN NULL
                    ELSE next[current]

After == IF current = NULL THEN NULL ELSE next[current]
Before == IF current = NULL THEN NULL ELSE prev[current]

DenyForgotten_Kept == denyNext' = denyNext

DenyForgotten == denyNext' = FALSE

MoveNext ==
    /\ current' = IF denyNext THEN current ELSE After
    /\ DenyForgotten
    /\ unmet' = IF current' = NULL THEN {} ELSE unmet \ {current'}
    /\ met' = IF current' = NULL THEN {} ELSE met \cup {current'}
    /\ owed' = (owed /\ current' # NULL)
    /\ UNCHANGED <<pointers, denyPrev, rank>>

\* No caller moves backwards: it ends what the loop was promised.
MovePrev ==
    /\ current' = IF denyPrev THEN current ELSE Before
    /\ denyPrev' = FALSE
    /\ met' = {} /\ owed' = FALSE
    /\ UNCHANGED <<pointers, denyNext, rank, unmet>>

Next == \/ \E k \in Keys : AddTail(k) \/ AddHead(k) \/ Remove(k)
        \/ Clear \/ MoveHead \/ MoveTail \/ MoveNext \/ MovePrev

Spec == Init /\ [][Next]_vars

(***************************************************************************)
(* Properties.                                                             *)
(***************************************************************************)
\* The pointers describe one chain through all the nodes, both ways, in the
\* order in which they were added (AddHead, AddTail, Remove).
Chained ==
    /\ head = NULL <=> nodes = {}
    /\ tail = NULL <=> nodes = {}
    /\ \A k \in nodes :
        /\ IF next[k] = NULL THEN k = tail
           ELSE /\ next[k] \in nodes /\ prev[next[k]] = k
                /\ rank[k] < rank[next[k]]
                /\ \A m \in nodes : ~(rank[k] < rank[m] /\ rank[m] < rank[next[k]])
        /\ IF prev[k] = NULL THEN k = head
           ELSE prev[k] \in nodes /\ next[prev[k]] = k
        /\ rank[k] >= rank[head] /\ rank[k] <= rank[tail]
        /\ \A m \in nodes : rank[m] = rank[k] => m = k

\* Both: the list is well formed at every step, inside the loops too.
WellFormed == TypeOK /\ Chained

\* While a loop owes them, what it has not met lies ahead of the cursor:
\* MoveNext cannot step over it, whatever was added or removed (Remove).
AheadOfCursor ==
    owed => IF current = NULL THEN unmet = {}
            ELSE \A k \in unmet : \/ rank[k] > rank[current]
                                  \/ k = current /\ denyNext

\* What it has met lies behind, or under the cursor if MoveNext will leave it.
BehindCursor ==
    \A k \in met : /\ current # NULL
                   /\ rank[k] <= rank[current]
                   /\ k = current => ~denyNext

\* The list implements the promise of a loop: each element once, none missed.
Traversal == INSTANCE ListTraversal WITH
                elements <- nodes, left <- unmet, met <- met, binding <- owed
Implements == Traversal!Spec
=============================================================================
