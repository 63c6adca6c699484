-------------------------- MODULE LinkedListProofs --------------------------
(***************************************************************************)
(* Proofs about LinkedList, for any set of keys: the pointers are a chain, *)
(* the cursor is where a loop needs it, and the list implements            *)
(* ListTraversal.                                                          *)
(***************************************************************************)
EXTENDS LinkedList, TLAPS

IInv == TypeOK /\ Chained /\ AheadOfCursor /\ BehindCursor

LEMMA InitHolds == Init => IInv
  <1> SUFFICES ASSUME Init PROVE IInv
    OBVIOUS
  <1>1. prev \in [Keys -> Link] /\ next \in [Keys -> Link] /\ rank \in [Keys -> Int]
    BY DEF Init, Link
  <1>2. denyNext \in BOOLEAN /\ denyPrev \in BOOLEAN /\ owed \in BOOLEAN
    BY DEF Init
  <1>3. TypeOK
    BY <1>1, <1>2 DEF Init, TypeOK
  <1>4. Chained /\ AheadOfCursor /\ BehindCursor
    BY DEF Init, Chained, AheadOfCursor, BehindCursor
  <1> QED BY <1>3, <1>4 DEF IInv

\* Between a node and its neighbour there is nothing.
LEMMA Neighbours ==
  ASSUME TypeOK, Chained, NEW k \in nodes, NEW m \in nodes
  PROVE  /\ rank[k] \in Int /\ rank[m] \in Int
         /\ rank[m] > rank[k] => /\ next[k] \in nodes /\ rank[next[k]] \in Int
                                 /\ rank[m] > rank[next[k]] \/ m = next[k]
         /\ rank[m] < rank[k] => /\ prev[k] \in nodes /\ rank[prev[k]] \in Int
                                 /\ rank[m] <= rank[prev[k]]
  <1>1. rank[k] \in Int /\ rank[m] \in Int
    BY DEF TypeOK
  <1>2. ASSUME rank[m] > rank[k]
        PROVE next[k] \in nodes /\ (rank[m] > rank[next[k]] \/ m = next[k])
    <2>1. next[k] \in nodes
      BY <1>1, <1>2 DEF Chained, TypeOK
    <2>2. ~(rank[k] < rank[m] /\ rank[m] < rank[next[k]])
      BY <2>1, ListAssumption DEF Chained, TypeOK
    <2>3. rank[m] = rank[next[k]] => m = next[k]
      BY <2>1 DEF Chained
    <2> QED BY <1>1, <1>2, <2>1, <2>2, <2>3 DEF TypeOK
  <1>3. ASSUME rank[m] < rank[k]
        PROVE prev[k] \in nodes /\ rank[m] <= rank[prev[k]]
    <2>1. prev[k] \in nodes /\ next[prev[k]] = k
      BY <1>1, <1>3 DEF Chained, TypeOK
    <2>2. ~(rank[prev[k]] < rank[m] /\ rank[m] < rank[k])
      BY <2>1, ListAssumption DEF Chained, TypeOK
    <2> QED BY <1>1, <1>3, <2>1, <2>2 DEF TypeOK
  <1> QED BY <1>1, <1>2, <1>3 DEF TypeOK

LEMMA Rewired ==
  ASSUME NEW f \in [Keys -> Link], NEW k, NEW a \in Link, NEW j, NEW b \in Link
  PROVE  [f EXCEPT ![k] = a, ![j] = b] \in [Keys -> Link]
  BY DEF Link

\* A new last node: the rank after the last one, whatever the cursor does.
LEMMA AddTailHolds == ASSUME IInv, NEW k \in Keys, AddTail(k) PROVE IInv'
  <1> USE ListAssumption DEF IInv, AddTail, RankAt, cursor, loop
  <1>1. TypeOK'
    <2>1. (prev \in [Keys -> Link] /\ next \in [Keys -> Link])'
      <3>1. head \in Link /\ tail \in Link /\ k \in Link /\ NULL \in Link
        BY DEF TypeOK, Link
      <3> QED BY <3>1, Rewired DEF TypeOK
    <2>2. (denyNext \in BOOLEAN /\ denyPrev \in BOOLEAN /\ owed \in BOOLEAN)'
      BY DEF TypeOK
    <2>3. (rank \in [Keys -> Int])'
      BY DEF TypeOK, Ranks
    <2> QED BY <2>1, <2>2, <2>3 DEF TypeOK
  <1>2. Chained'
    BY DEF TypeOK, Link, Chained, Ranks
  <1>3. AheadOfCursor' /\ BehindCursor'
    BY DEF TypeOK, Link, Ranks, AheadOfCursor, BehindCursor
  <1> QED BY <1>1, <1>2, <1>3

LEMMA AddHeadHolds == ASSUME IInv, NEW k \in Keys, AddHead(k) PROVE IInv'
  <1> USE ListAssumption DEF IInv, AddHead, RankAt, cursor, loop
  <1>1. TypeOK'
    <2>1. (prev \in [Keys -> Link] /\ next \in [Keys -> Link])'
      <3>1. head \in Link /\ tail \in Link /\ k \in Link /\ NULL \in Link
        BY DEF TypeOK, Link
      <3> QED BY <3>1, Rewired DEF TypeOK
    <2>2. (denyNext \in BOOLEAN /\ denyPrev \in BOOLEAN /\ owed \in BOOLEAN)'
      BY DEF TypeOK
    <2>3. (rank \in [Keys -> Int])'
      BY DEF TypeOK, Ranks
    <2> QED BY <2>1, <2>2, <2>3 DEF TypeOK
  <1>2. Chained'
    BY DEF TypeOK, Link, Chained, Ranks
  <1>3. AheadOfCursor' /\ BehindCursor'
    BY DEF TypeOK, Link, Ranks, AheadOfCursor, BehindCursor
  <1> QED BY <1>1, <1>2, <1>3

\* The neighbours of a removed node become neighbours; the cursor steps to one
\* of them, or stays.
LEMMA RemoveHolds == ASSUME IInv, NEW k \in Keys, Remove(k) PROVE IInv'
  <1> USE ListAssumption DEF IInv, Remove, Unhook, RemoveCursor
  <1>1. TypeOK'
    BY DEF TypeOK, Link, Chained
  <1>2. Chained'
    BY DEF TypeOK, Link, Chained
  <1>3. AheadOfCursor'
    <2>1. CASE current # k
      BY <2>1 DEF TypeOK, Link, Chained, AheadOfCursor, Disturbs
    <2>2. CASE current = k /\ prev[k] # NULL
      <3>1. current' = prev[k] /\ prev[k] \in nodes /\ rank[prev[k]] < rank[k]
        BY <2>2 DEF Chained, TypeOK, Link
      <3>2. SUFFICES ASSUME owed, NEW m \in unmet \ {k} PROVE rank[m] > rank[prev[k]]
        BY <2>2, <3>1, ListAssumption DEF AheadOfCursor, TypeOK
      <3>3. m \in nodes /\ rank[m] > rank[k]
        BY <2>2, <3>2 DEF AheadOfCursor, TypeOK
      <3> QED BY <3>1, <3>3 DEF TypeOK
    <2>3. CASE current = k /\ prev[k] = NULL
      <3>1. ASSUME owed, NEW m \in unmet \ {k}
            PROVE  next[k] \in nodes \ {k} /\ (rank[m] > rank[next[k]] \/ m = next[k])
        <4>1. k \in nodes /\ m \in nodes /\ current # NULL /\ m # current
          BY <2>3, <3>1 DEF TypeOK
        <4> HIDE DEF Remove, Unhook, RemoveCursor
        <4>2. rank[m] > rank[k]
          BY <2>3, <3>1, <4>1 DEF AheadOfCursor
        <4>3. next[k] \in nodes /\ (rank[m] > rank[next[k]] \/ m = next[k])
          BY <4>1, <4>2, Neighbours
        <4>4. rank[k] < rank[next[k]] /\ rank[k] \in Int
          BY <4>1, <4>3 DEF Chained, TypeOK
        <4> QED BY <4>3, <4>4
      <3>2. current' = next[k] /\ (next[k] # NULL => denyNext') /\ unmet' = unmet \ {k}
        BY <2>3
      <3>3. \A m \in nodes \ {k} : rank'[m] = rank[m]
        BY DEF TypeOK
      <3>4. SUFFICES ASSUME owed, NEW m \in unmet \ {k}
                     PROVE  /\ current' # NULL
                            /\ rank'[m] > rank'[current'] \/ (m = current' /\ denyNext')
        BY <3>2 DEF AheadOfCursor
      <3>5. next[k] \in nodes \ {k} /\ (rank[m] > rank[next[k]] \/ m = next[k])
        BY <3>1, <3>4
      <3>6. next[k] # NULL /\ m \in nodes \ {k}
        BY <3>4, <3>5 DEF TypeOK
      <3> QED BY <3>2, <3>3, <3>5, <3>6
    <2> QED BY <2>1, <2>2, <2>3
  <1>4. BehindCursor'
    <2>1. CASE current # k
      BY <2>1 DEF TypeOK, Link, Chained, BehindCursor
    <2>2. CASE current = k
      <3>1. ASSUME NEW m \in met \ {k}
            PROVE  prev[k] \in nodes \ {k} /\ rank[m] <= rank[prev[k]]
        <4>1. m \in nodes /\ k \in nodes /\ m # k
          BY <3>1 DEF TypeOK
        <4>2. rank[m] <= rank[k]
          BY <2>2, <3>1 DEF BehindCursor
        <4>3. rank[m] # rank[k]
          BY <4>1 DEF Chained
        <4> HIDE DEF Remove, Unhook, RemoveCursor
        <4>4. prev[k] \in nodes /\ rank[m] <= rank[prev[k]]
          BY <4>1, <4>2, <4>3, Neighbours DEF TypeOK
        <4>5. rank[prev[k]] # rank[k]
          BY <4>1, <4>4 DEF Chained, TypeOK
        <4> QED BY <4>4, <4>5
      <3>2. SUFFICES ASSUME NEW m \in met \ {k}
                     PROVE /\ current' # NULL /\ ~denyNext'
                           /\ rank'[m] <= rank'[current']
        BY DEF BehindCursor
      <3>3. current' = prev[k] /\ prev[k] # NULL /\ ~denyNext'
        BY <2>2, <3>1 DEF TypeOK
      <3>4. rank'[m] = rank[m] /\ rank'[prev[k]] = rank[prev[k]]
        BY <3>1 DEF TypeOK
      <3> QED BY <3>1, <3>3, <3>4
    <2> QED BY <2>1, <2>2
  <1> QED BY <1>1, <1>2, <1>3, <1>4

LEMMA MoveNextHolds == ASSUME IInv, MoveNext PROVE IInv'
  <1> USE ListAssumption DEF IInv, MoveNext, After, DenyForgotten, pointers
  <1>1. TypeOK'
    <2>1. current' \in nodes \cup {NULL}
      BY DEF TypeOK, Link, Chained
    <2>2. (denyNext \in BOOLEAN /\ denyPrev \in BOOLEAN /\ owed \in BOOLEAN)'
      BY DEF TypeOK
    <2>3. (unmet \cup met)' \subseteq nodes
      BY <2>1 DEF TypeOK
    <2> QED BY <2>1, <2>2, <2>3 DEF TypeOK
  <1>2. Chained'
    BY DEF TypeOK, Link, Chained
  <1>3. AheadOfCursor'
    BY DEF TypeOK, Link, Chained, AheadOfCursor
  <1>4. BehindCursor'
    BY DEF TypeOK, Link, Chained, BehindCursor
  <1> QED BY <1>1, <1>2, <1>3, <1>4

\* The other moves and Clear start from an end of the list or give the loop up.
LEMMA MoveHolds ==
  ASSUME IInv, Clear \/ MoveHead \/ MoveTail \/ MovePrev \/ UNCHANGED vars PROVE IInv'
  <1> USE ListAssumption DEF IInv, TypeOK, Link, Chained, AheadOfCursor, BehindCursor
  <1>1. CASE Clear
    <2>1. (prev \in [Keys -> Link] /\ next \in [Keys -> Link] /\ rank \in [Keys -> Int])'
      BY <1>1 DEF Clear
    <2>2. TypeOK'
      BY <1>1, <2>1 DEF Clear
    <2>3. Chained' /\ AheadOfCursor' /\ BehindCursor'
      BY <1>1 DEF Clear
    <2> QED BY <2>2, <2>3
  <1>2. CASE MoveHead
    <2>1. TypeOK'
      BY <1>2 DEF MoveHead, pointers
    <2>2. Chained' /\ AheadOfCursor' /\ BehindCursor'
      BY <1>2 DEF MoveHead, pointers
    <2> QED BY <2>1, <2>2
  <1>3. CASE MoveTail
    <2>1. TypeOK'
      BY <1>3 DEF MoveTail, pointers
    <2>2. Chained' /\ AheadOfCursor' /\ BehindCursor'
      BY <1>3 DEF MoveTail, pointers
    <2> QED BY <2>1, <2>2
  <1>4. CASE MovePrev
    BY <1>4 DEF MovePrev, Before, pointers
  <1>5. CASE UNCHANGED vars
    BY <1>5 DEF vars, pointers, cursor, loop
  <1> QED BY <1>1, <1>2, <1>3, <1>4, <1>5

LEMMA Invariance == Spec => []IInv
  <1>1. Init => IInv
    BY InitHolds
  <1>2. IInv /\ [Next]_vars => IInv'
    BY AddTailHolds, AddHeadHolds, RemoveHolds, MoveNextHolds, MoveHolds DEF Next
  <1> QED BY <1>1, <1>2, PTL DEF Spec

\* Whatever is added, removed and traversed, every variable keeps its type:
\* head, tail and the cursor name nodes of the list (linkedlist.h, Remove).
THEOREM TypeCorrect == Spec => []TypeOK
  <1>1. IInv => TypeOK
    BY DEF IInv
  <1> QED BY <1>1, Invariance, PTL

\* The pointers of the list are one chain in the order of insertion.
THEOREM PointersChain == Spec => []Chained
  <1>1. IInv => Chained
    BY DEF IInv
  <1> QED BY <1>1, Invariance, PTL

\* The list is well formed: types and chain.
THEOREM StaysWellFormed == Spec => []WellFormed
BY TypeCorrect, PointersChain, PTL DEF WellFormed

\* What a loop has not met lies ahead of the cursor while it is owed.
THEOREM NothingSkipped == Spec => []AheadOfCursor
  <1>1. IInv => AheadOfCursor
    BY DEF IInv
  <1> QED BY <1>1, Invariance, PTL

\* What a loop has met lies behind the cursor.
THEOREM NothingRepeated == Spec => []BehindCursor
  <1>1. IInv => BehindCursor
    BY DEF IInv
  <1> QED BY <1>1, Invariance, PTL

LEMMA StepSimulates ==
  ASSUME IInv, [Next]_vars PROVE [Traversal!Next]_(Traversal!vars)
  <1> USE ListAssumption DEF Traversal!Next, Traversal!vars, IInv
  <1>1. ASSUME NEW k \in Keys, AddTail(k) PROVE Traversal!Add(k)
    BY <1>1 DEF AddTail, Traversal!Add, loop
  <1>2. ASSUME NEW k \in Keys, AddHead(k) PROVE Traversal!Add(k)
    BY <1>2 DEF AddHead, Traversal!Add, loop
  <1>3. ASSUME NEW k \in Keys, Remove(k) PROVE Traversal!Delete(k)
    BY <1>3 DEF Remove, Traversal!Delete, TypeOK, Disturbs
  <1>4. ASSUME Clear PROVE Traversal!DeleteAll
    BY <1>4 DEF Clear, Traversal!DeleteAll
  <1>5. ASSUME MoveHead PROVE Traversal!Begins
    <2>1. CASE nodes = {}
      BY <1>5, <2>1 DEF MoveHead, Traversal!Begins, pointers
    <2>2. CASE nodes # {}
      <3>1. head \in nodes
        BY <2>2 DEF Chained, TypeOK
      <3> QED BY <1>5, <2>2, <3>1 DEF MoveHead, Traversal!Begins, pointers
    <2> QED BY <2>1, <2>2
  <1>6. ASSUME MoveTail PROVE Traversal!Abandons
    BY <1>6 DEF MoveTail, Traversal!Abandons, pointers
  <1>7. ASSUME MovePrev PROVE Traversal!Abandons
    BY <1>7 DEF MovePrev, Traversal!Abandons, pointers
  <1>8. ASSUME MoveNext PROVE Traversal!Next
    <2>1. CASE current' = NULL
      <3>1. ASSUME owed, NEW m \in unmet PROVE FALSE
        <4>1. m \in nodes /\ current # NULL /\ ~denyNext /\ rank[m] > rank[current]
          BY <1>8, <2>1, <3>1 DEF MoveNext, AheadOfCursor, TypeOK
        <4>2. next[current] = NULL
          BY <1>8, <2>1, <4>1 DEF MoveNext, After
        <4> QED BY <4>1, <4>2 DEF Chained, TypeOK
      <3> QED BY <1>8, <2>1, <3>1 DEF MoveNext, Traversal!Ends, pointers
    <2>2. CASE current' # NULL
      <3>1. current' \in nodes \ met /\ current' \in Keys
        <4>1. CASE denyNext
          BY <1>8, <2>2, <4>1 DEF MoveNext, BehindCursor, TypeOK
        <4>2. CASE ~denyNext
          <5>1. current \in nodes /\ current' = next[current]
            BY <1>8, <2>2, <4>2 DEF MoveNext, After, TypeOK
          <5>2. next[current] \in nodes /\ rank[current] < rank[next[current]]
            BY <2>2, <5>1 DEF Chained
          <5>3. ASSUME next[current] \in met PROVE FALSE
            <6>1. rank[next[current]] <= rank[current]
              BY <5>3, Zenon DEF BehindCursor
            <6> QED BY <5>1, <5>2, <6>1 DEF TypeOK
          <5> QED BY <5>1, <5>2, <5>3 DEF TypeOK
        <4> QED BY <4>1, <4>2
      <3>2. Traversal!Meets(current')
        BY <1>8, <2>2, <3>1 DEF MoveNext, Traversal!Meets, pointers, TypeOK
      <3> QED BY <3>1, <3>2
    <2> QED BY <2>1, <2>2
  <1>9. CASE UNCHANGED vars
    BY <1>9 DEF vars, pointers, loop
  <1> QED BY <1>1, <1>2, <1>3, <1>4, <1>5, <1>6, <1>7, <1>8, <1>9 DEF Next

\* A loop over the list meets each element at most once, and misses none that
\* is there from its beginning to its end, unless its current head and then
\* another node are removed while it stands there.
THEOREM Refinement == Spec => Implements
  <1>1. Init => Traversal!Init
    BY DEF Init, Traversal!Init
  <1> QED BY <1>1, StepSimulates, Invariance, PTL DEF Spec, Implements, Traversal!Spec
=============================================================================
