------------------------ MODULE ProtocolManagerProofs ------------------------
(***************************************************************************)
(* What holds of ProtocolManager for any number of protocols and handlers. *)
(***************************************************************************)
EXTENDS ProtocolManager, FiniteSetTheorems, WellFoundedInduction, TLAPS

------------------------------------------------------------------------------
(* Least elements, and walks.                                              *)

LEMMA LeastNatural ==
    ASSUME NEW S \in SUBSET Nat, S # {}
    PROVE  \E n \in S : \A m \in S : n <= m
<1> DEFINE R == OpToRel(<, Nat)
<1>1. IsWellFoundedOn(R, Nat)
  BY NatLessThanWellFounded
<1>2. PICK n \in S : \A m \in S : <<m, n>> \notin R
  BY <1>1, WFMin
<1>3. \A m, k \in Nat : m < k => <<m, k>> \in R
  BY DEF OpToRel
<1> HIDE DEF R
<1>4. \A m \in S : ~ (m < n)
  BY <1>2, <1>3, Zenon
<1> QED
  BY <1>4

LEMMA MinOf ==
    ASSUME NEW S \in SUBSET Nat, S # {}
    PROVE  Min(S) \in S
BY LeastNatural DEF Min

\* Induction up to MaxProtocols: a set of counterexamples has a first one.
LEMMA First ==
    ASSUME NEW B, B \subseteq 0 .. MaxProtocols, B # {}
    PROVE  \E n \in B : n = 0 \/ (n \in 1 .. MaxProtocols /\ n - 1 \in (0 .. MaxProtocols) \ B)
<1>1. MaxProtocols \in Nat
  BY BoundAssumption DEF BoundAssumption
<1>2. B \in SUBSET Nat
  BY <1>1
<1>3. PICK n \in B : \A m \in B : n <= m
  BY <1>2, LeastNatural
<1> QED BY <1>1, <1>3

Closed(link, S) == \A q \in S : link[q] = NoProtocol \/ link[q] \in S

\* The recursion of the walk as a function that exists.
LEMMA Steps ==
    ASSUME NEW link \in [Protocols -> Protocols \cup {NoProtocol}], NEW p \in Protocols
    PROVE  \E f \in [0 .. MaxProtocols -> SUBSET Protocols] :
              /\ f[0] = {p}
              /\ \A n \in 1 .. MaxProtocols :
                   f[n] = f[n - 1] \cup ({link[q] : q \in f[n - 1]} \ {NoProtocol})
              /\ Along(link, p) = f[MaxProtocols]
<1> DEFINE Grown(s) == s \cup ({link[q] : q \in s} \ {NoProtocol})
           IsWalk(f, m) == /\ f \in [0 .. m -> SUBSET Protocols]
                           /\ f[0] = {p}
                           /\ \A n \in 1 .. m : f[n] = Grown(f[n - 1])
           Missing == {m \in Nat : ~ \E f : IsWalk(f, m)}
<1>1. \A s \in SUBSET Protocols : Grown(s) \in SUBSET Protocols
  OBVIOUS
<1>2. Missing = {}
  <2> SUFFICES ASSUME Missing # {} PROVE FALSE
    OBVIOUS
  <2>1. PICK m \in Missing : \A k \in Missing : m <= k
    BY LeastNatural
  <2>2. m # 0
    <3>1. IsWalk([n \in 0 .. 0 |-> {p}], 0)
      OBVIOUS
    <3> QED BY <3>1
  <2> HIDE DEF IsWalk
  <2>3. m \in Nat /\ m - 1 \in Nat
    BY <2>1, <2>2
  <2>4. PICK f : IsWalk(f, m - 1)
    BY <2>1, <2>3
  <2> USE DEF IsWalk
  <2> DEFINE g == [n \in 0 .. m |-> IF n = m THEN Grown(f[m - 1]) ELSE f[n]]
  <2>5. f[m - 1] \in SUBSET Protocols
    BY <2>3, <2>4
  <2>6. g \in [0 .. m -> SUBSET Protocols]
    BY <2>3, <2>4, <2>5, <1>1
  <2>7. g[0] = {p}
    BY <2>2, <2>3, <2>4
  <2>8. ASSUME NEW n \in 1 .. m PROVE g[n] = Grown(g[n - 1])
    <3> HIDE DEF Grown
    <3>1. n \in 0 .. m /\ n - 1 \in 0 .. m /\ n - 1 # m /\ n - 1 \in 0 .. m - 1
      BY <2>3
    <3>2. CASE n = m BY <3>1, <3>2
    <3>3. CASE n # m
      <4>1. n \in 1 .. m - 1 BY <3>3, <2>3
      <4> QED BY <4>1, <3>1, <3>3, <2>4
    <3> QED BY <3>2, <3>3
  <2> QED BY <2>6, <2>7, <2>8
<1>3. PICK f : IsWalk(f, MaxProtocols)
  BY <1>2, BoundAssumption DEF BoundAssumption
<1> DEFINE body(g) == [n \in 0 .. MaxProtocols |-> IF n = 0 THEN {p} ELSE Grown(g[n - 1])]
<1>4. f = body(f)
  <2> HIDE DEF Grown
  <2>1. \A n \in 0 .. MaxProtocols : f[n] = IF n = 0 THEN {p} ELSE Grown(f[n - 1])
    BY <1>3
  <2> QED BY <1>3, <2>1
<1> DEFINE walk == CHOOSE g : g = body(g)
<1>5. walk = body(walk)
  <2> HIDE DEF body
  <2> QED BY <1>4
<1>6. Along(link, p) = walk[MaxProtocols]
  BY DEF Along
<1>7. /\ walk[0] = {p}
      /\ \A n \in 1 .. MaxProtocols : walk[n] = Grown(walk[n - 1])
      /\ walk = [n \in 0 .. MaxProtocols |-> walk[n]]
  <2> HIDE DEF walk, Grown
  <2>1. walk = [n \in 0 .. MaxProtocols |-> IF n = 0 THEN {p} ELSE Grown(walk[n - 1])]
    BY <1>5
  <2> HIDE DEF body
  <2>2. 0 \in 0 .. MaxProtocols
    BY BoundAssumption DEF BoundAssumption
  <2>3. ASSUME NEW n \in 1 .. MaxProtocols PROVE walk[n] = Grown(walk[n - 1])
    <3>1. n \in 0 .. MaxProtocols /\ n # 0
      BY BoundAssumption DEF BoundAssumption
    <3> QED BY <3>1, <2>1
  <2>4. walk[0] = {p}
    BY <2>1, <2>2
  <2>5. walk = [n \in 0 .. MaxProtocols |-> walk[n]]
    BY <2>1
  <2> QED BY <2>3, <2>4, <2>5
<1> HIDE DEF walk
<1>8. {n \in 0 .. MaxProtocols : walk[n] \notin SUBSET Protocols} = {}
  <2> DEFINE Bad == {n \in 0 .. MaxProtocols : walk[n] \notin SUBSET Protocols}
  <2> SUFFICES ASSUME Bad # {} PROVE FALSE
    OBVIOUS
  <2>0. Bad \subseteq 0 .. MaxProtocols
    OBVIOUS
  <2>1. PICK n \in Bad : n = 0 \/ (n \in 1 .. MaxProtocols /\ n - 1 \in (0 .. MaxProtocols) \ Bad)
    <3> HIDE DEF Bad
    <3> QED BY <2>0, First
  <2>2. n \in 1 .. MaxProtocols /\ walk[n] \notin SUBSET Protocols
    BY <2>1, <1>7
  <2>3. walk[n - 1] \in SUBSET Protocols
    BY <2>1, <2>2
  <2> HIDE DEF Grown
  <2> QED BY <2>2, <2>3, <1>1, <1>7
<1>9. walk \in [0 .. MaxProtocols -> SUBSET Protocols]
  BY <1>7, <1>8
<1> QED BY <1>6, <1>7, <1>9

\* A walk visits the least set that has its start and is closed.
LEMMA Walks ==
    ASSUME NEW link \in [Protocols -> Protocols \cup {NoProtocol}], NEW p \in Protocols
    PROVE  /\ p \in Along(link, p) /\ Along(link, p) \subseteq Protocols
           /\ Closed(link, Along(link, p))
           /\ \A S : p \in S /\ Closed(link, S) => Along(link, p) \subseteq S
<1>1. PICK f \in [0 .. MaxProtocols -> SUBSET Protocols] :
              /\ f[0] = {p}
              /\ \A n \in 1 .. MaxProtocols :
                   f[n] = f[n - 1] \cup ({link[q] : q \in f[n - 1]} \ {NoProtocol})
              /\ Along(link, p) = f[MaxProtocols]
  BY Steps
<1>2. MaxProtocols \in 0 .. MaxProtocols /\ MaxProtocols \in Nat
  BY BoundAssumption DEF BoundAssumption
<1>3. p \in f[MaxProtocols]
  <2> DEFINE Bad == {n \in 0 .. MaxProtocols : p \notin f[n]}
  <2>1. Bad = {}
    <3> SUFFICES ASSUME Bad # {} PROVE FALSE
      OBVIOUS
    <3>0. Bad \subseteq 0 .. MaxProtocols
      OBVIOUS
    <3>1. PICK n \in Bad : n = 0 \/ (n \in 1 .. MaxProtocols /\ n - 1 \in (0 .. MaxProtocols) \ Bad)
      <4> HIDE DEF Bad
      <4> QED BY <3>0, First
    <3>2. n \in 1 .. MaxProtocols
      BY <3>1, <1>1
    <3>3. p \in f[n - 1] /\ p \notin f[n]
      BY <3>1, <3>2
    <3> QED BY <3>2, <3>3, <1>1
  <2> QED BY <2>1, <1>2
<1>4. ASSUME NEW S, p \in S, Closed(link, S) PROVE f[MaxProtocols] \subseteq S
  <2> DEFINE Bad == {n \in 0 .. MaxProtocols : ~ (f[n] \subseteq S)}
  <2>1. Bad = {}
    <3> SUFFICES ASSUME Bad # {} PROVE FALSE
      OBVIOUS
    <3>0. Bad \subseteq 0 .. MaxProtocols
      OBVIOUS
    <3>1. PICK n \in Bad : n = 0 \/ (n \in 1 .. MaxProtocols /\ n - 1 \in (0 .. MaxProtocols) \ Bad)
      <4> HIDE DEF Bad
      <4> QED BY <3>0, First
    <3>2. n \in 1 .. MaxProtocols /\ ~ (f[n] \subseteq S)
      BY <3>1, <1>1, <1>4
    <3>3. f[n - 1] \subseteq S
      BY <3>1, <3>2
    <3>4. f[n] = f[n - 1] \cup ({link[q] : q \in f[n - 1]} \ {NoProtocol})
      BY <3>2, <1>1
    <3> QED BY <3>3, <3>4, <1>4 DEF Closed
  <2> QED BY <2>1, <1>2
<1>5. Closed(link, f[MaxProtocols])
  <2> DEFINE Bad == {n \in 0 .. MaxProtocols : ~ Closed(link, f[n]) /\ Cardinality(f[n]) < n + 1}
  <2>0. \A n \in 0 .. MaxProtocols : /\ f[n] \subseteq Protocols /\ IsFiniteSet(f[n])
                                    /\ Cardinality(f[n]) \in Nat
                                    /\ Cardinality(f[n]) <= MaxProtocols
    <3>1. IsFiniteSet(Protocols) /\ Cardinality(Protocols) = MaxProtocols
      BY <1>2, FS_Interval DEF Protocols
    <3> QED BY <3>1, <1>1, FS_Subset, FS_CardinalityType
  <2>1. Bad = {}
    <3> SUFFICES ASSUME Bad # {} PROVE FALSE
      OBVIOUS
    <3>0. Bad \subseteq 0 .. MaxProtocols
      OBVIOUS
    <3>1. PICK n \in Bad : n = 0 \/ (n \in 1 .. MaxProtocols /\ n - 1 \in (0 .. MaxProtocols) \ Bad)
      <4> HIDE DEF Bad
      <4> QED BY <3>0, First
    <3>2. n # 0
      <4>1. Cardinality({p}) = 1
        BY FS_Singleton
      <4>2. n \in 0 .. MaxProtocols /\ Cardinality(f[n]) < n + 1
        OBVIOUS
      <4> HIDE DEF Bad
      <4> QED BY <1>1, <4>1, <4>2
    <3>3. n \in 1 .. MaxProtocols /\ n - 1 \in 0 .. MaxProtocols /\ n - 1 < n
          /\ n - 1 \notin Bad /\ ~ Closed(link, f[n]) /\ Cardinality(f[n]) < n + 1
      BY <3>1, <3>2
    <3>4. f[n] = f[n - 1] \cup ({link[q] : q \in f[n - 1]} \ {NoProtocol})
      BY <3>3, <1>1
    <3>5. ~ Closed(link, f[n - 1])
      BY <3>4 DEF Closed
    <3>6. Cardinality(f[n - 1]) >= n
      BY <3>1, <3>3, <3>5, <2>0
    <3>7. PICK x \in f[n] : x \notin f[n - 1]
      BY <3>4, <3>5 DEF Closed
    <3>8. Cardinality(f[n - 1] \cup {x}) = Cardinality(f[n - 1]) + 1
      BY <3>3, <3>7, <2>0, FS_AddElement
    <3>9. f[n - 1] \cup {x} \in SUBSET f[n] /\ IsFiniteSet(f[n])
      BY <3>3, <3>4, <3>7, <2>0
    <3>10. Cardinality(f[n - 1] \cup {x}) <= Cardinality(f[n])
      BY <3>9, FS_Subset
    <3> QED BY <3>3, <3>6, <3>8, <3>10, <2>0
  <2>2. Closed(link, f[MaxProtocols]) \/ Cardinality(f[MaxProtocols]) >= MaxProtocols + 1
    <3>1. MaxProtocols \notin Bad /\ Cardinality(f[MaxProtocols]) \in Nat
      BY <2>0, <2>1, <1>2
    <3> QED BY <3>1, <1>2
  <2> QED BY <2>0, <2>2, <1>2
<1> QED BY <1>1, <1>3, <1>4, <1>5, <1>2

LEMMA WalkClosed ==
    ASSUME NEW link \in [Protocols -> Protocols \cup {NoProtocol}], NEW p \in Protocols,
           NEW x \in Along(link, p)
    PROVE  /\ x \in Protocols
           /\ Along(link, x) \subseteq Along(link, p)
           /\ link[x] # NoProtocol => link[x] \in Along(link, p) /\ Along(link, link[x]) \subseteq Along(link, x)
<1>1. x \in Protocols /\ Closed(link, Along(link, p))
  BY Walks
<1>2. Along(link, x) \subseteq Along(link, p)
  BY <1>1, Walks
<1>3. link[x] # NoProtocol => link[x] \in Along(link, p)
  BY <1>1 DEF Closed
<1>4. link[x] # NoProtocol => link[x] \in Along(link, x)
  BY <1>1, Walks DEF Closed
<1>5. Closed(link, Along(link, x))
  BY <1>1, Walks
<1>6. link[x] # NoProtocol => Along(link, link[x]) \subseteq Along(link, x)
  BY <1>1, <1>4, <1>5, Walks
<1> QED BY <1>1, <1>2, <1>3, <1>6

\* What a walk visits after its start, it visits from the next protocol on.
LEMMA WalkOn ==
    ASSUME NEW link \in [Protocols -> Protocols \cup {NoProtocol}], NEW p \in Protocols,
           NEW x \in Along(link, p), x # p
    PROVE  link[p] # NoProtocol /\ link[p] \in Protocols /\ x \in Along(link, link[p])
<1>1. link[p] # NoProtocol
  <2> SUFFICES ASSUME link[p] = NoProtocol PROVE FALSE
    OBVIOUS
  <2>1. Closed(link, {p})
    BY DEF Closed
  <2> QED BY <2>1, Walks
<1>2. link[p] \in Protocols
  BY <1>1
<1>3. Closed(link, {p} \cup Along(link, link[p]))
  BY <1>2, Walks DEF Closed
<1> QED BY <1>1, <1>2, <1>3, Walks

\* A walk that meets no changed link is the same walk.
LEMMA WalkSame ==
    ASSUME NEW link \in [Protocols -> Protocols \cup {NoProtocol}],
           NEW other \in [Protocols -> Protocols \cup {NoProtocol}], NEW p \in Protocols,
           \A x \in Along(link, p) : other[x] = link[x]
    PROVE  Along(other, p) = Along(link, p)
<1>1. p \in Along(link, p) /\ Closed(link, Along(link, p))
  BY Walks
<1>2. Along(other, p) \subseteq Along(link, p)
  <2>1. Closed(other, Along(link, p))
    BY <1>1 DEF Closed
  <2> QED BY <1>1, <2>1, Walks
<1>3. Along(link, p) \subseteq Along(other, p)
  <2>1. p \in Along(other, p) /\ Closed(other, Along(other, p))
    BY Walks
  <2>2. Closed(link, Along(other, p))
    BY <1>2, <2>1 DEF Closed
  <2> QED BY <2>1, <2>2, Walks
<1> QED BY <1>2, <1>3

\* No protocol can be followed for ever: no set of them is led back into itself.
Ending(link) == \A S \in SUBSET Protocols : (\A p \in S : link[p] \in S) => S = {}

LEMMA WalkOneWay ==
    ASSUME NEW link \in [Protocols -> Protocols \cup {NoProtocol}], Ending(link),
           NEW p \in Protocols, NEW x \in Along(link, p), p \in Along(link, x)
    PROVE  x = p
<1> SUFFICES ASSUME x # p PROVE FALSE
  OBVIOUS
<1> DEFINE S == {z \in Along(link, p) : link[z] # NoProtocol /\ p \in Along(link, link[z])}
<1>1. x \in Protocols /\ Along(link, p) \subseteq Protocols
  BY WalkClosed, Walks
<1>2. link[p] # NoProtocol /\ link[p] \in Protocols /\ x \in Along(link, link[p])
  BY WalkOn
<1>3. Along(link, x) \subseteq Along(link, link[p])
  BY <1>2, WalkClosed
<1>4. p \in S
  BY <1>2, <1>3, Walks
<1>5. ASSUME NEW z \in S PROVE link[z] \in S
  <2> DEFINE w == link[z]
  <2>1. z \in Along(link, p) /\ w # NoProtocol /\ p \in Along(link, w)
    OBVIOUS
  <2>2. w \in Along(link, p) /\ w \in Protocols
    BY <2>1, WalkClosed
  <2>3. CASE w = p
    BY <1>4, <2>3
  <2>4. CASE w # p
    <3> HIDE DEF w
    <3>1. link[w] # NoProtocol /\ p \in Along(link, link[w])
      BY <2>1, <2>2, <2>4, WalkOn
    <3>2. w \in S
      BY <2>2, <3>1
    <3> QED BY <3>2 DEF w
  <2> QED BY <2>3, <2>4
<1>6. S \in SUBSET Protocols
  BY <1>1
<1> HIDE DEF S
<1> QED BY <1>4, <1>5, <1>6 DEF Ending

\* A walk has one end.
LEMMA WalkEnd ==
    ASSUME NEW link \in [Protocols -> Protocols \cup {NoProtocol}],
           NEW p \in Protocols, NEW x \in Along(link, p), NEW y \in Along(link, p),
           link[x] = NoProtocol, link[y] = NoProtocol
    PROVE  x = y
<1> DEFINE T == {z \in Along(link, p) : y \in Along(link, z)}
<1>1. p \in T
  BY Walks
<1>2. Closed(link, T)
  <2> SUFFICES ASSUME NEW z \in T, link[z] # NoProtocol PROVE link[z] \in T
    BY DEF Closed
  <2>1. z \in Along(link, p) /\ y \in Along(link, z) /\ z # y
    OBVIOUS
  <2>2. link[z] \in Along(link, p) /\ z \in Protocols
    BY <2>1, WalkClosed
  <2>3. y \in Along(link, link[z])
    BY <2>1, <2>2, WalkOn
  <2> QED BY <2>2, <2>3
<1>3. Along(link, p) \subseteq T
  BY <1>1, <1>2, Walks
<1>4. y \in Along(link, x) /\ x \in Protocols
  BY <1>3, WalkClosed
<1> QED BY <1>4, WalkOn

------------------------------------------------------------------------------
(* The inductive invariant.                                                *)

\* Ids are handed out in order: everything up to the last id has existed.
Numbered ==
  /\ \E n \in 0 .. MaxProtocols : \A p \in Protocols : object[p] = "none" <=> p > n
  /\ \E n \in 0 .. MaxHandlers : \A h \in Handlers : handler[h] = "none" <=> h > n

Unlinked ==
  \A p \in Protocols : ~ Live(p) =>
     near[p] = NoProtocol /\ far[p] = NoProtocol /\ handlerOf[p] = NoHandler

Chains ==
  /\ LinksMutual
  /\ Unlinked
  /\ keepsNear \subseteq LiveProtocols
  /\ Ending(near)
  /\ Ending(far)

\* Handlers are at the far ends.  A carrier whose protocol has nothing near it
\* is about to lose the protocol.
Carried ==
  /\ HandlersMutual
  /\ timers \subseteq LiveHandlers
  /\ \A h \in Handlers : handler[h] = "live" <=> protocolOf[h] # NoProtocol
  /\ \A p \in Protocols : handlerOf[p] # NoHandler => far[p] = NoProtocol /\ p \notin keepsNear
  /\ \A h \in LiveHandlers \ timers : near[protocolOf[h]] # NoProtocol \/ protocolOf[h] \in deadP

Lists ==
  /\ NoDoubleFree
  /\ RegisteredAreActive
  /\ enqueued \subseteq deadP

\* What the main loop has done by the time it is somewhere.
Phases ==
  /\ pc \in {"wait", "clean", "exitClean"} => deadH = {}
  /\ pc = "wait" => deadP = {}
  /\ pc = "callback" => current \in LiveHandlers \cup {Service}
  /\ pc \in {"dispatch", "callback"} =>
       /\ batch \subseteq LiveHandlers \cup {Service}
       /\ \A h \in (batch \cap LiveHandlers) \ timers : near[protocolOf[h]] # NoProtocol
  /\ pc \in {"exitClean", "exitSweep", "done"} => activeP \subseteq {Spared}
  /\ pc \in {"exitSweep", "done"} => LiveProtocols \subseteq {Spared}
  /\ pc = "exitSweep" => LiveHandlers = deadH
  /\ pc = "done" => LiveHandlers = {}

IInv == TypeOK /\ Numbered /\ Chains /\ Carried /\ Lists /\ Phases

------------------------------------------------------------------------------
(* What the operators of the model return where the invariant holds.       *)

LEMMA Types ==
    TypeOK <=>
      /\ object \in [Protocols -> {"none", "live", "freed", "rejected"}]
      /\ handler \in [Handlers -> {"none", "live", "freed"}]
      /\ near \in [Protocols -> Protocols \cup {NoProtocol}]
      /\ far \in [Protocols -> Protocols \cup {NoProtocol}]
      /\ handlerOf \in [Protocols -> Handlers \cup {NoHandler}]
      /\ protocolOf \in [Handlers -> Protocols \cup {NoProtocol}]
      /\ activeP \subseteq Protocols /\ deadP \subseteq Protocols
      /\ enqueued \subseteq Protocols /\ graceful \subseteq Protocols
      /\ keepsNear \subseteq Protocols /\ output \subseteq Protocols
      /\ registered \subseteq Protocols
      /\ timers \subseteq Handlers /\ deadH \subseteq Handlers
      /\ batch \subseteq Handlers \cup {Service}
      /\ current \in Handlers \cup {Service, NoHandler}
      /\ pc \in {"wait", "dispatch", "callback", "sweep", "clean", "exitClean", "exitSweep", "done"}
<1>1. UNION {activeP, deadP, enqueued, graceful, keepsNear, output, registered} \subseteq Protocols
      <=> /\ activeP \subseteq Protocols /\ deadP \subseteq Protocols
          /\ enqueued \subseteq Protocols /\ graceful \subseteq Protocols
          /\ keepsNear \subseteq Protocols /\ output \subseteq Protocols
          /\ registered \subseteq Protocols
  OBVIOUS
<1>2. timers \cup deadH \subseteq Handlers <=> timers \subseteq Handlers /\ deadH \subseteq Handlers
  OBVIOUS
<1> QED BY <1>1, <1>2, Zenon DEF TypeOK

\* The next id is the first that no protocol has had.
LEMMA NextProtocolIs ==
    ASSUME NEW n \in 0 .. MaxProtocols, \A p \in Protocols : object[p] = "none" <=> p > n
    PROVE  NextProtocol = n + 1
<1>1. {p \in Protocols : object[p] # "none"} = 1 .. n
  BY BoundAssumption DEF Protocols, BoundAssumption
<1>2. n \in Int /\ 1 \in Int /\ Cardinality(1 .. n) = n
  BY FS_Interval, BoundAssumption DEF BoundAssumption
<1> QED BY <1>1, <1>2 DEF NextProtocol

LEMMA NextHandlerIs ==
    ASSUME NEW n \in 0 .. MaxHandlers, \A h \in Handlers : handler[h] = "none" <=> h > n
    PROVE  NextHandler = n + 1
<1>1. {h \in Handlers : handler[h] # "none"} = 1 .. n
  BY BoundAssumption DEF Handlers, BoundAssumption
<1>2. n \in Int /\ 1 \in Int /\ Cardinality(1 .. n) = n
  BY FS_Interval, BoundAssumption DEF BoundAssumption
<1> QED BY <1>1, <1>2 DEF NextHandler

\* What the links of live protocols lead to is live.
LEMMA WalksLive ==
    ASSUME IInv, NEW p \in LiveProtocols
    PROVE  /\ p \in Inward(p) /\ Inward(p) \subseteq LiveProtocols /\ Closed(near, Inward(p))
           /\ p \in Along(far, p) /\ Along(far, p) \subseteq LiveProtocols
           /\ Closed(far, Along(far, p))
<1>1. /\ p \in Protocols
      /\ near \in [Protocols -> Protocols \cup {NoProtocol}]
      /\ far \in [Protocols -> Protocols \cup {NoProtocol}]
  BY Types DEF IInv, LiveProtocols
<1>2. Closed(near, LiveProtocols) /\ Closed(far, LiveProtocols)
  BY <1>1 DEF IInv, Chains, LinksMutual, Closed, LiveProtocols, Live
<1> QED BY <1>1, <1>2, Walks DEF Inward

LEMMA NearEndpoint ==
    ASSUME IInv, NEW p \in LiveProtocols
    PROVE  GetNearEndpoint(p) \in Inward(p) /\ near[GetNearEndpoint(p)] = NoProtocol
<1>1. Inward(p) \subseteq Protocols /\ p \in Inward(p) /\ Closed(near, Inward(p))
  BY WalksLive DEF LiveProtocols
<1>2. \E q \in Inward(p) : near[q] = NoProtocol
  BY <1>1 DEF IInv, Chains, Ending, Closed
<1> QED BY <1>2 DEF GetNearEndpoint

LEMMA FarEndpoint ==
    ASSUME IInv, NEW p \in LiveProtocols
    PROVE  GetFarEndpoint(p) \in Along(far, p) /\ far[GetFarEndpoint(p)] = NoProtocol
<1>1. /\ Along(far, p) \subseteq Protocols /\ p \in Along(far, p)
      /\ Closed(far, Along(far, p))
  BY WalksLive DEF LiveProtocols
<1>2. \E q \in Along(far, p) : far[q] = NoProtocol
  BY <1>1 DEF IInv, Chains, Ending, Closed
<1> QED BY <1>2 DEF GetFarEndpoint

\* Whatever is inward of p, but for p, has a far protocol that is inward of p too.
LEMMA Behind ==
    ASSUME IInv, NEW p \in LiveProtocols, NEW r \in Inward(p), r # p
    PROVE  far[r] \in Inward(p) /\ near[far[r]] = r
<1> DEFINE S == {q \in Inward(p) : q = p \/ far[q] \in Inward(p)}
<1>0. /\ near \in [Protocols -> Protocols \cup {NoProtocol}]
      /\ far \in [Protocols -> Protocols \cup {NoProtocol}]
      /\ NoProtocol \notin Protocols
  BY Types, NullAssumption DEF IInv, NullAssumption
<1>1. Inward(p) \subseteq LiveProtocols /\ p \in Inward(p) /\ Closed(near, Inward(p))
      /\ LiveProtocols \subseteq Protocols
  BY WalksLive DEF LiveProtocols
<1>2. \A q \in LiveProtocols :
        /\ near[q] # NoProtocol => near[q] \in LiveProtocols /\ far[near[q]] = q
        /\ far[q] # NoProtocol => far[q] \in LiveProtocols /\ near[far[q]] = q
  BY <1>0 DEF IInv, Chains, LinksMutual, LiveProtocols
<1>3. Closed(near, S)
  BY <1>1, <1>2 DEF Closed
<1>4. Inward(p) \subseteq S
  BY <1>0, <1>1, <1>3, Walks DEF Inward
<1> QED BY <1>0, <1>1, <1>2, <1>4

------------------------------------------------------------------------------
(* Each action preserves it.  First the ones that only enqueue.            *)

LEMMA EnqueueLive ==
    ASSUME IInv, NEW S, S \subseteq LiveProtocols, EnqueueForDelete(S)
    PROVE  /\ object' = object
           /\ enqueued' \subseteq Protocols /\ registered' \subseteq Protocols
           /\ activeP' \subseteq activeP /\ deadP \subseteq deadP'
           /\ S \subseteq deadP' /\ enqueued' \subseteq deadP'
           /\ activeP' \subseteq Protocols /\ deadP' \subseteq Protocols
           /\ deadP' \cap activeP' = {} /\ deadP' \cup activeP' = LiveProtocols
           /\ RegisteredAreActive'
<1>1. LiveProtocols \subseteq Protocols
  BY DEF LiveProtocols
<1>2. /\ enqueued \subseteq deadP /\ deadP \cap activeP = {} /\ deadP \cup activeP = LiveProtocols
      /\ enqueued \subseteq Protocols /\ registered \subseteq Protocols
  BY Types DEF IInv, Lists, NoDoubleFree
<1>3. RegisteredAreActive'
  BY DEF IInv, Lists, RegisteredAreActive, EnqueueForDelete
<1> QED BY <1>1, <1>2, <1>3 DEF EnqueueForDelete

LEMMA OnlyEnqueues ==
    ASSUME IInv, NEW S, S \subseteq LiveProtocols, EnqueueForDelete(S),
           UNCHANGED <<links, carriers>>, deadH' \in SUBSET LiveHandlers
    PROVE  Numbered' /\ Chains' /\ Carried' /\ Lists'
<1>1. UNCHANGED <<object, handler, near, far, keepsNear, handlerOf, protocolOf, timers>>
  BY EnqueueLive DEF links, carriers
<1>2. LiveProtocols' = LiveProtocols /\ LiveHandlers' = LiveHandlers
  BY <1>1 DEF LiveProtocols, LiveHandlers, Live
<1>3. Numbered'
  BY <1>1 DEF IInv, Numbered
<1>4. Chains'
  <2>1. LinksMutual' /\ Unlinked'
    BY <1>1, <1>2 DEF IInv, Chains, LinksMutual, Unlinked, Live
  <2> QED BY <1>1, <1>2, <2>1 DEF IInv, Chains, Ending
<1>5. Carried'
  <2>1. HandlersMutual'
    BY <1>1, <1>2 DEF IInv, Carried, HandlersMutual, Live
  <2>2. deadP \subseteq deadP'
    BY EnqueueLive
  <2> QED BY <1>1, <1>2, <2>1, <2>2 DEF IInv, Carried
<1>6. Lists'
  BY <1>2, EnqueueLive DEF Lists, NoDoubleFree
<1> QED BY <1>3, <1>4, <1>5, <1>6

\* The loop goes on where it was.
LEMMA OnlyEnqueuesInCallback ==
    ASSUME IInv, NEW S, S \subseteq LiveProtocols, EnqueueForDelete(S),
           UNCHANGED <<links, carriers, deadH, loop>>,
           graceful' \subseteq Protocols, output' \subseteq Protocols, pc # "wait"
    PROVE  IInv'
<1>1. UNCHANGED <<object, handler, near, far, keepsNear, handlerOf, protocolOf, timers,
                  deadH, batch, current, pc>>
  BY EnqueueLive DEF links, carriers, loop
<1>2. LiveProtocols' = LiveProtocols /\ LiveHandlers' = LiveHandlers
  BY <1>1 DEF LiveProtocols, LiveHandlers, Live
<1>3. TypeOK'
  BY <1>1, EnqueueLive, Types DEF IInv, TypeOK
<1>4. Phases'
  BY <1>1, <1>2, EnqueueLive DEF IInv, Phases
<1>5. deadH' \in SUBSET LiveHandlers
  BY <1>1 DEF IInv, Lists, NoDoubleFree
<1> QED BY <1>3, <1>4, <1>5, OnlyEnqueues DEF IInv

LEMMA NothingEnqueued ==
    ASSUME UNCHANGED lists
    PROVE  EnqueueForDelete({})
BY DEF lists, EnqueueForDelete

LEMMA CallsEnqueueStep ==
    ASSUME IInv, NEW p \in Protocols, CallsEnqueue(p), UNCHANGED loop, pc # "wait"
    PROVE  IInv'
<1>1. {p} \subseteq LiveProtocols /\ EnqueueForDelete({p})
  BY DEF CallsEnqueue, LiveProtocols
<1>2. /\ UNCHANGED <<links, carriers, deadH, loop>>
      /\ graceful' \subseteq Protocols /\ output' \subseteq Protocols
  BY Types DEF CallsEnqueue, IInv
<1> QED BY <1>1, <1>2, OnlyEnqueuesInCallback

LEMMA CallsGracefullyStep ==
    ASSUME IInv, NEW p \in Protocols, CallsGracefully(p), UNCHANGED loop, pc # "wait"
    PROVE  IInv'
<1>1. p \in LiveProtocols
  BY DEF CallsGracefully, LiveProtocols
<1>2. GetFarEndpoint(p) \in LiveProtocols /\ GetNearEndpoint(p) \in LiveProtocols
  BY <1>1, FarEndpoint, NearEndpoint, WalksLive
<1>3. GracefulWalk(p) \subseteq Protocols
  BY <1>2, WalksLive DEF GracefulWalk, LiveProtocols
<1>4. /\ UNCHANGED <<links, carriers, deadH, loop>>
      /\ graceful' \subseteq Protocols /\ output' \subseteq Protocols
  BY <1>3, Types DEF CallsGracefully, GracefullyEnqueueForDelete, IInv
<1>5. EnqueueForDelete({}) \/ EnqueueForDelete({GetNearEndpoint(p)})
  BY NothingEnqueued DEF CallsGracefully, GracefullyEnqueueForDelete
<1>6. CASE EnqueueForDelete({})
  BY <1>4, <1>6, OnlyEnqueuesInCallback
<1>7. CASE EnqueueForDelete({GetNearEndpoint(p)})
  <2>1. {GetNearEndpoint(p)} \subseteq LiveProtocols
    BY <1>2
  <2> QED BY <1>4, <1>7, <2>1, OnlyEnqueuesInCallback
<1> QED BY <1>5, <1>6, <1>7

LEMMA WritesStep ==
    ASSUME IInv, NEW p \in Protocols, Writes(p), UNCHANGED loop, pc # "wait"
    PROVE  IInv'
<1>1. /\ UNCHANGED <<links, lists, carriers, deadH, loop>>
      /\ graceful' \subseteq Protocols /\ output' \subseteq Protocols
  BY Types DEF Writes, IInv
<1> QED BY <1>1, NothingEnqueued, OnlyEnqueuesInCallback

\* A protocol that gets input is live, as is every protocol its carrier reaches.
LEMMA InputReachesLive ==
    ASSUME IInv, NEW p, GetsInput(p)
    PROVE  /\ p \in LiveProtocols
           /\ pc = "callback"
<1>1. current \in Handlers /\ handler[current] = "live"
  BY DEF GetsInput, LiveHandlers
<1>2. protocolOf[current] \in LiveProtocols
  BY <1>1, Types DEF IInv, Carried, HandlersMutual, LiveProtocols, LiveHandlers
<1> QED BY <1>2, WalksLive DEF GetsInput

LEMMA RelayStep ==
    ASSUME IInv, NEW p \in Protocols, Relay(p), UNCHANGED loop
    PROVE  IInv'
<1>1. pc # "wait"
  BY InputReachesLive DEF Relay
<1>2. /\ UNCHANGED <<links, lists, carriers, deadH, loop>>
      /\ graceful' \subseteq Protocols /\ output' \subseteq Protocols
  BY Types DEF Relay, IInv
<1> QED BY <1>1, <1>2, NothingEnqueued, OnlyEnqueuesInCallback

LEMMA WritableStep ==
    ASSUME IInv, Writable
    PROVE  IInv'
<1> DEFINE p == protocolOf[current]
           S == {q \in (graceful \ keepsNear) \cap Inward(p) :
                   \A r \in (graceful \ keepsNear) \cap Inward(p) : ~Farther(r, q)}
<1>1. current \in Handlers /\ handler[current] = "live"
  BY NullAssumption DEF Writable, IInv, Phases, LiveHandlers, NullAssumption
<1>2. p \in LiveProtocols
  BY <1>1, Types DEF IInv, Carried, HandlersMutual, LiveProtocols, LiveHandlers
<1>3. EnqueueForDelete(S) /\ S \subseteq LiveProtocols
  BY <1>2, WalksLive DEF Writable, ReadyForSend
<1> HIDE DEF S
<1>4. UNCHANGED <<handler, near, far, keepsNear, handlerOf, protocolOf, timers, graceful,
                  deadH, batch>>
  BY DEF Writable, links, carriers
<1>5. object' = object
  BY <1>3, EnqueueLive
<1>6. current' = NoHandler /\ pc' = "dispatch" /\ output' \subseteq Protocols /\ pc = "callback"
  BY Types DEF Writable, IInv
<1>7. LiveProtocols' = LiveProtocols /\ LiveHandlers' = LiveHandlers
  BY <1>4, <1>5 DEF LiveProtocols, LiveHandlers, Live
<1>8. TypeOK'
  BY <1>3, <1>4, <1>5, <1>6, EnqueueLive, Types DEF IInv, TypeOK
<1>9. Phases'
  BY <1>4, <1>6, <1>7 DEF IInv, Phases
<1>10. deadH' \in SUBSET LiveHandlers /\ UNCHANGED <<links, carriers>>
  BY <1>4 DEF IInv, Lists, NoDoubleFree, links, carriers
<1> QED BY <1>3, <1>8, <1>9, <1>10, OnlyEnqueues DEF IInv

------------------------------------------------------------------------------
(* The steps of the main loop that delete nothing.                         *)

LEMMA LoopMoves ==
    ASSUME IInv, UNCHANGED <<links, lists, carriers, graceful, output>>,
           deadH' \in SUBSET LiveHandlers, batch' \subseteq Handlers \cup {Service},
           current' \in Handlers \cup {Service, NoHandler},
           pc' \in {"wait", "dispatch", "callback", "sweep", "clean", "exitClean", "exitSweep", "done"}
    PROVE  /\ TypeOK' /\ Numbered' /\ Chains' /\ Carried' /\ Lists'
           /\ LiveProtocols' = LiveProtocols /\ LiveHandlers' = LiveHandlers
           /\ UNCHANGED <<near, protocolOf, timers, activeP, deadP>>
<1>1. UNCHANGED <<object, activeP, deadP, enqueued, registered, handler, near, far, keepsNear,
                  handlerOf, protocolOf, timers>>
  BY DEF links, lists, carriers
<1>2. LiveProtocols' = LiveProtocols /\ LiveHandlers' = LiveHandlers /\ deadH' \subseteq Handlers
  BY <1>1 DEF LiveProtocols, LiveHandlers, Live
<1>3. TypeOK'
  BY <1>1, <1>2, Types DEF IInv, TypeOK
<1>4. EnqueueForDelete({}) /\ UNCHANGED <<links, carriers>>
  BY NothingEnqueued
<1>5. Numbered' /\ Chains' /\ Carried' /\ Lists'
  BY <1>4, OnlyEnqueues
<1> QED BY <1>1, <1>2, <1>3, <1>5

LEMMA WaitStep ==
    ASSUME IInv, Wait
    PROVE  IInv'
<1>1. /\ UNCHANGED <<links, lists, carriers, graceful, output>>
      /\ deadH' \in SUBSET LiveHandlers /\ batch' \subseteq Handlers \cup {Service}
      /\ current' \in Handlers \cup {Service, NoHandler} /\ pc' = "dispatch"
      /\ batch' \subseteq LiveHandlers \cup {Service}
  BY Types DEF Wait, IInv, Lists, NoDoubleFree, LiveHandlers
<1>2. \A h \in LiveHandlers \ timers : near[protocolOf[h]] # NoProtocol
  BY DEF Wait, IInv, Phases, Carried
<1>3. Phases'
  BY <1>1, <1>2, LoopMoves DEF Phases
<1> QED BY <1>1, <1>3, LoopMoves DEF IInv

LEMMA IgnoreStep ==
    ASSUME IInv, NEW h \in batch, Ignore(h)
    PROVE  IInv'
<1>1. /\ UNCHANGED <<links, lists, carriers, graceful, output>>
      /\ deadH' \in SUBSET LiveHandlers /\ batch' \subseteq Handlers \cup {Service}
      /\ current' \in Handlers \cup {Service, NoHandler}
      /\ pc = "dispatch" /\ pc' = "dispatch" /\ batch' \subseteq batch
  BY Types DEF Ignore, IInv, Lists, NoDoubleFree
<1>2. Phases'
  BY <1>1, LoopMoves DEF IInv, Phases
<1> QED BY <1>1, <1>2, LoopMoves DEF IInv

LEMMA OnEventStep ==
    ASSUME IInv, NEW h \in batch, OnEvent(h)
    PROVE  IInv'
<1>1. /\ UNCHANGED <<links, lists, carriers, graceful, output>>
      /\ deadH' \in SUBSET LiveHandlers /\ batch' \subseteq Handlers \cup {Service}
      /\ current' = h /\ current' \in Handlers \cup {Service, NoHandler}
      /\ pc = "dispatch" /\ pc' = "callback" /\ batch' \subseteq batch
  BY Types DEF OnEvent, IInv, Lists, NoDoubleFree
<1>2. Phases'
  BY <1>1, LoopMoves DEF IInv, Phases
<1> QED BY <1>1, <1>2, LoopMoves DEF IInv

LEMMA OnEventReturnsStep ==
    ASSUME IInv, OnEventReturns
    PROVE  IInv'
<1>1. {current} \cap Handlers \subseteq LiveHandlers
  BY NullAssumption DEF OnEventReturns, IInv, Phases, LiveHandlers, NullAssumption
<1>2. /\ UNCHANGED <<links, lists, carriers, graceful, output>>
      /\ deadH' \in SUBSET LiveHandlers /\ batch' \subseteq Handlers \cup {Service}
      /\ current' \in Handlers \cup {Service, NoHandler}
      /\ pc = "callback" /\ pc' = "dispatch" /\ batch' = batch
  BY <1>1, Types DEF OnEventReturns, IInv, Lists, NoDoubleFree
<1>3. Phases'
  BY <1>2, LoopMoves DEF IInv, Phases
<1> QED BY <1>2, <1>3, LoopMoves DEF IInv

LEMMA PulseEndsStep ==
    ASSUME IInv, PulseEnds
    PROVE  IInv'
<1>1. /\ UNCHANGED <<links, lists, carriers, graceful, output>>
      /\ deadH' \in SUBSET LiveHandlers /\ batch' \subseteq Handlers \cup {Service}
      /\ current' \in Handlers \cup {Service, NoHandler}
      /\ pc' = "sweep"
  BY Types DEF PulseEnds, IInv, Lists, NoDoubleFree
<1>2. Phases'
  BY <1>1 DEF Phases
<1> QED BY <1>1, <1>2, LoopMoves DEF IInv

LEMMA HandlersSweptStep ==
    ASSUME IInv, pc \in {"sweep", "exitSweep"}, deadH = {},
           pc' = IF pc = "sweep" THEN "clean" ELSE "done",
           UNCHANGED <<links, lists, carriers, graceful, output, deadH, batch, current>>
    PROVE  IInv'
<1>1. /\ deadH' \in SUBSET LiveHandlers /\ batch' \subseteq Handlers \cup {Service}
      /\ current' \in Handlers \cup {Service, NoHandler}
      /\ pc' \in {"clean", "done"} /\ (pc' = "done" => pc = "exitSweep")
  BY Types DEF IInv
<1>2. Phases'
  BY <1>1, LoopMoves DEF IInv, Phases
<1> QED BY <1>1, <1>2, LoopMoves DEF IInv

LEMMA ProtocolsCleanedStep ==
    ASSUME IInv, pc = "clean", deadP = {}, pc' = "wait",
           UNCHANGED <<links, lists, carriers, graceful, output, deadH, batch, current>>
    PROVE  IInv'
<1>1. /\ deadH' \in SUBSET LiveHandlers /\ batch' \subseteq Handlers \cup {Service}
      /\ current' \in Handlers \cup {Service, NoHandler}
  BY Types DEF IInv, Lists, NoDoubleFree
<1>2. Phases'
  BY <1>1, LoopMoves DEF IInv, Phases
<1> QED BY <1>1, <1>2, LoopMoves DEF IInv

LEMMA ShutdownIOHandlersStep ==
    ASSUME IInv, ShutdownIOHandlers
    PROVE  IInv'
<1>1. deadH \subseteq LiveHandlers /\ LiveProtocols = activeP /\ activeP \subseteq {Spared}
  BY DEF ShutdownIOHandlers, IInv, Lists, NoDoubleFree, Phases
<1>2. /\ UNCHANGED <<links, lists, carriers, graceful, output>>
      /\ deadH' = LiveHandlers /\ deadH' \in SUBSET LiveHandlers
      /\ batch' \subseteq Handlers \cup {Service}
      /\ current' \in Handlers \cup {Service, NoHandler} /\ pc' = "exitSweep"
  BY <1>1, Types DEF ShutdownIOHandlers, IInv
<1>3. Phases'
  BY <1>1, <1>2, LoopMoves DEF Phases
<1> QED BY <1>2, <1>3, LoopMoves DEF IInv

LEMMA ShutdownStep ==
    ASSUME IInv, Shutdown
    PROVE  IInv'
<1> DEFINE doomed == activeP \ {Spared}
<1>1. /\ UNCHANGED <<object, enqueued, near, far, keepsNear, handlerOf, protocolOf, handler, timers,
                     graceful, output, deadH, batch, current>>
      /\ deadP' = deadP \cup doomed /\ activeP' = activeP \ doomed
      /\ registered' = registered \ doomed /\ pc' = "exitClean" /\ pc = "wait"
  BY DEF Shutdown, links, carriers
<1>2. LiveProtocols' = LiveProtocols /\ LiveHandlers' = LiveHandlers
  BY <1>1 DEF LiveProtocols, LiveHandlers, Live
<1>3. TypeOK'
  <2>1. deadP' \subseteq Protocols /\ activeP' \subseteq Protocols /\ registered' \subseteq Protocols
    BY <1>1, Types DEF IInv
  <2> HIDE DEF doomed
  <2> QED BY <1>1, <2>1, Types DEF IInv, TypeOK
<1>4. Numbered'
  BY <1>1 DEF IInv, Numbered
<1>5. Chains'
  <2>1. LinksMutual' /\ Unlinked'
    BY <1>1, <1>2 DEF IInv, Chains, LinksMutual, Unlinked, Live
  <2> QED BY <1>1, <1>2, <2>1 DEF IInv, Chains, Ending
<1>6. Carried'
  <2>1. HandlersMutual'
    BY <1>1, <1>2 DEF IInv, Carried, HandlersMutual, Live
  <2> QED BY <1>1, <1>2, <2>1 DEF IInv, Carried
<1>7. Lists'
  BY <1>1, <1>2 DEF IInv, Lists, NoDoubleFree, RegisteredAreActive
<1>8. Phases'
  BY <1>1, <1>2 DEF IInv, Phases
<1> QED BY <1>3, <1>4, <1>5, <1>6, <1>7, <1>8 DEF IInv

------------------------------------------------------------------------------
(* The deletions.                                                          *)

\* Cutting links keeps every walk ending.
LEMMA EndingCut ==
    ASSUME NEW link, NEW cut, Ending(link),
           \A p \in Protocols : cut[p] = link[p] \/ cut[p] = NoProtocol
    PROVE  Ending(cut)
BY NullAssumption DEF Ending, NullAssumption

LEMMA DeleteHandlerStep ==
    ASSUME IInv, pc \in {"sweep", "exitSweep"}, NEW h \in deadH, DeleteHandler(h),
           deadH' = deadH \ {h}, UNCHANGED <<links, graceful, output, loop>>
    PROVE  IInv'
<1> DEFINE p == protocolOf[h]
<1>1. h \in LiveHandlers /\ h \in Handlers /\ handler[h] = "live"
  BY DEF IInv, Lists, NoDoubleFree, LiveHandlers
<1>2. p \in LiveProtocols /\ p \in Protocols /\ object[p] = "live" /\ handlerOf[p] = h
  BY <1>1, Types DEF IInv, Carried, HandlersMutual, LiveProtocols, Live
<1>3. EnqueueForDelete({p}) /\ {p} \subseteq LiveProtocols
  BY <1>2, NullAssumption DEF DeleteHandler, NullAssumption
<1>4. /\ UNCHANGED <<object, near, far, keepsNear, graceful, output, batch, current, pc>>
      /\ handler' = [handler EXCEPT ![h] = "freed"]
      /\ handlerOf' = [q \in Protocols |-> IF q = p THEN NoHandler ELSE handlerOf[q]]
      /\ protocolOf' = [protocolOf EXCEPT ![h] = NoProtocol]
      /\ timers' = timers \ {h} /\ deadH' = deadH \ {h}
  BY <1>3, EnqueueLive DEF links, loop, DeleteHandler
<1>5. LiveProtocols' = LiveProtocols /\ LiveHandlers' = LiveHandlers \ {h}
  BY <1>1, <1>4, Types DEF LiveProtocols, LiveHandlers, Live, IInv
<1>6. /\ enqueued' \subseteq Protocols /\ registered' \subseteq Protocols
      /\ activeP' \subseteq activeP /\ deadP \subseteq deadP' /\ p \in deadP'
      /\ enqueued' \subseteq deadP' /\ activeP' \subseteq Protocols /\ deadP' \subseteq Protocols
      /\ deadP' \cap activeP' = {} /\ deadP' \cup activeP' = LiveProtocols
      /\ RegisteredAreActive'
  BY <1>3, EnqueueLive
<1>7. TypeOK'
  <2>1. handler' \in [Handlers -> {"none", "live", "freed"}]
    BY <1>1, <1>4, Types DEF IInv
  <2>2. handlerOf' \in [Protocols -> Handlers \cup {NoHandler}]
    BY <1>1, <1>4, Types DEF IInv
  <2>3. protocolOf' \in [Handlers -> Protocols \cup {NoProtocol}]
    BY <1>1, <1>4, Types DEF IInv
  <2>4. timers' \cup deadH' \subseteq Handlers
    BY <1>1, <1>4, Types DEF IInv
  <2>5. UNION {activeP', deadP', enqueued', graceful', keepsNear', output', registered'} \subseteq Protocols
    BY <1>4, <1>6, Types DEF IInv
  <2> HIDE DEF p
  <2> QED BY <1>4, <2>1, <2>2, <2>3, <2>4, <2>5 DEF IInv, TypeOK
<1>8. Numbered'
  <2>1. \A k \in Handlers : handler'[k] = "none" <=> handler[k] = "none"
    BY <1>1, <1>4, Types DEF IInv
  <2> QED BY <1>4, <2>1 DEF IInv, Numbered
<1>9. Chains'
  <2>1. LinksMutual' /\ Unlinked'
    BY <1>4, <1>5, Types DEF IInv, Chains, LinksMutual, Unlinked, Live
  <2> QED BY <1>4, <1>5, <2>1 DEF IInv, Chains, Ending
<1>10. Carried'
  <2>0. /\ protocolOf \in [Handlers -> Protocols \cup {NoProtocol}]
        /\ handler \in [Handlers -> {"none", "live", "freed"}]
        /\ LiveProtocols \subseteq Protocols /\ LiveHandlers \subseteq Handlers
    BY Types DEF IInv, LiveProtocols, LiveHandlers
  <2>1. HandlersMutual'
    <3>1. ASSUME NEW q \in LiveProtocols', handlerOf'[q] # NoHandler
          PROVE  handler'[handlerOf'[q]] = "live" /\ protocolOf'[handlerOf'[q]] = q
      <4>1. q # p /\ q \in LiveProtocols /\ handlerOf'[q] = handlerOf[q]
        BY <1>4, <1>5, <2>0, <3>1
      <4>2. /\ handler[handlerOf[q]] = "live" /\ protocolOf[handlerOf[q]] = q
            /\ handlerOf[q] \in Handlers
        BY <3>1, <4>1, Types DEF IInv, Carried, HandlersMutual, LiveProtocols
      <4> QED BY <1>4, <2>0, <4>1, <4>2
    <3>2. ASSUME NEW k \in LiveHandlers', protocolOf'[k] # NoProtocol
          PROVE  protocolOf'[k] \in LiveProtocols' /\ handlerOf'[protocolOf'[k]] = k
      <4>1. k \in LiveHandlers /\ k # h /\ protocolOf'[k] = protocolOf[k]
        BY <1>4, <1>5, <2>0
      <4>2. protocolOf[k] \in LiveProtocols /\ handlerOf[protocolOf[k]] = k
        BY <2>0, <3>2, <4>1 DEF IInv, Carried, HandlersMutual, LiveProtocols
      <4> QED BY <1>2, <1>4, <1>5, <2>0, <4>1, <4>2
    <3> QED BY <3>1, <3>2 DEF HandlersMutual, LiveProtocols, Live
  <2>2. \A k \in Handlers : handler'[k] = "live" <=> protocolOf'[k] # NoProtocol
    BY <1>1, <1>4, Types DEF IInv, Carried
  <2>3. \A q \in Protocols : handlerOf'[q] # NoHandler => far'[q] = NoProtocol /\ q \notin keepsNear'
    BY <1>4, Types DEF IInv, Carried
  <2>4. \A k \in LiveHandlers' \ timers' : near'[protocolOf'[k]] # NoProtocol \/ protocolOf'[k] \in deadP'
    BY <1>4, <1>5, <1>6, Types DEF IInv, Carried, LiveHandlers
  <2> QED BY <1>4, <1>5, <2>1, <2>2, <2>3, <2>4 DEF IInv, Carried
<1>11. Lists'
  <2>1. NoDoubleFree'
    BY <1>4, <1>5, <1>6 DEF IInv, Lists, NoDoubleFree
  <2> QED BY <1>6, <2>1 DEF Lists
<1>12. Phases'
  BY <1>4, <1>5, <1>6 DEF IInv, Phases
<1> QED BY <1>7, <1>8, <1>9, <1>10, <1>11, <1>12 DEF IInv

LEMMA DeleteProtocolStep ==
    ASSUME IInv, pc \in {"clean", "exitClean"}, NEW p \in deadP, DeleteProtocol(p),
           UNCHANGED <<deadH, loop>>
    PROVE  IInv'
<1> DEFINE h == handlerOf[p]
           new == Taken(p) \ enqueued
<1>0. /\ object \in [Protocols -> {"none", "live", "freed", "rejected"}]
      /\ handler \in [Handlers -> {"none", "live", "freed"}]
      /\ near \in [Protocols -> Protocols \cup {NoProtocol}]
      /\ far \in [Protocols -> Protocols \cup {NoProtocol}]
      /\ handlerOf \in [Protocols -> Handlers \cup {NoHandler}]
      /\ protocolOf \in [Handlers -> Protocols \cup {NoProtocol}]
      /\ NoProtocol \notin Protocols /\ NoHandler \notin Handlers
  BY Types, NullAssumption DEF IInv, NullAssumption
<1>1. p \in LiveProtocols /\ p \in Protocols /\ object[p] = "live" /\ deadH = {}
  BY DEF IInv, Lists, NoDoubleFree, LiveProtocols, Live, Phases
<1>2. \A q \in LiveProtocols :
        /\ near[q] # NoProtocol => near[q] \in LiveProtocols /\ far[near[q]] = q
        /\ far[q] # NoProtocol => far[q] \in LiveProtocols /\ near[far[q]] = q
  BY <1>0 DEF IInv, Chains, LinksMutual, LiveProtocols
<1>3. Taken(p) \subseteq LiveProtocols \ {p} /\ Taken(p) \subseteq Protocols
      /\ (far[p] # NoProtocol => far[p] \in Taken(p))
  <2>1. near[p] # p /\ far[p] # p
    <3>1. (\A q \in {p} : near[q] \in {p}) => {p} = {}
      BY <1>1 DEF IInv, Chains, Ending
    <3>2. (\A q \in {p} : far[q] \in {p}) => {p} = {}
      BY <1>1 DEF IInv, Chains, Ending
    <3> QED BY <3>1, <3>2
  <2> QED BY <1>1, <1>2, <2>1 DEF Taken, LiveProtocols
<1>4. /\ object' = [object EXCEPT ![p] = "freed"]
      /\ enqueued' = (enqueued \cup Taken(p)) \ {p}
      /\ registered' = registered \ new
      /\ activeP' = (activeP \ new) \ {p}
      /\ deadP' = (deadP \cup new) \ {p}
      /\ near' = [q \in Protocols |-> IF q = p \/ q = far[p] THEN NoProtocol ELSE near[q]]
      /\ far' = [q \in Protocols |-> IF q = p \/ q = near[p] THEN NoProtocol ELSE far[q]]
      /\ keepsNear' = keepsNear \ {p}
      /\ graceful' = graceful \ {p}
      /\ output' = output \ {p}
  BY DEF DeleteProtocol
<1>5. /\ handler' = [k \in Handlers |-> IF k = h THEN "freed" ELSE handler[k]]
      /\ protocolOf' = [k \in Handlers |-> IF k = h THEN NoProtocol ELSE protocolOf[k]]
      /\ handlerOf' = [handlerOf EXCEPT ![p] = NoHandler]
      /\ timers' = timers \ {h}
  BY DEF DeleteProtocol
<1>6. UNCHANGED <<deadH, batch, current, pc>>
  BY DEF loop
<1>7. LiveProtocols' = LiveProtocols \ {p} /\ LiveHandlers' = LiveHandlers \ {h}
  BY <1>0, <1>1, <1>4, <1>5 DEF LiveProtocols, LiveHandlers, Live
<1>8. h = NoHandler \/ (h \in LiveHandlers /\ protocolOf[h] = p)
  BY <1>0, <1>1 DEF IInv, Carried, HandlersMutual, LiveHandlers
<1>9. \A k \in LiveHandlers : protocolOf[k] \in LiveProtocols /\ handlerOf[protocolOf[k]] = k
  BY <1>0 DEF IInv, Carried, HandlersMutual, LiveHandlers, LiveProtocols
<1>10. /\ enqueued \subseteq deadP /\ deadP \cap activeP = {} /\ deadP \cup activeP = LiveProtocols
       /\ LiveProtocols \subseteq Protocols /\ LiveHandlers \subseteq Handlers
  BY DEF IInv, Lists, NoDoubleFree, LiveProtocols, LiveHandlers
<1> HIDE DEF h, new
<1>11. new \subseteq LiveProtocols \ {p} /\ Taken(p) \subseteq new \cup enqueued
  BY <1>3 DEF new
<1>12. TypeOK'
  <2>1. object' \in [Protocols -> {"none", "live", "freed", "rejected"}]
    BY <1>0, <1>4
  <2>2. handler' \in [Handlers -> {"none", "live", "freed"}]
    BY <1>0, <1>5
  <2>3. /\ near' \in [Protocols -> Protocols \cup {NoProtocol}]
        /\ far' \in [Protocols -> Protocols \cup {NoProtocol}]
    BY <1>0, <1>4
  <2>4. handlerOf' \in [Protocols -> Handlers \cup {NoHandler}]
    BY <1>0, <1>5
  <2>5. protocolOf' \in [Handlers -> Protocols \cup {NoProtocol}]
    BY <1>0, <1>5
  <2>6. /\ activeP' \subseteq Protocols /\ deadP' \subseteq Protocols
        /\ enqueued' \subseteq Protocols /\ graceful' \subseteq Protocols
        /\ keepsNear' \subseteq Protocols /\ output' \subseteq Protocols
        /\ registered' \subseteq Protocols
        /\ timers' \subseteq Handlers
    BY <1>3, <1>4, <1>5, <1>10, <1>11, Types DEF IInv
  <2> QED BY <1>6, <2>1, <2>2, <2>3, <2>4, <2>5, <2>6, Types DEF IInv, TypeOK
<1>13. Numbered'
  <2>1. \A q \in Protocols : object'[q] = "none" <=> object[q] = "none"
    BY <1>0, <1>1, <1>4
  <2>2. \A k \in Handlers : handler'[k] = "none" <=> handler[k] = "none"
    BY <1>0, <1>5, <1>8 DEF LiveHandlers
  <2> QED BY <2>1, <2>2 DEF IInv, Numbered
<1>14. Chains'
  <2>1. LinksMutual'
    <3> SUFFICES ASSUME NEW q \in LiveProtocols'
                 PROVE  /\ near'[q] # NoProtocol => Live(near[q])' /\ far'[near'[q]] = q
                        /\ far'[q] # NoProtocol => Live(far[q])' /\ near'[far'[q]] = q
      BY DEF LinksMutual
    <3>1. q \in LiveProtocols /\ q # p /\ q \in Protocols
      BY <1>7, <1>10
    <3>2. ASSUME near'[q] # NoProtocol PROVE near'[q] \in LiveProtocols' /\ far'[near'[q]] = q
      <4>1. near'[q] = near[q] /\ q # far[p] /\ near[q] \in LiveProtocols /\ far[near[q]] = q
        BY <1>2, <1>4, <3>1, <3>2
      <4>2. near[q] # p /\ near[q] # near[p]
        BY <1>0, <1>1, <1>2, <1>10, <3>1, <4>1
      <4> QED BY <1>4, <1>7, <1>10, <4>1, <4>2
    <3>3. ASSUME far'[q] # NoProtocol PROVE far'[q] \in LiveProtocols' /\ near'[far'[q]] = q
      <4>1. far'[q] = far[q] /\ q # near[p] /\ far[q] \in LiveProtocols /\ near[far[q]] = q
        BY <1>2, <1>4, <3>1, <3>3
      <4>2. far[q] # p /\ far[q] # far[p]
        BY <1>0, <1>1, <1>2, <1>10, <3>1, <4>1
      <4> QED BY <1>4, <1>7, <1>10, <4>1, <4>2
    <3> QED BY <3>2, <3>3 DEF LiveProtocols, Live
  <2>2. Unlinked'
    <3> SUFFICES ASSUME NEW q \in Protocols, q \notin LiveProtocols'
                 PROVE  near'[q] = NoProtocol /\ far'[q] = NoProtocol /\ handlerOf'[q] = NoHandler
      BY DEF Unlinked, LiveProtocols, Live
    <3>1. CASE q = p
      BY <1>0, <1>4, <1>5, <3>1
    <3>2. CASE q # p
      <4>1. near[q] = NoProtocol /\ far[q] = NoProtocol /\ handlerOf[q] = NoHandler
        BY <1>7, <3>2 DEF IInv, Chains, Unlinked, LiveProtocols
      <4> QED BY <1>0, <1>4, <1>5, <4>1
    <3> QED BY <3>1, <3>2
  <2>3. Ending(near') /\ Ending(far')
    <3>1. Ending(near) /\ Ending(far)
      BY DEF IInv, Chains
    <3>2. \A q \in Protocols : near'[q] = near[q] \/ near'[q] = NoProtocol
      BY <1>4
    <3>3. \A q \in Protocols : far'[q] = far[q] \/ far'[q] = NoProtocol
      BY <1>4
    <3> QED BY <3>1, <3>2, <3>3, EndingCut
  <2>4. keepsNear' \subseteq LiveProtocols'
    BY <1>4, <1>7 DEF IInv, Chains
  <2> QED BY <2>1, <2>2, <2>3, <2>4 DEF Chains, Ending
<1>15. Carried'
  <2>1. HandlersMutual'
    <3>1. ASSUME NEW q \in LiveProtocols', handlerOf'[q] # NoHandler
          PROVE  handler'[handlerOf'[q]] = "live" /\ protocolOf'[handlerOf'[q]] = q
      <4>1. q \in LiveProtocols /\ q # p /\ handlerOf'[q] = handlerOf[q]
        BY <1>0, <1>5, <1>7, <1>10, <3>1
      <4>2. handler[handlerOf[q]] = "live" /\ protocolOf[handlerOf[q]] = q /\ handlerOf[q] \in Handlers
        BY <1>0, <1>10, <4>1, <3>1 DEF IInv, Carried, HandlersMutual
      <4> QED BY <1>0, <1>5, <1>8, <4>1, <4>2
    <3>2. ASSUME NEW k \in LiveHandlers', protocolOf'[k] # NoProtocol
          PROVE  protocolOf'[k] \in LiveProtocols' /\ handlerOf'[protocolOf'[k]] = k
      BY <1>0, <1>1, <1>5, <1>7, <1>9, <1>10, <3>2 DEF h
    <3> QED BY <3>1, <3>2 DEF HandlersMutual, LiveProtocols, Live
  <2>2. timers' \subseteq LiveHandlers'
    BY <1>5, <1>7 DEF IInv, Carried
  <2>3. \A k \in Handlers : handler'[k] = "live" <=> protocolOf'[k] # NoProtocol
    BY <1>0, <1>5 DEF IInv, Carried
  <2>4. \A q \in Protocols : handlerOf'[q] # NoHandler => far'[q] = NoProtocol /\ q \notin keepsNear'
    BY <1>0, <1>4, <1>5 DEF IInv, Carried
  <2>5. ASSUME NEW k \in LiveHandlers' \ timers'
        PROVE  near'[protocolOf'[k]] # NoProtocol \/ protocolOf'[k] \in deadP'
    <3>1. k \in LiveHandlers \ timers /\ k # h /\ k \in Handlers
      BY <1>5, <1>7, <1>10
    <3>2. protocolOf'[k] = protocolOf[k] /\ protocolOf[k] \in LiveProtocols \ {p}
      BY <1>0, <1>5, <1>9, <3>1 DEF h
    <3>3. near[protocolOf[k]] # NoProtocol \/ protocolOf[k] \in deadP
      BY <3>1 DEF IInv, Carried
    <3>4. CASE protocolOf[k] \in deadP
      BY <1>4, <3>2, <3>4
    <3>5. CASE protocolOf[k] = far[p]
      BY <1>0, <1>3, <1>4, <1>10, <1>11, <3>2, <3>5
    <3>6. CASE protocolOf[k] # far[p] /\ near[protocolOf[k]] # NoProtocol
      BY <1>4, <1>10, <3>2, <3>6
    <3> QED BY <3>3, <3>4, <3>5, <3>6
  <2> QED BY <2>1, <2>2, <2>3, <2>4, <2>5 DEF Carried
<1>16. Lists'
  <2>1. NoDoubleFree'
    BY <1>1, <1>4, <1>6, <1>7, <1>10, <1>11 DEF NoDoubleFree
  <2>2. RegisteredAreActive'
    <3> SUFFICES ASSUME NEW q \in registered' PROVE q \in activeP' \/ object'[q] = "rejected"
      BY DEF RegisteredAreActive
    <3>1. q \in registered /\ q \notin new /\ q \in Protocols
      BY <1>4, Types DEF IInv
    <3>2. q \in activeP \/ object[q] = "rejected"
      BY <3>1 DEF IInv, Lists, RegisteredAreActive
    <3>3. q # p
      BY <1>1, <1>10, <3>2
    <3> QED BY <1>0, <1>4, <3>1, <3>2, <3>3
  <2>3. enqueued' \subseteq deadP'
    BY <1>4, <1>10, <1>11
  <2> QED BY <2>1, <2>2, <2>3 DEF Lists
<1>17. Phases'
  BY <1>4, <1>6, <1>7, <1>1 DEF IInv, Phases
<1> QED BY <1>12, <1>13, <1>14, <1>15, <1>16, <1>17 DEF IInv

------------------------------------------------------------------------------
(* What OnEvent builds: new ids, new links and new handlers.               *)

LEMMA State ==
    ASSUME IInv
    PROVE  /\ object \in [Protocols -> {"none", "live", "freed", "rejected"}]
           /\ handler \in [Handlers -> {"none", "live", "freed"}]
           /\ near \in [Protocols -> Protocols \cup {NoProtocol}]
           /\ far \in [Protocols -> Protocols \cup {NoProtocol}]
           /\ handlerOf \in [Protocols -> Handlers \cup {NoHandler}]
           /\ protocolOf \in [Handlers -> Protocols \cup {NoProtocol}]
           /\ NoProtocol \notin Protocols /\ NoHandler \notin Handlers /\ Service \notin Handlers
           /\ LiveProtocols \subseteq Protocols /\ LiveHandlers \subseteq Handlers
           /\ keepsNear \subseteq LiveProtocols /\ timers \subseteq LiveHandlers
           /\ deadH \subseteq LiveHandlers
           /\ enqueued \subseteq deadP /\ deadP \cap activeP = {}
           /\ deadP \cup activeP = LiveProtocols
           /\ \A q \in LiveProtocols :
                /\ near[q] # NoProtocol => near[q] \in LiveProtocols /\ far[near[q]] = q
                /\ far[q] # NoProtocol => far[q] \in LiveProtocols /\ near[far[q]] = q
           /\ \A q \in Protocols \ LiveProtocols :
                near[q] = NoProtocol /\ far[q] = NoProtocol /\ handlerOf[q] = NoHandler
           /\ \A q \in Protocols : handlerOf[q] # NoHandler =>
                handlerOf[q] \in LiveHandlers /\ protocolOf[handlerOf[q]] = q
           /\ \A h \in LiveHandlers :
                protocolOf[h] \in LiveProtocols /\ handlerOf[protocolOf[h]] = h
<1>1. /\ object \in [Protocols -> {"none", "live", "freed", "rejected"}]
      /\ handler \in [Handlers -> {"none", "live", "freed"}]
      /\ near \in [Protocols -> Protocols \cup {NoProtocol}]
      /\ far \in [Protocols -> Protocols \cup {NoProtocol}]
      /\ handlerOf \in [Protocols -> Handlers \cup {NoHandler}]
      /\ protocolOf \in [Handlers -> Protocols \cup {NoProtocol}]
      /\ NoProtocol \notin Protocols /\ NoHandler \notin Handlers /\ Service \notin Handlers
  BY Types, NullAssumption DEF IInv, NullAssumption
<1>2. /\ LiveProtocols \subseteq Protocols /\ LiveHandlers \subseteq Handlers
      /\ keepsNear \subseteq LiveProtocols /\ timers \subseteq LiveHandlers
      /\ deadH \subseteq LiveHandlers
      /\ enqueued \subseteq deadP /\ deadP \cap activeP = {}
      /\ deadP \cup activeP = LiveProtocols
  BY DEF IInv, Chains, Carried, Lists, NoDoubleFree, LiveProtocols, LiveHandlers
<1>3. /\ \A q \in LiveProtocols :
           /\ near[q] # NoProtocol => near[q] \in LiveProtocols /\ far[near[q]] = q
           /\ far[q] # NoProtocol => far[q] \in LiveProtocols /\ near[far[q]] = q
      /\ \A q \in Protocols \ LiveProtocols :
           near[q] = NoProtocol /\ far[q] = NoProtocol /\ handlerOf[q] = NoHandler
  BY <1>1 DEF IInv, Chains, LinksMutual, Unlinked, LiveProtocols
<1>4. /\ \A q \in Protocols : handlerOf[q] # NoHandler =>
           handlerOf[q] \in LiveHandlers /\ protocolOf[handlerOf[q]] = q
      /\ \A h \in LiveHandlers :
           protocolOf[h] \in LiveProtocols /\ handlerOf[protocolOf[h]] = h
  BY <1>1, <1>3 DEF IInv, Carried, HandlersMutual, LiveProtocols, LiveHandlers
<1> QED BY <1>1, <1>2, <1>3, <1>4

\* Nothing knows the protocols to come.
LEMMA Fresh ==
    ASSUME IInv
    PROVE  /\ NextProtocol \in Nat \ {0}
           /\ \A q \in Protocols : q >= NextProtocol => object[q] = "none" /\ q \notin LiveProtocols
           /\ \A q \in Protocols : q < NextProtocol => object[q] # "none"
           /\ \A q \in LiveProtocols : q < NextProtocol
<1>1. PICK n \in 0 .. MaxProtocols : \A p \in Protocols : object[p] = "none" <=> p > n
  BY DEF IInv, Numbered
<1>2. NextProtocol = n + 1
  BY <1>1, NextProtocolIs
<1> QED BY <1>1, <1>2, BoundAssumption DEF Protocols, BoundAssumption, LiveProtocols, Live

LEMMA ProtocolsNumbered ==
    ASSUME IInv, NEW last \in Protocols, last >= NextProtocol,
           \A p \in Protocols : object'[p] = "none" <=> object[p] = "none" /\ p \notin NextProtocol .. last
    PROVE  \E n \in 0 .. MaxProtocols : \A p \in Protocols : object'[p] = "none" <=> p > n
<1>1. last \in 0 .. MaxProtocols /\ Protocols \subseteq Nat
  BY BoundAssumption DEF Protocols, BoundAssumption
<1>2. \A p \in Protocols : object'[p] = "none" <=> p > last
  BY <1>1, Fresh
<1> QED BY <1>1, <1>2

\* A new handler and the protocol it gets.
LEMMA Binds ==
    ASSUME IInv, NEW p \in Protocols, p \notin LiveProtocols, Bound(p, NextHandler)
    PROVE  /\ handler' \in [Handlers -> {"none", "live", "freed"}]
           /\ handlerOf' \in [Protocols -> Handlers \cup {NoHandler}]
           /\ protocolOf' \in [Handlers -> Protocols \cup {NoProtocol}]
           /\ \E n \in 0 .. MaxHandlers : \A h \in Handlers : handler'[h] = "none" <=> h > n
           /\ NextHandler \in Handlers \ LiveHandlers
           /\ LiveHandlers' = LiveHandlers \cup {NextHandler}
           /\ \A h \in Handlers : handler'[h] = "live" <=> protocolOf'[h] # NoProtocol
           /\ \A h \in LiveHandlers : protocolOf'[h] = protocolOf[h]
           /\ protocolOf'[NextHandler] = p /\ handlerOf'[p] = NextHandler
           /\ \A q \in Protocols \ {p} : handlerOf'[q] = handlerOf[q]
           /\ (LiveProtocols \cup {p} \subseteq LiveProtocols' => HandlersMutual')
<1>1. PICK n \in 0 .. MaxHandlers : \A h \in Handlers : handler[h] = "none" <=> h > n
  BY DEF IInv, Numbered
<1>2. NextHandler = n + 1
  BY <1>1, NextHandlerIs
<1> DEFINE h == NextHandler
<1>3. /\ h \in Handlers
      /\ handler' = [handler EXCEPT ![h] = "live"]
      /\ handlerOf' = [handlerOf EXCEPT ![p] = h]
      /\ protocolOf' = [protocolOf EXCEPT ![h] = p]
  BY DEF Bound
<1>4. handler[h] = "none" /\ h \notin LiveHandlers
  BY <1>1, <1>2, <1>3, BoundAssumption DEF Handlers, BoundAssumption, LiveHandlers
<1>5. \E m \in 0 .. MaxHandlers : \A k \in Handlers : handler'[k] = "none" <=> k > m
  <2>1. h \in 0 .. MaxHandlers /\ Handlers \subseteq Nat /\ n \in Nat
    BY <1>3, BoundAssumption DEF Handlers, BoundAssumption
  <2>2. \A k \in Handlers : handler'[k] = "none" <=> k > h
    BY <1>1, <1>2, <1>3, <2>1, State
  <2> QED BY <2>1, <2>2
<1> HIDE DEF h
<1>6. /\ handler' \in [Handlers -> {"none", "live", "freed"}]
      /\ handlerOf' \in [Protocols -> Handlers \cup {NoHandler}]
      /\ protocolOf' \in [Handlers -> Protocols \cup {NoProtocol}]
  BY <1>3, State
<1>7. LiveHandlers' = LiveHandlers \cup {h}
  BY <1>3, State DEF LiveHandlers
<1>8. \A k \in Handlers : handler'[k] = "live" <=> protocolOf'[k] # NoProtocol
  BY <1>3, State DEF IInv, Carried
<1>9. /\ \A k \in LiveHandlers : protocolOf'[k] = protocolOf[k]
      /\ protocolOf'[h] = p /\ handlerOf'[p] = h
      /\ \A q \in Protocols \ {p} : handlerOf'[q] = handlerOf[q]
  BY <1>3, <1>4, State
<1>10. ASSUME LiveProtocols \cup {p} \subseteq LiveProtocols' PROVE HandlersMutual'
  <2>0. LiveProtocols' \subseteq Protocols
    BY DEF LiveProtocols
  <2>1. ASSUME NEW q \in LiveProtocols', handlerOf'[q] # NoHandler
        PROVE  handlerOf'[q] \in LiveHandlers' /\ protocolOf'[handlerOf'[q]] = q
    BY <1>7, <1>9, <2>0, <2>1, State
  <2>2. ASSUME NEW k \in LiveHandlers', protocolOf'[k] # NoProtocol
        PROVE  protocolOf'[k] \in LiveProtocols' /\ handlerOf'[protocolOf'[k]] = k
    <3>1. CASE k = h
      BY <1>9, <1>10, <3>1
    <3>2. CASE k \in LiveHandlers
      <4>1. protocolOf'[k] = protocolOf[k] /\ protocolOf[k] \in LiveProtocols /\ protocolOf[k] # p
        BY <1>9, <3>2, State
      <4> QED BY <1>9, <1>10, <3>2, <4>1, State
    <3> QED BY <1>7, <3>1, <3>2
  <2> QED BY <2>1, <2>2 DEF HandlersMutual, LiveProtocols, LiveHandlers, Live
<1> QED BY <1>3, <1>4, <1>5, <1>6, <1>7, <1>8, <1>9, <1>10 DEF h

\* A new chain, from the far end a to the near end b.
LEMMA LinksChain ==
    ASSUME IInv, NEW a \in Nat, NEW b \in Nat, a >= NextProtocol, a .. b \subseteq Protocols,
           Linked(a, b), LiveProtocols' = LiveProtocols \cup (a .. b)
    PROVE  /\ near' \in [Protocols -> Protocols \cup {NoProtocol}]
           /\ far' \in [Protocols -> Protocols \cup {NoProtocol}]
           /\ \A q \in LiveProtocols : near'[q] = near[q] /\ far'[q] = far[q]
           /\ \A q \in Protocols \ LiveProtocols' : near'[q] = NoProtocol /\ far'[q] = NoProtocol
           /\ \A q \in a .. b : /\ q < b => near'[q] = q + 1
                                /\ q = a => far'[q] = NoProtocol
           /\ LinksMutual' /\ Ending(near') /\ Ending(far')
<1>0. Protocols \subseteq Nat
  BY BoundAssumption DEF Protocols, BoundAssumption
<1>1. /\ \A q \in Protocols : near'[q] = IF q \in a .. b - 1 THEN q + 1 ELSE near[q]
      /\ \A q \in Protocols : far'[q] = IF q \in a + 1 .. b THEN q - 1 ELSE far[q]
  BY DEF Linked
<1>2. /\ \A q \in a .. b : q \in Protocols /\ near[q] = NoProtocol /\ far[q] = NoProtocol
      /\ \A q \in LiveProtocols : q < a /\ q \in Protocols
  <2>1. \A q \in a .. b : q >= NextProtocol
    BY Fresh
  <2>2. \A q \in a .. b : q \in Protocols \ LiveProtocols
    BY <2>1, Fresh
  <2>3. \A q \in LiveProtocols : q < a /\ q \in Protocols
    BY <1>0, Fresh DEF LiveProtocols
  <2> QED BY <2>2, <2>3, State
<1>3. /\ \A q \in a .. b : q < b => near'[q] = q + 1
      /\ \A q \in a .. b : q = b => near'[q] = NoProtocol
      /\ \A q \in a .. b : q > a => far'[q] = q - 1
      /\ \A q \in a .. b : q = a => far'[q] = NoProtocol
  BY <1>1, <1>2
<1>4. \A q \in LiveProtocols : near'[q] = near[q] /\ far'[q] = far[q]
  <2>1. \A q \in LiveProtocols : q \in Protocols /\ q \notin a .. b - 1 /\ q \notin a + 1 .. b
    BY <1>0, <1>2
  <2> QED BY <1>1, <2>1
<1>5. \A q \in Protocols \ LiveProtocols' : near'[q] = NoProtocol /\ far'[q] = NoProtocol
  <2>1. \A q \in Protocols \ LiveProtocols' : q \notin a .. b /\ q \notin LiveProtocols
    OBVIOUS
  <2>2. \A q \in Protocols \ LiveProtocols' : near'[q] = near[q] /\ far'[q] = far[q]
    BY <1>0, <1>1, <2>1
  <2> QED BY <2>1, <2>2, State
<1>6. /\ near' \in [Protocols -> Protocols \cup {NoProtocol}]
      /\ far' \in [Protocols -> Protocols \cup {NoProtocol}]
  <2>1. \A q \in Protocols : IF q \in a .. b - 1 THEN q + 1 \in Protocols ELSE near[q] \in Protocols \cup {NoProtocol}
    BY State
  <2>2. \A q \in Protocols : IF q \in a + 1 .. b THEN q - 1 \in Protocols ELSE far[q] \in Protocols \cup {NoProtocol}
    BY State
  <2> QED BY <2>1, <2>2 DEF Linked
<1>7. LinksMutual'
  <2>1. ASSUME NEW q \in LiveProtocols'
        PROVE  /\ near'[q] # NoProtocol => near'[q] \in LiveProtocols' /\ far'[near'[q]] = q
               /\ far'[q] # NoProtocol => far'[q] \in LiveProtocols' /\ near'[far'[q]] = q
    <3>1. CASE q \in LiveProtocols
      BY <1>4, <3>1, State
    <3>2. CASE q \in a .. b
      <4>1. ASSUME near'[q] # NoProtocol PROVE near'[q] \in LiveProtocols' /\ far'[near'[q]] = q
        <5>1. q < b /\ near'[q] = q + 1 /\ q + 1 \in a .. b /\ q + 1 > a
          BY <1>3, <3>2, <4>1
        <5> QED BY <1>3, <3>2, <5>1
      <4>2. ASSUME far'[q] # NoProtocol PROVE far'[q] \in LiveProtocols' /\ near'[far'[q]] = q
        <5>1. q > a /\ far'[q] = q - 1 /\ q - 1 \in a .. b /\ q - 1 < b
          BY <1>3, <3>2, <4>2
        <5> QED BY <1>3, <3>2, <5>1
      <4> QED BY <4>1, <4>2
    <3> QED BY <3>1, <3>2
  <2> QED BY <2>1 DEF LinksMutual, LiveProtocols, Live
<1>8. Ending(near')
  <2> SUFFICES ASSUME NEW S \in SUBSET Protocols, \A q \in S : near'[q] \in S
               PROVE  S = {}
    BY DEF Ending
  <2>1. S \cap (a .. b) = {}
    <3> SUFFICES ASSUME S \cap (a .. b) # {} PROVE FALSE
      OBVIOUS
    <3> DEFINE D == {b - q : q \in S \cap (a .. b)}
    <3>1. D \in SUBSET Nat /\ D # {}
      OBVIOUS
    <3>2. PICK d \in D : \A m \in D : d <= m
      BY <3>1, LeastNatural
    <3>3. PICK q \in S \cap (a .. b) : d = b - q
      OBVIOUS
    <3>4. CASE q = b
      BY <1>3, <3>3, <3>4, NullAssumption DEF NullAssumption
    <3>5. CASE q < b
      <4>1. q + 1 \in S \cap (a .. b)
        BY <1>3, <3>3, <3>5
      <4>2. b - (q + 1) \in D
        BY <4>1
      <4> HIDE DEF D
      <4> QED BY <3>2, <3>3, <4>2
    <3> QED BY <3>3, <3>4, <3>5
  <2>2. \A q \in S : near[q] \in S
    <3>1. \A q \in S : q \notin a .. b - 1
      BY <2>1
    <3> QED BY <1>1, <3>1
  <2> QED BY <2>2 DEF IInv, Chains, Ending
<1>9. Ending(far')
  <2> SUFFICES ASSUME NEW S \in SUBSET Protocols, \A q \in S : far'[q] \in S
               PROVE  S = {}
    BY DEF Ending
  <2>1. S \cap (a .. b) = {}
    <3> SUFFICES ASSUME S \cap (a .. b) # {} PROVE FALSE
      OBVIOUS
    <3>0. S \cap (a .. b) \in SUBSET Nat
      OBVIOUS
    <3>1. PICK q \in S \cap (a .. b) : \A m \in S \cap (a .. b) : q <= m
      BY <3>0, LeastNatural
    <3>2. CASE q = a
      BY <1>3, <3>1, <3>2, NullAssumption DEF NullAssumption
    <3>3. CASE q > a
      <4>1. q - 1 \in S \cap (a .. b)
        BY <1>3, <3>1, <3>3
      <4> QED BY <3>1, <4>1
    <3> QED BY <3>1, <3>2, <3>3
  <2>2. \A q \in S : far[q] \in S
    <3>1. \A q \in S : q \notin a + 1 .. b
      BY <2>1
    <3> QED BY <1>1, <3>1
  <2> QED BY <2>2 DEF IInv, Chains, Ending
<1> QED BY <1>3, <1>4, <1>5, <1>6, <1>7, <1>8, <1>9

\* In a callback the loop holds the events it still has, and their carriers.
LEMMA CallbackGoesOn ==
    ASSUME IInv, pc = "callback", UNCHANGED <<batch, current, pc>>, LiveHandlers \subseteq LiveHandlers',
           \A h \in (batch \cap LiveHandlers') \ timers' : near'[protocolOf'[h]] # NoProtocol
    PROVE  Phases'
BY DEF IInv, Phases

LEMMA NewConnectionStep ==
    ASSUME IInv, pc = "callback", NEW last \in Nat, NewConnection(NextProtocol, last), UNCHANGED loop
    PROVE  IInv'
<1> DEFINE first == NextProtocol
           ids   == first .. last
           h     == NextHandler
<1>1. /\ first \in Nat /\ first < last /\ ids \subseteq Protocols
      /\ first \in ids /\ last \in ids /\ first + 1 \in ids
  BY Fresh DEF NewConnection
<1>2. \A q \in ids : q \in Protocols \ LiveProtocols /\ object[q] = "none"
  BY <1>1, Fresh
<1>3. /\ object' = [p \in Protocols |-> IF p \in ids THEN "live" ELSE object[p]]
      /\ Bound(first, h) /\ Linked(first, last)
      /\ activeP' = activeP \cup ids
      /\ registered' = registered \cup {last}
      /\ keepsNear' \in {keepsNear, keepsNear \cup {last}}
  BY DEF NewConnection
<1>4. UNCHANGED <<deadP, enqueued, graceful, output, timers, deadH, batch, current, pc>>
  BY DEF NewConnection, loop
<1> HIDE DEF ids, first, h
<1>5. LiveProtocols' = LiveProtocols \cup ids
  BY <1>1, <1>3, State DEF LiveProtocols, Live
<1>6. /\ near' \in [Protocols -> Protocols \cup {NoProtocol}]
      /\ far' \in [Protocols -> Protocols \cup {NoProtocol}]
      /\ \A q \in LiveProtocols : near'[q] = near[q] /\ far'[q] = far[q]
      /\ \A q \in Protocols \ LiveProtocols' : near'[q] = NoProtocol /\ far'[q] = NoProtocol
      /\ near'[first] = first + 1 /\ far'[first] = NoProtocol
      /\ LinksMutual' /\ Ending(near') /\ Ending(far')
  BY <1>1, <1>3, <1>5, LinksChain DEF ids, first
<1>7. /\ handler' \in [Handlers -> {"none", "live", "freed"}]
      /\ handlerOf' \in [Protocols -> Handlers \cup {NoHandler}]
      /\ protocolOf' \in [Handlers -> Protocols \cup {NoProtocol}]
      /\ \E n \in 0 .. MaxHandlers : \A k \in Handlers : handler'[k] = "none" <=> k > n
      /\ h \in Handlers \ LiveHandlers
      /\ LiveHandlers' = LiveHandlers \cup {h}
      /\ \A k \in Handlers : handler'[k] = "live" <=> protocolOf'[k] # NoProtocol
      /\ \A k \in LiveHandlers : protocolOf'[k] = protocolOf[k]
      /\ protocolOf'[h] = first /\ handlerOf'[first] = h
      /\ \A q \in Protocols \ {first} : handlerOf'[q] = handlerOf[q]
      /\ HandlersMutual'
  BY <1>1, <1>2, <1>3, <1>5, Binds DEF h
<1>8. TypeOK'
  <2>1. object' \in [Protocols -> {"none", "live", "freed", "rejected"}]
    BY <1>3, State
  <2>2. activeP' \subseteq Protocols /\ registered' \subseteq Protocols /\ keepsNear' \subseteq Protocols
    BY <1>1, <1>3, Types DEF IInv
  <2> QED BY <1>4, <1>6, <1>7, <2>1, <2>2, Types DEF IInv, TypeOK
<1>9. Numbered'
  <2>1. \A p \in Protocols : object'[p] = "none" <=> object[p] = "none" /\ p \notin ids
    BY <1>3
  <2> QED BY <1>1, <1>7, <2>1, ProtocolsNumbered DEF Numbered, ids, first
<1>10. Chains'
  <2>1. Unlinked'
    <3>1. \A q \in Protocols \ LiveProtocols' : handlerOf'[q] = NoHandler
      BY <1>1, <1>5, <1>7, State
    <3> QED BY <1>6, <3>1 DEF Unlinked, LiveProtocols, Live
  <2>2. keepsNear' \subseteq LiveProtocols'
    BY <1>1, <1>3, <1>5, State
  <2> QED BY <1>6, <2>1, <2>2 DEF Chains, Ending
<1>11. Carried'
  <2>1. timers' \subseteq LiveHandlers'
    BY <1>4, <1>7, State
  <2>2. ASSUME NEW q \in Protocols, handlerOf'[q] # NoHandler
        PROVE  far'[q] = NoProtocol /\ q \notin keepsNear'
    <3>1. CASE q = first
      <4>1. first \notin keepsNear /\ first # last
        BY <1>1, <1>2, State
      <4> QED BY <1>3, <1>6, <3>1, <4>1
    <3>2. CASE q # first
      <4>1. handlerOf[q] # NoHandler /\ q \in LiveProtocols
        BY <1>7, <2>2, <3>2, State
      <4>2. far[q] = NoProtocol /\ q \notin keepsNear /\ q # last
        BY <1>1, <1>2, <4>1 DEF IInv, Carried
      <4> QED BY <1>3, <1>6, <4>1, <4>2
    <3> QED BY <3>1, <3>2
  <2>3. ASSUME NEW k \in LiveHandlers' \ timers'
        PROVE  near'[protocolOf'[k]] # NoProtocol \/ protocolOf'[k] \in deadP'
    <3>1. CASE k = h
      BY <1>1, <1>6, <1>7, <3>1, State
    <3>2. CASE k # h
      <4>1. k \in LiveHandlers \ timers
        BY <1>4, <1>7, <3>2
      <4>2. near[protocolOf[k]] # NoProtocol \/ protocolOf[k] \in deadP
        BY <4>1 DEF IInv, Carried
      <4> QED BY <1>4, <1>6, <1>7, <4>1, <4>2, State
    <3> QED BY <3>1, <3>2
  <2> QED BY <1>7, <2>1, <2>2, <2>3 DEF Carried
<1>12. Lists'
  <2>1. NoDoubleFree'
    <3>1. /\ deadH \subseteq LiveHandlers /\ deadP \cap activeP = {}
          /\ deadP \cup activeP = LiveProtocols /\ ids \cap LiveProtocols = {}
      BY <1>2, State
    <3> QED BY <1>3, <1>4, <1>5, <1>7, <3>1 DEF NoDoubleFree
  <2>2. RegisteredAreActive'
    <3> SUFFICES ASSUME NEW q \in registered' PROVE q \in activeP' \/ object'[q] = "rejected"
      BY DEF RegisteredAreActive
    <3>1. CASE q = last
      BY <1>1, <1>3, <3>1
    <3>2. CASE q \in registered
      <4>1. q \in Protocols /\ (q \in activeP \/ object[q] = "rejected")
        BY <3>2, Types DEF IInv, Lists, RegisteredAreActive
      <4> QED BY <1>2, <1>3, <4>1
    <3> QED BY <1>3, <3>1, <3>2
  <2> QED BY <1>4, <2>1, <2>2 DEF IInv, Lists
<1>13. Phases'
  <2>1. ASSUME NEW k \in (batch \cap LiveHandlers') \ timers'
        PROVE  near'[protocolOf'[k]] # NoProtocol
    <3>1. k \in LiveHandlers
      BY <1>7, State DEF IInv, Phases
    <3>2. near[protocolOf[k]] # NoProtocol
      BY <1>4, <3>1 DEF IInv, Phases
    <3> QED BY <1>6, <1>7, <3>1, <3>2, State
  <2> QED BY <1>4, <1>7, <2>1, CallbackGoesOn
<1> QED BY <1>8, <1>9, <1>10, <1>11, <1>12, <1>13 DEF IInv

LEMMA RejectedConnectionStep ==
    ASSUME IInv, pc = "callback", NEW last \in Nat, RejectedConnection(NextProtocol, last), UNCHANGED loop
    PROVE  IInv'
<1> DEFINE first == NextProtocol
           ids   == first .. last - 1
           h     == NextHandler
<1>1. /\ first \in Nat /\ first < last /\ first .. last \subseteq Protocols
      /\ ids \subseteq Protocols /\ last \in Protocols /\ last \notin ids
      /\ first \in ids /\ last - 1 \in ids /\ last - 1 \in Nat
      /\ first .. last = ids \cup {last}
  BY Fresh DEF RejectedConnection
<1>2. \A q \in ids \cup {last} : q \in Protocols \ LiveProtocols /\ object[q] = "none"
  BY <1>1, Fresh
<1>3. /\ object' = [p \in Protocols |-> IF p = last THEN "rejected"
                               ELSE IF p \in ids THEN "live" ELSE object[p]]
      /\ Bound(first, h) /\ Linked(first, last - 1)
      /\ enqueued' = enqueued \cup {last - 1}
      /\ deadP' = deadP \cup {last - 1}
      /\ activeP' = activeP \cup (first .. last - 2)
      /\ registered' \in {registered, registered \cup {last}}
  BY DEF RejectedConnection
<1>4. UNCHANGED <<keepsNear, graceful, output, timers, deadH, batch, current, pc>>
  BY DEF RejectedConnection, loop
<1>5. first .. last - 2 = ids \ {last - 1}
  BY <1>1
<1> HIDE DEF ids, first, h
<1>6. LiveProtocols' = LiveProtocols \cup ids
  BY <1>1, <1>2, <1>3, State DEF LiveProtocols, Live
<1>7. /\ near' \in [Protocols -> Protocols \cup {NoProtocol}]
      /\ far' \in [Protocols -> Protocols \cup {NoProtocol}]
      /\ \A q \in LiveProtocols : near'[q] = near[q] /\ far'[q] = far[q]
      /\ \A q \in Protocols \ LiveProtocols' : near'[q] = NoProtocol /\ far'[q] = NoProtocol
      /\ (first < last - 1 => near'[first] = first + 1) /\ far'[first] = NoProtocol
      /\ LinksMutual' /\ Ending(near') /\ Ending(far')
  BY <1>1, <1>3, <1>6, LinksChain DEF ids, first
<1>8. /\ handler' \in [Handlers -> {"none", "live", "freed"}]
      /\ handlerOf' \in [Protocols -> Handlers \cup {NoHandler}]
      /\ protocolOf' \in [Handlers -> Protocols \cup {NoProtocol}]
      /\ \E n \in 0 .. MaxHandlers : \A k \in Handlers : handler'[k] = "none" <=> k > n
      /\ h \in Handlers \ LiveHandlers
      /\ LiveHandlers' = LiveHandlers \cup {h}
      /\ \A k \in Handlers : handler'[k] = "live" <=> protocolOf'[k] # NoProtocol
      /\ \A k \in LiveHandlers : protocolOf'[k] = protocolOf[k]
      /\ protocolOf'[h] = first /\ handlerOf'[first] = h
      /\ \A q \in Protocols \ {first} : handlerOf'[q] = handlerOf[q]
      /\ HandlersMutual'
  BY <1>1, <1>2, <1>3, <1>6, Binds DEF h
<1>9. TypeOK'
  <2>1. object' \in [Protocols -> {"none", "live", "freed", "rejected"}]
    BY <1>3, State
  <2>2. activeP' \subseteq Protocols /\ registered' \subseteq Protocols
        /\ deadP' \subseteq Protocols /\ enqueued' \subseteq Protocols
    BY <1>1, <1>3, <1>5, Types DEF IInv
  <2> QED BY <1>4, <1>7, <1>8, <2>1, <2>2, Types DEF IInv, TypeOK
<1>10. Numbered'
  <2>1. \A p \in Protocols : object'[p] = "none" <=> object[p] = "none" /\ p \notin first .. last
    BY <1>1, <1>3
  <2> QED BY <1>1, <1>8, <2>1, ProtocolsNumbered DEF Numbered, first
<1>11. Chains'
  <2>1. Unlinked'
    <3>1. \A q \in Protocols \ LiveProtocols' : handlerOf'[q] = NoHandler
      BY <1>1, <1>6, <1>8, State
    <3> QED BY <1>7, <3>1 DEF Unlinked, LiveProtocols, Live
  <2>2. keepsNear' \subseteq LiveProtocols'
    BY <1>4, <1>6, State
  <2> QED BY <1>7, <2>1, <2>2 DEF Chains, Ending
<1>12. Carried'
  <2>1. timers' \subseteq LiveHandlers'
    BY <1>4, <1>8, State
  <2>2. ASSUME NEW q \in Protocols, handlerOf'[q] # NoHandler
        PROVE  far'[q] = NoProtocol /\ q \notin keepsNear'
    <3>1. CASE q = first
      BY <1>1, <1>2, <1>4, <1>7, <3>1, State
    <3>2. CASE q # first
      <4>1. handlerOf[q] # NoHandler /\ q \in LiveProtocols
        BY <1>8, <2>2, <3>2, State
      <4>2. far[q] = NoProtocol /\ q \notin keepsNear
        BY <4>1 DEF IInv, Carried
      <4> QED BY <1>4, <1>7, <4>1, <4>2
    <3> QED BY <3>1, <3>2
  <2>3. ASSUME NEW k \in LiveHandlers' \ timers'
        PROVE  near'[protocolOf'[k]] # NoProtocol \/ protocolOf'[k] \in deadP'
    <3>1. CASE k = h
      <4>1. CASE first < last - 1
        <5>1. first + 1 \in Protocols
          BY <1>1, <4>1
        <5> QED BY <1>7, <1>8, <3>1, <4>1, <5>1, State
      <4>2. CASE first = last - 1
        BY <1>3, <1>8, <3>1, <4>2
      <4> QED BY <1>1, <4>1, <4>2
    <3>2. CASE k # h
      <4>1. k \in LiveHandlers \ timers
        BY <1>4, <1>8, <3>2
      <4>2. near[protocolOf[k]] # NoProtocol \/ protocolOf[k] \in deadP
        BY <4>1 DEF IInv, Carried
      <4> QED BY <1>3, <1>7, <1>8, <4>1, <4>2, State
    <3> QED BY <3>1, <3>2
  <2> QED BY <1>8, <2>1, <2>2, <2>3 DEF Carried
<1>13. Lists'
  <2>1. NoDoubleFree'
    BY <1>1, <1>2, <1>3, <1>4, <1>5, <1>6, <1>8, State DEF NoDoubleFree
  <2>2. RegisteredAreActive'
    <3> SUFFICES ASSUME NEW q \in registered' PROVE q \in activeP' \/ object'[q] = "rejected"
      BY DEF RegisteredAreActive
    <3>1. CASE q = last
      BY <1>1, <1>3, <3>1
    <3>2. CASE q \in registered
      <4>1. q \in Protocols /\ (q \in activeP \/ object[q] = "rejected")
        BY <3>2, Types DEF IInv, Lists, RegisteredAreActive
      <4> QED BY <1>2, <1>3, <4>1
    <3> QED BY <1>3, <3>1, <3>2
  <2>3. enqueued' \subseteq deadP'
    BY <1>3, State
  <2> QED BY <2>1, <2>2, <2>3 DEF Lists
<1>14. Phases'
  <2>1. ASSUME NEW k \in (batch \cap LiveHandlers') \ timers'
        PROVE  near'[protocolOf'[k]] # NoProtocol
    <3>1. k \in LiveHandlers
      BY <1>8, State DEF IInv, Phases
    <3>2. near[protocolOf[k]] # NoProtocol
      BY <1>4, <3>1 DEF IInv, Phases
    <3> QED BY <1>7, <1>8, <3>1, <3>2, State
  <2> QED BY <1>4, <1>8, <2>1, CallbackGoesOn
<1> QED BY <1>9, <1>10, <1>11, <1>12, <1>13, <1>14 DEF IInv

\* The handlers as they were, under chains that have grown or been cut.
LEMMA CarriersStay ==
    ASSUME IInv, pc = "callback", UNCHANGED <<handler, handlerOf, protocolOf, timers, batch, current, pc>>,
           LiveProtocols \subseteq LiveProtocols', deadP \subseteq deadP',
           \A q \in Protocols : handlerOf[q] # NoHandler =>
              /\ far'[q] = NoProtocol /\ q \notin keepsNear'
              /\ near[q] # NoProtocol => near'[q] # NoProtocol
    PROVE  Carried' /\ Phases' /\ LiveHandlers' = LiveHandlers
<1>1. LiveHandlers' = LiveHandlers
  BY DEF LiveHandlers
<1>2. HandlersMutual'
  <2>1. \A q \in Protocols : handlerOf'[q] # NoHandler =>
          handlerOf'[q] \in LiveHandlers' /\ protocolOf'[handlerOf'[q]] = q
    BY <1>1, State
  <2>2. \A h \in LiveHandlers' :
          protocolOf'[h] \in LiveProtocols' /\ handlerOf'[protocolOf'[h]] = h
    BY <1>1, State
  <2> QED BY <2>1, <2>2 DEF HandlersMutual, LiveProtocols, LiveHandlers, Live
<1>3. ASSUME NEW h \in LiveHandlers
      PROVE  /\ protocolOf'[h] = protocolOf[h]
             /\ near[protocolOf[h]] # NoProtocol => near'[protocolOf[h]] # NoProtocol
  <2>1. protocolOf[h] \in Protocols /\ handlerOf[protocolOf[h]] # NoHandler
    BY State
  <2> QED BY <2>1
<1>4. \A h \in LiveHandlers' \ timers' : near'[protocolOf'[h]] # NoProtocol \/ protocolOf'[h] \in deadP'
  BY <1>1, <1>3 DEF IInv, Carried
<1>5. Carried'
  BY <1>1, <1>2, <1>4 DEF IInv, Carried
<1>6. \A h \in (batch \cap LiveHandlers') \ timers' : near'[protocolOf'[h]] # NoProtocol
  BY <1>1, <1>3 DEF IInv, Phases
<1> QED BY <1>1, <1>5, <1>6, CallbackGoesOn

LEMMA ChainFailsStep ==
    ASSUME IInv, pc = "callback", NEW last \in Nat, last >= NextProtocol,
           ChainFails(NextProtocol, last), UNCHANGED loop
    PROVE  IInv'
<1> DEFINE first == NextProtocol
           ids   == first + 1 .. last
           dead  == {first + 1} \cap (first .. last)
<1>1. /\ first \in Nat /\ first \in Protocols /\ last \in Protocols
      /\ ids \subseteq Protocols /\ first \notin ids /\ first + 1 \in Nat
      /\ first .. last = ids \cup {first}
      /\ dead \subseteq ids /\ first + 2 .. last = ids \ dead
  <2>1. first \in first .. last /\ last \in first .. last /\ ids \subseteq first .. last
    BY Fresh
  <2>2. first .. last \subseteq Protocols
    BY DEF ChainFails
  <2>3. first .. last = ids \cup {first} /\ first + 2 .. last = ids \ dead /\ dead \subseteq ids
    BY <2>1
  <2> QED BY <2>1, <2>2, <2>3, Fresh
<1>2. \A q \in ids \cup {first} : q \in Protocols \ LiveProtocols /\ object[q] = "none"
  BY <1>1, Fresh
<1>3. /\ object' = [p \in Protocols |-> IF p = first THEN "freed"
                                 ELSE IF p \in ids THEN "live" ELSE object[p]]
      /\ Linked(first + 1, last)
      /\ enqueued' = enqueued \cup dead
      /\ deadP' = deadP \cup dead
      /\ activeP' = activeP \cup (ids \ dead)
  BY <1>1 DEF ChainFails
<1>4. UNCHANGED <<keepsNear, registered, graceful, output, handler, handlerOf, protocolOf, timers,
                  deadH, batch, current, pc>>
  BY DEF ChainFails, loop, carriers
<1> HIDE DEF ids, first, dead
<1>5. LiveProtocols' = LiveProtocols \cup ids /\ LiveHandlers' = LiveHandlers
  BY <1>1, <1>2, <1>3, <1>4, State DEF LiveProtocols, LiveHandlers, Live
<1>6. /\ near' \in [Protocols -> Protocols \cup {NoProtocol}]
      /\ far' \in [Protocols -> Protocols \cup {NoProtocol}]
      /\ \A q \in LiveProtocols : near'[q] = near[q] /\ far'[q] = far[q]
      /\ \A q \in Protocols \ LiveProtocols' : near'[q] = NoProtocol /\ far'[q] = NoProtocol
      /\ LinksMutual' /\ Ending(near') /\ Ending(far')
  BY <1>1, <1>3, <1>5, LinksChain DEF ids, first
<1>7. TypeOK'
  <2>1. object' \in [Protocols -> {"none", "live", "freed", "rejected"}]
    BY <1>3, State
  <2>2. activeP' \subseteq Protocols /\ deadP' \subseteq Protocols /\ enqueued' \subseteq Protocols
    BY <1>1, <1>3, Types DEF IInv
  <2> QED BY <1>4, <1>6, <2>1, <2>2, Types DEF IInv, TypeOK
<1>8. Numbered'
  <2>1. \A p \in Protocols : object'[p] = "none" <=> object[p] = "none" /\ p \notin first .. last
    BY <1>1, <1>3
  <2>2. \E n \in 0 .. MaxHandlers : \A h \in Handlers : handler'[h] = "none" <=> h > n
    BY <1>4 DEF IInv, Numbered
  <2> QED BY <1>1, <2>1, <2>2, ProtocolsNumbered DEF Numbered, first
<1>9. Chains'
  <2>1. Unlinked'
    <3>1. \A q \in Protocols \ LiveProtocols' : handlerOf'[q] = NoHandler
      BY <1>4, <1>5, State
    <3> QED BY <1>6, <3>1 DEF Unlinked, LiveProtocols, Live
  <2>2. keepsNear' \subseteq LiveProtocols'
    BY <1>4, <1>5, State
  <2> QED BY <1>6, <2>1, <2>2 DEF Chains, Ending
<1>10. Carried' /\ Phases'
  <2>1. \A q \in Protocols : handlerOf[q] # NoHandler => q \in LiveProtocols
    BY State
  <2>2. \A q \in Protocols : handlerOf[q] # NoHandler =>
          /\ far'[q] = NoProtocol /\ q \notin keepsNear'
          /\ near[q] # NoProtocol => near'[q] # NoProtocol
    BY <1>4, <1>6, <2>1 DEF IInv, Carried
  <2> QED BY <1>3, <1>4, <1>5, <2>2, CarriersStay
<1>11. Lists'
  <2>1. NoDoubleFree'
    <3>1. /\ deadH \subseteq LiveHandlers /\ deadP \cap activeP = {}
          /\ deadP \cup activeP = LiveProtocols /\ ids \cap LiveProtocols = {}
      BY <1>2, State
    <3> QED BY <1>1, <1>3, <1>4, <1>5, <3>1 DEF NoDoubleFree
  <2>2. RegisteredAreActive'
    <3> SUFFICES ASSUME NEW q \in registered' PROVE q \in activeP' \/ object'[q] = "rejected"
      BY DEF RegisteredAreActive
    <3>1. q \in Protocols /\ (q \in activeP \/ object[q] = "rejected")
      BY <1>4, Types DEF IInv, Lists, RegisteredAreActive
    <3> QED BY <1>2, <1>3, <3>1
  <2>3. enqueued' \subseteq deadP'
    BY <1>3, State
  <2> QED BY <2>1, <2>2, <2>3 DEF Lists
<1> QED BY <1>7, <1>8, <1>9, <1>10, <1>11 DEF IInv

LEMMA NewTimerStep ==
    ASSUME IInv, pc = "callback", NewTimer(NextProtocol), UNCHANGED loop
    PROVE  IInv'
<1> DEFINE p == NextProtocol
           h == NextHandler
<1>1. p \in Protocols /\ p \notin LiveProtocols /\ object[p] = "none" /\ p \in Nat
  BY Fresh DEF NewTimer
<1>2. /\ Bound(p, h)
      /\ timers' = timers \cup {h}
      /\ object' = [object EXCEPT ![p] = "live"]
      /\ activeP' = activeP \cup {p}
      /\ registered' \in {registered, registered \cup {p}}
  BY DEF NewTimer
<1>3. UNCHANGED <<deadP, enqueued, near, far, keepsNear, graceful, output, deadH, batch, current, pc>>
  BY DEF NewTimer, links, loop
<1>4. \A q \in Protocols : object'[q] = "none" <=> object[q] = "none" /\ q \notin p .. p
  <2>1. \A q \in Protocols : q \in p .. p <=> q = p
    BY <1>1, BoundAssumption DEF Protocols, BoundAssumption
  <2> QED BY <1>1, <1>2, <2>1, State
<1>5. \E n \in 0 .. MaxProtocols : \A q \in Protocols : object'[q] = "none" <=> q > n
  BY <1>1, <1>4, ProtocolsNumbered
<1> HIDE DEF p, h
<1>6. LiveProtocols' = LiveProtocols \cup {p}
  BY <1>1, <1>2, State DEF LiveProtocols, Live
<1>7. /\ handler' \in [Handlers -> {"none", "live", "freed"}]
      /\ handlerOf' \in [Protocols -> Handlers \cup {NoHandler}]
      /\ protocolOf' \in [Handlers -> Protocols \cup {NoProtocol}]
      /\ \E n \in 0 .. MaxHandlers : \A k \in Handlers : handler'[k] = "none" <=> k > n
      /\ h \in Handlers \ LiveHandlers
      /\ LiveHandlers' = LiveHandlers \cup {h}
      /\ \A k \in Handlers : handler'[k] = "live" <=> protocolOf'[k] # NoProtocol
      /\ \A k \in LiveHandlers : protocolOf'[k] = protocolOf[k]
      /\ protocolOf'[h] = p /\ handlerOf'[p] = h
      /\ \A q \in Protocols \ {p} : handlerOf'[q] = handlerOf[q]
      /\ HandlersMutual'
  BY <1>1, <1>2, <1>6, Binds DEF h
<1>8. TypeOK'
  <2>1. object' \in [Protocols -> {"none", "live", "freed", "rejected"}]
    BY <1>2, State
  <2>2. activeP' \subseteq Protocols /\ registered' \subseteq Protocols /\ timers' \subseteq Handlers
    BY <1>1, <1>2, <1>7, Types DEF IInv
  <2> QED BY <1>3, <1>7, <2>1, <2>2, Types DEF IInv, TypeOK
<1>9. Numbered'
  BY <1>5, <1>7 DEF Numbered
<1>10. Chains'
  <2>1. LinksMutual'
    <3>1. /\ near[p] = NoProtocol /\ far[p] = NoProtocol
      BY <1>1, State
    <3>2. \A q \in LiveProtocols' :
            /\ near'[q] # NoProtocol => near'[q] \in LiveProtocols' /\ far'[near'[q]] = q
            /\ far'[q] # NoProtocol => far'[q] \in LiveProtocols' /\ near'[far'[q]] = q
      BY <1>3, <1>6, <3>1, State
    <3> QED BY <3>2 DEF LinksMutual, LiveProtocols, Live
  <2>2. Unlinked'
    <3>1. \A q \in Protocols \ LiveProtocols' :
             near'[q] = NoProtocol /\ far'[q] = NoProtocol /\ handlerOf'[q] = NoHandler
      BY <1>3, <1>6, <1>7, State
    <3> QED BY <3>1 DEF Unlinked, LiveProtocols, Live
  <2>3. keepsNear' \subseteq LiveProtocols'
    BY <1>3, <1>6, State
  <2> QED BY <1>3, <2>1, <2>2, <2>3 DEF IInv, Chains, Ending
<1>11. Carried'
  <2>1. timers' \subseteq LiveHandlers'
    BY <1>2, <1>7, State
  <2>2. ASSUME NEW q \in Protocols, handlerOf'[q] # NoHandler
        PROVE  far'[q] = NoProtocol /\ q \notin keepsNear'
    <3>1. CASE q = p
      BY <1>1, <1>3, <3>1, State
    <3>2. CASE q # p
      BY <1>3, <1>7, <2>2, <3>2 DEF IInv, Carried
    <3> QED BY <3>1, <3>2
  <2>3. \A k \in LiveHandlers' \ timers' : near'[protocolOf'[k]] # NoProtocol \/ protocolOf'[k] \in deadP'
    BY <1>2, <1>3, <1>7 DEF IInv, Carried
  <2> QED BY <1>7, <2>1, <2>2, <2>3 DEF Carried
<1>12. Lists'
  <2>1. NoDoubleFree'
    <3>1. /\ deadH \subseteq LiveHandlers /\ deadP \cap activeP = {}
          /\ deadP \cup activeP = LiveProtocols /\ p \notin LiveProtocols
      BY <1>1, State
    <3> QED BY <1>2, <1>3, <1>6, <1>7, <3>1 DEF NoDoubleFree
  <2>2. RegisteredAreActive'
    <3> SUFFICES ASSUME NEW q \in registered' PROVE q \in activeP' \/ object'[q] = "rejected"
      BY DEF RegisteredAreActive
    <3>1. CASE q = p
      BY <1>2, <3>1
    <3>2. CASE q # p
      BY <1>2, <3>2, State, Types DEF IInv, Lists, RegisteredAreActive
    <3> QED BY <3>1, <3>2
  <2> QED BY <1>3, <2>1, <2>2 DEF IInv, Lists
<1>13. Phases'
  <2>1. ASSUME NEW k \in (batch \cap LiveHandlers') \ timers'
        PROVE  near'[protocolOf'[k]] # NoProtocol
    <3>1. k \in LiveHandlers /\ k \notin timers
      BY <1>2, <1>7
    <3>2. near[protocolOf[k]] # NoProtocol
      BY <3>1 DEF IInv, Phases
    <3> QED BY <1>3, <1>7, <3>1, <3>2
  <2> QED BY <1>3, <1>7, <2>1, CallbackGoesOn
<1> QED BY <1>8, <1>9, <1>10, <1>11, <1>12, <1>13 DEF IInv

\* One new protocol.
LEMMA OneMore ==
    ASSUME IInv, NextProtocol \in Protocols, object' = [object EXCEPT ![NextProtocol] = "live"],
           UNCHANGED handler
    PROVE  /\ Numbered'
           /\ object' \in [Protocols -> {"none", "live", "freed", "rejected"}]
           /\ NextProtocol \notin LiveProtocols
           /\ LiveProtocols' = LiveProtocols \cup {NextProtocol}
           /\ RegisteredAreActive /\ \A q \in registered : q # NextProtocol /\ object'[q] = object[q]
<1> DEFINE p == NextProtocol
<1>1. p \in Protocols /\ p \notin LiveProtocols /\ object[p] = "none" /\ p \in Nat
  BY Fresh
<1>2. \A q \in Protocols : object'[q] = "none" <=> object[q] = "none" /\ q \notin p .. p
  <2>1. \A q \in Protocols : q \in p .. p <=> q = p
    BY <1>1, BoundAssumption DEF Protocols, BoundAssumption
  <2> QED BY <1>1, <2>1, State
<1>3. \E n \in 0 .. MaxProtocols : \A q \in Protocols : object'[q] = "none" <=> q > n
  BY <1>1, <1>2, ProtocolsNumbered
<1>4. Numbered'
  BY <1>3 DEF IInv, Numbered
<1>5. LiveProtocols' = LiveProtocols \cup {p}
  BY <1>1, State DEF LiveProtocols, Live
<1>6. RegisteredAreActive
  BY DEF IInv, Lists
<1>7. ASSUME NEW q \in registered PROVE q # p /\ object'[q] = object[q]
  <2>1. q \in Protocols /\ (q \in LiveProtocols \/ object[q] = "rejected")
    BY <1>6, State, Types DEF IInv, RegisteredAreActive
  <2> QED BY <1>1, <2>1, State
<1> QED BY <1>1, <1>4, <1>5, <1>6, <1>7, State

LEMMA SubstituteStep ==
    ASSUME IInv, NEW p \in Protocols, Substitute(p, NextProtocol), UNCHANGED loop
    PROVE  IInv'
<1> DEFINE q == NextProtocol
           f == far[p]
<1>1. /\ f # NoProtocol /\ near[p] = NoProtocol /\ p \notin keepsNear /\ q \in Protocols
      /\ near' = [near EXCEPT ![f] = q]
      /\ far'  = [far EXCEPT ![p] = NoProtocol, ![q] = f]
      /\ keepsNear' \in {keepsNear, keepsNear \cup {q}}
      /\ object' = [object EXCEPT ![q] = "live"]
      /\ enqueued'   = enqueued \cup {p}
      /\ registered' = (registered \ {p}) \cup (IF p \in registered THEN {q} ELSE {})
      /\ activeP'    = (activeP \ {p}) \cup {q}
      /\ deadP'      = IF p \in enqueued THEN deadP ELSE deadP \cup {p}
  BY DEF Substitute
<1>2. UNCHANGED <<graceful, output, handlerOf, protocolOf, handler, timers, deadH, batch, current, pc>>
  BY DEF Substitute, carriers, loop
<1>3. p \in LiveProtocols /\ pc = "callback"
  BY InputReachesLive DEF Substitute
<1>4. /\ Numbered'
      /\ object' \in [Protocols -> {"none", "live", "freed", "rejected"}]
      /\ q \notin LiveProtocols
      /\ LiveProtocols' = LiveProtocols \cup {q}
      /\ RegisteredAreActive /\ \A r \in registered : r # q /\ object'[r] = object[r]
  BY <1>1, <1>2, OneMore
<1> HIDE DEF q, f
<1>5. /\ f \in LiveProtocols /\ near[f] = p /\ f # q /\ p # q
      /\ near[q] = NoProtocol /\ far[q] = NoProtocol /\ handlerOf[q] = NoHandler
      /\ handlerOf[p] = NoHandler /\ f # p
  BY <1>1, <1>3, <1>4, State DEF f, IInv, Carried
<1>6. /\ near'[f] = q /\ \A r \in Protocols \ {f} : near'[r] = near[r]
      /\ far'[p] = NoProtocol /\ far'[q] = f /\ \A r \in Protocols \ {p, q} : far'[r] = far[r]
  BY <1>1, <1>3, <1>5, State
<1>7. TypeOK'
  <2>1. /\ near' \in [Protocols -> Protocols \cup {NoProtocol}]
        /\ far' \in [Protocols -> Protocols \cup {NoProtocol}]
    BY <1>1, <1>5, State
  <2>2. /\ activeP' \subseteq Protocols /\ deadP' \subseteq Protocols /\ enqueued' \subseteq Protocols
        /\ registered' \subseteq Protocols /\ keepsNear' \subseteq Protocols
    BY <1>1, Types DEF IInv
  <2> QED BY <1>2, <1>4, <2>1, <2>2, Types DEF IInv, TypeOK
<1>8. Chains'
  <2>1. LinksMutual'
    <3>1. ASSUME NEW r \in LiveProtocols', near'[r] # NoProtocol
          PROVE  near'[r] \in LiveProtocols' /\ far'[near'[r]] = r
      <4>1. CASE r = f
        BY <1>4, <1>6, <4>1
      <4>2. CASE r # f
        <5>0. r \in LiveProtocols \cup {q} /\ LiveProtocols \subseteq Protocols /\ q \in Protocols
          BY <1>1, <1>4, State
        <5>1. near'[r] = near[r] /\ r \in LiveProtocols
          BY <1>5, <1>6, <3>1, <4>2, <5>0
        <5>2. near[r] \in LiveProtocols /\ far[near[r]] = r
          BY <3>1, <5>1, State
        <5>3. near[r] # p /\ near[r] # q
          BY <1>4, <4>2, <5>2 DEF f
        <5> QED BY <1>4, <1>6, <5>1, <5>2, <5>3, State
      <4> QED BY <4>1, <4>2
    <3>2. ASSUME NEW r \in LiveProtocols', far'[r] # NoProtocol
          PROVE  far'[r] \in LiveProtocols' /\ near'[far'[r]] = r
      <4>1. CASE r = q
        BY <1>4, <1>5, <1>6, <4>1
      <4>2. CASE r # q
        <5>1. far'[r] = far[r] /\ r \in LiveProtocols /\ r # p
          BY <1>4, <1>6, <3>2, <4>2, State
        <5>2. far[r] \in LiveProtocols /\ near[far[r]] = r
          BY <3>2, <5>1, State
        <5>3. far[r] # f
          BY <1>5, <5>1, <5>2
        <5> QED BY <1>4, <1>6, <5>1, <5>2, <5>3, State
      <4> QED BY <4>1, <4>2
    <3> QED BY <3>1, <3>2 DEF LinksMutual, LiveProtocols, Live
  <2>2. Unlinked'
    <3>1. \A r \in Protocols \ LiveProtocols' :
             near'[r] = NoProtocol /\ far'[r] = NoProtocol /\ handlerOf'[r] = NoHandler
      BY <1>2, <1>3, <1>4, <1>5, <1>6, State
    <3> QED BY <3>1 DEF Unlinked, LiveProtocols, Live
  <2>3. keepsNear' \subseteq LiveProtocols'
    BY <1>1, <1>4, State
  <2>4. Ending(near')
    <3> SUFFICES ASSUME NEW S \in SUBSET Protocols, \A r \in S : near'[r] \in S
                 PROVE  S = {}
      BY DEF Ending
    <3>1. q \notin S
      BY <1>5, <1>6, State
    <3>2. f \notin S
      BY <1>6, <3>1
    <3>3. \A r \in S : near[r] \in S
      BY <1>6, <3>2
    <3> QED BY <3>3 DEF IInv, Chains, Ending
  <2>5. Ending(far')
    <3> SUFFICES ASSUME NEW S \in SUBSET Protocols, \A r \in S : far'[r] \in S
                 PROVE  S = {}
      BY DEF Ending
    <3>1. p \notin S
      BY <1>6, State
    <3>2. \A r \in S \ {q} : far[r] \in S /\ far[r] # q
      BY <1>4, <1>6, <3>1, State
    <3>3. S \ {q} = {}
      <4>1. S \ {q} \in SUBSET Protocols /\ \A r \in S \ {q} : far[r] \in S \ {q}
        BY <3>2
      <4> QED BY <4>1 DEF IInv, Chains, Ending
    <3>4. q \notin S
      BY <1>5, <1>6, <3>3
    <3> QED BY <3>3, <3>4
  <2> QED BY <2>1, <2>2, <2>3, <2>4, <2>5 DEF Chains, Ending
<1>9. Carried' /\ Phases' /\ LiveHandlers' = LiveHandlers
  <2>1. ASSUME NEW r \in Protocols, handlerOf[r] # NoHandler
        PROVE  /\ far'[r] = NoProtocol /\ r \notin keepsNear'
               /\ near[r] # NoProtocol => near'[r] # NoProtocol
    <3>1. far[r] = NoProtocol /\ r \notin keepsNear /\ r # q /\ r # p
      BY <1>5, <2>1 DEF IInv, Carried
    <3> QED BY <1>1, <1>6, <3>1, State
  <2>2. deadP \subseteq deadP' /\ LiveProtocols \subseteq LiveProtocols'
    BY <1>1, <1>4
  <2> QED BY <1>2, <1>3, <2>1, <2>2, CarriersStay
<1>10. Lists'
  <2>1. /\ deadH \subseteq LiveHandlers /\ deadP \cap activeP = {} /\ enqueued \subseteq deadP
        /\ deadP \cup activeP = LiveProtocols
    BY State
  <2>2. deadP' = deadP \cup {p}
    BY <1>1, <2>1
  <2>3. NoDoubleFree'
    BY <1>1, <1>2, <1>3, <1>4, <1>5, <1>9, <2>1, <2>2 DEF NoDoubleFree
  <2>4. RegisteredAreActive'
    BY <1>1, <1>4 DEF RegisteredAreActive
  <2>5. enqueued' \subseteq deadP'
    BY <1>1, <2>1, <2>2
  <2> QED BY <2>3, <2>4, <2>5 DEF Lists
<1> QED BY <1>4, <1>7, <1>8, <1>9, <1>10 DEF IInv

LEMMA BindSessionStep ==
    ASSUME IInv, NEW p \in Protocols, BindSession(p, NextProtocol), UNCHANGED loop
    PROVE  IInv'
<1> DEFINE q == NextProtocol
<1>1. /\ p \in keepsNear /\ near[p] = NoProtocol /\ q \in Protocols
      /\ near' = [near EXCEPT ![p] = q]
      /\ far'  = [far EXCEPT ![q] = p]
      /\ object' = [object EXCEPT ![q] = "live"]
      /\ activeP' = activeP \cup {q}
      /\ registered' = registered \cup (IF p \in registered THEN {q} ELSE {})
  BY DEF BindSession
<1>2. UNCHANGED <<keepsNear, deadP, enqueued, graceful, output, handlerOf, protocolOf, handler,
                  timers, deadH, batch, current, pc>>
  BY DEF BindSession, carriers, loop
<1>3. p \in LiveProtocols /\ pc = "callback"
  BY InputReachesLive DEF BindSession
<1>4. /\ Numbered'
      /\ object' \in [Protocols -> {"none", "live", "freed", "rejected"}]
      /\ q \notin LiveProtocols
      /\ LiveProtocols' = LiveProtocols \cup {q}
      /\ RegisteredAreActive /\ \A r \in registered : r # q /\ object'[r] = object[r]
  BY <1>1, <1>2, OneMore
<1> HIDE DEF q
<1>5. p # q /\ near[q] = NoProtocol /\ far[q] = NoProtocol /\ handlerOf[q] = NoHandler
  BY <1>1, <1>3, <1>4, State
<1>6. /\ near'[p] = q /\ \A r \in Protocols \ {p} : near'[r] = near[r]
      /\ far'[q] = p /\ \A r \in Protocols \ {q} : far'[r] = far[r]
  BY <1>1, State
<1>7. TypeOK'
  <2>1. /\ near' \in [Protocols -> Protocols \cup {NoProtocol}]
        /\ far' \in [Protocols -> Protocols \cup {NoProtocol}]
    BY <1>1, State
  <2>2. activeP' \subseteq Protocols /\ registered' \subseteq Protocols
    BY <1>1, Types DEF IInv
  <2> QED BY <1>2, <1>4, <2>1, <2>2, Types DEF IInv, TypeOK
<1>8. Chains'
  <2>0. LiveProtocols \subseteq Protocols
    BY State
  <2>1. LinksMutual'
    <3>1. ASSUME NEW r \in LiveProtocols', near'[r] # NoProtocol
          PROVE  near'[r] \in LiveProtocols' /\ far'[near'[r]] = r
      <4>1. CASE r = p
        BY <1>4, <1>6, <4>1
      <4>2. CASE r # p
        <5>1. near'[r] = near[r] /\ r \in LiveProtocols
          BY <1>1, <1>4, <1>5, <1>6, <2>0, <3>1, <4>2
        <5>2. near[r] \in LiveProtocols /\ far[near[r]] = r
          BY <3>1, <5>1, State
        <5> QED BY <1>4, <1>6, <2>0, <5>1, <5>2
      <4> QED BY <4>1, <4>2
    <3>2. ASSUME NEW r \in LiveProtocols', far'[r] # NoProtocol
          PROVE  far'[r] \in LiveProtocols' /\ near'[far'[r]] = r
      <4>1. CASE r = q
        BY <1>3, <1>4, <1>6, <4>1
      <4>2. CASE r # q
        <5>1. far'[r] = far[r] /\ r \in LiveProtocols
          BY <1>4, <1>6, <2>0, <4>2
        <5>2. far[r] \in LiveProtocols /\ near[far[r]] = r
          BY <3>2, <5>1, State
        <5>3. far[r] # p
          BY <1>1, <2>0, <5>1, <5>2, State
        <5> QED BY <1>4, <1>6, <2>0, <5>1, <5>2, <5>3
      <4> QED BY <4>1, <4>2
    <3> QED BY <3>1, <3>2 DEF LinksMutual, LiveProtocols, Live
  <2>2. Unlinked'
    <3>1. \A r \in Protocols \ LiveProtocols' :
             near'[r] = NoProtocol /\ far'[r] = NoProtocol /\ handlerOf'[r] = NoHandler
      BY <1>2, <1>3, <1>4, <1>6, State
    <3> QED BY <3>1 DEF Unlinked, LiveProtocols, Live
  <2>3. keepsNear' \subseteq LiveProtocols'
    BY <1>2, <1>4, State
  <2>4. Ending(near')
    <3> SUFFICES ASSUME NEW S \in SUBSET Protocols, \A r \in S : near'[r] \in S
                 PROVE  S = {}
      BY DEF Ending
    <3>1. q \notin S
      BY <1>5, <1>6, State
    <3>2. p \notin S
      BY <1>6, <3>1
    <3>3. \A r \in S : near[r] \in S
      BY <1>6, <3>2
    <3> QED BY <3>3 DEF IInv, Chains, Ending
  <2>5. Ending(far')
    <3> SUFFICES ASSUME NEW S \in SUBSET Protocols, \A r \in S : far'[r] \in S
                 PROVE  S = {}
      BY DEF Ending
    <3>1. \A r \in S \ {q} : far[r] \in S /\ far[r] # q
      BY <1>4, <1>6, State
    <3>2. S \ {q} = {}
      <4>1. S \ {q} \in SUBSET Protocols /\ \A r \in S \ {q} : far[r] \in S \ {q}
        BY <3>1
      <4> QED BY <4>1 DEF IInv, Chains, Ending
    <3>3. q \notin S
      BY <1>5, <1>6, <3>2
    <3> QED BY <3>2, <3>3
  <2> QED BY <2>1, <2>2, <2>3, <2>4, <2>5 DEF Chains, Ending
<1>9. Carried' /\ Phases' /\ LiveHandlers' = LiveHandlers
  <2>1. ASSUME NEW r \in Protocols, handlerOf[r] # NoHandler
        PROVE  /\ far'[r] = NoProtocol /\ r \notin keepsNear'
               /\ near[r] # NoProtocol => near'[r] # NoProtocol
    <3>1. far[r] = NoProtocol /\ r \notin keepsNear /\ r # q
      BY <1>5, <2>1 DEF IInv, Carried
    <3> QED BY <1>1, <1>2, <1>6, <3>1
  <2>2. deadP \subseteq deadP' /\ LiveProtocols \subseteq LiveProtocols'
    BY <1>2, <1>4
  <2> QED BY <1>2, <1>3, <2>1, <2>2, CarriersStay
<1>10. Lists'
  <2>1. /\ deadH \subseteq LiveHandlers /\ deadP \cap activeP = {} /\ enqueued \subseteq deadP
        /\ deadP \cup activeP = LiveProtocols
    BY State
  <2>2. NoDoubleFree'
    BY <1>1, <1>2, <1>4, <1>9, <2>1 DEF NoDoubleFree
  <2>3. RegisteredAreActive'
    BY <1>1, <1>4 DEF RegisteredAreActive
  <2> QED BY <1>2, <2>1, <2>2, <2>3 DEF Lists
<1> QED BY <1>4, <1>7, <1>8, <1>9, <1>10 DEF IInv

LEMMA InsertStep ==
    ASSUME IInv, NEW p \in Protocols, Insert(p, NextProtocol), UNCHANGED loop
    PROVE  IInv'
<1> DEFINE q == NextProtocol
           f == far[p]
<1>1. /\ f # NoProtocol /\ near[p] = NoProtocol /\ q \in Protocols
      /\ near' = [near EXCEPT ![f] = q, ![q] = p]
      /\ far'  = [far EXCEPT ![p] = q, ![q] = f]
      /\ object' = [object EXCEPT ![q] = "live"]
      /\ activeP' = activeP \cup {q}
  BY DEF Insert
<1>2. UNCHANGED <<keepsNear, deadP, enqueued, registered, graceful, output, handlerOf, protocolOf,
                  handler, timers, deadH, batch, current, pc>>
  BY DEF Insert, carriers, loop
<1>3. p \in LiveProtocols /\ pc = "callback"
  BY InputReachesLive DEF Insert
<1>4. /\ Numbered'
      /\ object' \in [Protocols -> {"none", "live", "freed", "rejected"}]
      /\ q \notin LiveProtocols
      /\ LiveProtocols' = LiveProtocols \cup {q}
      /\ RegisteredAreActive /\ \A r \in registered : r # q /\ object'[r] = object[r]
  BY <1>1, <1>2, OneMore
<1> HIDE DEF q, f
<1>5. /\ f \in LiveProtocols /\ f \in Protocols /\ near[f] = p /\ f # q /\ p # q /\ f # p
      /\ near[q] = NoProtocol /\ far[q] = NoProtocol /\ handlerOf[q] = NoHandler
      /\ handlerOf[p] = NoHandler
  BY <1>1, <1>3, <1>4, State DEF f, IInv, Carried
<1>6. /\ near'[f] = q /\ near'[q] = p /\ \A r \in Protocols \ {f, q} : near'[r] = near[r]
      /\ far'[p] = q /\ far'[q] = f /\ \A r \in Protocols \ {p, q} : far'[r] = far[r]
  BY <1>1, <1>5, State
<1>7. TypeOK'
  <2>1. /\ near' \in [Protocols -> Protocols \cup {NoProtocol}]
        /\ far' \in [Protocols -> Protocols \cup {NoProtocol}]
    BY <1>1, <1>5, State
  <2>2. activeP' \subseteq Protocols
    BY <1>1, Types DEF IInv
  <2> QED BY <1>2, <1>4, <2>1, <2>2, Types DEF IInv, TypeOK
<1>8. Chains'
  <2>0. LiveProtocols \subseteq Protocols
    BY State
  <2>1. LinksMutual'
    <3>1. ASSUME NEW r \in LiveProtocols', near'[r] # NoProtocol
          PROVE  near'[r] \in LiveProtocols' /\ far'[near'[r]] = r
      <4>1. CASE r = f
        BY <1>4, <1>6, <4>1
      <4>2. CASE r = q
        BY <1>3, <1>4, <1>6, <4>2
      <4>3. CASE r # f /\ r # q
        <5>1. near'[r] = near[r] /\ r \in LiveProtocols
          BY <1>4, <1>6, <2>0, <4>3
        <5>2. near[r] \in LiveProtocols /\ far[near[r]] = r
          BY <3>1, <5>1, State
        <5>3. near[r] # p /\ near[r] # q
          BY <1>4, <4>3, <5>2 DEF f
        <5> QED BY <1>4, <1>6, <2>0, <5>1, <5>2, <5>3
      <4> QED BY <4>1, <4>2, <4>3
    <3>2. ASSUME NEW r \in LiveProtocols', far'[r] # NoProtocol
          PROVE  far'[r] \in LiveProtocols' /\ near'[far'[r]] = r
      <4>1. CASE r = q
        BY <1>4, <1>5, <1>6, <4>1
      <4>2. CASE r = p
        BY <1>4, <1>6, <4>2
      <4>3. CASE r # q /\ r # p
        <5>1. far'[r] = far[r] /\ r \in LiveProtocols
          BY <1>4, <1>6, <2>0, <4>3
        <5>2. far[r] \in LiveProtocols /\ near[far[r]] = r
          BY <3>2, <5>1, State
        <5>3. far[r] # f /\ far[r] # q
          BY <1>4, <1>5, <4>3, <5>2
        <5> QED BY <1>4, <1>6, <2>0, <5>1, <5>2, <5>3
      <4> QED BY <4>1, <4>2, <4>3
    <3> QED BY <3>1, <3>2 DEF LinksMutual, LiveProtocols, Live
  <2>2. Unlinked'
    <3>1. \A r \in Protocols \ LiveProtocols' :
             near'[r] = NoProtocol /\ far'[r] = NoProtocol /\ handlerOf'[r] = NoHandler
      BY <1>2, <1>3, <1>4, <1>5, <1>6, State
    <3> QED BY <3>1 DEF Unlinked, LiveProtocols, Live
  <2>3. keepsNear' \subseteq LiveProtocols'
    BY <1>2, <1>4, State
  <2>4. Ending(near')
    <3> SUFFICES ASSUME NEW S \in SUBSET Protocols, \A r \in S : near'[r] \in S
                 PROVE  S = {}
      BY DEF Ending
    <3>1. p \notin S
      BY <1>1, <1>5, <1>6, State
    <3>2. q \notin S /\ f \notin S
      BY <1>6, <3>1
    <3>3. \A r \in S : near[r] \in S
      BY <1>6, <3>2
    <3> QED BY <3>3 DEF IInv, Chains, Ending
  <2>5. Ending(far')
    <3> SUFFICES ASSUME NEW S \in SUBSET Protocols, \A r \in S : far'[r] \in S
                 PROVE  S = {}
      BY DEF Ending
    <3>1. p \in S \/ q \in S => f \in S
      BY <1>6
    <3>2. \A r \in S \ {q} : far[r] \in S /\ far[r] # q
      <4>1. ASSUME NEW r \in S \ {q}, r # p PROVE far[r] \in S /\ far[r] # q
        BY <1>4, <1>6, <4>1, State
      <4>2. p \in S => far[p] \in S /\ far[p] # q
        BY <1>5, <3>1 DEF f
      <4> QED BY <4>1, <4>2
    <3>3. S \ {q} = {}
      <4>1. S \ {q} \in SUBSET Protocols /\ \A r \in S \ {q} : far[r] \in S \ {q}
        BY <3>2
      <4> QED BY <4>1 DEF IInv, Chains, Ending
    <3> QED BY <1>5, <3>1, <3>3
  <2> QED BY <2>1, <2>2, <2>3, <2>4, <2>5 DEF Chains, Ending
<1>9. Carried' /\ Phases' /\ LiveHandlers' = LiveHandlers
  <2>1. ASSUME NEW r \in Protocols, handlerOf[r] # NoHandler
        PROVE  /\ far'[r] = NoProtocol /\ r \notin keepsNear'
               /\ near[r] # NoProtocol => near'[r] # NoProtocol
    <3>1. far[r] = NoProtocol /\ r \notin keepsNear /\ r # q /\ r # p
      BY <1>5, <2>1 DEF IInv, Carried
    <3> QED BY <1>1, <1>2, <1>6, <3>1, State
  <2>2. deadP \subseteq deadP' /\ LiveProtocols \subseteq LiveProtocols'
    BY <1>2, <1>4
  <2> QED BY <1>2, <1>3, <2>1, <2>2, CarriersStay
<1>10. Lists'
  <2>1. /\ deadH \subseteq LiveHandlers /\ deadP \cap activeP = {} /\ enqueued \subseteq deadP
        /\ deadP \cup activeP = LiveProtocols
    BY State
  <2>2. NoDoubleFree'
    BY <1>1, <1>2, <1>4, <1>9, <2>1 DEF NoDoubleFree
  <2>3. RegisteredAreActive'
    BY <1>1, <1>2, <1>4 DEF RegisteredAreActive
  <2> QED BY <1>2, <2>1, <2>2, <2>3 DEF Lists
<1> QED BY <1>4, <1>7, <1>8, <1>9, <1>10 DEF IInv

LEMMA CloseSessionStep ==
    ASSUME IInv, NEW p \in Protocols, CloseSession(p), UNCHANGED loop
    PROVE  IInv'
<1> DEFINE s == GetNearEndpoint(p)
           n == near[p]
           f == far[s]
<1>1. /\ p \in keepsNear /\ n # NoProtocol
      /\ near' = [near EXCEPT ![p] = NoProtocol, ![f] = NoProtocol]
      /\ far'  = [far EXCEPT ![n] = NoProtocol, ![s] = NoProtocol]
      /\ EnqueueForDelete({s})
      /\ output' = output \cup {p}
      /\ graceful' = graceful \cup {p, GetFarEndpoint(p)}
  BY DEF CloseSession
<1>2. UNCHANGED <<keepsNear, handlerOf, protocolOf, handler, timers, deadH, batch, current, pc>>
  BY DEF CloseSession, carriers, loop
<1>3. p \in LiveProtocols /\ pc = "callback"
  BY InputReachesLive DEF CloseSession
<1>4. /\ s \in Inward(p) /\ s # p /\ s \in LiveProtocols /\ GetFarEndpoint(p) \in LiveProtocols
      /\ n \in LiveProtocols /\ far[n] = p
  BY <1>1, <1>3, NearEndpoint, FarEndpoint, WalksLive, State
<1>5. f \in Inward(p) /\ near[f] = s /\ f \in LiveProtocols /\ (f # p => far[f] # NoProtocol)
  <2>1. f \in Inward(p) /\ near[f] = s /\ f \in LiveProtocols
    BY <1>3, <1>4, Behind, WalksLive
  <2>2. f # p => far[f] \in Inward(p)
    BY <1>3, <2>1, Behind
  <2> QED BY <1>3, <2>1, <2>2, WalksLive, State
<1>6. object' = object /\ {s} \subseteq LiveProtocols
  BY <1>1, <1>4, EnqueueLive
<1>7. /\ enqueued' \subseteq Protocols /\ registered' \subseteq Protocols
      /\ deadP \subseteq deadP' /\ enqueued' \subseteq deadP'
      /\ activeP' \subseteq Protocols /\ deadP' \subseteq Protocols
      /\ deadP' \cap activeP' = {} /\ deadP' \cup activeP' = LiveProtocols
      /\ RegisteredAreActive'
  BY <1>1, <1>6, EnqueueLive
<1> HIDE DEF s, n, f
<1>8. LiveProtocols' = LiveProtocols /\ LiveProtocols \subseteq Protocols
  BY <1>6 DEF LiveProtocols, Live
<1>9. /\ near'[p] = NoProtocol /\ near'[f] = NoProtocol
      /\ \A r \in Protocols \ {p, f} : near'[r] = near[r]
      /\ far'[n] = NoProtocol /\ far'[s] = NoProtocol
      /\ \A r \in Protocols \ {n, s} : far'[r] = far[r]
  BY <1>1, <1>3, <1>4, <1>5, State
<1>10. TypeOK'
  <2>1. /\ near' \in [Protocols -> Protocols \cup {NoProtocol}]
        /\ far' \in [Protocols -> Protocols \cup {NoProtocol}]
    BY <1>1, State
  <2>2. output' \subseteq Protocols /\ graceful' \subseteq Protocols
    BY <1>1, <1>4, <1>8, Types DEF IInv
  <2> QED BY <1>2, <1>6, <1>7, <2>1, <2>2, Types DEF IInv, TypeOK
<1>11. Numbered'
  BY <1>2, <1>6 DEF IInv, Numbered
<1>12. Chains'
  <2>1. LinksMutual'
    <3>1. ASSUME NEW r \in LiveProtocols', near'[r] # NoProtocol
          PROVE  near'[r] \in LiveProtocols' /\ far'[near'[r]] = r
      <4>1. r # p /\ r # f /\ near'[r] = near[r] /\ r \in LiveProtocols
        BY <1>8, <1>9, <3>1
      <4>2. near[r] \in LiveProtocols /\ far[near[r]] = r
        BY <3>1, <4>1, State
      <4>3. near[r] # n /\ near[r] # s
        BY <1>4, <4>1, <4>2 DEF f
      <4> QED BY <1>8, <1>9, <4>1, <4>2, <4>3
    <3>2. ASSUME NEW r \in LiveProtocols', far'[r] # NoProtocol
          PROVE  far'[r] \in LiveProtocols' /\ near'[far'[r]] = r
      <4>1. r # n /\ r # s /\ far'[r] = far[r] /\ r \in LiveProtocols
        BY <1>8, <1>9, <3>2
      <4>2. far[r] \in LiveProtocols /\ near[far[r]] = r
        BY <3>2, <4>1, State
      <4>3. far[r] # p /\ far[r] # f
        BY <1>5, <4>1, <4>2 DEF n
      <4> QED BY <1>8, <1>9, <4>1, <4>2, <4>3
    <3> QED BY <3>1, <3>2 DEF LinksMutual, LiveProtocols, Live
  <2>2. Unlinked'
    <3>1. \A r \in Protocols \ LiveProtocols' :
             near'[r] = NoProtocol /\ far'[r] = NoProtocol /\ handlerOf'[r] = NoHandler
      BY <1>2, <1>8, <1>9, State
    <3> QED BY <3>1 DEF Unlinked, LiveProtocols, Live
  <2>3. Ending(near') /\ Ending(far')
    <3>1. Ending(near) /\ Ending(far)
      BY DEF IInv, Chains
    <3>2. \A r \in Protocols : near'[r] = near[r] \/ near'[r] = NoProtocol
      BY <1>9
    <3>3. \A r \in Protocols : far'[r] = far[r] \/ far'[r] = NoProtocol
      BY <1>9
    <3> QED BY <3>1, <3>2, <3>3, EndingCut
  <2> QED BY <1>2, <1>8, <2>1, <2>2, <2>3, State DEF Chains, Ending
<1>13. Carried' /\ Phases' /\ LiveHandlers' = LiveHandlers
  <2>1. ASSUME NEW r \in Protocols, handlerOf[r] # NoHandler
        PROVE  /\ far'[r] = NoProtocol /\ r \notin keepsNear'
               /\ near[r] # NoProtocol => near'[r] # NoProtocol
    <3>1. far[r] = NoProtocol /\ r \notin keepsNear
      BY <2>1 DEF IInv, Carried
    <3>2. r # p /\ r # f
      BY <1>1, <1>5, <3>1
    <3> QED BY <1>2, <1>9, <3>1, <3>2
  <2> QED BY <1>2, <1>3, <1>7, <1>8, <2>1, CarriersStay
<1>14. Lists'
  <2>1. NoDoubleFree'
    BY <1>2, <1>7, <1>8, <1>13, State DEF NoDoubleFree
  <2> QED BY <1>7, <2>1 DEF Lists
<1> QED BY <1>10, <1>11, <1>12, <1>13, <1>14 DEF IInv

------------------------------------------------------------------------------
(* The theorems.                                                           *)

LEMMA InitIInv == Init => IInv
<1> SUFFICES ASSUME Init PROVE IInv
  OBVIOUS
<1> USE DEF Init
<1>1. TypeOK
  BY DEF TypeOK
<1>2. Numbered
  <2>1. 0 \in 0 .. MaxProtocols /\ \A p \in Protocols : object[p] = "none" <=> p > 0
    BY BoundAssumption DEF BoundAssumption, Protocols
  <2>2. 0 \in 0 .. MaxHandlers /\ \A h \in Handlers : handler[h] = "none" <=> h > 0
    BY BoundAssumption DEF BoundAssumption, Handlers
  <2> QED BY <2>1, <2>2, Zenon DEF Numbered
<1>3. LiveProtocols = {} /\ LiveHandlers = {}
  BY DEF LiveProtocols, LiveHandlers, Live
<1>4. Chains
  BY <1>3, NullAssumption DEF Chains, LinksMutual, Unlinked, Ending, NullAssumption
<1>5. Carried
  BY <1>3 DEF Carried, HandlersMutual
<1>6. Lists
  BY <1>3 DEF Lists, NoDoubleFree, RegisteredAreActive
<1>7. Phases
  BY DEF Phases
<1> QED BY <1>1, <1>2, <1>4, <1>5, <1>6, <1>7 DEF IInv

LEMMA BusinessStep == IInv /\ Business => IInv'
<1> SUFFICES ASSUME IInv, Business PROVE IInv'
  OBVIOUS
<1>1. UNCHANGED loop
  BY DEF Business
<1>2. ASSUME pc = "callback", NEW last \in NextProtocol .. NextProtocol + MaxChain - 1,
             \/ NewConnection(NextProtocol, last)
             \/ RejectedConnection(NextProtocol, last)
             \/ ChainFails(NextProtocol, last)
      PROVE  IInv'
  <2>1. last \in Nat /\ last >= NextProtocol
    BY Fresh, BoundAssumption DEF BoundAssumption
  <2> QED BY <1>1, <1>2, <2>1, NewConnectionStep, RejectedConnectionStep, ChainFailsStep
<1>3. CASE pc = "callback" /\ NewTimer(NextProtocol)
  BY <1>1, <1>3, NewTimerStep
<1>4. ASSUME NEW p \in Protocols,
             \/ Substitute(p, NextProtocol) \/ BindSession(p, NextProtocol) \/ Insert(p, NextProtocol)
             \/ Relay(p) \/ CloseSession(p)
      PROVE  IInv'
  BY <1>1, <1>4, SubstituteStep, BindSessionStep, InsertStep, RelayStep, CloseSessionStep
<1>5. ASSUME pc # "wait", NEW p \in Protocols, CallsEnqueue(p) \/ CallsGracefully(p) \/ Writes(p)
      PROVE  IInv'
  BY <1>1, <1>5, CallsEnqueueStep, CallsGracefullyStep, WritesStep
<1> QED BY <1>2, <1>3, <1>4, <1>5 DEF Business

LEMMA NextStep == IInv /\ [Next]_vars => IInv'
<1> SUFFICES ASSUME IInv, [Next]_vars PROVE IInv'
  OBVIOUS
<1>1. CASE Business
  BY <1>1, BusinessStep
<1>2. CASE Wait
  BY <1>2, WaitStep
<1>3. CASE Dispatch
  BY <1>3, IgnoreStep, OnEventStep, PulseEndsStep DEF Dispatch
<1>4. CASE Return
  BY <1>4, WritableStep, OnEventReturnsStep DEF Return
<1>5. CASE DeleteDeadHandlers
  <2>1. deadH \in SUBSET Nat
    BY Types, BoundAssumption DEF IInv, Handlers, BoundAssumption
  <2>2. deadH # {} => Min(deadH) \in deadH
    BY <2>1, MinOf
  <2> QED BY <1>5, <2>2, DeleteHandlerStep, HandlersSweptStep DEF DeleteDeadHandlers
<1>6. CASE CleanupDeadProtocols
  <2>1. deadP \in SUBSET Nat
    BY Types, BoundAssumption DEF IInv, Protocols, BoundAssumption
  <2>2. deadP # {} => Min(deadP) \in deadP
    BY <2>1, MinOf
  <2> QED BY <1>6, <2>2, DeleteProtocolStep, ProtocolsCleanedStep DEF CleanupDeadProtocols
<1>7. CASE Shutdown
  BY <1>7, ShutdownStep
<1>8. CASE ShutdownIOHandlers
  BY <1>8, ShutdownIOHandlersStep
<1>9. CASE UNCHANGED vars
  <2>1. /\ UNCHANGED <<links, lists, carriers, graceful, output>>
        /\ UNCHANGED <<deadH, batch, current, pc>>
    BY <1>9 DEF vars, loop
  <2>2. /\ deadH' \in SUBSET LiveHandlers /\ batch' \subseteq Handlers \cup {Service}
        /\ current' \in Handlers \cup {Service, NoHandler}
        /\ pc' \in {"wait", "dispatch", "callback", "sweep", "clean", "exitClean", "exitSweep", "done"}
    BY <2>1, State, Types DEF IInv
  <2>3. Phases'
    BY <2>1, <2>2, LoopMoves DEF IInv, Phases
  <2> QED BY <2>1, <2>2, <2>3, LoopMoves DEF IInv
<1> QED BY <1>1, <1>2, <1>3, <1>4, <1>5, <1>6, <1>7, <1>8, <1>9 DEF Next, Done

\* Every reachable state satisfies the invariant, with its chains of any length.
THEOREM InductiveInvariant == Spec => []IInv
BY InitIInv, NextStep, PTL DEF Spec

\* Whatever a callback reaches from a live protocol, along its chain, through
\* its handler or from the application's tables, still exists.
THEOREM PointersStayMutual == Spec => []PointersMutual
<1>1. IInv => PointersMutual
  BY DEF IInv, Chains, Carried, Lists, PointersMutual
<1> QED BY <1>1, InductiveInvariant, PTL

\* CleanupDeadProtocols and DeleteDeadHandlers delete what exists, and once: each
\* protocol is in one of the two lists as long as it exists.
THEOREM NothingIsFreedTwice == Spec => []NoDoubleFree
<1>1. IInv => NoDoubleFree
  BY DEF IInv, Lists
<1> QED BY <1>1, InductiveInvariant, PTL

\* The carrier whose OnEvent begins has a protocol, and that one has a near
\* protocol: what TCPCarrier::OnEvent dereferences without a test is there.
THEOREM CarriersHaveChains == Spec => []CarrierHasChain
<1>1. IInv => CarrierHasChain
  <2> SUFFICES ASSUME IInv, pc = "dispatch", NEW h \in (batch \cap LiveHandlers) \ timers
               PROVE  protocolOf[h] # NoProtocol /\ near[protocolOf[h]] # NoProtocol
    BY DEF CarrierHasChain
  <2>1. protocolOf[h] # NoProtocol
    BY State
  <2>2. near[protocolOf[h]] # NoProtocol
    BY DEF IInv, Phases
  <2> QED BY <2>1, <2>2
<1> QED BY <1>1, InductiveInvariant, PTL

\* The loop sleeps with both dead lists empty, and a server that has stopped
\* keeps no handler, and no protocol but the one Shutdown spares.
THEOREM NothingIsLeftBehind == Spec => []NothingLeftBehind
<1>1. IInv => NothingLeftBehind
  BY DEF IInv, Phases, NothingLeftBehind
<1> QED BY <1>1, InductiveInvariant, PTL

------------------------------------------------------------------------------
(* Graceful deletes.                                                       *)

\* The chain of the carrier or timer of e: a graceful near endpoint has output in
\* the chain to wait for, or something of the chain goes away; and what ends the
\* wait is a protocol that ReadyForSend stops at.
Kept(e) ==
  /\ Inward(e) \cap graceful \cap keepsNear # {} => e \in graceful
  /\ \A x \in Inward(e) \cap graceful : near[x] = NoProtocol /\ x # e =>
       Inward(e) \cap (output \cup deadP) # {} \/ handlerOf[e] \in deadH

Remembered ==
  /\ graceful \subseteq LiveProtocols
  /\ \A e \in Protocols : handlerOf[e] # NoHandler => Kept(e)

\* Walking to the far end and back meets the start.
LEMMA FarAndBack ==
    ASSUME IInv, NEW p \in LiveProtocols, NEW g \in Along(far, p)
    PROVE  p \in Inward(g)
<1> DEFINE T == {x \in Along(far, p) : p \in Inward(x)}
<1>1. Along(far, p) \subseteq LiveProtocols /\ Closed(far, Along(far, p))
  BY WalksLive
<1>2. p \in T
  BY WalksLive
<1>3. Closed(far, T)
  <2> SUFFICES ASSUME NEW x \in T, far[x] # NoProtocol PROVE far[x] \in T
    BY DEF Closed
  <2>1. x \in Along(far, p) /\ x \in LiveProtocols /\ p \in Inward(x)
    BY <1>1
  <2>2. far[x] \in Along(far, p) /\ far[x] \in LiveProtocols /\ near[far[x]] = x
    BY <1>1, <2>1, State DEF Closed
  <2>3. x \in Inward(far[x])
    BY <2>1, <2>2, WalksLive, State DEF Closed
  <2>4. Inward(x) \subseteq Inward(far[x])
    BY <2>2, <2>3, WalkClosed, State DEF Inward
  <2> QED BY <2>1, <2>2, <2>4
<1>4. Along(far, p) \subseteq T
  BY <1>2, <1>3, Walks, State
<1> QED BY <1>4

\* Two walks that meet are one, if one starts at a far end.
LEMMA WalksMeet ==
    ASSUME IInv, NEW e \in LiveProtocols, far[e] = NoProtocol, NEW a \in LiveProtocols,
           NEW x \in Inward(a), x \in Inward(e)
    PROVE  a \in Inward(e)
<1> SUFFICES ASSUME a \notin Inward(e) PROVE FALSE
  OBVIOUS
<1> DEFINE T == {y \in Inward(a) : y \notin Inward(e)}
<1>1. a \in T /\ Inward(a) \subseteq LiveProtocols /\ Closed(near, Inward(a))
  BY WalksLive
<1>2. Closed(near, T)
  <2> SUFFICES ASSUME NEW y \in T, near[y] # NoProtocol, near[y] \in Inward(e) PROVE FALSE
    BY <1>1 DEF Closed
  <2>1. y \in LiveProtocols /\ far[near[y]] = y /\ y # NoProtocol
    BY <1>1, State
  <2>2. near[y] # e
    BY <2>1
  <2>3. far[near[y]] \in Inward(e)
    BY <2>2, Behind
  <2> QED BY <2>1, <2>3
<1>3. Inward(a) \subseteq T
  BY <1>1, <1>2, Walks, State DEF Inward
<1> QED BY <1>3

LEMMA OneFarEnd ==
    ASSUME IInv, NEW e \in LiveProtocols, far[e] = NoProtocol, NEW a \in LiveProtocols,
           far[a] = NoProtocol, NEW x \in Inward(a), x \in Inward(e)
    PROVE  a = e
<1>1. a \in Inward(e)
  BY WalksMeet
<1> QED BY <1>1, Behind, WalksLive, State

\* Of some protocols of a chain one is the farthest.
LEMMA Farthest ==
    ASSUME IInv, NEW p \in LiveProtocols, NEW X \in SUBSET Inward(p), X # {}
    PROVE  \E x \in X : \A y \in X : ~ Farther(y, x)
<1> SUFFICES ASSUME \A x \in X : \E y \in X : Farther(y, x) PROVE FALSE
  OBVIOUS
<1> DEFINE S == {z \in LiveProtocols : \E x \in X : z \in Inward(x)}
<1>1. X \subseteq LiveProtocols /\ LiveProtocols \subseteq Protocols
  BY WalksLive, State
<1>2. X \subseteq S
  BY <1>1, WalksLive
<1>3. ASSUME NEW z \in S PROVE far[z] \in S
  <2>1. PICK x \in X : z \in Inward(x) /\ z # x
    BY DEF Farther
  <2>2. far[z] \in Inward(x)
    BY <1>1, <2>1, Behind
  <2> QED BY <1>1, <2>1, <2>2, WalksLive
<1>4. S \in SUBSET Protocols
  BY <1>1
<1> HIDE DEF S
<1>5. S = {}
  BY <1>3, <1>4 DEF IInv, Chains, Ending
<1> QED BY <1>2, <1>5

\* Cutting a chain at c, or beyond it, leaves c where it is reached.
LEMMA CutBeyond ==
    ASSUME IInv, NEW e \in LiveProtocols, NEW c \in Inward(e),
           near' \in [Protocols -> Protocols \cup {NoProtocol}],
           \A x \in Inward(e) : c \in Inward(x) /\ x # c => near'[x] = near[x]
    PROVE  c \in Inward(e)'
<1> SUFFICES ASSUME c \notin Along(near', e) PROVE FALSE
  BY DEF Inward
<1> DEFINE A == {x \in Along(near', e) : x \in Inward(e) /\ c \in Inward(x)}
<1>1. e \in Protocols /\ e \in Along(near', e) /\ Closed(near', Along(near', e))
      /\ e \in Inward(e)
  BY Walks, WalksLive, State
<1>2. e \in A
  BY <1>1
<1>3. ASSUME NEW x \in A PROVE near[x] \in A
  <2>1. x \in Along(near', e) /\ x \in Inward(e) /\ c \in Inward(x) /\ x # c /\ x \in Protocols
    BY WalksLive, State
  <2>2. near[x] # NoProtocol /\ c \in Inward(near[x])
    BY <2>1, WalkOn, State DEF Inward
  <2>3. near[x] \in Inward(e)
    BY <2>1, <2>2, WalksLive DEF Closed
  <2>4. near'[x] = near[x]
    BY <2>1
  <2>5. near[x] \in Along(near', e)
    BY <1>1, <2>1, <2>2, <2>4 DEF Closed
  <2> QED BY <2>2, <2>3, <2>5
<1>4. A \in SUBSET Protocols
  BY WalksLive, State
<1> HIDE DEF A
<1>5. A = {}
  BY <1>3, <1>4 DEF IInv, Chains, Ending
<1> QED BY <1>2, <1>5

\* What a step has to leave alone for a chain to stay kept.
LEMMA KeptSame ==
    ASSUME NEW e \in Protocols, Kept(e),
           near \in [Protocols -> Protocols \cup {NoProtocol}],
           near' \in [Protocols -> Protocols \cup {NoProtocol}],
           \A x \in Inward(e) : near'[x] = near[x],
           graceful' \cap Inward(e) \subseteq graceful, e \in graceful => e \in graceful',
           keepsNear' \cap Inward(e) \subseteq keepsNear,
           (output \cup deadP) \cap Inward(e) \subseteq output' \cup deadP',
           handlerOf'[e] = handlerOf[e], handlerOf[e] \in deadH => handlerOf[e] \in deadH'
    PROVE  Kept(e)'
<1>1. Along(near', e) = Along(near, e)
  BY WalkSame DEF Inward
<1>2. Inward(e)' = Inward(e)
  BY <1>1 DEF Inward
<1>3. Inward(e) \cap graceful' \cap keepsNear' # {} => e \in graceful'
  BY DEF Kept
<1>4. ASSUME NEW x \in Inward(e) \cap graceful', near'[x] = NoProtocol, x # e
      PROVE  Inward(e) \cap (output' \cup deadP') # {} \/ handlerOf'[e] \in deadH'
  BY <1>4 DEF Kept
<1> QED BY <1>2, <1>3, <1>4 DEF Kept

\* The steps that change no link of a live protocol and forget nothing.
LEMMA KeepsRemembered ==
    ASSUME IInv, IInv', Remembered, LiveProtocols \subseteq LiveProtocols', graceful' = graceful,
           \A x \in LiveProtocols : near'[x] = near[x] /\ far'[x] = far[x],
           keepsNear' \cap LiveProtocols \subseteq keepsNear,
           output \subseteq output', deadP \subseteq deadP',
           \A e \in LiveProtocols : handlerOf'[e] # NoHandler =>
              handlerOf'[e] = handlerOf[e] /\ (handlerOf[e] \in deadH => handlerOf[e] \in deadH')
    PROVE  Remembered'
<1>1. near' \in [Protocols -> Protocols \cup {NoProtocol}]
  BY DEF IInv, TypeOK
<1>2. graceful' \subseteq LiveProtocols'
  BY DEF Remembered
<1>3. ASSUME NEW e \in LiveProtocols, handlerOf'[e] # NoHandler PROVE Kept(e)'
  <2>1. Kept(e) /\ e \in Protocols
    BY <1>3, State DEF Remembered
  <2>2. Inward(e) \subseteq LiveProtocols
    BY WalksLive
  <2> QED BY <1>1, <1>3, <2>1, <2>2, KeptSame, State
<1>4. ASSUME NEW e \in Protocols \ LiveProtocols PROVE Kept(e)'
  <2>1. Closed(near', Protocols \ LiveProtocols)
    <3> SUFFICES ASSUME NEW q \in Protocols \ LiveProtocols, near'[q] \in LiveProtocols PROVE FALSE
      BY <1>1 DEF Closed
    <3>1. q \in LiveProtocols'
      BY State DEF IInv, Chains, Unlinked, LiveProtocols
    <3>2. far'[near'[q]] = q
      BY <3>1, State DEF IInv, Chains, LinksMutual
    <3>3. far[near'[q]] = q
      BY <3>2
    <3> QED BY <3>3, State
  <2>2. Along(near', e) \subseteq Protocols \ LiveProtocols
    BY <1>1, <2>1, Walks
  <2>3. Inward(e)' \cap graceful' = {}
    BY <2>2 DEF Inward, Remembered
  <2> QED BY <2>3 DEF Kept
<1> QED BY <1>2, <1>3, <1>4 DEF Remembered

\* What OnEvent builds from nothing.
LEMMA BuildingRemembers ==
    ASSUME IInv, IInv', Remembered,
           \/ \E last \in Nat : \/ NewConnection(NextProtocol, last)
                                \/ RejectedConnection(NextProtocol, last)
                                \/ ChainFails(NextProtocol, last)
           \/ NewTimer(NextProtocol)
    PROVE  Remembered'
<1> DEFINE first == NextProtocol
<1>1. /\ first \in Nat /\ \A x \in LiveProtocols : x \in Protocols /\ x \in Nat /\ x < first
  BY Fresh, State, BoundAssumption DEF Protocols, BoundAssumption
<1>2. ASSUME NEW a \in Nat, NEW b \in Nat, a >= first, Linked(a, b)
      PROVE  \A x \in LiveProtocols : near'[x] = near[x] /\ far'[x] = far[x]
  <2>1. \A x \in LiveProtocols : x \in Protocols /\ x \notin a .. b - 1 /\ x \notin a + 1 .. b
    BY <1>1, <1>2
  <2> QED BY <1>2, <2>1 DEF Linked
<1>3. ASSUME NEW h, Bound(first, h) PROVE \A x \in LiveProtocols : handlerOf'[x] = handlerOf[x]
  BY <1>1, <1>3, State DEF Bound
<1> HIDE DEF first
<1>4. ASSUME NEW last \in Nat, NewConnection(first, last) PROVE Remembered'
  <2>1. LiveProtocols \subseteq LiveProtocols'
    BY <1>1, <1>4 DEF NewConnection, LiveProtocols, Live
  <2>2. keepsNear' \cap LiveProtocols \subseteq keepsNear
    BY <1>1, <1>4 DEF NewConnection
  <2>3. \A x \in LiveProtocols : near'[x] = near[x] /\ far'[x] = far[x] /\ handlerOf'[x] = handlerOf[x]
    BY <1>1, <1>2, <1>3, <1>4 DEF NewConnection
  <2>4. UNCHANGED <<graceful, output, deadP, deadH>>
    BY <1>4 DEF NewConnection
  <2> QED BY <2>1, <2>2, <2>3, <2>4, KeepsRemembered
<1>5. ASSUME NEW last \in Nat, RejectedConnection(first, last) PROVE Remembered'
  <2>1. LiveProtocols \subseteq LiveProtocols'
    BY <1>1, <1>5 DEF RejectedConnection, LiveProtocols, Live
  <2>2. last - 1 \in Nat
    BY <1>1, <1>5 DEF RejectedConnection
  <2>3. \A x \in LiveProtocols : near'[x] = near[x] /\ far'[x] = far[x] /\ handlerOf'[x] = handlerOf[x]
    BY <1>1, <1>2, <1>3, <1>5, <2>2 DEF RejectedConnection
  <2>4. UNCHANGED <<keepsNear, graceful, output, deadH>> /\ deadP \subseteq deadP'
    BY <1>5 DEF RejectedConnection
  <2> QED BY <2>1, <2>3, <2>4, KeepsRemembered
<1>6. ASSUME NEW last \in Nat, ChainFails(first, last) PROVE Remembered'
  <2>1. LiveProtocols \subseteq LiveProtocols'
    BY <1>1, <1>6 DEF ChainFails, LiveProtocols, Live
  <2>2. first + 1 \in Nat /\ first + 1 >= first
    BY <1>1
  <2>3. \A x \in LiveProtocols : near'[x] = near[x] /\ far'[x] = far[x]
    BY <1>2, <1>6, <2>2 DEF ChainFails
  <2>4. UNCHANGED <<keepsNear, graceful, output, deadH, handlerOf>> /\ deadP \subseteq deadP'
    BY <1>6 DEF ChainFails, carriers
  <2> QED BY <2>1, <2>3, <2>4, KeepsRemembered
<1>7. ASSUME NewTimer(first) PROVE Remembered'
  <2>1. LiveProtocols \subseteq LiveProtocols'
    BY <1>7, State DEF NewTimer, LiveProtocols, Live
  <2>2. \A x \in LiveProtocols : handlerOf'[x] = handlerOf[x]
    BY <1>3, <1>7 DEF NewTimer
  <2>3. UNCHANGED <<near, far, keepsNear, graceful, output, deadP, deadH>>
    BY <1>7 DEF NewTimer, links
  <2> QED BY <2>1, <2>2, <2>3, KeepsRemembered
<1> QED BY <1>4, <1>5, <1>6, <1>7 DEF first

\* The loop, and what enqueues one protocol or writes.
LEMMA QuietRemembers ==
    ASSUME IInv, IInv', Remembered, UNCHANGED <<links, object, graceful>>,
           output \subseteq output', deadP \subseteq deadP',
           \A e \in LiveProtocols : handlerOf'[e] # NoHandler =>
              handlerOf'[e] = handlerOf[e] /\ (handlerOf[e] \in deadH => handlerOf[e] \in deadH')
    PROVE  Remembered'
<1>1. UNCHANGED <<near, far, keepsNear>>
  BY DEF links
<1>2. LiveProtocols' = LiveProtocols
  BY DEF LiveProtocols, Live
<1> QED BY <1>1, <1>2, KeepsRemembered

LEMMA LoopRemembers ==
    ASSUME IInv, IInv', Remembered,
           \/ Wait \/ Dispatch \/ OnEventReturns \/ Shutdown \/ ShutdownIOHandlers
           \/ UNCHANGED vars
           \/ \E p \in Protocols : CallsEnqueue(p) \/ Writes(p)
           \/ UNCHANGED <<links, lists, carriers, graceful, output, deadH, batch, current>>
    PROVE  Remembered'
<1>1. UNCHANGED <<links, object, graceful, handlerOf>>
  BY DEF Wait, Dispatch, Ignore, OnEvent, PulseEnds, OnEventReturns, Shutdown, ShutdownIOHandlers,
         vars, lists, carriers, CallsEnqueue, EnqueueForDelete, Writes
<1>2. output \subseteq output' /\ deadP \subseteq deadP' /\ deadH \subseteq deadH'
  BY DEF Wait, Dispatch, Ignore, OnEvent, PulseEnds, OnEventReturns, Shutdown, ShutdownIOHandlers,
         vars, lists, carriers, CallsEnqueue, EnqueueForDelete, Writes
<1> QED BY <1>1, <1>2, QuietRemembers

LEMMA DeleteHandlerRemembers ==
    ASSUME IInv, IInv', Remembered, NEW h \in deadH, DeleteHandler(h), deadH' = deadH \ {h},
           UNCHANGED <<links, graceful, output, loop>>
    PROVE  Remembered'
<1>1. h \in LiveHandlers /\ protocolOf[h] \in LiveProtocols
  BY State
<1>2. UNCHANGED object /\ deadP \subseteq deadP'
  BY DEF DeleteHandler, EnqueueForDelete
<1>3. ASSUME NEW e \in LiveProtocols, handlerOf'[e] # NoHandler
      PROVE  handlerOf'[e] = handlerOf[e] /\ (handlerOf[e] \in deadH => handlerOf[e] \in deadH')
  <2>1. e \in Protocols /\ e # protocolOf[h] /\ handlerOf'[e] = handlerOf[e]
    BY <1>3, State DEF DeleteHandler
  <2>2. handlerOf[e] # h
    BY <1>3, <2>1, State
  <2> QED BY <2>1, <2>2
<1> QED BY <1>2, <1>3, QuietRemembers

\* A new protocol takes the near end: it is not graceful yet, and there is no
\* other near end.  What was there is enqueued.
LEMMA NewNearEnd ==
    ASSUME IInv, IInv', Remembered, NEW p \in LiveProtocols, near[p] = NoProtocol,
           NEW a \in LiveProtocols, NEW q \in Protocols, q \notin LiveProtocols,
           a = p \/ (a = far[p] /\ near[a] = p),
           near' = [near EXCEPT ![a] = q],
           keepsNear' \cap LiveProtocols \subseteq keepsNear,
           LiveProtocols \subseteq LiveProtocols', deadP \subseteq deadP',
           UNCHANGED <<graceful, output, handlerOf, deadH>>
    PROVE  Remembered'
<1>1. graceful' \subseteq LiveProtocols' /\ q \notin graceful
  BY DEF Remembered
<1>2. near' \in [Protocols -> Protocols \cup {NoProtocol}]
  BY DEF IInv, TypeOK
<1>3. ASSUME NEW e \in Protocols, handlerOf'[e] # NoHandler PROVE Kept(e)'
  <2>1. e \in LiveProtocols /\ Kept(e)
    BY <1>3, State DEF Remembered
  <2>2. Inward(e) \subseteq LiveProtocols /\ Closed(near, Inward(e)) /\ e \in Inward(e)
    BY <2>1, WalksLive
  <2>3. CASE a \notin Inward(e)
    <3>1. \A x \in Inward(e) : near'[x] = near[x]
      BY <2>2, <2>3, State
    <3> QED BY <1>2, <2>1, <2>2, <3>1, KeptSame, State
  <2>4. CASE a \in Inward(e)
    <3> DEFINE S == {x \in Inward(e) : x # p \/ a = p} \cup {q}
    <3>1. p \in Inward(e) /\ (a # p => e # p)
      <4>1. far[e] = NoProtocol
        BY <1>3, <2>1, State DEF IInv, Carried
      <4> QED BY <2>2, <2>4, <4>1, State DEF Closed
    <3>2. /\ near[q] = NoProtocol /\ near'[a] = q /\ a # q /\ near'[q] = NoProtocol
          /\ \A x \in LiveProtocols \ {a} : near'[x] = near[x]
      BY State
    <3>3. Closed(near', S)
      <4> SUFFICES ASSUME NEW x \in S, x # q, near'[x] # NoProtocol PROVE near'[x] \in S
        BY <3>2 DEF Closed
      <4>1. CASE x = a
        BY <3>2, <4>1
      <4>2. CASE x # a
        <5>1. near'[x] = near[x] /\ near[x] # NoProtocol /\ x \in LiveProtocols
          BY <2>2, <3>2, <4>2
        <5>2. near[x] \in Inward(e) /\ far[near[x]] = x
          BY <2>2, <5>1, State DEF Closed
        <5>3. near[x] # p \/ a = p
          BY <4>2, <5>2
        <5> QED BY <5>1, <5>2, <5>3
      <4> QED BY <4>1, <4>2
    <3>4. Along(near', e) \subseteq S
      <4>1. e \in S
        BY <2>2, <3>1
      <4> HIDE DEF S
      <4> QED BY <1>2, <3>3, <4>1, Walks
    <3>5. ASSUME NEW x \in Along(near', e) \cap graceful, near'[x] = NoProtocol PROVE FALSE
      <4>1. x \in S /\ x # q /\ x \in Inward(e) /\ x \in LiveProtocols /\ x # a
        <5>1. near'[a] # NoProtocol
          BY <3>2, NullAssumption DEF NullAssumption
        <5> QED BY <1>1, <2>2, <3>4, <3>5, <5>1
      <4>2. near[x] = NoProtocol
        BY <3>2, <3>5, <4>1
      <4>3. x = p
        BY <2>1, <3>1, <4>1, <4>2, WalkEnd, State DEF Inward
      <4> QED BY <4>1, <4>3
    <3>6. Along(near', e) \cap graceful \cap keepsNear' # {} => e \in graceful
      BY <1>1, <2>1, <2>2, <3>4 DEF Kept
    <3> QED BY <3>5, <3>6 DEF Kept, Inward
  <2> QED BY <2>3, <2>4
<1> QED BY <1>1, <1>3 DEF Remembered

LEMMA SubstituteRemembers ==
    ASSUME IInv, IInv', Remembered, NEW p \in Protocols, Substitute(p, NextProtocol)
    PROVE  Remembered'
<1> DEFINE q == NextProtocol
           a == far[p]
<1>1. /\ a # NoProtocol /\ near[p] = NoProtocol /\ q \in Protocols
      /\ near' = [near EXCEPT ![a] = q]
      /\ keepsNear' \in {keepsNear, keepsNear \cup {q}}
      /\ object' = [object EXCEPT ![q] = "live"]
      /\ UNCHANGED <<graceful, output, handlerOf, deadH>>
  BY DEF Substitute, carriers
<1>2. deadP \subseteq deadP'
  BY DEF Substitute
<1>3. p \in LiveProtocols
  BY InputReachesLive DEF Substitute
<1>4. q \notin LiveProtocols
  BY <1>1, Fresh
<1> HIDE DEF q
<1>5. a \in LiveProtocols /\ near[a] = p
  BY <1>1, <1>3, State
<1>6. LiveProtocols \subseteq LiveProtocols' /\ keepsNear' \cap LiveProtocols \subseteq keepsNear
  BY <1>1, <1>4, State DEF LiveProtocols, Live
<1> QED BY <1>1, <1>2, <1>3, <1>4, <1>5, <1>6, NewNearEnd

LEMMA BindSessionRemembers ==
    ASSUME IInv, IInv', Remembered, NEW p \in Protocols, BindSession(p, NextProtocol)
    PROVE  Remembered'
<1> DEFINE q == NextProtocol
<1>1. /\ near[p] = NoProtocol /\ q \in Protocols
      /\ near' = [near EXCEPT ![p] = q]
      /\ object' = [object EXCEPT ![q] = "live"]
      /\ UNCHANGED <<keepsNear, deadP, graceful, output, handlerOf, deadH>>
  BY DEF BindSession, carriers
<1>2. p \in LiveProtocols
  BY InputReachesLive DEF BindSession
<1>3. q \notin LiveProtocols
  BY <1>1, Fresh
<1> HIDE DEF q
<1>4. LiveProtocols \subseteq LiveProtocols' /\ keepsNear' \cap LiveProtocols \subseteq keepsNear
  BY <1>1, State DEF LiveProtocols, Live
<1> QED BY <1>1, <1>2, <1>3, <1>4, NewNearEnd

\* RTMPE goes in between: the near endpoint stays what it was.
LEMMA InsertRemembers ==
    ASSUME IInv, IInv', Remembered, NEW p \in Protocols, Insert(p, NextProtocol)
    PROVE  Remembered'
<1> DEFINE q == NextProtocol
           f == far[p]
<1>1. /\ f # NoProtocol /\ near[p] = NoProtocol /\ q \in Protocols
      /\ near' = [near EXCEPT ![f] = q, ![q] = p]
      /\ object' = [object EXCEPT ![q] = "live"]
      /\ UNCHANGED <<keepsNear, deadP, graceful, output, handlerOf, deadH>>
  BY DEF Insert, carriers
<1>2. p \in LiveProtocols
  BY InputReachesLive DEF Insert
<1>3. q \notin LiveProtocols
  BY <1>1, Fresh
<1> HIDE DEF q, f
<1>4. f \in LiveProtocols /\ near[f] = p /\ f # q /\ near[q] = NoProtocol /\ q \notin graceful
  BY <1>1, <1>2, <1>3, State DEF f, Remembered
<1>5. /\ near'[f] = q /\ near'[q] = p
      /\ \A x \in Protocols \ {f, q} : near'[x] = near[x]
      /\ near' \in [Protocols -> Protocols \cup {NoProtocol}]
  BY <1>1, <1>2, <1>4, State
<1>6. graceful' \subseteq LiveProtocols'
  BY <1>1, State DEF Remembered, LiveProtocols, Live
<1>7. ASSUME NEW e \in Protocols, handlerOf'[e] # NoHandler PROVE Kept(e)'
  <2>1. e \in LiveProtocols /\ Kept(e)
    BY <1>1, <1>7, State DEF Remembered
  <2>2. /\ Inward(e) \subseteq LiveProtocols /\ Closed(near, Inward(e)) /\ e \in Inward(e)
        /\ LiveProtocols \subseteq Protocols
    BY <2>1, WalksLive, State
  <2>3. CASE f \notin Inward(e)
    <3>1. \A x \in Inward(e) : near'[x] = near[x]
      BY <1>3, <1>5, <2>2, <2>3
    <3> QED BY <1>1, <1>5, <2>1, <3>1, KeptSame, State
  <2>4. CASE f \in Inward(e)
    <3>1. p \in Inward(e)
      BY <1>2, <1>4, <2>2, <2>4, State DEF Closed
    <3>2. Closed(near', Inward(e) \cup {q})
      BY <1>5, <2>2, <3>1 DEF Closed
    <3>3. Along(near', e) \subseteq Inward(e) \cup {q}
      BY <1>5, <2>2, <3>2, Walks
    <3>4. Inward(e) \subseteq Along(near', e)
      <4>1. e \in Along(near', e) /\ Closed(near', Along(near', e)) /\ Along(near', e) \subseteq Protocols
        BY <1>5, Walks
      <4>2. Closed(near, Along(near', e))
        <5> SUFFICES ASSUME NEW x \in Along(near', e), near[x] # NoProtocol
                     PROVE  near[x] \in Along(near', e)
          BY DEF Closed
        <5>1. CASE x = f
          <6>1. q \in Along(near', e)
            BY <1>1, <1>5, <4>1, <5>1, NullAssumption DEF Closed, NullAssumption
          <6>2. p \in Along(near', e)
            BY <1>5, <4>1, <6>1, NullAssumption DEF Closed, NullAssumption
          <6> QED BY <1>4, <5>1, <6>2
        <5>2. CASE x # f
          <6>1. x # q /\ near'[x] = near[x]
            BY <1>4, <1>5, <4>1, <5>2
          <6> QED BY <4>1, <6>1 DEF Closed
        <5> QED BY <5>1, <5>2
      <4> QED BY <4>1, <4>2, Walks, State DEF Inward
    <3>5. Along(near', e) \cap graceful = Inward(e) \cap graceful
      BY <1>4, <3>3, <3>4
    <3>6. ASSUME NEW x \in Inward(e) \cap graceful, near'[x] = NoProtocol PROVE near[x] = NoProtocol
      BY <1>1, <1>4, <1>5, <2>2, <3>6, NullAssumption DEF NullAssumption
    <3> HIDE DEF f
    <3>7. Along(near', e) \cap graceful \cap keepsNear # {} => e \in graceful
      BY <2>1, <3>5 DEF Kept
    <3>8. ASSUME NEW x \in Along(near', e) \cap graceful, near'[x] = NoProtocol, x # e
          PROVE  Along(near', e) \cap (output \cup deadP) # {} \/ handlerOf[e] \in deadH
      <4>1. x \in Inward(e) \cap graceful /\ near[x] = NoProtocol
        BY <3>5, <3>6, <3>8
      <4>2. Inward(e) \cap (output \cup deadP) # {} \/ handlerOf[e] \in deadH
        BY <2>1, <3>8, <4>1 DEF Kept
      <4> QED BY <3>4, <4>2
    <3> QED BY <1>1, <3>7, <3>8 DEF Kept, Inward
  <2> QED BY <2>3, <2>4
<1> QED BY <1>6, <1>7 DEF Remembered

\* The answer that takes over what the session had to send is output of the chain.
LEMMA RelayRemembers ==
    ASSUME IInv, IInv', Remembered, NEW p \in Protocols, Relay(p)
    PROVE  Remembered'
<1>1. /\ near[p] # NoProtocol /\ output' = (output \ Inward(near[p])) \cup {p}
      /\ UNCHANGED <<object, near, keepsNear, deadP, graceful, handlerOf, deadH>>
  BY DEF Relay, links, lists, carriers
<1>2. p \in LiveProtocols /\ near[p] \in LiveProtocols /\ far[near[p]] = p
  BY <1>1, InputReachesLive, State DEF Relay
<1>3. graceful' \subseteq LiveProtocols'
  BY <1>1 DEF Remembered, LiveProtocols, Live
<1>4. ASSUME NEW e \in Protocols, handlerOf'[e] # NoHandler PROVE Kept(e)'
  <2>1. e \in LiveProtocols /\ Kept(e) /\ far[e] = NoProtocol
    BY <1>1, <1>4, State DEF Remembered, IInv, Carried
  <2>2. Inward(e)' = Inward(e)
    BY <1>1 DEF Inward
  <2>3. CASE p \in Inward(e)
    BY <1>1, <2>1, <2>2, <2>3 DEF Kept
  <2>4. CASE p \notin Inward(e)
    <3>1. near[p] \notin Inward(e)
      <4>1. p # NoProtocol
        BY State
      <4> QED BY <1>2, <2>1, <2>4, <4>1, Behind
    <3>2. Inward(near[p]) \cap Inward(e) = {}
      BY <1>2, <2>1, <3>1, WalksMeet
    <3>3. (output \cup deadP) \cap Inward(e) \subseteq output' \cup deadP'
      BY <1>1, <3>2
    <3> QED BY <1>1, <2>1, <3>3, KeptSame, State
  <2> QED BY <2>3, <2>4
<1> QED BY <1>3, <1>4 DEF Remembered

LEMMA CallsGracefullyRemembers ==
    ASSUME IInv, IInv', Remembered, NEW p \in Protocols, CallsGracefully(p)
    PROVE  Remembered'
<1> DEFINE g == GetFarEndpoint(p)
           s == GetNearEndpoint(p)
<1>1. p \in LiveProtocols
  BY DEF CallsGracefully, LiveProtocols
<1>2. /\ UNCHANGED <<near, keepsNear, handlerOf, output, deadH>>
      /\ graceful' = graceful \cup {p} \cup GracefulWalk(p)
      /\ \/ (\E q \in GracefulWalk(p) : HasOutput(q)) /\ UNCHANGED lists
         \/ EnqueueForDelete({s})
  BY DEF CallsGracefully, GracefullyEnqueueForDelete, links, carriers
<1>3. /\ g \in Along(far, p) /\ g \in LiveProtocols /\ far[g] = NoProtocol
      /\ s \in Inward(p) /\ p \in Inward(g) /\ Inward(p) \subseteq Inward(g)
      /\ g \in Inward(g) /\ Inward(g) \subseteq LiveProtocols
  <2>1. g \in Along(far, p) /\ far[g] = NoProtocol /\ s \in Inward(p) /\ g \in LiveProtocols
    BY <1>1, FarEndpoint, NearEndpoint, WalksLive
  <2>2. p \in Inward(g) /\ g \in Inward(g) /\ Inward(g) \subseteq LiveProtocols
    BY <1>1, <2>1, FarAndBack, WalksLive
  <2>3. Inward(p) \subseteq Inward(g)
    BY <2>1, <2>2, WalkClosed, State DEF Inward
  <2> QED BY <2>1, <2>2, <2>3
<1>4. GracefulWalk(p) \subseteq Inward(g)
  BY DEF GracefulWalk
<1>5. g \in GracefulWalk(p)
  <2>1. ASSUME NEW r \in Inward(g) PROVE ~ Farther(r, g)
    <3> SUFFICES ASSUME r # g, g \in Inward(r) PROVE FALSE
      BY DEF Farther
    <3>1. far[r] \in Inward(g) /\ r \in LiveProtocols
      BY <1>3, Behind
    <3>2. far[g] \in Inward(r)
      BY <3>1, Behind
    <3> QED BY <1>3, <3>1, <3>2, WalksLive, State
  <2> QED BY <1>3, <2>1 DEF GracefulWalk
<1>6. UNCHANGED object /\ deadP \subseteq deadP'
  BY <1>2 DEF lists, EnqueueForDelete
<1> HIDE DEF g, s
<1>7. graceful' \subseteq LiveProtocols'
  <2>1. LiveProtocols' = LiveProtocols
    BY <1>6 DEF LiveProtocols, Live
  <2> QED BY <1>1, <1>2, <1>3, <1>4, <2>1 DEF Remembered
<1>8. ASSUME NEW e \in Protocols, handlerOf'[e] # NoHandler PROVE Kept(e)'
  <2>1. e \in LiveProtocols /\ Kept(e) /\ far[e] = NoProtocol /\ handlerOf[e] # NoHandler
    BY <1>2, <1>8, State DEF Remembered, IInv, Carried
  <2>2. Inward(e)' = Inward(e)
    BY <1>2 DEF Inward
  <2>3. CASE e = g
    <3>1. g \in graceful'
      BY <1>2, <1>5
    <3>2. Inward(e) \cap (output' \cup deadP') # {}
      <4>1. CASE \E q \in GracefulWalk(p) : HasOutput(q)
        <5>1. PICK q \in GracefulWalk(p), o \in output : o \in Inward(q)
          BY <4>1 DEF HasOutput
        <5>2. q \in Inward(g)
          BY <1>4, <5>1
        <5>3. Inward(q) \subseteq Inward(g)
          BY <1>3, <5>2, WalkClosed, State DEF Inward
        <5> QED BY <1>2, <2>3, <5>1, <5>3
      <4>2. CASE EnqueueForDelete({s})
        <5>1. s \in deadP'
          BY <1>1, <1>3, <4>2, EnqueueLive
        <5> QED BY <1>3, <2>3, <5>1
      <4> QED BY <1>2, <4>1, <4>2
    <3> QED BY <2>2, <2>3, <3>1, <3>2 DEF Kept
  <2>4. CASE e # g
    <3>1. Inward(e) \cap Inward(g) = {}
      BY <1>3, <2>1, <2>4, OneFarEnd
    <3>2. graceful' \cap Inward(e) \subseteq graceful
      BY <1>2, <1>3, <1>4, <3>1
    <3> QED BY <1>2, <1>6, <2>1, <3>2, KeptSame, State
  <2> QED BY <2>3, <2>4
<1> QED BY <1>7, <1>8 DEF Remembered

\* The session is cut off where the answer is written.
LEMMA CloseSessionRemembers ==
    ASSUME IInv, IInv', Remembered, NEW p \in Protocols, CloseSession(p)
    PROVE  Remembered'
<1> DEFINE s == GetNearEndpoint(p)
           f == far[s]
           g == GetFarEndpoint(p)
<1>1. /\ near[p] # NoProtocol
      /\ near' = [near EXCEPT ![p] = NoProtocol, ![f] = NoProtocol]
      /\ output' = output \cup {p}
      /\ graceful' = graceful \cup {p, g}
      /\ EnqueueForDelete({s})
      /\ UNCHANGED <<keepsNear, handlerOf, deadH>>
  BY DEF CloseSession, carriers
<1>2. p \in LiveProtocols
  BY InputReachesLive DEF CloseSession
<1>3. /\ s \in Inward(p) /\ near[s] = NoProtocol /\ s \in LiveProtocols
      /\ g \in Along(far, p) /\ g \in LiveProtocols /\ far[g] = NoProtocol
      /\ p \in Inward(g) /\ g \in Inward(g)
  <2>1. g \in Along(far, p) /\ g \in LiveProtocols /\ far[g] = NoProtocol
    BY <1>2, FarEndpoint, WalksLive
  <2>2. s \in Inward(p) /\ near[s] = NoProtocol /\ s \in LiveProtocols
    BY <1>2, NearEndpoint, WalksLive
  <2> QED BY <1>2, <2>1, <2>2, FarAndBack, WalksLive
<1>4. f \in Inward(p) /\ f \in LiveProtocols
  <2>1. s # p
    BY <1>1, <1>3
  <2> QED BY <1>2, <1>3, <2>1, Behind, WalksLive
<1>5. UNCHANGED object /\ deadP \subseteq deadP'
  BY <1>1 DEF EnqueueForDelete
<1>6. LiveProtocols' = LiveProtocols /\ near' \in [Protocols -> Protocols \cup {NoProtocol}]
  BY <1>5 DEF LiveProtocols, Live, IInv, TypeOK
<1> HIDE DEF s, f, g
<1>7. graceful' \subseteq LiveProtocols'
  BY <1>1, <1>2, <1>3, <1>6 DEF Remembered
<1>8. \A x \in Protocols : x # p /\ x # f => near'[x] = near[x]
  BY <1>1, State
<1>9. ASSUME NEW e \in Protocols, handlerOf'[e] # NoHandler PROVE Kept(e)'
  <2>1. e \in LiveProtocols /\ Kept(e) /\ far[e] = NoProtocol /\ handlerOf[e] # NoHandler
        /\ Inward(e) \subseteq LiveProtocols
    BY <1>1, <1>9, State, WalksLive DEF Remembered, IInv, Carried
  <2>2. CASE p \in Inward(e)
    <3>1. e = g
      BY <1>3, <2>1, <2>2, OneFarEnd
    <3>2. ASSUME NEW x \in Inward(e), p \in Inward(x), x # p PROVE near'[x] = near[x]
      <4>1. x # f
        BY <1>2, <1>4, <3>2, WalkOneWay, State DEF Inward, IInv, Chains
      <4> QED BY <1>8, <2>1, <3>2, <4>1, State
    <3>3. p \in Inward(e)'
      BY <1>6, <2>1, <2>2, <3>2, CutBeyond
    <3> QED BY <1>1, <3>1, <3>3 DEF Kept
  <2>3. CASE p \notin Inward(e)
    <3>1. f \notin Inward(e)
      BY <1>2, <1>4, <2>1, <2>3, WalksMeet
    <3>2. g \notin Inward(e)
      <4>1. g \in Inward(e) => g = e
        BY <1>3, <2>1, OneFarEnd
      <4> QED BY <1>3, <2>3, <4>1
    <3>3. \A x \in Inward(e) : near'[x] = near[x]
      BY <1>8, <2>1, <2>3, <3>1, State
    <3>4. graceful' \cap Inward(e) \subseteq graceful
      BY <1>1, <2>3, <3>2
    <3> QED BY <1>1, <1>5, <1>6, <2>1, <3>3, <3>4, KeptSame, State
  <2> QED BY <2>2, <2>3
<1> QED BY <1>7, <1>9 DEF Remembered

\* The end of the output is noticed where it is waited for.
LEMMA WritableRemembers ==
    ASSUME IInv, IInv', Remembered, Writable
    PROVE  Remembered'
<1> DEFINE p     == protocolOf[current]
           stops == (graceful \ keepsNear) \cap Inward(p)
           S     == {q \in stops : \A r \in stops : ~Farther(r, q)}
<1>1. current \in Handlers /\ handler[current] = "live"
  BY NullAssumption DEF Writable, IInv, Phases, LiveHandlers, NullAssumption
<1>2. p \in LiveProtocols /\ handlerOf[p] = current
  BY <1>1, State DEF LiveHandlers
<1>3. /\ UNCHANGED <<near, keepsNear, handlerOf, graceful, deadH>>
      /\ EnqueueForDelete(S)
      /\ output' = IF HasOutput(p) THEN output \ {OutputBuffer(p)} ELSE output
  BY DEF Writable, ReadyForSend, links, carriers
<1>4. Inward(p) \subseteq LiveProtocols /\ p \in Inward(p) /\ far[p] = NoProtocol /\ p \notin keepsNear
  BY <1>1, <1>2, WalksLive, State DEF IInv, Carried
<1>5. HasOutput(p) => OutputBuffer(p) \in Inward(p)
  <2> SUFFICES ASSUME HasOutput(p) PROVE OutputBuffer(p) \in Inward(p)
    OBVIOUS
  <2>1. Inward(p) \cap output # {} /\ Inward(p) \cap output \in SUBSET Inward(p)
    BY DEF HasOutput
  <2>2. \E q \in Inward(p) \cap output : \A r \in Inward(p) \cap output : ~Farther(r, q)
    BY <1>2, <2>1, Farthest
  <2> QED BY <2>2 DEF OutputBuffer
<1>6. stops # {} => S # {}
  <2>1. stops \in SUBSET Inward(p)
    OBVIOUS
  <2> HIDE DEF p, stops
  <2> QED BY <1>2, <2>1, Farthest
<1>7. S \subseteq LiveProtocols /\ S \subseteq Inward(p)
  BY <1>4
<1>8. UNCHANGED object /\ deadP \subseteq deadP' /\ S \subseteq deadP'
  <2> HIDE DEF S
  <2> QED BY <1>3, <1>7, EnqueueLive
<1>9. graceful' \subseteq LiveProtocols'
  BY <1>3, <1>8 DEF Remembered, LiveProtocols, Live
<1> HIDE DEF p, S
<1>10. ASSUME NEW e \in Protocols, handlerOf'[e] # NoHandler PROVE Kept(e)'
  <2>1. e \in LiveProtocols /\ Kept(e) /\ far[e] = NoProtocol /\ handlerOf[e] # NoHandler
    BY <1>3, <1>10, State DEF Remembered, IInv, Carried
  <2>2. Inward(e)' = Inward(e)
    BY <1>3 DEF Inward
  <2>3. CASE e = p
    <3>1. ASSUME NEW x \in Inward(e) \cap graceful PROVE Inward(e) \cap (output' \cup deadP') # {}
      <4>1. stops # {}
        <5>1. CASE x \notin keepsNear
          BY <2>3, <3>1, <5>1
        <5>2. CASE x \in keepsNear
          <6>1. e \in graceful
            BY <2>1, <5>2 DEF Kept
          <6> QED BY <1>4, <2>3, <6>1
        <5> QED BY <5>1, <5>2
      <4> QED BY <1>6, <1>7, <1>8, <2>3, <4>1
    <3>2. Inward(e) \cap graceful' \cap keepsNear' # {} => e \in graceful'
      BY <1>3, <2>1 DEF Kept
    <3> HIDE DEF stops
    <3> QED BY <1>3, <2>2, <3>1, <3>2 DEF Kept
  <2>4. CASE e # p
    <3>1. Inward(p) \cap Inward(e) = {}
      BY <1>2, <1>4, <2>1, <2>4, OneFarEnd
    <3>2. (output \cup deadP) \cap Inward(e) \subseteq output' \cup deadP'
      BY <1>3, <1>5, <1>8, <3>1
    <3> QED BY <1>3, <2>1, <3>2, KeptSame, State
  <2> QED BY <2>3, <2>4
<1> QED BY <1>9, <1>10 DEF Remembered

\* A chain that loses a protocol has the next one enqueued.
LEMMA DeleteProtocolRemembers ==
    ASSUME IInv, IInv', Remembered, pc \in {"clean", "exitClean"}, NEW p \in deadP, DeleteProtocol(p),
           UNCHANGED <<deadH, loop>>
    PROVE  Remembered'
<1> DEFINE f == far[p]
<1>1. p \in Protocols /\ p \in LiveProtocols /\ deadH = {}
  BY State DEF IInv, Phases
<1>2. /\ object' = [object EXCEPT ![p] = "freed"]
      /\ enqueued' = (enqueued \cup Taken(p)) \ {p}
      /\ deadP' = (deadP \cup (Taken(p) \ enqueued)) \ {p}
      /\ near' = [q \in Protocols |-> IF q = p \/ q = f THEN NoProtocol ELSE near[q]]
      /\ keepsNear'  = keepsNear \ {p}
      /\ graceful'   = graceful \ {p}
      /\ output'     = output \ {p}
      /\ handlerOf'  = [handlerOf EXCEPT ![p] = NoHandler]
  BY DEF DeleteProtocol
<1>3. near' \in [Protocols -> Protocols \cup {NoProtocol}] /\ enqueued' \subseteq deadP'
  BY DEF IInv, TypeOK, Lists
<1>4. f # NoProtocol => f \in LiveProtocols /\ near[f] = p /\ f # p
  <2>1. f # p
    <3>1. (\A q \in {p} : far[q] \in {p}) => {p} = {}
      BY <1>1 DEF IInv, Chains, Ending
    <3> QED BY <3>1
  <2> QED BY <1>1, <2>1, State
<1>5. f # NoProtocol => f \in deadP'
  BY <1>2, <1>3, <1>4 DEF Taken
<1>6. graceful' \subseteq LiveProtocols'
  BY <1>2, State DEF Remembered, LiveProtocols, Live
<1> HIDE DEF f
<1>7. \A x \in Protocols : x # p /\ x # f => near'[x] = near[x]
  BY <1>2
<1>8. ASSUME NEW e \in Protocols, handlerOf'[e] # NoHandler PROVE Kept(e)'
  <2>1. /\ e \in LiveProtocols /\ Kept(e) /\ far[e] = NoProtocol /\ e # p
        /\ handlerOf'[e] = handlerOf[e] /\ Inward(e) \subseteq LiveProtocols
        /\ Closed(near, Inward(e)) /\ e \in Inward(e)
    BY <1>1, <1>2, <1>8, State, WalksLive DEF Remembered, IInv, Carried
  <2>2. CASE p \in Inward(e)
    <3>1. f \in Inward(e) /\ f # NoProtocol
      BY <2>1, <2>2, Behind, State DEF f
    <3>2. ASSUME NEW x \in Inward(e), f \in Inward(x), x # f PROVE near'[x] = near[x]
      <4>1. x # p
        <5> SUFFICES ASSUME f \in Inward(p) PROVE FALSE
          BY <3>2
        <5>1. p \in Inward(f)
          BY <1>1, <1>4, <3>1, WalksLive, State DEF Closed
        <5>2. f = p
          BY <1>1, <5>1, WalkOneWay, State DEF Inward, IInv, Chains
        <5> QED BY <1>4, <3>1, <5>2
      <4> QED BY <1>7, <2>1, <3>2, <4>1, State
    <3>3. f \in Inward(e)'
      BY <1>3, <2>1, <3>1, <3>2, CutBeyond
    <3>4. Closed(near', Inward(e))
      BY <1>2, <1>3, <2>1, State DEF Closed
    <3>5. Inward(e)' \subseteq Inward(e)
      BY <1>3, <2>1, <3>4, Walks DEF Inward
    <3>6. Inward(e)' \cap graceful' \cap keepsNear' # {} => e \in graceful'
      BY <1>2, <2>1, <3>5 DEF Kept
    <3> QED BY <1>5, <3>1, <3>3, <3>6 DEF Kept
  <2>3. CASE p \notin Inward(e)
    <3>1. f \notin Inward(e)
      BY <1>1, <1>4, <2>1, <2>3, State DEF Closed
    <3>2. \A x \in Inward(e) : near'[x] = near[x]
      BY <1>7, <2>1, <2>3, <3>1, State
    <3>3. (output \cup deadP) \cap Inward(e) \subseteq output' \cup deadP'
      BY <1>2, <2>3
    <3> QED BY <1>1, <1>2, <1>3, <2>1, <3>2, <3>3, KeptSame, State
  <2> QED BY <2>2, <2>3
<1> QED BY <1>6, <1>8 DEF Remembered

LEMMA NextRemembers == IInv /\ IInv' /\ Remembered /\ [Next]_vars => Remembered'
<1> SUFFICES ASSUME IInv, IInv', Remembered, [Next]_vars PROVE Remembered'
  OBVIOUS
<1>1. CASE Business
  <2>1. CASE \E last \in NextProtocol .. NextProtocol + MaxChain - 1 :
               \/ NewConnection(NextProtocol, last)
               \/ RejectedConnection(NextProtocol, last)
               \/ ChainFails(NextProtocol, last)
    <3>1. \A last \in NextProtocol .. NextProtocol + MaxChain - 1 : last \in Nat
      BY Fresh, BoundAssumption DEF BoundAssumption
    <3> QED BY <2>1, <3>1, BuildingRemembers
  <2>2. CASE NewTimer(NextProtocol)
    BY <2>2, BuildingRemembers
  <2>3. ASSUME NEW p \in Protocols,
               \/ Substitute(p, NextProtocol) \/ BindSession(p, NextProtocol) \/ Insert(p, NextProtocol)
               \/ Relay(p) \/ CloseSession(p)
        PROVE  Remembered'
    BY <2>3, SubstituteRemembers, BindSessionRemembers, InsertRemembers, RelayRemembers,
       CloseSessionRemembers
  <2>4. ASSUME NEW p \in Protocols, CallsEnqueue(p) \/ CallsGracefully(p) \/ Writes(p)
        PROVE  Remembered'
    BY <2>4, LoopRemembers, CallsGracefullyRemembers
  <2> QED BY <1>1, <2>1, <2>2, <2>3, <2>4 DEF Business
<1>2. CASE Wait \/ Dispatch \/ OnEventReturns \/ Shutdown \/ ShutdownIOHandlers \/ UNCHANGED vars
  BY <1>2, LoopRemembers
<1>3. CASE Writable
  BY <1>3, WritableRemembers
<1>4. CASE DeleteDeadHandlers
  <2>1. deadH \in SUBSET Nat
    BY Types, BoundAssumption DEF IInv, Handlers, BoundAssumption
  <2>2. deadH # {} => Min(deadH) \in deadH
    BY <2>1, MinOf
  <2> QED BY <1>4, <2>2, DeleteHandlerRemembers, LoopRemembers DEF DeleteDeadHandlers
<1>5. CASE CleanupDeadProtocols
  <2>1. deadP \in SUBSET Nat
    BY Types, BoundAssumption DEF IInv, Protocols, BoundAssumption
  <2>2. deadP # {} => Min(deadP) \in deadP
    BY <2>1, MinOf
  <2> QED BY <1>5, <2>2, DeleteProtocolRemembers, LoopRemembers DEF CleanupDeadProtocols
<1> QED BY <1>1, <1>2, <1>3, <1>4, <1>5 DEF Next, Done, Return

\* A graceful delete is not forgotten: its chain has output whose end will be
\* noticed, or something of the chain, or its carrier, is about to go.
THEOREM GracefulStaysRemembered == Spec => []GracefulIsRemembered
<1>1. Init => Remembered
  BY DEF Init, Remembered
<1>2. IInv /\ Remembered => GracefulIsRemembered
  <2> SUFFICES ASSUME IInv, Remembered, NEW p \in graceful \cap LiveProtocols,
                      near[p] = NoProtocol, p # GetFarEndpoint(p),
                      handlerOf[GetFarEndpoint(p)] # NoHandler
               PROVE  \/ Inward(GetFarEndpoint(p)) \cap (enqueued \cup output \cup deadP) # {}
                      \/ handlerOf[GetFarEndpoint(p)] \in deadH
    BY DEF GracefulIsRemembered
  <2> DEFINE e == GetFarEndpoint(p)
  <2>1. e \in Along(far, p) /\ e \in Protocols
    BY FarEndpoint, WalksLive, State
  <2> HIDE DEF e
  <2>2. p \in Inward(e)
    BY <2>1, FarAndBack
  <2>3. Kept(e)
    BY <2>1 DEF Remembered, e
  <2> QED BY <2>2, <2>3 DEF Kept, e
<1> QED BY <1>1, <1>2, NextRemembers, InductiveInvariant, PTL DEF Spec
==============================================================================
