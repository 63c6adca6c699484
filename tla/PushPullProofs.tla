--------------------------- MODULE PushPullProofs ---------------------------
(***************************************************************************)
(* Proofs about PushPull, for any pulls, pushes, flags, targets and        *)
(* bounds: a pull is in one place only, and nothing removed comes back.    *)
(* Both rest on counting: a step moves a configuration from one of its     *)
(* places to another, and makes a new place for one that has none only.    *)
(***************************************************************************)
EXTENDS PushPull, TLAPS

Variables ==
    /\ configs \subseteq asked /\ removed \subseteq asked /\ asked \subseteq Commands
    /\ file \subseteq KeepAlive \cap asked /\ boot \subseteq KeepAlive \cap asked
    /\ pending \subseteq Commands
    /\ pushSetup \in [Targets -> Pushes \cup {NULL}]
    /\ link \in [Commands -> [Phases -> Nat]]
    /\ input \in BOOLEAN /\ dns \in BOOLEAN
    /\ crashes \in 0..MaxCrashes

\* What is not asked for, or not loaded yet, is nowhere; a pull is in at most
\* one place.
Places == \A c \in Commands :
    /\ Owners(c) <= IF c \in Pulls THEN 1 ELSE MaxLinks
    /\ c \notin asked \/ c \in boot => Owners(c) = 0

\* What was removed is in no map, no file and no list to be loaded.
Gone == removed \cap (configs \cup file \cup boot) = {}

IInv == Variables /\ Places /\ Gone

-----------------------------------------------------------------------------
(* The connections of a configuration, counted.                            *)

LEMMA LinksCount ==
    ASSUME Variables, NEW c \in Commands
    PROVE  /\ Links(c) \in Nat
           /\ \A p \in Phases : link[c][p] \in Nat /\ link[c][p] <= Links(c)
BY DEF Variables, Links, Phases

LEMMA LessLinks ==
    ASSUME Variables, NEW c \in Commands, NEW p \in Phases, link[c][p] > 0,
           link' = Less(c, p)
    PROVE  /\ link' \in [Commands -> [Phases -> Nat]]
           /\ Links(c)' = Links(c) - 1
           /\ \A d \in Commands \ {c} : Links(d)' = Links(d)
           /\ \A d \in Commands : link'[d]["connecting"] <= link[d]["connecting"]
<1>1. /\ link' = [link EXCEPT ![c] = [link[c] EXCEPT ![p] = link[c][p] - 1]]
      /\ link \in [Commands -> [Phases -> Nat]]
  BY DEF Less, Variables
<1>2. link'[c] = [link[c] EXCEPT ![p] = link[c][p] - 1] /\ link'[c] \in [Phases -> Nat]
  BY <1>1
<1>3. link' \in [Commands -> [Phases -> Nat]] /\ \A d \in Commands \ {c} : link'[d] = link[d]
  BY <1>1, <1>2
<1>4. Links(c)' = Links(c) - 1 /\ link'[c]["connecting"] <= link[c]["connecting"]
  BY <1>1, <1>2 DEF Links, Phases
<1>5. \A d \in Commands \ {c} : Links(d)' = Links(d)
  BY <1>3 DEF Links
<1>6. \A d \in Commands \ {c} : link'[d]["connecting"] <= link[d]["connecting"]
  BY <1>1, <1>3 DEF Phases
<1> QED
  BY <1>3, <1>4, <1>5, <1>6

LEMMA MovedLinks ==
    ASSUME Variables, NEW c \in Commands, NEW p \in Phases, link[c][p] > 0,
           NEW q \in Phases \ {p, "connecting"}, link' = Moved(c, p, q)
    PROVE  /\ link' \in [Commands -> [Phases -> Nat]]
           /\ \A d \in Commands : Links(d)' = Links(d)
           /\ \A d \in Commands : link'[d]["connecting"] <= link[d]["connecting"]
<1>1. /\ link' = [link EXCEPT ![c] = [link[c] EXCEPT ![p] = link[c][p] - 1,
                                                     ![q] = link[c][q] + 1]]
      /\ link \in [Commands -> [Phases -> Nat]]
  BY DEF Moved, Variables
<1>2. /\ link'[c] = [link[c] EXCEPT ![p] = link[c][p] - 1, ![q] = link[c][q] + 1]
      /\ link'[c] \in [Phases -> Nat]
  BY <1>1
<1>3. link' \in [Commands -> [Phases -> Nat]] /\ \A d \in Commands \ {c} : link'[d] = link[d]
  BY <1>1, <1>2
<1>4. Links(c)' = Links(c) /\ link'[c]["connecting"] <= link[c]["connecting"]
  BY <1>1, <1>2 DEF Links, Phases
<1>5. \A d \in Commands \ {c} : Links(d)' = Links(d)
  BY <1>3 DEF Links
<1>6. \A d \in Commands \ {c} : link'[d]["connecting"] <= link[d]["connecting"]
  BY <1>1, <1>3 DEF Phases
<1> QED
  BY <1>3, <1>4, <1>5, <1>6

LEMMA RequestedLinks ==
    ASSUME Variables, NEW s \in SUBSET Commands, Requested(s)
    PROVE  /\ link' \in [Commands -> [Phases -> Nat]]
           /\ \A d \in Commands : Links(d)' = Links(d) + IF d \in Started(s) THEN 1 ELSE 0
           /\ \A d \in Commands \ Started(s) : link'[d] = link[d]
           /\ pushSetup' \in [Targets -> Pushes \cup {NULL}]
<1>1. /\ link' = [c \in Commands |-> IF c \in Started(s)
                                     THEN [link[c] EXCEPT !["connecting"] = link[c]["connecting"] + 1]
                                     ELSE link[c]]
      /\ link \in [Commands -> [Phases -> Nat]]
  BY DEF Requested, Variables
<1>2. ASSUME NEW d \in Commands
      PROVE  /\ link'[d] \in [Phases -> Nat]
             /\ Links(d)' = Links(d) + IF d \in Started(s) THEN 1 ELSE 0
             /\ d \notin Started(s) => link'[d] = link[d]
  <2>1. CASE d \in Started(s)
    <3>1. link'[d] = [link[d] EXCEPT !["connecting"] = link[d]["connecting"] + 1]
      BY <1>1, <2>1
    <3>2. link[d] \in [Phases -> Nat]
      BY <1>1
    <3>3. /\ link'[d]["connecting"] = link[d]["connecting"] + 1
          /\ link'[d]["up"] = link[d]["up"] /\ link'[d]["ending"] = link[d]["ending"]
          /\ link'[d]["dying"] = link[d]["dying"] /\ link'[d] \in [Phases -> Nat]
      BY <3>1, <3>2 DEF Phases
    <3>4. Links(d)' = Links(d) + 1
      BY <3>2, <3>3 DEF Links, Phases
    <3> QED
      BY <2>1, <3>3, <3>4
  <2>2. CASE d \notin Started(s)
    BY <1>1, <2>2 DEF Links, Phases
  <2> QED
    BY <2>1, <2>2
<1>3. pushSetup' \in [Targets -> Pushes \cup {NULL}]
  BY DEF Requested, Entry, Variables
<1> QED
  BY <1>1, <1>2, <1>3

\* A configuration is saved from the map and is there before it is saved.
LEMMA ConfigureSaves ==
    ASSUME NEW s, Configure(s)
    PROVE  configs' = s /\ file' \subseteq KeepAlive \cap s
BY DEF Configure, Persisted

-----------------------------------------------------------------------------
LEMMA CrashesBound == MaxCrashes \in Nat
BY PushPullAssumption DEF PushPullAssumption

LEMMA InitInv == Init => IInv
<1> SUFFICES ASSUME Init PROVE IInv
  OBVIOUS
<1> USE PushPullAssumption
<1>1. \A c \in Commands : Owners(c) = 0
  BY DEF Init, Owners, Links, NoLink, Phases
<1>2. Variables
  <2>1. link \in [Commands -> [Phases -> Nat]]
    BY DEF Init, NoLink
  <2>2. crashes \in 0..MaxCrashes
    BY CrashesBound DEF Init
  <2>3. pushSetup \in [Targets -> Pushes \cup {NULL}]
    BY DEF Init
  <2> QED
    BY <2>1, <2>2, <2>3 DEF Init, Variables
<1>3. Places
  BY <1>1 DEF Places
<1>4. Gone
  BY DEF Init, Gone
<1> QED
  BY <1>2, <1>3, <1>4 DEF IInv

\* The actions that only move a connection to another phase, or count nothing.
LEMMA SameLinks ==
    ASSUME IInv, \A c \in Commands : Links(c)' = Links(c),
           pending' = pending, asked' = asked, boot' = boot
    PROVE  Places'
BY DEF IInv, Places, Owners

\* The end of one connection of c, which may put c into the timer.
LEMMA OneEnds ==
    ASSUME IInv, NEW c \in Commands, NEW p \in Phases, link[c][p] > 0,
           link' = Less(c, p), pending' \in {pending, pending \cup ({c} \cap configs)},
           asked' = asked, boot' = boot
    PROVE  Places'
<1>1. /\ Links(c)' = Links(c) - 1 /\ \A d \in Commands \ {c} : Links(d)' = Links(d)
  BY LessLinks DEF IInv
<1>2. /\ \A d \in Commands : Links(d) \in Nat
      /\ Links(c) > 0
  BY LinksCount DEF IInv, Variables
<1>3. ASSUME NEW d \in Commands PROVE Owners(d)' <= Owners(d) /\ Owners(d)' \in Nat
  <2>1. CASE d = c
    BY <1>1, <1>2, <2>1 DEF Owners
  <2>2. CASE d # c
    <3>1. d \in pending' <=> d \in pending
      BY <2>2
    <3> QED
      BY <1>1, <1>2, <2>2, <3>1 DEF Owners
  <2> QED
    BY <2>1, <2>2
<1>4. \A d \in Commands : Owners(d) \in Nat
  BY <1>2 DEF Owners
<1>5. MaxLinks \in Nat
  BY PushPullAssumption DEF PushPullAssumption
<1> QED
  BY <1>3, <1>4, <1>5 DEF IInv, Places

\* What is not the loader's, the set-up's or the files' does not bring back
\* what was removed.
LEMMA StaysGone ==
    ASSUME IInv, removed' = removed, boot' = boot,
           \/ configs' = configs /\ file' = file
           \/ \E s : s \subseteq configs /\ Configure(s)
    PROVE  Gone'
BY DEF IInv, Gone, Configure, Persisted

LEMMA ActionInv ==
    ASSUME IInv, Next PROVE IInv'
<1> USE PushPullAssumption
<1> DEFINE Bound(c) == IF c \in Pulls THEN 1 ELSE MaxLinks
<1>1. ASSUME NEW c \in Commands, Ask(c) PROVE IInv'
  <2>1. Requested({c}) /\ c \notin asked /\ asked' = asked \cup {c} /\ pending' = pending
    BY <1>1 DEF Ask
  <2>2. Variables'
    BY <1>1, <2>1, RequestedLinks, ConfigureSaves DEF IInv, Variables, Ask, Commands
  <2>3. ASSUME NEW d \in Commands
        PROVE  Owners(d)' <= Owners(d) + (IF d = c THEN 1 ELSE 0)
               /\ Owners(d)' \in Nat /\ Owners(d) \in Nat
    BY <2>1, RequestedLinks, LinksCount DEF IInv, Owners, Started
  <2>4. Places'
    BY <1>1, <2>1, <2>3 DEF IInv, Places, Ask, Serving
  <2>5. Gone'
    BY <1>1, ConfigureSaves DEF IInv, Gone, Variables, Ask, Serving, Configure, Persisted
  <2> QED
    BY <2>2, <2>4, <2>5 DEF IInv
<1>2. CASE DoRequests
  <2>1. Requested(IsActive(pending)) /\ pending' = {}
    BY <1>2 DEF DoRequests, Cleared
  <2>2. Started(IsActive(pending)) \subseteq pending /\ IsActive(pending) \in SUBSET Commands
    BY DEF IInv, Variables, Started, IsActive
  <2>3. Variables'
    BY <1>2, <2>1, <2>2, RequestedLinks DEF IInv, Variables, DoRequests
  <2>4. ASSUME NEW d \in Commands PROVE Owners(d)' <= Owners(d) /\ Owners(d)' \in Nat
    BY <2>1, <2>2, RequestedLinks, LinksCount DEF IInv, Owners
  <2>5. Places'
    BY <1>2, <2>4, LinksCount DEF IInv, Places, DoRequests, Owners
  <2>6. Gone'
    BY <1>2 DEF IInv, Gone, DoRequests
  <2> QED
    BY <2>3, <2>5, <2>6 DEF IInv
<1>3. ASSUME NEW c \in Commands, Connected(c) PROVE IInv'
  BY <1>3, MovedLinks, SameLinks DEF IInv, Variables, Gone, Connected, Phases
<1>4. ASSUME NEW c \in Commands, Rejected(c) PROVE IInv'
  BY <1>4, MovedLinks, SameLinks DEF IInv, Variables, Gone, Rejected, Phases
<1>5. ASSUME NEW c \in Commands, NEW p \in {"connecting", "dying"}, ConnectionFails(c, p)
      PROVE  IInv'
  <2>1. Places'
    BY <1>5, OneEnds DEF ConnectionFails, Failed, Enqueued, Phases
  <2>2. Gone'
    BY <1>5, StaysGone DEF ConnectionFails, Failed
  <2>3. Variables'
    BY <1>5, LessLinks, ConfigureSaves
    DEF IInv, Variables, ConnectionFails, Failed, Enqueued, Phases
  <2> QED
    BY <2>1, <2>2, <2>3 DEF IInv
<1>6. ASSUME NEW c \in Commands, NEW p \in {"up", "ending"}, LinkEnds(c, p) PROVE IInv'
  <2>1. Places'
    BY <1>6, OneEnds DEF LinkEnds, UnRegistered, Enqueued, Phases
  <2>2. Gone'
    BY <1>6, StaysGone DEF LinkEnds, UnRegistered
  <2>3. Variables'
    BY <1>6, LessLinks, ConfigureSaves
    DEF IInv, Variables, LinkEnds, UnRegistered, Enqueued, Phases
  <2> QED
    BY <2>1, <2>2, <2>3 DEF IInv
<1>7. ASSUME NEW c \in Commands, RemoveConfig(c) PROVE IInv'
  <2>1. Places'
    BY <1>7, OneEnds, SameLinks DEF RemoveConfig, Phases, Links
  <2>2. Gone'
    BY <1>7, ConfigureSaves DEF IInv, Gone, RemoveConfig, RemovedConfig, Serving
  <2>3. link' \in [Commands -> [Phases -> Nat]]
    BY <1>7, LessLinks DEF IInv, Variables, RemoveConfig, Phases
  <2>4. pushSetup' \in [Targets -> Pushes \cup {NULL}]
    BY <1>7 DEF IInv, Variables, RemoveConfig, RemovedConfig
  <2>5. configs' = configs \ {c} /\ file' \subseteq KeepAlive \cap (configs \ {c})
    BY <1>7, ConfigureSaves DEF RemoveConfig, RemovedConfig
  <2>6. /\ removed' = removed \cup {c} /\ c \in asked
        /\ UNCHANGED <<asked, boot, pending, input, dns, crashes>>
    BY <1>7 DEF RemoveConfig, RemovedConfig
  <2>7. Variables'
    BY <2>3, <2>4, <2>5, <2>6 DEF IInv, Variables
  <2> QED
    BY <2>1, <2>2, <2>7 DEF IInv
<1>8. ASSUME NEW c \in Commands, ShutdownStream(c) PROVE IInv'
  BY <1>8, MovedLinks, SameLinks DEF IInv, Variables, Gone, ShutdownStream, Phases
<1>9. CASE SignalStreamRegistered
  <2> DEFINE waiting == {pushSetup[t] : t \in Targets} \ {NULL}
  <2>1. waiting \subseteq Pushes /\ pending' = pending \cup (waiting \cap configs)
        /\ \A c \in waiting : Owners(c) < MaxLinks
    BY <1>9 DEF IInv, Variables, SignalStreamRegistered, Enqueued
  <2>2. UNCHANGED <<asked, removed, configs, file, boot, pushSetup, link, dns, crashes>>
        /\ boot = {} /\ input' = TRUE
    BY <1>9 DEF SignalStreamRegistered, Serving
  <2>3. \A c \in Commands : Links(c)' = Links(c) /\ Links(c) \in Nat
    BY <2>2, LinksCount DEF IInv, Links
  <2>4. Places'
    BY <2>1, <2>2, <2>3 DEF IInv, Places, Owners, Variables
  <2>5. Variables' /\ Gone'
    BY <2>1, <2>2 DEF IInv, Variables, Gone, Commands
  <2> QED
    BY <2>4, <2>5 DEF IInv
<1>10. CASE InputLost
  <2> DEFINE fed == {c \in Pushes : link[c]["up"] > 0}
  <2>1. \A c \in Commands : link'[c] =
            IF c \notin fed THEN link[c]
            ELSE [link[c] EXCEPT !["up"] = 0, !["ending"] = link[c]["ending"] + link[c]["up"]]
    BY <1>10 DEF InputLost
  <2>2. ASSUME NEW c \in Commands
        PROVE  link'[c] \in [Phases -> Nat] /\ Links(c)' = Links(c)
    <3>1. link[c] \in [Phases -> Nat]
      BY DEF IInv, Variables
    <3>2. CASE c \notin fed
      BY <2>1, <3>1, <3>2 DEF Links
    <3>3. CASE c \in fed
      <4>1. link'[c] = [link[c] EXCEPT !["up"] = 0, !["ending"] = link[c]["ending"] + link[c]["up"]]
        BY <2>1, <3>3
      <4>2. /\ link'[c]["connecting"] = link[c]["connecting"] /\ link'[c]["up"] = 0
            /\ link'[c]["ending"] = link[c]["ending"] + link[c]["up"]
            /\ link'[c]["dying"] = link[c]["dying"] /\ link'[c] \in [Phases -> Nat]
        BY <3>1, <4>1 DEF Phases
      <4>3. Links(c)' = Links(c)
        BY <3>1, <4>2 DEF Links, Phases
      <4> QED
        BY <4>2, <4>3
    <3> QED
      BY <3>2, <3>3
  <2>3. link' \in [Commands -> [Phases -> Nat]]
    BY <1>10, <2>2 DEF InputLost
  <2>4. Places'
    BY <1>10, <2>2, SameLinks DEF InputLost
  <2>5. Variables'
    <3>1. configs' \subseteq configs /\ file' \subseteq KeepAlive \cap configs
      BY <1>10, ConfigureSaves DEF InputLost
    <3>2. UNCHANGED <<asked, removed, boot, pending, pushSetup, dns, crashes>> /\ input' = FALSE
      BY <1>10 DEF InputLost
    <3> QED
      BY <2>3, <3>1, <3>2 DEF IInv, Variables
  <2>6. Gone'
    BY <1>10, StaysGone DEF InputLost
  <2> QED
    BY <2>4, <2>5, <2>6 DEF IInv
<1>11. CASE NamesChange
  <2>1. \A c \in Commands : Links(c)' = Links(c)
    BY <1>11 DEF NamesChange, Links
  <2> QED
    BY <1>11, <2>1, SameLinks DEF IInv, Variables, Gone, NamesChange
<1>12. CASE Crash
  <2>1. \A c \in Commands : Owners(c)' = 0
    BY <1>12 DEF Crash, Owners, Links, NoLink, Phases
  <2>2. Variables'
    <3>1. link' \in [Commands -> [Phases -> Nat]]
      BY <1>12 DEF Crash, NoLink
    <3>2. pushSetup' \in [Targets -> Pushes \cup {NULL}]
      BY <1>12 DEF Crash
    <3>3. crashes' \in 0..MaxCrashes
      BY <1>12, CrashesBound DEF IInv, Variables, Crash
    <3> QED
      BY <1>12, <3>1, <3>2, <3>3 DEF IInv, Variables, Crash
  <2>3. Places' /\ Gone'
    BY <1>12, <2>1 DEF IInv, Places, Gone, Crash
  <2> QED
    BY <2>2, <2>3 DEF IInv
<1>13. ASSUME NEW c \in Commands, Load(c) PROVE IInv'
  <2>1. Requested({c}) /\ c \in boot /\ boot' = boot \ {c} /\ UNCHANGED <<asked, pending>>
    BY <1>13 DEF Load
  <2>2. Variables'
    BY <1>13, <2>1, RequestedLinks, ConfigureSaves DEF IInv, Variables, Load
  <2>3. ASSUME NEW d \in Commands
        PROVE  Owners(d)' <= Owners(d) + (IF d = c THEN 1 ELSE 0)
               /\ Owners(d)' \in Nat /\ Owners(d) \in Nat
               /\ (d # c => Owners(d)' = Owners(d))
    BY <2>1, RequestedLinks, LinksCount DEF IInv, Owners, Started
  <2>4. Places'
    BY <2>1, <2>3 DEF IInv, Places, Variables
  <2>5. Gone'
    BY <1>13, ConfigureSaves DEF IInv, Gone, Load, Configure, Persisted
  <2> QED
    BY <2>2, <2>4, <2>5 DEF IInv
<1> QED
  BY <1>1, <1>2, <1>3, <1>4, <1>5, <1>6, <1>7, <1>8, <1>9, <1>10, <1>11, <1>12, <1>13
  DEF Next

\* The inductive invariant holds in every state of every behaviour.
THEOREM Invariance == Spec => []IInv
<1>1. IInv /\ UNCHANGED vars => IInv'
  BY DEF IInv, Variables, Places, Gone, Owners, Links, vars
<1>2. IInv /\ [Next]_vars => IInv'
  BY <1>1, ActionInv
<1> QED
  BY InitInv, <1>2, PTL DEF Spec

-----------------------------------------------------------------------------
\* A pull is in one place only: in the timer, connecting, connected or being
\* deleted, whatever fails and whoever ends it; and every variable keeps its
\* type, with the bound on what a push has under way.
THEOREM OnePlace == Spec => []PullNeverTwice
<1>1. IInv => PullNeverTwice
  <2> SUFFICES ASSUME IInv PROVE PullNeverTwice
    OBVIOUS
  <2> USE PushPullAssumption
  <2>1. \A c \in Pulls : Owners(c) <= 1
    BY DEF IInv, Places, Commands
  <2>2. ASSUME NEW c \in Commands, NEW p \in Phases PROVE link[c][p] \in 0..MaxLinks
    <3>1. Links(c) \in Nat /\ link[c][p] \in Nat /\ link[c][p] <= Links(c)
      BY LinksCount DEF IInv
    <3>2. Links(c) <= Owners(c) /\ Owners(c) \in Nat /\ Owners(c) <= MaxLinks
      BY <3>1 DEF IInv, Places, Owners
    <3> QED
      BY <3>1, <3>2
  <2>3. link \in [Commands -> [Phases -> 0..MaxLinks]]
    BY <2>2 DEF IInv, Variables
  <2>4. TypeOK
    BY <2>3 DEF IInv, Variables, TypeOK
  <2> QED
    BY <2>1, <2>4 DEF PullNeverTwice
<1> QED
  BY <1>1, Invariance, PTL

\* What the user removed is not connected, saved or loaded again, whatever
\* copies of it are left in the timer, in connections and in the set-up.
THEOREM NothingComesBack == Spec => RemovedStaysRemoved
<1> DEFINE Kept == \A c \in removed : /\ link'[c]["connecting"] <= link[c]["connecting"]
                                      /\ c \notin configs' \cup file' \cup boot'
<1>1. ASSUME IInv, Next PROVE Kept
  <2> SUFFICES ASSUME NEW c \in removed PROVE link'[c]["connecting"] <= link[c]["connecting"]
    <3>1. IInv' /\ removed \subseteq removed'
      BY <1>1, ActionInv
      DEF Next, Ask, DoRequests, Connected, Rejected, ConnectionFails, LinkEnds, RemoveConfig,
          RemovedConfig, ShutdownStream, Load, SignalStreamRegistered, InputLost, NamesChange, Crash
    <3> QED
      BY <3>1 DEF IInv, Gone
  <2>1. c \in Commands /\ c \in asked /\ c \notin configs /\ c \notin boot
        /\ link[c] \in [Phases -> Nat] /\ Variables
    BY <1>1 DEF IInv, Variables, Gone
  <2>2. ASSUME NEW s \in SUBSET Commands, Requested(s), c \notin s
        PROVE  link'[c]["connecting"] <= link[c]["connecting"]
    BY <2>1, <2>2, RequestedLinks DEF Started, Phases
  <2>3. ASSUME NEW d \in Commands, Ask(d) \/ Load(d)
        PROVE  link'[c]["connecting"] <= link[c]["connecting"]
    BY <2>1, <2>2, <2>3 DEF Ask, Load
  <2>4. CASE DoRequests
    BY <2>1, <2>2, <2>4 DEF DoRequests, IsActive, Variables
  <2>5. ASSUME NEW d \in Commands, Connected(d) \/ Rejected(d) \/ ShutdownStream(d)
        PROVE  link'[c]["connecting"] <= link[c]["connecting"]
    BY <2>1, <2>5, MovedLinks DEF Connected, Rejected, ShutdownStream, Phases
  <2>6. ASSUME NEW d \in Commands, NEW p \in Phases, ConnectionFails(d, p) \/ LinkEnds(d, p)
        PROVE  link'[c]["connecting"] <= link[c]["connecting"]
    BY <2>1, <2>6, LessLinks DEF ConnectionFails, LinkEnds
  <2>7. ASSUME NEW d \in Commands, RemoveConfig(d)
        PROVE  link'[c]["connecting"] <= link[c]["connecting"]
    BY <2>1, <2>7, LessLinks DEF RemoveConfig, Phases
  <2>8. CASE SignalStreamRegistered \/ NamesChange
    BY <2>1, <2>8 DEF SignalStreamRegistered, NamesChange, Phases
  <2>9. CASE InputLost
    BY <2>1, <2>9 DEF InputLost, Phases
  <2>10. CASE Crash
    BY <2>1, <2>10 DEF Crash, NoLink, Phases
  <2> QED
    BY <1>1, <2>3, <2>4, <2>5, <2>6, <2>7, <2>8, <2>9, <2>10 DEF Next, Phases
<1>2. IInv /\ UNCHANGED vars => Kept
  BY DEF vars, IInv, Variables, Gone, Phases
<1>3. IInv /\ [Next]_vars => [Kept]_vars
  BY <1>1, <1>2
<1> QED
  BY <1>3, Invariance, PTL DEF Spec, RemovedStaysRemoved

-----------------------------------------------------------------------------
(* What a crash leaves: the file is what the maps would save, but while it *)
(* is being loaded.                                                        *)

Saved == boot = {} => file = Persisted(configs)

LEMMA InitSaved == Init => Saved
BY DEF Init, Saved, Persisted

LEMMA ActionSaved ==
    ASSUME Saved, Next PROVE Saved'
<1>1. ASSUME NEW s, Configure(s) PROVE Saved'
  BY <1>1 DEF Saved, Configure
<1>2. ASSUME UNCHANGED <<configs, file, boot>> PROVE Saved'
  BY <1>2 DEF Saved, Persisted
<1>3. ASSUME NEW c \in Commands, Ask(c) \/ RemoveConfig(c) \/ Load(c) PROVE Saved'
  BY <1>1, <1>3 DEF Ask, RemoveConfig, RemovedConfig, Load
<1>4. ASSUME NEW c \in Commands, NEW p, ConnectionFails(c, p) \/ LinkEnds(c, p) PROVE Saved'
  BY <1>1, <1>2, <1>4 DEF ConnectionFails, Failed, LinkEnds, UnRegistered
<1>5. ASSUME NEW c \in Commands, Connected(c) \/ Rejected(c) \/ ShutdownStream(c) PROVE Saved'
  BY <1>2, <1>5 DEF Connected, Rejected, ShutdownStream
<1>6. CASE DoRequests \/ SignalStreamRegistered \/ NamesChange
  BY <1>2, <1>6 DEF DoRequests, SignalStreamRegistered, NamesChange
<1>7. CASE InputLost
  BY <1>1, <1>7 DEF InputLost
<1>8. CASE Crash
  BY <1>8 DEF Crash, Saved, Persisted
<1> QED
  BY <1>3, <1>4, <1>5, <1>6, <1>7, <1>8 DEF Next

\* Carrying out s: a configuration of s that does not start waits in the
\* set-up, unless its name does not resolve or another push took its place.
LEMMA RequestedCares ==
    ASSUME IInv, NEW s \in SUBSET Commands, Requested(s), dns,
           NEW c \in KeepAlive, c \in configs', input' = input, s \subseteq asked',
           \/ c \in s
           \/ Links(c) > 0
           \/ c \in pending'
           \/ c \in Pushes /\ ~input /\ pushSetup[Target[c]] = c
    PROVE  Cared(c)' \/ (SharesTarget(c)' /\ pushSetup'[Target[c]] # c)
<1> USE PushPullAssumption
<1>1. c \in Commands /\ KeepAlive \subseteq Commands
  OBVIOUS
<1>2. /\ \A d \in Commands : Links(d)' = Links(d) + (IF d \in Started(s) THEN 1 ELSE 0)
      /\ \A d \in Commands : Links(d) \in Nat
  BY RequestedLinks, LinksCount DEF IInv
<1>3. CASE Links(c) > 0 \/ c \in pending' \/ c \in Started(s)
  BY <1>1, <1>2, <1>3 DEF Cared, Owners
<1>4. CASE ~ (Links(c) > 0 \/ c \in pending' \/ c \in Started(s))
  <2> DEFINE t == Target[c]
             mine == {d \in s \cap Pushes : Target[d] = t}
  <2>1. c \in Pushes /\ ~input /\ t \in Targets
    BY <1>1, <1>4 DEF Started, Commands, Targets
  <2>2. PICK last \in [Targets -> Pushes \cup {NULL}] :
          /\ IF mine = {} THEN last[t] = NULL ELSE last[t] \in mine
          /\ pushSetup'[t] = IF last[t] = NULL THEN pushSetup[t] ELSE Entry(last[t])
    BY <2>1 DEF Requested
  <2>3. CASE last[t] = NULL
    <3>1. c \notin s
      BY <2>1, <2>2, <2>3
    <3>2. pushSetup'[t] = c
      BY <1>4, <2>2, <2>3, <3>1
    <3> QED
      BY <2>1, <3>2 DEF Cared
  <2>4. CASE last[t] = c
    <3>1. Entry(c) = c
      BY DEF Entry
    <3> QED
      BY <2>1, <2>2, <2>4, <3>1 DEF Cared
  <2>5. CASE last[t] # NULL /\ last[t] # c
    <3>1. last[t] \in Pushes /\ last[t] \in asked' /\ Target[last[t]] = t
      BY <2>2, <2>5
    <3>2. pushSetup'[t] # c
      BY <2>1, <2>2, <2>5 DEF Entry
    <3> QED
      BY <2>1, <2>5, <3>1, <3>2 DEF SharesTarget
  <2> QED BY <2>3, <2>4, <2>5
<1> QED BY <1>3, <1>4

\* A persistent configuration is not forgotten, across crashes too, but for the
\* causes that are named.
THEOREM NothingForgotten == Spec => NeverForgotten
<1> DEFINE Forgiven(c) ==
             \/ c \in removed' \/ ~dns
             \/ SharesTarget(c)' /\ pushSetup'[Target[c]] # c
             \/ boot # {} /\ crashes' # crashes
           Kept == \A c \in KeepAlive \cap (Serialized \cup Pushes) : Cared(c) =>
                     \/ Cared(c)' \/ c \in removed' \/ ~dns
                     \/ SharesTarget(c)' /\ pushSetup'[Target[c]] # c
                     \/ boot # {} /\ crashes' # crashes
<1>1. ASSUME IInv, Saved, Next PROVE Kept
  <2> SUFFICES ASSUME NEW c \in KeepAlive \cap (Serialized \cup Pushes), Cared(c), dns
               PROVE  Cared(c)' \/ Forgiven(c)
    BY DEF Kept
  <2> USE PushPullAssumption
  <2> DEFINE Waits == c \in Pushes /\ ~input /\ pushSetup[Target[c]] = c
  <2>1. /\ c \in Commands /\ c \in asked /\ c \in KeepAlive /\ Links(c) \in Nat
        /\ Owners(c) > 0 <=> Links(c) > 0 \/ c \in pending
        /\ configs \subseteq asked /\ boot \subseteq asked /\ asked \subseteq Commands
    BY <1>1, LinksCount DEF Cared, IInv, Variables, Owners
  <2>2. c \in boot \/ (c \in configs /\ (Links(c) > 0 \/ c \in pending \/ Waits))
    BY <2>1 DEF Cared
  \* What keeps a place of c, or the set-up it waits in, keeps it cared for.
  <2>3. ASSUME c \in configs, c \in configs', Links(c)' >= Links(c), Links(c)' \in Nat,
               c \in pending => c \in pending', Waits => Waits', c \notin boot
        PROVE  Cared(c)'
    BY <2>1, <2>2, <2>3 DEF Cared, Owners
  <2>4. ASSUME NEW d \in Commands, Ask(d) PROVE Cared(c)' \/ Forgiven(c)
    <3>1. /\ Requested({d}) /\ c \in configs /\ c \in configs' /\ {d} \subseteq asked'
          /\ pending' = pending /\ input' = input
      BY <2>2, <2>4 DEF Ask, Serving, Configure
    <3> QED
      BY <1>1, <2>1, <2>2, <2>4, <3>1, RequestedCares DEF Ask, Serving
  <2>5. ASSUME NEW d \in Commands, Load(d) PROVE Cared(c)' \/ Forgiven(c)
    <3>1. /\ Requested({d}) /\ configs' = configs \cup {d} /\ {d} \subseteq asked'
          /\ pending' = pending /\ input' = input /\ boot' = boot \ {d}
      BY <2>1, <2>5 DEF Load, Configure
    <3>2. CASE c \in boot /\ c # d
      BY <3>1, <3>2 DEF Cared
    <3>3. CASE c = d \/ c \notin boot
      BY <1>1, <2>1, <2>2, <3>1, <3>3, RequestedCares
    <3> QED BY <3>2, <3>3
  <2>6. CASE DoRequests
    <3>1. /\ Requested(IsActive(pending)) /\ c \in configs /\ configs' = configs
          /\ input' = input /\ asked' = asked
      BY <2>2, <2>6 DEF DoRequests, Serving
    <3>2. IsActive(pending) \in SUBSET Commands /\ IsActive(pending) \subseteq asked'
      BY <2>1, <3>1 DEF IsActive
    <3>3. c \in IsActive(pending) \/ Links(c) > 0 \/ Waits
      BY <2>2, <2>6, <3>1 DEF IsActive, DoRequests, Serving
    <3> QED
      BY <1>1, <2>1, <3>1, <3>2, <3>3, RequestedCares
  <2>7. ASSUME NEW d \in Commands, Connected(d) \/ Rejected(d) \/ ShutdownStream(d)
        PROVE  Cared(c)'
    <3>1. Links(c)' = Links(c)
      BY <1>1, <2>1, <2>7, MovedLinks DEF Connected, Rejected, ShutdownStream, Phases, IInv
    <3>2. UNCHANGED <<configs, boot, pending, pushSetup, input>> /\ boot = {}
      BY <2>7 DEF Connected, Rejected, ShutdownStream, Serving
    <3> QED
      BY <2>1, <2>2, <2>3, <3>1, <3>2
  <2>8. ASSUME NEW d \in Commands, NEW p \in Phases, ConnectionFails(d, p) \/ LinkEnds(d, p)
        PROVE  Cared(c)'
    <3>1. /\ link[d][p] > 0 /\ link' = Less(d, p) /\ boot = {} /\ pushSetup' = pushSetup
          /\ input' = input /\ c \in configs
      BY <2>2, <2>8 DEF ConnectionFails, LinkEnds, Serving
    <3>2. CASE d = c
      <4>1. pending' = Enqueued({c}) /\ configs' = configs
        BY <2>1, <2>8, <3>2 DEF ConnectionFails, Failed, LinkEnds, UnRegistered
      <4>2. c \in pending' /\ c \in configs'
        BY <3>1, <4>1 DEF Enqueued
      <4>3. Links(c)' \in Nat
        BY <1>1, <2>1, <3>1, <3>2, LessLinks, LinksCount DEF IInv
      <4> QED
        BY <4>2, <4>3 DEF Cared, Owners
    <3>3. CASE d # c
      <4>1. Links(c)' = Links(c)
        BY <1>1, <2>1, <3>1, <3>3, LessLinks DEF IInv
      <4>2. c \in configs' /\ pending \subseteq pending'
        BY <2>8, <3>1, <3>3
        DEF ConnectionFails, Failed, LinkEnds, UnRegistered, Configure, Enqueued
      <4> QED
        BY <2>1, <2>2, <2>3, <3>1, <4>1, <4>2
    <3> QED BY <3>2, <3>3
  <2>9. ASSUME NEW d \in Commands, RemoveConfig(d) PROVE Cared(c)' \/ Forgiven(c)
    <3>1. CASE d = c
      BY <2>9, <3>1 DEF RemoveConfig, RemovedConfig
    <3>2. CASE d # c
      <4>1. /\ c \in configs /\ c \in configs' /\ boot = {} /\ pending' = pending
            /\ input' = input /\ asked' = asked
        BY <2>2, <2>9, <3>2 DEF RemoveConfig, RemovedConfig, Configure, Serving
      <4>2. Links(c)' = Links(c)
        BY <1>1, <2>1, <2>9, <3>2, LessLinks DEF RemoveConfig, IInv, Phases, Links
      <4>3. CASE Waits => Waits'
        BY <2>1, <2>2, <2>3, <4>1, <4>2, <4>3
      <4>4. CASE Waits /\ ~Waits'
        <5>1. c \in Pushes /\ Target[c] \in Targets
          BY <4>4 DEF Targets
        <5>2. /\ pushSetup \in [Targets -> Pushes \cup {NULL}] /\ d \in asked
              /\ pushSetup' = IF d \in Pushes /\ (d \in configs \/ link[d]["up"] > 0)
                              THEN [pushSetup EXCEPT ![Target[d]] = NULL] ELSE pushSetup
          BY <1>1, <2>9 DEF RemoveConfig, RemovedConfig, IInv, Variables
        <5>3. pushSetup'[Target[c]] # pushSetup[Target[c]]
          BY <4>1, <4>4
        <5>4. d \in Pushes /\ Target[d] = Target[c] /\ pushSetup'[Target[c]] = NULL
          BY <5>1, <5>2, <5>3
        <5> QED
          BY <3>2, <4>1, <5>1, <5>2, <5>4 DEF SharesTarget
      <4> QED BY <4>3, <4>4
    <3> QED BY <3>1, <3>2
  <2>10. CASE SignalStreamRegistered
    <3>1. /\ boot = {} /\ c \in configs /\ UNCHANGED <<configs, link>>
          /\ pending' = Enqueued({pushSetup[t] : t \in Targets} \ {NULL})
      BY <2>2, <2>10 DEF SignalStreamRegistered, Serving
    <3>2. Links(c)' = Links(c)
      BY <3>1 DEF Links
    <3>3. Waits => c \in pending'
      BY <3>1 DEF Enqueued, Targets
    <3> QED
      BY <2>1, <2>2, <3>1, <3>2, <3>3 DEF Cared, Owners, Enqueued
  <2>11. CASE InputLost
    <3>1. /\ boot = {} /\ c \in configs /\ c \in configs'
          /\ UNCHANGED <<pending, pushSetup>> /\ input' = FALSE
      BY <2>1, <2>2, <2>11 DEF InputLost, Serving, Configure
    <3>2. Links(c)' = Links(c)
      <4>1. link[c] \in [Phases -> Nat]
        BY <1>1, <2>1 DEF IInv, Variables
      <4>2. \/ link'[c] = link[c]
            \/ link'[c] = [link[c] EXCEPT !["up"] = 0, !["ending"] = link[c]["ending"] + link[c]["up"]]
        BY <2>1, <2>11 DEF InputLost
      <4>3. CASE link'[c] = link[c]
        BY <4>3 DEF Links
      <4>4. CASE link'[c] # link[c]
        <5>1. /\ link'[c]["connecting"] = link[c]["connecting"] /\ link'[c]["up"] = 0
              /\ link'[c]["ending"] = link[c]["ending"] + link[c]["up"]
              /\ link'[c]["dying"] = link[c]["dying"]
          BY <4>1, <4>2, <4>4 DEF Phases
        <5> QED BY <4>1, <5>1 DEF Links, Phases
      <4> QED BY <4>3, <4>4
    <3> QED
      BY <2>1, <2>2, <2>3, <3>1, <3>2
  <2>12. CASE NamesChange
    <3>1. UNCHANGED <<configs, boot, pending, pushSetup, input, link>>
      BY <2>12 DEF NamesChange
    <3> QED
      BY <3>1 DEF Cared, Owners, Links
  <2>13. CASE Crash
    <3>1. boot' = file /\ crashes' # crashes
      BY <1>1, <2>13 DEF Crash, IInv, Variables
    <3>2. CASE boot = {}
      BY <1>1, <2>2, <3>1, <3>2 DEF Saved, Persisted, Cared
    <3> QED BY <3>1, <3>2
  <2> QED
    BY <1>1, <2>4, <2>5, <2>6, <2>7, <2>8, <2>9, <2>10, <2>11, <2>12, <2>13 DEF Next, Phases
<1>2. IInv /\ Saved /\ UNCHANGED vars => Kept
  BY DEF vars, Cared, Owners, Links
<1>3. IInv /\ Saved /\ [Next]_vars => [Kept]_vars
  BY <1>1, <1>2
<1>4. Saved /\ UNCHANGED vars => Saved'
  BY DEF Saved, vars, Persisted
<1>5. Saved /\ [Next]_vars => Saved'
  BY <1>4, ActionSaved
<1>6. Spec => []Saved
  BY <1>5, InitSaved, PTL DEF Spec
<1> QED
  BY <1>3, <1>6, Invariance, PTL DEF Spec, NeverForgotten
=============================================================================
