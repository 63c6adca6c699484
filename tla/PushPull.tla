------------------------------ MODULE PushPull ------------------------------
(***************************************************************************)
(* The pulls and pushes the router was asked for: originapplication.cpp    *)
(* and the timer that retries them, jobstimerprotocol.cpp.  One copy of a  *)
(* configuration is in the maps, others are in the file, in the timer, in  *)
(* the push set-up and in the parameters of each connection.               *)
(*                                                                         *)
(* A configuration is named by the command that made it, in the place of   *)
(* its configId: ids are given anew when the process starts again.         *)
(***************************************************************************)
EXTENDS Integers, FiniteSets

CONSTANTS NULL,
          Pulls, Pushes, \* the commands that can be given
          KeepAlive,     \* those with keepAlive
          Serialized,    \* the pulls with serializeToConfig
          Target,        \* targetUri and targetStreamName of a push
          MaxLinks,      \* bound: what one configuration has under way
          MaxCrashes,    \* bound: crashes
          MaxAsked       \* bound: commands given in a run

Commands == Pulls \cup Pushes
Targets  == {Target[c] : c \in Pushes}
Phases   == {"connecting", "up", "ending", "dying"}

ASSUME PushPullAssumption ==
    /\ Pulls \cap Pushes = {} /\ KeepAlive \subseteq Commands
    /\ Serialized \subseteq Pulls /\ DOMAIN Target = Pushes
    /\ NULL \notin Pushes /\ MaxLinks \in Nat \ {0} /\ {MaxCrashes, MaxAsked} \subseteq Nat

VARIABLES asked,     \* commands that were given
          removed,   \* history: those the user took back
          configs,   \* _configurations
          file,      \* the pushPullPersistenceFile
          boot,      \* what ProcessPushPullList has read and not yet made
          pending,   \* _pullRequests and _pushRequests of the timer
          pushSetup, \* _pushSetup: a configuration for each target
          link,      \* connections of a configuration, by phase
          input,     \* is there an in stream of the local stream name?
          dns,       \* do host names resolve?
          crashes

vars == <<asked, removed, configs, file, boot, pending, pushSetup, link,
          input, dns, crashes>>

Links(c) == link[c]["connecting"] + link[c]["up"] + link[c]["ending"] + link[c]["dying"]
Owners(c) == Links(c) + IF c \in pending THEN 1 ELSE 0

TypeOK ==
    /\ configs \subseteq asked /\ removed \subseteq asked /\ asked \subseteq Commands
    /\ file \subseteq KeepAlive /\ boot \subseteq KeepAlive
    /\ pending \subseteq Commands
    /\ pushSetup \in [Targets -> Pushes \cup {NULL}]
    /\ link \in [Commands -> [Phases -> 0..MaxLinks]]
    /\ input \in BOOLEAN /\ dns \in BOOLEAN /\ crashes \in 0..MaxCrashes

NoLink == [p \in Phases |-> 0]

Init ==
    /\ asked = {} /\ removed = {} /\ configs = {} /\ file = {} /\ boot = {}
    /\ pending = {} /\ pushSetup = [t \in Targets |-> NULL]
    /\ link = [c \in Commands |-> NoLink]
    /\ input = FALSE /\ dns = TRUE /\ crashes = 0

(***************************************************************************)
(* The maps and the file.                                                  *)
(***************************************************************************)
\* A bug: pushes are left out of the file, as pulls without the flag are.
Persisted_PullsOnly(s) == s \cap KeepAlive \cap Serialized

\* SerializePullPushConfig
Persisted(s) == s \cap KeepAlive \cap (Serialized \cup Pushes)

Configure(s) == configs' = s /\ file' = Persisted(s)

\* A bug: what is in the timer is carried out whether it still exists or not.
IsActive_Always(s) == s

\* IsActive: those of s that are still configured.
IsActive(s) == s \cap configs

(***************************************************************************)
(* PullExternalStream and PushLocalStream for all of s: a configuration    *)
(* whose host name does not resolve is left where it is, and a push first  *)
(* waits for its stream.                                                   *)
(***************************************************************************)
Started(s) == {c \in s : dns /\ (c \in Pushes => input)}

\* What a push leaves in the set-up (RemoveFromPushSetup keeps keepAlive).
Entry(c) == IF c \in Started({c}) \ KeepAlive THEN NULL ELSE c

Requested(s) ==
    /\ link' = [c \in Commands |-> IF c \in Started(s)
                                   THEN [link[c] EXCEPT !["connecting"] = @ + 1]
                                   ELSE link[c]]
    /\ \E last \in [Targets -> Pushes \cup {NULL}] : \* in the order of the ids
         /\ \A t \in Targets :
              LET mine == {c \in s \cap Pushes : Target[c] = t}
              IN  IF mine = {} THEN last[t] = NULL ELSE last[t] \in mine
         /\ pushSetup' = [t \in Targets |->
                IF last[t] = NULL THEN pushSetup[t] ELSE Entry(last[t])]

\* The process serves commands, streams and sockets once it has started.
Serving == boot = {}

\* ProcessMessagePullStream, ProcessMessagePushStream
Ask(c) ==
    /\ Serving /\ c \notin asked /\ dns /\ Cardinality(asked) < MaxAsked
    /\ asked' = asked \cup {c}
    /\ Configure(configs \cup {c})
    /\ Requested({c})
    /\ UNCHANGED <<removed, boot, pending, input, dns, crashes>>

\* A bug: the requests are not cleared before they are carried out.
Cleared_Kept(s) == s
\* what the maps of the timer hold after DoRequests has copied s
Cleared(s) == {}

\* A bug: the pulls are left for a tick that has no push to carry out.
DoRequests_PushesFirst ==
    LET due == IF pending \cap Pushes = {} THEN pending ELSE pending \cap Pushes
    IN  /\ Serving /\ pending # {}
        /\ pending' = pending \ due
        /\ Requested(IsActive(due))
        /\ UNCHANGED <<asked, removed, configs, file, boot, input, dns, crashes>>

\* JobsTimerProtocol::DoRequests
DoRequests ==
    /\ Serving /\ pending # {}
    /\ pending' = Cleared(pending)
    /\ Requested(IsActive(pending))
    /\ UNCHANGED <<asked, removed, configs, file, boot, input, dns, crashes>>

(***************************************************************************)
(* The end of a connection.                                                *)
(***************************************************************************)
Enqueued(s) == pending \cup (s \cap configs)

\* UnRegisterProtocol, for a connection that still has its parameters
UnRegistered(c) ==
    IF c \in KeepAlive
    THEN pending' = Enqueued({c}) /\ UNCHANGED <<configs, file>>
    ELSE Configure(configs \ {c}) /\ UNCHANGED pending

\* OutboundConnectionFailed
Failed(c) ==
    IF c \in KeepAlive
    THEN pending' = Enqueued({c}) /\ UNCHANGED <<configs, file>>
    ELSE /\ IF c \in Pulls THEN Configure(configs \ {c}) ELSE UNCHANGED <<configs, file>>
         /\ UNCHANGED pending

Less(c, p)    == [link EXCEPT ![c][p] = @ - 1]
Moved(c, p, q) == [link EXCEPT ![c][p] = @ - 1, ![c][q] = @ + 1]

Connected(c) ==
    /\ Serving /\ link[c]["connecting"] > 0
    /\ link' = Moved(c, "connecting", "up")
    /\ UNCHANGED <<asked, removed, configs, file, boot, pending, pushSetup, input, dns, crashes>>

\* The connection is there but SignalProtocolCreated fails: the protocol is
\* deleted without the application's knowing, and its connector reports the
\* failure when the loop sweeps it.
Rejected(c) ==
    /\ Serving /\ link[c]["connecting"] > 0
    /\ link' = Moved(c, "connecting", "dying")
    /\ UNCHANGED <<asked, removed, configs, file, boot, pending, pushSetup, input, dns, crashes>>

ConnectionFails(c, p) ==
    /\ Serving /\ link[c][p] > 0
    /\ link' = Less(c, p)
    /\ Failed(c)
    /\ UNCHANGED <<asked, removed, boot, pushSetup, input, dns, crashes>>

LinkEnds(c, p) ==
    /\ Serving /\ link[c][p] > 0
    /\ link' = Less(c, p)
    /\ UnRegistered(c)
    /\ UNCHANGED <<asked, removed, boot, pushSetup, input, dns, crashes>>

(***************************************************************************)
(* Commands that end a connection or a configuration.                      *)
(***************************************************************************)
\* RemoveConfig, of a configuration that is in the maps or in the parameters of
\* a connection: it deletes the set-up of the target, whoever wrote it.
RemovedConfig(c) ==
    /\ Configure(configs \ {c})
    /\ pushSetup' = IF c \in Pushes /\ (c \in configs \/ link[c]["up"] > 0)
                    THEN [pushSetup EXCEPT ![Target[c]] = NULL]
                    ELSE pushSetup
    /\ removed' = removed \cup {c}

\* ProcessMessageRemoveConfig, ProcessMessageShutdownStream permanently:
\* one connection loses its parameters and is deleted without a retry.
RemoveConfig(c) ==
    /\ Serving /\ c \in asked
    /\ link' = IF link[c]["up"] > 0 THEN Less(c, "up") ELSE link
    /\ RemovedConfig(c)
    /\ UNCHANGED <<asked, boot, pending, input, dns, crashes>>

\* ProcessMessageShutdownStream, not permanently
ShutdownStream(c) ==
    /\ Serving /\ link[c]["up"] > 0
    /\ link' = Moved(c, "up", "ending")
    /\ UNCHANGED <<asked, removed, configs, file, boot, pending, pushSetup, input, dns, crashes>>

(***************************************************************************)
(* The in stream that is pushed, names, and crashes.                       *)
(***************************************************************************)
\* SignalStreamRegistered
SignalStreamRegistered ==
    LET waiting == {pushSetup[t] : t \in Targets} \ {NULL}
    IN  /\ Serving /\ ~input
        /\ \A c \in waiting : Owners(c) < MaxLinks
        /\ input' = TRUE
        /\ pending' = Enqueued(waiting)
        /\ UNCHANGED <<asked, removed, configs, file, boot, pushSetup, link, dns, crashes>>

\* SignalUnLinkingStreams, for each push that is fed by the in stream
InputLost ==
    LET fed == {c \in Pushes : link[c]["up"] > 0}
    IN  /\ Serving /\ input
        /\ input' = FALSE
        /\ link' = [c \in Commands |-> IF c \notin fed THEN link[c]
                       ELSE [link[c] EXCEPT !["up"] = 0, !["ending"] = @ + link[c]["up"]]]
        /\ Configure(configs \ (fed \ KeepAlive))
        /\ UNCHANGED <<asked, removed, boot, pending, pushSetup, dns, crashes>>

NamesChange ==
    /\ dns' = ~dns
    /\ UNCHANGED <<asked, removed, configs, file, boot, pending, pushSetup, link, input, crashes>>

Crash ==
    /\ crashes < MaxCrashes /\ crashes' = crashes + 1
    /\ configs' = {} /\ boot' = file /\ pending' = {}
    /\ pushSetup' = [t \in Targets |-> NULL]
    /\ link' = [c \in Commands |-> NoLink]
    /\ input' = FALSE
    /\ UNCHANGED <<asked, removed, file, dns>>

\* ProcessPushPullList: the pulls, then the pushes; each one is saved again.
Load(c) ==
    /\ c \in boot /\ (c \in Pulls \/ boot \cap Pulls = {})
    /\ boot' = boot \ {c}
    /\ Configure(configs \cup {c})
    /\ Requested({c})
    /\ UNCHANGED <<asked, removed, pending, input, dns, crashes>>

Next ==
    \/ \E c \in Commands :
         \/ Ask(c) \/ Connected(c) \/ Rejected(c)
         \/ \E p \in {"connecting", "dying"} : ConnectionFails(c, p)
         \/ \E p \in {"up", "ending"} : LinkEnds(c, p)
         \/ RemoveConfig(c) \/ ShutdownStream(c) \/ Load(c)
    \/ DoRequests \/ SignalStreamRegistered \/ InputLost \/ NamesChange \/ Crash

Spec == Init /\ [][Next]_vars

\* The timer fires every second, what is in a dead list is deleted when the
\* loop sweeps, and the start of the process goes on.  Nothing is promised
\* of the network, of names, of users or of streams.
Fairness ==
    /\ WF_vars(DoRequests)
    /\ \A c \in Commands : /\ WF_vars(LinkEnds(c, "ending"))
                           /\ WF_vars(ConnectionFails(c, "dying"))
    /\ WF_vars(\E c \in Commands : Load(c))

FairSpec == Spec /\ Fairness

(***************************************************************************)
(* Properties.                                                             *)
(***************************************************************************)
\* A pull is in one place only: in the timer, connecting, connected or
\* being deleted.  Two would publish one stream name twice.
PullNeverTwice == TypeOK /\ \A c \in Pulls : Owners(c) <= 1

\* What the user removed is not connected, saved or loaded again, although
\* copies of it are in the timer, in connections and in the set-up.
RemovedStaysRemoved ==
    [][\A c \in removed : /\ link'[c]["connecting"] <= link[c]["connecting"]
                          /\ c \notin configs' \cup file' \cup boot']_vars

\* Something will bring c back: the loader, the timer, a connection, or the
\* registration of the stream it waits for.
Cared(c) ==
    \/ c \in boot
    \/ /\ c \in configs
       /\ \/ Owners(c) > 0
          \/ c \in Pushes /\ ~input /\ pushSetup[Target[c]] = c

SharesTarget(c) == c \in Pushes /\ \E d \in (Pushes \cap asked) \ {c} : Target[d] = Target[c]

\* A persistent configuration is not forgotten, across crashes too, unless
\* it is removed, its host name does not resolve when it is retried, another
\* push has its target, or a crash comes while the file is being reloaded
\* (each configuration loaded rewrites it, without those not loaded yet).
NeverForgotten ==
    [][\A c \in KeepAlive \cap (Serialized \cup Pushes) : Cared(c) =>
          \/ Cared(c)' \/ c \in removed' \/ ~dns
          \/ SharesTarget(c)' /\ pushSetup'[Target[c]] # c
          \/ boot # {} /\ crashes' # crashes]_vars

\* While names resolve, a pull with keepAlive is always connected or
\* connecting again, whatever the network, the users and crashes do.
KeepAliveRetried ==
    []dns => \A c \in Pulls \cap KeepAlive :
                []<>(c \in configs => link[c]["connecting"] + link[c]["up"] > 0)
=============================================================================
