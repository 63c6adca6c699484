# A TLA+ development of the RDK-C media server

This directory holds a formal model of the media server in `src/sources`
(`rdkcmediaserver` over `thelib` and `common`), the TLC configurations that
check it on small instances and the proofs, checked by TLAPS, of what holds for
every instance. The code was read with its build files and tests; each
definition that stands for code names the lines it models in `PROJECT.json`
(`map`), and each property has there a mutant of the code it catches.

1. [The system](#1-the-system)
2. [What is modelled](#2-what-is-modelled)
3. [Runs, bounds and fairness](#3-runs-bounds-and-fairness)
4. [Proofs](#4-proofs)
5. [Disagreements found](#5-disagreements-found)
6. [Not modelled](#6-not-modelled)
7. [Plan](#7-plan)

## 1. The system

The server is one process whose main thread runs one loop
(`rdkcmediaserver.cpp:555-602`):

    while (IOHandlerManager::Pulse()) {
        IOHandlerManager::DeleteDeadHandlers();
        ProtocolManager::CleanupDeadProtocols();
    }
    -- then Cleanup(): ProtocolManager::Shutdown, CleanupDeadProtocols,
       ShutdownIOHandlers, DeleteDeadHandlers, Shutdown

Everything else is called back from it. Bytes travel
kernel - I/O handler - far protocol - ... - near protocol - in stream - out
streams - protocols - kernel, by plain calls. Almost nothing is deleted where
its end is decided: it is put on a dead list, and the code relies on nothing
that is still needed going away before the list is emptied. A build with
`HAS_THREAD` adds threads for long tasks.

The modelled build is Linux with `NET_EPOLL` and `HAS_EPOLL_TIMERS`, which every
build script of the repository selects for a camera.

### Inventory

| Component (code) | State | Operations | Talks to | Hard | Correct when |
|---|---|---|---|---|---|
| Reactor, `netio/epoll/iohandlermanager.cpp` | active and dead lists, tokens and their two vectors, epoll set, the batch | register, unregister, enable/disable, EnqueueForDelete, Pulse, DeleteDeadHandlers, ShutdownIOHandlers | kernel; handlers (OnEvent); main loop | a callback deletes and creates handlers named later in the batch | an event reaches its handler or none; a handler is deleted once; shutdown is complete |
| Protocol chains, `protocols/protocolmanager.cpp`, `baseprotocol.cpp` | near/far links, active and dead maps, two delete flags, application | SetNear/FarProtocol, EnqueueForDelete, GracefullyEnqueueForDelete, ReadyForSend, CleanupDeadProtocols, Shutdown | handlers, applications, streams | mutual ownership with handlers, surgery while input is handled, two dead lists feeding each other | links mutual; nothing deleted twice; a carrier never without its chain; deletes happen |
| TCP carrier, `netio/epoll/tcpcarrier.cpp` | `_writeDataEnabled`, `_enableWriteDataCalled`, EPOLLOUT | SignalOutputData, OnEvent | reactor, chain | producers re-enter in the middle of giving EPOLLOUT up; partial writes | no lost wake-up, no spin, graceful delete after the last byte |
| Acceptor and connector, `tcpacceptor.cpp`, `tcpconnector.h` | listening or connecting descriptor | OnEvent, Accept, Connect | factories, applications | who closes the descriptor when a step fails | a descriptor is closed once |
| UDP, UDS and stdio carriers | descriptors | OnEvent | as above | as above | as above |
| Timers, `netio/epoll/iotimer.cpp`, `protocols/timer` | timerfd, its protocol | EnqueueForTimeEvent, TimePeriodElapsed | protocols | a timer outliving its purpose | ignored once its protocol is enqueued |
| `TimersManager`, `common/.../timersmanager.cpp` | buckets of periods | AddTimer, RemoveTimer, TimeElapsed | other reactors | removal while firing | each timer fires once per period |
| Task manager, `threading/pthread/threadmanager.cpp` | pending and running maps, reserved ids, status of a record | QueueAsyncTask, EvaluateTasks, launchTask | reactor (inside Pulse), worker threads | status written without a lock; address of a map value given to a thread | each task launched and completed once, its record outliving its thread |
| Camera protocol, `api3rdparty/apiprotocol.cpp` | `_feeding`, buffers | SignalInputData, FeedAsync, CompleteFeedAsyncTask | task manager, encoder SDK, streams | test-and-set split over two threads | feeds do not stop; feeds do not overlap |
| List with a cursor, `utils/misc/linkedlist.h` | nodes, head, tail, `_pCurrent`, `_denyNext`, `_denyPrev` | AddHead, AddTail, Remove, Clear, MoveHead, MoveTail, MoveNext, MovePrev | loops over out streams and what they call | the current node is removed by what the loop calls | a loop meets each node that stays once |
| Stream graph, `streaming/base*stream.cpp`, `streamsmanager.cpp` | in stream: list of out streams; out stream: its in stream; indexes by id, name, type, protocol | Link, UnLink, UnLinkAll, Play, Pause, Resume, Seek, Stop, capability changes, Register, UnRegister | protocols, applications | unlinking inside the loops, nested loops over one cursor, destructors unlinking each other | links mutual; each out stream signalled; no deleted stream visited; a pull ends with its last consumer |
| RTMP playlists, `protocols/rtmp/streaming/rtmpplaylist*.cpp` | items, current index, state, time line; the out stream and the item it points to | Play, Switch, Pause, Resume, Seek, Stop, InsertItem, item completion | RTMP session, CLI, streams | requests delete the items a stream points to; recursive insertion | no stream without its item; what is in the playlist is played |
| Applications, `application/*.cpp` | handlers by protocol type, aliases | Register/UnRegisterProtocol, SignalStreamRegistered | protocols, streams | callbacks while protocols are dying | no dead protocol kept |
| Router, `applications/rdkcrouter` (origin and edge applications, `jobstimerprotocol.cpp`) | push, pull, record and process configurations, their file, the retry timer, the push set-up | push/pull/remove commands, keep-alive, auto-link, reload | protocols, streams | a retry racing a removal or a late connect; copies of a configuration in six places; a crash | a kept configuration has one protocol or one pending retry; what was removed stays removed |
| RTMP, `protocols/rtmp` (14.7 kloc) | handshake state, chunk channels, in-flight invocations, RTMPT sessions | SignalInputData, message handlers, session table | chains, streams | substitution of protocols in mid-read; sessions over several connections | states in order; a session bound to one connection at a time |
| RTP/RTSP, `protocols/rtp` (9.9 kloc) | request map, session, sequence numbers, reorder buffer | request/response, keep-alive, RTP input | carriers, streams | 16-bit sequence wrap, late answers | packets leave in order; answers match requests |
| WebRTC, `protocols/wrtc` (8.0 kloc) | ICE candidates and retries, DTLS, SCTP | signalling, STUN, selection | UDP/TCP carriers, streams, timers | retries racing answers, selection racing teardown | one candidate selected; the connection torn down once |
| HTTP, WebSocket, SSL | parser state, cipher state | SignalInputData, EnqueueForOutbound | chains | parsing | bytes conserved |
| CLI, variant, RPC, liveflv, TS, DRM, metadata, raw media, passthrough, external, device protocols | parser state | SignalInputData | router, streams | - | parsing |
| Segmented outputs, `streaming/hls,hds,mss,dash` | window of segments, playlist | open, close, roll a segment | file system | roll-over against the playlist | the playlist names existing segments |
| Recording, media readers and writers, metadata | files, caches | read, write | streams | - | parsing |
| Event logger, `eventlogger` | sinks | Log... | all | - | observes only |
| Configuration | parsed files | start-up | applications | - | read once |
| Common utilities: buffers, variants, lists, lua, crypto, logging, platform | data structures | - | all | IOBuffer indices | bytes conserved |
| Other applications and tools: app selector, licence interface, web server, test and dump tools | small | - | - | - | - |

### How the parts interact, and what makes it hard

* *One batch, many deaths.* `epoll_wait` returns a batch; a callback for one
  event deletes, creates and rearms handlers that occur later in it. The batch
  holds addresses of tokens, read before those callbacks ran.
* *Mutual ownership.* The far endpoint of a chain deletes its handler and the
  handler enqueues its protocol. Both have a dead list. The order of the loop,
  handlers before protocols, is what keeps the second list from deleting what
  the first one still names.
* *Surgery under way.* While input climbs a chain, a protocol of it may replace
  itself (HTTP or SSL detection), insert another one (RTMPE), hang a session
  below itself (RTMP over HTTP) or cut one off.
* *Things that must still happen.* A graceful delete is only a flag and a hope:
  it depends on a later EPOLLOUT, and this on the flag of the carrier that says
  whether EPOLLOUT is armed.
* *Loops that are changed while they run.* Feeding an out stream can unlink it, its
  neighbour or everything; the list has one cursor for the loop and for the loops inside it.
* *Copies.* A pull is in a map, in a file, in a timer and in the parameters of a
  connection; each failure hands it on, and a removal must reach all of them.
* *Threads.* A worker and the loop share a status word, and the camera's
  protocol tests a flag another thread sets.

`PROJECT.json` (`hazards`) lists each such place with its line, and the
properties aimed at it.

## 2. What is modelled

    EventDispatch  <== refines ==  IOHandlerManager       the reactor
                                         | events reach live handlers only
                                   ProtocolManager        chains + handlers + main loop
                                         | one chain, its carrier in detail
                                   TCPCarrier             the output side of OnEvent

    ListTraversal  <== refines ==  LinkedList             the list of out streams
         ^ its promise is the loop of
    StreamGraph    (in and out streams, origin and edge)  links, feeding, deletes
    RTMPPlaylist   (one player, its items and streams)    what is played
    PushPull       (origin, timer, file, connections)     keep-alive and crashes

    TaskQueue      <== refines ==  ThreadManager          asynchronous tasks
                                         ^ EXTENDS
                                   ApiFeed                the camera's feeds and sends

    RTMPHandshake  (client and server, bytes on TCP)      handshake and RTMPE

`MC...` modules give a module its small instance, `...Proofs` modules hold theorems
(`ReactorProofs`: of `IOHandlerManager` and `TCPCarrier`, `ApiFeedProofs`: of `ThreadManager` and `ApiFeed`).

### IOHandlerManager

One reactor with `Handlers`, `Tokens` and a batch of at most `QuerySize`
events. `active`, `dead` are the two maps, `token` is `IOHandler::_pToken`,
`payload` and `valid` are the fields of a token, `vector` and `avail` are the
two token vectors and the pointer that says which is available, `interest` is
what the kernel remembers, `query` is the rest of the batch, `pc` follows the
main loop. Each entry of `query` carries a ghost `target`, the handler armed
when `epoll_wait` returned. The code does not have it: the properties compare
with it.

The operations of the manager (`RegisterIOHandler`, `Destroy`, `Enable`,
`Disable`, `EnqueueForDelete`, `ShutdownIOHandlers`) and the turns of `Pulse`
(`EpollWait`, `EpollInterrupted`, `EpollFails`, `DropEvent`, `CondemnOnError`,
`DispatchEvent`, `CallbackSucceeds`, `CallbackFails`, `PulseEnds`) are actions.
What the code above does in a callback is left open: any sequence of the
operations in `Caller`. Two clauses there are a contract and not code, and are
written so: a caller does not delete the handler whose `OnEvent` is running,
nor one that is in the dead list. `ProtocolManager` shows that the callers keep
the second one (`NoDoubleFree`); the first holds because the destructors of
protocols run in `CleanupDeadProtocols` and at the two `delete` statements of
`TCPConnector` and `CreateProtocolChain`, which delete fresh objects.

`EventDispatch` is the promise without tokens: an event is delivered to the
handler it was reported for, or dropped when that is gone.

### ProtocolManager

Protocols and handlers with the ids the generators give them, in order. `near`
and `far` are the links, `activeP`, `deadP`, `enqueued`, `graceful` the lists and
flags of protocols, `handlerOf` and `protocolOf` the mutual pointers, `deadH` the
dead list of the reactor, `registered` what the application was told,
`output` the protocols whose own buffer holds something, `keepsNear` the
InboundHTTP4RTMP ones, which do not take their near protocol along and answer
`GetOutputBuffer` for themselves. `Along`, `Inward`, `GetFarEndpoint` and
`GetNearEndpoint` are the recursions over the links as least sets.

Creation of a chain by an acceptor or a connector, the failure of each, timers,
the surgeries (`Substitute`, `Insert`, `BindSession`, `CloseSession`), both kinds
of delete, `Writable` (EPOLLOUT and `ReadyForSend`), the two sweeps and the
shutdown are actions. A destructor runs in one step with all it calls
(`DeleteProtocol`, `DeleteHandler`): nothing interleaves in a single thread,
and what an application does when told is the separate `Business` action,
which may come before or after.

### TCPCarrier

One carrier in detail: the output left, the two flags of the macros
`ENABLE_WRITE_DATA` and `DISABLE_WRITE_DATA`, what the kernel watches for, and the
place inside `OnEvent`. Producers act between events, while input is handled and
inside `ReadyForSend`. `DISABLE_WRITE_DATA` has two steps with `ReadyForSend`
between them, as in the macro. `fate` says whether the delete of the chain was
decided, and first by whom.

### ThreadManager and ApiFeed

`threads`, `pending` and `running` are the maps of the manager, `status` the
field the worker writes, `worker` the thread, `main` the place of the loop's
thread inside `EvaluateTasks`: each read of the status in a visit is a step of
its own (`CompletionBegins` or `NotShutdownYet` after `LaunchTask`), so a worker
may report between any two. The ids come from `rand()`, so a pass visits in any
order. `TaskQueue` is the promise: a task is queued, launched, returns, is
completed on the loop's thread if it has a completion, and only then frees its
id.

`ApiFeed` composes the manager with the camera's `_feeding` flag: the loop tests
it and queues (`SignalInputData`), the worker sets it (`DoFeedAsyncTask`), the
completion clears it (`CompleteFeedAsyncTask`). Feeds share the manager with the
sends of the HTTP event sink (`SendAsync`, `SendTask`, `SendCompletionTask`), which any
callback and any completion may queue; `feeds` tells which ids are feeds, and every
action of `ThreadManager` is an action of the composition. The two build systems differ here: `HAS_THREAD` is defined
by `builders/cmake/CMakeLists.txt:136` and `HAS_PROTOCOL_API` by the files under
`builders/make2` (it is commented out at line 150 of the former). No build
script of the repository sets both; the code of ApiFeed is compiled only where
both are set.

### RTMPHandshake

An `OutboundRTMPProtocol` and an `InboundRTMPProtocol` connected by TCP, at the
level of bytes. `party[s]` is one side: `out` and `state` are `_outputBuffer` and
`_rtmpState`, `tcpIn` the buffer of its `TCPProtocol`, `rtmpe`, `skip`, `eIn`, `eOut` the
`RTMPEProtocol` once it is in the chain, `keyIn` and `keyOut` the cursors of the two
RC4 keys, `midChunk` whether a basic header was taken off the buffer. A handler of
the code is an operator from a side to a side and they are composed as the
calls are: `Read` is `RTMPEProtocol::SignalInputData`, `BaseRTMPProtocol::SignalInputData`,
`PerformHandshake`, the recursion and the first message, in one step.

A byte knows which part it is of and which keystream positions are xored into it
(`mask`); RC4 toggles positions, so decrypting with the wrong cursor, twice or not at
all leaves a mask. What a digest proves is reduced to whether it is there. The
offsets of the key and of the digest within a part are translated as they are.
`residue` is a history variable: decrypted bytes stayed in the buffer of the TCP
protocol. Left out: reports of received bytes, HTTP and SSL below RTMP.

### LinkedList and ListTraversal

`LinkedList` is the template as it is: nodes by key, the pointers of each, both
ends, the cursor and its two "deny" flags, every operation in any order. `rank` is a
ghost order to compare "next" with; `unmet`, `met` and `owed` record what a loop
(`MoveHead`, then `MoveNext` until NULL) has met and still owes. `Disturbs` names the one
thing the code does not promise: the current head is removed, and then another node,
before the loop moves on; `Remove` clears `_denyNext` then and `MoveNext` steps over a node.

`ListTraversal` is the promise without pointers: of the elements that were there when
the loop began none that stays is missed, and none is met twice.

### StreamGraph

`outs` and `inOf` are the two sides of a link, `told` whether an out stream was last
told attached or detached, `doomed` the protocols enqueued for delete, `watched`
the VOD subscriptions. A link ends in four ways (`UnLink` by the out stream, `UnLinkAll`
and the destructor of the in stream, a take-over of its name) and each calls the
origin and the edge application while the links are still there: `Lost`, `Crushed`,
`UnlinkedVod`. The feeding loop (`FeedBegins`, `FeedSucceeds`, `FeedFails`,
`PlaylistAdvances`) uses what `ListTraversal` promises: any out stream not fed yet is next,
one that leaves is not fed, one that joins is. `met` (ghost) are those that had their turn in it;
`over` says that the edge's count of the consumers, which walks the same list with the same cursor,
has taken it to the end. Inside it out streams fail, are deleted by a playlist, and moov writers hang
themselves on an in stream one way. Streams are deleted by the sweep or by `CloseStream`, on a
connection that goes on; the destructor of an in stream may have playlists delete theirs first. `Kept`
are the out streams of pushes, recordings and segments.

### RTMPPlaylist

One playlist of one RTMP stream: `items` with their durations, `cur`, `state` and `head` as in
the class, `out` the out stream with the item it points to, its place, its end, and the
two modes of a file (paused, a single GOP). Each request is one action with all it calls, the
failures of `Play` and of the messages (`SendFails`) among them; a `Play` that fails leaves no out
stream, or one that is fed nothing, and costs the client its connection, except in an insertion, whose
result the CLI does not look at. An item is a file or a live stream; a live stream with a length is
ended by a timer. `InsertItem` calls itself: `inserting` holds the point and how many items this
request has inserted so far. `Split` gives the two parts of an item the lengths the code computes, also
when the part played comes out negative. Time is in units of one frame.

### PushPull

The copies of a configuration in `OriginApplication` and `JobsTimerProtocol`: `configs`, the
`file`, the timer's `pending` requests, `pushSetup` and the connections by phase: `connecting`
(a `TCPConnector`), `up` (a registered protocol), `ending` (enqueued for delete with its
parameters), `dying` (deleted by the connector after a failed `SignalProtocolCreated`, without the
application's knowing). A connection that fails synchronously is one that is connecting and
fails at once. `dns` is what `gethostbyname` answers at the time, `input` whether the stream to push
is there. `Crash` loses all but the file; `Load` is a turn of `ProcessPushPullList`, which adds a
configuration and rewrites the file. `Serving` says that nothing else happens during the
load, which runs before the loop.

## 3. Runs, bounds and fairness

| Run | Instance | Distinct states | Question |
|---|---|---|---|
| `reactor` | 3 handlers (1 timer), 3 tokens, batches of 2 | 209 674 | can a token, a dead list or the epoll set go stale; are the dead deleted; does it implement `EventDispatch`? |
| `protocols` | 4 protocols, 2 handlers, chains of 2, 1 output, batches of 2 | 819 083 | can links, mutual pointers, dead lists or graceful deletes go stale? |
| `carrier` | 3 units of output | 183 | wake-ups, flush, idling |
| `feeds` | 3 ids | 86 160 | records and ids; refinement of `TaskQueue`; is the camera ever starved? |
| `feeds_overlap` | 2 ids | stops | do feeds overlap? (yes) |
| `handshake` | parts of 3 bytes, chunks of 3, 2 chunks each way | 8 302 | is the handshake safe and live wherever the bytes are cut? |
| `handshake_leftovers` | as `handshake`, parts of 2 | stops | is everything decrypted once? (no) |
| `linked_list` | 4 keys, ranks -3..3 | 231 066 | does a loop meet each node once whatever happens under it; does it implement `ListTraversal`? |
| `stream_graph` | 2 in streams, 4 out streams, 5 connections | 479 900 | can a link be one-sided or dangle; does what is unused end, and only that; is any consumer passed over? |
| `playlist` | a live stream; a file of 1 followed by a timed live stream of 2; 5 items, 5 ids, a time line of 2 | 557 095 | does a stream outlive its item; do index and stream agree; is what is in the playlist played? |
| `playlist_insert` | the same | stops | does an insertion insert once? (no) |
| `pushpull` | 2 pulls, 2 pushes to one target, 3 commands, 1 crash | 225 426 | is anything kept forgotten, or anything removed brought back? |

Why the bounds are enough to be interesting:

* Reactor: to misdeliver, an event needs a handler deleted earlier in its batch
  (2 events) and another one created that takes its token, while a third keeps the
  loop awake. An id is used once; tokens are reused, which is the point.
* Protocols: 4 protocols on 2 handlers give two connections of the shortest
  chains, or one that is rewired twice, or a rejected one next to a live one. `MaxOutput` is the
  most protocols with something to send at a time: one that waits for a graceful delete and its
  neighbours that do not. `Spared` (the id 5 that `ProtocolManager::Shutdown` leaves alone) is 1 so
  that it exists.
* Carrier: 3 units distinguish no, part and all of the output sent, with some
  appended meanwhile.
* Tasks: one task in the pass, one being queued by its completion, one more
  whose thread reports at the same time.
* Handshake: every cut of a part and of a chunk occurs (basic header alone, a
  chunk and a part of the next), before and after each threshold; the sizes of
  the code only make the parts longer. All combinations of encryption and
  validation are initial states.
* List: the cursor, a neighbour on each side and one more; nodes come back after
  they were removed, before and after the others.
* Stream graph: one connection publishes and plays (an out stream that fails takes its in
  stream along), one is a player, one a push, one a moov writer on its own protocol. One in
  stream is VOD and the other an edge's pull.
* Playlist: an insertion before, in and after the current item, at unknown durations too; the
  combinations of pause, seek in pause and resume. Five items are what it takes to split an item that is
  not the current one, with a negative part played, have the insertion call itself and end at the item
  it plays; seeks beyond the end occur.
* Push and pull: p1 is kept and saved, p2 neither; q1 is kept, q2 not, and both have one target.
  A configuration has up to 2 connections (`MaxLinks`), which pushes reach and pulls, by
  `PullNeverTwice`, do not. The one crash comes at every moment.

No run uses symmetry. `CHECK_DEADLOCK FALSE` stands in the cfg files of `TCPCarrier` (a deleted carrier
does nothing more), `RTMPHandshake` (all has been said, or the connection is gone), `StreamGraph`
and `RTMPPlaylist` (all streams, or the protocol, are deleted and ids are used once) and `PushPull`
(all was asked and removed).

Fairness, and what in the code gives it:

* The loop's thread runs when it is not blocked: weak fairness on each turn of
  `Pulse`, of the sweeps and of shutdown. Callbacks return (they are not allowed to
  block in this design). New connections, input and user actions have no
  fairness.
* `TimerFires` (reactor): a periodic timerfd that is armed gets ready again. The
  code gives `epoll_wait` no timeout (`iohandlermanager.cpp:401`), so this is the only
  wake-up it can count on, and `DeadAreDeleted` exempts a loop that sleeps with no
  timer armed.
* Carrier: EPOLLOUT is level triggered, so strong fairness on the event that
  reports it, and on a write that takes something: the socket of a live peer
  drains in the end. `GracefulEnds` and `IdleIsQuiet` suppose that producers stop.
* Tasks: threads are scheduled and return; `LaunchTask` has strong fairness, that
  is, `pthread_create` does not fail for ever; `EvaluateTasks` is called again and
  again, which needs a timer as above. The camera's descriptor is level triggered and is
  signalled again and again while it is on (strong fairness on `SignalInputData`).
* Handshake: descriptors are level triggered and the peer reads, so weak fairness
  on reading and writing. Sending a message has none: only the one the client
  sends when it is established is sure to come.
* Playlist: the loop feeds files (`Frame`) and fires timers (`EndOfItem`). Live streams promise
  nothing. `LeftAloneGoesOn` supposes that requests stop and, by the weak fairness of `Frame`, that the
  client reads what it is sent.
* Push and pull: the timer fires every second (`DoRequests`), the sweep deletes what was enqueued
  (`LinkEnds` of ending, `ConnectionFails` of dying), and the load goes on (`Load`). A `connecting` one
  has no fairness, and `KeepAliveRetried` asks for none: connecting is trying.
* `ProtocolManager`, `LinkedList` and `StreamGraph` state safety and have none.

The properties, by hazard:

* `TokensAreWeakPointers`, `PointersValid`: the batch of stale addresses; tokens, dead lists and
  the kernel name live handlers only and no token is in two places. `CompleteShutdown`: "Incomplete
  shutdown!" is never logged. `DeadAreDeleted`: see above.
* `PointersMutual`, `NoDoubleFree`, `CarrierHasChain`, `NothingLeftBehind`: no dangling
  pointer of five kinds after any mix of surgery, failure and delete, and nothing undeleted after a sweep
  or shutdown. One exception is written into `RegisteredAreActive`, a part of the first: a protocol that
  `TCPConnector` deletes itself after its application refused it (`tcpconnector.h:116`) may still be
  known to that application. `GracefulIsRemembered`: deletes come.
* `NoLostWakeup`, `FlushedFirst`, `GracefulEnds`, `IdleIsQuiet`: the carrier.
* `TaskRecords` (threads have records, ids are unique), `Implements`, `QueuedAreCompleted`: tasks.
  `FeedingHasCause`, `FramesKeepFlowing`: although feeds may overlap, the flag
  never stays set without a feed that will clear it.
* `DecodedInOrder`, `KeystreamsAligned`: RTMPE starts in the middle of a stream whose
  bytes are partly in three buffers; nothing is thrown away by `IgnoreAll`. `Converses`: thresholds, and C2
  that waits below RTMPE for a message. `OffsetsApart`: boundaries.
* `WellFormed`, `AheadOfCursor`, `BehindCursor`: nodes removed and added under a loop.
* `LinksMutual`, `NoDanglingLink`: whoever unlinks, takes over or dies first. `UnusedEnd`,
  `ConsumersKeepPull`: the count of the edge is taken while the leaving consumer is still linked, and
  must neither keep a pull nor take it from the others. `EveryConsumerMet`: when a feeding loop ends,
  every out stream the in stream then has had its turn in it, whoever failed, left or joined meanwhile. It
  excepts an in stream that is enqueued, and by name an edge's pull that lost a consumer in the loop (section 5).
* `StreamOfItem`: every request deletes or moves items a stream and its timers point to.
  `PlayingFileRuns`, `LeftAloneGoesOn`: pause, seek in pause and resume in any order.
  `PlayedIsCurrent`: the item of the out stream is the one at the index, which item completion, pause
  and insertion take for granted, after insertions that took the index back, too.
* `PullNeverTwice`: timer, connector and connection hand a pull on and never both have it.
  `RemovedStaysRemoved`: no copy brings a removed configuration back. `NeverForgotten` names every
  cause for which a persistent configuration is forgotten, across a crash. `KeepAliveRetried`: liveness
  of the pulls while names resolve.

## 4. Proofs

All for every value of the constants; the only assumptions are those named in the
modules (the null values are not among the real ones, `Timers` are handlers, the out streams of
`StreamGraph` are finitely many, bounds are naturals, the lists a playlist is asked to play are not empty
and their durations are integers).

| Module | Theorems |
|---|---|
| `ReactorProofs` | of `IOHandlerManager`: `TypeCorrect`, `EventsNeverMisdelivered`, `PointersStayValid`, `NoDanglingHandler`, `TokensConserved`, `ShutdownIsComplete`, `Refinement`; of `TCPCarrier`: `CarrierTypes`, `WakeupsAreKept`, `GracefulFlushes` |
| `ProtocolManagerProofs` | `PointersStayMutual`, `NothingIsFreedTwice`, `CarriersHaveChains`, `NothingIsLeftBehind`, `GracefulStaysRemembered` |
| `ApiFeedProofs` | of `ThreadManager`: `TypeCorrect`, `RecordsStayGood`, `RecordsOutliveWorkers`, `IdsNeverShared`, `Refinement`; of `ApiFeed`: `FeedingIsCleared` |
| `RTMPHandshakeProofs` | `PlacesApart`, `BytesDecodedInOrder`, `KeystreamsStayAligned` |
| `LinkedListProofs` | `TypeCorrect`, `PointersChain`, `StaysWellFormed`, `NothingSkipped`, `NothingRepeated`, `Refinement` |
| `StreamGraphProofs` | `LinksStayMutual`, `NothingDangles`, `NothingUnused`, `OthersKeepPull`, `ConsumersHaveTurns` |
| `RTMPPlaylistProofs` | `NoDanglingItem`, `FilePlays`, `IndexFollows` |
| `PushPullProofs` | `OnePlace`, `NothingComesBack`, `NothingForgotten` |

*Reactor.* `TokensAreWeakPointers` is not inductive: one must know where the token
of a lost event is. `BatchInv` says it: the token of an event stands for its
target, or is invalid, lies in the *recycled* vector, and the target is freed.
`SetupToken` takes from the available vector or allocates, so it cannot reach it,
and the vectors are swapped only when the batch is empty. The rest of `IInv` is
what makes each step of that argument go through: the active list is the live
objects, tokens at rest are invalid and in one vector, the dead list is part of
the active one, `epoll_wait` reports a handler once, and each phase of the loop
has its shape. The three operations that move tokens are lemmas; each action
then has one step. `Refinement` maps every action to an action of
`EventDispatch` or to a stutter.

*Protocols.* Deletion, delivery of events and output walk along the near and far pointers. In the model
a walk is the least set closed under a pointer, and four lemmas (`Steps`, `Walks`, `WalkClosed`, `WalkEnd`)
say what is proved of one without induction: it contains what each of its members points to, and any closed set
that has its start contains it. The invariant then speaks of pointers only: they are mutual
(`Chains`), ids are given in order and an id that was not given is of no object (`Numbered`), a handler and the
far end of its chain point to each other (`Carried`), a protocol is in the active or in the dead map, never in
both, and only while it is live, and whatever was enqueued for delete waits in the dead map (`Lists`), and each
phase of a cascade knows which protocols it has freed and unlinked (`Phases`). `NoDoubleFree` is part of it:
whoever is freed leaves the map with it, and his neighbours' pointers to him are cut first, so no later step
reaches him. `Remembered`, an invariant of its own, gives `GracefulIsRemembered`. Chains have
any length: `MaxChain` only bounds what is set up.

*Carrier.* `NoLostWakeup` needs two facts: `_writeDataEnabled` agrees with what
the kernel watches for (`FlagAgrees`), and while `OnEvent` is between the two
halves of the macro it is set (`CarrierArmed`). The names of
`TCPCarrier` are a carrier's where `IOHandlerManager` has the plain ones, so that `ReactorProofs` extends both.

*Tasks.* A worker exists exactly for the LAUNCHED records in the map; the ids
the pass has completed have no worker and the pass visits only records in the
map. From these, the order of the two steps of a launch, and the fact that only
a returning worker overwrites LAUNCHED, both the invariants and the refinement of
`TaskQueue` follow.

*Feeds.* Every step of the composition is a step of `ThreadManager`, whose
invariants are used as they are; the added part says that while the flag is set,
some feed has started and not been completed.

*Handshake.* `PlacesApart` is arithmetic: the remainders bound the offsets, one
case for each scheme. For the other two, all that a side ever sends is one stream: `ByteAt` says which byte is at
place *m*, as it is meant and as it is written, `Run` that a sequence holds the bytes from a place on. `Flow` is
the heart of `IInv`: RTMPE's input, the transport's input, the network, RTMPE's output and the protocol's
output are consecutive runs from the place the receiver has come to (what it took for the handshake, and `got`)
to the place the sender has produced, and each cursor is `Half` and the bytes beyond the handshake up
to its place. RC4 turns a run as it is meant into one as it is written and back (`RC4Run`), which is where the bytes
C2 is allowed to skip must be exactly those before the end of the handshake. The order of the handshake needs no
further invariant: `Order` reads off the sums of lengths that the server is not done before the client, and that
a client whose server has not answered has sent its request only; so nothing is thrown away, and nobody refuses
once either is done. Once a decrypted byte has stayed in the transport's buffer (`residue`, the first of the
disagreements of section 5) the streams are garbled, and the invariant says only that both sides are done.
The sizes are any naturals, `Half` not 0 and a chunk at least 2 bytes; the cuts are any cuts.

*List.* That the pointers are one chain is inductive once it says "no node stands
between a node and its next", by rank. What a loop has not met is ahead of the cursor, or under it with
`_denyNext`; what it has met is behind. Removal then has one case for each place of the cursor and
each neighbour; `Refinement` follows since a node that is met was not met before.

*Stream graph.* `LinksMutual`, `NoDanglingLink` and `UnusedEnd` are inductive together with three
facts: a moov writer is never in a list (`WritersUnfed`), an out stream was told what
is true also while it dies (`ToldTruly`), and what was linked is used. `EveryConsumerMet` needs
`Turns`: while a loop runs, every out stream of its in stream has had its turn or still is to have it, unless a
count has ended the walk, and a count happens only at an edge's pull. `ConsumersKeepPull` is about steps
and follows from the invariant; the count of the edge is a fact about the cardinality of a set without one element.

*Playlist.* The time line is a recursive function of the items: `Starts` proves that it is defined
and by how much it grows at each item, `SameStart` that the start of an item depends only on the
items before it, both from the least counterexample (`LeastNatural`). In the invariant the out stream
plays an item of the list, as that item and the state have it (`Shown`); between two requests
the index is that of an item, the one that plays if one does, or just past the last one (`Indexed`). Within an insertion that has called itself
the index has been taken back, perhaps below the first item, and what holds is that the
point still lies in some item (`Landed`, from `PutHas`, `CutHas` and `StillThere`): only the first
call can find it beyond the end. `InsertPuts` and `ThreeCut` say where each item is after an insertion
or a split, for a played part of any sign, so that the index of the item to play is one of an item.

*Push and pull.* That a pull has at most one owner is a count: `Owners` is a sum over places, each
action moves one unit from one place to another or destroys it, and a crash destroys
all; the invariant adds that a pull that is yet to be loaded has no owner.
`RemovedStaysRemoved` needs that what was removed is in none of `configs`, `file` and `boot`.
`NeverForgotten` needs that the file is what the maps would save, except while they are being loaded from it
(`Saved`), and that what the user asked for is kept alive (`RequestedCares`); then each action either leaves
a pull its place, moves it to the next one, or is one of the windows the property excepts.

Only model-checked: the liveness properties (`DeadAreDeleted`, `GracefulEnds`, `IdleIsQuiet`,
`QueuedAreCompleted`, `FramesKeepFlowing`, `Converses`, `LeftAloneGoesOn`, `KeepAliveRetried`),
which need fairness and ENABLED and are out of TLAPS's reach, and the three disagreements of section 5,
which are counterexamples. Every other property of a run is stated by a theorem.

## 5. Disagreements found

* `feeds_overlap`. `apiprotocol.cpp:1116` says "return immediately if previous
  thread is not finished yet", but the flag it tests is set by the worker, not
  when the feed is queued: readable events in between queue more feeds, which
  then run side by side over one buffer. (The two build systems define one of the two
  macros each, see section 2.)
* `handshake_leftovers`. `inboundrtmpprotocol.cpp:110` says "decrypt the leftovers" and
  does so in place, in the buffer of the TCP protocol. If the leftovers end inside a
  chunk, `ProcessBytes` leaves its bytes there, and the next read passes the whole
  buffer through `RTMPEProtocol::SignalInputData` (`rtmpeprotocol.cpp:63`), which
  decrypts them again: they are garbled, and so is all that follows, since the
  server's cursor is ahead. `handshake` shows that this is the only way.
* `playlist_insert`. An insertion at an item that is not the current one inserts the item,
  takes the index back by one and calls itself with the same point (`rtmpplaylist.cpp:562`), and inserts
  again and again; the comments at lines 514 and 559 say that one item is inserted and all is done.

Properties exempt, by name, what the code does and no run reports:

* A kept pull whose host name does not resolve when it is retried is not tried again
  (`originapplication.cpp:560`, `jobstimerprotocol.cpp:119`), although the help of `pullStream`
  promises that the server will try to reconnect (`cliappprotocolhandler.cpp:1432`). `NeverForgotten` and
  `KeepAliveRetried` name the resolver; a synchronous failure of a later step of the pull does not lose it.
* The file is rewritten by each configuration that is reloaded: a crash then forgets the rest.
* A push that shares its target with another one is lost with the other one's set-up.
* A configuration removed while its connection is under way leaves that connection alone, once.
* A push that is not kept and never connects stays among the configurations.
* A consumer that leaves the pull of an edge from inside its feeding loop has the consumers counted
  (`edgeapplication.cpp:363`) by `GetOutStreams`, which moves the cursor of the list that is being walked to its
  end (`baseinstream.cpp:94`): the consumers behind it miss that packet. `EveryConsumerMet` names the case.
* An item is split at `timeHead - _playlistStart` (`rtmpplaylist.cpp:522`). It is negative when the item
  before ended early, or when the item is not the one that plays, and one too much when the start is unknown (-1):
  the item then gets a negative, that is an unknown, duration and what is left of it is too long. The comments
  of steps 11 and 14 speak of what was played from an item with a known duration. `Split` does the same;
  no property is about the lengths.
* A loop over a list whose head was removed under it, and then another node, skips one (`Disturbs`).
* `CreateMoovHeader` leaves a writer linked one way when it fails (`mssfragment.cpp:197`).
* `tcpconnector.h:116`: see `RegisteredAreActive` in section 3.
* `baseprotocol.h:202` promises that transport routines are ignored after `EnqueueForDelete`; only
  `IOTimer::OnEvent` asks (`iotimer.cpp:67`). `protocols` has the late event and shows it harmless to the chain.

## 6. Not modelled

`PROJECT.json` (`components`) lists every part left out with its reason. In short:
parsers, serializers and file formats (media readers and writers, variants,
URIs, most of the protocols' `SignalInputData`); cryptography (SSL, DTLS, and of RTMPE the keys);
other platforms' reactors; statistics and logging; tools. They are most of the repository's lines.
Within the modelled parts: results of `epoll_ctl` (the code ignores them, and it does not fail on an
open, registered descriptor), counters, custom parameters, the table of RTMPT
sessions, the initialization of the camera on a thread, which touches the
reactor's lists from outside its thread (`apiprotocolhandler.cpp:163-176`); of streams the type
compatibility, names and data, and the loops that signal Play, Pause, Seek and Stop, which have the shape of the
feeding loop; of playlists the messages and their order, metadata, redirection and lazy pulls; of the
router recordings, segments and processes, whose configurations follow the paths of pulls and
pushes with other keys, WebRTC and lazy pulls.

Two steps are coarser than the code. `ProtocolManager`'s `Shutdown` is one action for the loop of
`protocolmanager.cpp:68-79`: it runs on the loop's thread with no event in between, and what its
`SetApplication(NULL)` calls back (`UnRegisterProtocol`) keeps the applications' books and changes no link. And `DeleteIn` is one action for the destructor of an in stream: an item that a
completed player goes on to may link itself to the dying stream, and is unlinked with the rest.

## 7. Plan

Done, in this order: `IOHandlerManager`, `EventDispatch`, `ProtocolManager`,
`TCPCarrier`, `TaskQueue`, `ThreadManager`, `ApiFeed`, `RTMPHandshake`, `ListTraversal`, `LinkedList`,
`StreamGraph`, `RTMPPlaylist`, `PushPull`, and the proofs above.

To come, the most important first:

1. The initialization of the camera on a thread, composed with the reactor.
2. `RTMPTSessions`: the table of sessions, one connection at a time, composed with the session links of
   `ProtocolManager`.
3. `RTPReorder`: sequence numbers modulo 2^16 and the reorder buffer, a pure
   algorithm against a reference definition; `RTSPSession`: requests and answers.
4. `IceSelection`: candidates, retries and teardown.
5. `SegmentWindow`: the rolling window and the playlist that names it.
6. `RTMPChunks`, `IOBuffer`, `TimersManager`: pure modules against a byte sequence and a
   reference schedule.
7. Ownership of descriptors in `TCPAcceptor` and `TCPConnector`.
