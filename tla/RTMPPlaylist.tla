---------------------------- MODULE RTMPPlaylist ----------------------------
(***************************************************************************)
(* What a player of the RTMP server plays: rtmpplaylist.cpp and            *)
(* rtmpplaylistitem.cpp.  The requests of the client, the CLI and the      *)
(* streams all land on the same object, and each may close the stream that *)
(* another one is about to use.                                            *)
(***************************************************************************)
EXTENDS Integers, Sequences

CONSTANTS NULL,
          Lists,    \* what can be asked for: sequences of [kind, dur]
          Points,   \* timestamps of seeks, switches and insertions
          MaxItems, \* bound: items in the playlist
          MaxId,    \* bound: items ever created
          MaxHead   \* bound: the timeline

Kinds == {"file", "live"}

ASSUME PlaylistAssumption ==
    /\ MaxItems \in Nat /\ MaxId \in Nat /\ MaxHead \in Nat
    /\ Points \subseteq 0..MaxHead
    /\ \A l \in Lists : l \in Seq([kind : Kinds, dur : Int]) /\ Len(l) > 0
    /\ NULL \notin [point : Points, kind : Kinds, dur : Int, count : Nat]

VARIABLES items,    \* _items: an item, what it is and how long it plays
          cur,      \* _currentItemIndex (from 1; 0 and less have wrapped)
          state,    \* _state
          head,     \* _absoluteTimelineHead
          out,      \* the out stream of the RTMP stream id, NULL if neutral
          born,     \* ids of items given
          inserting,\* the InsertItem that runs: its point, item and count
          protocol  \* the RTMP protocol: up, enqueued for delete, or gone

vars == <<items, cur, state, head, out, born, inserting, protocol>>

TypeOK ==
    /\ items \in Seq([id : 1..MaxId, kind : Kinds, dur : Int]) /\ Len(items) <= MaxItems
    /\ cur \in Int /\ head \in 0..MaxHead /\ born \in 0..MaxId
    /\ state \in {"NOT_STARTED", "PLAYING", "PAUSED", "FINISHED"}
    /\ \/ out = NULL
       \/ out \in [item : 1..MaxId, kind : Kinds, in : {"none", "file", "live"},
                   at : 0..MaxHead, end : -1..MaxHead, paused : BOOLEAN, gop : BOOLEAN]
    /\ protocol \in {"up", "enqueued", "gone"}

Init == /\ items = <<>> /\ cur = 1 /\ state = "NOT_STARTED" /\ head = 0
        /\ out = NULL /\ born = 0 /\ inserting = NULL /\ protocol = "up"

\* A request is served while no other one runs and the protocol is usable.
Serving == protocol = "up" /\ inserting = NULL

(***************************************************************************)
(* The timeline: every item starts where the one before it ends, if that   *)
(* is known.                                                               *)
(***************************************************************************)
PlaylistStarts(s) ==
    LET start[i \in 1..Len(s)] ==
          IF i = 1 THEN 0
          ELSE IF start[i - 1] < 0 \/ s[i - 1].dur < 0 THEN -1
          ELSE start[i - 1] + s[i - 1].dur
    IN  start

ContainsTimestamp(s, i, t) ==
    LET start == PlaylistStarts(s)[i]
    IN  \/ t < 0 \/ start < 0 \/ s[i].dur < 0
        \/ start <= t /\ (s[i].dur = 0 \/ t < start + s[i].dur)

\* The first item at a timestamp, 0 if there is none.
ItemAt(s, t) ==
    LET at == {i \in 1..Len(s) : ContainsTimestamp(s, i, t)}
    IN  IF at = {} THEN 0 ELSE CHOOSE i \in at : \A j \in at : i <= j

HasCurrent(s, c) == c \in 1..Len(s)

Append_(s, l) == s \o [k \in 1..Len(l) |-> [id |-> born + k, kind |-> l[k].kind, dur |-> l[k].dur]]

Insert(s, i, new) == SubSeq(s, 1, i - 1) \o new \o SubSeq(s, i, Len(s))

(***************************************************************************)
(* Playing an item: a file plays at once, a live stream when it is there.  *)
(* What played before is closed first, so one that fails leaves no out     *)
(* stream, or for a file that cannot be opened one that is fed nothing.    *)
(***************************************************************************)
Least(a, b) == IF a < b THEN a ELSE b

\* Without a length a file ends at its end, and a live stream is not timed.
Ends(item, from, length) ==
    IF length >= 0 THEN Least(from + length, MaxHead)
    ELSE IF item.kind = "file" THEN MaxHead ELSE -1

Streams(item, from, length, gop) ==
    [item : {item.id}, kind : {item.kind}, at : {from}, end : {Ends(item, from, length)},
     in : IF item.kind = "file" THEN {"file"} ELSE {"none", "live"},
     paused : {FALSE}, gop : {gop}]

ItemPlays(item, from, length, gop) ==
    /\ out' \in Streams(item, from, length, gop)
    /\ UNCHANGED protocol

Unfed(item, from) ==
    [item |-> item.id, kind |-> item.kind, in |-> "none", at |-> from, end |-> -1,
     paused |-> FALSE, gop |-> FALSE]

ItemFails(item, from, refused) ==
    /\ out' = NULL \/ (item.kind = "file" /\ out' = Unfed(item, from))
    /\ protocol' = IF refused THEN "enqueued" ELSE protocol

Play(item, from, length, gop) == ItemPlays(item, from, length, gop)
                                 \/ ItemFails(item, from, TRUE)

\* A handler that returns false loses its connection.
Refuse == protocol' = "enqueued" /\ UNCHANGED <<items, cur, head, out>>

(***************************************************************************)
(* Requests of the client.                                                 *)
(***************************************************************************)
\* With reset everything before is cleaned up.
PlayReset(l) ==
    /\ Serving /\ born + Len(l) <= MaxId /\ Len(l) <= MaxItems
    /\ items' = Append_(<<>>, l) /\ cur' = 1 /\ head' = 0 /\ state' = "PLAYING"
    /\ born' = born + Len(l)
    /\ Play(items'[1], 0, items'[1].dur, FALSE)
    /\ UNCHANGED inserting

\* Without, the items are appended, and played if nothing else is.
PlayAppend(l) ==
    /\ Serving /\ born + Len(l) <= MaxId /\ Len(items) + Len(l) <= MaxItems
    /\ items' = Append_(items, l)
    /\ born' = born + Len(l)
    /\ UNCHANGED <<cur, head, inserting>>
    /\ IF state \in {"NOT_STARTED", "FINISHED"}
       THEN state' = "PLAYING" /\ Play(items'[cur], head, items'[cur].dur, FALSE)
       ELSE UNCHANGED <<state, out, protocol>>

Pause ==
    /\ Serving /\ UNCHANGED <<born, inserting>>
    /\ state' = IF state = "PLAYING" /\ ~HasCurrent(items, cur) THEN state ELSE "PAUSED"
    /\ IF state # "PLAYING" THEN UNCHANGED <<items, cur, head, out, protocol>>
       ELSE IF out = NULL \/ ~HasCurrent(items, cur) THEN Refuse
       ELSE out' = [out EXCEPT !.paused = TRUE] /\ UNCHANGED <<items, cur, head, protocol>>

\* The item goes on; the single GOP of a file is called off.
Resumed_GopKept == [out EXCEPT !.paused = FALSE]
Resumed == [out EXCEPT !.paused = FALSE, !.gop = @ /\ out.in # "file"]

Resume ==
    /\ Serving /\ UNCHANGED <<born, inserting>>
    /\ CASE state = "NOT_STARTED" -> UNCHANGED <<items, cur, head, out, state, protocol>>
         [] state = "PAUSED" /\ ~HasCurrent(items, cur) ->
              state' = "FINISHED" /\ UNCHANGED <<items, cur, head, out, protocol>>
         [] state = "PAUSED" /\ HasCurrent(items, cur) /\ out # NULL /\ out.in # "none" ->
              /\ state' = "PLAYING" /\ out' = Resumed
              /\ UNCHANGED <<items, cur, head, protocol>>
         [] state \in {"PLAYING", "FINISHED"} /\ out # NULL /\ out.in # "none" ->
              UNCHANGED <<items, cur, head, out, state, protocol>>
         [] OTHER ->
              state' = (IF state = "PAUSED" THEN "PLAYING" ELSE state) /\ Refuse

\* The stream is closed before anything is known to take its place.
Seek(t) ==
    /\ Serving /\ state # "NOT_STARTED" /\ UNCHANGED <<items, state, born, inserting>>
    /\ IF items = <<>> THEN Refuse
       ELSE LET i == IF ItemAt(items, t) = 0 THEN Len(items) ELSE ItemAt(items, t)
                start == PlaylistStarts(items)[i]
                known == start >= 0 /\ items[i].dur >= 0
                left == IF known THEN items[i].dur - (t - start) ELSE items[i].dur
            IN  /\ cur' = i /\ head' = t
                /\ IF known /\ left < 0 THEN out' = NULL /\ protocol' = "enqueued"
                   ELSE Play(items[i], t, left, state = "PAUSED")

\* NetStream.play2: the items of a name are replaced by another one.
Switch(changed, new, offset) ==
    /\ Serving /\ out # NULL /\ changed \subseteq 1..Len(items)
    /\ born + Len(items) <= MaxId
    /\ LET last == IF changed = {} THEN cur
                   ELSE CHOOSE i \in changed : \A j \in changed : j <= i
       IN  cur' = Least(last, Len(items))
    /\ items' = [i \in 1..Len(items) |->
                   [id |-> born + i,
                    kind |-> IF i \in changed THEN new.kind ELSE items[i].kind,
                    dur |-> IF i \in changed THEN new.dur ELSE items[i].dur]]
    /\ born' = born + Len(items) /\ head' = offset
    /\ UNCHANGED <<state, inserting>>
    /\ IF state \in {"PLAYING", "PAUSED"} /\ HasCurrent(items', cur')
       THEN Play(items'[cur'], offset, items'[cur'].dur, state = "PAUSED")
       ELSE out' = NULL /\ protocol' = "enqueued"

Cleanup_StreamKept == /\ items' = <<>> /\ cur' = 1 /\ head' = 0 /\ state' = "NOT_STARTED"
                      /\ UNCHANGED out
Cleanup == items' = <<>> /\ cur' = 1 /\ head' = 0 /\ out' = NULL /\ state' = "NOT_STARTED"

Stop == Serving /\ Cleanup /\ UNCHANGED <<born, inserting, protocol>>

\* The client closes the RTMP stream; its playlist is not told.
CloseStream == /\ Serving /\ out # NULL /\ out' = NULL
               /\ UNCHANGED <<items, cur, state, head, born, inserting, protocol>>

\* An insertion at the item that plays.
AtCurrent == inserting # NULL /\ cur # 0 /\ ItemAt(items, inserting.point) = cur

\* A message cannot be sent: whatever the request had done is undone; or the
\* end of the item that plays, in an insertion at it.
SendFails == /\ protocol = "up"
             /\ inserting = NULL \/ AtCurrent
             /\ Cleanup /\ protocol' = "enqueued" /\ inserting' = NULL
             /\ UNCHANGED born

(***************************************************************************)
(* InsertItem, asked by the CLI; it calls itself.                          *)
(***************************************************************************)
InsertBegins(t, new) ==
    /\ Serving
    /\ out # NULL => out.at <= t
    /\ inserting' = [point |-> t, kind |-> new.kind, dur |-> new.dur, count |-> 0]
    /\ UNCHANGED <<items, cur, state, head, out, born, protocol>>

InsertedItem(n) == [id |-> n, kind |-> inserting.kind, dur |-> inserting.dur]

\* Beyond the last item: it is appended.
InsertBeyond ==
    /\ inserting # NULL /\ ItemAt(items, inserting.point) = 0
    /\ Len(items) < MaxItems /\ born < MaxId
    /\ items' = Append(items, InsertedItem(born + 1))
    /\ born' = born + 1 /\ inserting' = NULL
    /\ UNCHANGED <<cur, state, head, out, protocol>>

\* An item in two: what was played, the new one, and what is left.  Played may
\* be less than nothing: of an item that another one ended before its time.
Split(i, played, n) ==
    LET left == [items[i] EXCEPT !.id = n + 1, !.dur = IF @ >= 0 THEN @ - played ELSE @]
    IN  SubSeq(items, 1, i - 1) \o <<[items[i] EXCEPT !.dur = played], InsertedItem(n), left>>
          \o SubSeq(items, i + 1, Len(items))

AlreadyPlayed(i) == IF out = NULL THEN 0 ELSE out.at - PlaylistStarts(items)[i]

\* What happens to the list, and whether the index moves on.
Inserted(i) ==
    IF inserting.point = PlaylistStarts(items)[i] \/ AlreadyPlayed(i) = 0
    THEN [items |-> Insert(items, i, <<InsertedItem(born + 1)>>), by |-> 0]
    ELSE [items |-> Split(i, AlreadyPlayed(i), born + 1), by |-> 1]

\* At the item that plays: it is closed, and the one at its place played.  The
\* CLI does not ask whether it does.
InsertAtCurrent ==
    /\ AtCurrent
    /\ LET in == Inserted(cur)
           c == cur + in.by
       IN  /\ Len(in.items) <= MaxItems /\ born + 1 + in.by <= MaxId
           /\ items' = in.items /\ cur' = c
           /\ born' = born + 1 + in.by
           /\ LET start == PlaylistStarts(in.items)[c]
                  from == IF start < 0 THEN 0 ELSE Least(start, MaxHead)
              IN  \/ ItemPlays(in.items[c], from, in.items[c].dur, state = "PAUSED")
                  \/ ItemFails(in.items[c], from, FALSE)
    /\ inserting' = NULL
    /\ UNCHANGED <<state, head>>

\* At another one: the index is taken back and InsertItem called again.
Elsewhere == /\ inserting # NULL
             /\ LET i == ItemAt(items, inserting.point)
                    in == Inserted(i)
                IN  /\ i # 0 /\ i # cur
                    /\ Len(in.items) <= MaxItems /\ born + 1 + in.by <= MaxId
                    /\ items' = in.items /\ cur' = cur + in.by - 1
                    /\ born' = born + 1 + in.by
             /\ UNCHANGED <<state, head, out, protocol>>

InsertElsewhere_Done == Elsewhere /\ inserting' = NULL
InsertElsewhere == Elsewhere /\ inserting' = [inserting EXCEPT !.count = @ + 1]

(***************************************************************************)
(* The streams.                                                            *)
(***************************************************************************)
\* A live stream that was waited for is published; one that is played ends.
LiveBegins == /\ Serving /\ out # NULL /\ out.in = "none" /\ out.kind # "file"
              /\ out' = [out EXCEPT !.in = "live"]
              /\ UNCHANGED <<items, cur, state, head, born, inserting, protocol>>

\* SignalItemCompleted: a paused playlist stays put, a playing one goes on,
\* and one that was not started takes it for an error.
ItemCompleted_PlayedAgain(at, rest) ==
    /\ head' = at
    /\ IF state \in {"PAUSED", "NOT_STARTED"}
       THEN out' = rest /\ UNCHANGED <<cur, state, protocol>>
       ELSE IF HasCurrent(items, cur)
            THEN ItemPlays(items[cur], at, items[cur].dur, FALSE) /\ UNCHANGED <<cur, state>>
            ELSE state' = "FINISHED" /\ out' = NULL /\ UNCHANGED <<cur, protocol>>

ItemCompleted(at, rest) ==
    /\ head' = at
    /\ IF state \in {"PAUSED", "NOT_STARTED"}
       THEN out' = rest /\ UNCHANGED <<cur, state, protocol>>
       ELSE /\ cur' = cur + 1
            /\ IF HasCurrent(items, cur + 1)
               THEN /\ \/ ItemPlays(items[cur + 1], at, items[cur + 1].dur, FALSE)
                       \/ ItemFails(items[cur + 1], at, FALSE)
                    /\ UNCHANGED state
               ELSE state' = "FINISHED" /\ out' = NULL /\ UNCHANGED protocol

\* The item hears of it unless it is live without a length.
StreamCompleted(at, rest) ==
    /\ UNCHANGED <<items, born, inserting>>
    /\ IF out.kind = "live" /\ out.end < 0
       THEN out' = rest /\ UNCHANGED <<cur, state, head, protocol>>
       ELSE ItemCompleted(at, rest)

LiveEnds == /\ Serving /\ out # NULL /\ out.in = "live"
            /\ StreamCompleted(out.at, [out EXCEPT !.in = "none"])

MoreToFeed == out.at < (IF out.end < 0 THEN MaxHead ELSE out.end)

\* A frame; the single GOP of a paused player is followed by silence.
Frame ==
    /\ Serving /\ out # NULL /\ out.in # "none" /\ ~out.paused
    /\ MoreToFeed
    /\ LET fed == [out EXCEPT !.at = @ + 1]
       IN  IF out.gop THEN StreamCompleted(fed.at, [fed EXCEPT !.gop = FALSE, !.paused = TRUE])
           ELSE out' = fed /\ UNCHANGED <<items, cur, state, head, born, inserting, protocol>>

\* The end of a file, or the timer of a length (which runs while it waits).
EndOfItem == /\ Serving /\ out # NULL /\ out.end >= 0 /\ ~out.paused
             /\ out.kind = "file" => out.in = "file" /\ out.at = out.end
             /\ StreamCompleted(out.at, [out EXCEPT !.paused = TRUE, !.gop = FALSE])

Streaming == Frame \/ EndOfItem \/ LiveBegins \/ LiveEnds

(***************************************************************************)
(* The protocol ends; its playlists go before its streams.                 *)
(***************************************************************************)
EnqueueForDelete == /\ Serving /\ protocol' = "enqueued"
                    /\ UNCHANGED <<items, cur, state, head, out, born, inserting>>

Deleted == /\ protocol = "enqueued" /\ inserting = NULL
           /\ Cleanup /\ protocol' = "gone"
           /\ UNCHANGED <<born, inserting>>

Request == \/ \E l \in Lists : PlayReset(l) \/ PlayAppend(l)
           \/ Pause \/ Resume \/ Stop \/ CloseStream
           \/ \E t \in Points : Seek(t)
           \/ \E t \in Points, l \in Lists :
                \/ \E changed \in {{}, {1}, {cur}} : Switch(changed, l[1], t)
                \/ InsertBegins(t, l[1])

InsertItem == InsertBeyond \/ InsertAtCurrent \/ InsertElsewhere

Next == Request \/ InsertItem \/ Streaming \/ SendFails \/ EnqueueForDelete \/ Deleted

\* The loop feeds files and fires timers.
Spec == Init /\ [][Next]_vars /\ WF_vars(Frame) /\ WF_vars(EndOfItem)
-----------------------------------------------------------------------------
Ids(s) == {s[i].id : i \in 1..Len(s)}

\* The out stream holds a pointer to its item: no request deletes the items
\* and leaves the stream (Cleanup, Switch, InsertItem and the destructors all
\* delete or move items).
StreamOfItem == TypeOK /\ (out # NULL => out.item \in Ids(items))

\* A file that a playing playlist plays is not paused: neither a pause nor the
\* single GOP that a seek or a switch in pause shows outlives the resume.
PlayingFileRuns ==
    state = "PLAYING" /\ out # NULL /\ out.in = "file" => ~out.paused /\ ~out.gop

\* Between the requests the index and the out stream agree: the item that plays
\* is the one at the index.  SignalItemCompleted takes it for granted when it
\* adds one to the index, and Pause, Resume and InsertItem when they ask for
\* the current item; Switch, Seek and InsertItem move both.
PlayedIsCurrent ==
    inserting = NULL /\ out # NULL => HasCurrent(items, cur) /\ out.item = items[cur].id

\* A playlist that is left alone does not play a file forever.
LeftAloneGoesOn ==
    <>[][Streaming]_vars => []<>~(Serving /\ state = "PLAYING" /\ out # NULL /\ out.in = "file")

\* "We landed on an item boundary. We will only insert the new item" and "All
\* done if we didn't interrupt anything" (InsertItem): one request, one item.
InsertedOnce == inserting # NULL => inserting.count = 0
=============================================================================
