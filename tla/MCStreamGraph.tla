--------------------------- MODULE MCStreamGraph ---------------------------
(* Small instances of StreamGraph for TLC. *)
EXTENDS StreamGraph, TLC

CONSTANTS vod, pull, a, b, push, moov, p1, p2, p3, p4, p5

\* A connection that both publishes and plays, a player on its own, a push
\* and a moov writer on its dummy protocol.
MCIns       == {vod, pull}
MCOuts      == {a, b, push, moov}
MCProtocols == {p1, p2, p3, p4, p5}
MCProto     == vod :> p1 @@ a :> p1 @@ pull :> p2 @@ b :> p3 @@ push :> p4 @@ moov :> p5
MCWriters   == {moov}
MCVod       == {vod}
MCEdgePulls == {pull}
MCKept      == {push}
=============================================================================
