----------------------------- MODULE MCPushPull -----------------------------
(* Small instances of PushPull for TLC. *)
EXTENDS PushPull

CONSTANTS p1, p2, q1, q2

MCTarget == [c \in {q1, q2} |-> "t"] \* both pushes have one target
=============================================================================
