------------------------- MODULE MCIOHandlerManager -------------------------
(* A small instance of IOHandlerManager for TLC. *)
EXTENDS IOHandlerManager

CONSTANTS h1, h2, h3, t1, t2, t3

MCTimers == {h1}

\* Three handlers: two whose events are in the batch, and one created by a
\* callback of it that wants the token of a handler deleted in it.
MCHandlers == {h1, h2, h3}
MCTokens   == {t1, t2, t3}
=============================================================================
