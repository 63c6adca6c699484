-------------------------- MODULE MCRTMPHandshake --------------------------
(* RTMPHandshake with parts of three bytes and chunks of three. *)
EXTENDS RTMPHandshake
==============================================================================
