------------------------- MODULE MCProtocolManager -------------------------
(* The model values of the configurations of ProtocolManager. *)
EXTENDS ProtocolManager
=============================================================================
