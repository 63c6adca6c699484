----------------------------- MODULE MCTCPCarrier ----------------------------
(* The instance checked: TCPCarrier as it stands, its bound set in the cfg. *)
EXTENDS TCPCarrier
==============================================================================
