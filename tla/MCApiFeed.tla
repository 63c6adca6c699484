---------------------------- MODULE MCApiFeed ----------------------------
(* ApiFeed, and ThreadManager in it, with the task ids of the configurations. *)
EXTENDS ApiFeed
==============================================================================
