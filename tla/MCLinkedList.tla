---------------------------- MODULE MCLinkedList ----------------------------
(* LinkedList over four keys. *)
EXTENDS LinkedList
=============================================================================
