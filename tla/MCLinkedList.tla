---------------------------- MODULE MCLinkedList ----------------------------
(* Three entries: a first, a middle and a last one. *)
EXTENDS LinkedList

CONSTANTS e1, e2, e3
=============================================================================
