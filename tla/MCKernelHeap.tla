---------------------------- MODULE MCKernelHeap ----------------------------
(* Small instance of KernelHeap: eight smallest blocks, and requests of      *)
(* half, one, one and a half and several blocks, of the whole heap and more.  *)
EXTENDS KernelHeap
=============================================================================
