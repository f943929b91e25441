----------------------------- MODULE MCConsole -----------------------------
(* Two threads, a screen of a row and a half, three characters typed and two *)
(* clears: rows wrap, the screen scrolls, and a reset meets every access.    *)
EXTENDS Console, TLC

Symmetry == Permutations(Threads)
=============================================================================
