------------------------- MODULE MCSharedScheduler -------------------------
(* Two clients, each with its job and its loop, and a job of the program.  *)
EXTENDS SharedScheduler, TLC

CONSTANTS a, b, p

Symmetric == Permutations(Clients)
=============================================================================
