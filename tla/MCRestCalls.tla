---------------------------- MODULE MCRestCalls -----------------------------
(* Two callers of the service, and the code's three trials.                *)
EXTENDS RestCalls, TLC

CONSTANTS a, b

Symmetric == Permutations(Callers)
=============================================================================
