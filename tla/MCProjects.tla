----------------------------- MODULE MCProjects -----------------------------
(* Two callers, a member of the system and a user without an account.      *)
EXTENDS Projects, TLC

CONSTANTS a, b, member, guest

Symmetric == Permutations(Callers)
=============================================================================
