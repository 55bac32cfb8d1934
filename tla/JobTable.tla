------------------------------ MODULE JobTable ------------------------------
(***************************************************************************)
(* What the table of cron/cron.go is to goroutines that share it, as long  *)
(* as no two of them interfere: Every enters a job at its end, the sort    *)
(* exchanges neighbours, and a loop takes jobs of it into its batch and    *)
(* runs them one after the other.  Each of these happens at one moment.    *)
(***************************************************************************)
EXTENDS Naturals, Sequences

CONSTANTS Jobs, Loops

VARIABLES
  table,      \* the jobs, in their order
  batch,      \* the jobs each loop has still to run
  interfered  \* two goroutines were in Every, or in the sort, at once

vars == <<table, batch, interfered>>

Init ==
  /\ table \in Seq(Jobs)
  /\ \A i, k \in DOMAIN table : table[i] = table[k] => i = k
  /\ batch = [l \in Loops |-> <<>>]
  /\ interfered = FALSE

Enter(j) ==
  /\ \A k \in DOMAIN table : table[k] # j
  /\ table' = Append(table, j)
  /\ UNCHANGED <<batch, interfered>>

Exchange(k) ==
  /\ k + 1 \in DOMAIN table
  /\ table' = [table EXCEPT ![k] = table[k + 1], ![k + 1] = table[k]]
  /\ UNCHANGED <<batch, interfered>>

Take(l) ==
  /\ \E k \in DOMAIN table : batch' = [batch EXCEPT ![l] = Append(@, table[k])]
  /\ UNCHANGED <<table, interfered>>

Run(l) ==
  /\ batch[l] # <<>>
  /\ batch' = [batch EXCEPT ![l] = Tail(@)]
  /\ UNCHANGED <<table, interfered>>

(* Nothing is promised from here on. *)
Interfere == interfered'

Next ==
  \/ \E j \in Jobs : Enter(j)
  \/ \E k \in DOMAIN table : Exchange(k)
  \/ \E l \in Loops : Take(l) \/ Run(l)
  \/ Interfere

Spec == Init /\ [][Next]_vars
=============================================================================
