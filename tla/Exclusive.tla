----------------------------- MODULE Exclusive ------------------------------
(***************************************************************************)
(* What a locker promises to the jobs of cron/cron.go: "to lock jobs from  *)
(* running at the same time on multiple instances".  Of all instances that *)
(* run a job of one key, at most one does so at a time.                    *)
(***************************************************************************)
CONSTANTS Instances, Keys

VARIABLE running  \* the instances that run a job of each key

Init == running = [k \in Keys |-> {}]

Begin(i, k) ==
  /\ running[k] = {}
  /\ running' = [running EXCEPT ![k] = {i}]

(* The job returns, or its instance is gone. *)
End(k) ==
  /\ running[k] # {}
  /\ running' = [running EXCEPT ![k] = {}]

Next == \E k \in Keys : End(k) \/ \E i \in Instances : Begin(i, k)

Spec == Init /\ [][Next]_running
=============================================================================
