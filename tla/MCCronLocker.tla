---------------------------- MODULE MCCronLocker ----------------------------
(* Two jobs that share a key, as all functions wrapped by DoSafely do, and *)
(* one with a key of its own.                                              *)
EXTENDS CronLocker

CONSTANTS i1, i2, j1, j2, j3, wrapper, own

NamesOfFunctions == [j \in Jobs |-> IF j = j3 THEN own ELSE wrapper]
=============================================================================
