--------------------------- MODULE MCWorkerDocker ---------------------------
(***************************************************************************)
(* WorkerDocker for TLC: two workers on one daemon, and two goroutines, so *)
(* that two starts, a start and a kill, or two kills, meet.                *)
(***************************************************************************)
EXTENDS WorkerDocker
=============================================================================
