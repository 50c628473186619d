--------------------------- MODULE MCNodeLifecycle ---------------------------
(***************************************************************************)
(* NodeLifecycle for TLC.  Workers and goroutine identities are model      *)
(* values.  Two identities for one worker let a run start the second       *)
(* KillContainers goroutine that Tolerance.recovering must prevent.        *)
(***************************************************************************)
EXTENDS NodeLifecycle, TLC

\* Goroutines are interchangeable.
ThreadSymmetry == Permutations(Threads)
=============================================================================
