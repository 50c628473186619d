------------------------ MODULE MCContainerLifecycle ------------------------
(***************************************************************************)
(* ContainerLifecycle for TLC: two workers, so that a replica has          *)
(* somewhere to go when one dies, and one or two services.  No safety      *)
(* property tells workers or services apart.                               *)
(***************************************************************************)
EXTENDS ContainerLifecycle, TLC

NodeSymmetry == Permutations(Nodes)

NodeAndServiceSymmetry == NodeSymmetry \cup Permutations(Services)
=============================================================================
