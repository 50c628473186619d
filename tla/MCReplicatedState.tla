------------------------- MODULE MCReplicatedState -------------------------
(***************************************************************************)
(* ReplicatedState for TLC: two masters of the group, one of which a       *)
(* snapshot can be installed on, and workers of the smallest pool.         *)
(***************************************************************************)
EXTENDS ReplicatedState, TLC

MCCapacity == [w \in Workers |-> [cpu |-> 2, ram |-> 1024]]

MasterSymmetry == Permutations(Masters)
=============================================================================
