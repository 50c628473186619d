----------------------------- MODULE MCScheduler -----------------------------
(***************************************************************************)
(* Scheduler for TLC: pools of up to three nodes with 0 to 2 units of CPU  *)
(* and RAM free out of 2, running 0 to 2 containers, with or without the   *)
(* one port in use; requests for 1 to 4 replicas.                          *)
(***************************************************************************)
EXTENDS Scheduler

SmallNode ==
  {[status |-> st, totalCPU |-> 2, usedCPU |-> c, totalRAM |-> r, usedRAM |-> 0,
    containers |-> k, ports |-> p] :
     st \in {"ALIVE", "DEAD"}, c \in 0..2, r \in 0..2, k \in {0, 2}, p \in {{}, {80}}}

\* A dead node is like any other dead node.
PoolNode == {x \in SmallNode :
               /\ x.status = "DEAD" => x.usedCPU = 0 /\ x.totalRAM = 2 /\ x.containers = 0
               /\ x.ports # {} => x.containers = 2}

\* Pools of three are made of nodes with room.
Roomy == {x \in PoolNode : x.usedCPU < 2 /\ x.totalRAM > 1}

MCPools == UNION {[1..k -> PoolNode] : k \in 0..2} \cup [1..3 -> Roomy]

MCRequests == [cpu : {0, 1}, ram : {0, 1}, ports : {{}, {80}}, n : 1..4]
=============================================================================
