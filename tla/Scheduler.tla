------------------------------ MODULE Scheduler ------------------------------
(***************************************************************************)
(* Scheduler.Plan (internal/scheduler/scheduler.go) with the two load      *)
(* balancers (internal/loadbalancer): the all-or-nothing placement of the  *)
(* replicas of one request.  A behaviour is one call: an arbitrary pool    *)
(* and request, the working copies, and one step per turn of the loop.     *)
(*                                                                         *)
(* CPU is a float64 in the code; here, as RAM, a whole number of some unit *)
(* that is much larger than a rounding error.  So rounding decides one     *)
(* comparison only, that of the free CPU of a node with the CPU that is    *)
(* asked for where the two are equal: 1 - 0.8 is less than 0.2.            *)
(***************************************************************************)
EXTENDS Integers, Sequences, FiniteSets

CONSTANTS
  Pools,     \* the pools, as GetPoolNodes returns one: sequences of node records
  Requests   \* services with the number of replicas asked for

Ports == UNION {r.ports : r \in Requests}
               \cup UNION {UNION {p[i].ports : i \in DOMAIN p} : p \in Pools}

NodeType == [status : {"ALIVE", "SUSPECT", "DEAD"},
             totalCPU : Nat, usedCPU : Nat, totalRAM : Nat, usedRAM : Nat,
             containers : Nat,       \* GetActiveContainersByNode, how many
             ports : SUBSET Ports]   \* and the ports of their services

RequestType == [cpu : Nat, ram : Nat, ports : SUBSET Ports, n : Nat \ {0}]

ASSUME SchedulerAssumption == /\ Pools \subseteq Seq(NodeType)
                              /\ Requests \subseteq RequestType

VARIABLES
  balancer,  \* the -lb flag of the master
  pool,      \* the nodes of the pool when Plan reads them
  request,   \* the service and n
  working,   \* the working copies of the pool's nodes, used for alive ones only
  short,     \* copies with exactly the CPU asked for, whose difference rounds to less
  plan,      \* for each replica placed so far, the position of its node
  outcome    \* "planning", then what Plan returns

vars == <<balancer, pool, request, working, short, plan, outcome>>

AliveNodes == {i \in DOMAIN working : working[i].status = "ALIVE"}

AvailableCPU(i) == working[i].totalCPU - working[i].usedCPU
AvailableRAM(i) == working[i].totalRAM - working[i].usedRAM

portConflict(i) == working[i].ports \cap request.ports # {}

\* Rounding can make what is free on a working copy less than what is asked for: the
\* two are equal and neither is 0, and something was subtracted.
Doubtful(copy) == /\ request.cpu > 0
                  /\ copy.usedCPU > 0
                  /\ copy.totalCPU - copy.usedCPU = request.cpu

\* Mutation of Fits: room for more than is asked for.
FitsStrictly(i) == /\ AvailableCPU(i) > request.cpu
                   /\ i \notin short
                   /\ AvailableRAM(i) >= request.ram
                   /\ ~portConflict(i)

\* Mutation of Fits: the ports are not looked at.
FitsResources(i) == /\ AvailableCPU(i) >= request.cpu
                    /\ i \notin short
                    /\ AvailableRAM(i) >= request.ram

Fits(i) == /\ AvailableCPU(i) >= request.cpu
           /\ i \notin short
           /\ AvailableRAM(i) >= request.ram
           /\ ~portConflict(i)

Candidates == {i \in AliveNodes : Fits(i)}

\* score, as the fraction <<numerator, denominator>>.
score(i) ==
  LET share(free, total) == IF total > 0 THEN <<free, total>> ELSE <<0, 1>>
      c == share(AvailableCPU(i), working[i].totalCPU)
      r == share(AvailableRAM(i), working[i].totalRAM)
  IN <<c[1] * r[2] + r[1] * c[2], c[2] * r[2]>>

\* Whether the balancer prefers node i to node j, whatever their order.
Prefers(i, j) ==
  CASE balancer = "leastconn" -> working[i].containers < working[j].containers
    [] balancer = "weighted"  -> score(i)[1] * score(j)[2] > score(j)[1] * score(i)[2]

\* Mutation of SelectNode: the first candidate.
SelectFirst(S) == {i \in S : \A j \in S : i <= j}

\* Mutation of SelectNode: no node, as a position before the first.
SelectNothing(S) == {0}

\* The one candidate that the balancer's loop ends with: none is preferred to it
\* and it is preferred to all before it.
SelectNode(S) ==
  {i \in S : \A j \in S : ~Prefers(j, i) /\ (j < i => Prefers(i, j))}

Init ==
  /\ balancer \in {"leastconn", "weighted"}
  /\ pool \in Pools
  /\ request \in Requests
  /\ working = pool
  /\ short \in SUBSET {i \in DOMAIN working : Doubtful(working[i])}
  /\ plan = <<>>
  /\ outcome = "planning"

\* Mutation of Place: the working copy is not charged.
PlaceUncharged ==
  /\ outcome = "planning"
  /\ Len(plan) < request.n
  /\ \E i \in SelectNode(Candidates) : plan' = Append(plan, i)
  /\ UNCHANGED <<balancer, pool, request, working, short, outcome>>

\* One more replica is placed and charged to the working copy of its node.
Place ==
  /\ outcome = "planning"
  /\ Len(plan) < request.n
  /\ \E i \in SelectNode(Candidates) :
       /\ plan' = Append(plan, i)
       /\ working' = [working EXCEPT ![i].usedCPU = @ + request.cpu,
                                     ![i].usedRAM = @ + request.ram,
                                     ![i].containers = @ + 1,
                                     ![i].ports = @ \cup request.ports]
       /\ \/ UNCHANGED short
          \/ Doubtful(working'[i]) /\ short' = short \cup {i}
  /\ UNCHANGED <<balancer, pool, request, outcome>>

\* No node for this replica: the whole request fails.
Fail ==
  /\ outcome = "planning"
  /\ Len(plan) < request.n
  /\ Candidates = {}
  /\ outcome' = "failed"
  /\ UNCHANGED <<balancer, pool, request, working, short, plan>>

Finish ==
  /\ outcome = "planning"
  /\ Len(plan) = request.n
  /\ outcome' = "planned"
  /\ UNCHANGED <<balancer, pool, request, working, short, plan>>

\* The call has returned.
Done == outcome # "planning" /\ UNCHANGED vars

Next == Place \/ Fail \/ Finish \/ Done

Spec == Init /\ [][Next]_vars

-----------------------------------------------------------------------------
(* Properties.  They compare the plan with the pool as it was found. *)

TypeOK ==
  /\ balancer \in {"leastconn", "weighted"}
  /\ pool \in Seq(NodeType)
  /\ request \in RequestType
  /\ working \in Seq(NodeType)
  /\ short \subseteq DOMAIN working
  /\ plan \in Seq(DOMAIN pool)
  /\ outcome \in {"planning", "planned", "failed"}

\* The replicas placed on node i.
Placed(i) == Cardinality({r \in DOMAIN plan : plan[r] = i})

\* A single request never oversubscribes a node: the replicas placed on it fit
\* all together into what was free when the plan began, by no more than rounding
\* beyond it, and it is alive (scheduler.go:24-28).
NoOversubscription ==
  \A i \in DOMAIN pool :
    Placed(i) > 0 =>
      /\ pool[i].status = "ALIVE"
      /\ pool[i].usedCPU + Placed(i) * request.cpu <= pool[i].totalCPU
      /\ pool[i].usedRAM + Placed(i) * request.ram <= pool[i].totalRAM

\* A port is bound once per machine: a service with ports gets one replica per
\* node, and none where one of its ports is in use (scheduler.go:97-98).
PortsBoundOnce ==
  request.ports # {} =>
    \A i \in DOMAIN pool :
      Placed(i) > 0 => Placed(i) = 1 /\ pool[i].ports \cap request.ports = {}

\* The k-th replica on node i fits the CPU, and no rounding can say otherwise: either
\* some CPU is left over or what is compared is exact.
CPUFor(i, k) ==
  LET before == pool[i].usedCPU + (k - 1) * request.cpu
      after == before + request.cpu
  IN \/ after < pool[i].totalCPU
     \/ after = pool[i].totalCPU /\ (before = 0 \/ request.cpu = 0)

\* Node i could take k replicas by itself.
Takes(i, k) ==
  /\ pool[i].status = "ALIVE"
  /\ pool[i].ports \cap request.ports = {}
  /\ request.ports # {} => k = 1
  /\ CPUFor(i, k)
  /\ pool[i].usedRAM + k * request.ram <= pool[i].totalRAM

\* The room in the pool: a place <<i, k>> for the k-th replica on node i.
Room == {x \in (DOMAIN pool) \X (1..request.n) : Takes(x[1], x[2])}

\* All or nothing, and nothing only for a reason: Plan fails only when the pool has
\* no room for all the replicas, places that would use up the last of a node's CPU
\* and may fall to rounding aside, although it places them greedily one by one and
\* the balancer knows nothing of the replicas to come (scheduler.go:57-82).
AllOrNothing ==
  /\ outcome = "planned" => Len(plan) = request.n
  /\ outcome = "failed" => Cardinality(Room) < request.n

\* Least Connections spreads a request: no node got a replica that would have left
\* a node still able to take one at least two containers behind (leastconn.go).
SpreadEvenly ==
  balancer = "leastconn" =>
    \A i \in DOMAIN pool, j \in Candidates :
      Placed(i) > 0 => working[i].containers <= working[j].containers + 1
=============================================================================
