--------------------------- MODULE SchedulerProofs ---------------------------
(***************************************************************************)
(* What one plan guarantees for every pool and every request: a node is    *)
(* never oversubscribed, a port is bound once, Least Connections spreads   *)
(* the replicas, and a plan fails only for want of room.  The invariant    *)
(* that carries the first two says that the working copies are exactly the *)
(* pool with the replicas of the plan charged to it; for the last one,     *)
(* that every replica of the plan fills a place of its own among those the *)
(* pool has.                                                               *)
(***************************************************************************)
EXTENDS Scheduler, FiniteSetTheorems, TLAPS

\* The pool and the request are fixed, and there is one working copy per node.
WellFormed ==
  /\ TypeOK
  /\ pool \in Pools
  /\ request \in Requests
  /\ DOMAIN working = DOMAIN pool

\* A node the balancer selects is one it was offered, and those are alive, have
\* room and no port in the way.
LEMMA Selected ==
  ASSUME WellFormed, NEW k \in SelectNode(Candidates)
  PROVE  /\ k \in DOMAIN working
         /\ k \in Candidates
         /\ working[k].status = "ALIVE"
         /\ Fits(k)
  BY DEF SelectNode, Candidates, AliveNodes

\* Charging a replica to a node leaves a node.
LEMMA ChargedNode ==
  ASSUME NEW x \in NodeType, NEW cpu \in Nat, NEW ram \in Nat, NEW ps \in SUBSET Ports
  PROVE  [x EXCEPT !.usedCPU = @ + cpu, !.usedRAM = @ + ram,
                   !.containers = @ + 1, !.ports = @ \cup ps] \in NodeType
<1>1. /\ x.usedCPU + cpu \in Nat
      /\ x.usedRAM + ram \in Nat
      /\ x.containers + 1 \in Nat
      /\ x.ports \cup ps \in SUBSET Ports
  BY DEF NodeType
<1>2. QED
  BY <1>1, Zenon DEF NodeType

\* Init and every step keep the types.
LEMMA WellFormedStep ==
  ASSUME WellFormed, [Next]_vars
  PROVE  WellFormed'
<1>1. ASSUME Place PROVE WellFormed'
  <2>1. PICK k \in SelectNode(Candidates) :
          /\ plan' = Append(plan, k)
          /\ working' = [working EXCEPT ![k].usedCPU = @ + request.cpu,
                                        ![k].usedRAM = @ + request.ram,
                                        ![k].containers = @ + 1,
                                        ![k].ports = @ \cup request.ports]
    BY <1>1 DEF Place
  <2>2. k \in DOMAIN working
    BY <2>1, Selected
  <2>3. DOMAIN working = 1..Len(working) /\ working \in [1..Len(working) -> NodeType]
    BY DEF WellFormed, TypeOK
  <2>4. request \in RequestType /\ request.ports \subseteq Ports
    BY DEF WellFormed, TypeOK, RequestType
  <2>5. working[k] \in NodeType
    BY <2>2, <2>3
  <2>6. [working[k] EXCEPT !.usedCPU = @ + request.cpu, !.usedRAM = @ + request.ram,
                           !.containers = @ + 1, !.ports = @ \cup request.ports] \in NodeType
    BY <2>4, <2>5, ChargedNode DEF RequestType
  <2>7. working' \in [1..Len(working) -> NodeType]
    BY <2>1, <2>2, <2>3, <2>6
  <2>8. working' \in Seq(NodeType) /\ DOMAIN working' = DOMAIN working
    <3>1. Len(working) \in Nat
      BY DEF WellFormed, TypeOK
    <3>2. QED
      BY <2>3, <2>7, <3>1
  <2>9. plan' \in Seq(DOMAIN pool)
    BY <2>1, <2>2 DEF WellFormed, TypeOK
  <2>10. short' \subseteq DOMAIN working
    <3>1. PICK i \in SelectNode(Candidates) : short' = short \/ short' = short \cup {i}
      BY <1>1 DEF Place
    <3>2. QED
      BY <3>1, Selected DEF WellFormed, TypeOK
  <2>11. QED
    BY <1>1, <2>8, <2>9, <2>10 DEF WellFormed, TypeOK, Place
<1>2. ASSUME Fail \/ Finish \/ Done \/ UNCHANGED vars PROVE WellFormed'
  BY <1>2 DEF Fail, Finish, Done, vars, WellFormed, TypeOK
<1>3. QED
  BY <1>1, <1>2 DEF Next

LEMMA WellFormedHolds == Spec => []WellFormed
<1>1. Init => WellFormed
  BY SchedulerAssumption DEF Init, WellFormed, TypeOK
<1>2. QED
  BY <1>1, WellFormedStep, PTL DEF Spec

\* Plan keeps its data well-formed; in particular every position it returns is one
\* of the pool (scheduler.go:57-83).
THEOREM TypeCorrect == Spec => []TypeOK
<1>1. WellFormed => TypeOK
  BY DEF WellFormed
<1>2. QED
  BY <1>1, WellFormedHolds, PTL

-----------------------------------------------------------------------------
(* The working copies are the pool with the plan charged to it. *)

\* How often i occurs in the sequence s.
Times(s, i) == Cardinality({r \in DOMAIN s : s[r] = i})

\* It is a number, and an element appended to s occurs once more.
LEMMA CountAppend ==
  ASSUME NEW S, NEW s \in Seq(S), NEW k \in S, NEW i
  PROVE  /\ Times(s, i) \in Nat
         /\ Times(Append(s, k), i) = IF i = k THEN Times(s, i) + 1 ELSE Times(s, i)
<1> DEFINE old == {r \in DOMAIN s : s[r] = i}
           new == {r \in DOMAIN Append(s, k) : Append(s, k)[r] = i}
<1>1. IsFiniteSet(old)
  <2>1. IsFiniteSet(1..Len(s))
    BY FS_Interval
  <2>2. QED
    BY <2>1, FS_Subset
<1>2. new = IF i = k THEN old \cup {Len(s) + 1} ELSE old
  OBVIOUS
<1>3. Len(s) + 1 \notin old
  OBVIOUS
<1>4. Cardinality(old) \in Nat
  BY <1>1, FS_CardinalityType
<1>5. Cardinality(old \cup {Len(s) + 1}) = Cardinality(old) + 1
  BY <1>1, <1>3, FS_AddElement
<1>6. QED
  BY <1>2, <1>4, <1>5 DEF Times

\* Node i carries its share of the plan, and if it has one, the share fits and the
\* node's ports are the request's too, which were free.
Charged(i) ==
  /\ working[i].status = pool[i].status
  /\ working[i].totalCPU = pool[i].totalCPU
  /\ working[i].totalRAM = pool[i].totalRAM
  /\ working[i].usedCPU = pool[i].usedCPU + Placed(i) * request.cpu
  /\ working[i].usedRAM = pool[i].usedRAM + Placed(i) * request.ram
  /\ IF Placed(i) = 0
       THEN working[i].ports = pool[i].ports
       ELSE /\ pool[i].status = "ALIVE"
            /\ working[i].usedCPU <= working[i].totalCPU
            /\ working[i].usedRAM <= working[i].totalRAM
            /\ request.ports \subseteq working[i].ports
            /\ request.ports # {} => Placed(i) = 1 /\ pool[i].ports \cap request.ports = {}

AllCharged == \A i \in DOMAIN pool : Charged(i)

\* What Place does to the plan and to the working copies, node by node.
LEMMA PlaceEffect ==
  ASSUME WellFormed, Place
  PROVE  \E k \in SelectNode(Candidates) : \A i \in DOMAIN pool :
           /\ Placed(i) \in Nat
           /\ Placed(i)' = IF i = k THEN Placed(i) + 1 ELSE Placed(i)
           /\ i # k => working'[i] = working[i]
           /\ i = k => /\ working'[i].status = working[i].status
                      /\ working'[i].totalCPU = working[i].totalCPU
                      /\ working'[i].totalRAM = working[i].totalRAM
                      /\ working'[i].usedCPU = working[i].usedCPU + request.cpu
                      /\ working'[i].usedRAM = working[i].usedRAM + request.ram
                      /\ working'[i].containers = working[i].containers + 1
                      /\ working'[i].ports = working[i].ports \cup request.ports
<1>1. PICK k \in SelectNode(Candidates) :
        /\ plan' = Append(plan, k)
        /\ working' = [working EXCEPT ![k].usedCPU = @ + request.cpu,
                                      ![k].usedRAM = @ + request.ram,
                                      ![k].containers = @ + 1,
                                      ![k].ports = @ \cup request.ports]
  BY DEF Place
<1>2. k \in DOMAIN pool
  BY <1>1, Selected DEF WellFormed
<1> SUFFICES ASSUME NEW i \in DOMAIN pool
             PROVE  /\ Placed(i) \in Nat
                    /\ Placed(i)' = IF i = k THEN Placed(i) + 1 ELSE Placed(i)
                    /\ i # k => working'[i] = working[i]
                    /\ i = k => /\ working'[i].status = working[i].status
                               /\ working'[i].totalCPU = working[i].totalCPU
                               /\ working'[i].totalRAM = working[i].totalRAM
                               /\ working'[i].usedCPU = working[i].usedCPU + request.cpu
                               /\ working'[i].usedRAM = working[i].usedRAM + request.ram
                               /\ working'[i].containers = working[i].containers + 1
                               /\ working'[i].ports = working[i].ports \cup request.ports
  OBVIOUS
<1>3. plan \in Seq(DOMAIN pool)
  BY DEF WellFormed, TypeOK
<1>4. Placed(i) = Times(plan, i) /\ Placed(i)' = Times(plan', i)
  BY DEF Placed, Times
<1>5. Placed(i) \in Nat /\ Placed(i)' = IF i = k THEN Placed(i) + 1 ELSE Placed(i)
  BY <1>1, <1>2, <1>3, <1>4, CountAppend
<1>6. CASE i # k
  BY <1>1, <1>5, <1>6 DEF WellFormed, TypeOK
<1>7. CASE i = k
  <2>1. working[i] \in NodeType
    BY DEF WellFormed, TypeOK
  <2>2. QED
    BY <1>1, <1>5, <1>7, <2>1 DEF WellFormed, TypeOK, NodeType
<1>8. QED
  BY <1>6, <1>7

\* Placing a replica charges exactly the node it is placed on.
LEMMA ChargedStep ==
  ASSUME WellFormed, AllCharged, [Next]_vars
  PROVE  AllCharged'
<1>1. ASSUME Place PROVE AllCharged'
  <2>1. PICK k \in SelectNode(Candidates) : \A i \in DOMAIN pool :
          /\ Placed(i) \in Nat
          /\ Placed(i)' = IF i = k THEN Placed(i) + 1 ELSE Placed(i)
          /\ i # k => working'[i] = working[i]
          /\ i = k => /\ working'[i].status = working[i].status
                     /\ working'[i].totalCPU = working[i].totalCPU
                     /\ working'[i].totalRAM = working[i].totalRAM
                     /\ working'[i].usedCPU = working[i].usedCPU + request.cpu
                     /\ working'[i].usedRAM = working[i].usedRAM + request.ram
                     /\ working'[i].ports = working[i].ports \cup request.ports
    BY <1>1, PlaceEffect
  <2>2. pool' = pool /\ request' = request
    BY <1>1 DEF Place
  <2>3. working[k].status = "ALIVE" /\ Fits(k)
    BY <2>1, Selected
  <2> SUFFICES ASSUME NEW i \in DOMAIN pool PROVE Charged(i)'
    BY <2>2 DEF AllCharged
  <2>4. Charged(i) /\ Placed(i) \in Nat
    BY <2>1 DEF AllCharged
  <2>5. /\ request.cpu \in Nat /\ request.ram \in Nat
        /\ pool[i] \in NodeType /\ working[i] \in NodeType
    BY DEF WellFormed, TypeOK, RequestType
  <2>6. CASE i # k
    BY <2>1, <2>2, <2>4, <2>6 DEF Charged
  <2>7. CASE i = k
    <3>1. Placed(i)' = Placed(i) + 1
      BY <2>1, <2>7
    <3>2. /\ (Placed(i) + 1) * request.cpu = Placed(i) * request.cpu + request.cpu
          /\ (Placed(i) + 1) * request.ram = Placed(i) * request.ram + request.ram
      BY <2>4, <2>5
    <3>3. /\ working'[i].usedCPU = pool[i].usedCPU + (Placed(i) + 1) * request.cpu
          /\ working'[i].usedRAM = pool[i].usedRAM + (Placed(i) + 1) * request.ram
      <4>1. /\ working'[i].usedCPU = working[i].usedCPU + request.cpu
            /\ working'[i].usedRAM = working[i].usedRAM + request.ram
        BY <2>1, <2>7
      <4>2. QED
        BY <2>4, <2>5, <3>2, <4>1 DEF Charged, NodeType
    <3>4. /\ working'[i].usedCPU <= working[i].totalCPU
          /\ working'[i].usedRAM <= working[i].totalRAM
      BY <2>1, <2>3, <2>5, <2>7 DEF Fits, AvailableCPU, AvailableRAM, NodeType
    <3>5. working[i].ports \cap request.ports = {}
      BY <2>3, <2>7 DEF Fits, portConflict
    <3>6. request.ports # {} => Placed(i) = 0 /\ pool[i].ports \cap request.ports = {}
      BY <2>4, <3>5 DEF Charged
    <3>7. pool[i].status = "ALIVE"
      BY <2>3, <2>4, <2>7 DEF Charged
    <3>8. QED
      BY <2>1, <2>2, <2>4, <2>7, <3>1, <3>3, <3>4, <3>6, <3>7 DEF Charged
  <2>8. QED
    BY <2>6, <2>7
<1>2. ASSUME Fail \/ Finish \/ Done \/ UNCHANGED vars PROVE AllCharged'
  <2>1. UNCHANGED <<pool, request, working, plan>>
    BY <1>2 DEF Fail, Finish, Done, vars
  <2>2. QED
    BY <2>1 DEF AllCharged, Charged, Placed
<1>3. QED
  BY <1>1, <1>2 DEF Next

LEMMA ChargedHolds == Spec => []AllCharged
<1>1. Init => AllCharged
  <2> SUFFICES ASSUME Init, NEW i \in DOMAIN pool PROVE Charged(i)
    BY DEF AllCharged
  <2>1. Placed(i) = 0
    <3>1. {r \in DOMAIN plan : plan[r] = i} = {}
      BY DEF Init
    <3>2. QED
      BY <3>1, FS_EmptySet DEF Placed
  <2>2. /\ pool[i] \in NodeType /\ working[i] = pool[i]
        /\ request.cpu \in Nat /\ request.ram \in Nat
    BY SchedulerAssumption DEF Init, RequestType
  <2>3. 0 * request.cpu = 0 /\ 0 * request.ram = 0
    BY <2>2
  <2>4. QED
    BY <2>1, <2>2, <2>3 DEF Charged, NodeType
<1>2. QED
  BY <1>1, ChargedStep, WellFormedHolds, PTL DEF Spec

\* No pool and no request let one call of Plan oversubscribe a node
\* (scheduler.go:24-28).
THEOREM NeverOversubscribed == Spec => []NoOversubscription
<1>1. WellFormed /\ AllCharged => NoOversubscription
  <2> SUFFICES ASSUME WellFormed, AllCharged, NEW i \in DOMAIN pool, Placed(i) > 0
               PROVE  /\ pool[i].status = "ALIVE"
                      /\ pool[i].usedCPU + Placed(i) * request.cpu <= pool[i].totalCPU
                      /\ pool[i].usedRAM + Placed(i) * request.ram <= pool[i].totalRAM
    BY DEF NoOversubscription
  <2>1. Charged(i) /\ Placed(i) # 0
    BY DEF AllCharged
  <2>2. QED
    BY <2>1 DEF Charged
<1>2. QED
  BY <1>1, WellFormedHolds, ChargedHolds, PTL

\* Nor bind one of the request's ports twice on a node (scheduler.go:97-98).
THEOREM PortsNeverShared == Spec => []PortsBoundOnce
<1>1. AllCharged => PortsBoundOnce
  <2> SUFFICES ASSUME AllCharged, request.ports # {}, NEW i \in DOMAIN pool, Placed(i) > 0
               PROVE  Placed(i) = 1 /\ pool[i].ports \cap request.ports = {}
    BY DEF PortsBoundOnce
  <2>1. Charged(i) /\ Placed(i) # 0
    BY DEF AllCharged
  <2>2. QED
    BY <2>1 DEF Charged
<1>2. QED
  BY <1>1, ChargedHolds, PTL

-----------------------------------------------------------------------------
(* Least Connections. *)

\* A node that can take another replica could before, and has not fewer
\* containers than the node selected.
LEMMA SpreadStep ==
  ASSUME WellFormed, SpreadEvenly, [Next]_vars
  PROVE  SpreadEvenly'
<1>1. ASSUME Place PROVE SpreadEvenly'
  <2>1. PICK k \in SelectNode(Candidates) : \A i \in DOMAIN pool :
          /\ Placed(i) \in Nat
          /\ Placed(i)' = IF i = k THEN Placed(i) + 1 ELSE Placed(i)
          /\ i # k => working'[i] = working[i]
          /\ i = k => working'[i].containers = working[i].containers + 1
    BY <1>1, PlaceEffect
  <2>2. pool' = pool /\ request' = request /\ balancer' = balancer
    BY <1>1 DEF Place
  <2>3. DOMAIN working' = DOMAIN pool /\ DOMAIN working = DOMAIN pool
    BY <2>2, WellFormedStep DEF WellFormed
  <2> SUFFICES ASSUME balancer = "leastconn", NEW i \in DOMAIN pool,
                      NEW j \in Candidates', Placed(i)' > 0
               PROVE  working'[i].containers <= working'[j].containers + 1
    BY <2>2 DEF SpreadEvenly
  <2>4. j \in DOMAIN pool
    BY <2>3 DEF Candidates, AliveNodes
  <2>5. j \in Candidates
    <3>1. CASE j = k
      BY <2>1, <3>1, Selected
    <3>2. CASE j # k
      <4>1. short \subseteq short'
        BY <1>1 DEF Place
      <4>2. QED
        BY <2>1, <2>2, <2>3, <2>4, <3>2, <4>1
           DEF Candidates, AliveNodes, Fits, AvailableCPU, AvailableRAM, portConflict
    <3>3. QED
      BY <3>1, <3>2
  <2>6. working[i].containers \in Nat /\ working[j].containers \in Nat
    <3>1. working[i] \in NodeType /\ working[j] \in NodeType
      BY <2>3, <2>4 DEF WellFormed, TypeOK
    <3>2. QED
      BY <3>1 DEF NodeType
  <2>7. CASE i = k
    <3>1. ~(working[j].containers < working[k].containers)
      BY <2>1, <2>5 DEF SelectNode, Prefers
    <3>2. QED
      BY <2>1, <2>4, <2>6, <2>7, <3>1
  <2>8. CASE i # k
    <3>1. Placed(i) > 0
      BY <2>1, <2>8
    <3>2. working[i].containers <= working[j].containers + 1
      BY <2>5, <3>1 DEF SpreadEvenly
    <3>3. QED
      BY <2>1, <2>4, <2>6, <2>8, <3>2
  <2>9. QED
    BY <2>7, <2>8
<1>2. ASSUME Fail \/ Finish \/ Done \/ UNCHANGED vars PROVE SpreadEvenly'
  BY <1>2 DEF Fail, Finish, Done, vars, SpreadEvenly, Placed, Candidates, AliveNodes,
              Fits, AvailableCPU, AvailableRAM, portConflict
<1>3. QED
  BY <1>1, <1>2 DEF Next

\* However many replicas a request has, Least Connections never puts one where a
\* node that is two containers behind could take it (leastconn.go:13-19).
THEOREM LeastConnectionsSpreads == Spec => []SpreadEvenly
<1>1. Init => SpreadEvenly
  <2> SUFFICES ASSUME Init, NEW i \in DOMAIN pool PROVE ~(Placed(i) > 0)
    BY DEF SpreadEvenly
  <2>1. {r \in DOMAIN plan : plan[r] = i} = {}
    BY DEF Init
  <2>2. Placed(i) = 0
    BY <2>1, FS_EmptySet DEF Placed
  <2>3. QED
    BY <2>2
<1>2. QED
  BY <1>1, SpreadStep, WellFormedHolds, PTL DEF Spec

-----------------------------------------------------------------------------
(* All or nothing. *)

\* The places that the plan has filled: the k-th replica on node i.
Filled == {x \in (DOMAIN pool) \X Nat : 1 <= x[2] /\ x[2] <= Placed(x[1])}

\* Every replica of the plan has filled one place.
FilledInv ==
  /\ IsFiniteSet(Filled)
  /\ Cardinality(Filled) = Len(plan)

\* A replica more fills one place more.
LEMMA FilledPlace ==
  ASSUME WellFormed, FilledInv, Place
  PROVE  FilledInv'
<1>1. PICK k \in SelectNode(Candidates) : \A i \in DOMAIN pool :
        Placed(i) \in Nat /\ Placed(i)' = IF i = k THEN Placed(i) + 1 ELSE Placed(i)
  BY PlaceEffect
<1>2. pool' = pool
  BY DEF Place
<1>3. k \in DOMAIN pool
  BY <1>1, Selected DEF WellFormed
<1>4. plan \in Seq(DOMAIN pool)
  BY DEF WellFormed, TypeOK
<1>5. Len(plan') = Len(plan) + 1
  BY <1>4 DEF Place
<1> DEFINE x == <<k, Placed(k) + 1>>
<1>6. x \notin Filled
  BY <1>1, <1>3 DEF Filled
<1>7. Filled' = Filled \cup {x}
  <2>1. ASSUME NEW y \in (DOMAIN pool) \X Nat
        PROVE  1 <= y[2] /\ y[2] <= Placed(y[1])' <=>
                 (1 <= y[2] /\ y[2] <= Placed(y[1])) \/ y = x
    <3>1. PICK i \in DOMAIN pool, j \in Nat : y = <<i, j>>
      BY <2>1
    <3>2. 1 <= j /\ j <= Placed(i)' <=> (1 <= j /\ j <= Placed(i)) \/ (i = k /\ j = Placed(k) + 1)
      BY <1>1, <3>1
    <3>3. y[1] = i /\ y[2] = j
      BY <3>1
    <3>4. y = x <=> i = k /\ j = Placed(k) + 1
      BY <3>1
    <3>5. QED
      BY <3>2, <3>3, <3>4
  <2>2. x \in (DOMAIN pool) \X Nat
    BY <1>1, <1>3
  <2>3. QED
    BY <1>2, <2>1, <2>2 DEF Filled
<1>8. IsFiniteSet(Filled') /\ Cardinality(Filled') = Cardinality(Filled) + 1
  <2>1. IsFiniteSet(Filled)
    BY DEF FilledInv
  <2>2. QED
    BY <1>6, <1>7, <2>1, FS_AddElement
<1>9. QED
  BY <1>5, <1>8 DEF FilledInv

LEMMA FilledStep ==
  ASSUME WellFormed, FilledInv, [Next]_vars
  PROVE  FilledInv'
<1>1. ASSUME Place PROVE FilledInv'
  BY <1>1, FilledPlace
<1>2. ASSUME Fail \/ Finish \/ Done \/ UNCHANGED vars PROVE FilledInv'
  <2>1. pool' = pool /\ plan' = plan
    BY <1>2 DEF Fail, Finish, Done, vars
  <2>2. Filled' = Filled
    BY <2>1 DEF Filled, Placed
  <2>3. QED
    BY <2>1, <2>2 DEF FilledInv
<1>3. QED
  BY <1>1, <1>2 DEF Next

LEMMA FilledHolds == Spec => []FilledInv
<1>1. Init => FilledInv
  <2> SUFFICES ASSUME Init PROVE FilledInv
    OBVIOUS
  <2>1. ASSUME NEW i \in DOMAIN pool PROVE Placed(i) = 0
    <3>1. {r \in DOMAIN plan : plan[r] = i} = {}
      BY DEF Init
    <3>2. QED
      BY <3>1, FS_EmptySet DEF Placed
  <2>2. Filled = {}
    BY <2>1 DEF Filled
  <2>3. Len(plan) = 0
    BY DEF Init
  <2>4. QED
    BY <2>2, <2>3, FS_EmptySet DEF FilledInv
<1>2. QED
  BY <1>1, FilledStep, WellFormedHolds, PTL DEF Spec

\* More replicas ask for more.
LEMMA MoreTakesMore ==
  ASSUME NEW a \in Nat, NEW b \in Nat, a <= b, NEW c \in Nat
  PROVE  a * c <= b * c
<1>1. PICK d \in Nat : b = a + d
  BY SMT
<1>2. b * c = a * c + d * c
  BY <1>1
<1>3. a * c \in Nat /\ d * c \in Nat
  OBVIOUS
<1>4. QED
  BY <1>2, <1>3

\* Where rounding has taken room from a node, it was doubtful.
ShortInv == \A i \in short : Doubtful(working[i])

\* A node that rounding has closed is not charged any more.
LEMMA ShortStep ==
  ASSUME WellFormed, ShortInv, [Next]_vars
  PROVE  ShortInv'
<1>1. ASSUME Place PROVE ShortInv'
  <2>1. PICK k \in SelectNode(Candidates) :
          /\ working' = [working EXCEPT ![k].usedCPU = @ + request.cpu,
                                        ![k].usedRAM = @ + request.ram,
                                        ![k].containers = @ + 1,
                                        ![k].ports = @ \cup request.ports]
          /\ short' = short \/ (Doubtful(working'[k]) /\ short' = short \cup {k})
    BY <1>1 DEF Place
  <2>2. k \notin short /\ request' = request
    BY <1>1, <2>1, Selected DEF Fits, Place
  <2>3. ASSUME NEW i \in short PROVE Doubtful(working'[i])
    <3>1. i \in DOMAIN working /\ i # k
      BY <2>2 DEF WellFormed, TypeOK
    <3>2. working'[i] = working[i]
      BY <2>1, <3>1
    <3>3. QED
      BY <3>2 DEF ShortInv
  <2>4. QED
    BY <2>1, <2>2, <2>3 DEF ShortInv, Doubtful
<1>2. ASSUME Fail \/ Finish \/ Done \/ UNCHANGED vars PROVE ShortInv'
  BY <1>2 DEF Fail, Finish, Done, vars, ShortInv, Doubtful
<1>3. QED
  BY <1>1, <1>2 DEF Next

LEMMA ShortHolds == Spec => []ShortInv
<1>1. Init => ShortInv
  BY DEF Init, ShortInv
<1>2. QED
  BY <1>1, ShortStep, WellFormedHolds, PTL DEF Spec

\* A place that is not filled is on a node that is still a candidate.
LEMMA OpenPlaceIsOffered ==
  ASSUME WellFormed, AllCharged, ShortInv, NEW i \in DOMAIN pool, NEW k \in Nat, Takes(i, k),
         Placed(i) \in Nat, Placed(i) < k
  PROVE  i \in Candidates
<1>1. Charged(i)
  BY DEF AllCharged
<1>2. /\ request.cpu \in Nat /\ request.ram \in Nat
      /\ pool[i] \in NodeType /\ working[i] \in NodeType /\ i \in DOMAIN working
  BY DEF WellFormed, TypeOK, RequestType
<1>3. /\ Placed(i) + 1 \in Nat /\ Placed(i) + 1 <= k
      /\ (Placed(i) + 1) * request.cpu = Placed(i) * request.cpu + request.cpu
      /\ (Placed(i) + 1) * request.ram = Placed(i) * request.ram + request.ram
  BY <1>2
<1>4. /\ Placed(i) * request.cpu + request.cpu <= k * request.cpu
      /\ Placed(i) * request.ram + request.ram <= k * request.ram
  <2>1. (Placed(i) + 1) * request.cpu <= k * request.cpu
    BY <1>2, <1>3, MoreTakesMore
  <2>2. (Placed(i) + 1) * request.ram <= k * request.ram
    BY <1>2, <1>3, MoreTakesMore
  <2>3. QED
    BY <1>3, <2>1, <2>2
<1>5. /\ Placed(i) * request.cpu \in Nat /\ k * request.cpu \in Nat
      /\ Placed(i) * request.ram \in Nat /\ k * request.ram \in Nat
  BY <1>2
<1>6. /\ pool[i].usedCPU + k * request.cpu <= pool[i].totalCPU
      /\ \/ pool[i].usedCPU + k * request.cpu < pool[i].totalCPU
         \/ pool[i].usedCPU + (k - 1) * request.cpu = 0
         \/ request.cpu = 0
  <2>1. (k - 1) * request.cpu + request.cpu = k * request.cpu
    <3>1. k - 1 \in Nat /\ k = (k - 1) + 1
      BY <1>3
    <3>2. ((k - 1) + 1) * request.cpu = (k - 1) * request.cpu + request.cpu
      BY <1>2, <3>1
    <3>3. QED
      BY <3>1, <3>2
  <2>2. (k - 1) * request.cpu \in Nat
    BY <1>2, <1>3
  <2> DEFINE bc == (k - 1) * request.cpu
             kc == k * request.cpu
  <2>3. \/ pool[i].usedCPU + bc + request.cpu < pool[i].totalCPU
        \/ /\ pool[i].usedCPU + bc + request.cpu = pool[i].totalCPU
           /\ pool[i].usedCPU + bc = 0 \/ request.cpu = 0
    BY DEF Takes, CPUFor
  <2>4. bc + request.cpu = kc /\ bc \in Nat
    BY <2>1, <2>2
  <2> HIDE DEF bc, kc
  <2>5. /\ pool[i].usedCPU + kc <= pool[i].totalCPU
        /\ \/ pool[i].usedCPU + kc < pool[i].totalCPU
           \/ pool[i].usedCPU + bc = 0
           \/ request.cpu = 0
    BY <1>2, <2>3, <2>4 DEF NodeType
  <2>6. QED
    BY <2>5 DEF bc, kc
<1>7. AvailableCPU(i) >= request.cpu /\ AvailableRAM(i) >= request.ram
  <2> DEFINE pc == Placed(i) * request.cpu
             kc == k * request.cpu
             pr == Placed(i) * request.ram
             kr == k * request.ram
  <2>1. /\ working[i].totalCPU = pool[i].totalCPU /\ working[i].totalRAM = pool[i].totalRAM
        /\ working[i].usedCPU = pool[i].usedCPU + pc /\ working[i].usedRAM = pool[i].usedRAM + pr
        /\ pool[i].usedCPU + kc <= pool[i].totalCPU /\ pool[i].usedRAM + kr <= pool[i].totalRAM
    BY <1>1, <1>6 DEF Charged, Takes
  <2>2. pc + request.cpu <= kc /\ pr + request.ram <= kr
        /\ pc \in Nat /\ kc \in Nat /\ pr \in Nat /\ kr \in Nat
    BY <1>4, <1>5
  <2> HIDE DEF pc, kc, pr, kr
  <2>3. QED
    BY <1>2, <2>1, <2>2 DEF AvailableCPU, AvailableRAM, NodeType
<1>8. i \notin short
  <2> SUFFICES ASSUME i \in short PROVE FALSE
    OBVIOUS
  <2> DEFINE pc == Placed(i) * request.cpu
             bc == (k - 1) * request.cpu
             kc == k * request.cpu
  <2>1. /\ request.cpu > 0 /\ working[i].usedCPU > 0
        /\ working[i].totalCPU - working[i].usedCPU = request.cpu
    BY DEF ShortInv, Doubtful
  <2>2. /\ working[i].totalCPU = pool[i].totalCPU
        /\ working[i].usedCPU = pool[i].usedCPU + pc
    BY <1>1 DEF Charged
  <2>3. /\ pc + request.cpu <= kc /\ pc \in Nat /\ kc \in Nat
    BY <1>4, <1>5
  <2>4. pc <= bc /\ bc \in Nat
    <3>1. k - 1 \in Nat /\ Placed(i) <= k - 1
      BY <1>3
    <3>2. QED
      BY <1>2, <3>1, MoreTakesMore
  <2>5. /\ pool[i].usedCPU + kc <= pool[i].totalCPU
        /\ \/ pool[i].usedCPU + kc < pool[i].totalCPU
           \/ pool[i].usedCPU + bc = 0
           \/ request.cpu = 0
    BY <1>6
  <2> HIDE DEF pc, bc, kc
  <2>6. QED
    BY <1>2, <2>1, <2>2, <2>3, <2>4, <2>5 DEF NodeType
<1>9. ~portConflict(i)
  <2>1. CASE request.ports = {}
    BY <2>1 DEF portConflict
  <2>2. CASE request.ports # {}
    <3>1. k = 1 /\ Placed(i) = 0
      BY <2>2 DEF Takes
    <3>2. QED
      BY <1>1, <3>1 DEF Charged, Takes, portConflict
  <2>3. QED
    BY <2>1, <2>2
<1>10. working[i].status = "ALIVE"
  BY <1>1 DEF Charged, Takes
<1>11. QED
  BY <1>2, <1>7, <1>8, <1>9, <1>10 DEF Candidates, AliveNodes, Fits

\* Where no node is a candidate, the plan has filled all the room there was.
LEMMA RoomFilled ==
  ASSUME WellFormed, AllCharged, ShortInv, FilledInv, Candidates = {}
  PROVE  Cardinality(Room) <= Len(plan)
<1>1. Room \subseteq Filled
  <2> SUFFICES ASSUME NEW x \in Room PROVE x \in Filled
    OBVIOUS
  <2>1. PICK i \in DOMAIN pool, k \in 1..request.n : x = <<i, k>> /\ Takes(i, k)
    BY DEF Room
  <2>2. k \in Nat /\ 1 <= k
    BY DEF WellFormed, TypeOK, RequestType
  <2>3. Placed(i) \in Nat
    <3>1. Placed(i) = Times(plan, i) /\ plan \in Seq(DOMAIN pool)
      BY DEF Placed, Times, WellFormed, TypeOK
    <3>2. QED
      BY <3>1, CountAppend
  <2>4. ~(Placed(i) < k)
    BY <2>1, <2>2, <2>3, OpenPlaceIsOffered
  <2>5. QED
    BY <2>1, <2>2, <2>3, <2>4 DEF Filled
<1>2. QED
  BY <1>1, FS_Subset DEF FilledInv

\* The room is a matter of the pool as it was found and of the request.
LEMMA RoomKept ==
  ASSUME UNCHANGED <<pool, request>>
  PROVE  Room' = Room
<1>1. ASSUME NEW i \in DOMAIN pool, NEW k \in 1..request.n PROVE Takes(i, k)' <=> Takes(i, k)
  <2>1. CPUFor(i, k)' <=> CPUFor(i, k)
    BY DEF CPUFor
  <2>2. QED
    BY <2>1 DEF Takes
<1>2. QED
  BY <1>1 DEF Room

\* What a failed plan says of the pool stays true: the pool does not change.
LEMMA NothingStep ==
  ASSUME WellFormed, AllCharged, ShortInv, FilledInv, AllOrNothing, [Next]_vars
  PROVE  AllOrNothing'
<1>1. ASSUME Place PROVE AllOrNothing'
  BY <1>1 DEF Place, AllOrNothing
<1>2. ASSUME Fail PROVE AllOrNothing'
  <2>1. outcome' = "failed" /\ Room' = Room /\ request' = request /\ plan' = plan
    <3>1. UNCHANGED <<pool, request, plan>> /\ outcome' = "failed"
      BY <1>2 DEF Fail
    <3>2. QED
      BY <3>1, RoomKept
  <2>2. Cardinality(Room) <= Len(plan) /\ Len(plan) < request.n
    BY <1>2, RoomFilled DEF Fail
  <2>3. Len(plan) \in Nat /\ request.n \in Nat /\ Cardinality(Room) \in Nat
    <3>1. request.n \in Nat /\ plan \in Seq(DOMAIN pool) /\ pool \in Seq(NodeType)
      BY DEF WellFormed, TypeOK, RequestType
    <3>2. IsFiniteSet((DOMAIN pool) \X (1..request.n))
      <4>1. IsFiniteSet(1..Len(pool)) /\ IsFiniteSet(1..request.n) /\ DOMAIN pool = 1..Len(pool)
        BY <3>1, FS_Interval
      <4>2. QED
        BY <4>1, FS_Product
    <3>3. IsFiniteSet(Room)
      BY <3>2, FS_Subset DEF Room
    <3>4. QED
      BY <3>1, <3>3, FS_CardinalityType
  <2>4. QED
    BY <2>1, <2>2, <2>3 DEF AllOrNothing
<1>3. ASSUME Finish \/ Done \/ UNCHANGED vars PROVE AllOrNothing'
  <2>1. UNCHANGED <<pool, request, plan>> /\ outcome' \in {outcome, "planned"}
    BY <1>3 DEF Finish, Done, vars
  <2>2. Room' = Room
    BY <2>1, RoomKept
  <2>3. outcome' = "planned" => Len(plan) = request.n
    BY <1>3 DEF Finish, Done, vars, AllOrNothing
  <2>4. QED
    BY <2>1, <2>2, <2>3 DEF AllOrNothing
<1>4. QED
  BY <1>1, <1>2, <1>3 DEF Next

\* Plan places the replicas greedily, one by one, and gives up at the first that no node can
\* take.  Nevertheless it fails only when no placement would do for certain: the pool had fewer
\* places than replicas were asked for, where a place that would use up the last of a node's
\* CPU is counted only if the code's float64 arithmetic is exact there (scheduler.go:57-82).
THEOREM NothingForAReason == Spec => []AllOrNothing
<1>1. Init => AllOrNothing
  BY DEF Init, AllOrNothing
<1>2. QED
  BY <1>1, NothingStep, WellFormedHolds, ChargedHolds, ShortHolds, FilledHolds, PTL DEF Spec
=============================================================================
