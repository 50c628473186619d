---------------------- MODULE ContainerLifecycleProofs ----------------------
(***************************************************************************)
(* Theorems of ContainerLifecycle, for any workers and services, any       *)
(* number of replicas and deaths.  The inductive invariant is built in     *)
(* layers, and each theorem rests on the layers it needs:                  *)
(*   TypeInv     what each goroutine has in hand where it stands;          *)
(*   PlansAlive  plans that are carried out use ALIVE nodes;               *)
(*   ListedInv   what a late kill still has to stop;                       *)
(*   StartedInv  what is going to be recorded as RUNNING was started;      *)
(*   HandsInv    who may have a container of each status in hand;          *)
(*   CountInv    how many records and hands make up a service's replicas;  *)
(*   DockerInv   what runs on ALIVE nodes, and who knows of it, as long as *)
(*               no service is deleted.                                    *)
(* How often a replica runs, deletions included, is the subject of         *)
(* ContainerCopiesProofs.                                                  *)
(* The hypotheses on Faults say which disturbances a theorem excludes;     *)
(* every theorem holds whatever commands fail.                             *)
(***************************************************************************)
EXTENDS ContainerLifecycle, FiniteSetTheorems, WellFoundedInduction, TLAPS

MaybeNodes == Nodes \cup {None}

RecordForms == [st : Statuses, node : MaybeNodes]

CreatePCs == {"new", "plan", "pending", "add", "start", "record", "done"}

Creates == [pc : CreatePCs, i : 0..Replicas, plan : [1..Replicas -> Nodes] \cup {NoPlan},
            cur : MaybeContainers, out : Outcomes]

Deletes == [pc : {"idle", "kill", "stop", "done"},
            todo : SUBSET (Containers \X MaybeNodes), cur : MaybeContainers]

Recoveries == [pc : {"idle", "list", "next", "plan", "start", "record", "add"},
               node : MaybeNodes, todo : SUBSET Containers,
               cur : MaybeContainers, new : MaybeContainers, out : Outcomes]

Retries == [pc : {"idle", "group", "start", "record"}, todo : SUBSET Containers,
            plan : UNION {[D -> Nodes] : D \in SUBSET Containers},
            cur : MaybeContainers, out : Outcomes]

Kills == [pc : {"off", "kill", "list", "stop"}, todo : SUBSET Containers]

\* Where the handler of createService stands says what it has in hand.
CreateForm(s) ==
  /\ create[s].pc \in {"new", "plan"} => create[s].i = 0
  /\ create[s].pc = "pending" => create[s].i < Replicas
  /\ create[s].pc = "done" => create[s].i = Replicas
  /\ create[s].pc \in {"add", "start", "record"} =>
       create[s].i \in 1..Replicas /\ create[s].plan \in [1..Replicas -> Nodes]
  /\ create[s].pc \in {"start", "record"} =>
       create[s].cur \in Containers /\ SvcOf(create[s].cur) = s

\* A deletion works on records of its own service.
DeleteForm(s) ==
  /\ \A x \in delete[s].todo : SvcOf(x[1]) = s
  /\ delete[s].pc = "stop" => delete[s].cur \in Containers /\ SvcOf(delete[s].cur) = s

\* A recovery has a replacement in hand from its plan until it is recorded or has failed.
RecoveryForm ==
  /\ recovery.pc \in {"idle", "list"} => recovery.todo = {}
  /\ recovery.pc = "list" => recovery.node \in Nodes
  /\ recovery.pc \in {"plan", "start", "record", "add"} => recovery.cur \in Containers
  /\ recovery.pc \in {"start", "add"} \/ (recovery.pc = "record" /\ recovery.out = "ok")
       => /\ recovery.new \in Containers
          /\ SvcOf(recovery.new) = SvcOf(recovery.cur)
          /\ recovery.node \in Nodes
  /\ recovery.pc \in {"idle", "list", "next", "plan"} => recovery.new = None
  /\ recovery.pc = "record" /\ recovery.out # "ok" => recovery.new = None

RetryForm ==
  /\ retry.pc \in {"idle", "group"} => DOMAIN retry.plan = {}
  /\ retry.pc = "record" => retry.cur \in DOMAIN retry.plan

\* A goroutine of HandleLateHeartbeat works on a DEAD node.
KillForm(n) == kill[n].pc # "off" => status[n] = "DEAD"

\* What abandoned kills there can be.
OrphanSets == SUBSET (Nodes \X SUBSET Services)

TypeInv ==
  /\ status \in [Nodes -> {"ALIVE", "DEAD"}]
  /\ services \subseteq Services
  /\ rec \in [Containers -> RecordForms]
  /\ docker \in [Nodes -> [Containers -> Nat]]
  /\ late \subseteq Nodes \X Containers
  /\ orphans \in OrphanSets
  /\ deaths \in 0..MaxDeaths
  /\ create \in [Services -> Creates]
  /\ delete \in [Services -> Deletes]
  /\ recovery \in Recoveries
  /\ retry \in Retries
  /\ kill \in [Nodes -> Kills]
  /\ \A s \in Services : CreateForm(s) /\ DeleteForm(s)
  /\ RecoveryForm /\ RetryForm
  /\ \A n \in Nodes : KillForm(n)

\* Plans that are carried out use nodes that are ALIVE.
PlansAlive ==
  /\ \A s \in Services : create[s].pc \in {"add", "start", "record"} =>
       \A i \in create[s].i..Replicas : create[s].plan[i] \in Alive
  /\ \A c \in DOMAIN retry.plan : retry.plan[c] \in Alive
  /\ recovery.new # None => recovery.node \in Alive

\* What a DEAD node is recorded to run is listed until it is stopped.
RunningListed(n) ==
  kill[n].pc = "stop" =>
    \A c \in Containers : rec[c].st = "RUNNING" /\ rec[c].node = n => c \in kill[n].todo

ListedInv == \A n \in Nodes : RunningListed(n)

Kept(s) == delete[s].pc = "idle"

\* What is going to be recorded as RUNNING has been started.
CreateStarted(s) ==
  create[s].pc = "record" /\ create[s].out = "ok" /\ Kept(s) =>
    docker[create[s].plan[create[s].i]][create[s].cur] > 0

RetryStarted ==
  retry.pc = "record" /\ retry.out = "ok" /\ Kept(SvcOf(retry.cur)) =>
    docker[retry.plan[retry.cur]][retry.cur] > 0

RecoveryStarted ==
  recovery.pc \in {"record", "add"} /\ recovery.new # None /\ Kept(SvcOf(recovery.new)) =>
    docker[recovery.node][recovery.new] > 0

\* Abandoned kills are of services that are deleted, or of all on a returning node.
OrphansDeleted ==
  "overdue" \in Faults \/ \A x \in orphans : \A s \in x[2] : ~ Kept(s)

StartedInv ==
  /\ RunningIsStarted
  /\ \A s \in Services : CreateStarted(s)
  /\ RetryStarted
  /\ RecoveryStarted

\* The replicas that a recovery has still to see to.
ToRecover == recovery.todo \cup
  (IF recovery.pc \in {"plan", "start", "record"} THEN {recovery.cur} ELSE {})

\* A container is SCHEDULED as long as createService is starting it.
InCreation(c) ==
  /\ rec[c].st # "NONE" => SvcOf(c) \in services
  /\ rec[c].st = "SCHEDULED" <=>
       create[SvcOf(c)].pc \in {"start", "record"} /\ create[SvcOf(c)].cur = c
  /\ rec[c].st = "SCHEDULED" => rec[c].node = create[SvcOf(c)].plan[create[SvcOf(c)].i]

\* A container is RESCHEDULING as long as a recovery looks for a replacement, and one
\* that is RUNNING on a dead node waits for a recovery.
InRecovery(c) ==
  /\ rec[c].st = "RESCHEDULING" =>
       recovery.pc \in {"plan", "start", "record"} /\ recovery.cur = c
  /\ rec[c].st = "RUNNING" =>
       /\ rec[c].node \in Nodes
       /\ \/ rec[c].node \in Alive
          \/ recovery.pc = "list" /\ recovery.node = rec[c].node
          \/ c \in recovery.todo
  /\ c \in recovery.todo => /\ rec[c].st \in {"RUNNING", "STOPPED"}
                            /\ rec[c].st = "RUNNING" => rec[c].node \notin Alive
  /\ recovery.cur = c =>
       /\ recovery.pc \in {"plan", "start", "record"} => rec[c].st \in {"RESCHEDULING", "STOPPED"}
       /\ recovery.pc = "add" => rec[c].st = "STOPPED"
       /\ recovery.pc \in {"plan", "start", "record", "add"} => c \notin recovery.todo
  /\ recovery.new = c => rec[c].st = "NONE"

\* The retry loop works on what is PENDING.
InRetry(c) ==
  /\ c \in retry.todo \cup DOMAIN retry.plan => rec[c].st = "PENDING"
  /\ c \in retry.todo => c \notin DOMAIN retry.plan

\* Late kills stop what a recovery has still to see to.
InKill(c) ==
  \A n \in Nodes : c \in kill[n].todo => c \in ToRecover /\ kill[n].pc = "stop"

\* A replica that counts: its record does, or a recovery has it in hand.
Holds(c) ==
  \/ rec[c].st \notin {"NONE", "STOPPED"}
  \/ rec[c].st = "STOPPED" /\ c \in ToRecover
  \/ recovery.pc = "add" /\ recovery.cur = c

Holders(s) == {c \in Containers : SvcOf(c) = s /\ Holds(c)}

\* How many replicas createService has recorded.
Made(s) == IF create[s].pc = "add" THEN create[s].i - 1 ELSE create[s].i

\* The goroutine of HandleLateHeartbeat waits until the recovery has listed its node.
ListedDead ==
  recovery.pc = "list" => recovery.node \notin Alive /\ kill[recovery.node].pc # "stop"

HandsInv ==
  /\ ListedDead
  /\ \A s \in Services : Kept(s) /\ create[s].pc # "new" => s \in services
  /\ \A c \in Containers :
       Kept(SvcOf(c)) => InCreation(c) /\ InRecovery(c) /\ InRetry(c) /\ InKill(c)

\* No replica is lost on the way.
CountInv == \A s \in Services : Kept(s) => Cardinality(Holders(s)) = Made(s)

\* What runs on an alive node is in a record, or about to be.
Known(n, c) ==
  \/ rec[c].st = "RUNNING" /\ rec[c].node = n
  \/ /\ create[SvcOf(c)].pc = "record" /\ create[SvcOf(c)].out = "ok"
     /\ create[SvcOf(c)].cur = c
     /\ create[SvcOf(c)].plan[create[SvcOf(c)].i] = n
  \/ recovery.pc \in {"record", "add"} /\ recovery.new = c /\ recovery.node = n
  \/ retry.pc = "record" /\ retry.out = "ok" /\ retry.cur = c /\ retry.plan[c] = n

\* At most one container, and only where it is known.
OneKnown(n, c) == docker[n][c] = 0 \/ (docker[n][c] = 1 /\ Known(n, c))

\* A node that comes back has been emptied.
Emptied(n) == kill[n].pc \in {"list", "stop"} => \A c \in Containers : docker[n][c] = 0

DockerInv ==
  /\ late = {}
  /\ \A s \in Services : Kept(s)
  /\ \A n \in Alive, c \in Containers : OneKnown(n, c)
  /\ \A n \in Nodes : Emptied(n)

StartedAll == TypeInv /\ PlansAlive /\ ListedInv /\ StartedInv /\ OrphansDeleted
TrackedAll == TypeInv /\ PlansAlive /\ ListedInv /\ HandsInv /\ CountInv
DockerAll == TrackedAll /\ DockerInv

-----------------------------------------------------------------------------
(* IDs, records and workers. *)

\* A set of numbers that is not empty has a least one.
LEMMA Least ==
  ASSUME NEW S \in SUBSET Nat, S # {}
  PROVE  \E x \in S : \A y \in S : x <= y
<1> DEFINE T == {0..x : x \in S}
<1>1. T \subseteq FiniteSubsetsOf(Nat)
  <2>1. \A x \in Nat : IsFiniteSet(0..x) /\ 0..x \subseteq Nat
    BY FS_Interval
  <2> QED
    BY <2>1 DEF FiniteSubsetsOf
<1>2. PICK X \in T : \A Y \in T : ~ (<<Y, X>> \in StrictSubsetOrdering(Nat))
  <2>1. T # {}
    OBVIOUS
  <2> HIDE DEF T
  <2> QED
    BY <1>1, <2>1, WFMin, FS_StrictSubsetOrderingWellFounded
<1>3. PICK x \in S : X = 0..x
  OBVIOUS
<1>4. ASSUME NEW y \in S, y < x PROVE FALSE
  <2>1. 0..y \subseteq 0..x /\ x \in 0..x /\ x \notin 0..y
    BY <1>4
  <2>2. <<0..y, 0..x>> \in StrictSubsetOrdering(Nat)
    BY <2>1 DEF StrictSubsetOrdering
  <2> QED
    BY <1>2, <1>3, <2>2
<1> QED
  BY <1>4

\* There is a fresh ID as long as one is unused.
LEMMA FreshUnused ==
  ASSUME NEW s \in Services, Unused(s) # {}
  PROVE  Fresh(s) \in Unused(s)
<1> DEFINE S == {c[2] : c \in Unused(s)}
<1>1. \A c \in Unused(s) : c[2] \in Nat
  BY DEF Unused, Containers
<1>2. PICK x \in S : \A y \in S : x <= y
  <2>1. S \in SUBSET Nat /\ S # {}
    BY <1>1
  <2> HIDE DEF S
  <2> QED
    BY <2>1, Least
<1>3. PICK c \in Unused(s) : x = c[2]
  OBVIOUS
<1>4. \A d \in Unused(s) : c[2] <= d[2]
  BY <1>2, <1>3
<1> HIDE DEF S
<1> QED
  BY <1>4 DEF Fresh

\* What the constants are.
LEMMA Constants ==
  /\ Replicas \in Nat /\ 1 <= Replicas
  /\ MaxRecords \in Nat /\ MaxDeaths \in Nat
  /\ None \notin Nodes /\ None \notin Containers
  /\ "ok" \in Outcomes /\ "err" \in Outcomes
BY ContainerAssumption DEF ContainerAssumption, Containers, Outcomes

\* An ID belongs to a service.
LEMMA ServiceOf ==
  ASSUME NEW c \in Containers
  PROVE  SvcOf(c) \in Services
BY DEF Containers, SvcOf

\* An unused ID has no record and is not in the hands of the recovery.
LEMMA FreshForm ==
  ASSUME NEW s \in Services, Unused(s) # {}
  PROVE  /\ Fresh(s) \in Containers /\ SvcOf(Fresh(s)) = s
         /\ rec[Fresh(s)].st = "NONE" /\ recovery.new # Fresh(s)
BY FreshUnused DEF Unused

\* AddContainer writes one record (state.go).
LEMMA RecordAdded ==
  ASSUME TypeInv, NEW c \in Containers, NEW n \in MaybeNodes, NEW st \in Statuses,
         AddContainer(c, n, st)
  PROVE  /\ rec' \in [Containers -> RecordForms]
         /\ rec'[c] = [st |-> st, node |-> n]
         /\ \A d \in Containers : d # c => rec'[d] = rec[d]
BY DEF TypeInv, AddContainer, RecordForms

\* What AddContainer writes.
LEMMA AddedStatus ==
  ASSUME TypeInv, NEW c \in Containers, NEW n \in MaybeNodes, NEW st \in Statuses,
         AddContainer(c, n, st)
  PROVE  rec'[c].st = st /\ rec'[c].node = n
<1>1. rec'[c] = [st |-> st, node |-> n]
  BY DEF TypeInv, AddContainer
<1> QED
  BY <1>1

\* SetContainerStatus changes one record, if there is one.
LEMMA RecordSet ==
  ASSUME TypeInv, NEW c \in Containers, NEW st \in Statuses, SetContainerStatus(c, st)
  PROVE  /\ rec' \in [Containers -> RecordForms]
         /\ rec'[c].st = IF rec[c].st = "NONE" THEN "NONE" ELSE st
         /\ rec'[c].node = rec[c].node
         /\ \A d \in Containers : d # c => rec'[d] = rec[d]
<1>1. rec \in [Containers -> RecordForms] /\ rec[c] \in RecordForms
  BY DEF TypeInv
<1>2. PICK r : r = [rec[c] EXCEPT !.st = IF @ = "NONE" THEN "NONE" ELSE st]
  OBVIOUS
<1>3. /\ r \in RecordForms /\ r.node = rec[c].node
      /\ r.st = IF rec[c].st = "NONE" THEN "NONE" ELSE st
  BY <1>1, <1>2 DEF RecordForms, Statuses
<1>4. rec' = [rec EXCEPT ![c] = r]
  BY <1>1, <1>2 DEF SetContainerStatus
<1> QED
  BY <1>1, <1>3, <1>4

\* StartContainer on a worker.
LEMMA DockerStarted ==
  ASSUME TypeInv, NEW n \in Nodes, NEW c \in Containers, NEW out \in Outcomes,
         StartContainer(n, c, out)
  PROVE  /\ docker' \in [Nodes -> [Containers -> Nat]]
         /\ late' \subseteq Nodes \X Containers
         /\ orphans' = orphans
         /\ \A m \in Nodes, d \in Containers :
              docker'[m][d] = IF out = "ok" /\ m = n /\ d = c THEN docker[m][d] + 1
                                                              ELSE docker[m][d]
         /\ "timeout" \notin Faults => late' = late
<1>1. docker \in [Nodes -> [Containers -> Nat]] /\ late \subseteq Nodes \X Containers
  BY DEF TypeInv
<1>2. orphans' = orphans
  BY DEF StartContainer, workers
<1>3. CASE out = "ok" /\ docker' = [docker EXCEPT ![n][c] = @ + 1] /\ late' = late
  <2>1. PICK D : D = [docker[n] EXCEPT ![c] = @ + 1]
    OBVIOUS
  <2>2. /\ D \in [Containers -> Nat] /\ D[c] = docker[n][c] + 1
        /\ \A d \in Containers : d # c => D[d] = docker[n][d]
    BY <1>1, <2>1
  <2>3. docker' = [docker EXCEPT ![n] = D]
    BY <1>1, <1>3, <2>1
  <2> QED
    BY <1>1, <1>2, <1>3, <2>2, <2>3
<1>4. CASE out # "ok" /\ docker' = docker
           /\ (late' = late \/ ("timeout" \in Faults /\ late' = late \cup {<<n, c>>}))
  BY <1>1, <1>2, <1>4
<1> QED
  BY <1>3, <1>4 DEF StartContainer, workers

\* A KillContainers that nobody waits for.
LEMMA KillAbandoned ==
  ASSUME orphans \in OrphanSets, NEW n \in Nodes, NEW ss \in SUBSET Services,
         AbandonKill(n, ss)
  PROVE  docker' = docker /\ orphans' \in OrphanSets
BY DEF AbandonKill, OrphanSets

\* Abandoned kills that are carried out, or that go with their worker.
LEMMA OrphansLeft ==
  ASSUME orphans \in OrphanSets, orphans' \subseteq orphans
  PROVE  orphans' \in OrphanSets
BY DEF OrphanSets

\* The containers of some services are removed from a worker.
LEMMA DockerRemoved ==
  ASSUME TypeInv, NEW n \in Nodes, NEW ss, RemoveDocker(n, ss)
  PROVE  /\ docker' \in [Nodes -> [Containers -> Nat]]
         /\ \A m \in Nodes, d \in Containers :
              docker'[m][d] = IF m = n /\ SvcOf(d) \in ss THEN 0 ELSE docker[m][d]
<1>1. docker \in [Nodes -> [Containers -> Nat]]
  BY DEF TypeInv
<1>2. PICK D : D = [c \in Containers |-> IF SvcOf(c) \in ss THEN 0 ELSE docker[n][c]]
  OBVIOUS
<1>3. D \in [Containers -> Nat]
  BY <1>1, <1>2
<1>4. docker' = [docker EXCEPT ![n] = D]
  BY <1>1, <1>2 DEF RemoveDocker
<1> QED
  BY <1>1, <1>2, <1>3, <1>4

-----------------------------------------------------------------------------
(* What the steps of the goroutines do to what they have in hand. *)

\* The handler of service s goes on as h, the other handlers stay where they are.
CreateGoes(s, h) ==
  /\ h \in Creates
  /\ create' = [create EXCEPT ![s] = h]

\* createService (server.go).
LEMMA CreateSteps ==
  ASSUME TypeInv, NEW s \in Services
  PROVE  /\ AddService(s) => \E h : /\ CreateGoes(s, h) /\ h.pc = "plan" /\ h.i = 0
                                    /\ h.plan = create[s].plan
         /\ CreatePlan(s) =>
              \E h : /\ CreateGoes(s, h)
                     /\ \/ h.pc = "pending" /\ h.i = 0
                        \/ /\ h.pc = "add" /\ h.i = 1
                           /\ h.plan \in [1..Replicas -> Alive]
         /\ CreatePending(s) =>
              \E h : /\ CreateGoes(s, h) /\ h.i = create[s].i + 1
                     /\ h.pc = IF h.i = Replicas THEN "done" ELSE "pending"
         /\ CreateAdd(s) =>
              \E h : /\ CreateGoes(s, h) /\ h.pc = "start" /\ h.cur = Fresh(s)
                     /\ h.i = create[s].i /\ h.plan = create[s].plan
         /\ CreateRecord(s) =>
              \E h : /\ CreateGoes(s, h)
                     /\ \/ h.pc = "done" /\ h.i = create[s].i /\ h.i = Replicas
                        \/ /\ h.pc = "add" /\ h.i = create[s].i + 1 /\ h.i <= Replicas
                           /\ h.plan = create[s].plan
<1>1. create \in [Services -> Creates] /\ create[s] \in Creates /\ CreateForm(s)
  BY DEF TypeInv
<1>2. Replicas \in Nat /\ 1 <= Replicas
  BY Constants
<1>3. create[s].i \in 0..Replicas
  BY <1>1 DEF Creates
<1>4. ASSUME AddService(s)
      PROVE  \E h : /\ CreateGoes(s, h) /\ h.pc = "plan" /\ h.i = 0 /\ h.plan = create[s].plan
  <2>1. PICK h : h = [create[s] EXCEPT !.pc = "plan"]
    OBVIOUS
  <2>2. h \in Creates /\ h.pc = "plan" /\ h.i = create[s].i /\ h.plan = create[s].plan
    BY <1>1, <2>1 DEF Creates, CreatePCs
  <2>3. create' = [create EXCEPT ![s] = h] /\ create[s].i = 0
    BY <1>1, <1>4, <2>1 DEF AddService, CreateForm
  <2> QED
    BY <2>2, <2>3 DEF CreateGoes
<1>5. ASSUME CreatePlan(s)
      PROVE  \E h : /\ CreateGoes(s, h)
                    /\ \/ h.pc = "pending" /\ h.i = 0
                       \/ h.pc = "add" /\ h.i = 1 /\ h.plan \in [1..Replicas -> Alive]
  <2>1. create[s].i = 0
    BY <1>1, <1>5 DEF CreatePlan, CreateForm
  <2>2. CASE create' = [create EXCEPT ![s].pc = "pending"]
    <3>1. PICK h : h = [create[s] EXCEPT !.pc = "pending"]
      OBVIOUS
    <3>2. h \in Creates /\ h.pc = "pending" /\ h.i = 0
      BY <1>1, <2>1, <3>1 DEF Creates, CreatePCs
    <3>3. create' = [create EXCEPT ![s] = h]
      BY <1>1, <2>2, <3>1
    <3> QED
      BY <3>2, <3>3 DEF CreateGoes
  <2>3. ASSUME NEW plan \in [1..Replicas -> Alive],
               create' = [create EXCEPT ![s].pc = "add", ![s].i = 1, ![s].plan = plan]
        PROVE  \E h : /\ CreateGoes(s, h)
                      /\ h.pc = "add" /\ h.i = 1 /\ h.plan \in [1..Replicas -> Alive]
    <3>1. PICK h : h = [create[s] EXCEPT !.pc = "add", !.i = 1, !.plan = plan]
      OBVIOUS
    <3>2. plan \in [1..Replicas -> Nodes] /\ 1 \in 0..Replicas
      BY <1>2 DEF Alive
    <3>3. h \in Creates /\ h.pc = "add" /\ h.i = 1 /\ h.plan = plan
      BY <1>1, <3>1, <3>2 DEF Creates, CreatePCs
    <3>4. create' = [create EXCEPT ![s] = h]
      BY <1>1, <2>3, <3>1
    <3> QED
      BY <3>3, <3>4 DEF CreateGoes
  <2> QED
    BY <1>5, <2>2, <2>3 DEF CreatePlan
<1>6. ASSUME CreatePending(s)
      PROVE  \E h : /\ CreateGoes(s, h) /\ h.i = create[s].i + 1
                    /\ h.pc = IF h.i = Replicas THEN "done" ELSE "pending"
  <2>1. create[s].pc = "pending" /\ create[s].i < Replicas
    BY <1>1, <1>6 DEF CreatePending, CreateForm
  <2>2. PICK j, pc : /\ j = create[s].i + 1
                     /\ pc = IF j = Replicas THEN "done" ELSE "pending"
    OBVIOUS
  <2>3. j \in 0..Replicas /\ pc \in CreatePCs
    BY <1>2, <1>3, <2>1, <2>2 DEF CreatePCs
  <2>4. PICK h : h = [create[s] EXCEPT !.i = j, !.pc = pc]
    OBVIOUS
  <2>5. h \in Creates /\ h.i = j /\ h.pc = pc
    BY <1>1, <2>3, <2>4 DEF Creates
  <2>6. create' = [create EXCEPT ![s] = h]
    BY <1>1, <1>6, <2>1, <2>2, <2>4 DEF CreatePending
  <2> QED
    BY <2>2, <2>5, <2>6 DEF CreateGoes
<1>7. ASSUME CreateAdd(s)
      PROVE  \E h : /\ CreateGoes(s, h) /\ h.pc = "start" /\ h.cur = Fresh(s)
                    /\ h.i = create[s].i /\ h.plan = create[s].plan
  <2>1. Fresh(s) \in Containers
    BY <1>7, FreshForm DEF CreateAdd
  <2>2. PICK h : h = [create[s] EXCEPT !.pc = "start", !.cur = Fresh(s)]
    OBVIOUS
  <2>3. /\ h \in Creates /\ h.pc = "start" /\ h.cur = Fresh(s)
        /\ h.i = create[s].i /\ h.plan = create[s].plan
    BY <1>1, <2>1, <2>2 DEF Creates, CreatePCs, MaybeContainers
  <2>4. create' = [create EXCEPT ![s] = h]
    BY <1>1, <1>7, <2>2 DEF CreateAdd
  <2> QED
    BY <2>3, <2>4 DEF CreateGoes
<1>8. ASSUME CreateRecord(s)
      PROVE  \E h : /\ CreateGoes(s, h)
                    /\ \/ h.pc = "done" /\ h.i = create[s].i /\ h.i = Replicas
                       \/ /\ h.pc = "add" /\ h.i = create[s].i + 1 /\ h.i <= Replicas
                          /\ h.plan = create[s].plan
  <2>1. CASE create[s].i = Replicas
    <3>1. PICK h : h = [create[s] EXCEPT !.pc = "done", !.plan = NoPlan, !.out = "ok"]
      OBVIOUS
    <3>2. h \in Creates /\ h.pc = "done" /\ h.i = create[s].i
      BY <1>1, <3>1, Constants DEF Creates, CreatePCs
    <3>3. create' = [create EXCEPT ![s] = h]
      BY <1>1, <1>8, <2>1, <3>1 DEF CreateRecord
    <3> QED
      BY <2>1, <3>2, <3>3 DEF CreateGoes
  <2>2. CASE create[s].i # Replicas
    <3>1. PICK j : j = create[s].i + 1
      OBVIOUS
    <3>2. j \in 0..Replicas /\ j <= Replicas
      BY <1>2, <1>3, <2>2, <3>1
    <3>3. PICK h : h = [create[s] EXCEPT !.pc = "add", !.i = @ + 1, !.out = "ok"]
      OBVIOUS
    <3>4. h \in Creates /\ h.pc = "add" /\ h.i = j /\ h.plan = create[s].plan
      BY <1>1, <3>1, <3>2, <3>3, Constants DEF Creates, CreatePCs
    <3>5. create' = [create EXCEPT ![s] = h]
      BY <1>1, <1>8, <2>2, <3>3 DEF CreateRecord
    <3> QED
      BY <3>1, <3>2, <3>4, <3>5 DEF CreateGoes
  <2> QED
    BY <2>1, <2>2
<1> QED
  BY <1>4, <1>5, <1>6, <1>7, <1>8

\* The start of createService, with its outcome.
LEMMA CreateStartStep ==
  ASSUME TypeInv, NEW s \in Services, CreateStart(s)
  PROVE  \E h \in Creates, out \in Outcomes :
           /\ CreateGoes(s, h) /\ h.pc = "record" /\ h.out = out
           /\ h.i = create[s].i /\ h.plan = create[s].plan /\ h.cur = create[s].cur
           /\ StartContainer(create[s].plan[create[s].i], create[s].cur, out)
<1>1. create \in [Services -> Creates] /\ create[s] \in Creates
  BY DEF TypeInv
<1>2. PICK out \in Outcomes :
        /\ StartContainer(create[s].plan[create[s].i], create[s].cur, out)
        /\ create' = [create EXCEPT ![s].pc = "record", ![s].out = out]
  BY DEF CreateStart
<1>3. PICK h : h = [create[s] EXCEPT !.pc = "record", !.out = out]
  OBVIOUS
<1>4. /\ h \in Creates /\ h.pc = "record" /\ h.out = out
      /\ h.i = create[s].i /\ h.plan = create[s].plan /\ h.cur = create[s].cur
  BY <1>1, <1>3 DEF Creates, CreatePCs
<1>5. create' = [create EXCEPT ![s] = h]
  BY <1>1, <1>2, <1>3
<1> QED
  BY <1>2, <1>4, <1>5 DEF CreateGoes

\* The handler of deleteService of service s goes on as h.
DeleteGoes(s, h) ==
  /\ h \in Deletes
  /\ delete' = [delete EXCEPT ![s] = h]
  /\ \A x \in h.todo : SvcOf(x[1]) = s

\* deleteService (server.go): the handler only touches its own service.
LEMMA DeleteSteps ==
  ASSUME TypeInv, NEW s \in Services
  PROVE  /\ DeleteList(s) => \E h : DeleteGoes(s, h) /\ h.pc = "kill"
         /\ DeleteKill(s) =>
              /\ \E h : /\ DeleteGoes(s, h) /\ h.pc = "stop"
                        /\ h.cur \in Containers /\ SvcOf(h.cur) = s
              /\ docker' = docker \/ \E n \in Nodes : RemoveDocker(n, {s})
              /\ delete[s].pc = "kill"
         /\ DeleteStop(s) =>
              /\ \E h : DeleteGoes(s, h) /\ h.pc = "kill"
              /\ delete[s].cur \in Containers /\ SvcOf(delete[s].cur) = s
              /\ SetContainerStatus(delete[s].cur, "STOPPED")
         /\ RemoveService(s) => \E h : DeleteGoes(s, h) /\ h.pc = "done"
<1>1. delete \in [Services -> Deletes] /\ delete[s] \in Deletes /\ DeleteForm(s)
  BY DEF TypeInv
<1>2. ASSUME DeleteList(s)
      PROVE  \E h : DeleteGoes(s, h) /\ h.pc = "kill"
  <2>1. PICK todo : todo = {<<c, rec[c].node>> : c \in Records(s)}
    OBVIOUS
  <2>2. todo \in SUBSET (Containers \X MaybeNodes) /\ \A x \in todo : SvcOf(x[1]) = s
    BY <2>1 DEF TypeInv, RecordForms, Records
  <2>3. PICK h : h = [delete[s] EXCEPT !.pc = "kill", !.todo = todo]
    OBVIOUS
  <2>4. h \in Deletes /\ h.pc = "kill" /\ h.todo = todo
    BY <1>1, <2>2, <2>3 DEF Deletes
  <2>5. delete' = [delete EXCEPT ![s] = h]
    BY <1>1, <1>2, <2>1, <2>3 DEF DeleteList
  <2> QED
    BY <2>2, <2>4, <2>5 DEF DeleteGoes
<1>3. ASSUME DeleteKill(s)
      PROVE  /\ \E h : DeleteGoes(s, h) /\ h.pc = "stop" /\ h.cur \in Containers /\ SvcOf(h.cur) = s
             /\ docker' = docker \/ \E n \in Nodes : RemoveDocker(n, {s})
  <2>1. PICK x \in delete[s].todo :
          /\ delete' = [delete EXCEPT ![s].pc = "stop", ![s].todo = @ \ {x}, ![s].cur = x[1]]
          /\ \/ x[2] # None /\ RemoveDocker(x[2], {s})
             \/ UNCHANGED docker
    BY <1>3 DEF DeleteKill, AbandonKill
  <2>2. /\ delete[s].todo \in SUBSET (Containers \X MaybeNodes)
        /\ x[1] \in Containers /\ x[2] \in MaybeNodes /\ SvcOf(x[1]) = s
    BY <1>1 DEF Deletes, DeleteForm
  <2>3. PICK todo, c : todo = delete[s].todo \ {x} /\ c = x[1]
    OBVIOUS
  <2>4. PICK h : h = [delete[s] EXCEPT !.pc = "stop", !.todo = todo, !.cur = c]
    OBVIOUS
  <2>5. h \in Deletes /\ h.pc = "stop" /\ h.todo = todo /\ h.cur = c
    BY <1>1, <2>2, <2>3, <2>4 DEF Deletes, MaybeContainers
  <2>6. delete' = [delete EXCEPT ![s] = h]
    BY <1>1, <2>1, <2>3, <2>4
  <2>7. \A y \in h.todo : SvcOf(y[1]) = s
    BY <1>1, <2>3, <2>5 DEF DeleteForm
  <2> QED
    BY <2>1, <2>2, <2>3, <2>5, <2>6, <2>7 DEF DeleteGoes, MaybeNodes
<1>4. ASSUME DeleteStop(s)
      PROVE  \E h : DeleteGoes(s, h) /\ h.pc = "kill"
  <2>1. PICK h : h = [delete[s] EXCEPT !.pc = "kill"]
    OBVIOUS
  <2>2. h \in Deletes /\ h.pc = "kill" /\ h.todo = delete[s].todo
    BY <1>1, <2>1 DEF Deletes
  <2>3. delete' = [delete EXCEPT ![s] = h]
    BY <1>1, <1>4, <2>1 DEF DeleteStop
  <2> QED
    BY <1>1, <2>2, <2>3 DEF DeleteGoes, DeleteForm
<1>5. ASSUME RemoveService(s)
      PROVE  \E h : DeleteGoes(s, h) /\ h.pc = "done"
  <2>1. PICK h : h = [delete[s] EXCEPT !.pc = "done", !.cur = None]
    OBVIOUS
  <2>2. h \in Deletes /\ h.pc = "done" /\ h.todo = delete[s].todo
    BY <1>1, <2>1 DEF Deletes, MaybeContainers
  <2>3. delete' = [delete EXCEPT ![s] = h]
    BY <1>1, <1>5, <2>1 DEF RemoveService
  <2> QED
    BY <1>1, <2>2, <2>3 DEF DeleteGoes, DeleteForm
<1>6. DeleteKill(s) => delete[s].pc = "kill"
  BY DEF DeleteKill
<1>7. DeleteStop(s) => /\ delete[s].cur \in Containers /\ SvcOf(delete[s].cur) = s
                       /\ SetContainerStatus(delete[s].cur, "STOPPED")
  BY <1>1 DEF DeleteStop, DeleteForm
<1> QED
  BY <1>2, <1>3, <1>4, <1>5, <1>6, <1>7

\* The recovery (main.go, tolerance.go) and the check that starts it.
LEMMA RecoverySteps ==
  ASSUME TypeInv
  PROVE  /\ \A n \in Nodes : MarkDead(n) =>
              /\ recovery' \in Recoveries /\ recovery'.pc = "list" /\ recovery'.node = n
              /\ recovery'.todo = {} /\ recovery'.new = None
         /\ RecoveryList =>
              /\ recovery' \in Recoveries /\ recovery'.pc = "next"
              /\ recovery'.todo = ActiveOn(recovery.node) /\ recovery'.new = None
         /\ \A c \in Containers : RecoveryNext(c) =>
              /\ recovery' \in Recoveries /\ recovery'.pc = "plan" /\ recovery'.cur = c
              /\ recovery'.todo = recovery.todo \ {c} /\ recovery'.new = None
         /\ RecoveryPlan =>
              /\ recovery' \in Recoveries /\ recovery'.todo = recovery.todo
              /\ \/ /\ SvcOf(recovery.cur) \notin services
                    /\ recovery'.pc = "next" /\ recovery'.new = None
                 \/ /\ recovery'.pc = "record" /\ recovery'.out = "err"
                    /\ recovery'.new = None /\ recovery'.cur = recovery.cur
                 \/ /\ recovery'.pc = "start" /\ recovery'.node \in Alive
                    /\ Unused(SvcOf(recovery.cur)) # {}
                    /\ recovery'.new = Fresh(SvcOf(recovery.cur))
                    /\ recovery'.cur = recovery.cur
         /\ RecoveryRecord =>
              /\ recovery' \in Recoveries /\ recovery'.todo = recovery.todo
              /\ recovery'.cur = recovery.cur /\ recovery'.new = recovery.new
              /\ recovery'.node = recovery.node
              /\ recovery'.pc = IF recovery.out = "ok" THEN "add" ELSE "next"
         /\ RecoveryAdd =>
              /\ recovery' \in Recoveries /\ recovery'.todo = recovery.todo
              /\ recovery'.pc = "next" /\ recovery'.new = None
         /\ RecoveryEnd =>
              /\ recovery' \in Recoveries /\ recovery'.todo = {} /\ recovery.todo = {}
              /\ recovery'.pc = "idle" /\ recovery'.new = None
<1>1. recovery \in Recoveries /\ RecoveryForm /\ None \in MaybeNodes /\ None \in MaybeContainers
  BY DEF TypeInv, MaybeNodes, MaybeContainers
<1>2. ASSUME NEW n \in Nodes, MarkDead(n)
      PROVE  /\ recovery' \in Recoveries /\ recovery'.pc = "list" /\ recovery'.node = n
             /\ recovery'.todo = {} /\ recovery'.new = None
  BY <1>1, <1>2 DEF MarkDead, Recoveries, RecoveryForm, MaybeNodes
<1>3. ASSUME RecoveryList
      PROVE  /\ recovery' \in Recoveries /\ recovery'.pc = "next"
             /\ recovery'.todo = ActiveOn(recovery.node) /\ recovery'.new = None
  <2>1. PICK todo : todo = ActiveOn(recovery.node)
    OBVIOUS
  <2>2. todo \in SUBSET Containers
    BY <2>1 DEF ActiveOn
  <2> QED
    BY <1>1, <1>3, <2>1, <2>2 DEF RecoveryList, Recoveries, RecoveryForm
<1>4. ASSUME NEW c \in Containers, RecoveryNext(c)
      PROVE  /\ recovery' \in Recoveries /\ recovery'.pc = "plan" /\ recovery'.cur = c
             /\ recovery'.todo = recovery.todo \ {c} /\ recovery'.new = None
  BY <1>1, <1>4 DEF RecoveryNext, Recoveries, RecoveryForm, MaybeContainers
<1>5. ASSUME RecoveryPlan
      PROVE  /\ recovery' \in Recoveries /\ recovery'.todo = recovery.todo
             /\ \/ /\ SvcOf(recovery.cur) \notin services
                   /\ recovery'.pc = "next" /\ recovery'.new = None
                \/ /\ recovery'.pc = "record" /\ recovery'.out = "err"
                   /\ recovery'.new = None /\ recovery'.cur = recovery.cur
                \/ /\ recovery'.pc = "start" /\ recovery'.node \in Alive
                   /\ Unused(SvcOf(recovery.cur)) # {}
                   /\ recovery'.new = Fresh(SvcOf(recovery.cur))
                   /\ recovery'.cur = recovery.cur
  <2>1. recovery.cur \in Containers /\ recovery.new = None
    BY <1>1, <1>5 DEF RecoveryPlan, RecoveryForm
  <2>2. SvcOf(recovery.cur) \in Services
    BY <2>1, ServiceOf
  <2>3. CASE /\ SvcOf(recovery.cur) \notin services
             /\ recovery' = [recovery EXCEPT !.pc = "next", !.cur = None]
    BY <1>1, <2>1, <2>3 DEF Recoveries
  <2>4. CASE recovery' = [recovery EXCEPT !.pc = "record", !.out = "err"]
    BY <1>1, <2>1, <2>4, Constants DEF Recoveries
  <2>5. ASSUME NEW n \in Alive, Unused(SvcOf(recovery.cur)) # {},
               recovery' = [recovery EXCEPT !.pc = "start", !.node = n,
                                            !.new = Fresh(SvcOf(recovery.cur))]
        PROVE  /\ recovery' \in Recoveries /\ recovery'.todo = recovery.todo
               /\ recovery'.pc = "start" /\ recovery'.node \in Alive
               /\ recovery'.new = Fresh(SvcOf(recovery.cur))
               /\ recovery'.cur = recovery.cur
    <3>1. PICK d : d = Fresh(SvcOf(recovery.cur))
      OBVIOUS
    <3>2. d \in MaybeContainers /\ n \in MaybeNodes
      BY <2>2, <2>5, <3>1, FreshForm DEF MaybeContainers, MaybeNodes, Alive
    <3> QED
      BY <1>1, <2>5, <3>1, <3>2 DEF Recoveries
  <2> QED
    BY <1>5, <2>3, <2>4, <2>5 DEF RecoveryPlan
<1>6. ASSUME RecoveryRecord
      PROVE  /\ recovery' \in Recoveries /\ recovery'.todo = recovery.todo
             /\ recovery'.cur = recovery.cur /\ recovery'.new = recovery.new
             /\ recovery'.node = recovery.node
             /\ recovery'.pc = IF recovery.out = "ok" THEN "add" ELSE "next"
  BY <1>1, <1>6 DEF RecoveryRecord, Recoveries
<1>7. ASSUME RecoveryAdd
      PROVE  /\ recovery' \in Recoveries /\ recovery'.todo = recovery.todo
             /\ recovery'.pc = "next" /\ recovery'.new = None
  BY <1>1, <1>7 DEF RecoveryAdd, Recoveries
<1>8. ASSUME RecoveryEnd
      PROVE  /\ recovery' \in Recoveries /\ recovery'.todo = {} /\ recovery.todo = {}
             /\ recovery'.pc = "idle" /\ recovery'.new = None
  BY <1>1, <1>8, Constants DEF RecoveryEnd, Recoveries, RecoveryForm
<1> QED
  BY <1>2, <1>3, <1>4, <1>5, <1>6, <1>7, <1>8

\* The start of a replacement, with its outcome.
LEMMA RecoveryStartStep ==
  ASSUME TypeInv, RecoveryStart
  PROVE  \E out \in Outcomes :
           /\ StartContainer(recovery.node, recovery.new, out)
           /\ recovery' \in Recoveries /\ recovery'.pc = "record"
           /\ recovery'.todo = recovery.todo /\ recovery'.cur = recovery.cur
           /\ recovery'.node = recovery.node
           /\ recovery'.new = IF out = "ok" THEN recovery.new ELSE None
           /\ recovery'.out = IF out = "ok" THEN "ok" ELSE "err"
<1>1. recovery \in Recoveries /\ None \in MaybeContainers
  BY DEF TypeInv, MaybeContainers
<1>2. PICK out \in Outcomes :
        /\ StartContainer(recovery.node, recovery.new, out)
        /\ recovery' = IF out = "ok"
                         THEN [recovery EXCEPT !.pc = "record", !.out = "ok"]
                         ELSE [recovery EXCEPT !.pc = "record", !.out = "err", !.new = None]
  BY DEF RecoveryStart
<1> QED
  BY <1>1, <1>2, Constants DEF Recoveries

\* The retry loop (main.go).
LEMMA RetrySteps ==
  ASSUME TypeInv
  PROVE  /\ RetryList =>
              /\ retry' \in Retries /\ retry'.pc = "group"
              /\ retry'.todo = Pending /\ retry'.plan = retry.plan
         /\ \A s \in Services : RetryPlan(s) =>
              /\ retry' \in Retries
              /\ retry'.todo = {c \in retry.todo : SvcOf(c) # s}
              /\ \/ retry'.pc = "group" /\ retry'.plan = retry.plan
                 \/ /\ retry'.pc = "start"
                    /\ retry'.plan \in [{c \in retry.todo : SvcOf(c) = s} -> Alive]
         /\ RetryEnd =>
              /\ retry' \in Retries /\ retry'.pc = "idle"
              /\ retry'.todo = {} /\ retry'.plan = retry.plan
<1>1. retry \in Retries /\ RetryForm
  BY DEF TypeInv
<1>2. ASSUME RetryList
      PROVE  /\ retry' \in Retries /\ retry'.pc = "group"
             /\ retry'.todo = Pending /\ retry'.plan = retry.plan
  <2>1. PICK todo : todo = Pending
    OBVIOUS
  <2>2. todo \in SUBSET Containers
    BY <2>1 DEF Pending
  <2> QED
    BY <1>1, <1>2, <2>1, <2>2 DEF RetryList, Retries
<1>3. ASSUME NEW s \in Services, RetryPlan(s)
      PROVE  /\ retry' \in Retries
             /\ retry'.todo = {c \in retry.todo : SvcOf(c) # s}
             /\ \/ retry'.pc = "group" /\ retry'.plan = retry.plan
                \/ /\ retry'.pc = "start"
                   /\ retry'.plan \in [{c \in retry.todo : SvcOf(c) = s} -> Alive]
  <2>1. PICK group : group = {c \in retry.todo : SvcOf(c) = s}
    OBVIOUS
  <2>2. PICK rest : rest = retry.todo \ group
    OBVIOUS
  <2>3. group \in SUBSET Containers /\ rest \in SUBSET Containers
    BY <1>1, <2>1, <2>2 DEF Retries
  <2>4. rest = {c \in retry.todo : SvcOf(c) # s}
    BY <2>1, <2>2
  <2>5. CASE retry' = [retry EXCEPT !.todo = @ \ group]
    BY <1>1, <1>3, <2>2, <2>3, <2>4, <2>5 DEF Retries, RetryPlan
  <2>6. ASSUME NEW plan \in [group -> Alive],
               retry' = [retry EXCEPT !.pc = "start", !.todo = @ \ group, !.plan = plan]
        PROVE  /\ retry' \in Retries /\ retry'.todo = rest
               /\ retry'.pc = "start" /\ retry'.plan = plan
    <3>1. plan \in UNION {[D -> Nodes] : D \in SUBSET Containers}
      <4>1. plan \in [group -> Nodes]
        BY DEF Alive
      <4> QED
        BY <2>3, <4>1
    <3>2. PICK Plans : Plans = UNION {[D -> Nodes] : D \in SUBSET Containers}
      OBVIOUS
    <3> QED
      BY <1>1, <2>2, <2>3, <2>6, <3>1, <3>2 DEF Retries
  <2> QED
    BY <1>3, <2>1, <2>4, <2>5, <2>6 DEF RetryPlan
<1>4. ASSUME RetryEnd
      PROVE  /\ retry' \in Retries /\ retry'.pc = "idle"
             /\ retry'.todo = {} /\ retry'.plan = retry.plan
  BY <1>1, <1>4 DEF RetryEnd, Retries
<1> QED
  BY <1>2, <1>3, <1>4

\* What a plan of the retry loop is.
LEMMA RetryPlanForm ==
  ASSUME TypeInv
  PROVE  retry.plan \in [DOMAIN retry.plan -> Nodes] /\ DOMAIN retry.plan \subseteq Containers
<1>1. retry.plan \in UNION {[D -> Nodes] : D \in SUBSET Containers}
  BY DEF TypeInv, Retries
<1>2. PICK D \in SUBSET Containers : retry.plan \in [D -> Nodes]
  BY <1>1
<1> QED
  BY <1>2

\* The retry loop starts a replica and then records the outcome.
LEMMA RetryStartSteps ==
  ASSUME TypeInv
  PROVE  /\ \A c \in Containers : RetryStart(c) =>
              \E out \in Outcomes :
                /\ c \in DOMAIN retry.plan
                /\ StartContainer(retry.plan[c], c, out)
                /\ retry' \in Retries /\ retry'.pc = "record" /\ retry'.todo = retry.todo
                /\ retry'.plan = retry.plan /\ retry'.cur = c /\ retry'.out = out
         /\ RetryRecord =>
              /\ retry.cur \in DOMAIN retry.plan
              /\ retry' \in Retries /\ retry'.todo = retry.todo
              /\ DOMAIN retry'.plan = DOMAIN retry.plan \ {retry.cur}
              /\ \A c \in DOMAIN retry'.plan : retry'.plan[c] = retry.plan[c]
              /\ \/ retry'.pc = "start"
                 \/ retry'.pc = "group" /\ DOMAIN retry'.plan = {}
<1>1. retry \in Retries /\ RetryForm
  BY DEF TypeInv
<1>2. ASSUME NEW c \in Containers, RetryStart(c)
      PROVE  \E out \in Outcomes :
               /\ c \in DOMAIN retry.plan
               /\ StartContainer(retry.plan[c], c, out)
               /\ retry' \in Retries /\ retry'.pc = "record" /\ retry'.todo = retry.todo
               /\ retry'.plan = retry.plan /\ retry'.cur = c /\ retry'.out = out
  <2>1. PICK out \in Outcomes :
          /\ StartContainer(retry.plan[c], c, out)
          /\ retry' = [retry EXCEPT !.pc = "record", !.cur = c, !.out = out]
    BY <1>2 DEF RetryStart
  <2>2. /\ retry' \in Retries /\ retry'.pc = "record" /\ retry'.todo = retry.todo
        /\ retry'.plan = retry.plan /\ retry'.cur = c /\ retry'.out = out
    BY <1>1, <2>1 DEF Retries, MaybeContainers
  <2> QED
    BY <1>2, <2>1, <2>2 DEF RetryStart
<1>3. ASSUME RetryRecord
      PROVE  /\ retry.cur \in DOMAIN retry.plan
             /\ retry' \in Retries /\ retry'.todo = retry.todo
             /\ DOMAIN retry'.plan = DOMAIN retry.plan \ {retry.cur}
             /\ \A c \in DOMAIN retry'.plan : retry'.plan[c] = retry.plan[c]
             /\ \/ retry'.pc = "start"
                \/ retry'.pc = "group" /\ DOMAIN retry'.plan = {}
  <2>1. PICK D : D = DOMAIN retry.plan \ {retry.cur}
    OBVIOUS
  <2>2. PICK rest : rest = [c \in D |-> retry.plan[c]]
    OBVIOUS
  <2>3. rest \in [D -> Nodes] /\ D \in SUBSET Containers
    BY <2>1, <2>2, RetryPlanForm
  <2>4. rest \in UNION {[E -> Nodes] : E \in SUBSET Containers}
    BY <2>3
  <2>5. PICK pc : pc = IF DOMAIN rest = {} THEN "group" ELSE "start"
    OBVIOUS
  <2>6. retry' = [retry EXCEPT !.pc = pc, !.plan = rest, !.cur = None, !.out = "ok"]
    BY <1>3, <2>1, <2>2, <2>5 DEF RetryRecord
  <2>7. /\ retry' \in Retries /\ retry'.pc = pc /\ retry'.todo = retry.todo
        /\ retry'.plan = rest
    BY <1>1, <2>4, <2>5, <2>6, Constants DEF Retries, MaybeContainers
  <2>8. retry.cur \in DOMAIN retry.plan
    BY <1>1, <1>3 DEF RetryForm, RetryRecord
  <2> QED
    BY <2>1, <2>2, <2>3, <2>5, <2>7, <2>8
<1> QED
  BY <1>2, <1>3

\* The goroutine of HandleLateHeartbeat for node n goes on as h.
KillGoes(n, h) ==
  /\ h \in Kills
  /\ kill' = [kill EXCEPT ![n] = h]

\* HandleLateHeartbeat (tolerance.go) and what starts it.
LEMMA KillSteps ==
  ASSUME TypeInv, NEW n \in Nodes
  PROVE  /\ LateHeartbeat(n) => \E h : KillGoes(n, h) /\ h.pc = "kill" /\ h.todo = kill[n].todo
         /\ KillContainers(n) =>
              \E h : /\ KillGoes(n, h) /\ h.todo = kill[n].todo
                     /\ \/ /\ h.pc = "list"
                           /\ \/ RemoveDocker(n, Services)
                              \/ "docker" \in Faults /\ docker' = docker
                        \/ h.pc = "off" /\ docker' = docker
         /\ KillList(n) => \E h : KillGoes(n, h) /\ h.pc = "stop" /\ h.todo = ActiveOn(n)
         /\ KillStop(n) =>
              \E c \in kill[n].todo, h \in Kills :
                /\ KillGoes(n, h) /\ h.pc = "stop" /\ h.todo = kill[n].todo \ {c}
                /\ c \in Containers /\ SetContainerStatus(c, "STOPPED")
         /\ NodeBack(n) => \E h : KillGoes(n, h) /\ h.pc = "off" /\ h.todo = {}
<1>1. kill \in [Nodes -> Kills] /\ kill[n] \in Kills
  BY DEF TypeInv
<1>2. ASSUME LateHeartbeat(n)
      PROVE  \E h : KillGoes(n, h) /\ h.pc = "kill" /\ h.todo = kill[n].todo
  <2>1. PICK h : h = [kill[n] EXCEPT !.pc = "kill"]
    OBVIOUS
  <2>2. h \in Kills /\ h.pc = "kill" /\ h.todo = kill[n].todo
    BY <1>1, <2>1 DEF Kills
  <2>3. kill' = [kill EXCEPT ![n] = h]
    BY <1>1, <1>2, <2>1 DEF LateHeartbeat
  <2> QED
    BY <2>2, <2>3 DEF KillGoes
<1>3. ASSUME KillContainers(n)
      PROVE  \E h : /\ KillGoes(n, h) /\ h.todo = kill[n].todo
                    /\ \/ /\ h.pc = "list"
                          /\ \/ RemoveDocker(n, Services)
                             \/ "docker" \in Faults /\ docker' = docker
                       \/ h.pc = "off" /\ docker' = docker
  <2>1. PICK pc \in {"list", "off"} :
          /\ kill' = [kill EXCEPT ![n].pc = pc]
          /\ \/ /\ pc = "list"
                /\ \/ RemoveDocker(n, Services)
                   \/ "docker" \in Faults /\ docker' = docker
             \/ pc = "off" /\ docker' = docker
    BY <1>3 DEF KillContainers, AbandonKill
  <2>2. PICK h : h = [kill[n] EXCEPT !.pc = pc]
    OBVIOUS
  <2>3. h \in Kills /\ h.pc = pc /\ h.todo = kill[n].todo
    BY <1>1, <2>1, <2>2 DEF Kills
  <2>4. kill' = [kill EXCEPT ![n] = h]
    BY <1>1, <2>1, <2>2
  <2> QED
    BY <2>1, <2>3, <2>4 DEF KillGoes
<1>4. ASSUME KillList(n)
      PROVE  \E h : KillGoes(n, h) /\ h.pc = "stop" /\ h.todo = ActiveOn(n)
  <2>1. PICK todo : todo = ActiveOn(n)
    OBVIOUS
  <2>2. todo \in SUBSET Containers
    BY <2>1 DEF ActiveOn
  <2>3. PICK h : h = [kill[n] EXCEPT !.pc = "stop", !.todo = todo]
    OBVIOUS
  <2>4. h \in Kills /\ h.pc = "stop" /\ h.todo = todo
    BY <1>1, <2>2, <2>3 DEF Kills
  <2>5. kill' = [kill EXCEPT ![n] = h]
    BY <1>1, <1>4, <2>1, <2>3 DEF KillList
  <2> QED
    BY <2>1, <2>4, <2>5 DEF KillGoes
<1>5. ASSUME KillStop(n)
      PROVE  \E c \in kill[n].todo, h \in Kills :
               /\ KillGoes(n, h) /\ h.pc = "stop" /\ h.todo = kill[n].todo \ {c}
               /\ c \in Containers /\ SetContainerStatus(c, "STOPPED")
  <2>1. PICK c \in kill[n].todo :
          SetContainerStatus(c, "STOPPED") /\ kill' = [kill EXCEPT ![n].todo = @ \ {c}]
    BY <1>5 DEF KillStop
  <2>2. PICK todo : todo = kill[n].todo \ {c}
    OBVIOUS
  <2>3. todo \in SUBSET Containers /\ c \in Containers
    BY <1>1, <2>1, <2>2 DEF Kills
  <2>4. PICK h : h = [kill[n] EXCEPT !.todo = todo]
    OBVIOUS
  <2>5. h \in Kills /\ h.pc = kill[n].pc /\ h.todo = todo
    BY <1>1, <2>3, <2>4 DEF Kills
  <2>6. kill' = [kill EXCEPT ![n] = h]
    BY <1>1, <2>1, <2>2, <2>4
  <2>7. kill[n].pc = "stop"
    BY <1>5 DEF KillStop
  <2> QED
    BY <2>1, <2>2, <2>3, <2>5, <2>6, <2>7, Zenon DEF KillGoes
<1>6. ASSUME NodeBack(n)
      PROVE  \E h : KillGoes(n, h) /\ h.pc = "off" /\ h.todo = {}
  <2>1. PICK h : h = [kill[n] EXCEPT !.pc = "off"]
    OBVIOUS
  <2>2. h \in Kills /\ h.pc = "off" /\ h.todo = kill[n].todo
    BY <1>1, <2>1 DEF Kills
  <2>3. kill' = [kill EXCEPT ![n] = h] /\ kill[n].todo = {}
    BY <1>1, <1>6, <2>1 DEF NodeBack
  <2> QED
    BY <2>2, <2>3 DEF KillGoes
<1> QED
  BY <1>2, <1>3, <1>4, <1>5, <1>6

-----------------------------------------------------------------------------
(* Types. *)

\* The records, the workers and the services after a step.
SharedTyped ==
  /\ services \subseteq Services
  /\ rec \in [Containers -> RecordForms]
  /\ docker \in [Nodes -> [Containers -> Nat]]
  /\ late \subseteq Nodes \X Containers
  /\ orphans \in OrphanSets

\* A step of createService keeps the types.
LEMMA CreateTyped ==
  ASSUME TypeInv, NEW s \in Services, NEW h, CreateGoes(s, h),
         h.pc \in {"new", "plan"} => h.i = 0,
         h.pc = "pending" => h.i < Replicas,
         h.pc = "done" => h.i = Replicas,
         h.pc \in {"add", "start", "record"} =>
           h.i \in 1..Replicas /\ h.plan \in [1..Replicas -> Nodes],
         h.pc \in {"start", "record"} => h.cur \in Containers /\ SvcOf(h.cur) = s,
         SharedTyped', UNCHANGED <<status, deaths, delete, recovery, retry, kill>>
  PROVE  TypeInv'
<1>1. create \in [Services -> Creates]
  BY DEF TypeInv
<1>2. create' \in [Services -> Creates] /\ create'[s] = h
  BY <1>1 DEF CreateGoes
<1>3. \A x \in Services : x # s => create'[x] = create[x]
  BY <1>1 DEF CreateGoes
<1>4. ASSUME NEW x \in Services PROVE CreateForm(x)'
  BY <1>2, <1>3 DEF TypeInv, CreateForm
<1> QED
  BY <1>2, <1>4 DEF TypeInv, SharedTyped, DeleteForm, RecoveryForm, RetryForm, KillForm

\* A step of deleteService keeps the types.
LEMMA DeleteTyped ==
  ASSUME TypeInv, NEW s \in Services, NEW h, DeleteGoes(s, h),
         h.pc = "stop" => h.cur \in Containers /\ SvcOf(h.cur) = s,
         SharedTyped', UNCHANGED <<status, deaths, create, recovery, retry, kill>>
  PROVE  TypeInv'
<1>1. delete \in [Services -> Deletes]
  BY DEF TypeInv
<1>2. delete' \in [Services -> Deletes] /\ delete'[s] = h
  BY <1>1 DEF DeleteGoes
<1>3. \A x \in Services : x # s => delete'[x] = delete[x]
  BY <1>1 DEF DeleteGoes
<1>4. ASSUME NEW x \in Services PROVE DeleteForm(x)'
  BY <1>2, <1>3 DEF TypeInv, DeleteForm, DeleteGoes
<1> QED
  BY <1>2, <1>4 DEF TypeInv, SharedTyped, CreateForm, RecoveryForm, RetryForm, KillForm

\* A step of the recovery keeps the types.
LEMMA RecoveryTyped ==
  ASSUME TypeInv, recovery' \in Recoveries, RecoveryForm', SharedTyped',
         UNCHANGED <<status, deaths, create, delete, retry, kill>>
  PROVE  TypeInv'
BY DEF TypeInv, SharedTyped, CreateForm, DeleteForm, RetryForm, KillForm

\* A step of the retry loop keeps the types.
LEMMA RetryTyped ==
  ASSUME TypeInv, retry' \in Retries, RetryForm', SharedTyped',
         UNCHANGED <<status, deaths, create, delete, recovery, kill>>
  PROVE  TypeInv'
BY DEF TypeInv, SharedTyped, CreateForm, DeleteForm, RecoveryForm, KillForm

\* A step of a goroutine of HandleLateHeartbeat keeps the types.
LEMMA KillTyped ==
  ASSUME TypeInv, NEW n \in Nodes, NEW h, KillGoes(n, h), SharedTyped',
         status' \in [Nodes -> {"ALIVE", "DEAD"}],
         \A m \in Nodes : m # n => status'[m] = status[m],
         h.pc # "off" => status'[n] = "DEAD",
         UNCHANGED <<deaths, create, delete, recovery, retry>>
  PROVE  TypeInv'
<1>1. kill \in [Nodes -> Kills]
  BY DEF TypeInv
<1>2. kill' \in [Nodes -> Kills] /\ kill'[n] = h
  BY <1>1 DEF KillGoes
<1>3. \A x \in Nodes : x # n => kill'[x] = kill[x]
  BY <1>1 DEF KillGoes
<1>4. ASSUME NEW x \in Nodes PROVE KillForm(x)'
  BY <1>2, <1>3 DEF TypeInv, KillForm
<1> QED
  BY <1>2, <1>4 DEF TypeInv, SharedTyped, CreateForm, DeleteForm, RecoveryForm, RetryForm

\* createService keeps the types.
LEMMA CreateType ==
  ASSUME TypeInv, NEW s \in Services, Create(s)
  PROVE  TypeInv'
<1>1. create[s] \in Creates /\ CreateForm(s) /\ SharedTyped
  BY DEF TypeInv, SharedTyped
<1>2. Replicas \in Nat /\ 1 <= Replicas
  BY Constants
<1>3. CASE AddService(s)
  <2>1. PICK h : CreateGoes(s, h) /\ h.pc = "plan" /\ h.i = 0
    BY <1>3, CreateSteps
  <2>2. SharedTyped' /\ UNCHANGED <<status, deaths, delete, recovery, retry, kill>>
    BY <1>1, <1>3 DEF AddService, SharedTyped, workers
  <2> QED
    BY <2>1, <2>2, CreateTyped
<1>4. CASE CreatePlan(s)
  <2>1. PICK h : /\ CreateGoes(s, h)
                 /\ \/ h.pc = "pending" /\ h.i = 0
                    \/ h.pc = "add" /\ h.i = 1 /\ h.plan \in [1..Replicas -> Alive]
    BY <1>4, CreateSteps
  <2>2. SharedTyped' /\ UNCHANGED <<status, deaths, delete, recovery, retry, kill>>
    BY <1>1, <1>4 DEF CreatePlan, SharedTyped, workers
  <2>3. h.pc = "add" => h.i \in 1..Replicas /\ h.plan \in [1..Replicas -> Nodes]
    BY <1>2, <2>1 DEF Alive
  <2>4. h.pc = "pending" => h.i < Replicas
    BY <1>2, <2>1
  <2> QED
    BY <2>1, <2>2, <2>3, <2>4, CreateTyped
<1>5. CASE CreatePending(s)
  <2>1. PICK h : /\ CreateGoes(s, h) /\ h.i = create[s].i + 1
                 /\ h.pc = IF h.i = Replicas THEN "done" ELSE "pending"
    BY <1>5, CreateSteps
  <2>2. rec' \in [Containers -> RecordForms]
    <3>1. Fresh(s) \in Containers /\ None \in MaybeNodes /\ "PENDING" \in Statuses
      BY <1>5, FreshForm DEF CreatePending, MaybeNodes, Statuses
    <3> QED
      BY <1>5, <3>1, RecordAdded DEF CreatePending
  <2>3. SharedTyped' /\ UNCHANGED <<status, deaths, delete, recovery, retry, kill>>
    BY <1>1, <1>5, <2>2 DEF CreatePending, SharedTyped, workers
  <2>4. h.pc = "pending" => h.i < Replicas
    BY <1>1, <1>2, <1>5, <2>1 DEF CreatePending, CreateForm, Creates
  <2> QED
    BY <2>1, <2>3, <2>4, CreateTyped
<1>6. CASE CreateAdd(s)
  <2>1. PICK h : /\ CreateGoes(s, h) /\ h.pc = "start" /\ h.cur = Fresh(s)
                 /\ h.i = create[s].i /\ h.plan = create[s].plan
    BY <1>6, CreateSteps
  <2>2. h.i \in 1..Replicas /\ h.plan \in [1..Replicas -> Nodes]
    BY <1>1, <1>6, <2>1 DEF CreateForm, CreateAdd
  <2>3. Fresh(s) \in Containers /\ SvcOf(Fresh(s)) = s
    BY <1>6, FreshForm DEF CreateAdd
  <2>4. rec' \in [Containers -> RecordForms]
    <3>1. create[s].plan[create[s].i] \in MaybeNodes /\ "SCHEDULED" \in Statuses
      BY <2>1, <2>2 DEF MaybeNodes, Statuses
    <3> QED
      BY <1>6, <2>3, <3>1, RecordAdded DEF CreateAdd
  <2>5. SharedTyped' /\ UNCHANGED <<status, deaths, delete, recovery, retry, kill>>
    BY <1>1, <1>6, <2>4 DEF CreateAdd, SharedTyped, workers
  <2> QED
    BY <2>1, <2>2, <2>3, <2>5, CreateTyped
<1>7. CASE CreateStart(s)
  <2>1. PICK h \in Creates, out \in Outcomes :
          /\ CreateGoes(s, h) /\ h.pc = "record"
          /\ h.i = create[s].i /\ h.plan = create[s].plan /\ h.cur = create[s].cur
          /\ StartContainer(create[s].plan[create[s].i], create[s].cur, out)
    BY <1>7, CreateStartStep
  <2>2. /\ h.i \in 1..Replicas /\ h.plan \in [1..Replicas -> Nodes]
        /\ h.cur \in Containers /\ SvcOf(h.cur) = s
    BY <1>1, <1>7, <2>1 DEF CreateForm, CreateStart
  <2>3. /\ docker' \in [Nodes -> [Containers -> Nat]]
        /\ late' \subseteq Nodes \X Containers /\ orphans' = orphans
    <3>1. create[s].plan[create[s].i] \in Nodes
      BY <2>1, <2>2
    <3> QED
      BY <2>1, <2>2, <3>1, DockerStarted
  <2>4. SharedTyped' /\ UNCHANGED <<status, deaths, delete, recovery, retry, kill>>
    BY <1>1, <1>7, <2>3 DEF CreateStart, SharedTyped
  <2> QED
    BY <2>1, <2>2, <2>4, CreateTyped
<1>8. CASE CreateRecord(s)
  <2>1. PICK h : /\ CreateGoes(s, h)
                 /\ \/ h.pc = "done" /\ h.i = Replicas
                    \/ /\ h.pc = "add" /\ h.i = create[s].i + 1 /\ h.i <= Replicas
                       /\ h.plan = create[s].plan
    BY <1>8, CreateSteps
  <2>2. /\ create[s].i \in 1..Replicas /\ create[s].plan \in [1..Replicas -> Nodes]
        /\ create[s].cur \in Containers
    BY <1>1, <1>8 DEF CreateForm, CreateRecord
  <2>3. h.pc = "add" => h.i \in 1..Replicas /\ h.plan \in [1..Replicas -> Nodes]
    BY <1>2, <2>1, <2>2
  <2>4. rec' \in [Containers -> RecordForms]
    <3>1. /\ create[s].plan[create[s].i] \in MaybeNodes
          /\ "RUNNING" \in Statuses /\ "PENDING" \in Statuses /\ "FAILED" \in Statuses
      BY <2>2 DEF MaybeNodes, Statuses
    <3>2. create[s].out \in Outcomes
      BY <1>1 DEF Creates
    <3>3. \/ AddContainer(create[s].cur, create[s].plan[create[s].i], "RUNNING")
          \/ SetContainerStatus(create[s].cur, "PENDING")
          \/ SetContainerStatus(create[s].cur, "FAILED")
      BY <1>8, <3>2 DEF CreateRecord, Outcomes
    <3> QED
      BY <2>2, <3>1, <3>3, RecordAdded, RecordSet
  <2>5. SharedTyped' /\ UNCHANGED <<status, deaths, delete, recovery, retry, kill>>
    BY <1>1, <1>8, <2>4 DEF CreateRecord, SharedTyped, workers
  <2> QED
    BY <2>1, <2>3, <2>5, CreateTyped
<1> QED
  BY <1>3, <1>4, <1>5, <1>6, <1>7, <1>8 DEF Create

\* deleteService keeps the types.
LEMMA DeleteType ==
  ASSUME TypeInv, NEW s \in Services, Delete(s)
  PROVE  TypeInv'
<1>1. SharedTyped
  BY DEF TypeInv, SharedTyped
<1>2. CASE DeleteList(s)
  <2>1. PICK h : DeleteGoes(s, h) /\ h.pc = "kill"
    BY <1>2, DeleteSteps
  <2>2. SharedTyped' /\ UNCHANGED <<status, deaths, create, recovery, retry, kill>>
    BY <1>1, <1>2 DEF DeleteList, SharedTyped, workers
  <2> QED
    BY <2>1, <2>2, DeleteTyped
<1>3. CASE DeleteKill(s)
  <2>1. PICK h : DeleteGoes(s, h) /\ h.pc = "stop" /\ h.cur \in Containers /\ SvcOf(h.cur) = s
    BY <1>3, DeleteSteps
  <2>2. docker' \in [Nodes -> [Containers -> Nat]]
    <3>1. docker' = docker \/ \E n \in Nodes : RemoveDocker(n, {s})
      BY <1>3, DeleteSteps
    <3> QED
      BY <1>1, <3>1, DockerRemoved DEF SharedTyped
  <2>3. orphans' \in OrphanSets
    <3>1. ASSUME NEW x \in delete[s].todo, x[2] # None, AbandonKill(x[2], {s})
          PROVE  orphans' \in OrphanSets
      <4>1. x[2] \in Nodes
        BY <3>1 DEF TypeInv, Deletes, MaybeNodes
      <4> QED
        BY <1>1, <3>1, <4>1, KillAbandoned DEF SharedTyped
    <3> QED
      BY <1>1, <1>3, <3>1 DEF DeleteKill, SharedTyped
  <2>4. SharedTyped' /\ UNCHANGED <<status, deaths, create, recovery, retry, kill>>
    BY <1>1, <1>3, <2>2, <2>3 DEF DeleteKill, SharedTyped
  <2> QED
    BY <2>1, <2>4, DeleteTyped
<1>4. CASE DeleteStop(s)
  <2>1. PICK h : DeleteGoes(s, h) /\ h.pc = "kill"
    BY <1>4, DeleteSteps
  <2>2. rec' \in [Containers -> RecordForms]
    <3>1. delete[s].cur \in Containers /\ SetContainerStatus(delete[s].cur, "STOPPED")
      BY <1>4, DeleteSteps
    <3>2. "STOPPED" \in Statuses
      BY DEF Statuses
    <3> QED
      BY <3>1, <3>2, RecordSet
  <2>3. SharedTyped' /\ UNCHANGED <<status, deaths, create, recovery, retry, kill>>
    BY <1>1, <1>4, <2>2 DEF DeleteStop, SharedTyped, workers
  <2> QED
    BY <2>1, <2>3, DeleteTyped
<1>5. CASE RemoveService(s)
  <2>1. PICK h : DeleteGoes(s, h) /\ h.pc = "done"
    BY <1>5, DeleteSteps
  <2>2. SharedTyped' /\ UNCHANGED <<status, deaths, create, recovery, retry, kill>>
    BY <1>1, <1>5 DEF RemoveService, SharedTyped, workers
  <2> QED
    BY <2>1, <2>2, DeleteTyped
<1> QED
  BY <1>2, <1>3, <1>4, <1>5 DEF Delete

\* The recovery and the check that starts it keep the types.
LEMMA RecoveryType ==
  ASSUME TypeInv, Recovery
  PROVE  TypeInv'
<1>1. recovery \in Recoveries /\ RecoveryForm /\ SharedTyped /\ None \notin Containers
  BY Constants DEF TypeInv, SharedTyped
<1>2. CASE RecoveryList
  <2>1. SharedTyped' /\ UNCHANGED <<status, deaths, create, delete, retry, kill>>
    BY <1>1, <1>2 DEF RecoveryList, SharedTyped, workers
  <2>2. recovery' \in Recoveries /\ recovery'.pc = "next" /\ recovery'.new = None
    BY <1>2, RecoverySteps
  <2> QED
    BY <2>1, <2>2, RecoveryTyped DEF RecoveryForm
<1>3. ASSUME NEW c \in Containers, RecoveryNext(c) PROVE TypeInv'
  <2>1. /\ recovery' \in Recoveries /\ recovery'.pc = "plan" /\ recovery'.new = None
        /\ recovery'.cur = c
    BY <1>3, RecoverySteps
  <2>2. rec' \in [Containers -> RecordForms]
    <3>1. "RESCHEDULING" \in Statuses
      BY DEF Statuses
    <3> QED
      BY <1>3, <3>1, RecordSet DEF RecoveryNext
  <2>3. SharedTyped' /\ UNCHANGED <<status, deaths, create, delete, retry, kill>>
    BY <1>1, <1>3, <2>2 DEF RecoveryNext, SharedTyped, workers
  <2> QED
    BY <2>1, <2>3, RecoveryTyped DEF RecoveryForm
<1>4. CASE RecoveryPlan
  <2>1. SharedTyped' /\ UNCHANGED <<status, deaths, create, delete, retry, kill>>
    BY <1>1, <1>4 DEF RecoveryPlan, SharedTyped, workers
  <2>2. recovery.cur \in Containers
    BY <1>1, <1>4 DEF RecoveryForm, RecoveryPlan
  <2>3. recovery' \in Recoveries
    BY <1>4, RecoverySteps
  <2>4. \/ recovery'.pc = "next" /\ recovery'.new = None
        \/ /\ recovery'.pc = "record" /\ recovery'.out = "err"
           /\ recovery'.new = None /\ recovery'.cur = recovery.cur
        \/ /\ recovery'.pc = "start" /\ recovery'.node \in Nodes
           /\ recovery'.new \in Containers /\ SvcOf(recovery'.new) = SvcOf(recovery.cur)
           /\ recovery'.cur = recovery.cur
    <3>1. SvcOf(recovery.cur) \in Services
      BY <2>2, ServiceOf
    <3>2. Unused(SvcOf(recovery.cur)) # {} =>
            /\ Fresh(SvcOf(recovery.cur)) \in Containers
            /\ SvcOf(Fresh(SvcOf(recovery.cur))) = SvcOf(recovery.cur)
      BY <3>1, FreshForm
    <3>3. Alive \subseteq Nodes
      BY DEF Alive
    <3> QED
      BY <1>4, <3>2, <3>3, RecoverySteps
  <2>5. RecoveryForm'
    BY <2>2, <2>4 DEF RecoveryForm
  <2> QED
    BY <2>1, <2>3, <2>5, RecoveryTyped
<1>5. CASE RecoveryStart
  <2>1. PICK out \in Outcomes :
          /\ StartContainer(recovery.node, recovery.new, out)
          /\ recovery' \in Recoveries /\ recovery'.pc = "record"
          /\ recovery'.todo = recovery.todo /\ recovery'.cur = recovery.cur
          /\ recovery'.node = recovery.node
          /\ recovery'.new = IF out = "ok" THEN recovery.new ELSE None
          /\ recovery'.out = IF out = "ok" THEN "ok" ELSE "err"
    BY <1>5, RecoveryStartStep
  <2>2. /\ recovery.cur \in Containers /\ recovery.new \in Containers
        /\ SvcOf(recovery.new) = SvcOf(recovery.cur) /\ recovery.node \in Nodes
    BY <1>1, <1>5 DEF RecoveryForm, RecoveryStart
  <2>3. /\ docker' \in [Nodes -> [Containers -> Nat]]
        /\ late' \subseteq Nodes \X Containers /\ orphans' = orphans
    BY <2>1, <2>2, DockerStarted
  <2>4. SharedTyped' /\ UNCHANGED <<status, deaths, create, delete, retry, kill>>
    BY <1>1, <1>5, <2>3 DEF RecoveryStart, SharedTyped
  <2>5. RecoveryForm'
    BY <2>1, <2>2 DEF RecoveryForm
  <2> QED
    BY <2>1, <2>4, <2>5, RecoveryTyped
<1>6. CASE RecoveryRecord
  <2>1. /\ recovery' \in Recoveries /\ recovery'.todo = recovery.todo
        /\ recovery'.cur = recovery.cur /\ recovery'.new = recovery.new
        /\ recovery'.node = recovery.node
        /\ recovery'.pc = IF recovery.out = "ok" THEN "add" ELSE "next"
    BY <1>6, RecoverySteps
  <2>2. recovery.pc = "record" /\ recovery.cur \in Containers
    BY <1>1, <1>6 DEF RecoveryForm, RecoveryRecord
  <2>3. rec' \in [Containers -> RecordForms]
    <3>1. "STOPPED" \in Statuses /\ "PENDING" \in Statuses
      BY DEF Statuses
    <3> QED
      BY <1>6, <2>2, <3>1, RecordSet DEF RecoveryRecord
  <2>4. SharedTyped' /\ UNCHANGED <<status, deaths, create, delete, retry, kill>>
    BY <1>1, <1>6, <2>3 DEF RecoveryRecord, SharedTyped, workers
  <2>5. RecoveryForm'
    BY <1>1, <2>1, <2>2 DEF RecoveryForm
  <2> QED
    BY <2>1, <2>4, <2>5, RecoveryTyped
<1>7. CASE RecoveryAdd
  <2>1. recovery' \in Recoveries /\ recovery'.pc = "next" /\ recovery'.new = None
    BY <1>7, RecoverySteps
  <2>2. recovery.new \in Containers /\ recovery.node \in MaybeNodes
    BY <1>1, <1>7 DEF RecoveryForm, RecoveryAdd, MaybeNodes
  <2>3. rec' \in [Containers -> RecordForms]
    <3>1. "RUNNING" \in Statuses
      BY DEF Statuses
    <3> QED
      BY <1>7, <2>2, <3>1, RecordAdded DEF RecoveryAdd
  <2>4. SharedTyped' /\ UNCHANGED <<status, deaths, create, delete, retry, kill>>
    BY <1>1, <1>7, <2>3 DEF RecoveryAdd, SharedTyped, workers
  <2> QED
    BY <2>1, <2>4, RecoveryTyped DEF RecoveryForm
<1>8. CASE RecoveryEnd
  <2>1. SharedTyped' /\ UNCHANGED <<status, deaths, create, delete, retry, kill>>
    BY <1>1, <1>8 DEF RecoveryEnd, SharedTyped, workers
  <2>2. /\ recovery' \in Recoveries /\ recovery'.pc = "idle" /\ recovery'.new = None
        /\ recovery'.todo = {}
    BY <1>8, RecoverySteps
  <2> QED
    BY <2>1, <2>2, RecoveryTyped DEF RecoveryForm
<1> QED
  BY <1>2, <1>3, <1>4, <1>5, <1>6, <1>7, <1>8 DEF Recovery, RecoveryRecordInTime

\* The retry loop keeps the types.
LEMMA RetryType ==
  ASSUME TypeInv, Retry
  PROVE  TypeInv'
<1>1. retry \in Retries /\ RetryForm /\ SharedTyped
  BY DEF TypeInv, SharedTyped
<1>2. CASE RetryList
  <2>1. SharedTyped' /\ UNCHANGED <<status, deaths, create, delete, recovery, kill>>
    BY <1>1, <1>2 DEF RetryList, SharedTyped, workers
  <2>2. retry.pc = "idle"
    BY <1>2 DEF RetryList
  <2>3. retry' \in Retries /\ RetryForm'
    BY <1>1, <1>2, <2>2, RetrySteps DEF RetryForm
  <2> QED
    BY <2>1, <2>3, RetryTyped
<1>3. ASSUME NEW s \in Services, RetryPlan(s) PROVE TypeInv'
  <2>1. SharedTyped' /\ UNCHANGED <<status, deaths, create, delete, recovery, kill>>
    BY <1>1, <1>3 DEF RetryPlan, SharedTyped, workers
  <2>2. retry.pc = "group"
    BY <1>3 DEF RetryPlan
  <2>3. /\ retry' \in Retries
        /\ \/ retry'.pc = "group" /\ retry'.plan = retry.plan
           \/ retry'.pc = "start"
    BY <1>3, RetrySteps
  <2>4. RetryForm'
    BY <1>1, <2>2, <2>3 DEF RetryForm
  <2> QED
    BY <2>1, <2>3, <2>4, RetryTyped
<1>4. ASSUME NEW c \in Containers, RetryStart(c) PROVE TypeInv'
  <2>1. PICK out \in Outcomes :
          /\ c \in DOMAIN retry.plan
          /\ StartContainer(retry.plan[c], c, out)
          /\ retry' \in Retries /\ retry'.pc = "record"
          /\ retry'.plan = retry.plan /\ retry'.cur = c
    BY <1>4, RetryStartSteps
  <2>2. retry.plan[c] \in Nodes
    BY <2>1, RetryPlanForm
  <2>3. /\ docker' \in [Nodes -> [Containers -> Nat]]
        /\ late' \subseteq Nodes \X Containers /\ orphans' = orphans
    BY <2>1, <2>2, DockerStarted
  <2>4. SharedTyped' /\ UNCHANGED <<status, deaths, create, delete, recovery, kill>>
    BY <1>1, <1>4, <2>3 DEF RetryStart, SharedTyped
  <2> QED
    BY <2>1, <2>4, RetryTyped DEF RetryForm
<1>5. CASE RetryRecord
  <2>1. /\ retry.cur \in DOMAIN retry.plan
        /\ retry' \in Retries
        /\ \/ retry'.pc = "start"
           \/ retry'.pc = "group" /\ DOMAIN retry'.plan = {}
    BY <1>5, RetryStartSteps
  <2>2. retry.cur \in Containers /\ retry.plan[retry.cur] \in MaybeNodes
    BY <2>1, RetryPlanForm DEF MaybeNodes
  <2>3. rec' \in [Containers -> RecordForms]
    <3>1. "RUNNING" \in Statuses
      BY DEF Statuses
    <3>2. \/ AddContainer(retry.cur, retry.plan[retry.cur], "RUNNING")
          \/ UNCHANGED rec
      BY <1>5 DEF RetryRecord
    <3> QED
      BY <1>1, <2>2, <3>1, <3>2, RecordAdded DEF SharedTyped
  <2>4. SharedTyped' /\ UNCHANGED <<status, deaths, create, delete, recovery, kill>>
    BY <1>1, <1>5, <2>3 DEF RetryRecord, SharedTyped, workers
  <2> QED
    BY <2>1, <2>4, RetryTyped DEF RetryForm
<1>6. CASE RetryEnd
  <2>1. SharedTyped' /\ UNCHANGED <<status, deaths, create, delete, recovery, kill>>
    BY <1>1, <1>6 DEF RetryEnd, SharedTyped, workers
  <2>2. retry.pc = "group"
    BY <1>6 DEF RetryEnd
  <2>3. retry' \in Retries /\ RetryForm'
    BY <1>1, <1>6, <2>2, RetrySteps DEF RetryForm
  <2> QED
    BY <2>1, <2>3, RetryTyped
<1> QED
  BY <1>2, <1>3, <1>4, <1>5, <1>6 DEF Retry

\* HandleLateHeartbeat keeps the types.
LEMMA KillType ==
  ASSUME TypeInv, NEW n \in Nodes, LateHeartbeat(n) \/ Kill(n)
  PROVE  TypeInv'
<1>1. kill[n] \in Kills /\ SharedTyped /\ status \in [Nodes -> {"ALIVE", "DEAD"}]
  BY DEF TypeInv, SharedTyped
<1>2. kill[n].pc # "off" => status[n] = "DEAD"
  BY DEF TypeInv, KillForm
<1>3. CASE LateHeartbeat(n)
  <2>1. PICK h : KillGoes(n, h)
    BY <1>3, KillSteps
  <2>2. SharedTyped' /\ UNCHANGED <<status, deaths, create, delete, recovery, retry>>
    BY <1>1, <1>3 DEF LateHeartbeat, SharedTyped, workers
  <2>3. status[n] = "DEAD"
    BY <1>3 DEF LateHeartbeat
  <2> QED
    BY <1>1, <2>1, <2>2, <2>3, KillTyped
<1>4. CASE KillContainers(n)
  <2>1. PICK h : /\ KillGoes(n, h)
                 /\ docker' = docker \/ RemoveDocker(n, Services)
    BY <1>4, KillSteps
  <2>2. docker' \in [Nodes -> [Containers -> Nat]]
    BY <1>1, <2>1, DockerRemoved DEF SharedTyped
  <2>3. orphans' \in OrphanSets
    BY <1>1, <1>4, KillAbandoned DEF KillContainers, SharedTyped
  <2>4. SharedTyped' /\ UNCHANGED <<status, deaths, create, delete, recovery, retry>>
    BY <1>1, <1>4, <2>2, <2>3 DEF KillContainers, SharedTyped
  <2>5. status[n] = "DEAD"
    BY <1>2, <1>4 DEF KillContainers
  <2> QED
    BY <1>1, <2>1, <2>4, <2>5, KillTyped
<1>5. CASE KillList(n)
  <2>1. PICK h : KillGoes(n, h)
    BY <1>5, KillSteps
  <2>2. SharedTyped' /\ UNCHANGED <<status, deaths, create, delete, recovery, retry>>
    BY <1>1, <1>5 DEF KillList, SharedTyped, workers
  <2>3. status[n] = "DEAD"
    BY <1>2, <1>5 DEF KillList
  <2> QED
    BY <1>1, <2>1, <2>2, <2>3, KillTyped
<1>6. CASE KillStop(n)
  <2>1. PICK c \in kill[n].todo, h \in Kills :
          KillGoes(n, h) /\ c \in Containers /\ SetContainerStatus(c, "STOPPED")
    BY <1>6, KillSteps
  <2>2. rec' \in [Containers -> RecordForms]
    <3>1. "STOPPED" \in Statuses
      BY DEF Statuses
    <3> QED
      BY <2>1, <3>1, RecordSet
  <2>3. SharedTyped' /\ UNCHANGED <<status, deaths, create, delete, recovery, retry>>
    BY <1>1, <1>6, <2>2 DEF KillStop, SharedTyped, workers
  <2>4. status[n] = "DEAD"
    BY <1>2, <1>6 DEF KillStop
  <2> QED
    BY <1>1, <2>1, <2>3, <2>4, KillTyped
<1>7. CASE NodeBack(n)
  <2>1. PICK h : KillGoes(n, h) /\ h.pc = "off"
    BY <1>7, KillSteps
  <2>2. SharedTyped' /\ UNCHANGED <<deaths, create, delete, recovery, retry>>
    BY <1>1, <1>7 DEF NodeBack, SharedTyped, workers
  <2>3. /\ status' \in [Nodes -> {"ALIVE", "DEAD"}]
        /\ \A m \in Nodes : m # n => status'[m] = status[m]
    BY <1>1, <1>7 DEF NodeBack
  <2> QED
    BY <2>1, <2>2, <2>3, KillTyped
<1> QED
  BY <1>3, <1>4, <1>5, <1>6, <1>7 DEF Kill, KillListInTime

\* A node's death starts a recovery of it.
LEMMA DeathType ==
  ASSUME TypeInv, NEW n \in Nodes, MarkDead(n)
  PROVE  TypeInv'
<1>1. status \in [Nodes -> {"ALIVE", "DEAD"}] /\ SharedTyped /\ deaths \in 0..MaxDeaths
  BY DEF TypeInv, SharedTyped
<1>2. /\ status' \in [Nodes -> {"ALIVE", "DEAD"}]
      /\ \A m \in Nodes : status[m] = "DEAD" => status'[m] = "DEAD"
  BY <1>1 DEF MarkDead
<1>3. deaths' \in 0..MaxDeaths
  BY <1>1, Constants DEF MarkDead
<1>4. SharedTyped' /\ UNCHANGED <<create, delete, retry, kill>>
  BY <1>1 DEF MarkDead, SharedTyped, workers
<1>5. recovery' \in Recoveries /\ RecoveryForm'
  BY RecoverySteps DEF RecoveryForm
<1>6. \A m \in Nodes : KillForm(m)'
  BY <1>2, <1>4 DEF TypeInv, KillForm
<1> QED
  BY <1>2, <1>3, <1>4, <1>5, <1>6
     DEF TypeInv, SharedTyped, CreateForm, DeleteForm, RetryForm

\* What workers do by themselves.
LEMMA WorkerType ==
  ASSUME TypeInv, NEW n \in Nodes,
         WorkerRestart(n) \/ \E c \in Containers : LateStart(n, c)
  PROVE  TypeInv'
<1>1. docker \in [Nodes -> [Containers -> Nat]] /\ late \subseteq Nodes \X Containers
  BY DEF TypeInv
<1>2. UNCHANGED <<status, services, rec, deaths, create, delete, recovery, retry, kill>>
  BY DEF WorkerRestart, LateStart
<1>3. docker' \in [Nodes -> [Containers -> Nat]] /\ late' \subseteq Nodes \X Containers
  <2>1. CASE WorkerRestart(n)
    <3>1. RemoveDocker(n, Services) /\ late' \subseteq late
      BY <2>1 DEF WorkerRestart
    <3> QED
      BY <1>1, <3>1, DockerRemoved
  <2>2. ASSUME NEW c \in Containers, LateStart(n, c)
        PROVE  docker' \in [Nodes -> [Containers -> Nat]] /\ late' \subseteq Nodes \X Containers
    <3>1. PICK D : D = [docker[n] EXCEPT ![c] = @ + 1]
      OBVIOUS
    <3>2. D \in [Containers -> Nat]
      BY <1>1, <3>1
    <3>3. docker' = [docker EXCEPT ![n] = D]
      BY <1>1, <2>2, <3>1 DEF LateStart
    <3>4. late' \subseteq Nodes \X Containers
      BY <1>1, <2>2 DEF LateStart
    <3> QED
      BY <1>1, <3>2, <3>3, <3>4
  <2> QED
    BY <2>1, <2>2
<1>4. orphans' \in OrphanSets
  <2>1. orphans \in OrphanSets
    BY DEF TypeInv
  <2>2. orphans' \subseteq orphans
    BY DEF WorkerRestart, LateStart
  <2> QED
    BY <2>1, <2>2, OrphansLeft
<1> QED
  BY <1>2, <1>3, <1>4 DEF TypeInv, CreateForm, DeleteForm, RecoveryForm, RetryForm, KillForm

\* A KillContainers that nobody waits for is carried out.
LEMMA LateKillType ==
  ASSUME TypeInv, NEW x \in orphans, LateKill(x)
  PROVE  TypeInv'
<1>1. UNCHANGED <<status, services, rec, late, deaths, create, delete, recovery, retry, kill>>
  BY DEF LateKill
<1>2. x[1] \in Nodes /\ orphans \in OrphanSets
  BY DEF TypeInv, OrphanSets
<1>3. docker' \in [Nodes -> [Containers -> Nat]]
  BY <1>2, DockerRemoved DEF LateKill
<1>4. orphans' \in OrphanSets
  BY <1>2, OrphansLeft DEF LateKill
<1> QED
  BY <1>1, <1>3, <1>4 DEF TypeInv, CreateForm, DeleteForm, RecoveryForm, RetryForm, KillForm

\* It only takes containers away.
LEMMA LateKillRemoves ==
  ASSUME TypeInv, NEW x \in orphans, LateKill(x)
  PROVE  /\ x[1] \in Nodes /\ RemoveDocker(x[1], x[2])
         /\ \A m \in Nodes, d \in Containers : docker'[m][d] \in {0, docker[m][d]}
         /\ UNCHANGED <<status, services, rec, late, deaths, create, delete, recovery, retry, kill>>
<1>1. x[1] \in Nodes
  BY DEF TypeInv, OrphanSets
<1>2. /\ RemoveDocker(x[1], x[2])
      /\ UNCHANGED <<status, services, rec, late, deaths, create, delete, recovery, retry, kill>>
  BY DEF LateKill
<1> QED
  BY <1>1, <1>2, DockerRemoved

\* The program starts with well-typed data.
LEMMA InitType ==
  ASSUME Init
  PROVE  TypeInv
<1>1. None \in MaybeNodes /\ None \in MaybeContainers /\ "ok" \in Outcomes /\ "NONE" \in Statuses
  BY DEF MaybeNodes, MaybeContainers, Outcomes, Statuses
<1>2. 0 \in 0..MaxDeaths /\ 0 \in 0..Replicas
  BY Constants
<1>3. NoPlan \in UNION {[D -> Nodes] : D \in SUBSET Containers} /\ DOMAIN NoPlan = {}
  <2>1. NoPlan \in [{} -> Nodes] /\ {} \in SUBSET Containers
    BY DEF NoPlan
  <2> QED
    BY <2>1
<1>4. rec \in [Containers -> RecordForms]
  BY <1>1 DEF Init, RecordForms
<1>5. create \in [Services -> Creates] /\ \A s \in Services : CreateForm(s)
  BY <1>1, <1>2 DEF Init, Creates, CreatePCs, CreateForm
<1>6. delete \in [Services -> Deletes] /\ \A s \in Services : DeleteForm(s)
  BY <1>1 DEF Init, Deletes, DeleteForm
<1>7. recovery \in Recoveries /\ RecoveryForm
  BY <1>1 DEF Init, Recoveries, RecoveryForm
<1>8. retry \in Retries /\ RetryForm
  <2>1. PICK Plans : Plans = UNION {[D -> Nodes] : D \in SUBSET Containers}
    OBVIOUS
  <2>2. retry \in [pc : {"idle"}, todo : {{}}, plan : {NoPlan}, cur : {None}, out : {"ok"}]
    BY DEF Init
  <2>3. retry \in Retries
    BY <1>1, <1>3, <2>1, <2>2 DEF Retries
  <2> QED
    BY <1>3, <2>2, <2>3 DEF RetryForm
<1>9. kill \in [Nodes -> Kills] /\ \A n \in Nodes : KillForm(n)
  BY DEF Init, Kills, KillForm
<1>10. docker \in [Nodes -> [Containers -> Nat]] /\ orphans \in OrphanSets
  BY DEF Init, OrphanSets
<1> QED
  BY <1>2, <1>4, <1>5, <1>6, <1>7, <1>8, <1>9, <1>10 DEF Init, TypeInv

\* Every step keeps the types.
LEMMA StepType ==
  ASSUME TypeInv, [Next]_vars
  PROVE  TypeInv'
<1>1. CASE UNCHANGED vars
  BY <1>1 DEF vars, workers, TypeInv, CreateForm, DeleteForm, RecoveryForm, RetryForm, KillForm
<1>2. CASE Next
  BY <1>2, CreateType, DeleteType, RecoveryType, RetryType, KillType, DeathType, WorkerType,
     LateKillType DEF Next, MarkDeadInTime
<1> QED
  BY <1>1, <1>2

\* Every variable keeps its type, whatever fails: the handlers, the recovery, the
\* retry loop and the late kills never leave the values they are written for
\* (server.go:302-401, main.go:138-219, tolerance.go:118-150).
THEOREM TypeCorrect == Spec => []TypeOK
<1>1. TypeInv => TypeOK
  <2>1. ASSUME TypeInv, NEW s \in Services
        PROVE  /\ create[s].pc \in CreatePCs
               /\ create[s].i \in 0..Replicas
               /\ create[s].cur \in MaybeContainers
               /\ delete[s].pc \in {"idle", "kill", "stop", "done"}
               /\ delete[s].todo \subseteq Containers \X MaybeNodes
    <3>1. create[s] \in Creates /\ delete[s] \in Deletes
      BY <2>1 DEF TypeInv
    <3> QED
      BY <3>1 DEF Creates, Deletes
  <2>2. ASSUME TypeInv
        PROVE  /\ retry.pc \in {"idle", "group", "start", "record"}
               /\ retry.todo \subseteq Containers
               /\ DOMAIN retry.plan \subseteq Containers
    <3>1. retry \in Retries
      BY <2>2 DEF TypeInv
    <3>2. retry.todo \in SUBSET Containers
      BY <3>1 DEF Retries
    <3> QED
      BY <2>2, <3>1, <3>2, RetryPlanForm DEF Retries
  <2>3. TypeInv => orphans \subseteq Nodes \X SUBSET Services
    BY DEF TypeInv, OrphanSets
  <2> QED
    BY <2>1, <2>2, <2>3 DEF TypeInv, TypeOK, CreatePCs, RecordForms, Recoveries, Kills, MaybeNodes
<1> QED
  BY <1>1, InitType, StepType, PTL DEF Spec

-----------------------------------------------------------------------------
(* Plans that are carried out use nodes that are ALIVE. *)

\* A step that leaves the plans alone and declares no node DEAD.
LEMMA PlansKept ==
  ASSUME PlansAlive, Alive \subseteq Alive', UNCHANGED <<create, recovery, retry>>
  PROVE  PlansAlive'
BY DEF PlansAlive

\* createService makes plans of ALIVE nodes and works them off.
LEMMA CreatePlans ==
  ASSUME TypeInv, PlansAlive, NEW s \in Services, Create(s)
  PROVE  PlansAlive'
<1>1. UNCHANGED <<status, recovery, retry>>
  BY DEF Create, AddService, CreatePlan, CreatePending, CreateAdd, CreateStart, CreateRecord
<1>2. Alive' = Alive
  BY <1>1 DEF Alive
<1>3. create \in [Services -> Creates] /\ create[s] \in Creates /\ Replicas \in Nat
  BY Constants DEF TypeInv
<1>4. PICK h : /\ CreateGoes(s, h)
               /\ \/ h.pc \notin {"add", "start", "record"}
                  \/ h.pc = "add" /\ h.i = 1 /\ h.plan \in [1..Replicas -> Alive]
                  \/ /\ create[s].pc \in {"add", "start", "record"} /\ h.plan = create[s].plan
                     /\ h.i = create[s].i \/ h.i = create[s].i + 1
  <2>1. CASE AddService(s) \/ CreatePlan(s) \/ CreatePending(s)
    BY <2>1, CreateSteps
  <2>2. CASE CreateAdd(s)
    BY <2>2, CreateSteps DEF CreateAdd
  <2>3. CASE CreateStart(s)
    BY <2>3, CreateStartStep DEF CreateStart
  <2>4. CASE CreateRecord(s)
    BY <2>4, CreateSteps DEF CreateRecord
  <2> QED
    BY <2>1, <2>2, <2>3, <2>4 DEF Create
<1>5. /\ create'[s] = h /\ h \in Creates
      /\ \A x \in Services : x # s => create'[x] = create[x]
  BY <1>3, <1>4 DEF CreateGoes
<1>6. ASSUME h.pc \in {"add", "start", "record"}, NEW i \in h.i..Replicas
      PROVE  h.plan[i] \in Alive
  <2>1. h.i \in Nat /\ create[s].i \in Nat
    BY <1>3, <1>5 DEF Creates
  <2>2. CASE h.i = 1 /\ h.plan \in [1..Replicas -> Alive]
    BY <1>6, <2>2
  <2>3. CASE /\ create[s].pc \in {"add", "start", "record"} /\ h.plan = create[s].plan
             /\ h.i = create[s].i \/ h.i = create[s].i + 1
    <3>1. i \in create[s].i..Replicas
      BY <1>3, <2>1, <2>3
    <3> QED
      BY <2>3, <3>1 DEF PlansAlive
  <2> QED
    BY <1>4, <1>6, <2>2, <2>3
<1> QED
  BY <1>1, <1>2, <1>5, <1>6 DEF PlansAlive

\* The recovery picks an ALIVE node for the replacement.
LEMMA RecoveryPlans ==
  ASSUME TypeInv, PlansAlive, Recovery
  PROVE  PlansAlive'
<1>1. UNCHANGED <<status, create, retry>>
  BY DEF Recovery, RecoveryList, RecoveryNext, RecoveryPlan, RecoveryStart, RecoveryRecord,
         RecoveryRecordInTime, RecoveryAdd, RecoveryEnd
<1>2. Alive' = Alive
  BY <1>1 DEF Alive
<1>3. recovery'.new # None => recovery'.node \in Alive
  <2>1. CASE RecoveryList \/ RecoveryAdd \/ RecoveryEnd \/ \E c \in Containers : RecoveryNext(c)
    BY <2>1, RecoverySteps
  <2>2. CASE RecoveryPlan
    BY <2>2, RecoverySteps
  <2>3. CASE RecoveryStart
    BY <2>3, RecoveryStartStep DEF PlansAlive
  <2>4. CASE RecoveryRecord
    BY <2>4, RecoverySteps DEF PlansAlive
  <2> QED
    BY <2>1, <2>2, <2>3, <2>4 DEF Recovery, RecoveryRecordInTime
<1> QED
  BY <1>1, <1>2, <1>3 DEF PlansAlive

\* So does the retry loop for the replicas of a group.
LEMMA RetryPlans ==
  ASSUME TypeInv, PlansAlive, Retry
  PROVE  PlansAlive'
<1>1. UNCHANGED <<status, create, recovery>>
  BY DEF Retry, RetryList, RetryPlan, RetryStart, RetryRecord, RetryEnd
<1>2. Alive' = Alive
  BY <1>1 DEF Alive
<1>3. \A c \in DOMAIN retry'.plan : retry'.plan[c] \in Alive
  <2>1. CASE RetryList \/ RetryEnd
    BY <2>1, RetrySteps DEF PlansAlive
  <2>2. ASSUME NEW s \in Services, RetryPlan(s)
        PROVE  \A c \in DOMAIN retry'.plan : retry'.plan[c] \in Alive
    BY <2>2, RetrySteps DEF PlansAlive
  <2>3. ASSUME NEW c \in Containers, RetryStart(c)
        PROVE  \A d \in DOMAIN retry'.plan : retry'.plan[d] \in Alive
    BY <2>3, RetryStartSteps DEF PlansAlive
  <2>4. CASE RetryRecord
    BY <2>4, RetryStartSteps DEF PlansAlive
  <2> QED
    BY <2>1, <2>2, <2>3, <2>4 DEF Retry
<1> QED
  BY <1>1, <1>2, <1>3 DEF PlansAlive

\* A node that dies is in no plan that is being carried out.
LEMMA DeathPlans ==
  ASSUME TypeInv, PlansAlive, "slow" \notin Faults, NEW n \in Nodes, MarkDeadInTime(n)
  PROVE  PlansAlive'
<1>1. n \notin Planned /\ UNCHANGED <<create, retry>>
  BY DEF MarkDead, MarkDeadInTime
<1>2. \A m \in Alive : m # n => m \in Alive'
  BY DEF Alive, MarkDead, MarkDeadInTime, TypeInv
<1>3. recovery'.new = None
  BY RecoverySteps DEF MarkDeadInTime
<1>4. ASSUME NEW s \in Services, create[s].pc \in {"add", "start", "record"},
             NEW i \in create[s].i..Replicas
      PROVE  create[s].plan[i] \in Alive'
  <2>1. create[s].i \in 1..Replicas /\ create[s].plan \in [1..Replicas -> Nodes]
    BY <1>4 DEF TypeInv, CreateForm
  <2>2. i \in {j \in DOMAIN create[s].plan : j >= create[s].i}
    BY <2>1, Constants
  <2>3. create[s].plan[i] \in Planned
    <3>1. create[s].plan[i] \in
            {create[s].plan[j] : j \in {j \in DOMAIN create[s].plan : j >= create[s].i}}
      BY <2>2
    <3> QED
      BY <3>1, Zenon DEF Planned
  <2> QED
    BY <1>1, <1>2, <1>4, <2>3 DEF PlansAlive
<1>5. ASSUME NEW c \in DOMAIN retry.plan
      PROVE  retry.plan[c] \in Alive'
  <2>1. retry.plan[c] \in Planned
    <3>1. retry.plan[c] \in {retry.plan[d] : d \in DOMAIN retry.plan}
      BY Zenon
    <3> QED
      BY <3>1, Zenon DEF Planned
  <2> QED
    BY <1>1, <1>2, <2>1 DEF PlansAlive
<1> QED
  BY <1>1, <1>3, <1>4, <1>5 DEF PlansAlive

\* Every step keeps plans on ALIVE nodes, if no node dies that is still to be used.
LEMMA StepPlans ==
  ASSUME TypeInv, PlansAlive, "slow" \notin Faults, [Next]_vars
  PROVE  PlansAlive'
<1>1. ASSUME NEW s \in Services, Delete(s) PROVE PlansAlive'
  <2>1. UNCHANGED <<status, create, recovery, retry>>
    BY <1>1 DEF Delete, DeleteList, DeleteKill, DeleteStop, RemoveService
  <2> QED
    BY <2>1, PlansKept DEF Alive
<1>2. ASSUME NEW n \in Nodes, LateHeartbeat(n) \/ Kill(n) PROVE PlansAlive'
  <2>1. UNCHANGED <<create, recovery, retry>>
    BY <1>2 DEF Kill, LateHeartbeat, KillContainers, KillList, KillListInTime, KillStop, NodeBack
  <2>2. status' = status \/ status' = [status EXCEPT ![n] = "ALIVE"]
    BY <1>2 DEF Kill, LateHeartbeat, KillContainers, KillList, KillListInTime, KillStop, NodeBack
  <2>3. Alive \subseteq Alive'
    BY <2>2 DEF Alive, TypeInv
  <2> QED
    BY <2>1, <2>3, PlansKept
<1>3. ASSUME NEW n \in Nodes, WorkerRestart(n) \/ \E c \in Containers : LateStart(n, c)
      PROVE  PlansAlive'
  <2>1. UNCHANGED <<status, create, recovery, retry>>
    BY <1>3 DEF WorkerRestart, LateStart
  <2> QED
    BY <2>1, PlansKept DEF Alive
<1>4. ASSUME NEW x \in orphans, LateKill(x) PROVE PlansAlive'
  BY <1>4, PlansKept DEF LateKill, Alive
<1>5. CASE UNCHANGED vars
  BY <1>5, PlansKept DEF vars, Alive
<1> QED
  BY <1>1, <1>2, <1>3, <1>4, <1>5, CreatePlans, RecoveryPlans, RetryPlans, DeathPlans DEF Next

\* There are no plans when the program starts.
LEMMA InitPlans ==
  ASSUME Init
  PROVE  PlansAlive
BY DEF Init, PlansAlive, NoPlan

-----------------------------------------------------------------------------
(* The records that the kill of a returning node stops. *)

\* AddContainer with another status than RUNNING.
LEMMA OtherAdded ==
  ASSUME TypeInv, NEW c \in Containers, NEW n \in MaybeNodes,
         NEW st \in Statuses \ {"RUNNING"}, AddContainer(c, n, st)
  PROVE  \A d \in Containers : rec'[d] = rec[d] \/ rec'[d].st # "RUNNING"
<1>1. rec'[c].st = st
  BY AddedStatus
<1>2. \A d \in Containers : d # c => rec'[d] = rec[d]
  BY RecordAdded
<1> QED
  BY <1>1, <1>2

\* SetContainerStatus to another status than RUNNING.
LEMMA OtherSet ==
  ASSUME TypeInv, NEW c \in Containers, NEW st \in Statuses \ {"RUNNING"},
         SetContainerStatus(c, st)
  PROVE  \A d \in Containers : rec'[d] = rec[d] \/ rec'[d].st # "RUNNING"
<1>1. rec'[c].st = IF rec[c].st = "NONE" THEN "NONE" ELSE st
  BY RecordSet
<1>2. \A d \in Containers : d # c => rec'[d] = rec[d]
  BY RecordSet
<1> QED
  BY <1>1, <1>2

\* A record becomes RUNNING on an ALIVE node.
RunningOnAlive ==
  \A c \in Containers : rec'[c].st = "RUNNING" => rec'[c] = rec[c] \/ rec'[c].node \in Alive

\* AddContainer of a container on an ALIVE node.
LEMMA AddedOnAlive ==
  ASSUME TypeInv, NEW c \in Containers, NEW n \in Alive, AddContainer(c, n, "RUNNING")
  PROVE  rec'[c].node = n /\ \A d \in Containers : d # c => rec'[d] = rec[d]
<1>1. n \in MaybeNodes /\ "RUNNING" \in Statuses
  BY DEF Alive, MaybeNodes, Statuses
<1>2. rec'[c].node = n
  BY <1>1, AddedStatus
<1>3. \A d \in Containers : d # c => rec'[d] = rec[d]
  BY <1>1, RecordAdded
<1> QED
  BY <1>2, <1>3

\* Whoever writes RUNNING does so for a node of a plan (server.go, main.go).
LEMMA WrittenOnAlive ==
  ASSUME TypeInv, PlansAlive, Next
  PROVE  RunningOnAlive
<1>1. ASSUME \A d \in Containers : rec'[d] = rec[d] \/ rec'[d].st # "RUNNING"
      PROVE  RunningOnAlive
  BY <1>1 DEF RunningOnAlive
<1>2. ASSUME NEW c \in Containers, NEW n \in Alive, AddContainer(c, n, "RUNNING")
      PROVE  RunningOnAlive
  BY <1>2, AddedOnAlive DEF RunningOnAlive
<1>3. \A st \in {"PENDING", "SCHEDULED", "FAILED", "STOPPED", "RESCHEDULING"} :
        st \in Statuses \ {"RUNNING"}
  BY DEF Statuses
<1>4. ASSUME NEW s \in Services, Create(s) PROVE RunningOnAlive
  <2>1. create[s] \in Creates /\ CreateForm(s)
    BY DEF TypeInv
  <2>2. CASE AddService(s) \/ CreatePlan(s) \/ CreateStart(s)
    BY <1>1, <2>2 DEF AddService, CreatePlan, CreateStart
  <2>3. CASE CreatePending(s)
    <3>1. Fresh(s) \in Containers /\ None \in MaybeNodes
      BY <2>3, FreshForm DEF CreatePending, MaybeNodes
    <3> QED
      BY <1>1, <1>3, <2>3, <3>1, OtherAdded DEF CreatePending
  <2>4. CASE CreateAdd(s)
    <3>1. Fresh(s) \in Containers
      BY <2>4, FreshForm DEF CreateAdd
    <3>2. create[s].plan[create[s].i] \in MaybeNodes
      BY <2>1, <2>4 DEF CreateForm, CreateAdd, MaybeNodes
    <3> QED
      BY <1>1, <1>3, <2>4, <3>1, <3>2, OtherAdded DEF CreateAdd
  <2>5. CASE CreateRecord(s)
    <3>1. create[s].i \in 1..Replicas /\ create[s].cur \in Containers
      BY <2>1, <2>5 DEF CreateForm, CreateRecord
    <3>2. create[s].plan[create[s].i] \in Alive
      BY <2>5, <3>1, Constants DEF PlansAlive, CreateRecord
    <3>3. \/ AddContainer(create[s].cur, create[s].plan[create[s].i], "RUNNING")
          \/ SetContainerStatus(create[s].cur, "PENDING")
          \/ SetContainerStatus(create[s].cur, "FAILED")
      BY <2>1, <2>5 DEF CreateRecord, Creates, Outcomes
    <3> QED
      BY <1>1, <1>2, <1>3, <3>1, <3>2, <3>3, OtherSet
  <2> QED
    BY <1>4, <2>2, <2>3, <2>4, <2>5 DEF Create
<1>5. ASSUME NEW s \in Services, Delete(s) PROVE RunningOnAlive
  <2>1. CASE DeleteStop(s)
    BY <1>1, <1>3, <2>1, DeleteSteps, OtherSet
  <2>2. CASE rec' = rec
    BY <1>1, <2>2
  <2> QED
    BY <1>5, <2>1, <2>2 DEF Delete, DeleteList, DeleteKill, RemoveService
<1>6. CASE Recovery
  <2>1. recovery \in Recoveries /\ RecoveryForm
    BY DEF TypeInv
  <2>2. CASE rec' = rec
    BY <1>1, <2>2
  <2>3. ASSUME NEW c \in Containers, RecoveryNext(c) PROVE RunningOnAlive
    BY <1>1, <1>3, <2>3, OtherSet DEF RecoveryNext
  <2>4. CASE RecoveryRecord
    <3>1. recovery.cur \in Containers
      BY <2>1, <2>4 DEF RecoveryForm, RecoveryRecord
    <3>2. \/ SetContainerStatus(recovery.cur, "STOPPED")
          \/ SetContainerStatus(recovery.cur, "PENDING")
      BY <2>4 DEF RecoveryRecord
    <3> QED
      BY <1>1, <1>3, <3>1, <3>2, OtherSet
  <2>5. CASE RecoveryAdd
    <3>1. recovery.new \in Containers /\ recovery.new # None
      BY <2>1, <2>5, Constants DEF RecoveryForm, RecoveryAdd
    <3> QED
      BY <1>2, <2>5, <3>1 DEF PlansAlive, RecoveryAdd
  <2> QED
    BY <1>6, <2>2, <2>3, <2>4, <2>5
       DEF Recovery, RecoveryRecordInTime, RecoveryList, RecoveryPlan, RecoveryStart, RecoveryEnd
<1>7. CASE Retry
  <2>1. CASE rec' = rec
    BY <1>1, <2>1
  <2>2. CASE RetryRecord /\ retry.out = "ok"
    <3>1. retry.cur \in DOMAIN retry.plan
      BY <2>2, RetryStartSteps
    <3>2. retry.cur \in Containers /\ retry.plan[retry.cur] \in Alive
      BY <3>1, RetryPlanForm DEF PlansAlive
    <3> QED
      BY <1>2, <2>2, <3>2 DEF RetryRecord
  <2> QED
    BY <1>7, <2>1, <2>2 DEF Retry, RetryList, RetryPlan, RetryStart, RetryRecord, RetryEnd
<1>8. ASSUME NEW n \in Nodes, LateHeartbeat(n) \/ Kill(n) PROVE RunningOnAlive
  <2>1. CASE KillStop(n)
    <3>1. PICK c \in Containers : SetContainerStatus(c, "STOPPED")
      BY <2>1, KillSteps
    <3> QED
      BY <1>1, <1>3, <3>1, OtherSet
  <2>2. CASE rec' = rec
    BY <1>1, <2>2
  <2> QED
    BY <1>8, <2>1, <2>2 DEF Kill, LateHeartbeat, KillContainers, KillList, KillListInTime, NodeBack
<1>9. ASSUME NEW n \in Nodes,
             MarkDead(n) \/ WorkerRestart(n) \/ \E c \in Containers : LateStart(n, c)
      PROVE  RunningOnAlive
  BY <1>1, <1>9 DEF MarkDead, WorkerRestart, LateStart
<1>10. ASSUME NEW x \in orphans, LateKill(x) PROVE RunningOnAlive
  BY <1>1, <1>10 DEF LateKill
<1> QED
  BY <1>4, <1>5, <1>6, <1>7, <1>8, <1>9, <1>10 DEF Next, MarkDeadInTime

\* The lists of records to stop stay complete.
LEMMA ListedKept ==
  ASSUME TypeInv, RunningOnAlive, NEW n \in Nodes, RunningListed(n), kill'[n] = kill[n]
  PROVE  RunningListed(n)'
<1> SUFFICES ASSUME kill[n].pc = "stop", NEW c \in Containers,
                    rec'[c].st = "RUNNING", rec'[c].node = n
             PROVE  c \in kill[n].todo
  BY DEF RunningListed
<1>1. n \notin Alive
  BY DEF TypeInv, KillForm, Alive
<1> QED
  BY <1>1 DEF RunningOnAlive, RunningListed

\* Every step keeps the lists of records to stop complete: a node is listed while it is
\* DEAD, and nothing becomes RUNNING on it before it is back (tolerance.go:118-150).
LEMMA StepListed ==
  ASSUME TypeInv, PlansAlive, ListedInv, [Next]_vars
  PROVE  ListedInv'
<1>1. CASE UNCHANGED vars
  BY <1>1 DEF vars, ListedInv, RunningListed
<1>2. ASSUME NEW n \in Nodes, Next, LateHeartbeat(n) \/ Kill(n) PROVE ListedInv'
  <2>1. kill \in [Nodes -> Kills]
    BY DEF TypeInv
  <2>2. ASSUME NEW h, KillGoes(n, h)
        PROVE  kill'[n] = h /\ \A m \in Nodes : m # n => kill'[m] = kill[m]
    BY <2>1, <2>2 DEF KillGoes
  <2>3. \A m \in Nodes : kill'[m] = kill[m] => RunningListed(m)'
    BY <1>2, WrittenOnAlive, ListedKept DEF ListedInv
  <2>4. CASE LateHeartbeat(n) \/ KillContainers(n) \/ NodeBack(n)
    <3>1. PICK h : KillGoes(n, h) /\ h.pc # "stop"
      BY <2>4, KillSteps
    <3> QED
      BY <2>2, <2>3, <3>1 DEF RunningListed, ListedInv
  <2>5. CASE KillList(n)
    <3>1. PICK h : KillGoes(n, h) /\ h.todo = ActiveOn(n)
      BY <2>5, KillSteps
    <3>2. UNCHANGED rec
      BY <2>5 DEF KillList
    <3>3. RunningListed(n)'
      BY <2>2, <3>1, <3>2 DEF RunningListed, ActiveOn
    <3> QED
      BY <2>2, <2>3, <3>1, <3>3 DEF ListedInv
  <2>6. CASE KillStop(n)
    <3>1. PICK c \in kill[n].todo, h \in Kills :
            /\ KillGoes(n, h) /\ h.todo = kill[n].todo \ {c}
            /\ c \in Containers /\ SetContainerStatus(c, "STOPPED")
      BY <2>6, KillSteps
    <3>2. kill[n].pc = "stop" /\ "STOPPED" \in Statuses
      BY <2>6 DEF KillStop, Statuses
    <3>3. rec'[c].st # "RUNNING"
      BY <3>1, <3>2, RecordSet
    <3>4. \A d \in Containers : d # c => rec'[d] = rec[d]
      BY <3>1, <3>2, RecordSet
    <3>5. RunningListed(n)'
      BY <2>2, <3>1, <3>2, <3>3, <3>4 DEF RunningListed, ListedInv
    <3> QED
      BY <2>2, <2>3, <3>1, <3>5 DEF ListedInv
  <2> QED
    BY <1>2, <2>4, <2>5, <2>6 DEF Kill, KillListInTime
<1>3. CASE Next /\ UNCHANGED kill
  BY <1>3, WrittenOnAlive, ListedKept DEF ListedInv
<1>4. Next => UNCHANGED kill \/ \E n \in Nodes : LateHeartbeat(n) \/ Kill(n)
  BY Zenon DEF Next, Create, AddService, CreatePlan, CreatePending, CreateAdd, CreateStart, CreateRecord,
         Delete, DeleteList, DeleteKill, DeleteStop, RemoveService,
         Recovery, RecoveryList, RecoveryNext, RecoveryPlan, RecoveryStart, RecoveryRecord,
         RecoveryRecordInTime, RecoveryAdd, RecoveryEnd,
         Retry, RetryList, RetryPlan, RetryStart, RetryRecord, RetryEnd,
         MarkDead, MarkDeadInTime, WorkerRestart, LateStart, LateKill
<1> QED
  BY <1>1, <1>2, <1>3, <1>4

\* Nothing is listed when the program starts.
LEMMA InitListed ==
  ASSUME Init
  PROVE  ListedInv
BY DEF Init, ListedInv, RunningListed

-----------------------------------------------------------------------------
(* RUNNING means started. *)

\* A deletion never becomes undone.
KeptBefore == \A s \in Services : Kept(s)' => Kept(s)

\* What runs on an ALIVE node for a service that is kept goes on running.
DockerKept ==
  \A n \in Alive, c \in Containers :
    Kept(SvcOf(c)) /\ Kept(SvcOf(c))' /\ docker[n][c] > 0 => docker'[n][c] > 0

\* A record becomes RUNNING on an ALIVE node on which the container was started.
RunningWritten ==
  \A c \in Containers :
    rec'[c].st = "RUNNING" =>
      \/ rec'[c] = rec[c]
      \/ /\ rec'[c].node \in Alive
         /\ Kept(SvcOf(c)) => docker[rec'[c].node][c] > 0

\* Nothing is RUNNING on a node that becomes ALIVE.
AliveBefore ==
  \A c \in Containers : rec[c].st = "RUNNING" /\ rec[c].node \in Alive' => rec[c].node \in Alive

\* RUNNING records stay true.
LEMMA RunningKept ==
  ASSUME TypeInv, RunningIsStarted, KeptBefore, DockerKept, RunningWritten, AliveBefore,
         Alive \subseteq Alive' \/ Alive' \subseteq Alive
  PROVE  RunningIsStarted'
<1> SUFFICES ASSUME NEW c \in Containers,
                    rec'[c].st = "RUNNING" /\ rec'[c].node \in Alive' /\ Kept(SvcOf(c))'
             PROVE  docker'[rec'[c].node][c] > 0
  BY DEF RunningIsStarted, Kept
<1>1. Kept(SvcOf(c)) /\ SvcOf(c) \in Services
  BY ServiceOf DEF KeptBefore
<1>2. rec'[c].node \in Alive /\ docker[rec'[c].node][c] > 0
  <2>1. CASE rec'[c] = rec[c]
    BY <1>1, <2>1 DEF AliveBefore, RunningIsStarted, Kept
  <2>2. CASE rec'[c].node \in Alive /\ (Kept(SvcOf(c)) => docker[rec'[c].node][c] > 0)
    BY <1>1, <2>2
  <2> QED
    BY <2>1, <2>2 DEF RunningWritten
<1> QED
  BY <1>1, <1>2 DEF DockerKept

\* What a handler of createService is going to record stays started.
LEMMA CreateStartedKept ==
  ASSUME TypeInv, PlansAlive, NEW s \in Services, CreateStarted(s), KeptBefore, DockerKept,
         create'[s] = create[s]
  PROVE  CreateStarted(s)'
<1> SUFFICES ASSUME create[s].pc = "record", create[s].out = "ok", Kept(s)'
             PROVE  docker'[create[s].plan[create[s].i]][create[s].cur] > 0
  BY DEF CreateStarted
<1>1. /\ create[s].i \in 1..Replicas /\ create[s].cur \in Containers
      /\ SvcOf(create[s].cur) = s
  BY DEF TypeInv, CreateForm
<1>2. create[s].plan[create[s].i] \in Alive
  BY <1>1, Constants DEF PlansAlive
<1> QED
  BY <1>1, <1>2 DEF CreateStarted, KeptBefore, DockerKept

\* So does what the retry loop is going to record.
LEMMA RetryStartedKept ==
  ASSUME TypeInv, PlansAlive, RetryStarted, KeptBefore, DockerKept, retry' = retry
  PROVE  RetryStarted'
<1> SUFFICES ASSUME retry.pc = "record", retry.out = "ok", Kept(SvcOf(retry.cur))'
             PROVE  docker'[retry.plan[retry.cur]][retry.cur] > 0
  BY DEF RetryStarted
<1>1. retry.cur \in DOMAIN retry.plan
  BY DEF TypeInv, RetryForm
<1>2. retry.cur \in Containers /\ retry.plan[retry.cur] \in Alive
  BY <1>1, RetryPlanForm DEF PlansAlive
<1> QED
  BY <1>2, ServiceOf DEF RetryStarted, KeptBefore, DockerKept

\* And the replacement that the recovery is going to record.
LEMMA RecoveryStartedKept ==
  ASSUME TypeInv, PlansAlive, RecoveryStarted, KeptBefore, DockerKept,
         recovery'.new = recovery.new, recovery'.node = recovery.node,
         recovery.pc \in {"record", "add"}
  PROVE  RecoveryStarted'
<1> SUFFICES ASSUME recovery.new # None, Kept(SvcOf(recovery.new))'
             PROVE  docker'[recovery.node][recovery.new] > 0
  BY DEF RecoveryStarted
<1>1. recovery.new \in Containers /\ recovery.node \in Alive
  BY DEF PlansAlive, TypeInv, Recoveries, MaybeContainers
<1> QED
  BY <1>1, ServiceOf DEF RecoveryStarted, KeptBefore, DockerKept

\* A step that only changes records to something else than RUNNING.
LEMMA NothingWritten ==
  ASSUME \A c \in Containers : rec'[c] = rec[c] \/ rec'[c].st # "RUNNING"
  PROVE  RunningWritten
BY DEF RunningWritten

\* AddContainer of a container that was started on an ALIVE node.
LEMMA RunningAdded ==
  ASSUME TypeInv, NEW c \in Containers, NEW n \in Alive, AddContainer(c, n, "RUNNING"),
         Kept(SvcOf(c)) => docker[n][c] > 0
  PROVE  RunningWritten
BY AddedOnAlive DEF RunningWritten

\* A step that starts containers or leaves the workers alone.
LEMMA NothingRemoved ==
  ASSUME TypeInv, docker' \in [Nodes -> [Containers -> Nat]],
         \A n \in Nodes, c \in Containers : docker'[n][c] >= docker[n][c]
  PROVE  DockerKept
<1> SUFFICES ASSUME NEW n \in Alive, NEW c \in Containers, docker[n][c] > 0
             PROVE  docker'[n][c] > 0
  BY DEF DockerKept
<1>1. n \in Nodes /\ docker[n][c] \in Nat /\ docker'[n][c] \in Nat
  BY DEF Alive, TypeInv
<1> QED
  BY <1>1

\* A step that leaves the workers alone.
LEMMA WorkersKept ==
  ASSUME TypeInv, docker' = docker
  PROVE  DockerKept
BY DEF DockerKept

\* The parts of StartedInv that a step leaves alone.
LEMMA StartedKept ==
  ASSUME TypeInv, PlansAlive, StartedInv, KeptBefore, DockerKept, RunningWritten,
         UNCHANGED status
  PROVE  /\ RunningIsStarted'
         /\ \A s \in Services : create'[s] = create[s] => CreateStarted(s)'
         /\ retry' = retry => RetryStarted'
         /\ recovery' = recovery => RecoveryStarted'
<1>1. Alive' = Alive
  BY DEF Alive
<1>2. RunningIsStarted'
  BY <1>1, RunningKept DEF AliveBefore, StartedInv
<1>3. recovery' = recovery => RecoveryStarted'
  BY RecoveryStartedKept DEF StartedInv, RecoveryStarted
<1> QED
  BY <1>2, <1>3, CreateStartedKept, RetryStartedKept DEF StartedInv

\* createService starts what it records as RUNNING (server.go:363-383).
LEMMA CreateKeepsStarted ==
  ASSUME TypeInv, PlansAlive, StartedInv, NEW s \in Services, Create(s)
  PROVE  StartedInv'
<1>1. UNCHANGED <<status, delete, recovery, retry, kill>>
  BY DEF Create, AddService, CreatePlan, CreatePending, CreateAdd, CreateStart, CreateRecord
<1>2. KeptBefore
  BY <1>1 DEF KeptBefore, Kept
<1>3. create \in [Services -> Creates] /\ create[s] \in Creates /\ CreateForm(s)
  BY DEF TypeInv
<1>4. ASSUME DockerKept, RunningWritten, CreateStarted(s)',
             \A x \in Services : x # s => create'[x] = create[x]
      PROVE  StartedInv'
  BY <1>1, <1>2, <1>4, StartedKept DEF StartedInv
<1>5. ASSUME NEW h, CreateGoes(s, h)
      PROVE  /\ create'[s] = h
             /\ \A x \in Services : x # s => create'[x] = create[x]
  BY <1>3, <1>5 DEF CreateGoes
<1>6. CASE AddService(s) \/ CreatePlan(s)
  <2>1. PICK h : CreateGoes(s, h) /\ h.pc # "record"
    BY <1>6, CreateSteps
  <2>2. UNCHANGED <<docker, rec>>
    BY <1>6 DEF AddService, CreatePlan, workers
  <2> QED
    BY <1>4, <1>5, <2>1, <2>2, WorkersKept, NothingWritten DEF CreateStarted
<1>7. CASE CreatePending(s)
  <2>1. PICK h : CreateGoes(s, h) /\ h.pc # "record"
    BY <1>7, CreateSteps
  <2>2. UNCHANGED docker
    BY <1>7 DEF CreatePending, workers
  <2>3. RunningWritten
    <3>1. Fresh(s) \in Containers /\ None \in MaybeNodes /\ "PENDING" \in Statuses \ {"RUNNING"}
      BY <1>7, FreshForm DEF CreatePending, MaybeNodes, Statuses
    <3> QED
      BY <1>7, <3>1, OtherAdded, NothingWritten DEF CreatePending
  <2> QED
    BY <1>4, <1>5, <2>1, <2>2, <2>3, WorkersKept DEF CreateStarted
<1>8. CASE CreateAdd(s)
  <2>1. PICK h : CreateGoes(s, h) /\ h.pc # "record"
    BY <1>8, CreateSteps
  <2>2. UNCHANGED docker
    BY <1>8 DEF CreateAdd, workers
  <2>3. RunningWritten
    <3>1. Fresh(s) \in Containers /\ "SCHEDULED" \in Statuses \ {"RUNNING"}
      BY <1>8, FreshForm DEF CreateAdd, Statuses
    <3>2. create[s].plan[create[s].i] \in MaybeNodes
      BY <1>3, <1>8 DEF CreateForm, CreateAdd, MaybeNodes
    <3> QED
      BY <1>8, <3>1, <3>2, OtherAdded, NothingWritten DEF CreateAdd
  <2> QED
    BY <1>4, <1>5, <2>1, <2>2, <2>3, WorkersKept DEF CreateStarted
<1>9. CASE CreateStart(s)
  <2>1. PICK h \in Creates, out \in Outcomes :
          /\ CreateGoes(s, h) /\ h.out = out
          /\ h.i = create[s].i /\ h.plan = create[s].plan /\ h.cur = create[s].cur
          /\ StartContainer(create[s].plan[create[s].i], create[s].cur, out)
    BY <1>9, CreateStartStep
  <2>2. PICK n, c : n = create[s].plan[create[s].i] /\ c = create[s].cur
    OBVIOUS
  <2>3. n \in Nodes /\ c \in Containers
    BY <1>3, <1>9, <2>2 DEF CreateForm, CreateStart
  <2>4. /\ docker' \in [Nodes -> [Containers -> Nat]]
        /\ \A m \in Nodes, d \in Containers :
             docker'[m][d] = IF out = "ok" /\ m = n /\ d = c THEN docker[m][d] + 1
                                                             ELSE docker[m][d]
    BY <2>1, <2>2, <2>3, DockerStarted
  <2>5. docker \in [Nodes -> [Containers -> Nat]]
    BY DEF TypeInv
  <2>6. DockerKept
    BY <2>4, <2>5, NothingRemoved
  <2>7. out = "ok" => docker'[n][c] > 0
    BY <2>3, <2>4, <2>5
  <2>8. CreateStarted(s)'
    BY <1>5, <2>1, <2>2, <2>7 DEF CreateStarted
  <2>9. RunningWritten
    BY <1>9, NothingWritten DEF CreateStart
  <2> QED
    BY <1>4, <1>5, <2>1, <2>6, <2>8, <2>9
<1>10. CASE CreateRecord(s)
  <2>1. PICK h : CreateGoes(s, h) /\ h.pc # "record"
    BY <1>10, CreateSteps
  <2>2. UNCHANGED docker
    BY <1>10 DEF CreateRecord, workers
  <2>3. /\ create[s].i \in 1..Replicas /\ create[s].cur \in Containers
        /\ SvcOf(create[s].cur) = s /\ create[s].pc = "record"
    BY <1>3, <1>10 DEF CreateForm, CreateRecord
  <2>4. PICK n, c : n = create[s].plan[create[s].i] /\ c = create[s].cur
    OBVIOUS
  <2>5. n \in Alive
    BY <2>3, <2>4, Constants DEF PlansAlive
  <2>6. RunningWritten
    <3>1. "PENDING" \in Statuses \ {"RUNNING"} /\ "FAILED" \in Statuses \ {"RUNNING"}
      BY DEF Statuses
    <3>2. CASE create[s].out = "ok"
      <4>1. AddContainer(c, n, "RUNNING")
        BY <1>10, <2>4, <3>2 DEF CreateRecord
      <4>2. Kept(s) => docker[n][c] > 0
        BY <2>3, <2>4, <3>2 DEF StartedInv, CreateStarted
      <4>3. c \in Containers /\ SvcOf(c) = s
        BY <2>3, <2>4
      <4> QED
        BY <2>5, <4>1, <4>2, <4>3, RunningAdded
    <3>3. CASE create[s].out # "ok"
      <4>1. SetContainerStatus(c, "PENDING") \/ SetContainerStatus(c, "FAILED")
        BY <1>3, <1>10, <2>4, <3>3 DEF CreateRecord, Creates, Outcomes
      <4>2. c \in Containers
        BY <2>3, <2>4
      <4> QED
        BY <3>1, <4>1, <4>2, OtherSet, NothingWritten
    <3> QED
      BY <3>2, <3>3
  <2> QED
    BY <1>4, <1>5, <2>1, <2>2, <2>6, WorkersKept DEF CreateStarted
<1> QED
  BY <1>6, <1>7, <1>8, <1>9, <1>10 DEF Create

\* deleteService removes and stops containers of a service that is not kept.
LEMMA DeleteKeepsStarted ==
  ASSUME TypeInv, PlansAlive, StartedInv, NEW s \in Services, Delete(s)
  PROVE  StartedInv'
<1>1. UNCHANGED <<status, create, recovery, retry, kill>>
  BY DEF Delete, DeleteList, DeleteKill, DeleteStop, RemoveService
<1>2. PICK h : DeleteGoes(s, h) /\ h.pc # "idle"
  BY DeleteSteps DEF Delete
<1>3. delete'[s] = h /\ \A x \in Services : x # s => delete'[x] = delete[x]
  BY <1>2 DEF TypeInv, DeleteGoes
<1>4. KeptBefore /\ ~ Kept(s)'
  BY <1>2, <1>3 DEF KeptBefore, Kept
<1>5. DockerKept
  <2>1. CASE docker' = docker
    BY <2>1, WorkersKept
  <2>2. ASSUME NEW n \in Nodes, RemoveDocker(n, {s}) PROVE DockerKept
    <3>1. \A m \in Nodes, d \in Containers : SvcOf(d) # s => docker'[m][d] = docker[m][d]
      BY <2>2, DockerRemoved
    <3> QED
      BY <1>4, <3>1 DEF DockerKept, Alive
  <2>3. docker' = docker \/ \E n \in Nodes : RemoveDocker(n, {s})
    BY DeleteSteps DEF Delete, DeleteList, DeleteStop, RemoveService, workers
  <2> QED
    BY <2>1, <2>2, <2>3
<1>6. RunningWritten
  <2>1. CASE DeleteStop(s)
    <3>1. delete[s].cur \in Containers /\ SetContainerStatus(delete[s].cur, "STOPPED")
      BY <2>1, DeleteSteps
    <3>2. "STOPPED" \in Statuses \ {"RUNNING"}
      BY DEF Statuses
    <3> QED
      BY <3>1, <3>2, OtherSet, NothingWritten
  <2>2. CASE rec' = rec
    BY <2>2, NothingWritten
  <2> QED
    BY <2>1, <2>2 DEF Delete, DeleteList, DeleteKill, RemoveService
<1> QED
  BY <1>1, <1>4, <1>5, <1>6, StartedKept DEF StartedInv

\* The recovery records a replacement that it has started (main.go:161-171).
LEMMA RecoveryKeepsStarted ==
  ASSUME TypeInv, PlansAlive, StartedInv, Recovery
  PROVE  StartedInv'
<1>1. UNCHANGED <<status, create, delete, retry, kill>>
  BY DEF Recovery, RecoveryList, RecoveryNext, RecoveryPlan, RecoveryStart, RecoveryRecord,
         RecoveryRecordInTime, RecoveryAdd, RecoveryEnd
<1>2. KeptBefore
  BY <1>1 DEF KeptBefore, Kept
<1>3. recovery \in Recoveries /\ RecoveryForm
  BY DEF TypeInv
<1>4. ASSUME DockerKept, RunningWritten, RecoveryStarted' PROVE StartedInv'
  BY <1>1, <1>2, <1>4, StartedKept DEF StartedInv
<1>5. CASE RecoveryList \/ RecoveryPlan \/ RecoveryEnd
  <2>1. UNCHANGED <<docker, rec>>
    BY <1>5 DEF RecoveryList, RecoveryPlan, RecoveryEnd, workers
  <2>2. recovery'.new = None \/ recovery'.pc = "start"
    BY <1>5, RecoverySteps
  <2> QED
    BY <1>4, <2>1, <2>2, WorkersKept, NothingWritten DEF RecoveryStarted
<1>6. ASSUME NEW c \in Containers, RecoveryNext(c) PROVE StartedInv'
  <2>1. docker' = docker /\ recovery'.new = None
    BY <1>6, RecoverySteps DEF RecoveryNext, workers
  <2>2. "RESCHEDULING" \in Statuses \ {"RUNNING"}
    BY DEF Statuses
  <2>3. RunningWritten
    BY <1>6, <2>2, OtherSet, NothingWritten DEF RecoveryNext
  <2> QED
    BY <1>4, <2>1, <2>3, WorkersKept DEF RecoveryStarted
<1>7. CASE RecoveryStart
  <2>1. PICK out \in Outcomes :
          /\ StartContainer(recovery.node, recovery.new, out)
          /\ recovery'.node = recovery.node
          /\ recovery'.new = IF out = "ok" THEN recovery.new ELSE None
    BY <1>7, RecoveryStartStep
  <2>2. PICK n, c : n = recovery.node /\ c = recovery.new
    OBVIOUS
  <2>3. n \in Nodes /\ c \in Containers
    BY <1>3, <1>7, <2>2 DEF RecoveryForm, RecoveryStart
  <2>4. /\ docker' \in [Nodes -> [Containers -> Nat]]
        /\ \A m \in Nodes, d \in Containers :
             docker'[m][d] = IF out = "ok" /\ m = n /\ d = c THEN docker[m][d] + 1
                                                             ELSE docker[m][d]
    BY <2>1, <2>2, <2>3, DockerStarted
  <2>5. docker \in [Nodes -> [Containers -> Nat]]
    BY DEF TypeInv
  <2>6. DockerKept
    BY <2>4, <2>5, NothingRemoved
  <2>7. out = "ok" => docker'[n][c] > 0
    BY <2>3, <2>4, <2>5
  <2>8. RecoveryStarted'
    BY <2>1, <2>2, <2>7 DEF RecoveryStarted
  <2>9. RunningWritten
    BY <1>7, NothingWritten DEF RecoveryStart
  <2> QED
    BY <1>4, <2>6, <2>8, <2>9
<1>8. CASE RecoveryRecord
  <2>1. recovery'.new = recovery.new /\ recovery'.node = recovery.node
    BY <1>8, RecoverySteps
  <2>2. recovery.pc = "record" /\ docker' = docker /\ recovery.cur \in Containers
    BY <1>3, <1>8 DEF RecoveryRecord, RecoveryForm, workers
  <2>3. RunningWritten
    <3>1. "STOPPED" \in Statuses \ {"RUNNING"} /\ "PENDING" \in Statuses \ {"RUNNING"}
      BY DEF Statuses
    <3>2. \/ SetContainerStatus(recovery.cur, "STOPPED")
          \/ SetContainerStatus(recovery.cur, "PENDING")
      BY <1>8 DEF RecoveryRecord
    <3> QED
      BY <2>2, <3>1, <3>2, OtherSet, NothingWritten
  <2>4. DockerKept
    BY <2>2, WorkersKept
  <2>5. RecoveryStarted'
    BY <1>2, <2>1, <2>2, <2>4, RecoveryStartedKept DEF StartedInv
  <2> QED
    BY <1>4, <2>3, <2>4, <2>5
<1>9. CASE RecoveryAdd
  <2>1. recovery'.new = None
    BY <1>9, RecoverySteps
  <2>2. recovery.pc = "add" /\ docker' = docker /\ recovery.new \in Containers
    BY <1>3, <1>9 DEF RecoveryAdd, RecoveryForm, workers
  <2>3. recovery.new # None
    BY <2>2, Constants
  <2>4. recovery.node \in Alive
    BY <2>3 DEF PlansAlive
  <2>5. Kept(SvcOf(recovery.new)) => docker[recovery.node][recovery.new] > 0
    BY <2>2, <2>3 DEF StartedInv, RecoveryStarted
  <2>6. RunningWritten
    BY <1>9, <2>2, <2>4, <2>5, RunningAdded DEF RecoveryAdd
  <2> QED
    BY <1>4, <2>1, <2>2, <2>6, WorkersKept DEF RecoveryStarted
<1> QED
  BY <1>5, <1>6, <1>7, <1>8, <1>9 DEF Recovery, RecoveryRecordInTime

\* The retry loop records what it has started (main.go:204-216).
LEMMA RetryKeepsStarted ==
  ASSUME TypeInv, PlansAlive, StartedInv, Retry
  PROVE  StartedInv'
<1>1. UNCHANGED <<status, create, delete, recovery, kill>>
  BY DEF Retry, RetryList, RetryPlan, RetryStart, RetryRecord, RetryEnd
<1>2. KeptBefore
  BY <1>1 DEF KeptBefore, Kept
<1>3. RetryForm
  BY DEF TypeInv
<1>4. ASSUME DockerKept, RunningWritten, RetryStarted' PROVE StartedInv'
  BY <1>1, <1>2, <1>4, StartedKept DEF StartedInv
<1>5. CASE RetryList \/ RetryEnd \/ \E s \in Services : RetryPlan(s)
  <2>1. UNCHANGED <<docker, rec>>
    BY <1>5 DEF RetryList, RetryPlan, RetryEnd, workers
  <2>2. retry'.pc # "record"
    BY <1>5, RetrySteps
  <2> QED
    BY <1>4, <2>1, <2>2, WorkersKept, NothingWritten DEF RetryStarted
<1>6. ASSUME NEW c \in Containers, RetryStart(c) PROVE StartedInv'
  <2>1. PICK out \in Outcomes :
          /\ c \in DOMAIN retry.plan
          /\ StartContainer(retry.plan[c], c, out)
          /\ retry'.plan = retry.plan /\ retry'.cur = c /\ retry'.out = out
    BY <1>6, RetryStartSteps
  <2>2. PICK n : n = retry.plan[c]
    OBVIOUS
  <2>3. n \in Nodes
    BY <2>1, <2>2, RetryPlanForm
  <2>4. /\ docker' \in [Nodes -> [Containers -> Nat]]
        /\ \A m \in Nodes, d \in Containers :
             docker'[m][d] = IF out = "ok" /\ m = n /\ d = c THEN docker[m][d] + 1
                                                             ELSE docker[m][d]
    BY <2>1, <2>2, <2>3, DockerStarted
  <2>5. docker \in [Nodes -> [Containers -> Nat]]
    BY DEF TypeInv
  <2>6. DockerKept
    BY <2>4, <2>5, NothingRemoved
  <2>7. out = "ok" => docker'[n][c] > 0
    BY <2>3, <2>4, <2>5
  <2>8. RetryStarted'
    BY <2>1, <2>2, <2>7 DEF RetryStarted
  <2>9. RunningWritten
    BY <1>6, NothingWritten DEF RetryStart
  <2> QED
    BY <1>4, <2>6, <2>8, <2>9
<1>7. CASE RetryRecord
  <2>1. retry.cur \in DOMAIN retry.plan /\ retry'.pc # "record"
    BY <1>7, RetryStartSteps
  <2>2. retry.pc = "record" /\ docker' = docker
    BY <1>7 DEF RetryRecord, workers
  <2>3. PICK n, c : n = retry.plan[retry.cur] /\ c = retry.cur
    OBVIOUS
  <2>4. c \in Containers /\ n \in Alive
    BY <2>1, <2>3, RetryPlanForm DEF PlansAlive
  <2>5. CASE retry.out = "ok"
    <3>1. AddContainer(c, n, "RUNNING")
      BY <1>7, <2>3, <2>5 DEF RetryRecord
    <3>2. Kept(SvcOf(c)) => docker[n][c] > 0
      BY <2>2, <2>3, <2>5 DEF StartedInv, RetryStarted
    <3>3. RunningWritten
      BY <2>4, <3>1, <3>2, RunningAdded
    <3> QED
      BY <1>4, <2>1, <2>2, <3>3, WorkersKept DEF RetryStarted
  <2>6. CASE retry.out # "ok"
    <3>1. rec' = rec
      BY <1>7, <2>6 DEF RetryRecord
    <3> QED
      BY <1>4, <2>1, <2>2, <3>1, WorkersKept, NothingWritten DEF RetryStarted
  <2> QED
    BY <2>5, <2>6
<1> QED
  BY <1>5, <1>6, <1>7 DEF Retry

\* A returning node's records are stopped before it counts as ALIVE again
\* (tolerance.go:118-150).
LEMMA KillKeepsStarted ==
  ASSUME TypeInv, PlansAlive, ListedInv, StartedInv, NEW n \in Nodes,
         LateHeartbeat(n) \/ Kill(n)
  PROVE  StartedInv'
<1>1. UNCHANGED <<create, delete, recovery, retry>>
  BY DEF Kill, LateHeartbeat, KillContainers, KillList, KillListInTime, KillStop, NodeBack
<1>2. KeptBefore
  BY <1>1 DEF KeptBefore, Kept
<1>3. ASSUME DockerKept, RunningWritten, UNCHANGED status
      PROVE  StartedInv'
  BY <1>1, <1>2, <1>3, StartedKept DEF StartedInv
<1>4. CASE LateHeartbeat(n) \/ KillList(n)
  <2>1. UNCHANGED <<status, docker, rec>>
    BY <1>4 DEF LateHeartbeat, KillList, workers
  <2> QED
    BY <1>3, <2>1, WorkersKept, NothingWritten
<1>5. CASE KillContainers(n)
  <2>1. docker' = docker \/ RemoveDocker(n, Services)
    BY <1>5, KillSteps
  <2>2. UNCHANGED <<status, rec>> /\ n \notin Alive
    BY <1>5 DEF KillContainers, TypeInv, KillForm, Alive
  <2>3. DockerKept
    <3>1. \A m \in Nodes, d \in Containers : m # n => docker'[m][d] = docker[m][d]
      BY <2>1, DockerRemoved
    <3> QED
      BY <2>2, <3>1 DEF DockerKept, Alive
  <2> QED
    BY <1>3, <2>2, <2>3, NothingWritten
<1>6. CASE KillStop(n)
  <2>1. PICK c \in Containers : SetContainerStatus(c, "STOPPED")
    BY <1>6, KillSteps
  <2>2. UNCHANGED <<status, docker>>
    BY <1>6 DEF KillStop, workers
  <2>3. "STOPPED" \in Statuses \ {"RUNNING"}
    BY DEF Statuses
  <2>4. RunningWritten
    BY <2>1, <2>3, OtherSet, NothingWritten
  <2> QED
    BY <1>3, <2>2, <2>4, WorkersKept
<1>7. CASE NodeBack(n)
  <2>1. /\ UNCHANGED <<docker, rec>> /\ kill[n].pc = "stop" /\ kill[n].todo = {}
        /\ status' = [status EXCEPT ![n] = "ALIVE"]
    BY <1>7 DEF NodeBack, workers
  <2>2. Alive' = Alive \cup {n}
    BY <2>1 DEF Alive, TypeInv
  <2>3. DockerKept /\ RunningWritten
    BY <2>1, WorkersKept, NothingWritten
  <2>4. AliveBefore
    BY <2>1, <2>2 DEF AliveBefore, ListedInv, RunningListed
  <2>5. RunningIsStarted'
    BY <1>2, <2>2, <2>3, <2>4, RunningKept DEF StartedInv
  <2>6. RecoveryStarted'
    BY <1>1, <1>2, <2>3, RecoveryStartedKept DEF StartedInv, RecoveryStarted
  <2>7. RetryStarted' /\ \A s \in Services : CreateStarted(s)'
    BY <1>1, <1>2, <2>3, RetryStartedKept, CreateStartedKept DEF StartedInv
  <2> QED
    BY <2>5, <2>6, <2>7 DEF StartedInv
<1> QED
  BY <1>4, <1>5, <1>6, <1>7 DEF Kill, KillListInTime

\* A death takes a node away from those whose records must be true.
LEMMA DeathKeepsStarted ==
  ASSUME TypeInv, PlansAlive, StartedInv, NEW n \in Nodes, MarkDead(n)
  PROVE  StartedInv'
<1>1. UNCHANGED <<rec, docker, create, delete, retry, kill>>
  BY DEF MarkDead, workers
<1>2. Alive' \subseteq Alive
  BY DEF Alive, MarkDead, TypeInv
<1>3. recovery'.new = None
  BY RecoverySteps
<1>4. RunningIsStarted'
  BY <1>1, <1>2 DEF StartedInv, RunningIsStarted
<1> QED
  BY <1>1, <1>3, <1>4 DEF StartedInv, CreateStarted, RetryStarted, RecoveryStarted, Kept

\* A StartContainer that nobody waits for adds a container.
LEMMA LateKeepsStarted ==
  ASSUME TypeInv, PlansAlive, StartedInv, TypeInv', NEW n \in Nodes, NEW c \in Containers,
         LateStart(n, c)
  PROVE  StartedInv'
<1>1. UNCHANGED <<status, rec, create, delete, recovery, retry, kill>>
  BY DEF LateStart
<1>2. docker \in [Nodes -> [Containers -> Nat]] /\ docker' \in [Nodes -> [Containers -> Nat]]
  BY DEF TypeInv
<1>3. \A m \in Nodes, d \in Containers : docker'[m][d] >= docker[m][d]
  <2>1. PICK D : D = [docker[n] EXCEPT ![c] = @ + 1]
    OBVIOUS
  <2>2. D[c] = docker[n][c] + 1 /\ \A d \in Containers : d # c => D[d] = docker[n][d]
    BY <1>2, <2>1
  <2>3. docker' = [docker EXCEPT ![n] = D]
    BY <1>2, <2>1 DEF LateStart
  <2> QED
    BY <1>2, <2>2, <2>3
<1>4. DockerKept /\ RunningWritten /\ KeptBefore
  BY <1>1, <1>2, <1>3, NothingRemoved, NothingWritten DEF KeptBefore, Kept
<1> QED
  BY <1>1, <1>4, StartedKept DEF StartedInv

\* A deletion's KillContainers that nobody waits for removes what is not kept.
LEMMA LateKillKeepsStarted ==
  ASSUME TypeInv, PlansAlive, StartedInv, OrphansDeleted, "overdue" \notin Faults,
         NEW x \in orphans, LateKill(x)
  PROVE  StartedInv'
<1>1. UNCHANGED <<status, rec, create, delete, recovery, retry, kill>>
  BY DEF LateKill
<1>2. x[1] \in Nodes /\ RemoveDocker(x[1], x[2])
  BY LateKillRemoves
<1>3. DockerKept
  <2> SUFFICES ASSUME NEW n \in Alive, NEW c \in Containers, Kept(SvcOf(c)), docker[n][c] > 0
               PROVE  docker'[n][c] > 0
    BY DEF DockerKept
  <2>1. SvcOf(c) \notin x[2]
    BY DEF OrphansDeleted
  <2> QED
    BY <1>2, <2>1, DockerRemoved DEF Alive
<1>4. RunningWritten /\ KeptBefore
  BY <1>1, NothingWritten DEF KeptBefore, Kept
<1> QED
  BY <1>1, <1>3, <1>4, StartedKept DEF StartedInv

\* No deletion becomes undone, and each abandons only kills of its own service.
LEMMA StepOrphans ==
  ASSUME TypeInv, OrphansDeleted, [Next]_vars
  PROVE  OrphansDeleted'
<1> SUFFICES ASSUME "overdue" \notin Faults
             PROVE  \A x \in orphans' : \A s \in x[2] : ~ Kept(s)'
  BY DEF OrphansDeleted
<1>1. ASSUME NEW s \in Services, Delete(s)
      PROVE  OrphansDeleted'
  <2>1. PICK h : DeleteGoes(s, h) /\ h.pc # "idle"
    BY <1>1, DeleteSteps DEF Delete
  <2>2. delete'[s] = h /\ \A x \in Services : x # s => delete'[x] = delete[x]
    BY <2>1 DEF TypeInv, DeleteGoes
  <2>3. ~ Kept(s)' /\ \A r \in Services : ~ Kept(r) => ~ Kept(r)'
    BY <2>1, <2>2 DEF Kept
  <2>4. orphans' = orphans \/ \E n \in MaybeNodes : orphans' = orphans \cup {<<n, {s}>>}
    <3>1. \A x \in delete[s].todo : x[2] \in MaybeNodes
      BY DEF TypeInv, Deletes
    <3> QED
      BY <1>1, <3>1 DEF Delete, DeleteList, DeleteKill, DeleteStop, RemoveService, AbandonKill,
                        workers
  <2>5. \A x \in orphans : x[2] \subseteq Services
    BY DEF TypeInv, OrphanSets
  <2> QED
    BY <2>3, <2>4, <2>5 DEF OrphansDeleted
<1>2. ASSUME NEW n \in Nodes, Kill(n)
      PROVE  UNCHANGED <<orphans, delete>>
  BY <1>2 DEF Kill, KillContainers, KillListInTime, KillList, KillStop, NodeBack, workers
<1>3. ASSUME NEW n \in Nodes, WorkerRestart(n) PROVE orphans' \subseteq orphans /\ delete' = delete
  BY <1>3 DEF WorkerRestart
<1>4. ASSUME NEW x \in orphans, LateKill(x) PROVE orphans' \subseteq orphans /\ delete' = delete
  BY <1>4 DEF LateKill
<1>5. ASSUME NEW s \in Services, Create(s) PROVE UNCHANGED <<orphans, delete>>
  <2>1. CASE CreateStart(s)
    BY <2>1 DEF CreateStart, StartContainer, workers
  <2> QED
    BY <1>5, <2>1, Zenon DEF Create, AddService, CreatePlan, CreatePending, CreateAdd, CreateRecord,
                             workers
<1>6. ASSUME Recovery \/ Retry PROVE UNCHANGED <<orphans, delete>>
  <2>1. ASSUME RecoveryStart \/ \E c \in Containers : RetryStart(c)
        PROVE  UNCHANGED <<orphans, delete>>
    BY <2>1 DEF RecoveryStart, RetryStart, StartContainer, workers
  <2> QED
    BY <1>6, <2>1, Zenon DEF Recovery, RecoveryList, RecoveryNext, RecoveryPlan, RecoveryRecord,
         RecoveryRecordInTime, RecoveryAdd, RecoveryEnd,
         Retry, RetryList, RetryPlan, RetryRecord, RetryEnd, workers
<1>7. ASSUME NEW n \in Nodes,
             \/ MarkDeadInTime(n) \/ LateHeartbeat(n)
             \/ \E c \in Containers : LateStart(n, c)
      PROVE  UNCHANGED <<orphans, delete>>
  BY <1>7 DEF MarkDeadInTime, MarkDead, LateHeartbeat, LateStart, workers
<1>8. CASE UNCHANGED vars
  BY <1>8 DEF vars, OrphansDeleted, Kept
<1>9. ASSUME orphans' \subseteq orphans, delete' = delete
      PROVE  \A x \in orphans' : \A s \in x[2] : ~ Kept(s)'
  BY <1>9 DEF OrphansDeleted, Kept
<1> QED
  BY <1>1, <1>2, <1>3, <1>4, <1>5, <1>6, <1>7, <1>8, <1>9 DEF Next, OrphansDeleted

\* Every step keeps RUNNING records true, if workers are not stopped in between and no kill
\* of a returning node is carried out late.
LEMMA StepStarted ==
  ASSUME TypeInv, PlansAlive, ListedInv, StartedInv, OrphansDeleted,
         "stop" \notin Faults, "overdue" \notin Faults, [Next]_vars
  PROVE  StartedInv'
<1>1. CASE UNCHANGED vars
  BY <1>1 DEF vars, workers, StartedInv, RunningIsStarted, CreateStarted, RetryStarted,
              RecoveryStarted, Kept, Alive
<1>2. ASSUME NEW n \in Nodes, WorkerRestart(n) PROVE StartedInv'
  BY <1>2 DEF WorkerRestart
<1>3. TypeInv'
  BY StepType
<1> QED
  BY <1>1, <1>2, <1>3, LateKillKeepsStarted, CreateKeepsStarted, DeleteKeepsStarted, RecoveryKeepsStarted,
     RetryKeepsStarted, KillKeepsStarted, DeathKeepsStarted, LateKeepsStarted DEF Next, MarkDeadInTime

\* Nothing is RUNNING when the program starts.
LEMMA InitStarted ==
  ASSUME Init
  PROVE  StartedInv /\ OrphansDeleted
BY DEF Init, StartedInv, RunningIsStarted, CreateStarted, RetryStarted, RecoveryStarted,
       OrphansDeleted

\* A record that says RUNNING on an ALIVE node tells the truth for every service that
\* nobody deletes: commands may fail, the master may give up waiting for a start or for
\* the kill of a deletion, a worker's Docker may refuse to remove containers, and
\* goroutines may overtake one another; recovery, retries and late kills stop a record before its node counts again
\* and record only what was started (server.go:363-383, main.go:161-171, 204-216,
\* tolerance.go:118-150).  Three things are excluded, and each makes a record lie: a
\* plan that a death overtakes, a worker that is stopped and back in between, and a
\* KillContainers of a returning node that the worker carries out after its master gave
\* up waiting for it (command.go:116-127, tolerance.go:139-142).
THEOREM RunningTellsTruth ==
  ASSUME "slow" \notin Faults, "stop" \notin Faults, "overdue" \notin Faults
  PROVE  Spec => []RunningIsStarted
<1>1. Init => StartedAll
  BY InitType, InitPlans, InitListed, InitStarted DEF StartedAll
<1>2. StartedAll /\ [Next]_vars => StartedAll'
  BY StepType, StepPlans, StepListed, StepStarted, StepOrphans DEF StartedAll
<1>3. StartedAll => RunningIsStarted
  BY DEF StartedAll, StartedInv
<1> QED
  BY <1>1, <1>2, <1>3, PTL DEF Spec

-----------------------------------------------------------------------------
(* Who has a container in hand. *)

\* A step of others than createService leaves the creation of c alone.
LEMMA InCreationKept ==
  ASSUME NEW c \in Containers, InCreation(c),
         create'[SvcOf(c)] = create[SvcOf(c)],
         SvcOf(c) \in services => SvcOf(c) \in services',
         \/ rec'[c] = rec[c]
         \/ /\ rec[c].st # "SCHEDULED" /\ rec'[c].st # "SCHEDULED"
            /\ rec[c].st # "NONE" \/ SvcOf(c) \in services
  PROVE  InCreation(c)'
BY DEF InCreation

\* A step of others than the recovery, and that no node's status depends on.
LEMMA InRecoveryKept ==
  ASSUME NEW c \in Containers, InRecovery(c), UNCHANGED <<status, recovery>>, rec'[c] = rec[c]
  PROVE  InRecovery(c)'
BY DEF InRecovery, Alive

\* A container that no recovery has in hand gets a new record.
LEMMA InRecoveryFree ==
  ASSUME NEW c \in Containers, InRecovery(c), UNCHANGED <<status, recovery>>,
         rec[c].st \notin {"RUNNING", "STOPPED", "RESCHEDULING"}, recovery.new # c,
         \/ rec'[c].st \in {"PENDING", "SCHEDULED", "FAILED"}
         \/ rec'[c].st = "RUNNING" /\ rec'[c].node \in Alive
  PROVE  InRecovery(c)'
BY DEF InRecovery, Alive

\* A step of others than the retry loop.
LEMMA InRetryKept ==
  ASSUME NEW c \in Containers, InRetry(c), UNCHANGED retry,
         rec'[c] = rec[c] \/ rec[c].st # "PENDING"
  PROVE  InRetry(c)'
BY DEF InRetry

\* A step of others than late kills.
LEMMA InKillKept ==
  ASSUME NEW c \in Containers, InKill(c), UNCHANGED kill, c \in ToRecover => c \in ToRecover'
  PROVE  InKill(c)'
BY DEF InKill

\* A SCHEDULED record names an ALIVE node.
LEMMA ScheduledAlive ==
  ASSUME TypeInv, PlansAlive, NEW c \in Containers, InCreation(c), rec[c].st = "SCHEDULED"
  PROVE  rec[c].node \in Alive
<1>1. PICK s \in Services : s = SvcOf(c)
  BY ServiceOf
<1>2. create[s].pc \in {"start", "record"} /\ rec[c].node = create[s].plan[create[s].i]
  BY <1>1 DEF InCreation
<1>3. create[s].i \in 1..Replicas
  BY <1>2 DEF TypeInv, CreateForm
<1> QED
  BY <1>2, <1>3, Constants DEF PlansAlive

\* createService takes a container in hand that nobody else knows and lets it go.
LEMMA CreateKeepsHands ==
  ASSUME TypeInv, PlansAlive, HandsInv, NEW s \in Services, Create(s)
  PROVE  HandsInv'
<1>1. UNCHANGED <<status, delete, recovery, retry, kill>> /\ services \subseteq services'
  BY DEF Create, AddService, CreatePlan, CreatePending, CreateAdd, CreateStart, CreateRecord
<1>2. create \in [Services -> Creates] /\ create[s] \in Creates /\ CreateForm(s)
  BY DEF TypeInv
<1>3. ListedDead' /\ \A c \in Containers : c \in ToRecover => c \in ToRecover'
  BY <1>1 DEF HandsInv, ListedDead, Alive, ToRecover
<1>4. ASSUME NEW h, CreateGoes(s, h)
      PROVE  /\ create'[s] = h
             /\ \A x \in Services : x # s => create'[x] = create[x]
  BY <1>2, <1>4 DEF CreateGoes
<1>5. ASSUME \A x \in Services : x # s => create'[x] = create[x],
             Kept(s) => s \in services',
             \A c \in Containers :
               \/ /\ SvcOf(c) # s
                  /\ rec'[c] = rec[c]
               \/ /\ SvcOf(c) = s
                  /\ Kept(s) => /\ InCreation(c)' /\ InRecovery(c)'
                                /\ rec'[c] = rec[c] \/ rec[c].st # "PENDING"
      PROVE  HandsInv'
  <2>1. ASSUME NEW x \in Services, Kept(x)', create'[x].pc # "new" PROVE x \in services'
    BY <1>1, <1>5, <2>1 DEF HandsInv, Kept
  <2>2. ASSUME NEW c \in Containers, Kept(SvcOf(c))'
        PROVE  InCreation(c)' /\ InRecovery(c)' /\ InRetry(c)' /\ InKill(c)'
    <3>1. SvcOf(c) \in Services /\ Kept(SvcOf(c))
      BY <1>1, <2>2, ServiceOf DEF Kept
    <3>2. InCreation(c) /\ InRecovery(c) /\ InRetry(c) /\ InKill(c)
      BY <3>1 DEF HandsInv
    <3>3. InKill(c)'
      BY <1>1, <1>3, <3>2, InKillKept
    <3>4. CASE SvcOf(c) # s
      BY <1>1, <1>5, <3>1, <3>2, <3>3, <3>4, InCreationKept, InRecoveryKept, InRetryKept
    <3>5. CASE SvcOf(c) = s
      BY <1>1, <1>5, <3>1, <3>2, <3>3, <3>5, InRetryKept
    <3> QED
      BY <3>4, <3>5
  <2> QED
    BY <1>3, <2>1, <2>2 DEF HandsInv
<1>6. ASSUME NEW c \in Containers, SvcOf(c) = s, Kept(s)
      PROVE  InCreation(c) /\ InRecovery(c) /\ InRetry(c)
  BY <1>6 DEF HandsInv
<1>7. ASSUME NEW h, CreateGoes(s, h), Kept(s) => s \in services', UNCHANGED rec,
             \/ create[s].pc \notin {"start", "record"} /\ h.pc \notin {"start", "record"}
             \/ /\ create[s].pc = "start" /\ h.pc = "record" /\ h.cur = create[s].cur
                /\ h.i = create[s].i /\ h.plan = create[s].plan
      PROVE  HandsInv'
  <2>1. ASSUME NEW c \in Containers, SvcOf(c) = s, Kept(s) PROVE InCreation(c)' /\ InRecovery(c)'
    <3>1. InCreation(c)'
      BY <1>1, <1>4, <1>6, <1>7, <2>1 DEF InCreation
    <3> QED
      BY <1>1, <1>6, <1>7, <2>1, <3>1, InRecoveryKept
  <2> QED
    BY <1>4, <1>5, <1>7, <2>1
<1>8. create[s].pc # "new" /\ Kept(s) => s \in services
  BY DEF HandsInv
<1>9. CASE AddService(s)
  <2>1. PICK h : CreateGoes(s, h) /\ h.pc = "plan"
    BY <1>9, CreateSteps
  <2>2. UNCHANGED rec /\ s \in services' /\ create[s].pc = "new"
    BY <1>9 DEF AddService
  <2> QED
    BY <1>7, <2>1, <2>2
<1>10. CASE CreatePlan(s)
  <2>1. PICK h : CreateGoes(s, h) /\ h.pc \in {"pending", "add"}
    BY <1>10, CreateSteps
  <2>2. UNCHANGED <<rec, services>> /\ create[s].pc = "plan"
    BY <1>10 DEF CreatePlan
  <2> QED
    BY <1>7, <1>8, <2>1, <2>2
<1>11. CASE CreateStart(s)
  <2>1. PICK h \in Creates, out \in Outcomes :
          /\ CreateGoes(s, h) /\ h.pc = "record"
          /\ h.i = create[s].i /\ h.plan = create[s].plan /\ h.cur = create[s].cur
    BY <1>11, CreateStartStep
  <2>2. UNCHANGED <<rec, services>> /\ create[s].pc = "start"
    BY <1>11 DEF CreateStart
  <2> QED
    BY <1>7, <1>8, <2>1, <2>2
<1>12. ASSUME NEW h, CreateGoes(s, h), NEW d \in Containers, SvcOf(d) = s,
              UNCHANGED services, create[s].pc # "new",
              \A c \in Containers : c # d => rec'[c] = rec[c],
              Kept(s) => InRecovery(d)' /\ rec[d].st # "PENDING",
              create[s].pc \in {"start", "record"} => create[s].cur = d,
              rec'[d].st # "NONE",
              \/ h.pc \notin {"start", "record"} /\ rec'[d].st # "SCHEDULED"
              \/ /\ h.pc \in {"start", "record"} /\ h.cur = d /\ rec'[d].st = "SCHEDULED"
                 /\ rec'[d].node = h.plan[h.i]
       PROVE  HandsInv'
  <2>1. ASSUME NEW c \in Containers, SvcOf(c) = s, Kept(s), c # d
        PROVE  InCreation(c)' /\ InRecovery(c)'
    <3>1. InCreation(c) /\ rec'[c] = rec[c]
      BY <1>6, <1>12, <2>1
    <3>2. InCreation(c)'
      BY <1>4, <1>12, <2>1, <3>1 DEF InCreation
    <3> QED
      BY <1>1, <1>6, <2>1, <3>1, <3>2, InRecoveryKept
  <2>2. Kept(s) => InCreation(d)'
    BY <1>4, <1>8, <1>12 DEF InCreation
  <2> QED
    BY <1>4, <1>5, <1>8, <1>12, <2>1, <2>2
<1>13. CASE CreatePending(s)
  <2>1. PICK h : CreateGoes(s, h) /\ h.pc \in {"done", "pending"}
    BY <1>13, CreateSteps
  <2>2. PICK d : d = Fresh(s)
    OBVIOUS
  <2>3. /\ d \in Containers /\ SvcOf(d) = s /\ rec[d].st = "NONE" /\ recovery.new # d
        /\ None \in MaybeNodes /\ "PENDING" \in Statuses
    BY <1>13, <2>2, FreshForm DEF CreatePending, MaybeNodes, Statuses
  <2>4. /\ AddContainer(d, None, "PENDING") /\ UNCHANGED services
        /\ create[s].pc = "pending"
    BY <1>13, <2>2 DEF CreatePending
  <2>5. rec'[d].st = "PENDING"
    BY <2>3, <2>4, AddedStatus
  <2>6. \A c \in Containers : c # d => rec'[c] = rec[c]
    BY <2>3, <2>4, RecordAdded
  <2>7. Kept(s) => InRecovery(d)'
    BY <1>1, <1>6, <2>3, <2>5, InRecoveryFree
  <2> QED
    BY <1>12, <2>1, <2>3, <2>4, <2>5, <2>6, <2>7
<1>14. CASE CreateAdd(s)
  <2>1. PICK h : /\ CreateGoes(s, h) /\ h.pc = "start" /\ h.cur = Fresh(s)
                 /\ h.i = create[s].i /\ h.plan = create[s].plan
    BY <1>14, CreateSteps
  <2>2. PICK d, n : d = Fresh(s) /\ n = create[s].plan[create[s].i]
    OBVIOUS
  <2>3. /\ d \in Containers /\ SvcOf(d) = s /\ rec[d].st = "NONE" /\ recovery.new # d
        /\ n \in MaybeNodes /\ "SCHEDULED" \in Statuses
    BY <1>2, <1>14, <2>2, FreshForm DEF CreateForm, CreateAdd, MaybeNodes, Statuses
  <2>4. /\ AddContainer(d, n, "SCHEDULED") /\ UNCHANGED services
        /\ create[s].pc = "add"
    BY <1>14, <2>2 DEF CreateAdd
  <2>5. rec'[d].st = "SCHEDULED" /\ rec'[d].node = n
    BY <2>3, <2>4, AddedStatus
  <2>6. \A c \in Containers : c # d => rec'[c] = rec[c]
    BY <2>3, <2>4, RecordAdded
  <2>7. Kept(s) => InRecovery(d)'
    BY <1>1, <1>6, <2>3, <2>5, InRecoveryFree
  <2> QED
    BY <1>12, <2>1, <2>2, <2>3, <2>4, <2>5, <2>6, <2>7
<1>15. CASE CreateRecord(s)
  <2>1. PICK h : CreateGoes(s, h) /\ h.pc \in {"done", "add"}
    BY <1>15, CreateSteps
  <2>2. PICK d, n : d = create[s].cur /\ n = create[s].plan[create[s].i]
    OBVIOUS
  <2>3. /\ d \in Containers /\ SvcOf(d) = s /\ create[s].i \in 1..Replicas
        /\ create[s].pc = "record" /\ UNCHANGED services
    BY <1>2, <1>15, <2>2 DEF CreateForm, CreateRecord
  <2>4. n \in Alive
    BY <2>2, <2>3, Constants DEF PlansAlive
  <2>5. Kept(s) => rec[d].st = "SCHEDULED"
    BY <1>6, <2>2, <2>3 DEF InCreation
  <2>6. /\ "RUNNING" \in Statuses /\ "PENDING" \in Statuses /\ "FAILED" \in Statuses
        /\ n \in MaybeNodes
    BY <2>4 DEF Statuses, MaybeNodes, Alive
  <2>7. \/ AddContainer(d, n, "RUNNING")
        \/ \E st \in {"PENDING", "FAILED"} : SetContainerStatus(d, st)
    BY <1>2, <1>15, <2>2 DEF CreateRecord, Creates, Outcomes
  <2>8. \A c \in Containers : c # d => rec'[c] = rec[c]
    <3>1. CASE AddContainer(d, n, "RUNNING")
      BY <2>3, <2>6, <3>1, RecordAdded
    <3>2. ASSUME NEW st \in {"PENDING", "FAILED"}, SetContainerStatus(d, st)
          PROVE  \A c \in Containers : c # d => rec'[c] = rec[c]
      BY <2>3, <2>6, <3>2, RecordSet
    <3> QED
      BY <2>7, <3>1, <3>2
  <2>9. Kept(s) => \/ rec'[d].st = "RUNNING" /\ rec'[d].node = n
                   \/ rec'[d].st \in {"PENDING", "FAILED"}
    <3>1. CASE AddContainer(d, n, "RUNNING")
      <4>1. rec'[d].st = "RUNNING" /\ rec'[d].node = n
        BY <2>3, <2>6, <3>1, AddedStatus
      <4> QED
        BY <4>1
    <3>2. ASSUME NEW st \in {"PENDING", "FAILED"}, SetContainerStatus(d, st)
          PROVE  Kept(s) => rec'[d].st = st
      BY <2>3, <2>5, <2>6, <3>2, RecordSet
    <3> QED
      BY <2>7, <3>1, <3>2
  <2>10. Kept(s) => InRecovery(d)'
    <3>1. Kept(s) => recovery.new # d
      BY <1>6, <2>3, <2>5 DEF InRecovery
    <3> QED
      BY <1>1, <1>6, <2>3, <2>4, <2>5, <2>9, <3>1, InRecoveryFree
  <2>11. CASE Kept(s)
    BY <1>12, <2>1, <2>2, <2>3, <2>5, <2>8, <2>9, <2>10, <2>11
  <2>12. CASE ~ Kept(s)
    BY <1>4, <1>5, <2>1, <2>3, <2>8, <2>12
  <2> QED
    BY <2>11, <2>12
<1> QED
  BY <1>9, <1>10, <1>11, <1>13, <1>14, <1>15 DEF Create

\* A step of others than createService: what is left to show of it.
LEMMA HandsStep ==
  ASSUME TypeInv, HandsInv, ListedDead', UNCHANGED create, KeptBefore,
         \A s \in Services : Kept(s)' /\ s \in services => s \in services',
         \A c \in Containers :
           /\ Kept(SvcOf(c)) /\ Kept(SvcOf(c))'
           /\ InCreation(c) /\ InRecovery(c) /\ InRetry(c) /\ InKill(c)
           => InCreation(c)' /\ InRecovery(c)' /\ InRetry(c)' /\ InKill(c)'
  PROVE  HandsInv'
<1>1. ASSUME NEW s \in Services, Kept(s)', create'[s].pc # "new" PROVE s \in services'
  BY <1>1 DEF HandsInv, KeptBefore
<1>2. ASSUME NEW c \in Containers, Kept(SvcOf(c))'
      PROVE  InCreation(c)' /\ InRecovery(c)' /\ InRetry(c)' /\ InKill(c)'
  BY <1>2, ServiceOf DEF HandsInv, KeptBefore
<1> QED
  BY <1>1, <1>2 DEF HandsInv

\* deleteService only touches its own service.
LEMMA DeleteKeepsHands ==
  ASSUME TypeInv, HandsInv, NEW s \in Services, Delete(s)
  PROVE  HandsInv'
<1>1. UNCHANGED <<status, create, recovery, retry, kill>>
  BY DEF Delete, DeleteList, DeleteKill, DeleteStop, RemoveService
<1>2. PICK h : DeleteGoes(s, h) /\ h.pc # "idle"
  BY DeleteSteps DEF Delete
<1>3. delete'[s] = h /\ \A x \in Services : x # s => delete'[x] = delete[x]
  BY <1>2 DEF TypeInv, DeleteGoes
<1>4. KeptBefore /\ ~ Kept(s)'
  BY <1>2, <1>3 DEF KeptBefore, Kept
<1>5. \A x \in services : x # s => x \in services'
  BY DEF Delete, DeleteList, DeleteKill, DeleteStop, RemoveService
<1>6. \A c \in Containers : SvcOf(c) # s => rec'[c] = rec[c]
  <2>1. CASE DeleteStop(s)
    <3>1. PICK d \in Containers : SvcOf(d) = s /\ SetContainerStatus(d, "STOPPED")
      BY <2>1, DeleteSteps
    <3>2. "STOPPED" \in Statuses
      BY DEF Statuses
    <3> QED
      BY <3>1, <3>2, RecordSet
  <2>2. CASE rec' = rec
    BY <2>2
  <2> QED
    BY <2>1, <2>2 DEF Delete, DeleteList, DeleteKill, RemoveService
<1>7. ListedDead' /\ \A c \in Containers : c \in ToRecover => c \in ToRecover'
  BY <1>1 DEF HandsInv, ListedDead, Alive, ToRecover
<1>8. ASSUME NEW c \in Containers, Kept(SvcOf(c))',
             InCreation(c), InRecovery(c), InRetry(c), InKill(c)
      PROVE  InCreation(c)' /\ InRecovery(c)' /\ InRetry(c)' /\ InKill(c)'
  <2>1. SvcOf(c) # s
    BY <1>4, <1>8
  <2> QED
    BY <1>1, <1>5, <1>6, <1>7, <1>8, <2>1, InCreationKept, InRecoveryKept, InRetryKept, InKillKept
<1> QED
  BY <1>1, <1>4, <1>5, <1>7, <1>8, HandsStep

\* A recovery takes what is RUNNING on its node in hand, one replica after the other, and
\* ends with each of them replaced, STOPPED or PENDING (main.go:138-173).
LEMMA RecoveryKeepsHands ==
  ASSUME TypeInv, PlansAlive, HandsInv, "preempt" \notin Faults, Recovery
  PROVE  HandsInv'
<1>1. UNCHANGED <<status, services, create, delete, retry, kill>>
  BY DEF Recovery, RecoveryList, RecoveryNext, RecoveryPlan, RecoveryStart, RecoveryRecord,
         RecoveryRecordInTime, RecoveryAdd, RecoveryEnd
<1>2. KeptBefore
  BY <1>1 DEF KeptBefore, Kept
<1>3. recovery \in Recoveries /\ RecoveryForm
  BY DEF TypeInv
<1>4. recovery'.pc # "list"
  BY RecoverySteps, RecoveryStartStep DEF Recovery, RecoveryRecordInTime
<1>5. ListedDead'
  BY <1>4 DEF ListedDead
<1>6. Alive' = Alive
  BY <1>1 DEF Alive
<1>7. SUFFICES ASSUME NEW c \in Containers, Kept(SvcOf(c)),
                      InCreation(c), InRecovery(c), InRetry(c), InKill(c)
               PROVE  InCreation(c)' /\ InRecovery(c)' /\ InRetry(c)' /\ InKill(c)'
  BY <1>1, <1>2, <1>5, HandsStep
<1>8. ASSUME rec'[c] = rec[c], InRecovery(c)', c \in ToRecover => c \in ToRecover'
      PROVE  InCreation(c)' /\ InRecovery(c)' /\ InRetry(c)' /\ InKill(c)'
  BY <1>1, <1>7, <1>8, InCreationKept, InRetryKept, InKillKept
<1>9. CASE RecoveryList
  <2>1. /\ recovery'.pc = "next" /\ recovery'.todo = ActiveOn(recovery.node)
        /\ recovery'.new = None /\ rec' = rec
    BY <1>9, RecoverySteps DEF RecoveryList
  <2>2. /\ recovery.pc = "list" /\ recovery.todo = {} /\ recovery.node \notin Alive
        /\ None \notin Containers
    BY <1>3, <1>9, Constants DEF RecoveryList, RecoveryForm, HandsInv, ListedDead
  <2>3. c \notin ToRecover
    BY <2>2 DEF ToRecover
  <2>4. rec[c].st = "SCHEDULED" => rec[c].node \in Alive
    BY <1>7, ScheduledAlive
  <2>5. InRecovery(c)'
    BY <1>6, <1>7, <2>1, <2>2, <2>4 DEF InRecovery, ActiveOn
  <2> QED
    BY <1>8, <2>1, <2>3, <2>5
<1>10. ASSUME NEW d \in Containers, RecoveryNext(d)
       PROVE  InCreation(c)' /\ InRecovery(c)' /\ InRetry(c)' /\ InKill(c)'
  <2>1. /\ recovery'.pc = "plan" /\ recovery'.cur = d
        /\ recovery'.todo = recovery.todo \ {d} /\ recovery'.new = None
    BY <1>10, RecoverySteps
  <2>2. recovery.pc = "next" /\ d \in recovery.todo /\ None \notin Containers
    BY <1>10, Constants DEF RecoveryNext
  <2>3. SetContainerStatus(d, "RESCHEDULING") /\ "RESCHEDULING" \in Statuses
    BY <1>10 DEF RecoveryNext, Statuses
  <2>4. c \in ToRecover => c \in ToRecover'
    BY <2>1, <2>2 DEF ToRecover
  <2>5. CASE c # d
    <3>1. rec'[c] = rec[c]
      BY <2>3, <2>5, RecordSet
    <3>2. InRecovery(c)'
      BY <1>6, <1>7, <2>1, <2>2, <2>5, <3>1 DEF InRecovery
    <3> QED
      BY <1>8, <2>4, <3>1, <3>2
  <2>6. CASE c = d
    <3>1. rec[c].st \in {"RUNNING", "STOPPED"}
      BY <1>7, <2>2, <2>6 DEF InRecovery
    <3>2. rec'[c].st = "RESCHEDULING"
      BY <2>3, <2>6, <3>1, RecordSet
    <3>3. InRecovery(c)'
      BY <2>1, <2>2, <2>6, <3>2 DEF InRecovery
    <3> QED
      BY <1>1, <1>7, <2>4, <3>1, <3>2, <3>3, InCreationKept, InRetryKept, InKillKept
  <2> QED
    BY <2>5, <2>6
<1>11. CASE RecoveryPlan
  <2>1. rec' = rec /\ recovery.pc = "plan" /\ recovery.cur \in Containers /\ None \notin Containers
    BY <1>3, <1>11, Constants DEF RecoveryPlan, RecoveryForm
  <2>2. recovery'.todo = recovery.todo
    BY <1>11, RecoverySteps
  <2>3. \/ /\ SvcOf(recovery.cur) \notin services
           /\ recovery'.pc = "next" /\ recovery'.new = None
        \/ /\ recovery'.pc \in {"record", "start"} /\ recovery'.cur = recovery.cur
           /\ recovery'.new = c => rec[c].st = "NONE"
    <3>1. SvcOf(recovery.cur) \in Services
      BY <2>1, ServiceOf
    <3>2. Unused(SvcOf(recovery.cur)) # {} => rec[Fresh(SvcOf(recovery.cur))].st = "NONE"
      BY <3>1, FreshForm
    <3> QED
      BY <1>11, <2>1, <3>2, RecoverySteps
  <2>4. CASE SvcOf(recovery.cur) \notin services /\ recovery'.pc = "next" /\ recovery'.new = None
    <3>1. c # recovery.cur
      BY <1>7, <2>1, <2>4 DEF InRecovery, InCreation
    <3>2. InRecovery(c)' /\ (c \in ToRecover => c \in ToRecover')
      BY <1>6, <1>7, <2>1, <2>2, <2>4, <3>1 DEF InRecovery, ToRecover
    <3> QED
      BY <1>8, <2>1, <3>2
  <2>5. CASE /\ recovery'.pc \in {"record", "start"} /\ recovery'.cur = recovery.cur
             /\ recovery'.new = c => rec[c].st = "NONE"
    <3>1. InRecovery(c)' /\ (c \in ToRecover => c \in ToRecover')
      BY <1>6, <1>7, <2>1, <2>2, <2>5 DEF InRecovery, ToRecover
    <3> QED
      BY <1>8, <2>1, <3>1
  <2> QED
    BY <2>3, <2>4, <2>5
<1>12. CASE RecoveryStart
  <2>1. PICK out \in Outcomes :
          /\ recovery'.pc = "record"
          /\ recovery'.todo = recovery.todo /\ recovery'.cur = recovery.cur
          /\ recovery'.new = IF out = "ok" THEN recovery.new ELSE None
    BY <1>12, RecoveryStartStep
  <2>2. rec' = rec /\ recovery.pc = "start" /\ None \notin Containers
    BY <1>12, Constants DEF RecoveryStart
  <2>3. InRecovery(c)' /\ (c \in ToRecover => c \in ToRecover')
    BY <1>6, <1>7, <2>1, <2>2 DEF InRecovery, ToRecover
  <2> QED
    BY <1>8, <2>2, <2>3
<1>13. CASE RecoveryRecordInTime
  <2>1. /\ recovery'.todo = recovery.todo
        /\ recovery'.cur = recovery.cur /\ recovery'.new = recovery.new
        /\ recovery'.pc = IF recovery.out = "ok" THEN "add" ELSE "next"
    BY <1>13, RecoverySteps DEF RecoveryRecordInTime
  <2>2. PICK d, st : d = recovery.cur /\ st = IF recovery.out = "ok" THEN "STOPPED" ELSE "PENDING"
    OBVIOUS
  <2>3. /\ recovery.pc = "record" /\ d \in Containers /\ st \in Statuses
        /\ \A n \in Nodes : d \notin kill[n].todo
        /\ SetContainerStatus(d, st)
    BY <1>3, <1>13, <2>2 DEF RecoveryRecord, RecoveryRecordInTime, RecoveryForm, Statuses
  <2>4. CASE c # d
    <3>1. rec'[c] = rec[c]
      BY <2>3, <2>4, RecordSet
    <3>2. InRecovery(c)' /\ (c \in ToRecover => c \in ToRecover')
      BY <1>6, <1>7, <2>1, <2>2, <2>3, <2>4, <3>1 DEF InRecovery, ToRecover
    <3> QED
      BY <1>8, <3>1, <3>2
  <2>5. CASE c = d
    <3>1. rec[c].st \in {"RESCHEDULING", "STOPPED"} /\ c \notin recovery.todo
      BY <1>7, <2>2, <2>3, <2>5 DEF InRecovery
    <3>2. rec'[c].st = st
      BY <2>3, <2>5, <3>1, RecordSet
    <3>3. InRecovery(c)'
      BY <1>7, <2>1, <2>2, <2>5, <3>1, <3>2 DEF InRecovery
    <3>4. InCreation(c)' /\ InRetry(c)'
      BY <1>1, <1>7, <2>2, <3>1, <3>2, InCreationKept, InRetryKept
    <3>5. InKill(c)'
      BY <1>1, <2>3, <2>5 DEF InKill
    <3> QED
      BY <3>3, <3>4, <3>5
  <2> QED
    BY <2>4, <2>5
<1>14. CASE RecoveryAdd
  <2>1. recovery'.todo = recovery.todo /\ recovery'.pc = "next" /\ recovery'.new = None
    BY <1>14, RecoverySteps
  <2>2. PICK d, n : d = recovery.new /\ n = recovery.node
    OBVIOUS
  <2>3. /\ recovery.pc = "add" /\ d \in Containers /\ d # None /\ None \notin Containers
        /\ SvcOf(d) = SvcOf(recovery.cur) /\ recovery.cur \in Containers
        /\ AddContainer(d, n, "RUNNING") /\ "RUNNING" \in Statuses
    BY <1>3, <1>14, <2>2, Constants DEF RecoveryAdd, RecoveryForm, Statuses
  <2>4. n \in Alive /\ n \in MaybeNodes /\ n \in Nodes
    BY <2>2, <2>3 DEF PlansAlive, Alive, MaybeNodes
  <2>5. c \in ToRecover => c \in ToRecover'
    BY <2>1, <2>3 DEF ToRecover
  <2>6. CASE c # d
    <3>1. rec'[c] = rec[c]
      BY <2>3, <2>4, <2>6, RecordAdded
    <3>2. InRecovery(c)'
      BY <1>6, <1>7, <2>1, <2>3, <3>1 DEF InRecovery
    <3> QED
      BY <1>8, <2>5, <3>1, <3>2
  <2>7. CASE c = d
    <3>1. rec'[c].st = "RUNNING" /\ rec'[c].node = n
      BY <2>3, <2>4, <2>7, AddedStatus
    <3>2. rec[c].st = "NONE"
      BY <1>7, <2>2, <2>7 DEF InRecovery
    <3>3. SvcOf(c) \in services
      <4>1. InCreation(recovery.cur) /\ InRecovery(recovery.cur)
        BY <1>7, <2>3, <2>7 DEF HandsInv
      <4> QED
        BY <2>3, <2>7, <4>1 DEF InCreation, InRecovery
    <3>4. InRecovery(c)'
      BY <1>6, <1>7, <2>1, <2>3, <2>4, <3>1, <3>2 DEF InRecovery
    <3> QED
      BY <1>1, <1>7, <2>5, <3>1, <3>2, <3>3, <3>4, InCreationKept, InRetryKept, InKillKept
  <2> QED
    BY <2>6, <2>7
<1>15. CASE RecoveryEnd
  <2>1. /\ recovery'.todo = {} /\ recovery.todo = {}
        /\ recovery'.pc = "idle" /\ recovery'.new = None
    BY <1>15, RecoverySteps
  <2>2. rec' = rec /\ recovery.pc = "next" /\ None \notin Containers
    BY <1>15, Constants DEF RecoveryEnd
  <2>3. InRecovery(c)' /\ (c \in ToRecover => c \in ToRecover')
    BY <1>6, <1>7, <2>1, <2>2 DEF InRecovery, ToRecover
  <2> QED
    BY <1>8, <2>2, <2>3
<1> QED
  BY <1>9, <1>10, <1>11, <1>12, <1>13, <1>14, <1>15 DEF Recovery, RecoveryRecordInTime

\* The retry loop works on what was PENDING when it looked, and records what it has
\* started (main.go:177-219).
LEMMA RetryKeepsHands ==
  ASSUME TypeInv, PlansAlive, HandsInv, Retry
  PROVE  HandsInv'
<1>1. UNCHANGED <<status, services, create, delete, recovery, kill>>
  BY DEF Retry, RetryList, RetryPlan, RetryStart, RetryRecord, RetryEnd
<1>2. KeptBefore
  BY <1>1 DEF KeptBefore, Kept
<1>3. ListedDead' /\ \A c \in Containers : c \in ToRecover => c \in ToRecover'
  BY <1>1 DEF HandsInv, ListedDead, Alive, ToRecover
<1>4. SUFFICES ASSUME NEW c \in Containers, Kept(SvcOf(c)),
                      InCreation(c), InRecovery(c), InRetry(c), InKill(c)
               PROVE  InCreation(c)' /\ InRecovery(c)' /\ InRetry(c)' /\ InKill(c)'
  BY <1>1, <1>2, <1>3, HandsStep
<1>5. ASSUME rec'[c] = rec[c], InRetry(c)'
      PROVE  InCreation(c)' /\ InRecovery(c)' /\ InRetry(c)' /\ InKill(c)'
  BY <1>1, <1>3, <1>4, <1>5, InCreationKept, InRecoveryKept, InKillKept
<1>6. CASE RetryList
  <2>1. retry'.todo = Pending /\ retry'.plan = retry.plan
    BY <1>6, RetrySteps
  <2>2. DOMAIN retry.plan = {} /\ rec' = rec
    BY <1>6 DEF RetryList, TypeInv, RetryForm
  <2>3. InRetry(c)'
    BY <2>1, <2>2 DEF InRetry, Pending
  <2> QED
    BY <1>5, <2>2, <2>3
<1>7. ASSUME NEW s \in Services, RetryPlan(s)
      PROVE  InCreation(c)' /\ InRecovery(c)' /\ InRetry(c)' /\ InKill(c)'
  <2>1. PICK group : group = {d \in retry.todo : SvcOf(d) = s}
    OBVIOUS
  <2>2. /\ retry'.todo = {d \in retry.todo : SvcOf(d) # s}
        /\ retry'.plan = retry.plan \/ DOMAIN retry'.plan = group
    BY <1>7, <2>1, RetrySteps
  <2>3. rec' = rec
    BY <1>7 DEF RetryPlan
  <2>4. InRetry(c)'
    BY <1>4, <2>1, <2>2, <2>3 DEF InRetry
  <2> QED
    BY <1>5, <2>3, <2>4
<1>8. ASSUME NEW d \in Containers, RetryStart(d)
      PROVE  InCreation(c)' /\ InRecovery(c)' /\ InRetry(c)' /\ InKill(c)'
  <2>1. retry'.todo = retry.todo /\ retry'.plan = retry.plan
    BY <1>8, RetryStartSteps
  <2>2. rec' = rec
    BY <1>8 DEF RetryStart
  <2>3. InRetry(c)'
    BY <1>4, <2>1, <2>2 DEF InRetry
  <2> QED
    BY <1>5, <2>2, <2>3
<1>9. CASE RetryRecord
  <2>1. /\ retry.cur \in DOMAIN retry.plan /\ retry'.todo = retry.todo
        /\ DOMAIN retry'.plan = DOMAIN retry.plan \ {retry.cur}
    BY <1>9, RetryStartSteps
  <2>2. PICK d, n : d = retry.cur /\ n = retry.plan[retry.cur]
    OBVIOUS
  <2>3. d \in Containers /\ n \in Alive
    BY <2>1, <2>2, RetryPlanForm DEF PlansAlive
  <2>4. AddContainer(d, n, "RUNNING") \/ rec' = rec
    BY <1>9, <2>2 DEF RetryRecord
  <2>5. CASE rec'[c] = rec[c]
    <3>1. InRetry(c)'
      BY <1>4, <2>1, <2>5 DEF InRetry
    <3> QED
      BY <1>5, <2>5, <3>1
  <2>6. CASE c = d /\ AddContainer(d, n, "RUNNING")
    <3>1. n \in MaybeNodes /\ "RUNNING" \in Statuses
      BY <2>3 DEF Alive, MaybeNodes, Statuses
    <3>2. rec'[c].st = "RUNNING" /\ rec'[c].node = n
      <4>1. rec'[d].st = "RUNNING" /\ rec'[d].node = n
        BY <2>3, <2>6, <3>1, AddedStatus
      <4> QED
        BY <2>6, <4>1
    <3>3. rec[c].st = "PENDING" /\ c \notin retry.todo
      BY <1>4, <2>1, <2>2, <2>6 DEF InRetry
    <3>4. InRetry(c)'
      BY <2>1, <2>2, <2>6, <3>3 DEF InRetry
    <3>5. recovery.new # c
      BY <1>4, <3>3 DEF InRecovery
    <3>6. InRecovery(c)'
      BY <1>1, <1>4, <2>3, <3>2, <3>3, <3>5, InRecoveryFree
    <3> QED
      BY <1>1, <1>3, <1>4, <3>2, <3>3, <3>4, <3>6, InCreationKept, InKillKept
  <2>7. c # d => rec'[c] = rec[c]
    BY <2>3, <2>4, AddedOnAlive
  <2> QED
    BY <2>4, <2>5, <2>6, <2>7
<1>10. CASE RetryEnd
  <2>1. retry'.todo = {} /\ retry'.plan = retry.plan
    BY <1>10, RetrySteps
  <2>2. rec' = rec
    BY <1>10 DEF RetryEnd
  <2>3. InRetry(c)'
    BY <1>4, <2>1, <2>2 DEF InRetry
  <2> QED
    BY <1>5, <2>2, <2>3
<1> QED
  BY <1>6, <1>7, <1>8, <1>9, <1>10 DEF Retry

\* The goroutine of HandleLateHeartbeat only stops what a recovery has still to see to,
\* and a node is back when nothing is RUNNING on it (tolerance.go:118-150).
LEMMA KillKeepsHands ==
  ASSUME TypeInv, PlansAlive, ListedInv, HandsInv, "preempt" \notin Faults, NEW n \in Nodes,
         LateHeartbeat(n) \/ Kill(n)
  PROVE  HandsInv'
<1>1. UNCHANGED <<services, create, delete, recovery, retry>>
  BY DEF Kill, LateHeartbeat, KillContainers, KillList, KillListInTime, KillStop, NodeBack
<1>2. KeptBefore
  BY <1>1 DEF KeptBefore, Kept
<1>3. \A c \in Containers : c \in ToRecover <=> c \in ToRecover'
  BY <1>1 DEF ToRecover
<1>4. kill \in [Nodes -> Kills] /\ (kill[n].pc # "off" => n \notin Alive)
  BY DEF TypeInv, KillForm, Alive
<1>5. ASSUME NEW h, KillGoes(n, h)
      PROVE  kill'[n] = h /\ \A m \in Nodes : m # n => kill'[m] = kill[m]
  BY <1>4, <1>5 DEF KillGoes
<1>6. recovery.pc = "list" => /\ recovery.node \in Nodes /\ recovery.node \notin Alive
                              /\ kill[recovery.node].pc # "stop"
  BY DEF HandsInv, ListedDead, TypeInv, RecoveryForm
<1>7. ASSUME NEW h, KillGoes(n, h), UNCHANGED <<status, rec>>,
             recovery.pc = "list" /\ recovery.node = n => h.pc # "stop",
             \A c \in Containers : Kept(SvcOf(c)) /\ c \in h.todo =>
               \/ c \in kill[n].todo /\ kill[n].pc # "stop"
               \/ c \in ToRecover /\ h.pc = "stop"
      PROVE  HandsInv'
  <2>1. ListedDead'
    BY <1>1, <1>5, <1>6, <1>7 DEF ListedDead, Alive
  <2>2. ASSUME NEW c \in Containers, Kept(SvcOf(c)),
               InCreation(c), InRecovery(c), InRetry(c), InKill(c)
        PROVE  InCreation(c)' /\ InRecovery(c)' /\ InRetry(c)' /\ InKill(c)'
    <3>1. InKill(c)'
      BY <1>3, <1>5, <1>7, <2>2 DEF InKill
    <3> QED
      BY <1>1, <1>7, <2>2, <3>1, InCreationKept, InRecoveryKept, InRetryKept
  <2> QED
    BY <1>1, <1>2, <2>1, <2>2, HandsStep
<1>8. CASE LateHeartbeat(n) \/ KillContainers(n)
  <2>1. PICK h : KillGoes(n, h) /\ h.pc # "stop" /\ h.todo = kill[n].todo
    BY <1>8, KillSteps
  <2>2. UNCHANGED <<status, rec>> /\ kill[n].pc # "stop"
    BY <1>8 DEF LateHeartbeat, KillContainers
  <2> QED
    BY <1>7, <2>1, <2>2
<1>9. CASE KillListInTime(n)
  <2>1. PICK h : KillGoes(n, h) /\ h.pc = "stop" /\ h.todo = ActiveOn(n)
    BY <1>9, KillSteps DEF KillListInTime
  <2>2. /\ UNCHANGED <<status, rec>> /\ n \notin Alive
        /\ recovery.pc # "list" \/ recovery.node # n
    BY <1>4, <1>9 DEF KillList, KillListInTime
  <2>3. ASSUME NEW c \in Containers, Kept(SvcOf(c)), c \in ActiveOn(n)
        PROVE  c \in ToRecover
    <3>1. InCreation(c) /\ InRecovery(c)
      BY <2>3 DEF HandsInv
    <3>2. rec[c].st # "SCHEDULED"
      BY <2>2, <2>3, <3>1, ScheduledAlive DEF ActiveOn
    <3> QED
      BY <2>2, <2>3, <3>1, <3>2 DEF ActiveOn, InRecovery, ToRecover
  <2> QED
    BY <1>7, <2>1, <2>2, <2>3
<1>10. CASE KillStop(n)
  <2>1. PICK d \in kill[n].todo, h \in Kills :
          /\ KillGoes(n, h) /\ h.pc = "stop" /\ h.todo = kill[n].todo \ {d}
          /\ d \in Containers /\ SetContainerStatus(d, "STOPPED")
    BY <1>10, KillSteps
  <2>2. UNCHANGED status /\ kill[n].pc = "stop" /\ "STOPPED" \in Statuses
    BY <1>10 DEF KillStop, Statuses
  <2>3. ListedDead'
    BY <1>1, <1>5, <1>6, <2>1, <2>2 DEF ListedDead, Alive
  <2>4. ASSUME NEW c \in Containers, Kept(SvcOf(c)),
               InCreation(c), InRecovery(c), InRetry(c), InKill(c)
        PROVE  InCreation(c)' /\ InRecovery(c)' /\ InRetry(c)' /\ InKill(c)'
    <3>1. InKill(c)'
      BY <1>3, <1>5, <2>1, <2>2, <2>4 DEF InKill
    <3>2. CASE c # d
      <4>1. rec'[c] = rec[c]
        BY <2>1, <2>2, <3>2, RecordSet
      <4> QED
        BY <1>1, <2>2, <2>4, <3>1, <4>1, InCreationKept, InRecoveryKept, InRetryKept
    <3>3. CASE c = d
      <4>1. c \in ToRecover
        BY <2>1, <2>4, <3>3 DEF InKill
      <4>2. rec[c].st \in {"RUNNING", "STOPPED", "RESCHEDULING"}
        BY <2>4, <4>1 DEF InRecovery, ToRecover
      <4>3. rec'[c].st = "STOPPED"
        BY <2>1, <2>2, <3>3, <4>2, RecordSet
      <4>4. InRecovery(c)'
        BY <1>1, <2>2, <2>4, <4>2, <4>3 DEF InRecovery, Alive
      <4> QED
        BY <1>1, <2>4, <3>1, <4>2, <4>3, <4>4, InCreationKept, InRetryKept
    <3> QED
      BY <3>2, <3>3
  <2> QED
    BY <1>1, <1>2, <2>3, <2>4, HandsStep
<1>11. CASE NodeBack(n)
  <2>1. PICK h : KillGoes(n, h) /\ h.pc = "off" /\ h.todo = {}
    BY <1>11, KillSteps
  <2>2. /\ UNCHANGED rec /\ kill[n].pc = "stop" /\ kill[n].todo = {}
        /\ status' = [status EXCEPT ![n] = "ALIVE"]
    BY <1>11 DEF NodeBack
  <2>3. Alive' = Alive \cup {n}
    BY <2>2 DEF Alive, TypeInv
  <2>4. ListedDead'
    BY <1>1, <1>5, <1>6, <2>1, <2>2, <2>3 DEF ListedDead
  <2>5. ASSUME NEW c \in Containers, Kept(SvcOf(c)),
               InCreation(c), InRecovery(c), InRetry(c), InKill(c)
        PROVE  InCreation(c)' /\ InRecovery(c)' /\ InRetry(c)' /\ InKill(c)'
    <3>1. InKill(c)'
      BY <1>3, <1>5, <2>1, <2>5 DEF InKill
    <3>2. rec[c].st = "RUNNING" => rec[c].node # n
      BY <2>2 DEF ListedInv, RunningListed
    <3>3. InRecovery(c)'
      BY <1>1, <2>2, <2>3, <2>5, <3>2 DEF InRecovery
    <3> QED
      BY <1>1, <2>2, <2>5, <3>1, <3>3, InCreationKept, InRetryKept
  <2> QED
    BY <1>1, <1>2, <2>4, <2>5, HandsStep
<1> QED
  BY <1>8, <1>9, <1>10, <1>11 DEF Kill, KillListInTime

\* What is RUNNING on a node that dies is what its recovery is going to list.
LEMMA DeathKeepsHands ==
  ASSUME TypeInv, HandsInv, NEW n \in Nodes, MarkDead(n)
  PROVE  HandsInv'
<1>1. UNCHANGED <<services, rec, create, delete, retry, kill>>
  BY DEF MarkDead
<1>2. KeptBefore
  BY <1>1 DEF KeptBefore, Kept
<1>3. /\ recovery'.pc = "list" /\ recovery'.node = n
      /\ recovery'.todo = {} /\ recovery'.new = None
  BY RecoverySteps
<1>4. recovery.pc = "idle" /\ recovery.todo = {} /\ None \notin Containers
  BY Constants DEF MarkDead, TypeInv, RecoveryForm
<1>5. n \notin Alive' /\ \A m \in Alive : m # n => m \in Alive'
  BY DEF Alive, MarkDead, TypeInv
<1>6. Alive' \subseteq Alive
  BY DEF Alive, MarkDead, TypeInv
<1>7. kill[n].pc = "off"
  BY DEF MarkDead, TypeInv, KillForm
<1>8. ListedDead'
  BY <1>1, <1>3, <1>5, <1>7 DEF ListedDead
<1>9. ASSUME NEW c \in Containers, Kept(SvcOf(c)),
             InCreation(c), InRecovery(c), InRetry(c), InKill(c)
      PROVE  InCreation(c)' /\ InRecovery(c)' /\ InRetry(c)' /\ InKill(c)'
  <2>1. c \notin ToRecover
    BY <1>4 DEF ToRecover
  <2>2. InRecovery(c)'
    BY <1>1, <1>3, <1>4, <1>5, <1>6, <1>9 DEF InRecovery
  <2> QED
    BY <1>1, <1>9, <2>1, <2>2, InCreationKept, InRetryKept, InKillKept
<1> QED
  BY <1>1, <1>2, <1>8, <1>9, HandsStep

\* Every step keeps track of who has a container in hand, if nothing overtakes a recovery.
LEMMA StepHands ==
  ASSUME TypeInv, PlansAlive, ListedInv, HandsInv, "preempt" \notin Faults, [Next]_vars
  PROVE  HandsInv'
<1>1. ASSUME UNCHANGED <<status, services, rec, create, delete, recovery, retry, kill>>
      PROVE  HandsInv'
  BY <1>1 DEF HandsInv, ListedDead, Kept, InCreation, InRecovery, InRetry, InKill, ToRecover,
              Alive
<1>2. ASSUME NEW n \in Nodes, WorkerRestart(n) \/ \E c \in Containers : LateStart(n, c)
      PROVE  HandsInv'
  BY <1>1, <1>2 DEF WorkerRestart, LateStart
<1>3. ASSUME NEW x \in orphans, LateKill(x) PROVE HandsInv'
  BY <1>1, <1>3 DEF LateKill
<1>4. CASE UNCHANGED vars
  BY <1>1, <1>4 DEF vars
<1> QED
  BY <1>2, <1>3, <1>4, CreateKeepsHands, DeleteKeepsHands, RecoveryKeepsHands, RetryKeepsHands,
     KillKeepsHands, DeathKeepsHands DEF Next, MarkDeadInTime

\* Nobody has anything in hand when the program starts.
LEMMA InitHands ==
  ASSUME Init
  PROVE  HandsInv
<1>1. ListedDead /\ \A s \in Services : create[s].pc = "new"
  BY DEF Init, ListedDead
<1>2. ASSUME NEW c \in Containers
      PROVE  InCreation(c) /\ InRecovery(c) /\ InRetry(c) /\ InKill(c)
  <2>1. SvcOf(c) \in Services /\ c # None
    BY ServiceOf, Constants
  <2>2. rec[c].st = "NONE" /\ create[SvcOf(c)].pc = "new"
    BY <1>1, <2>1 DEF Init
  <2>3. InCreation(c)
    BY <2>2 DEF InCreation
  <2>4. InRecovery(c)
    BY <2>1, <2>2 DEF Init, InRecovery
  <2>5. InRetry(c)
    BY DEF Init, InRetry, NoPlan
  <2>6. InKill(c)
    BY DEF Init, InKill
  <2> QED
    BY <2>3, <2>4, <2>5, <2>6
<1> QED
  BY <1>1, <1>2 DEF HandsInv

-----------------------------------------------------------------------------
(* No replica is forgotten. *)

\* A service has finitely many containers.
LEMMA HoldersFinite ==
  ASSUME NEW s \in Services
  PROVE  IsFiniteSet(Holders(s)) /\ IsFiniteSet({c \in Containers : SvcOf(c) = s})
<1>1. IsFiniteSet(1..MaxRecords)
  BY Constants, FS_Interval
<1>2. IsFiniteSet({<<s, i>> : i \in 1..MaxRecords})
  <2> DEFINE f == [i \in 1..MaxRecords |-> <<s, i>>]
  <2>1. f \in Surjection(1..MaxRecords, {<<s, i>> : i \in 1..MaxRecords})
    BY DEF Surjection
  <2> HIDE DEF f
  <2> QED
    BY <1>1, <2>1, FS_Surjection
<1>3. {c \in Containers : SvcOf(c) = s} \subseteq {<<s, i>> : i \in 1..MaxRecords}
  BY DEF Containers, SvcOf
<1>4. Holders(s) \subseteq {c \in Containers : SvcOf(c) = s}
  BY DEF Holders
<1>5. IsFiniteSet({c \in Containers : SvcOf(c) = s})
  BY <1>2, <1>3, FS_Subset
<1> QED
  BY <1>4, <1>5, FS_Subset

\* Who holds a replica stays the same.
LEMMA HoldersKept ==
  ASSUME NEW s \in Services, \A c \in Containers : SvcOf(c) = s => (Holds(c)' <=> Holds(c))
  PROVE  Holders(s)' = Holders(s)
BY DEF Holders

\* A container's record and the recovery say whether it holds a replica.
LEMMA HoldsKept ==
  ASSUME NEW c \in Containers, rec'[c] = rec[c], UNCHANGED recovery
  PROVE  Holds(c)' <=> Holds(c)
BY DEF Holds, ToRecover

\* One more replica.
LEMMA HolderAdded ==
  ASSUME NEW s \in Services, NEW d \in Containers, SvcOf(d) = s, ~ Holds(d), Holds(d)',
         \A c \in Containers : c # d /\ SvcOf(c) = s => (Holds(c)' <=> Holds(c))
  PROVE  Cardinality(Holders(s)') = Cardinality(Holders(s)) + 1
<1>1. Holders(s)' = Holders(s) \cup {d} /\ d \notin Holders(s)
  BY DEF Holders
<1> QED
  BY <1>1, HoldersFinite, FS_AddElement

\* A replica that is replaced by another one.
LEMMA HolderReplaced ==
  ASSUME NEW s \in Services, NEW d \in Containers, NEW e \in Containers,
         SvcOf(d) = s, SvcOf(e) = s, ~ Holds(d), Holds(d)', Holds(e), ~ Holds(e)',
         \A c \in Containers : c # d /\ c # e /\ SvcOf(c) = s => (Holds(c)' <=> Holds(c))
  PROVE  Cardinality(Holders(s)') = Cardinality(Holders(s))
<1> DEFINE H == Holders(s) \ {e}
<1>1. /\ Holders(s)' = H \cup {d} /\ d \notin H
      /\ Holders(s) = H \cup {e} /\ e \notin H
  BY DEF Holders
<1>2. IsFiniteSet(H)
  BY HoldersFinite, FS_Subset
<1> HIDE DEF H
<1>3. Cardinality(Holders(s)') = Cardinality(H) + 1
  BY <1>1, <1>2, FS_AddElement
<1>4. Cardinality(Holders(s)) = Cardinality(H) + 1
  BY <1>1, <1>2, FS_AddElement
<1> QED
  BY <1>3, <1>4

\* A step that neither adds a replica nor loses one.
LEMMA CountKept ==
  ASSUME CountInv, KeptBefore,
         \A s \in Services : Kept(s) /\ Kept(s)' =>
           /\ Made(s)' = Made(s)
           /\ \A c \in Containers : SvcOf(c) = s => (Holds(c)' <=> Holds(c))
  PROVE  CountInv'
<1> SUFFICES ASSUME NEW s \in Services, Kept(s)'
             PROVE  Cardinality(Holders(s)') = Made(s)'
  BY DEF CountInv
<1>1. Kept(s)
  BY DEF KeptBefore
<1>2. Holders(s)' = Holders(s)
  BY <1>1, HoldersKept
<1> QED
  BY <1>1, <1>2 DEF CountInv

\* createService counts the replicas that it has recorded (server.go:328-401).
LEMMA CreateKeepsCount ==
  ASSUME TypeInv, HandsInv, CountInv, NEW s \in Services, Create(s)
  PROVE  CountInv'
<1>1. UNCHANGED <<delete, recovery>>
  BY DEF Create, AddService, CreatePlan, CreatePending, CreateAdd, CreateStart, CreateRecord
<1>2. KeptBefore
  BY <1>1 DEF KeptBefore, Kept
<1>3. create \in [Services -> Creates] /\ create[s] \in Creates /\ CreateForm(s)
  BY DEF TypeInv
<1>4. Replicas \in Nat /\ create[s].i \in Nat
  BY <1>3, Constants DEF Creates
<1>5. ASSUME NEW h, CreateGoes(s, h)
      PROVE  /\ create'[s] = h
             /\ \A x \in Services : x # s => Made(x)' = Made(x)
  BY <1>3, <1>5 DEF CreateGoes, Made
<1>6. ASSUME NEW h, CreateGoes(s, h), Made(s)' = Made(s),
             \A c \in Containers :
               \/ rec'[c] = rec[c]
               \/ SvcOf(c) = s /\ (Kept(s) => (Holds(c)' <=> Holds(c)))
      PROVE  CountInv'
  BY <1>1, <1>2, <1>5, <1>6, CountKept, HoldsKept
<1>7. CASE AddService(s) \/ CreatePlan(s)
  <2>1. PICK h : /\ CreateGoes(s, h)
                 /\ \/ h.i = 0 /\ h.pc # "add"
                    \/ h.i = 1 /\ h.pc = "add"
    BY <1>7, CreateSteps
  <2>2. rec' = rec /\ create[s].pc \in {"new", "plan"} /\ create[s].i = 0
    BY <1>3, <1>7 DEF AddService, CreatePlan, CreateForm
  <2>3. Made(s)' = Made(s)
    BY <1>5, <2>1, <2>2 DEF Made
  <2> QED
    BY <1>6, <2>1, <2>2, <2>3
<1>8. CASE CreateStart(s)
  <2>1. PICK h \in Creates, out \in Outcomes :
          CreateGoes(s, h) /\ h.pc = "record" /\ h.i = create[s].i
    BY <1>8, CreateStartStep
  <2>2. rec' = rec /\ create[s].pc = "start"
    BY <1>8 DEF CreateStart
  <2>3. Made(s)' = Made(s)
    BY <1>5, <2>1, <2>2 DEF Made
  <2> QED
    BY <1>6, <2>1, <2>2, <2>3
<1>9. CASE CreateRecord(s)
  <2>1. PICK h : /\ CreateGoes(s, h)
                 /\ \/ h.pc = "done" /\ h.i = create[s].i
                    \/ h.pc = "add" /\ h.i = create[s].i + 1
    BY <1>9, CreateSteps
  <2>2. PICK d, n : d = create[s].cur /\ n = create[s].plan[create[s].i]
    OBVIOUS
  <2>3. /\ create[s].pc = "record" /\ d \in Containers /\ SvcOf(d) = s /\ n \in MaybeNodes
    BY <1>3, <1>9, <2>2 DEF CreateForm, CreateRecord, MaybeNodes
  <2>4. Made(s)' = Made(s)
    BY <1>4, <1>5, <2>1, <2>3 DEF Made
  <2>5. PICK st \in {"RUNNING", "PENDING", "FAILED"} :
          AddContainer(d, n, st) \/ SetContainerStatus(d, st)
    BY <1>3, <1>9, <2>2 DEF CreateRecord, Creates, Outcomes
  <2>6. st \in Statuses
    BY <2>5 DEF Statuses
  <2>7. \A c \in Containers : c # d => rec'[c] = rec[c]
    <3>1. CASE AddContainer(d, n, st)
      BY <2>3, <2>6, <3>1, RecordAdded
    <3>2. CASE SetContainerStatus(d, st)
      BY <2>3, <2>6, <3>2, RecordSet
    <3> QED
      BY <2>5, <3>1, <3>2
  <2>8. Kept(s) => (Holds(d)' <=> Holds(d))
    <3>1. Kept(s) => rec[d].st = "SCHEDULED"
      BY <2>2, <2>3 DEF HandsInv, InCreation
    <3>2. CASE AddContainer(d, n, st)
      <4>1. rec'[d].st = st
        BY <2>3, <2>6, <3>2, AddedStatus
      <4> QED
        BY <2>5, <3>1, <4>1 DEF Holds
    <3>3. CASE SetContainerStatus(d, st)
      <4>1. rec'[d].st = IF rec[d].st = "NONE" THEN "NONE" ELSE st
        BY <2>3, <2>6, <3>3, RecordSet
      <4> QED
        BY <2>5, <3>1, <4>1 DEF Holds
    <3> QED
      BY <2>5, <3>2, <3>3
  <2> QED
    BY <1>6, <2>1, <2>3, <2>4, <2>7, <2>8
<1>10. ASSUME NEW h, CreateGoes(s, h), Made(s)' = Made(s) + 1, Unused(s) # {},
              NEW n \in MaybeNodes, NEW st \in {"PENDING", "SCHEDULED"},
              AddContainer(Fresh(s), n, st)
       PROVE  CountInv'
  <2>1. PICK d : d = Fresh(s)
    OBVIOUS
  <2>2. d \in Containers /\ SvcOf(d) = s /\ rec[d].st = "NONE" /\ st \in Statuses
    BY <1>10, <2>1, FreshForm DEF Statuses
  <2>3. AddContainer(d, n, st)
    BY <1>10, <2>1
  <2>4. rec'[d].st = st
    BY <2>2, <2>3, AddedStatus
  <2>5. \A c \in Containers : c # d => rec'[c] = rec[c]
    BY <2>2, <2>3, RecordAdded
  <2>6. \A c \in Containers : c # d => (Holds(c)' <=> Holds(c))
    BY <1>1, <2>5, HoldsKept
  <2>7. ASSUME NEW x \in Services, Kept(x)'
        PROVE  Cardinality(Holders(x)') = Made(x)'
    <3>1. Kept(x) /\ Cardinality(Holders(x)) = Made(x)
      BY <1>2, <2>7 DEF KeptBefore, CountInv
    <3>2. CASE x # s
      <4>1. Holders(x)' = Holders(x)
        BY <2>2, <2>6, <3>2, HoldersKept
      <4> QED
        BY <1>5, <1>10, <3>1, <3>2, <4>1
    <3>3. CASE x = s
      <4>1. ~ Holds(d)
        BY <2>2, <3>1, <3>3 DEF Holds, HandsInv, InRecovery
      <4>2. Holds(d)'
        BY <2>4 DEF Holds
      <4>3. Cardinality(Holders(s)') = Cardinality(Holders(s)) + 1
        BY <2>2, <2>6, <4>1, <4>2, HolderAdded
      <4> QED
        BY <1>10, <3>1, <3>3, <4>3
    <3> QED
      BY <3>2, <3>3
  <2> QED
    BY <2>7 DEF CountInv
<1>11. CASE CreatePending(s)
  <2>1. PICK h : /\ CreateGoes(s, h) /\ h.i = create[s].i + 1 /\ h.pc \in {"done", "pending"}
    BY <1>11, CreateSteps
  <2>2. create[s].pc = "pending" /\ None \in MaybeNodes
    BY <1>11 DEF CreatePending, MaybeNodes
  <2>3. Made(s)' = Made(s) + 1
    BY <1>5, <2>1, <2>2 DEF Made
  <2> QED
    BY <1>10, <1>11, <2>1, <2>2, <2>3 DEF CreatePending
<1>12. CASE CreateAdd(s)
  <2>1. PICK h : CreateGoes(s, h) /\ h.pc = "start" /\ h.i = create[s].i
    BY <1>12, CreateSteps
  <2>2. create[s].pc = "add" /\ create[s].plan[create[s].i] \in MaybeNodes
    BY <1>3, <1>12 DEF CreateAdd, CreateForm, MaybeNodes
  <2>3. Made(s)' = Made(s) + 1
    BY <1>4, <1>5, <2>1, <2>2 DEF Made
  <2> QED
    BY <1>10, <1>12, <2>1, <2>2, <2>3 DEF CreateAdd
<1> QED
  BY <1>7, <1>8, <1>9, <1>11, <1>12 DEF Create

\* A step of others than createService: what is left to show of it.
LEMMA CountStep ==
  ASSUME HandsInv, CountInv, UNCHANGED create, KeptBefore,
         \A c \in Containers :
           /\ Kept(SvcOf(c)) /\ Kept(SvcOf(c))'
           /\ InCreation(c) /\ InRecovery(c) /\ InRetry(c) /\ InKill(c)
           => (Holds(c)' <=> Holds(c))
  PROVE  CountInv'
<1>1. \A s \in Services : Made(s)' = Made(s)
  BY DEF Made
<1>2. \A c \in Containers : Kept(SvcOf(c)) /\ Kept(SvcOf(c))' => (Holds(c)' <=> Holds(c))
  BY DEF HandsInv
<1> QED
  BY <1>1, <1>2, CountKept

\* deleteService only touches its own service.
LEMMA DeleteKeepsCount ==
  ASSUME TypeInv, HandsInv, CountInv, NEW s \in Services, Delete(s)
  PROVE  CountInv'
<1>1. UNCHANGED <<create, recovery>>
  BY DEF Delete, DeleteList, DeleteKill, DeleteStop, RemoveService
<1>2. PICK h : DeleteGoes(s, h) /\ h.pc # "idle"
  BY DeleteSteps DEF Delete
<1>3. delete'[s] = h /\ \A x \in Services : x # s => delete'[x] = delete[x]
  BY <1>2 DEF TypeInv, DeleteGoes
<1>4. KeptBefore /\ ~ Kept(s)'
  BY <1>2, <1>3 DEF KeptBefore, Kept
<1>5. \A c \in Containers : SvcOf(c) # s => rec'[c] = rec[c]
  <2>1. CASE DeleteStop(s)
    <3>1. PICK d \in Containers : SvcOf(d) = s /\ SetContainerStatus(d, "STOPPED")
      BY <2>1, DeleteSteps
    <3>2. "STOPPED" \in Statuses
      BY DEF Statuses
    <3> QED
      BY <3>1, <3>2, RecordSet
  <2>2. CASE rec' = rec
    BY <2>2
  <2> QED
    BY <2>1, <2>2 DEF Delete, DeleteList, DeleteKill, RemoveService
<1>6. ASSUME NEW c \in Containers, Kept(SvcOf(c))'
      PROVE  Holds(c)' <=> Holds(c)
  BY <1>1, <1>4, <1>5, <1>6, HoldsKept
<1> QED
  BY <1>1, <1>4, <1>6, CountStep

\* A replica that a recovery looks for a replacement of counts until the replacement
\* does (main.go:138-173).
LEMMA RecoveryKeepsCount ==
  ASSUME TypeInv, HandsInv, CountInv, Recovery
  PROVE  CountInv'
<1>1. UNCHANGED <<create, delete>>
  BY DEF Recovery, RecoveryList, RecoveryNext, RecoveryPlan, RecoveryStart, RecoveryRecord,
         RecoveryRecordInTime, RecoveryAdd, RecoveryEnd
<1>2. KeptBefore /\ \A s \in Services : Kept(s)' <=> Kept(s)
  BY <1>1 DEF KeptBefore, Kept
<1>3. recovery \in Recoveries /\ RecoveryForm /\ None \notin Containers
  BY Constants DEF TypeInv
<1>4. CASE RecoveryList
  <2>1. /\ recovery'.pc = "next" /\ recovery'.todo = ActiveOn(recovery.node) /\ rec' = rec
    BY <1>4, RecoverySteps DEF RecoveryList
  <2>2. recovery.pc = "list" /\ recovery.todo = {}
    BY <1>3, <1>4 DEF RecoveryList, RecoveryForm
  <2>3. ASSUME NEW c \in Containers PROVE Holds(c)' <=> Holds(c)
    BY <2>1, <2>2 DEF Holds, ToRecover, ActiveOn
  <2> QED
    BY <1>1, <1>2, <2>3, CountStep
<1>5. ASSUME NEW d \in Containers, RecoveryNext(d)
      PROVE  CountInv'
  <2>1. /\ recovery'.pc = "plan" /\ recovery'.cur = d /\ recovery'.todo = recovery.todo \ {d}
    BY <1>5, RecoverySteps
  <2>2. recovery.pc = "next" /\ d \in recovery.todo
    BY <1>5 DEF RecoveryNext
  <2>3. SetContainerStatus(d, "RESCHEDULING") /\ "RESCHEDULING" \in Statuses
    BY <1>5 DEF RecoveryNext, Statuses
  <2>4. ASSUME NEW c \in Containers, InRecovery(c)
        PROVE  Holds(c)' <=> Holds(c)
    <3>1. CASE c # d
      <4>1. rec'[c] = rec[c]
        BY <2>3, <3>1, RecordSet
      <4> QED
        BY <2>1, <2>2, <3>1, <4>1 DEF Holds, ToRecover
    <3>2. CASE c = d
      <4>1. rec[c].st \in {"RUNNING", "STOPPED"} /\ c \in ToRecover
        BY <2>2, <2>4, <3>2 DEF InRecovery, ToRecover
      <4>2. rec'[c].st = "RESCHEDULING"
        BY <2>3, <3>2, <4>1, RecordSet
      <4> QED
        BY <4>1, <4>2 DEF Holds
    <3> QED
      BY <3>1, <3>2
  <2> QED
    BY <1>1, <1>2, <2>4, CountStep
<1>6. CASE RecoveryPlan
  <2>1. rec' = rec /\ recovery.pc = "plan" /\ recovery.cur \in Containers
    BY <1>3, <1>6 DEF RecoveryPlan, RecoveryForm
  <2>2. recovery'.todo = recovery.todo
    BY <1>6, RecoverySteps
  <2>3. \/ SvcOf(recovery.cur) \notin services /\ recovery'.pc = "next"
        \/ recovery'.pc \in {"record", "start"} /\ recovery'.cur = recovery.cur
    BY <1>6, RecoverySteps
  <2>4. ASSUME NEW c \in Containers, InCreation(c), InRecovery(c)
        PROVE  Holds(c)' <=> Holds(c)
    <3>1. CASE SvcOf(recovery.cur) \notin services /\ recovery'.pc = "next"
      <4>1. c # recovery.cur
        BY <2>1, <2>4, <3>1 DEF InRecovery, InCreation
      <4> QED
        BY <2>1, <2>2, <3>1, <4>1 DEF Holds, ToRecover
    <3>2. CASE recovery'.pc \in {"record", "start"} /\ recovery'.cur = recovery.cur
      BY <2>1, <2>2, <3>2 DEF Holds, ToRecover
    <3> QED
      BY <2>3, <3>1, <3>2
  <2> QED
    BY <1>1, <1>2, <2>4, CountStep
<1>7. CASE RecoveryStart
  <2>1. /\ recovery'.pc = "record" /\ recovery'.todo = recovery.todo
        /\ recovery'.cur = recovery.cur
    BY <1>7, RecoveryStartStep
  <2>2. rec' = rec /\ recovery.pc = "start"
    BY <1>7 DEF RecoveryStart
  <2>3. ASSUME NEW c \in Containers PROVE Holds(c)' <=> Holds(c)
    BY <2>1, <2>2 DEF Holds, ToRecover
  <2> QED
    BY <1>1, <1>2, <2>3, CountStep
<1>8. CASE RecoveryRecord
  <2>1. /\ recovery'.todo = recovery.todo /\ recovery'.cur = recovery.cur
        /\ recovery'.pc = IF recovery.out = "ok" THEN "add" ELSE "next"
    BY <1>8, RecoverySteps
  <2>2. PICK d, st : d = recovery.cur /\ st = IF recovery.out = "ok" THEN "STOPPED" ELSE "PENDING"
    OBVIOUS
  <2>3. /\ recovery.pc = "record" /\ d \in Containers /\ st \in Statuses
        /\ SetContainerStatus(d, st)
    BY <1>3, <1>8, <2>2 DEF RecoveryRecord, RecoveryForm, Statuses
  <2>4. ASSUME NEW c \in Containers, InRecovery(c)
        PROVE  Holds(c)' <=> Holds(c)
    <3>1. CASE c # d
      <4>1. rec'[c] = rec[c]
        BY <2>3, <3>1, RecordSet
      <4> QED
        BY <2>1, <2>2, <2>3, <3>1, <4>1 DEF Holds, ToRecover
    <3>2. CASE c = d
      <4>1. rec[c].st \in {"RESCHEDULING", "STOPPED"} /\ c \in ToRecover
        BY <2>2, <2>3, <2>4, <3>2 DEF InRecovery, ToRecover
      <4>2. rec'[c].st = st
        BY <2>3, <3>2, <4>1, RecordSet
      <4> QED
        BY <2>1, <2>2, <3>2, <4>1, <4>2 DEF Holds
    <3> QED
      BY <3>1, <3>2
  <2> QED
    BY <1>1, <1>2, <2>4, CountStep
<1>9. CASE RecoveryAdd
  <2>1. recovery'.todo = recovery.todo /\ recovery'.pc = "next"
    BY <1>9, RecoverySteps
  <2>2. PICK d, e, n : d = recovery.new /\ e = recovery.cur /\ n = recovery.node
    OBVIOUS
  <2>3. /\ recovery.pc = "add" /\ d \in Containers /\ e \in Containers /\ SvcOf(d) = SvcOf(e)
        /\ n \in MaybeNodes /\ AddContainer(d, n, "RUNNING") /\ "RUNNING" \in Statuses
    BY <1>3, <1>9, <2>2 DEF RecoveryAdd, RecoveryForm, Recoveries, Statuses
  <2>4. rec'[d].st = "RUNNING"
    BY <2>3, AddedStatus
  <2>5. \A c \in Containers : c # d => rec'[c] = rec[c]
    BY <2>3, RecordAdded
  <2>6. \A c \in Containers : c # d /\ c # e => (Holds(c)' <=> Holds(c))
    BY <2>1, <2>2, <2>3, <2>5 DEF Holds, ToRecover
  <2>7. ASSUME NEW s \in Services, Kept(s)'
        PROVE  Cardinality(Holders(s)') = Made(s)'
    <3>1. Kept(s) /\ Cardinality(Holders(s)) = Made(s) /\ Made(s)' = Made(s)
      BY <1>1, <1>2, <2>7 DEF CountInv, Made
    <3>2. CASE SvcOf(d) # s
      <4>1. Holders(s)' = Holders(s)
        BY <2>3, <2>6, <3>2, HoldersKept
      <4> QED
        BY <3>1, <4>1
    <3>3. CASE SvcOf(d) = s
      <4>1. InRecovery(d) /\ InRecovery(e)
        BY <2>3, <3>1, <3>3 DEF HandsInv
      <4>2. rec[d].st = "NONE" /\ rec[e].st = "STOPPED" /\ e \notin recovery.todo
        BY <2>2, <2>3, <4>1 DEF InRecovery
      <4>3. d # e /\ rec'[e] = rec[e]
        BY <2>3, <2>5, <4>2
      <4>4. ~ Holds(d) /\ Holds(e)
        BY <2>2, <2>3, <4>2, <4>3 DEF Holds, ToRecover
      <4>5. Holds(d)' /\ ~ Holds(e)'
        BY <2>1, <2>4, <4>2, <4>3 DEF Holds, ToRecover
      <4>6. Cardinality(Holders(s)') = Cardinality(Holders(s))
        BY <2>3, <2>6, <3>3, <4>4, <4>5, HolderReplaced
      <4> QED
        BY <3>1, <4>6
    <3> QED
      BY <3>2, <3>3
  <2> QED
    BY <2>7 DEF CountInv
<1>10. CASE RecoveryEnd
  <2>1. recovery'.todo = {} /\ recovery.todo = {} /\ recovery'.pc = "idle"
    BY <1>10, RecoverySteps
  <2>2. rec' = rec /\ recovery.pc = "next"
    BY <1>10 DEF RecoveryEnd
  <2>3. ASSUME NEW c \in Containers PROVE Holds(c)' <=> Holds(c)
    BY <2>1, <2>2 DEF Holds, ToRecover
  <2> QED
    BY <1>1, <1>2, <2>3, CountStep
<1> QED
  BY <1>4, <1>5, <1>6, <1>7, <1>8, <1>9, <1>10 DEF Recovery, RecoveryRecordInTime

\* A replica that is started again counted as PENDING, and counts as RUNNING.
LEMMA RetryKeepsCount ==
  ASSUME TypeInv, HandsInv, CountInv, Retry
  PROVE  CountInv'
<1>1. UNCHANGED <<create, delete, recovery>>
  BY DEF Retry, RetryList, RetryPlan, RetryStart, RetryRecord, RetryEnd
<1>2. KeptBefore
  BY <1>1 DEF KeptBefore, Kept
<1>3. CASE RetryRecord
  <2>1. PICK d, n : d = retry.cur /\ n = retry.plan[retry.cur]
    OBVIOUS
  <2>2. d \in DOMAIN retry.plan /\ d \in Containers /\ n \in MaybeNodes
    BY <1>3, <2>1, RetryPlanForm, RetryStartSteps DEF MaybeNodes
  <2>3. AddContainer(d, n, "RUNNING") \/ rec' = rec
    BY <1>3, <2>1 DEF RetryRecord
  <2>4. ASSUME NEW c \in Containers, InRetry(c)
        PROVE  Holds(c)' <=> Holds(c)
    <3>1. CASE AddContainer(d, n, "RUNNING")
      <4>1. "RUNNING" \in Statuses
        BY DEF Statuses
      <4>2. c # d => rec'[c] = rec[c]
        BY <2>2, <3>1, <4>1, RecordAdded
      <4>3. rec'[d].st = "RUNNING"
        BY <2>2, <3>1, <4>1, AddedStatus
      <4>4. c = d => rec[c].st = "PENDING"
        BY <2>2, <2>4 DEF InRetry
      <4>5. c = d => (Holds(c)' <=> Holds(c))
        BY <4>3, <4>4 DEF Holds
      <4> QED
        BY <1>1, <4>2, <4>5, HoldsKept
    <3>2. CASE rec' = rec
      BY <1>1, <3>2, HoldsKept
    <3> QED
      BY <2>3, <3>1, <3>2
  <2> QED
    BY <1>1, <1>2, <2>4, CountStep
<1>4. CASE rec' = rec
  BY <1>1, <1>2, <1>4, CountStep, HoldsKept
<1> QED
  BY <1>3, <1>4 DEF Retry, RetryList, RetryPlan, RetryStart, RetryEnd

\* What a late kill stops, a recovery still has to see to (tolerance.go:139-148).
LEMMA KillKeepsCount ==
  ASSUME TypeInv, HandsInv, CountInv, NEW n \in Nodes, LateHeartbeat(n) \/ Kill(n)
  PROVE  CountInv'
<1>1. UNCHANGED <<create, delete, recovery>>
  BY DEF Kill, LateHeartbeat, KillContainers, KillList, KillListInTime, KillStop, NodeBack
<1>2. KeptBefore
  BY <1>1 DEF KeptBefore, Kept
<1>3. CASE KillStop(n)
  <2>1. PICK d \in kill[n].todo : d \in Containers /\ SetContainerStatus(d, "STOPPED")
    BY <1>3, KillSteps
  <2>2. "STOPPED" \in Statuses
    BY DEF Statuses
  <2>3. ASSUME NEW c \in Containers, InRecovery(c), InKill(c)
        PROVE  Holds(c)' <=> Holds(c)
    <3>1. c # d => rec'[c] = rec[c]
      BY <2>1, <2>2, RecordSet
    <3>2. CASE c = d
      <4>1. c \in ToRecover /\ c \in ToRecover'
        BY <1>1, <2>1, <2>3, <3>2 DEF InKill, ToRecover
      <4>2. rec[c].st \in {"RUNNING", "STOPPED", "RESCHEDULING"}
        BY <2>3, <4>1 DEF InRecovery, ToRecover
      <4>3. rec'[c].st = "STOPPED"
        BY <2>1, <2>2, <3>2, <4>2, RecordSet
      <4> QED
        BY <4>1, <4>2, <4>3 DEF Holds
    <3> QED
      BY <1>1, <3>1, <3>2, HoldsKept
  <2> QED
    BY <1>1, <1>2, <2>3, CountStep
<1>4. CASE rec' = rec
  BY <1>1, <1>2, <1>4, CountStep, HoldsKept
<1> QED
  BY <1>3, <1>4 DEF Kill, LateHeartbeat, KillContainers, KillList, KillListInTime, NodeBack

\* A node's death changes no record, and its recovery has nothing in hand yet.
LEMMA DeathKeepsCount ==
  ASSUME TypeInv, HandsInv, CountInv, NEW n \in Nodes, MarkDead(n)
  PROVE  CountInv'
<1>1. UNCHANGED <<rec, create, delete>>
  BY DEF MarkDead
<1>2. KeptBefore
  BY <1>1 DEF KeptBefore, Kept
<1>3. recovery'.pc = "list" /\ recovery'.todo = {}
  BY RecoverySteps
<1>4. recovery.pc = "idle" /\ recovery.todo = {}
  BY DEF MarkDead, TypeInv, RecoveryForm
<1>5. ASSUME NEW c \in Containers PROVE Holds(c)' <=> Holds(c)
  BY <1>1, <1>3, <1>4 DEF Holds, ToRecover
<1> QED
  BY <1>1, <1>2, <1>5, CountStep

\* No step loses a replica.
LEMMA StepCount ==
  ASSUME TypeInv, HandsInv, CountInv, [Next]_vars
  PROVE  CountInv'
<1>1. ASSUME UNCHANGED <<rec, create, delete, recovery>>
      PROVE  CountInv'
  <2>1. KeptBefore
    BY <1>1 DEF KeptBefore, Kept
  <2> QED
    BY <1>1, <2>1, CountStep, HoldsKept
<1>2. ASSUME NEW n \in Nodes, WorkerRestart(n) \/ \E c \in Containers : LateStart(n, c)
      PROVE  CountInv'
  BY <1>1, <1>2 DEF WorkerRestart, LateStart
<1>3. ASSUME NEW x \in orphans, LateKill(x) PROVE CountInv'
  BY <1>1, <1>3 DEF LateKill
<1>4. CASE UNCHANGED vars
  BY <1>1, <1>4 DEF vars
<1> QED
  BY <1>2, <1>3, <1>4, CreateKeepsCount, DeleteKeepsCount, RecoveryKeepsCount, RetryKeepsCount,
     KillKeepsCount, DeathKeepsCount DEF Next, MarkDeadInTime

\* There are no replicas when the program starts.
LEMMA InitCount ==
  ASSUME Init
  PROVE  CountInv
<1> SUFFICES ASSUME NEW s \in Services
             PROVE  Cardinality(Holders(s)) = Made(s)
  BY DEF CountInv
<1>1. \A c \in Containers : ~ Holds(c)
  BY DEF Init, Holds
<1>2. Holders(s) = {}
  BY <1>1 DEF Holders
<1>3. Made(s) = 0
  BY DEF Init, Made
<1> QED
  BY <1>2, <1>3, FS_EmptySet

\* What counts is what the records show or a recovery has in hand.
LEMMA TrackedCount ==
  ASSUME TypeInv, HandsInv, CountInv
  PROVE  ReplicasTracked
<1> SUFFICES ASSUME NEW s \in Services, Live(s)
             PROVE  Cardinality({c \in Records(s) : rec[c].st # "STOPPED"} \cup InHand(s))
                      >= Replicas
  BY DEF ReplicasTracked
<1> DEFINE Shown == {c \in Records(s) : rec[c].st # "STOPPED"} \cup InHand(s)
<1>1. Kept(s) /\ create[s].pc = "done" /\ create[s].i = Replicas /\ Replicas \in Nat
  BY Constants DEF Live, Kept, TypeInv, CreateForm
<1>2. Cardinality(Holders(s)) = Replicas
  BY <1>1 DEF CountInv, Made
<1>3. recovery \in Recoveries /\ RecoveryForm
  BY DEF TypeInv
<1>4. InHand(s) \subseteq {c \in Containers : SvcOf(c) = s}
  <2>1. recovery.todo \subseteq Containers
    BY <1>3 DEF Recoveries
  <2>2. recovery.pc \in {"plan", "start", "record", "add"} => recovery.cur \in Containers
    BY <1>3 DEF RecoveryForm
  <2> QED
    BY <2>1, <2>2 DEF InHand
<1>5. IsFiniteSet(Shown)
  <2>1. Shown \subseteq {c \in Containers : SvcOf(c) = s}
    BY <1>4 DEF Records
  <2> HIDE DEF Shown
  <2> QED
    BY <2>1, HoldersFinite, FS_Subset
<1>6. ASSUME NEW c \in Holders(s)
      PROVE  c \in Shown
  <2>1. c \in Containers /\ SvcOf(c) = s /\ Holds(c)
    BY DEF Holders
  <2>2. CASE rec[c].st \notin {"NONE", "STOPPED"}
    BY <2>1, <2>2 DEF Records
  <2>3. CASE rec[c].st = "STOPPED" /\ c \in ToRecover
    BY <2>1, <2>3 DEF InHand, ToRecover
  <2>4. CASE recovery.pc = "add" /\ recovery.cur = c
    BY <2>1, <2>4 DEF InHand
  <2> QED
    BY <2>1, <2>2, <2>3, <2>4 DEF Holds
<1>7. Cardinality(Holders(s)) <= Cardinality(Shown)
  <2>1. Holders(s) \subseteq Shown
    BY <1>6
  <2> HIDE DEF Shown
  <2> QED
    BY <1>5, <2>1, FS_Subset
<1>8. Cardinality(Shown) \in Nat
  <2> HIDE DEF Shown
  <2> QED
    BY <1>5, FS_CardinalityType
<1> QED
  BY <1>1, <1>2, <1>7, <1>8

\* No replica of a service that was created and not deleted is ever forgotten: it has a
\* record that is not STOPPED, or a recovery is about to write one, however recovery,
\* retries, late kills and deletions of other services interleave (main.go:138-173, 177-219,
\* tolerance.go:139-148).  Without "slow" no node is declared DEAD while a plan still uses
\* it, and without "preempt" no late kill overtakes a recovery; both lose replicas.
THEOREM NoReplicaForgotten ==
  ASSUME "slow" \notin Faults, "preempt" \notin Faults
  PROVE  Spec => []ReplicasTracked
<1>1. Init => TrackedAll
  BY InitType, InitPlans, InitListed, InitHands, InitCount DEF TrackedAll
<1>2. TrackedAll /\ [Next]_vars => TrackedAll'
  BY StepType, StepPlans, StepListed, StepHands, StepCount DEF TrackedAll
<1>3. TrackedAll => ReplicasTracked
  BY TrackedCount DEF TrackedAll
<1> QED
  BY <1>1, <1>2, <1>3, PTL DEF Spec

-----------------------------------------------------------------------------
(* Nothing runs that no record shows, and nothing twice. *)

\* Who has a container in hand shows in its record.
LEMMA WhoKnows ==
  ASSUME TypeInv, NEW c \in Containers, NEW n \in Nodes,
         InCreation(c), InRecovery(c), InRetry(c), Known(n, c)
  PROVE  \/ rec[c].st = "RUNNING" /\ rec[c].node = n
         \/ /\ rec[c].st = "SCHEDULED"
            /\ create[SvcOf(c)].pc = "record" /\ create[SvcOf(c)].out = "ok"
            /\ create[SvcOf(c)].cur = c
            /\ create[SvcOf(c)].plan[create[SvcOf(c)].i] = n
         \/ /\ rec[c].st = "NONE"
            /\ recovery.pc \in {"record", "add"} /\ recovery.new = c /\ recovery.node = n
         \/ /\ rec[c].st = "PENDING" /\ c \in DOMAIN retry.plan
            /\ retry.pc = "record" /\ retry.out = "ok" /\ retry.cur = c /\ retry.plan[c] = n
<1>1. retry.pc = "record" => retry.cur \in DOMAIN retry.plan
  BY DEF TypeInv, RetryForm
<1> QED
  BY <1>1 DEF Known, InCreation, InRecovery, InRetry

\* A container that nobody touches.
LEMMA KnownKept ==
  ASSUME NEW c \in Containers, NEW n \in Nodes, Known(n, c), rec'[c] = rec[c],
         create'[SvcOf(c)] = create[SvcOf(c)], UNCHANGED <<recovery, retry>>
  PROVE  Known(n, c)'
BY DEF Known

\* A step that declares no node ALIVE: what is left to show of it.
LEMMA DockerStep ==
  ASSUME HandsInv, DockerInv, UNCHANGED <<late, delete>>, Alive' \subseteq Alive,
         \A n \in Nodes, c \in Containers :
           /\ n \in Alive
           /\ InCreation(c) /\ InRecovery(c) /\ InRetry(c) /\ InKill(c)
           /\ OneKnown(n, c)
           => OneKnown(n, c)',
         \A n \in Nodes : Emptied(n)'
  PROVE  DockerInv'
<1>1. late' = {} /\ \A s \in Services : Kept(s)'
  BY DEF DockerInv, Kept
<1>2. ASSUME NEW n \in Alive', NEW c \in Containers PROVE OneKnown(n, c)'
  <2>1. n \in Nodes /\ n \in Alive
    BY <1>2 DEF Alive
  <2>2. Kept(SvcOf(c)) /\ OneKnown(n, c)
    BY <2>1, ServiceOf DEF DockerInv
  <2>3. InCreation(c) /\ InRecovery(c) /\ InRetry(c) /\ InKill(c)
    BY <2>2 DEF HandsInv
  <2> QED
    BY <2>1, <2>2, <2>3
<1> QED
  BY <1>1, <1>2 DEF DockerInv

\* A replica that is started runs once, because nothing of it was known to run.
LEMMA StartedOnce ==
  ASSUME TypeInv, HandsInv, DockerInv, UNCHANGED <<status, delete, kill, rec>>,
         NEW m \in Alive, NEW d \in Containers, NEW out \in Outcomes, "timeout" \notin Faults,
         StartContainer(m, d, out), ~ Known(m, d), out = "ok" => Known(m, d)',
         \A n \in Nodes, c \in Containers : Known(n, c) => Known(n, c)'
  PROVE  DockerInv'
<1>1. m \in Nodes /\ Alive' = Alive
  BY DEF Alive
<1>2. /\ late' = late
      /\ \A n \in Nodes, c \in Containers :
           docker'[n][c] = IF out = "ok" /\ n = m /\ c = d THEN docker[n][c] + 1
                                                           ELSE docker[n][c]
  BY <1>1, DockerStarted
<1>3. OneKnown(m, d)
  BY DEF DockerInv
<1>4. docker[m][d] = 0
  BY <1>3 DEF OneKnown
<1>5. ASSUME NEW n \in Nodes, NEW c \in Containers, OneKnown(n, c)
      PROVE  OneKnown(n, c)'
  <2>1. CASE out = "ok" /\ n = m /\ c = d
    <3>1. docker'[n][c] = 1
      BY <1>2, <1>4, <2>1
    <3> QED
      BY <2>1, <3>1 DEF OneKnown
  <2>2. CASE ~ (out = "ok" /\ n = m /\ c = d)
    <3>1. docker'[n][c] = docker[n][c]
      BY <1>2, <2>2
    <3> QED
      BY <1>5, <3>1 DEF OneKnown
  <2> QED
    BY <2>1, <2>2
<1>6. ASSUME NEW n \in Nodes PROVE Emptied(n)'
  <2>1. kill[n].pc # "off" => n # m
    BY DEF TypeInv, KillForm, Alive
  <2> QED
    BY <1>2, <2>1 DEF DockerInv, Emptied
<1> QED
  BY <1>1, <1>2, <1>5, <1>6, DockerStep

\* createService starts what it has recorded as SCHEDULED and records where (server.go:328-401).
LEMMA CreateKeepsDocker ==
  ASSUME TypeInv, PlansAlive, HandsInv, DockerInv, "timeout" \notin Faults,
         NEW s \in Services, Create(s)
  PROVE  DockerInv'
<1>1. UNCHANGED <<status, delete, recovery, retry, kill>>
  BY DEF Create, AddService, CreatePlan, CreatePending, CreateAdd, CreateStart, CreateRecord
<1>2. Alive' = Alive
  BY <1>1 DEF Alive
<1>3. create \in [Services -> Creates] /\ create[s] \in Creates /\ CreateForm(s)
  BY DEF TypeInv
<1>4. ASSUME NEW h, CreateGoes(s, h)
      PROVE  /\ create'[s] = h
             /\ \A x \in Services : x # s => create'[x] = create[x]
  BY <1>3, <1>4 DEF CreateGoes
<1>5. ASSUME UNCHANGED <<docker, late>>,
             \A n \in Nodes, c \in Containers :
               /\ n \in Alive
               /\ InCreation(c) /\ InRecovery(c) /\ InRetry(c) /\ Known(n, c)
               => Known(n, c)'
      PROVE  DockerInv'
  <2>1. \A n \in Nodes : Emptied(n)'
    BY <1>1, <1>5 DEF DockerInv, Emptied
  <2>2. ASSUME NEW n \in Nodes, NEW c \in Containers, n \in Alive,
               InCreation(c), InRecovery(c), InRetry(c), OneKnown(n, c)
        PROVE  OneKnown(n, c)'
    BY <1>5, <2>2 DEF OneKnown
  <2> QED
    BY <1>1, <1>2, <1>5, <2>1, <2>2, DockerStep
<1>6. ASSUME NEW h, CreateGoes(s, h), create[s].pc # "record", UNCHANGED <<docker, late>>,
             \A c \in Containers : rec'[c] = rec[c] \/ (rec[c].st = "NONE" /\ recovery.new # c)
      PROVE  DockerInv'
  <2>1. ASSUME NEW n \in Nodes, NEW c \in Containers,
               InCreation(c), InRecovery(c), InRetry(c), Known(n, c)
        PROVE  Known(n, c)'
    <3>1. rec'[c] = rec[c]
      BY <1>6, <2>1, WhoKnows
    <3>2. CASE SvcOf(c) = s
      BY <1>1, <1>6, <2>1, <3>1, <3>2 DEF Known
    <3>3. CASE SvcOf(c) # s
      BY <1>1, <1>4, <1>6, <2>1, <3>1, <3>3, ServiceOf, KnownKept
    <3> QED
      BY <3>2, <3>3
  <2> QED
    BY <1>5, <1>6, <2>1
<1>7. CASE AddService(s) \/ CreatePlan(s)
  <2>1. PICK h : CreateGoes(s, h)
    BY <1>7, CreateSteps
  <2>2. UNCHANGED <<rec, docker, late>> /\ create[s].pc # "record"
    BY <1>7 DEF AddService, CreatePlan, workers
  <2> QED
    BY <1>6, <2>1, <2>2
<1>8. CASE CreatePending(s) \/ CreateAdd(s)
  <2>1. PICK h : CreateGoes(s, h)
    BY <1>8, CreateSteps
  <2>2. PICK d : d = Fresh(s)
    OBVIOUS
  <2>3. d \in Containers /\ rec[d].st = "NONE" /\ recovery.new # d
    BY <1>8, <2>2, FreshForm DEF CreatePending, CreateAdd
  <2>4. PICK n \in MaybeNodes, st \in {"PENDING", "SCHEDULED"} : AddContainer(d, n, st)
    BY <1>3, <1>8, <2>2 DEF CreatePending, CreateAdd, CreateForm, MaybeNodes
  <2>5. st \in Statuses
    BY DEF Statuses
  <2>6. \A c \in Containers : c # d => rec'[c] = rec[c]
    BY <2>3, <2>4, <2>5, RecordAdded
  <2>7. UNCHANGED <<docker, late>> /\ create[s].pc # "record"
    BY <1>8 DEF CreatePending, CreateAdd, workers
  <2> QED
    BY <1>6, <2>1, <2>3, <2>6, <2>7
<1>9. CASE CreateStart(s)
  <2>1. PICK h \in Creates, out \in Outcomes :
          /\ CreateGoes(s, h) /\ h.pc = "record" /\ h.out = out
          /\ h.i = create[s].i /\ h.plan = create[s].plan /\ h.cur = create[s].cur
          /\ StartContainer(create[s].plan[create[s].i], create[s].cur, out)
    BY <1>9, CreateStartStep
  <2>2. PICK m, d : m = create[s].plan[create[s].i] /\ d = create[s].cur
    OBVIOUS
  <2>3. /\ create[s].pc = "start" /\ rec' = rec
        /\ d \in Containers /\ SvcOf(d) = s /\ create[s].i \in 1..Replicas
    BY <1>3, <1>9, <2>2 DEF CreateStart, CreateForm
  <2>4. m \in Alive /\ m \in Nodes
    BY <2>2, <2>3, Constants DEF PlansAlive, Alive
  <2>5. InCreation(d) /\ InRecovery(d) /\ InRetry(d)
    BY <2>3, ServiceOf DEF HandsInv, DockerInv
  <2>6. rec[d].st = "SCHEDULED"
    BY <2>2, <2>3, <2>5 DEF InCreation
  <2>7. ~ Known(m, d)
    BY <2>3, <2>4, <2>5, <2>6, WhoKnows
  <2>8. out = "ok" => Known(m, d)'
    BY <1>4, <2>1, <2>2, <2>3 DEF Known
  <2>9. ASSUME NEW n \in Nodes, NEW c \in Containers, Known(n, c)
        PROVE  Known(n, c)'
    <3>1. CASE SvcOf(c) = s
      BY <1>1, <2>3, <2>9, <3>1 DEF Known
    <3>2. CASE SvcOf(c) # s
      BY <1>1, <1>4, <2>1, <2>3, <2>9, <3>2, ServiceOf, KnownKept
    <3> QED
      BY <3>1, <3>2
  <2> QED
    BY <1>1, <2>1, <2>2, <2>3, <2>4, <2>7, <2>8, <2>9, StartedOnce
<1>10. CASE CreateRecord(s)
  <2>1. PICK h : CreateGoes(s, h)
    BY <1>10, CreateSteps
  <2>2. PICK d, m : d = create[s].cur /\ m = create[s].plan[create[s].i]
    OBVIOUS
  <2>3. /\ d \in Containers /\ SvcOf(d) = s /\ create[s].i \in 1..Replicas
        /\ create[s].pc = "record" /\ UNCHANGED <<docker, late>>
    BY <1>3, <1>10, <2>2 DEF CreateForm, CreateRecord, workers
  <2>4. m \in MaybeNodes
    BY <1>3, <2>2, <2>3 DEF CreateForm, MaybeNodes
  <2>5. /\ "RUNNING" \in Statuses /\ "PENDING" \in Statuses /\ "FAILED" \in Statuses
    BY DEF Statuses
  <2>6. \/ create[s].out = "ok" /\ AddContainer(d, m, "RUNNING")
        \/ /\ create[s].out # "ok"
           /\ \E st \in {"PENDING", "FAILED"} : SetContainerStatus(d, st)
    BY <1>3, <1>10, <2>2 DEF CreateRecord, Creates, Outcomes
  <2>7. \A c \in Containers : c # d => rec'[c] = rec[c]
    <3>1. CASE AddContainer(d, m, "RUNNING")
      BY <2>3, <2>4, <2>5, <3>1, RecordAdded
    <3>2. ASSUME NEW st \in {"PENDING", "FAILED"}, SetContainerStatus(d, st)
          PROVE  \A c \in Containers : c # d => rec'[c] = rec[c]
      BY <2>3, <2>5, <3>2, RecordSet
    <3> QED
      BY <2>6, <3>1, <3>2
  <2>8. create[s].out = "ok" => rec'[d].st = "RUNNING" /\ rec'[d].node = m
    <3>1. CASE AddContainer(d, m, "RUNNING")
      <4>1. rec'[d].st = "RUNNING" /\ rec'[d].node = m
        BY <2>3, <2>4, <2>5, <3>1, AddedStatus
      <4> QED
        BY <4>1
    <3> QED
      BY <2>6, <3>1
  <2>9. ASSUME NEW n \in Nodes, NEW c \in Containers,
               InCreation(c), InRecovery(c), InRetry(c), Known(n, c)
        PROVE  Known(n, c)'
    <3>1. CASE c = d
      <4>1. rec[c].st = "SCHEDULED"
        BY <2>2, <2>3, <2>9, <3>1 DEF InCreation
      <4>2. create[s].out = "ok" /\ n = m
        BY <2>2, <2>3, <2>9, <3>1, <4>1, WhoKnows
      <4> QED
        BY <2>8, <3>1, <4>2 DEF Known
    <3>2. CASE c # d /\ SvcOf(c) = s
      <4>1. rec'[c] = rec[c]
        BY <2>7, <3>2
      <4> QED
        BY <1>1, <2>2, <2>9, <3>2, <4>1 DEF Known
    <3>3. CASE SvcOf(c) # s
      BY <1>1, <1>4, <2>1, <2>3, <2>7, <2>9, <3>3, ServiceOf, KnownKept
    <3> QED
      BY <3>1, <3>2, <3>3
  <2> QED
    BY <1>5, <2>3, <2>9
<1> QED
  BY <1>7, <1>8, <1>9, <1>10 DEF Create

\* A step that starts and removes nothing.
LEMMA DockerUntouched ==
  ASSUME TypeInv, HandsInv, DockerInv,
         UNCHANGED <<docker, late, delete, kill>>, Alive' \subseteq Alive,
         \A n \in Nodes, c \in Containers :
           /\ n \in Alive
           /\ InCreation(c) /\ InRecovery(c) /\ InRetry(c) /\ InKill(c) /\ Known(n, c)
           => Known(n, c)'
  PROVE  DockerInv'
<1>1. \A n \in Nodes : Emptied(n)'
  BY DEF DockerInv, Emptied
<1>2. ASSUME NEW n \in Nodes, NEW c \in Containers, n \in Alive,
             InCreation(c), InRecovery(c), InRetry(c), InKill(c), OneKnown(n, c)
      PROVE  OneKnown(n, c)'
  BY <1>2 DEF OneKnown
<1> QED
  BY <1>1, <1>2, DockerStep

\* A recovery starts a replacement that has no record, and writes the record once the worker
\* has answered (main.go:138-173).
LEMMA RecoveryKeepsDocker ==
  ASSUME TypeInv, PlansAlive, HandsInv, DockerInv, "timeout" \notin Faults, Recovery
  PROVE  DockerInv'
<1>1. UNCHANGED <<status, create, delete, retry, kill>>
  BY DEF Recovery, RecoveryList, RecoveryNext, RecoveryPlan, RecoveryStart, RecoveryRecord,
         RecoveryRecordInTime, RecoveryAdd, RecoveryEnd
<1>2. Alive' = Alive
  BY <1>1 DEF Alive
<1>3. recovery \in Recoveries /\ RecoveryForm /\ None \notin Containers
  BY Constants DEF TypeInv
<1>4. CASE RecoveryList \/ RecoveryPlan \/ RecoveryEnd
  <2>1. UNCHANGED <<rec, docker, late>> /\ recovery.pc \in {"list", "plan", "next"}
    BY <1>4 DEF RecoveryList, RecoveryPlan, RecoveryEnd, workers
  <2>2. ASSUME NEW n \in Nodes, NEW c \in Containers, Known(n, c) PROVE Known(n, c)'
    BY <1>1, <2>1, <2>2 DEF Known
  <2> QED
    BY <1>1, <1>2, <2>1, <2>2, DockerUntouched
<1>5. ASSUME NEW d \in Containers, RecoveryNext(d)
      PROVE  DockerInv'
  <2>1. /\ recovery.pc = "next" /\ d \in recovery.todo /\ UNCHANGED <<docker, late>>
        /\ SetContainerStatus(d, "RESCHEDULING") /\ "RESCHEDULING" \in Statuses
    BY <1>5 DEF RecoveryNext, Statuses, workers
  <2>2. \A c \in Containers : c # d => rec'[c] = rec[c]
    BY <2>1, RecordSet
  <2>3. ASSUME NEW n \in Nodes, NEW c \in Containers, n \in Alive,
               InCreation(c), InRecovery(c), InRetry(c), Known(n, c)
        PROVE  Known(n, c)'
    <3>1. c \in recovery.todo => /\ rec[c].st \in {"RUNNING", "STOPPED"}
                                 /\ rec[c].st = "RUNNING" => rec[c].node \notin Alive
      BY <2>3 DEF InRecovery
    <3>2. c # d
      BY <2>1, <2>3, <3>1, WhoKnows
    <3>3. rec'[c] = rec[c]
      BY <2>2, <3>2
    <3> QED
      BY <1>1, <2>1, <2>3, <3>3 DEF Known
  <2> QED
    BY <1>1, <1>2, <2>1, <2>3, DockerUntouched
<1>6. CASE RecoveryStart
  <2>1. PICK out \in Outcomes :
          /\ StartContainer(recovery.node, recovery.new, out)
          /\ recovery'.pc = "record" /\ recovery'.node = recovery.node
          /\ recovery'.new = IF out = "ok" THEN recovery.new ELSE None
    BY <1>6, RecoveryStartStep
  <2>2. PICK m, d : m = recovery.node /\ d = recovery.new
    OBVIOUS
  <2>3. rec' = rec /\ recovery.pc = "start" /\ d \in Containers
    BY <1>3, <1>6, <2>2 DEF RecoveryStart, RecoveryForm
  <2>4. m \in Alive /\ m \in Nodes
    BY <1>3, <2>2, <2>3 DEF PlansAlive, Alive
  <2>5. InCreation(d) /\ InRecovery(d) /\ InRetry(d)
    BY <2>3, ServiceOf DEF HandsInv, DockerInv
  <2>6. rec[d].st = "NONE"
    BY <2>2, <2>5 DEF InRecovery
  <2>7. ~ Known(m, d)
    BY <2>3, <2>4, <2>5, <2>6, WhoKnows
  <2>8. out = "ok" => Known(m, d)'
    BY <2>1, <2>2 DEF Known
  <2>9. ASSUME NEW n \in Nodes, NEW c \in Containers, Known(n, c) PROVE Known(n, c)'
    BY <1>1, <2>3, <2>9 DEF Known
  <2> QED
    BY <1>1, <2>1, <2>2, <2>3, <2>4, <2>7, <2>8, <2>9, StartedOnce
<1>7. CASE RecoveryRecord
  <2>1. /\ recovery'.new = recovery.new /\ recovery'.node = recovery.node
        /\ recovery'.pc = IF recovery.out = "ok" THEN "add" ELSE "next"
    BY <1>7, RecoverySteps
  <2>2. PICK d, st : d = recovery.cur /\ st = IF recovery.out = "ok" THEN "STOPPED" ELSE "PENDING"
    OBVIOUS
  <2>3. /\ recovery.pc = "record" /\ d \in Containers /\ st \in Statuses
        /\ SetContainerStatus(d, st) /\ UNCHANGED <<docker, late>>
    BY <1>3, <1>7, <2>2 DEF RecoveryRecord, RecoveryForm, Statuses, workers
  <2>4. \A c \in Containers : c # d => rec'[c] = rec[c]
    BY <2>3, RecordSet
  <2>5. recovery.out # "ok" => recovery.new = None
    BY <1>3, <2>3 DEF RecoveryForm
  <2>6. ASSUME NEW n \in Nodes, NEW c \in Containers,
               InCreation(c), InRecovery(c), InRetry(c), Known(n, c)
        PROVE  Known(n, c)'
    <3>1. c = d => rec[c].st \in {"RESCHEDULING", "STOPPED"}
      BY <2>2, <2>3, <2>6 DEF InRecovery
    <3>2. c # d
      BY <2>6, <3>1, WhoKnows
    <3>3. rec'[c] = rec[c]
      BY <2>4, <3>2
    <3> QED
      BY <1>1, <1>3, <2>1, <2>5, <2>6, <3>3 DEF Known
  <2> QED
    BY <1>1, <1>2, <2>3, <2>6, DockerUntouched
<1>8. CASE RecoveryAdd
  <2>1. PICK d, m : d = recovery.new /\ m = recovery.node
    OBVIOUS
  <2>2. /\ recovery.pc = "add" /\ d \in Containers /\ m \in MaybeNodes
        /\ AddContainer(d, m, "RUNNING") /\ "RUNNING" \in Statuses /\ UNCHANGED <<docker, late>>
    BY <1>3, <1>8, <2>1 DEF RecoveryAdd, RecoveryForm, Recoveries, Statuses, workers
  <2>3. rec'[d].st = "RUNNING" /\ rec'[d].node = m
    BY <2>2, AddedStatus
  <2>4. \A c \in Containers : c # d => rec'[c] = rec[c]
    BY <2>2, RecordAdded
  <2>5. ASSUME NEW n \in Nodes, NEW c \in Containers,
               InCreation(c), InRecovery(c), InRetry(c), Known(n, c)
        PROVE  Known(n, c)'
    <3>1. CASE c = d
      <4>1. rec[c].st = "NONE"
        BY <2>1, <2>5, <3>1 DEF InRecovery
      <4>2. n = m
        BY <2>1, <2>5, <4>1, WhoKnows
      <4> QED
        BY <2>3, <3>1, <4>2 DEF Known
    <3>2. CASE c # d
      <4>1. rec'[c] = rec[c]
        BY <2>4, <3>2
      <4> QED
        BY <1>1, <2>1, <2>5, <3>2, <4>1 DEF Known
    <3> QED
      BY <3>1, <3>2
  <2> QED
    BY <1>1, <1>2, <2>2, <2>5, DockerUntouched
<1> QED
  BY <1>4, <1>5, <1>6, <1>7, <1>8 DEF Recovery, RecoveryRecordInTime

\* The retry loop starts what is PENDING, and what is PENDING does not run
\* (main.go:177-219).
LEMMA RetryKeepsDocker ==
  ASSUME TypeInv, PlansAlive, HandsInv, DockerInv, "timeout" \notin Faults, Retry
  PROVE  DockerInv'
<1>1. UNCHANGED <<status, create, delete, recovery, kill>>
  BY DEF Retry, RetryList, RetryPlan, RetryStart, RetryRecord, RetryEnd
<1>2. Alive' = Alive
  BY <1>1 DEF Alive
<1>3. CASE RetryList \/ RetryEnd \/ \E s \in Services : RetryPlan(s)
  <2>1. UNCHANGED <<rec, docker, late>> /\ retry.pc \in {"idle", "group"}
    BY <1>3 DEF RetryList, RetryPlan, RetryEnd, workers
  <2>2. ASSUME NEW n \in Nodes, NEW c \in Containers, Known(n, c) PROVE Known(n, c)'
    BY <1>1, <2>1, <2>2 DEF Known
  <2> QED
    BY <1>1, <1>2, <2>1, <2>2, DockerUntouched
<1>4. ASSUME NEW d \in Containers, RetryStart(d)
      PROVE  DockerInv'
  <2>1. PICK out \in Outcomes :
          /\ d \in DOMAIN retry.plan
          /\ StartContainer(retry.plan[d], d, out)
          /\ retry'.pc = "record" /\ retry'.plan = retry.plan
          /\ retry'.cur = d /\ retry'.out = out
    BY <1>4, RetryStartSteps
  <2>2. PICK m : m = retry.plan[d]
    OBVIOUS
  <2>3. rec' = rec /\ retry.pc = "start"
    BY <1>4 DEF RetryStart
  <2>4. m \in Alive /\ m \in Nodes
    BY <2>1, <2>2 DEF PlansAlive, Alive
  <2>5. InCreation(d) /\ InRecovery(d) /\ InRetry(d)
    BY ServiceOf DEF HandsInv, DockerInv
  <2>6. rec[d].st = "PENDING"
    BY <2>1, <2>5 DEF InRetry
  <2>7. ~ Known(m, d)
    BY <2>3, <2>4, <2>5, <2>6, WhoKnows
  <2>8. out = "ok" => Known(m, d)'
    BY <2>1, <2>2 DEF Known
  <2>9. ASSUME NEW n \in Nodes, NEW c \in Containers, Known(n, c) PROVE Known(n, c)'
    BY <1>1, <2>3, <2>9 DEF Known
  <2> QED
    BY <1>1, <2>1, <2>2, <2>3, <2>4, <2>7, <2>8, <2>9, StartedOnce
<1>5. CASE RetryRecord
  <2>1. PICK d, m : d = retry.cur /\ m = retry.plan[retry.cur]
    OBVIOUS
  <2>2. d \in DOMAIN retry.plan /\ d \in Containers /\ m \in MaybeNodes
    BY <1>5, <2>1, RetryPlanForm, RetryStartSteps DEF MaybeNodes
  <2>3. /\ \/ retry.out = "ok" /\ AddContainer(d, m, "RUNNING")
           \/ retry.out # "ok" /\ rec' = rec
        /\ retry.pc = "record" /\ "RUNNING" \in Statuses /\ UNCHANGED <<docker, late>>
    BY <1>5, <2>1 DEF RetryRecord, Statuses, workers
  <2>4. retry.out = "ok" => rec'[d].st = "RUNNING" /\ rec'[d].node = m
    <3>1. CASE AddContainer(d, m, "RUNNING")
      <4>1. rec'[d].st = "RUNNING" /\ rec'[d].node = m
        BY <2>2, <2>3, <3>1, AddedStatus
      <4> QED
        BY <4>1
    <3> QED
      BY <2>3, <3>1
  <2>5. \A c \in Containers : c # d => rec'[c] = rec[c]
    <3>1. CASE AddContainer(d, m, "RUNNING")
      BY <2>2, <2>3, <3>1, RecordAdded
    <3> QED
      BY <2>3, <3>1
  <2>6. ASSUME NEW n \in Nodes, NEW c \in Containers,
               InCreation(c), InRecovery(c), InRetry(c), Known(n, c)
        PROVE  Known(n, c)'
    <3>1. CASE c = d
      <4>1. rec[c].st = "PENDING"
        BY <2>2, <2>6, <3>1 DEF InRetry
      <4>2. retry.out = "ok" /\ n = m
        BY <2>1, <2>6, <3>1, <4>1, WhoKnows
      <4> QED
        BY <2>4, <3>1, <4>2 DEF Known
    <3>2. CASE c # d
      <4>1. rec'[c] = rec[c]
        BY <2>5, <3>2
      <4> QED
        BY <1>1, <2>1, <2>6, <3>2, <4>1 DEF Known
    <3> QED
      BY <3>1, <3>2
  <2> QED
    BY <1>1, <1>2, <2>3, <2>6, DockerUntouched
<1> QED
  BY <1>3, <1>4, <1>5 DEF Retry

\* A late kill empties the node before it counts as ALIVE again, and stops no record of what
\* runs on an ALIVE node (tolerance.go:118-150).
LEMMA KillKeepsDocker ==
  ASSUME TypeInv, HandsInv, DockerInv, "docker" \notin Faults, NEW n \in Nodes,
         LateHeartbeat(n) \/ Kill(n)
  PROVE  DockerInv'
<1>1. UNCHANGED <<late, create, delete, recovery, retry>>
  BY DEF Kill, LateHeartbeat, KillContainers, KillList, KillListInTime, KillStop, NodeBack, workers
<1>2. kill \in [Nodes -> Kills] /\ (kill[n].pc # "off" => n \notin Alive)
  BY DEF TypeInv, KillForm, Alive
<1>3. ASSUME NEW h, KillGoes(n, h)
      PROVE  kill'[n] = h /\ \A m \in Nodes : m # n => kill'[m] = kill[m]
  BY <1>2, <1>3 DEF KillGoes
<1>4. ASSUME NEW h, KillGoes(n, h), UNCHANGED <<status, rec>>,
             \A m \in Nodes, c \in Containers :
               docker'[m][c] = docker[m][c] \/ (m = n /\ docker'[m][c] = 0),
             h.pc \in {"list", "stop"} =>
               \/ \A c \in Containers : docker'[n][c] = 0
               \/ kill[n].pc \in {"list", "stop"}
      PROVE  DockerInv'
  <2>1. Alive' = Alive
    BY <1>4 DEF Alive
  <2>2. ASSUME NEW m \in Nodes PROVE Emptied(m)'
    BY <1>3, <1>4, <2>2 DEF DockerInv, Emptied
  <2>3. ASSUME NEW m \in Nodes, NEW c \in Containers, OneKnown(m, c)
        PROVE  OneKnown(m, c)'
    <3>1. Known(m, c) => Known(m, c)'
      BY <1>1, <1>4 DEF Known
    <3> QED
      BY <1>4, <2>3, <3>1 DEF OneKnown
  <2> QED
    BY <1>1, <2>1, <2>2, <2>3, DockerStep
<1>5. CASE LateHeartbeat(n) \/ KillList(n)
  <2>1. PICK h : KillGoes(n, h) /\ (h.pc \in {"list", "stop"} => KillList(n))
    BY <1>5, KillSteps
  <2>2. UNCHANGED <<status, rec, docker>> /\ (KillList(n) => kill[n].pc = "list")
    BY <1>5 DEF LateHeartbeat, KillList, workers
  <2> QED
    BY <1>4, <2>1, <2>2
<1>6. CASE KillContainers(n)
  <2>1. PICK h : /\ KillGoes(n, h)
                 /\ \/ h.pc = "list" /\ RemoveDocker(n, Services)
                    \/ h.pc = "off" /\ docker' = docker
    BY <1>6, KillSteps
  <2>2. UNCHANGED <<status, rec>>
    BY <1>6 DEF KillContainers
  <2>3. CASE h.pc = "list" /\ RemoveDocker(n, Services)
    <3>1. \A m \in Nodes, c \in Containers :
            docker'[m][c] = IF m = n THEN 0 ELSE docker[m][c]
      BY <2>3, DockerRemoved, ServiceOf
    <3> QED
      BY <1>4, <2>1, <2>2, <3>1
  <2>4. CASE h.pc = "off" /\ docker' = docker
    BY <1>4, <2>1, <2>2, <2>4
  <2> QED
    BY <2>1, <2>3, <2>4
<1>7. CASE KillStop(n)
  <2>1. PICK d \in kill[n].todo, h \in Kills :
          /\ KillGoes(n, h) /\ h.pc = "stop" /\ d \in Containers
          /\ SetContainerStatus(d, "STOPPED")
    BY <1>7, KillSteps
  <2>2. UNCHANGED <<status, docker>> /\ kill[n].pc = "stop" /\ "STOPPED" \in Statuses
    BY <1>7 DEF KillStop, Statuses, workers
  <2>3. Alive' = Alive
    BY <2>2 DEF Alive
  <2>4. \A c \in Containers : c # d => rec'[c] = rec[c]
    BY <2>1, <2>2, RecordSet
  <2>5. ASSUME NEW m \in Nodes PROVE Emptied(m)'
    BY <1>3, <2>1, <2>2 DEF DockerInv, Emptied
  <2>6. ASSUME NEW m \in Nodes, NEW c \in Containers, m \in Alive,
               InCreation(c), InRecovery(c), InRetry(c), InKill(c), Known(m, c)
        PROVE  Known(m, c)'
    <3>1. c = d => c \in ToRecover
      BY <2>1, <2>6 DEF InKill
    <3>2. c \in ToRecover => /\ rec[c].st \in {"RUNNING", "STOPPED", "RESCHEDULING"}
                             /\ rec[c].st = "RUNNING" => rec[c].node \notin Alive
      BY <2>6 DEF InRecovery, ToRecover
    <3>3. c # d
      BY <2>6, <3>1, <3>2, WhoKnows
    <3>4. rec'[c] = rec[c]
      BY <2>4, <3>3
    <3> QED
      BY <1>1, <2>6, <3>4 DEF Known
  <2>7. ASSUME NEW m \in Nodes, NEW c \in Containers, m \in Alive,
               InCreation(c), InRecovery(c), InRetry(c), InKill(c), OneKnown(m, c)
        PROVE  OneKnown(m, c)'
    BY <2>2, <2>6, <2>7 DEF OneKnown
  <2> QED
    BY <1>1, <2>3, <2>5, <2>7, DockerStep
<1>8. CASE NodeBack(n)
  <2>1. PICK h : KillGoes(n, h) /\ h.pc = "off"
    BY <1>8, KillSteps
  <2>2. /\ UNCHANGED <<rec, docker>> /\ kill[n].pc = "stop"
        /\ status' = [status EXCEPT ![n] = "ALIVE"]
    BY <1>8 DEF NodeBack, workers
  <2>3. Alive' = Alive \cup {n}
    BY <2>2 DEF Alive, TypeInv
  <2>4. ASSUME NEW m \in Alive', NEW c \in Containers PROVE OneKnown(m, c)'
    <3>1. CASE m = n
      <4>1. docker'[n][c] = 0
        BY <2>2 DEF DockerInv, Emptied
      <4> QED
        BY <3>1, <4>1 DEF OneKnown
    <3>2. CASE m # n
      <4>1. OneKnown(m, c)
        BY <2>3, <3>2 DEF DockerInv
      <4> QED
        BY <1>1, <2>2, <4>1 DEF OneKnown, Known
    <3> QED
      BY <3>1, <3>2
  <2>5. ASSUME NEW m \in Nodes PROVE Emptied(m)'
    BY <1>3, <2>1, <2>2, <2>5 DEF DockerInv, Emptied
  <2> QED
    BY <1>1, <2>4, <2>5 DEF DockerInv, Kept
<1> QED
  BY <1>5, <1>6, <1>7, <1>8 DEF Kill, KillListInTime

\* A node that dies takes what runs on it out of sight, and a worker that is stopped removes it.
LEMMA NodeKeepsDocker ==
  ASSUME TypeInv, HandsInv, DockerInv, NEW n \in Nodes, MarkDead(n) \/ WorkerRestart(n)
  PROVE  DockerInv'
<1>1. UNCHANGED <<rec, create, delete, retry, kill>>
  BY DEF MarkDead, WorkerRestart
<1>2. CASE MarkDead(n)
  <2>1. UNCHANGED <<docker, late>> /\ recovery.pc = "idle"
    BY <1>2 DEF MarkDead, workers
  <2>2. Alive' \subseteq Alive
    BY <1>2 DEF MarkDead, Alive, TypeInv
  <2>3. ASSUME NEW m \in Nodes, NEW c \in Containers, Known(m, c) PROVE Known(m, c)'
    BY <1>1, <2>1, <2>3 DEF Known
  <2> QED
    BY <1>1, <2>1, <2>2, <2>3, DockerUntouched
<1>3. CASE WorkerRestart(n)
  <2>1. /\ UNCHANGED <<status, recovery>> /\ late' \subseteq late
        /\ RemoveDocker(n, Services)
    BY <1>3 DEF WorkerRestart
  <2>2. \A m \in Nodes, c \in Containers :
          docker'[m][c] = IF m = n THEN 0 ELSE docker[m][c]
    BY <2>1, DockerRemoved, ServiceOf
  <2>3. ASSUME NEW m \in Nodes, NEW c \in Containers, OneKnown(m, c)
        PROVE  OneKnown(m, c)'
    <3>1. Known(m, c) => Known(m, c)'
      BY <1>1, <2>1 DEF Known
    <3> QED
      BY <2>2, <2>3, <3>1 DEF OneKnown
  <2>4. ASSUME NEW m \in Nodes PROVE Emptied(m)'
    BY <1>1, <2>2 DEF DockerInv, Emptied
  <2>5. UNCHANGED late /\ Alive' = Alive
    BY <2>1 DEF DockerInv, Alive
  <2> QED
    BY <1>1, <2>3, <2>4, <2>5, DockerStep
<1> QED
  BY <1>2, <1>3

\* Every step keeps the workers and the records together.
LEMMA StepDocker ==
  ASSUME TypeInv, PlansAlive, HandsInv, DockerInv, [Next]_vars,
         "timeout" \notin Faults, "docker" \notin Faults, "delete" \notin Faults
  PROVE  DockerInv'
<1>1. ASSUME NEW s \in Services
      PROVE  ~ Delete(s)
  BY DEF DockerInv, Kept, Delete, DeleteList, DeleteKill, DeleteStop, RemoveService
<1>2. ASSUME NEW n \in Nodes, NEW c \in Containers
      PROVE  ~ LateStart(n, c)
  BY DEF DockerInv, LateStart
<1>3. CASE UNCHANGED vars
  <2>1. Alive' = Alive /\ UNCHANGED <<docker, late, delete, kill>>
    BY <1>3 DEF vars, workers, Alive
  <2>2. ASSUME NEW n \in Nodes, NEW c \in Containers, Known(n, c) PROVE Known(n, c)'
    BY <1>3, <2>2 DEF Known, vars
  <2> QED
    BY <2>1, <2>2, DockerUntouched
<1>4. ASSUME NEW x \in orphans, LateKill(x) PROVE DockerInv'
  <2>1. UNCHANGED <<status, rec, late, create, delete, recovery, retry, kill>>
    BY <1>4, LateKillRemoves
  <2>2. \A m \in Nodes, c \in Containers : docker'[m][c] \in {0, docker[m][c]}
    BY <1>4, LateKillRemoves
  <2>3. ASSUME NEW m \in Nodes, NEW c \in Containers, OneKnown(m, c)
        PROVE  OneKnown(m, c)'
    <3>1. Known(m, c) => Known(m, c)'
      BY <2>1 DEF Known
    <3> QED
      BY <2>2, <2>3, <3>1 DEF OneKnown
  <2>4. ASSUME NEW m \in Nodes PROVE Emptied(m)'
    BY <2>1, <2>2 DEF DockerInv, Emptied
  <2>5. Alive' = Alive
    BY <2>1 DEF Alive
  <2> QED
    BY <2>1, <2>3, <2>4, <2>5, DockerStep
<1> QED
  BY <1>1, <1>2, <1>3, <1>4, CreateKeepsDocker, RecoveryKeepsDocker, RetryKeepsDocker,
     KillKeepsDocker, NodeKeepsDocker DEF Next, MarkDeadInTime

\* Nothing runs when the program starts.
LEMMA InitDocker ==
  ASSUME Init
  PROVE  DockerInv
<1>1. ASSUME NEW n \in Nodes, NEW c \in Containers PROVE docker[n][c] = 0
  BY DEF Init
<1>2. \A n \in Alive, c \in Containers : OneKnown(n, c)
  BY <1>1 DEF OneKnown, Alive
<1>3. \A n \in Nodes : Emptied(n)
  BY <1>1 DEF Emptied
<1> QED
  BY <1>2, <1>3 DEF Init, DockerInv, Kept

\* What no goroutine is about to record is recorded.
LEMMA NothingHidden ==
  ASSUME TypeInv, DockerInv
  PROVE  NoHiddenContainers
<1> SUFFICES ASSUME NEW c \in Containers, NEW n \in Alive, docker[n][c] > 0,
                    create[SvcOf(c)].pc = "done", recovery.pc = "idle", retry.pc = "idle"
             PROVE  rec[c] = [st |-> "RUNNING", node |-> n]
  BY DEF NoHiddenContainers
<1>1. OneKnown(n, c)
  BY DEF DockerInv
<1>2. rec[c].st = "RUNNING" /\ rec[c].node = n
  BY <1>1 DEF OneKnown, Known
<1>3. rec[c] \in RecordForms
  BY DEF TypeInv
<1> QED
  BY <1>2, <1>3 DEF RecordForms

\* The records and the workers fit together, as long as commands do what the master is told
\* they did.  A StartContainer that is given up, a Docker that does not remove what it was told
\* to, and a deletion that overtakes a creation or a recovery leave containers that no record
\* shows.
LEMMA DockerCorrect ==
  ASSUME "slow" \notin Faults, "preempt" \notin Faults, "timeout" \notin Faults,
         "docker" \notin Faults, "delete" \notin Faults
  PROVE  Spec => []DockerAll
<1>1. Init => DockerAll
  BY InitType, InitPlans, InitListed, InitHands, InitCount, InitDocker DEF TrackedAll, DockerAll
<1>2. DockerAll /\ [Next]_vars => DockerAll'
  BY StepType, StepPlans, StepListed, StepHands, StepCount, StepDocker DEF TrackedAll, DockerAll
<1> QED
  BY <1>1, <1>2, PTL DEF Spec

\* Once nothing is on its way for a service, what runs of it on ALIVE workers is in RUNNING
\* records of those workers (server.go:328-401, main.go:143-171, 197-216).
THEOREM NothingRunsHidden ==
  ASSUME "slow" \notin Faults, "preempt" \notin Faults, "timeout" \notin Faults,
         "docker" \notin Faults, "delete" \notin Faults
  PROVE  Spec => []NoHiddenContainers
<1>1. DockerAll => NoHiddenContainers
  BY NothingHidden DEF TrackedAll, DockerAll
<1> QED
  BY <1>1, DockerCorrect, PTL
=============================================================================
