------------------------- MODULE ContainerLifecycle -------------------------
(***************************************************************************)
(* The life of a replica on the leader.  Four kinds of goroutine change    *)
(* the container records and send commands to workers, with no lock held   *)
(* over more than one change: the handlers of POST and DELETE /services    *)
(* (internal/api/server.go), the recovery that Tolerance.check runs when a *)
(* node dies and the retry loop (cmd/master/main.go), and the goroutine    *)
(* that kills what a returning node still runs (internal/fault).           *)
(*                                                                         *)
(* A step is one Raft write, one command or one read of the state.  What   *)
(* node a plan picks is left open: any alive node may be a candidate, and  *)
(* any plan may fail for want of capacity (see Scheduler).  The role of    *)
(* this master does not change here.                                       *)
(***************************************************************************)
EXTENDS Naturals, FiniteSets

CONSTANTS
  Nodes,       \* worker IDs
  Services,    \* IDs of the services clients create
  Replicas,    \* CreateServiceRequest.Replicas
  MaxRecords,  \* bound: container records of one service
  MaxDeaths,   \* bound: how often a node is declared DEAD
  MaxOrphans,  \* bound: KillContainers nobody waits for at a time
  None,        \* no node, no container
  Faults       \* what the environment may do, see FaultKinds

\* refuse:  a command can fail: the dial, the worker's Docker, a lost connection
\* docker:  a worker's Docker can fail to remove what HandleLateHeartbeat kills
\* timeout: SendCommand can give up on a StartContainer the worker still runs
\* slow:    a node can be declared DEAD while a plan that uses it is carried out
\* preempt: a goroutine of HandleLateHeartbeat can overtake the checker before it has
\*          listed a node's containers, and the recovery one that has listed them
\* delete:  clients delete services; SendCommand can give up on a KillContainers of the
\*          deletion that the worker still runs
\* stop:    a worker can be stopped and started again with no heartbeat missed
\* overdue: the same of a KillContainers that HandleLateHeartbeat has sent
FaultKinds == {"refuse", "docker", "timeout", "slow", "preempt", "delete", "stop", "overdue"}

ASSUME ContainerAssumption ==
  /\ Replicas \in Nat \ {0}
  /\ MaxRecords \in Nat
  /\ Replicas <= MaxRecords
  /\ MaxDeaths \in Nat
  /\ MaxOrphans \in Nat
  /\ None \notin Nodes \cup (Services \X (1..MaxRecords))
  /\ Faults \subseteq FaultKinds

\* Container IDs are generated; an ID tells the service it was generated for.
Containers == Services \X (1..MaxRecords)
SvcOf(c) == c[1]

VARIABLES
  status,    \* node -> Node.Status; a SUSPECT node is one no plan picks
  services,  \* State.services
  rec,       \* container -> its record; st is "NONE" while there is none
  docker,    \* node -> container -> how many Docker containers it runs for it
  late,      \* <<node, container>>: StartContainers nobody waits for
  orphans,   \* <<node, services>>: KillContainers nobody waits for
  deaths,    \* how often a node was declared DEAD
  create,    \* service -> POST /services handler
  delete,    \* service -> DELETE /services/{id} handler
  recovery,  \* the recovery inside Tolerance.check
  retry,     \* the retry loop
  kill       \* node -> goroutine of HandleLateHeartbeat

workers == <<docker, late, orphans>>
vars == <<status, services, rec, docker, late, orphans, deaths, create, delete, recovery,
          retry, kill>>

Alive == {n \in Nodes : status[n] = "ALIVE"}

Records(s) == {c \in Containers : SvcOf(c) = s /\ rec[c].st # "NONE"}

\* activeContainersOnNode
ActiveOn(n) == {c \in Containers : /\ rec[c].node = n
                                   /\ rec[c].st \in {"RUNNING", "SCHEDULED", "RESCHEDULING"}}

\* IDs that were not generated yet.
Unused(s) == {c \in Containers : /\ SvcOf(c) = s
                                 /\ rec[c].st = "NONE"
                                 /\ recovery.new # c}
Fresh(s) == CHOOSE c \in Unused(s) : \A d \in Unused(s) : c[2] <= d[2]

AddContainer(c, n, st) == rec' = [rec EXCEPT ![c] = [st |-> st, node |-> n]]

\* SetContainerStatus finds no record, or changes one whatever its status.
SetContainerStatus(c, st) ==
  rec' = [rec EXCEPT ![c].st = IF @ = "NONE" THEN @ ELSE st]

NoPlan == [c \in {} |-> None]

Init ==
  /\ status = [n \in Nodes |-> "ALIVE"]
  /\ services = {}
  /\ rec = [c \in Containers |-> [st |-> "NONE", node |-> None]]
  /\ docker = [n \in Nodes |-> [c \in Containers |-> 0]]
  /\ late = {}
  /\ orphans = {}
  /\ deaths = 0
  /\ create = [s \in Services |-> [pc |-> "new", i |-> 0, plan |-> NoPlan,
                                   cur |-> None, out |-> "ok"]]
  /\ delete = [s \in Services |-> [pc |-> "idle", todo |-> {}, cur |-> None]]
  /\ recovery = [pc |-> "idle", node |-> None, todo |-> {}, cur |-> None,
                 new |-> None, out |-> "ok"]
  /\ retry = [pc |-> "idle", todo |-> {}, plan |-> NoPlan, cur |-> None, out |-> "ok"]
  /\ kill = [n \in Nodes |-> [pc |-> "off", todo |-> {}]]

-----------------------------------------------------------------------------
(* Workers. *)

\* bound: a worker is left with one abandoned command per container
MayAbandon(n, c) == <<n, c>> \notin late /\ docker[n][c] = 0

\* A worker's answer to StartContainer: it runs, it does not and the master is
\* told, or the master gives up waiting.  "err" is an error of SendCommand,
\* "fail" a reply without Success.
StartContainer(n, c, out) ==
  \/ /\ out = "ok"
     /\ docker' = [docker EXCEPT ![n][c] = @ + 1]
     /\ UNCHANGED <<late, orphans>>
  \/ /\ out \in {"err", "fail"}
     /\ "refuse" \in Faults
     /\ UNCHANGED workers
  \/ /\ out = "err"
     /\ "timeout" \in Faults
     /\ MayAbandon(n, c)
     /\ late' = late \cup {<<n, c>>}
     /\ UNCHANGED <<docker, orphans>>

Outcomes == {"ok", "err", "fail"}

LateStart(n, c) ==
  /\ <<n, c>> \in late
  /\ late' = late \ {<<n, c>>}
  /\ docker' = [docker EXCEPT ![n][c] = @ + 1]
  /\ UNCHANGED <<status, services, rec, orphans, deaths, create, delete, recovery, retry,
                 kill>>

\* KillContainersByService and, for any service, KillAllContainers.
RemoveDocker(n, ss) ==
  docker' = [docker EXCEPT ![n] =
               [c \in Containers |-> IF SvcOf(c) \in ss THEN 0 ELSE @[c]]]

\* The master gives up waiting for the answer to a KillContainers. Two of the same
\* command to one worker are kept as one.
AbandonKill(n, ss) ==
  /\ Cardinality(orphans) < MaxOrphans
  /\ orphans' = orphans \cup {<<n, ss>>}
  /\ UNCHANGED docker

LateKill(x) ==
  /\ x \in orphans
  /\ orphans' = orphans \ {x}
  /\ RemoveDocker(x[1], x[2])
  /\ UNCHANGED <<status, services, rec, late, deaths, create, delete, recovery, retry, kill>>

\* SIGTERM, and the worker is back before its heartbeats are missed.
WorkerRestart(n) ==
  /\ "stop" \in Faults
  /\ status[n] = "ALIVE"
  /\ RemoveDocker(n, Services)
  /\ late' = {x \in late : x[1] # n}
  /\ orphans' = {x \in orphans : x[1] # n}
  /\ UNCHANGED <<status, services, rec, deaths, create, delete, recovery, retry, kill>>

-----------------------------------------------------------------------------
(* createService. *)

AddService(s) ==
  /\ create[s].pc = "new"
  /\ services' = services \cup {s}
  /\ create' = [create EXCEPT ![s].pc = "plan"]
  /\ UNCHANGED <<status, rec, workers, deaths, delete, recovery, retry, kill>>

CreatePlan(s) ==
  /\ create[s].pc = "plan"
  /\ \/ create' = [create EXCEPT ![s].pc = "pending"]
     \/ \E plan \in [1..Replicas -> Alive] :
          create' = [create EXCEPT ![s].pc = "add", ![s].i = 1, ![s].plan = plan]
  /\ UNCHANGED <<status, services, rec, workers, deaths, delete, recovery, retry, kill>>

\* No plan: the replicas are left to the retry loop, one record after the other.
CreatePending(s) ==
  /\ create[s].pc = "pending"
  /\ Unused(s) # {}
  /\ AddContainer(Fresh(s), None, "PENDING")
  /\ create' = [create EXCEPT ![s].i = @ + 1,
                              ![s].pc = IF create[s].i + 1 = Replicas THEN "done" ELSE @]
  /\ UNCHANGED <<status, services, workers, deaths, delete, recovery, retry, kill>>

CreateAdd(s) ==
  /\ create[s].pc = "add"
  /\ Unused(s) # {}
  /\ AddContainer(Fresh(s), create[s].plan[create[s].i], "SCHEDULED")
  /\ create' = [create EXCEPT ![s].pc = "start", ![s].cur = Fresh(s)]
  /\ UNCHANGED <<status, services, workers, deaths, delete, recovery, retry, kill>>

CreateStart(s) ==
  /\ create[s].pc = "start"
  /\ \E out \in Outcomes :
       /\ StartContainer(create[s].plan[create[s].i], create[s].cur, out)
       /\ create' = [create EXCEPT ![s].pc = "record", ![s].out = out]
  /\ UNCHANGED <<status, services, rec, deaths, delete, recovery, retry, kill>>

CreateRecord(s) ==
  /\ create[s].pc = "record"
  /\ CASE create[s].out = "ok" ->
            AddContainer(create[s].cur, create[s].plan[create[s].i], "RUNNING")
       [] create[s].out = "err"  -> SetContainerStatus(create[s].cur, "PENDING")
       [] create[s].out = "fail" -> SetContainerStatus(create[s].cur, "FAILED")
  /\ create' = IF create[s].i = Replicas
                 THEN [create EXCEPT ![s].pc = "done", ![s].plan = NoPlan, ![s].out = "ok"]
                 ELSE [create EXCEPT ![s].pc = "add", ![s].i = @ + 1, ![s].out = "ok"]
  /\ UNCHANGED <<status, services, workers, deaths, delete, recovery, retry, kill>>

-----------------------------------------------------------------------------
(* deleteService. *)

\* Mutation of DeleteList: the service ID does not filter the records.
DeleteListAll(s) ==
  /\ "delete" \in Faults
  /\ delete[s].pc = "idle"
  /\ s \in services
  /\ delete' = [delete EXCEPT ![s].pc = "kill",
                              ![s].todo = {<<c, rec[c].node>> : c \in UNION {Records(x) : x \in Services}}]
  /\ UNCHANGED <<status, services, rec, workers, deaths, create, recovery, retry, kill>>

\* The records are looked up once, with the nodes they name then.
DeleteList(s) ==
  /\ "delete" \in Faults
  /\ delete[s].pc = "idle"
  /\ s \in services
  /\ delete' = [delete EXCEPT ![s].pc = "kill",
                              ![s].todo = {<<c, rec[c].node>> : c \in Records(s)}]
  /\ UNCHANGED <<status, services, rec, workers, deaths, create, recovery, retry, kill>>

\* Mutation of DeleteKill: the command carries no service ID.
DeleteKillAll(s) ==
  /\ delete[s].pc = "kill"
  /\ \E x \in delete[s].todo :
       /\ delete' = [delete EXCEPT ![s].pc = "stop", ![s].todo = @ \ {x}, ![s].cur = x[1]]
       /\ \/ x[2] # None /\ RemoveDocker(x[2], Services) /\ UNCHANGED orphans
          \/ x[2] # None /\ AbandonKill(x[2], Services)
          \/ (x[2] = None \/ "refuse" \in Faults) /\ UNCHANGED <<docker, orphans>>
  /\ UNCHANGED <<status, services, rec, late, deaths, create, recovery, retry, kill>>

\* Nobody looks at what became of the command.
DeleteKill(s) ==
  /\ delete[s].pc = "kill"
  /\ \E x \in delete[s].todo :
       /\ delete' = [delete EXCEPT ![s].pc = "stop", ![s].todo = @ \ {x}, ![s].cur = x[1]]
       /\ \/ x[2] # None /\ RemoveDocker(x[2], {s}) /\ UNCHANGED orphans
          \/ x[2] # None /\ AbandonKill(x[2], {s})
          \/ (x[2] = None \/ "refuse" \in Faults) /\ UNCHANGED <<docker, orphans>>
  /\ UNCHANGED <<status, services, rec, late, deaths, create, recovery, retry, kill>>

DeleteStop(s) ==
  /\ delete[s].pc = "stop"
  /\ SetContainerStatus(delete[s].cur, "STOPPED")
  /\ delete' = [delete EXCEPT ![s].pc = "kill"]
  /\ UNCHANGED <<status, services, workers, deaths, create, recovery, retry, kill>>

RemoveService(s) ==
  /\ delete[s].pc = "kill"
  /\ delete[s].todo = {}
  /\ services' = services \ {s}
  /\ delete' = [delete EXCEPT ![s].pc = "done", ![s].cur = None]
  /\ UNCHANGED <<status, rec, workers, deaths, create, recovery, retry, kill>>

-----------------------------------------------------------------------------
(* Tolerance.check declares a node DEAD and runs onNodeDead. *)

\* Nodes that a plan being carried out is still going to use.
Planned == (UNION {{create[s].plan[i] : i \in {i \in DOMAIN create[s].plan : i >= create[s].i}}
                     : s \in Services})
           \cup {retry.plan[c] : c \in DOMAIN retry.plan}

MarkDead(n) ==
  /\ recovery.pc = "idle"
  /\ status[n] = "ALIVE"
  /\ deaths < MaxDeaths
  /\ status' = [status EXCEPT ![n] = "DEAD"]
  /\ deaths' = deaths + 1
  /\ recovery' = [recovery EXCEPT !.pc = "list", !.node = n]
  /\ UNCHANGED <<services, rec, workers, create, delete, retry, kill>>

RecoveryList ==
  /\ recovery.pc = "list"
  /\ recovery' = [recovery EXCEPT !.pc = "next", !.todo = ActiveOn(recovery.node)]
  /\ UNCHANGED <<status, services, rec, workers, deaths, create, delete, retry, kill>>

RecoveryNext(c) ==
  /\ recovery.pc = "next"
  /\ c \in recovery.todo
  /\ SetContainerStatus(c, "RESCHEDULING")
  /\ recovery' = [recovery EXCEPT !.pc = "plan", !.cur = c, !.todo = @ \ {c}]
  /\ UNCHANGED <<status, services, workers, deaths, create, delete, retry, kill>>

\* The service may be gone, the plan for one replica may fail.
RecoveryPlan ==
  /\ recovery.pc = "plan"
  /\ LET s == SvcOf(recovery.cur) IN
       \/ /\ s \notin services
          /\ recovery' = [recovery EXCEPT !.pc = "next", !.cur = None]
       \/ /\ s \in services
          /\ recovery' = [recovery EXCEPT !.pc = "record", !.out = "err"]
       \/ /\ s \in services
          /\ Unused(s) # {}
          /\ \E n \in Alive :
               recovery' = [recovery EXCEPT !.pc = "start", !.node = n, !.new = Fresh(s)]
  /\ UNCHANGED <<status, services, rec, workers, deaths, create, delete, retry, kill>>

RecoveryStart ==
  /\ recovery.pc = "start"
  /\ \E out \in Outcomes :
       /\ StartContainer(recovery.node, recovery.new, out)
       /\ recovery' = IF out = "ok"
                        THEN [recovery EXCEPT !.pc = "record", !.out = "ok"]
                        ELSE [recovery EXCEPT !.pc = "record", !.out = "err", !.new = None]
  /\ UNCHANGED <<status, services, rec, deaths, create, delete, retry, kill>>

\* Mutation of RecoveryRecord: a node's status constant.
RecoveryRecordDead ==
  /\ recovery.pc = "record"
  /\ SetContainerStatus(recovery.cur, IF recovery.out = "ok" THEN "DEAD" ELSE "PENDING")
  /\ recovery' = [recovery EXCEPT !.pc = IF recovery.out = "ok" THEN "add" ELSE "next"]
  /\ UNCHANGED <<status, services, workers, deaths, create, delete, retry, kill>>

\* Mutation of RecoveryRecord: the old record is stopped before the outcome is known.
RecoveryRecordStopped ==
  /\ recovery.pc = "record"
  /\ SetContainerStatus(recovery.cur, "STOPPED")
  /\ recovery' = [recovery EXCEPT !.pc = IF recovery.out = "ok" THEN "add" ELSE "next"]
  /\ UNCHANGED <<status, services, workers, deaths, create, delete, retry, kill>>

\* Mutation of RecoveryRecord: a failure is logged and nothing else.
RecoveryRecordNothing ==
  /\ recovery.pc = "record"
  /\ IF recovery.out = "ok" THEN SetContainerStatus(recovery.cur, "STOPPED")
                            ELSE UNCHANGED rec
  /\ recovery' = [recovery EXCEPT !.pc = IF recovery.out = "ok" THEN "add" ELSE "next"]
  /\ UNCHANGED <<status, services, workers, deaths, create, delete, retry, kill>>

RecoveryRecord ==
  /\ recovery.pc = "record"
  /\ SetContainerStatus(recovery.cur, IF recovery.out = "ok" THEN "STOPPED" ELSE "PENDING")
  /\ recovery' = [recovery EXCEPT !.pc = IF recovery.out = "ok" THEN "add" ELSE "next"]
  /\ UNCHANGED <<status, services, workers, deaths, create, delete, retry, kill>>

RecoveryAdd ==
  /\ recovery.pc = "add"
  /\ AddContainer(recovery.new, recovery.node, "RUNNING")
  /\ recovery' = [recovery EXCEPT !.pc = "next", !.new = None]
  /\ UNCHANGED <<status, services, workers, deaths, create, delete, retry, kill>>

RecoveryEnd ==
  /\ recovery.pc = "next"
  /\ recovery.todo = {}
  /\ recovery' = [recovery EXCEPT !.pc = "idle", !.node = None, !.cur = None, !.out = "ok"]
  /\ UNCHANGED <<status, services, rec, workers, deaths, create, delete, retry, kill>>

-----------------------------------------------------------------------------
(* The retry loop of the master. *)

Pending == {c \in Containers : rec[c].st = "PENDING"}

RetryList ==
  /\ retry.pc = "idle"
  /\ Pending # {}
  /\ retry' = [retry EXCEPT !.pc = "group", !.todo = Pending]
  /\ UNCHANGED <<status, services, rec, workers, deaths, create, delete, recovery, kill>>

\* One service's group: skipped when the service is gone or has no plan.
RetryPlan(s) ==
  /\ retry.pc = "group"
  /\ LET group == {c \in retry.todo : SvcOf(c) = s} IN
       /\ group # {}
       /\ \/ retry' = [retry EXCEPT !.todo = @ \ group]
          \/ /\ s \in services
             /\ \E plan \in [group -> Alive] :
                  retry' = [retry EXCEPT !.pc = "start", !.todo = @ \ group, !.plan = plan]
  /\ UNCHANGED <<status, services, rec, workers, deaths, create, delete, recovery, kill>>

RetryStart(c) ==
  /\ retry.pc = "start"
  /\ c \in DOMAIN retry.plan
  /\ \E out \in Outcomes :
       /\ StartContainer(retry.plan[c], c, out)
       /\ retry' = [retry EXCEPT !.pc = "record", !.cur = c, !.out = out]
  /\ UNCHANGED <<status, services, rec, deaths, create, delete, recovery, kill>>

\* A record of the same ID is written, whatever became of it in the meantime.
RetryRecord ==
  /\ retry.pc = "record"
  /\ IF retry.out = "ok"
       THEN AddContainer(retry.cur, retry.plan[retry.cur], "RUNNING")
       ELSE UNCHANGED rec
  /\ LET rest == [c \in DOMAIN retry.plan \ {retry.cur} |-> retry.plan[c]] IN
       retry' = [retry EXCEPT !.pc = IF DOMAIN rest = {} THEN "group" ELSE "start",
                              !.plan = rest, !.cur = None, !.out = "ok"]
  /\ UNCHANGED <<status, services, workers, deaths, create, delete, recovery, kill>>

RetryEnd ==
  /\ retry.pc = "group"
  /\ retry.todo = {}
  /\ retry' = [retry EXCEPT !.pc = "idle"]
  /\ UNCHANGED <<status, services, rec, workers, deaths, create, delete, recovery, kill>>

-----------------------------------------------------------------------------
(* The goroutine of HandleLateHeartbeat, one per DEAD node heard from. *)

LateHeartbeat(n) ==
  /\ status[n] = "DEAD"
  /\ kill[n].pc = "off"
  /\ kill' = [kill EXCEPT ![n].pc = "kill"]
  /\ UNCHANGED <<status, services, rec, workers, deaths, create, delete, recovery, retry>>

\* Mutation of KillContainers: the command is not sent.
KillContainersUnsent(n) ==
  /\ kill[n].pc = "kill"
  /\ kill' = [kill EXCEPT ![n].pc = "list"]
  /\ UNCHANGED <<status, services, rec, workers, deaths, create, delete, recovery, retry>>

\* A reply counts as success, whatever it says; without one the goroutine ends.
KillContainers(n) ==
  /\ kill[n].pc = "kill"
  /\ \/ /\ kill' = [kill EXCEPT ![n].pc = "list"]
        /\ RemoveDocker(n, Services) \/ ("docker" \in Faults /\ UNCHANGED docker)
        /\ UNCHANGED orphans
     \/ /\ "refuse" \in Faults
        /\ kill' = [kill EXCEPT ![n].pc = "off"]
        /\ UNCHANGED <<docker, orphans>>
     \/ /\ "overdue" \in Faults
        /\ kill' = [kill EXCEPT ![n].pc = "off"]
        /\ AbandonKill(n, Services)
  /\ UNCHANGED <<status, services, rec, late, deaths, create, delete, recovery, retry>>

\* The records to stop are listed once and then stopped one after the other.
KillList(n) ==
  /\ kill[n].pc = "list"
  /\ kill' = [kill EXCEPT ![n].pc = "stop", ![n].todo = ActiveOn(n)]
  /\ UNCHANGED <<status, services, rec, workers, deaths, create, delete, recovery, retry>>

KillStop(n) ==
  /\ kill[n].pc = "stop"
  /\ \E c \in kill[n].todo :
       /\ SetContainerStatus(c, "STOPPED")
       /\ kill' = [kill EXCEPT ![n].todo = @ \ {c}]
  /\ UNCHANGED <<status, services, workers, deaths, create, delete, recovery, retry>>

NodeBack(n) ==
  /\ kill[n].pc = "stop"
  /\ kill[n].todo = {}
  /\ status' = [status EXCEPT ![n] = "ALIVE"]
  /\ kill' = [kill EXCEPT ![n].pc = "off"]
  /\ UNCHANGED <<services, rec, workers, deaths, create, delete, recovery, retry>>

-----------------------------------------------------------------------------
(* Who runs when. No lock of the code orders these steps. What the runs assume of    *)
(* their timing is said here, of the next-state relation, and is not part of any     *)
(* handler; Faults lifts it.                                                         *)

\* preempt: the checker lists a node's containers as soon as it has marked it DEAD, the
\* goroutine only after the node was heard from and has answered a command.
KillListInTime(n) ==
  /\ KillList(n)
  /\ "preempt" \in Faults \/ recovery.pc # "list" \/ recovery.node # n

\* preempt: the recovery does not come to write a record in the time, that of some Raft
\* writes, between the goroutine's list and its stop of the same record.
RecoveryRecordInTime ==
  /\ RecoveryRecord
  /\ "preempt" \in Faults \/ \A n \in Nodes : recovery.cur \notin kill[n].todo

\* slow: a plan is carried out before the heartbeats of one of its nodes are missed.
MarkDeadInTime(n) ==
  /\ MarkDead(n)
  /\ "slow" \in Faults \/ n \notin Planned

Create(s) == \/ AddService(s)
             \/ CreatePlan(s)
             \/ CreatePending(s)
             \/ CreateAdd(s)
             \/ CreateStart(s)
             \/ CreateRecord(s)

Delete(s) == \/ DeleteList(s)
             \/ DeleteKill(s)
             \/ DeleteStop(s)
             \/ RemoveService(s)

Recovery == \/ RecoveryList
            \/ \E c \in Containers : RecoveryNext(c)
            \/ RecoveryPlan
            \/ RecoveryStart
            \/ RecoveryRecordInTime
            \/ RecoveryAdd
            \/ RecoveryEnd

Retry == \/ RetryList
         \/ \E s \in Services : RetryPlan(s)
         \/ \E c \in Containers : RetryStart(c)
         \/ RetryRecord
         \/ RetryEnd

Kill(n) == \/ KillContainers(n)
           \/ KillListInTime(n)
           \/ KillStop(n)
           \/ NodeBack(n)

Next == \/ \E s \in Services : Create(s) \/ Delete(s)
        \/ Recovery
        \/ Retry
        \/ \E n \in Nodes :
             MarkDeadInTime(n) \/ LateHeartbeat(n) \/ Kill(n) \/ WorkerRestart(n)
        \/ \E n \in Nodes, c \in Containers : LateStart(n, c)
        \/ \E x \in orphans : LateKill(x)

Spec == Init /\ [][Next]_vars

\* Goroutines are scheduled, workers declared DEAD are heard from again, and the
\* pool does not stay full, nor a worker out of order, forever.
Fairness ==
  /\ \A s \in Services :
       /\ WF_vars(Create(s))
       /\ SF_vars(RetryPlan(s) /\ retry'.pc = "start")
  /\ WF_vars(Recovery)
  /\ WF_vars(Retry)
  /\ \A c \in Containers : SF_vars(RetryStart(c) /\ docker' # docker)
  /\ \A n \in Nodes :
       /\ WF_vars(LateHeartbeat(n))
       /\ WF_vars(Kill(n))
       /\ SF_vars(KillContainers(n) /\ kill'[n].pc = "list")

FairSpec == Spec /\ Fairness

-----------------------------------------------------------------------------
(* Properties. *)

Statuses == {"NONE", "PENDING", "SCHEDULED", "RUNNING", "FAILED", "RESCHEDULING", "STOPPED"}
MaybeContainers == Containers \cup {None}

TypeOK ==
  /\ status \in [Nodes -> {"ALIVE", "DEAD"}]
  /\ services \subseteq Services
  /\ rec \in [Containers -> [st : Statuses, node : Nodes \cup {None}]]
  /\ docker \in [Nodes -> [Containers -> Nat]]
  /\ late \subseteq Nodes \X Containers
  /\ orphans \subseteq Nodes \X SUBSET Services
  /\ deaths \in 0..MaxDeaths
  /\ \A s \in Services :
       /\ create[s].pc \in {"new", "plan", "pending", "add", "start", "record", "done"}
       /\ create[s].i \in 0..Replicas
       /\ create[s].cur \in MaybeContainers
       /\ delete[s].pc \in {"idle", "kill", "stop", "done"}
       /\ delete[s].todo \subseteq Containers \X (Nodes \cup {None})
  /\ recovery \in [pc : {"idle", "list", "next", "plan", "start", "record", "add"},
                   node : Nodes \cup {None}, todo : SUBSET Containers,
                   cur : MaybeContainers, new : MaybeContainers, out : Outcomes]
  /\ retry.pc \in {"idle", "group", "start", "record"}
  /\ retry.todo \subseteq Containers
  /\ DOMAIN retry.plan \subseteq Containers
  /\ kill \in [Nodes -> [pc : {"off", "kill", "list", "stop"}, todo : SUBSET Containers]]

Live(s) == s \in services /\ create[s].pc = "done" /\ delete[s].pc = "idle"

\* Replicas a recovery has in hand although a returning node's goroutine, or the
\* recovery itself, has stopped the record already.
InHand(s) ==
  LET held == CASE recovery.pc \in {"plan", "start", "record"} ->
                     {c \in recovery.todo \cup {recovery.cur} : rec[c].st = "STOPPED"}
                [] recovery.pc = "add" ->
                     {c \in recovery.todo : rec[c].st = "STOPPED"} \cup {recovery.cur}
                [] OTHER -> {c \in recovery.todo : rec[c].st = "STOPPED"}
  IN {c \in held : SvcOf(c) = s}

\* No replica is forgotten: every replica of a service that was created and not
\* deleted has a record that is not STOPPED, or a recovery is about to write one
\* (main.go:138-173, 177-219, tolerance.go:139-148). Claimed while the goroutine of a
\* returning node does not overtake the checker or the recovery, and no death overtakes
\* a plan: with "preempt" or "slow" the code does forget replicas.
ReplicasTracked ==
  \A s \in Services :
    Live(s) => Cardinality({c \in Records(s) : rec[c].st # "STOPPED"} \cup InHand(s))
                 >= Replicas

\* What runs on alive nodes: no replica twice, and not more than were asked for,
\* not even while a dead node's replicas are replaced and the node comes back
\* (tolerance.go:118-150, main.go:143-171, 197-216). Claimed where commands do what the
\* master is told of them or fail, without "docker", "timeout", "slow" and "preempt".
NoDuplicateReplicas ==
  \A s \in Services :
    LET copies == {x \in Alive \X Containers : SvcOf(x[2]) = s /\ docker[x[1]][x[2]] > 0} IN
      /\ Cardinality(copies) <= Replicas
      /\ \A x \in copies : docker[x[1]][x[2]] = 1

\* A record that says RUNNING on an alive node tells the truth: the goroutine of a
\* returning node stops its records before the node counts as alive again
\* (tolerance.go:143-150). Claimed without "slow", "stop" and "overdue": a kill of a
\* returning node that its master gave up waiting for can remove what was started in the
\* meantime. It does not depend on who overtakes whom: RunningTellsTruth proves it with
\* "preempt" too, where the goroutine and the recovery interleave without limits.
RunningIsStarted ==
  \A c \in Containers :
    rec[c].st = "RUNNING" /\ rec[c].node \in Alive /\ delete[SvcOf(c)].pc = "idle"
      => docker[rec[c].node][c] > 0

\* Once nothing is on its way for a service, every container of it that runs on an
\* alive node is in a RUNNING record of that node: creation, recovery and retry,
\* whichever overtakes which, leave nothing behind that the state does not show
\* (server.go:328-384, main.go:143-171, 197-216). Claimed where no service is deleted,
\* and without "timeout", "docker", "slow" and "preempt": a deletion does leave such
\* containers, see DeletedServiceGone.
NoHiddenContainers ==
  \A c \in Containers, n \in Alive :
    /\ docker[n][c] > 0
    /\ create[SvcOf(c)].pc = "done"
    /\ delete[SvcOf(c)].pc \in {"idle", "done"}
    /\ recovery.pc = "idle" /\ retry.pc = "idle"
    => rec[c] = [st |-> "RUNNING", node |-> n]

\* STOPPED is a final state.
StoppedIsFinal ==
  [][\A c \in Containers : rec[c].st = "STOPPED" => rec'[c].st = "STOPPED"]_vars

\* The retry loop starts a service's pending replicas all or none: it never goes
\* ahead with part of a group that createService is still writing (main.go:177).
RetryAllOrNothing ==
  \A c \in DOMAIN retry.plan : create[SvcOf(c)].pc # "pending"

\* Once a deletion is answered and nothing is on its way, nothing of the service
\* runs on an alive node.
DeletedServiceGone ==
  \A s \in Services :
    /\ delete[s].pc = "done"
    /\ create[s].pc = "done"
    /\ recovery.pc = "idle"
    /\ retry.pc = "idle"
    /\ late = {}
    => \A n \in Alive, c \in Containers : SvcOf(c) = s => docker[n][c] = 0

\* The containers that a worker removes on its way out are started again.
StoppedWorkerReplaced ==
  \A n \in Nodes, c \in Containers :
    rec[c] = [st |-> "RUNNING", node |-> n] /\ docker[n][c] = 0
      ~> rec[c] # [st |-> "RUNNING", node |-> n] \/ docker[n][c] > 0

Settled(s) ==
  /\ Cardinality({c \in Records(s) : rec[c].st \in {"RUNNING", "FAILED"}}) >= Replicas
  /\ \A c \in Records(s) : rec[c].st \in {"RUNNING", "FAILED", "STOPPED"}

\* Once nodes stop dying, every service ends with all its replicas running or
\* refused by a worker, and none PENDING or RESCHEDULING for ever.
ServicesSettle == \A s \in Services : <>[](Live(s) => Settled(s))
=============================================================================
