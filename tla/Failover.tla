------------------------------ MODULE Failover ------------------------------
(***************************************************************************)
(* What several masters make of a dead worker.  Every master has its own   *)
(* node table, filled by the heartbeats it hears, and declares workers     *)
(* DEAD by itself; only the one that leads at that moment recovers the     *)
(* replicas (internal/fault/tolerance.go, onNodeDead and the retry loop of *)
(* cmd/master/main.go).  The container records go through Raft: what a     *)
(* master writes after it has lost the leadership is lost.                 *)
(*                                                                         *)
(* One replica is followed through the records that stand for it one after *)
(* the other.  Workers that die do not come back here (see NodeLifecycle   *)
(* and ContainerLifecycle for that).                                       *)
(***************************************************************************)
EXTENDS Naturals, FiniteSets

CONSTANTS
  Masters,       \* Raft IDs
  Workers,       \* worker IDs
  Containers,    \* container IDs; also a bound on the records of the replica
  None,          \* no master, worker or container
  MaxDeaths,     \* bound: workers that die
  MaxElections,  \* bound: elections
  MaxCrashes,    \* bound: crashes of masters
  Faults         \* what may happen, see FaultKinds

\* refuse:   a worker that is up can fail to start a container
\* follower: a follower can declare a worker DEAD before the leader has recovered it
\* forget:   a master can be back, or a worker die, before its heartbeat is heard
\* between:  leadership can be lost between STOPPED and the record that comes next
\* midway:   a leader can be deposed, and live on, in the middle of a recovery
\* bounce:   a deposed leader can lead again while its old recovery still runs
\* lag:      a master can lead before its FSM has applied the whole log
\* slow:     a worker can be declared DEAD while a retry is starting on it
FaultKinds ==
  {"refuse", "follower", "forget", "between", "midway", "bounce", "lag", "slow"}

ASSUME FailoverAssumption ==
  /\ None \notin Masters \cup Workers \cup Containers
  /\ Masters \cap Workers = {}
  /\ {MaxDeaths, MaxElections, MaxCrashes} \subseteq Nat
  /\ Faults \subseteq FaultKinds

VARIABLES
  leader,    \* the master whose writes are committed
  up,        \* masters and workers that run
  store,     \* container -> its record after the whole log
  seen,      \* master -> container -> its record in the master's State
  nodes,     \* master -> worker -> Node.Status, "NONE" while it is not in the table
  recovery,  \* master -> the recovery inside Tolerance.check
  retry,     \* master -> the retry loop
  count      \* deaths of workers, elections and crashes so far

records == <<store, seen>>
loops == <<recovery, retry>>
vars == <<leader, up, records, nodes, loops, count>>

NoRecord == [st |-> "NONE", node |-> None]
NoRecords == [c \in Containers |-> NoRecord]
Idle == [pc |-> "idle", todo |-> {}, cur |-> None, node |-> None]
NoRetry == [cur |-> None, node |-> None]

\* Mutation of ActiveOn: what GetActiveContainersByNode counts.
ActiveOnStarted(R, w) ==
  {c \in Containers : R[c].node = w /\ R[c].st \in {"RUNNING", "SCHEDULED"}}

\* activeContainersOnNode
ActiveOn(R, w) ==
  {c \in Containers : R[c].node = w /\ R[c].st \in {"RUNNING", "SCHEDULED", "RESCHEDULING"}}

Quorum(M) == 2 * Cardinality(M) > Cardinality(Masters)

\* The replica is on w, or about to be recorded there.
InUse(w) == ActiveOn(store, w) # {} \/ \E m \in Masters : recovery[m].node = w

Unused == {c \in Containers : store[c] = NoRecord}

Alive(m) == {w \in Workers : nodes[m][w] = "ALIVE"}

\* The replica has been started on one worker, and every master knows them all.
Init ==
  /\ leader \in Masters
  /\ up = Masters \cup Workers
  /\ \E c \in Containers, w \in Workers :
       store = [d \in Containers |-> IF d = c THEN [st |-> "RUNNING", node |-> w] ELSE NoRecord]
  /\ seen = [m \in Masters |-> store]
  /\ nodes = [m \in Masters |-> [w \in Workers |-> "ALIVE"]]
  /\ recovery = [m \in Masters |-> Idle]
  /\ retry = [m \in Masters |-> NoRetry]
  /\ count = [deaths |-> 0, elections |-> 0, crashes |-> 0]

-----------------------------------------------------------------------------
(* Raft. *)

\* RaftNode.Apply by m: the leader's own FSM has applied the entry when it
\* returns; anyone else gets an error, which its caller logs.
Write(m, c, r) ==
  IF leader = m
    THEN /\ store' = [store EXCEPT ![c] = r]
         /\ seen' = [seen EXCEPT ![m] = store']
    ELSE UNCHANGED records

SetContainerStatus(m, c, st) == Write(m, c, [store[c] EXCEPT !.st = st])

\* The FSM of a follower, a restarted master or a new leader applies what it lacks.
CatchUp(m) ==
  /\ m \in up
  /\ seen[m] # store
  /\ seen' = [seen EXCEPT ![m] = store]
  /\ UNCHANGED <<leader, up, store, nodes, loops, count>>

Elect(m) ==
  /\ leader = None
  /\ m \in up
  /\ "lag" \in Faults \/ seen[m] = store
  /\ "bounce" \in Faults \/ (recovery[m] = Idle /\ retry[m] = NoRetry)
  /\ leader' = m
  /\ UNCHANGED <<up, records, nodes, loops, count>>

\* bound: the leadership moves MaxElections times without a crash
Depose(m) ==
  /\ leader = m
  /\ "between" \in Faults \/ recovery[m].pc # "add"
  /\ "midway" \in Faults \/ recovery[m] = Idle
  /\ count.elections < MaxElections
  /\ leader' = None
  /\ count' = [count EXCEPT !.elections = @ + 1]
  /\ UNCHANGED <<up, records, nodes, loops>>

-----------------------------------------------------------------------------
(* Processes. *)

\* bound: a quorum of masters stays up, without which Raft elects and commits nothing
MasterCrash(m) ==
  /\ m \in up
  /\ count.crashes < MaxCrashes
  /\ Quorum(Masters \cap (up \ {m}))
  /\ "between" \in Faults \/ leader # m \/ recovery[m].pc # "add"
  /\ count' = [count EXCEPT !.crashes = @ + 1]
  /\ up' = up \ {m}
  /\ leader' = IF leader = m THEN None ELSE leader
  /\ nodes' = [nodes EXCEPT ![m] = [w \in Workers |-> "NONE"]]
  /\ recovery' = [recovery EXCEPT ![m] = Idle]
  /\ retry' = [retry EXCEPT ![m] = NoRetry]
  /\ seen' = [seen EXCEPT ![m] = NoRecords]
  /\ UNCHANGED store

\* The node table is empty, the records are replayed from the log.
MasterStart(m) ==
  /\ m \notin up
  /\ "forget" \in Faults \/ \A w \in Workers \ up : ~InUse(w)
  /\ up' = up \cup {m}
  /\ UNCHANGED <<leader, records, nodes, loops, count>>

WorkerCrash(w) ==
  /\ w \in up
  /\ count.deaths < MaxDeaths
  /\ "forget" \in Faults \/ \A m \in Masters \cap up : nodes[m][w] # "NONE"
  /\ count' = [count EXCEPT !.deaths = @ + 1]
  /\ up' = up \ {w}
  /\ UNCHANGED <<leader, records, nodes, loops>>

\* The first heartbeat a master hears of a worker.
Hear(m, w) ==
  /\ {m, w} \subseteq up
  /\ nodes[m][w] = "NONE"
  /\ nodes' = [nodes EXCEPT ![m][w] = "ALIVE"]
  /\ UNCHANGED <<leader, up, records, loops, count>>

-----------------------------------------------------------------------------
(* Tolerance.check and onNodeDead. *)

\* A master that does not lead has nothing more to do with the worker.
MarkDead(m, w) ==
  /\ m \in up
  /\ w \notin up
  /\ nodes[m][w] = "ALIVE"
  /\ recovery[m] = Idle
  /\ "follower" \in Faults \/ leader = m \/ ~InUse(w)
  /\ "slow" \in Faults \/ \A n \in Masters : retry[n].node # w
  /\ nodes' = [nodes EXCEPT ![m][w] = "DEAD"]
  /\ recovery' = IF leader = m /\ ActiveOn(seen[m], w) # {}
                   THEN [recovery EXCEPT ![m] = [Idle EXCEPT !.pc = "next",
                                                             !.todo = ActiveOn(seen[m], w)]]
                   ELSE recovery
  /\ UNCHANGED <<leader, up, records, retry, count>>

RecoveryNext(m, c) ==
  /\ recovery[m].pc = "next"
  /\ c \in recovery[m].todo
  /\ SetContainerStatus(m, c, "RESCHEDULING")
  /\ recovery' = [recovery EXCEPT ![m].pc = "start", ![m].todo = @ \ {c}, ![m].cur = c]
  /\ UNCHANGED <<leader, up, nodes, retry, count>>

\* startReplica: no node, a node that does not answer, a worker that fails, or a start.
RecoveryStart(m) ==
  /\ recovery[m].pc = "start"
  /\ \/ \E w \in Alive(m) \cap up :
          recovery' = [recovery EXCEPT ![m].pc = "stop", ![m].node = w]
     \/ /\ "refuse" \in Faults \/ Alive(m) = {} \/ Alive(m) \ up # {}
        /\ recovery' = [recovery EXCEPT ![m].pc = "pending"]
  /\ UNCHANGED <<leader, up, records, nodes, retry, count>>

RecoveryPending(m) ==
  /\ recovery[m].pc = "pending"
  /\ SetContainerStatus(m, recovery[m].cur, "PENDING")
  /\ recovery' = [recovery EXCEPT ![m].pc = "next", ![m].cur = None]
  /\ UNCHANGED <<leader, up, nodes, retry, count>>

\* Mutation of RecoveryStop: the dead replica's record is left to a later pass.
RecoveryStopSkipped(m) ==
  /\ recovery[m].pc = "stop"
  /\ recovery' = [recovery EXCEPT ![m].pc = "add", ![m].cur = None]
  /\ UNCHANGED <<leader, up, records, nodes, retry, count>>

RecoveryStop(m) ==
  /\ recovery[m].pc = "stop"
  /\ SetContainerStatus(m, recovery[m].cur, "STOPPED")
  /\ recovery' = [recovery EXCEPT ![m].pc = "add", ![m].cur = None]
  /\ UNCHANGED <<leader, up, nodes, retry, count>>

\* Mutation of RecoveryAdd: the new record names no node.
RecoveryAddNowhere(m) ==
  /\ recovery[m].pc = "add"
  /\ \E c \in Unused : Write(m, c, [st |-> "RUNNING", node |-> None])
  /\ recovery' = [recovery EXCEPT ![m].pc = "next", ![m].node = None]
  /\ UNCHANGED <<leader, up, nodes, retry, count>>

RecoveryAdd(m) ==
  /\ recovery[m].pc = "add"
  /\ \E c \in Unused : Write(m, c, [st |-> "RUNNING", node |-> recovery[m].node])
  /\ recovery' = [recovery EXCEPT ![m].pc = "next", ![m].node = None]
  /\ UNCHANGED <<leader, up, nodes, retry, count>>

RecoveryEnd(m) ==
  /\ recovery[m].pc = "next"
  /\ recovery[m].todo = {}
  /\ recovery' = [recovery EXCEPT ![m] = Idle]
  /\ UNCHANGED <<leader, up, records, nodes, retry, count>>

-----------------------------------------------------------------------------
(* The retry loop: a plan and a start that fail leave the record PENDING. *)

RetryStart(m, c) ==
  /\ leader = m
  /\ retry[m] = NoRetry
  /\ seen[m][c].st = "PENDING"
  /\ \E w \in Alive(m) \cap up : retry' = [retry EXCEPT ![m] = [cur |-> c, node |-> w]]
  /\ UNCHANGED <<leader, up, records, nodes, recovery, count>>

RetryRecord(m) ==
  /\ retry[m] # NoRetry
  /\ Write(m, retry[m].cur, [st |-> "RUNNING", node |-> retry[m].node])
  /\ retry' = [retry EXCEPT ![m] = NoRetry]
  /\ UNCHANGED <<leader, up, nodes, recovery, count>>

-----------------------------------------------------------------------------
Recovery(m) == \/ \E c \in Containers : RecoveryNext(m, c)
               \/ RecoveryStart(m)
               \/ RecoveryPending(m)
               \/ RecoveryStop(m)
               \/ RecoveryAdd(m)
               \/ RecoveryEnd(m)

Retry(m) == \/ \E c \in Containers : RetryStart(m, c)
            \/ RetryRecord(m)

Next ==
  \/ \E m \in Masters : \/ CatchUp(m) \/ Elect(m) \/ Depose(m)
                        \/ MasterCrash(m) \/ MasterStart(m)
                        \/ Recovery(m) \/ Retry(m)
                        \/ \E w \in Workers : Hear(m, w) \/ MarkDead(m, w)
  \/ \E w \in Workers : WorkerCrash(w)

Spec == Init /\ [][Next]_vars

\* Masters that run elect a leader, apply the log, hear the workers and go on with
\* their checks, recoveries and retries.
Fairness ==
  /\ WF_vars(\E m \in Masters : Elect(m))
  /\ \A m \in Masters :
       /\ WF_vars(CatchUp(m))
       /\ WF_vars(Recovery(m))
       /\ WF_vars(Retry(m))
       /\ \A w \in Workers : WF_vars(Hear(m, w)) /\ WF_vars(MarkDead(m, w))

FairSpec == Spec /\ Fairness

-----------------------------------------------------------------------------
(* Properties. *)

Record == [st : {"PENDING", "RUNNING", "RESCHEDULING", "STOPPED"}, node : Workers] \cup {NoRecord}

\* Records, node tables and loops keep their form, and only a master that runs leads
\* (main.go:138-219, tolerance.go).
TypeOK ==
  /\ leader \in (Masters \cap up) \cup {None}
  /\ up \subseteq Masters \cup Workers
  /\ store \in [Containers -> Record]
  /\ seen \in [Masters -> [Containers -> Record]]
  /\ nodes \in [Masters -> [Workers -> {"NONE", "ALIVE", "DEAD"}]]
  /\ recovery \in [Masters -> [pc : {"idle", "next", "start", "pending", "stop", "add"},
                               todo : SUBSET Containers, cur : Containers \cup {None},
                               node : Workers \cup {None}]]
  /\ retry \in [Masters -> [cur : Containers \cup {None}, node : Workers \cup {None}]]
  /\ count \in [deaths : 0..MaxDeaths, elections : 0..MaxElections, crashes : 0..MaxCrashes]

Active(c) == store[c].st \in {"PENDING", "RUNNING", "RESCHEDULING"}

\* The replica never has two records that count, whatever masters crash, lose the
\* leadership in the middle of a recovery and are replaced: the old record is STOPPED
\* before the new one is added (main.go:143-171).
OneActiveRecord == \A c, d \in Containers : Active(c) /\ Active(d) => c = d

Served == \E c \in Containers : store[c].st = "RUNNING" /\ store[c].node \in up

\* As long as a worker is left, the replica ends up running on one that is up,
\* although the leader crashes in the middle of its recovery: the next leader takes
\* RESCHEDULING records up again (tolerance.go:94-105).
ReplicaServed == <>[](Workers \cap up # {} => Served)
=============================================================================
