---------------------------- MODULE NodeLifecycle ----------------------------
(***************************************************************************)
(* How one master learns about workers, declares them dead and takes them  *)
(* back: the heartbeat receiver (internal/heartbeat/receiver.go), the      *)
(* fault-tolerance checker and its KillContainers goroutines               *)
(* (internal/fault/tolerance.go), the node table they share                *)
(* (internal/cluster/state.go) and the workers at the other end.           *)
(*                                                                         *)
(* Three kinds of goroutine interleave.  A step below is the code between  *)
(* two points where another goroutine can be observed: a lock taken on the *)
(* State, a command sent to a worker, or an unlocked read of node.Status.  *)
(* One unit of time is one heartbeat interval.                             *)
(***************************************************************************)
EXTENDS Naturals, FiniteSets

CONSTANTS
  Nodes,         \* worker IDs
  Threads,       \* identities for KillContainers goroutines
  SuspectAfter,  \* Tolerance.suspectAfter, in heartbeat intervals
  DeadAfter,     \* Tolerance.deadAfter, in heartbeat intervals
  MaxOrphans,    \* bound: abandoned commands outstanding on one worker
  Faults         \* what the environment may do, see FaultKinds

\* timeout:    SendCommand gives up although the worker will still run the command
\* docker:     the worker's Docker calls can fail while KillContainers runs
\* leadership: the master gains and loses Raft leadership
\* preempt:    the receiver can be suspended between reading node.Status and
\*             taking Tolerance.mu in HandleLateHeartbeat
FaultKinds == {"timeout", "docker", "leadership", "preempt"}

ASSUME LifecycleAssumption ==
  /\ SuspectAfter \in Nat \ {0}
  /\ DeadAfter \in Nat
  /\ SuspectAfter < DeadAfter
  /\ MaxOrphans \in Nat
  /\ Faults \subseteq FaultKinds

VARIABLES
  status,      \* node -> Node.Status, "UNKNOWN" when the node table has no entry
  age,         \* node -> now - Node.LastHeartbeat, DeadAfter standing for any
               \* larger value and for the zero time
  isLeader,    \* raft.State() = Leader
  up,          \* workers whose process runs
  air,         \* workers with a heartbeat on the network
  rcv,         \* receiver goroutine
  chk,         \* checker goroutine
  since,       \* node -> now - LastHeartbeat with the now the checker captured
  recovering,  \* Tolerance.recovering
  killer,      \* thread -> KillContainers goroutine
  orphans,     \* node -> KillContainers the worker will run that nobody waits for
  dirty        \* workers running containers from before they were declared DEAD

tableVars  == <<status, age>>
workerVars == <<up, air, orphans, dirty>>
chkVars    == <<chk, since>>
killVars   == <<recovering, killer>>
vars == <<status, age, isLeader, up, air, rcv, chk, since, recovering, killer,
          orphans, dirty>>

Statuses == {"UNKNOWN", "ALIVE", "SUSPECT", "DEAD"}
RcvPCs   == {"idle", "discovered", "late", "revive", "spawn", "update"}
ChkPCs   == {"idle", "scan", "act", "recover"}
KillPCs  == {"off", "dial", "wait", "acked", "exit"}

Known == {n \in Nodes : status[n] # "UNKNOWN"}

\* The KillContainers goroutines at work on node n.
KillersOf(n) == {t \in Threads : killer[t].pc # "off" /\ killer[t].node = n}

InitAt(n0) ==
  /\ status = [n \in Nodes |-> "UNKNOWN"]
  /\ age = [n \in Nodes |-> DeadAfter]
  /\ isLeader \in BOOLEAN
  /\ "leadership" \in Faults => ~isLeader
  /\ up = {}
  /\ air = {}
  /\ rcv = [pc |-> "idle", node |-> n0]
  /\ chk = [pc |-> "idle", node |-> n0, todo |-> {}, verdict |-> "fresh"]
  /\ since = [n \in Nodes |-> 0]
  /\ recovering = {}
  /\ killer = [t \in Threads |-> [pc |-> "off", node |-> n0]]
  /\ orphans = [n \in Nodes |-> 0]
  /\ dirty = {}

\* The local variables of idle goroutines hold any node.
Init == \E n0 \in Nodes : InitAt(n0)

-----------------------------------------------------------------------------
(* The workers, the network and time. *)

WorkerStart(n) ==
  /\ n \notin up
  /\ up' = up \cup {n}
  /\ UNCHANGED <<tableVars, isLeader, air, rcv, chkVars, killVars, orphans, dirty>>

\* The process dies; the Docker daemon keeps its containers running.
WorkerCrash(n) ==
  /\ n \in up
  /\ up' = up \ {n}
  /\ orphans' = [orphans EXCEPT ![n] = 0]
  /\ UNCHANGED <<tableVars, isLeader, air, rcv, chkVars, killVars, dirty>>

\* removeContainers logs the errors of Docker and carries on.
RemoveContainers(n) ==
  dirty' \in {dirty \ {n}} \cup (IF "docker" \in Faults THEN {dirty} ELSE {})

\* SIGTERM: the worker removes its containers before it leaves.
WorkerStop(n) ==
  /\ n \in up
  /\ up' = up \ {n}
  /\ orphans' = [orphans EXCEPT ![n] = 0]
  /\ RemoveContainers(n)
  /\ UNCHANGED <<tableVars, isLeader, air, rcv, chkVars, killVars>>

SendHeartbeat(n) ==
  /\ n \in up
  /\ air' = air \cup {n}
  /\ UNCHANGED <<tableVars, isLeader, up, rcv, chkVars, killVars, orphans, dirty>>

LoseHeartbeat(n) ==
  /\ n \in air
  /\ air' = air \ {n}
  /\ UNCHANGED <<tableVars, isLeader, up, rcv, chkVars, killVars, orphans, dirty>>

\* The worker finishes a KillContainers whose sender gave up on it.
OrphanKill(n) ==
  /\ n \in up
  /\ orphans[n] > 0
  /\ orphans' = [orphans EXCEPT ![n] = @ - 1]
  /\ RemoveContainers(n)
  /\ UNCHANGED <<tableVars, isLeader, up, air, rcv, chkVars, killVars>>

Tick ==
  /\ \E n \in Known : age[n] < DeadAfter
  /\ age' = [n \in Nodes |-> IF age[n] < DeadAfter THEN age[n] + 1 ELSE age[n]]
  /\ UNCHANGED <<status, isLeader, workerVars, rcv, chkVars, killVars>>

LeadershipChange ==
  /\ "leadership" \in Faults
  /\ isLeader' = ~isLeader
  /\ UNCHANGED <<tableVars, workerVars, rcv, chkVars, killVars>>

-----------------------------------------------------------------------------
(* Receiver.handleHeartbeat. *)

\* GetNode, then AddNode of a record whose LastHeartbeat is the zero time, or
\* the unlocked test of node.Status.
Receive(n) ==
  /\ rcv.pc = "idle"
  /\ n \in air
  /\ air' = air \ {n}
  /\ rcv' = [node |-> n, pc |-> CASE status[n] = "UNKNOWN" -> "discovered"
                                  [] status[n] = "DEAD"    -> "late"
                                  [] OTHER                 -> "update"]
  /\ status' = [status EXCEPT ![n] = IF @ = "UNKNOWN" THEN "ALIVE" ELSE @]
  /\ UNCHANGED <<age, isLeader, up, chkVars, killVars, orphans, dirty>>

\* AssignNodeToPool and the discovery callback are done.
Discovered ==
  /\ rcv.pc = "discovered"
  /\ rcv' = [rcv EXCEPT !.pc = "update"]
  /\ UNCHANGED <<tableVars, isLeader, workerVars, chkVars, killVars>>

\* HandleLateHeartbeat reads node.Status again and asks Raft for its role.
LateDecision == IF status[rcv.node] # "DEAD" THEN "update"
                ELSE IF isLeader THEN "spawn" ELSE "revive"

\* Mutation of Revive: SetNodeStatus with a container's status constant.
ReviveAsRunning ==
  /\ status' = [status EXCEPT ![rcv.node] = "RUNNING"]
  /\ rcv' = [rcv EXCEPT !.pc = "update"]
  /\ UNCHANGED <<age, isLeader, workerVars, chkVars, killVars>>

\* A follower takes the node back at once.
Revive ==
  /\ status' = [status EXCEPT ![rcv.node] = "ALIVE"]
  /\ rcv' = [rcv EXCEPT !.pc = "update"]
  /\ UNCHANGED <<age, isLeader, workerVars, chkVars, killVars>>

\* Mutation of Spawn: the map recovering is not consulted.
SpawnAlways ==
  /\ rcv' = [rcv EXCEPT !.pc = "update"]
  /\ \E t \in Threads :
       /\ killer[t].pc = "off"
       /\ killer' = [killer EXCEPT ![t] = [pc |-> "dial", node |-> rcv.node]]
       /\ recovering' = recovering \cup {rcv.node}
  /\ UNCHANGED <<tableVars, isLeader, workerVars, chkVars>>

\* The leader starts a goroutine unless one is recovering the node already.
Spawn ==
  /\ rcv' = [rcv EXCEPT !.pc = "update"]
  /\ IF rcv.node \in recovering
       THEN UNCHANGED killVars
       ELSE \E t \in Threads :
              /\ killer[t].pc = "off"
              /\ killer' = [killer EXCEPT ![t] = [pc |-> "dial", node |-> rcv.node]]
              /\ recovering' = recovering \cup {rcv.node}
  /\ UNCHANGED <<tableVars, isLeader, workerVars, chkVars>>

\* Nothing to do, or the receiver is suspended with its decision made.
LateDecide ==
  /\ rcv.pc = "late"
  /\ LateDecision = "update" \/ "preempt" \in Faults
  /\ rcv' = [rcv EXCEPT !.pc = LateDecision]
  /\ UNCHANGED <<tableVars, isLeader, workerVars, chkVars, killVars>>

LateRevive ==
  /\ rcv.pc = "revive" \/ (rcv.pc = "late" /\ LateDecision = "revive")
  /\ Revive

LateSpawn ==
  /\ rcv.pc = "spawn" \/ (rcv.pc = "late" /\ LateDecision = "spawn")
  /\ Spawn

\* Mutation of UpdateNodeFromHeartbeat: the exception for DEAD is gone.
UpdateToAlive ==
  /\ rcv.pc = "update"
  /\ age' = [age EXCEPT ![rcv.node] = 0]
  /\ since' = [since EXCEPT ![rcv.node] = 0]
  /\ status' = [status EXCEPT ![rcv.node] = "ALIVE"]
  /\ rcv' = [rcv EXCEPT !.pc = "idle"]
  /\ UNCHANGED <<isLeader, workerVars, chk, killVars>>

UpdateNodeFromHeartbeat ==
  /\ rcv.pc = "update"
  /\ age' = [age EXCEPT ![rcv.node] = 0]
  /\ since' = [since EXCEPT ![rcv.node] = 0]
  /\ status' = [status EXCEPT ![rcv.node] = IF @ = "DEAD" THEN @ ELSE "ALIVE"]
  /\ rcv' = [rcv EXCEPT !.pc = "idle"]
  /\ UNCHANGED <<isLeader, workerVars, chk, killVars>>

-----------------------------------------------------------------------------
(* Tolerance.check, run by Start's ticker. *)

\* The node list and now are read once for the whole pass.
CheckBegin ==
  /\ chk.pc = "idle"
  /\ chk' = [chk EXCEPT !.pc = "scan", !.todo = Known]
  /\ since' = age
  /\ UNCHANGED <<tableVars, isLeader, workerVars, rcv, killVars>>

\* Mutation of Verdict: a SUSPECT node is passed over like a DEAD one.
VerdictOnAlive(n) == CASE status[n] \in {"DEAD", "SUSPECT"} -> "fresh"
                       [] since[n] >= DeadAfter             -> "dead"
                       [] since[n] >= SuspectAfter          -> "late"
                       [] OTHER                             -> "fresh"

\* What check makes of a node from its two unlocked reads.
Verdict(n) == CASE status[n] = "DEAD"         -> "fresh"
                [] since[n] >= DeadAfter      -> "dead"
                [] since[n] >= SuspectAfter   -> "late"
                [] OTHER                      -> "fresh"

CheckRead(n) ==
  /\ chk.pc = "scan"
  /\ n \in chk.todo
  /\ chk' = [pc |-> IF Verdict(n) = "fresh" THEN "scan" ELSE "act",
             node |-> n, todo |-> chk.todo \ {n}, verdict |-> Verdict(n)]
  /\ UNCHANGED <<tableVars, isLeader, workerVars, rcv, since, killVars>>

\* The leader starts the replicas of a DEAD node elsewhere, so whatever still
\* runs there is a duplicate from now on.
MarkDead ==
  /\ chk.pc = "act"
  /\ chk.verdict = "dead"
  /\ status[chk.node] # "DEAD"
  /\ status' = [status EXCEPT ![chk.node] = "DEAD"]
  /\ dirty' = dirty \cup {chk.node}
  /\ chk' = [chk EXCEPT !.pc = "recover"]
  /\ UNCHANGED <<age, isLeader, up, air, orphans, rcv, since, killVars>>

MarkSuspect ==
  /\ chk.pc = "act"
  /\ chk.verdict = "late"
  /\ status[chk.node] = "ALIVE"
  /\ status' = [status EXCEPT ![chk.node] = "SUSPECT"]
  /\ chk' = [chk EXCEPT !.pc = "scan"]
  /\ UNCHANGED <<age, isLeader, workerVars, rcv, since, killVars>>

CheckSkip ==
  /\ chk.pc = "act"
  /\ chk.verdict = "late"
  /\ status[chk.node] # "ALIVE"
  /\ chk' = [chk EXCEPT !.pc = "scan"]
  /\ UNCHANGED <<tableVars, isLeader, workerVars, rcv, since, killVars>>

\* onNodeDead, which runs inside the pass, returns.
Recovered ==
  /\ chk.pc = "recover"
  /\ chk' = [chk EXCEPT !.pc = "scan"]
  /\ UNCHANGED <<tableVars, isLeader, workerVars, rcv, since, killVars>>

CheckEnd ==
  /\ chk.pc = "scan"
  /\ chk.todo = {}
  /\ chk' = [chk EXCEPT !.pc = "idle"]
  /\ UNCHANGED <<tableVars, isLeader, workerVars, rcv, since, killVars>>

-----------------------------------------------------------------------------
(* The goroutine of HandleLateHeartbeat; SendCommand and handleConn. *)

GoTo(t, pc) == killer' = [killer EXCEPT ![t].pc = pc]

\* The worker accepts the connection and reads the command, or the dial fails.
Dial(t) ==
  /\ killer[t].pc = "dial"
  /\ GoTo(t, IF killer[t].node \in up THEN "wait" ELSE "exit")
  /\ UNCHANGED <<tableVars, isLeader, workerVars, rcv, chkVars, recovering>>

\* The worker runs KillAllContainers and replies; Success is never looked at.
WorkerKill(t) ==
  /\ killer[t].pc = "wait"
  /\ killer[t].node \in up
  /\ RemoveContainers(killer[t].node)
  /\ GoTo(t, "acked")
  /\ UNCHANGED <<tableVars, isLeader, up, air, orphans, rcv, chkVars, recovering>>

\* The connection breaks because the worker's process is gone.
ConnectionLost(t) ==
  /\ killer[t].pc \in {"wait", "acked"}
  /\ killer[t].node \notin up
  /\ GoTo(t, "exit")
  /\ UNCHANGED <<tableVars, isLeader, workerVars, rcv, chkVars, recovering>>

\* The deadline passes before the reply; the worker carries on with the command.
Timeout(t) ==
  /\ "timeout" \in Faults
  /\ killer[t].pc \in {"wait", "acked"}
  /\ IF killer[t].pc = "wait" /\ killer[t].node \in up
       THEN /\ orphans[killer[t].node] < MaxOrphans
            /\ orphans' = [orphans EXCEPT ![killer[t].node] = @ + 1]
       ELSE UNCHANGED orphans
  /\ GoTo(t, "exit")
  /\ UNCHANGED <<tableVars, isLeader, up, air, dirty, rcv, chkVars, recovering>>

\* The replica records become STOPPED and the node ALIVE.
RestoreNode(t) ==
  /\ killer[t].pc = "acked"
  /\ status' = [status EXCEPT ![killer[t].node] = "ALIVE"]
  /\ GoTo(t, "exit")
  /\ UNCHANGED <<age, isLeader, workerVars, rcv, chkVars, recovering>>

\* Mutation of ExitKiller: the node stays in the map recovering.
ExitWithoutDelete(t) ==
  /\ killer[t].pc = "exit"
  /\ GoTo(t, "off")
  /\ UNCHANGED <<tableVars, isLeader, workerVars, rcv, chkVars, recovering>>

\* The deferred function.
ExitKiller(t) ==
  /\ killer[t].pc = "exit"
  /\ recovering' = recovering \ {killer[t].node}
  /\ GoTo(t, "off")
  /\ UNCHANGED <<tableVars, isLeader, workerVars, rcv, chkVars>>

-----------------------------------------------------------------------------
Receiver == \/ \E n \in Nodes : Receive(n)
            \/ Discovered
            \/ LateDecide
            \/ LateRevive
            \/ LateSpawn
            \/ UpdateNodeFromHeartbeat

Checker == \/ CheckBegin
           \/ \E n \in Nodes : CheckRead(n)
           \/ MarkDead
           \/ MarkSuspect
           \/ CheckSkip
           \/ Recovered
           \/ CheckEnd

Killer(t) == \/ Dial(t)
             \/ WorkerKill(t)
             \/ ConnectionLost(t)
             \/ Timeout(t)
             \/ RestoreNode(t)
             \/ ExitKiller(t)

Worker(n) == \/ WorkerStart(n)
             \/ WorkerCrash(n)
             \/ WorkerStop(n)
             \/ SendHeartbeat(n)
             \/ LoseHeartbeat(n)
             \/ OrphanKill(n)

Next == \/ Receiver
        \/ Checker
        \/ \E t \in Threads : Killer(t)
        \/ \E n \in Nodes : Worker(n)
        \/ Tick
        \/ LeadershipChange

Spec == Init /\ [][Next]_vars

\* The runtime schedules every goroutine, the clock advances, and a worker that
\* stays up keeps sending.  The network may lose heartbeats but not all of them.
Fairness ==
  /\ WF_vars(Tick)
  /\ WF_vars(Receiver)
  /\ WF_vars(Checker)
  /\ \A t \in Threads : WF_vars(Killer(t))
  /\ \A n \in Nodes : WF_vars(SendHeartbeat(n)) /\ SF_vars(Receive(n))

FairSpec == Spec /\ Fairness

-----------------------------------------------------------------------------
(* Properties. *)

TypeOK ==
  /\ status \in [Nodes -> Statuses]
  /\ age \in [Nodes -> 0..DeadAfter]
  /\ isLeader \in BOOLEAN
  /\ up \subseteq Nodes
  /\ air \subseteq Nodes
  /\ rcv \in [pc : RcvPCs, node : Nodes]
  /\ chk \in [pc : ChkPCs, node : Nodes, todo : SUBSET Nodes,
              verdict : {"fresh", "late", "dead"}]
  /\ since \in [Nodes -> 0..DeadAfter]
  /\ recovering \subseteq Nodes
  /\ killer \in [Threads -> [pc : KillPCs, node : Nodes]]
  /\ orphans \in [Nodes -> Nat]
  /\ dirty \subseteq Nodes

\* Tolerance.recovering admits one KillContainers goroutine per node, and holds
\* a node exactly while its goroutine is at work: an entry left behind would
\* shut the node out for good (tolerance.go:121-137).
OneKillerPerNode ==
  \A n \in Nodes :
    /\ \A t1, t2 \in KillersOf(n) : t1 = t2
    /\ n \in recovering <=> KillersOf(n) # {}

\* The split-brain promise of HandleLateHeartbeat (tolerance.go:107-109): in the
\* eyes of the leader a worker that still runs containers from before it was
\* declared dead is DEAD, so nothing is scheduled onto it before the kill.
NoSplitBrain ==
  isLeader => \A n \in dirty : status[n] = "DEAD"

\* A KillContainers reaches a worker only while the leader holds it DEAD, so it
\* cannot destroy containers scheduled after the node came back
\* (tolerance.go:139-148).
KillOnlyDeadNodes ==
  isLeader =>
    \A n \in Nodes :
      (orphans[n] > 0 \/ \E t \in KillersOf(n) : killer[t].pc = "wait")
        => status[n] = "DEAD"

\* What NoSplitBrain and KillOnlyDeadNodes rest on while the role is fixed and
\* the receiver is not suspended in HandleLateHeartbeat: a goroutine on its way
\* to the worker, or back, works on a DEAD node, and what it brings back is clean
\* as long as Docker does what it is told (tolerance.go:139-148).
KillersWorkOnDead ==
  isLeader =>
    \A t \in Threads :
      /\ killer[t].pc \in {"dial", "wait", "acked"} => status[killer[t].node] = "DEAD"
      /\ killer[t].pc = "acked" /\ "docker" \notin Faults => killer[t].node \notin dirty

\* A worker heard from for the first time is ALIVE, not DEAD, until its first
\* heartbeat is recorded (receiver.go:79-102).
NewNodeNotDead ==
  rcv.pc = "discovered" => status[rcv.node] = "ALIVE"

\* A worker that stays up is ALIVE again and again, however it was lost: its
\* late heartbeats get through to a successful kill (tolerance.go:110-150).
ReturningNodeRevived ==
  \A n \in Nodes : <>[](n \in up) => []<>(status[n] = "ALIVE")

\* A worker that stays down ends up DEAD for good, whatever late heartbeats and
\* kill replies are still on their way (tolerance.go:66-92).
SilentNodeDeclaredDead ==
  \A n \in Nodes : <>[](n \notin up) => <>[](status[n] \in {"DEAD", "UNKNOWN"})

\* DEAD means no heartbeat for the whole dead interval: a node is never
\* declared DEAD right after a heartbeat of it was recorded (tolerance.go:75-80
\* reads the time of the last one and sets the status in two steps).
DeadMeansSilent ==
  [][\A n \in Nodes : status[n] # "DEAD" /\ status'[n] = "DEAD" => age[n] = DeadAfter]_vars

\* This master keeps the promise of NodeStatus.  The mapping is the identity:
\* the goroutines, the clock and the network are what the promise hides.
NS == INSTANCE NodeStatus WITH LeaderMoves <- "leadership" \in Faults

NodeStatusSpec == NS!Spec
=============================================================================
