------------------------- MODULE NodeLifecycleProofs -------------------------
(***************************************************************************)
(* Theorems of NodeLifecycle, for any set of workers, any intervals and    *)
(* any number of goroutines.                                               *)
(***************************************************************************)
EXTENDS NodeLifecycle, TLAPS

\* Type correctness: the node table, the maps and the goroutines of the receiver,
\* the checker and the killers keep their types whatever the environment does.
THEOREM TypeCorrect == Spec => []TypeOK
<1> USE LifecycleAssumption DEF LifecycleAssumption
<1>1. Init => TypeOK
  <2> SUFFICES ASSUME NEW n0 \in Nodes, InitAt(n0)
               PROVE  TypeOK
    BY DEF Init
  <2> QED
    BY DEF InitAt, TypeOK, Statuses, RcvPCs, ChkPCs, KillPCs
<1>2. TypeOK /\ [Next]_vars => TypeOK'
  <2> SUFFICES ASSUME TypeOK, [Next]_vars
               PROVE  TypeOK'
    OBVIOUS
  <2> USE DEF TypeOK, Statuses, RcvPCs, ChkPCs, KillPCs, tableVars, workerVars,
              chkVars, killVars
  <2>1. CASE Receiver
    <3>1. ASSUME NEW n \in Nodes, Receive(n) PROVE TypeOK'
      BY <3>1 DEF Receive
    <3>2. CASE Discovered
      BY <3>2 DEF Discovered
    <3>3. CASE LateDecide
      BY <3>3 DEF LateDecide, LateDecision
    <3>4. CASE LateRevive
      BY <3>4 DEF LateRevive, Revive
    <3>5. CASE LateSpawn
      BY <3>5 DEF LateSpawn, Spawn
    <3>6. CASE UpdateNodeFromHeartbeat
      BY <3>6 DEF UpdateNodeFromHeartbeat
    <3>7. QED
      BY <2>1, <3>1, <3>2, <3>3, <3>4, <3>5, <3>6 DEF Receiver
  <2>2. CASE Checker
    <3>1. CASE CheckBegin
      BY <3>1 DEF CheckBegin, Known
    <3>2. ASSUME NEW n \in Nodes, CheckRead(n) PROVE TypeOK'
      BY <3>2 DEF CheckRead, Verdict
    <3>3. CASE MarkDead
      BY <3>3 DEF MarkDead
    <3>4. CASE MarkSuspect
      BY <3>4 DEF MarkSuspect
    <3>5. CASE CheckSkip
      BY <3>5 DEF CheckSkip
    <3>6. CASE Recovered
      BY <3>6 DEF Recovered
    <3>7. CASE CheckEnd
      BY <3>7 DEF CheckEnd
    <3>8. QED
      BY <2>2, <3>1, <3>2, <3>3, <3>4, <3>5, <3>6, <3>7 DEF Checker
  <2>3. ASSUME NEW t \in Threads, Killer(t) PROVE TypeOK'
    <3>1. CASE Dial(t)
      BY <3>1 DEF Dial, GoTo
    <3>2. CASE WorkerKill(t)
      BY <3>2 DEF WorkerKill, GoTo, RemoveContainers
    <3>3. CASE ConnectionLost(t)
      BY <3>3 DEF ConnectionLost, GoTo
    <3>4. CASE Timeout(t)
      BY <3>4 DEF Timeout, GoTo
    <3>5. CASE RestoreNode(t)
      BY <3>5 DEF RestoreNode, GoTo
    <3>6. CASE ExitKiller(t)
      BY <3>6 DEF ExitKiller, GoTo
    <3>7. QED
      BY <2>3, <3>1, <3>2, <3>3, <3>4, <3>5, <3>6 DEF Killer
  <2>4. ASSUME NEW n \in Nodes, Worker(n) PROVE TypeOK'
    <3>1. CASE WorkerStart(n)
      BY <3>1 DEF WorkerStart
    <3>2. CASE WorkerCrash(n)
      BY <3>2 DEF WorkerCrash
    <3>3. CASE WorkerStop(n)
      BY <3>3 DEF WorkerStop, RemoveContainers
    <3>4. CASE SendHeartbeat(n)
      BY <3>4 DEF SendHeartbeat
    <3>5. CASE LoseHeartbeat(n)
      BY <3>5 DEF LoseHeartbeat
    <3>6. CASE OrphanKill(n)
      BY <3>6 DEF OrphanKill, RemoveContainers
    <3>7. QED
      BY <2>4, <3>1, <3>2, <3>3, <3>4, <3>5, <3>6 DEF Worker
  <2>5. CASE Tick
    BY <2>5 DEF Tick
  <2>6. CASE LeadershipChange
    BY <2>6 DEF LeadershipChange
  <2>7. CASE UNCHANGED vars
    BY <2>7 DEF vars
  <2>8. QED
    BY <2>1, <2>2, <2>3, <2>4, <2>5, <2>6, <2>7 DEF Next
<1>3. QED
  BY <1>1, <1>2, PTL DEF Spec

-----------------------------------------------------------------------------
(* At most one KillContainers goroutine works on a node. *)

\* A goroutine that stays at work leaves the sets of goroutines as they are.
LEMMA AdvanceKiller ==
  ASSUME TypeOK, OneKillerPerNode,
         NEW t \in Threads, killer[t].pc # "off",
         NEW pc \in KillPCs \ {"off"}, GoTo(t, pc), UNCHANGED recovering
  PROVE  OneKillerPerNode'
<1>1. \A u \in Threads : /\ killer'[u].node = killer[u].node
                         /\ killer'[u].pc = "off" <=> killer[u].pc = "off"
  BY DEF TypeOK, GoTo
<1>2. \A n \in Nodes : KillersOf(n)' = KillersOf(n)
  BY <1>1 DEF KillersOf
<1>3. QED
  BY <1>2 DEF OneKillerPerNode

\* Only HandleLateHeartbeat starts a goroutine, and only for a node that is not
\* in recovering; the deferred function takes both away together.
LEMMA OneKillerStep ==
  ASSUME TypeOK, OneKillerPerNode, [Next]_vars
  PROVE  OneKillerPerNode'
<1>1. ASSUME UNCHANGED killVars
      PROVE  OneKillerPerNode'
  <2>1. \A n \in Nodes : KillersOf(n)' = KillersOf(n)
    BY <1>1 DEF KillersOf, killVars
  <2>2. QED
    BY <1>1, <2>1 DEF OneKillerPerNode, killVars
<1>2. ASSUME Spawn
      PROVE  OneKillerPerNode'
  <2>1. CASE rcv.node \in recovering
    BY <2>1, <1>2, <1>1 DEF Spawn
  <2>2. CASE rcv.node \notin recovering
    <3>1. PICK t \in Threads :
            /\ killer[t].pc = "off"
            /\ killer' = [killer EXCEPT ![t] = [pc |-> "dial", node |-> rcv.node]]
            /\ recovering' = recovering \cup {rcv.node}
      BY <2>2, <1>2 DEF Spawn
    <3>2. KillersOf(rcv.node) = {}
      BY <2>2 DEF OneKillerPerNode, TypeOK
    <3>3. /\ killer'[t] = [pc |-> "dial", node |-> rcv.node]
          /\ \A u \in Threads \ {t} : killer'[u] = killer[u]
      BY <3>1 DEF TypeOK
    <3>4. \A n \in Nodes : n # rcv.node => KillersOf(n)' = KillersOf(n)
      BY <3>1, <3>3 DEF KillersOf
    <3>5. \A n \in Nodes : n # rcv.node => (n \in recovering' <=> n \in recovering)
      BY <3>1
    <3>6. rcv.node \in recovering'
      BY <3>1
    <3>7. ASSUME NEW n \in Nodes
          PROVE  /\ \A t1, t2 \in KillersOf(n)' : t1 = t2
                 /\ n \in recovering' <=> KillersOf(n)' # {}
      <4>1. CASE n = rcv.node
        <5>1. KillersOf(n)' = {t}
          BY <3>1, <3>2, <3>3, <4>1 DEF KillersOf
        <5>2. QED
          BY <5>1, <3>6, <4>1
      <4>2. CASE n # rcv.node
        BY <3>4, <3>5, <4>2 DEF OneKillerPerNode
      <4>3. QED
        BY <4>1, <4>2
    <3>8. QED
      BY <3>7 DEF OneKillerPerNode
  <2>3. QED
    BY <2>1, <2>2
<1>3. CASE Receiver
  BY <1>1, <1>2, <1>3
     DEF Receiver, Receive, Discovered, LateDecide, LateRevive, Revive, LateSpawn,
         UpdateNodeFromHeartbeat
<1>4. CASE Checker
  BY <1>1, <1>4
     DEF Checker, CheckBegin, CheckRead, MarkDead, MarkSuspect, CheckSkip, Recovered,
         CheckEnd
<1>5. ASSUME NEW t \in Threads, Killer(t)
      PROVE  OneKillerPerNode'
  <2>1. CASE Dial(t)
    BY <2>1, AdvanceKiller DEF Dial, KillPCs
  <2>2. CASE WorkerKill(t)
    BY <2>2, AdvanceKiller DEF WorkerKill, KillPCs
  <2>3. CASE ConnectionLost(t)
    BY <2>3, AdvanceKiller DEF ConnectionLost, KillPCs
  <2>4. CASE Timeout(t)
    BY <2>4, AdvanceKiller DEF Timeout, KillPCs
  <2>5. CASE RestoreNode(t)
    BY <2>5, AdvanceKiller DEF RestoreNode, KillPCs
  <2>6. CASE ExitKiller(t)
    <3>1. KillersOf(killer[t].node) = {t}
      BY <2>6 DEF OneKillerPerNode, KillersOf, ExitKiller, TypeOK
    <3>2. /\ killer'[t].pc = "off"
          /\ \A u \in Threads \ {t} : killer'[u] = killer[u]
      BY <2>6 DEF ExitKiller, GoTo, TypeOK
    <3>3. ASSUME NEW n \in Nodes
          PROVE  /\ \A t1, t2 \in KillersOf(n)' : t1 = t2
                 /\ n \in recovering' <=> KillersOf(n)' # {}
      <4>1. CASE n = killer[t].node
        <5>1. KillersOf(n)' = {}
          BY <3>1, <3>2, <4>1 DEF KillersOf
        <5>2. QED
          BY <2>6, <4>1, <5>1 DEF ExitKiller
      <4>2. CASE n # killer[t].node
        <5>1. KillersOf(n)' = KillersOf(n)
          BY <2>6, <3>2, <4>2 DEF KillersOf, ExitKiller
        <5>2. QED
          BY <2>6, <4>2, <5>1 DEF OneKillerPerNode, ExitKiller
      <4>3. QED
        BY <4>1, <4>2
    <3>4. QED
      BY <3>3 DEF OneKillerPerNode
  <2>7. QED
    BY <1>5, <2>1, <2>2, <2>3, <2>4, <2>5, <2>6 DEF Killer
<1>6. ASSUME NEW n \in Nodes, Worker(n)
      PROVE  OneKillerPerNode'
  BY <1>1, <1>6
     DEF Worker, WorkerStart, WorkerCrash, WorkerStop, SendHeartbeat, LoseHeartbeat,
         OrphanKill
<1>7. CASE Tick
  BY <1>1, <1>7 DEF Tick
<1>8. CASE LeadershipChange
  BY <1>1, <1>8 DEF LeadershipChange
<1>9. CASE UNCHANGED vars
  BY <1>1, <1>9 DEF vars, killVars
<1>10. QED
  BY <1>3, <1>4, <1>5, <1>6, <1>7, <1>8, <1>9 DEF Next

\* Under every fault the map recovering names the nodes with a goroutine at work,
\* which is one goroutine each.
THEOREM OneKiller == Spec => []OneKillerPerNode
<1>1. Init => OneKillerPerNode
  BY DEF Init, InitAt, OneKillerPerNode, KillersOf
<1>2. QED
  BY <1>1, OneKillerStep, TypeCorrect, PTL DEF Spec

-----------------------------------------------------------------------------
(* What a leader can rely on while its role is fixed and the receiver is not *)
(* suspended inside HandleLateHeartbeat.                                     *)

\* NoSplitBrain and KillOnlyDeadNodes are not inductive: they need to know where
\* the goroutines are, and that the receiver never acts on an old decision.
LeaderInv ==
  /\ KillersWorkOnDead
  /\ rcv.pc \notin {"revive", "spawn"}
  /\ ~isLeader => \A t \in Threads : killer[t].pc = "off"
  /\ "docker" \notin Faults => NoSplitBrain
  /\ "timeout" \notin Faults => \A n \in Nodes : orphans[n] = 0

LEMMA LeaderInvStep ==
  ASSUME "leadership" \notin Faults, "preempt" \notin Faults,
         TypeOK, OneKillerPerNode, LeaderInv, [Next]_vars
  PROVE  LeaderInv'
<1> USE DEF LeaderInv, KillersWorkOnDead, NoSplitBrain
<1>1. isLeader' = isLeader
  BY DEF Next, Receiver, Receive, Discovered, LateDecide, LateRevive, Revive,
         LateSpawn, Spawn, UpdateNodeFromHeartbeat, Checker, CheckBegin, CheckRead,
         MarkDead, MarkSuspect, CheckSkip, Recovered, CheckEnd, Killer, Dial,
         WorkerKill, ConnectionLost, Timeout, RestoreNode, ExitKiller, Worker,
         WorkerStart, WorkerCrash, WorkerStop, SendHeartbeat, LoseHeartbeat,
         OrphanKill, Tick, LeadershipChange, vars
\* Most steps change no status, no goroutine and not what runs on a worker.
<1>2. ASSUME UNCHANGED <<status, killer, orphans, dirty>>,
             rcv'.pc \notin {"revive", "spawn"}
      PROVE  LeaderInv'
  BY <1>1, <1>2
<1>3. CASE Receiver
  <2>1. ASSUME NEW n \in Nodes, Receive(n) PROVE LeaderInv'
    <3>1. /\ \A m \in Nodes : status[m] = "DEAD" => status'[m] = "DEAD"
          /\ rcv'.pc \notin {"revive", "spawn"}
          /\ UNCHANGED <<killer, orphans, dirty>>
      BY <2>1 DEF Receive, TypeOK, killVars
    <3>2. QED
      BY <1>1, <3>1 DEF TypeOK
  <2>2. CASE Discovered
    BY <1>2, <2>2 DEF Discovered, TypeOK, tableVars, workerVars, killVars
  <2>3. CASE LateDecide
    BY <1>2, <2>3 DEF LateDecide, TypeOK, tableVars, workerVars, killVars
  <2>4. CASE LateRevive
    <3>1. ~isLeader /\ rcv'.pc = "update" /\ UNCHANGED <<killer, orphans>>
      BY <2>4 DEF LateRevive, LateDecision, Revive, TypeOK, workerVars, killVars
    <3>2. QED
      BY <1>1, <3>1
  <2>5. CASE LateSpawn
    <3>1. /\ isLeader
          /\ status[rcv.node] = "DEAD"
          /\ rcv'.pc = "update"
          /\ UNCHANGED <<status, orphans, dirty>>
      BY <2>5 DEF LateSpawn, LateDecision, Spawn, TypeOK, workerVars, tableVars
    <3>2. \A t \in Threads : killer'[t] = killer[t] \/
                             (killer'[t].pc = "dial" /\ killer'[t].node = rcv.node)
      BY <2>5 DEF LateSpawn, Spawn, TypeOK, killVars
    <3>3. QED
      BY <1>1, <3>1, <3>2
  <2>6. CASE UpdateNodeFromHeartbeat
    <3>1. /\ \A m \in Nodes : status[m] = "DEAD" => status'[m] = "DEAD"
          /\ rcv'.pc = "idle"
          /\ UNCHANGED <<killer, orphans, dirty>>
      BY <2>6 DEF UpdateNodeFromHeartbeat, TypeOK, killVars, workerVars
    <3>2. QED
      BY <1>1, <3>1 DEF TypeOK
  <2>7. QED
    BY <1>3, <2>1, <2>2, <2>3, <2>4, <2>5, <2>6 DEF Receiver
<1>4. CASE Checker
  <2>1. CASE MarkDead
    <3>1. /\ status' = [status EXCEPT ![chk.node] = "DEAD"]
          /\ status[chk.node] # "DEAD"
          /\ dirty' = dirty \cup {chk.node}
          /\ chk.node \in Nodes
          /\ UNCHANGED <<rcv, killer, orphans>>
      BY <2>1 DEF MarkDead, TypeOK, killVars
    <3>2. QED
      BY <1>1, <3>1 DEF TypeOK
  <2>2. CASE MarkSuspect
    <3>1. /\ status' = [status EXCEPT ![chk.node] = "SUSPECT"]
          /\ status[chk.node] = "ALIVE"
          /\ chk.node \in Nodes
          /\ UNCHANGED <<rcv, killer, orphans, dirty>>
      BY <2>2 DEF MarkSuspect, TypeOK, killVars, workerVars
    <3>2. QED
      BY <1>1, <3>1 DEF TypeOK
  <2>3. QED
    BY <1>2, <1>4, <2>1, <2>2
       DEF Checker, CheckBegin, CheckRead, CheckSkip, Recovered, CheckEnd,
           tableVars, workerVars, killVars
<1>5. ASSUME NEW t \in Threads, Killer(t)
      PROVE  LeaderInv'
  <2> DEFINE n == killer[t].node
  <2>0. \A u \in Threads \ {t} : killer[u].node = n /\ killer[t].pc # "off" => killer[u].pc = "off"
    BY DEF OneKillerPerNode, KillersOf, TypeOK
  <2>1. CASE Dial(t)
    <3>1. /\ killer[t].pc = "dial"
          /\ killer'[t].pc \in {"wait", "exit"} /\ killer'[t].node = n
          /\ \A u \in Threads \ {t} : killer'[u] = killer[u]
          /\ UNCHANGED <<status, rcv, orphans, dirty>>
      BY <2>1 DEF Dial, GoTo, TypeOK, tableVars, workerVars
    <3>2. QED
      BY <1>1, <3>1
  <2>2. CASE WorkerKill(t)
    <3>1. /\ killer[t].pc = "wait"
          /\ killer'[t].pc = "acked" /\ killer'[t].node = n
          /\ \A u \in Threads \ {t} : killer'[u] = killer[u]
          /\ dirty' \subseteq dirty
          /\ "docker" \notin Faults => n \notin dirty'
          /\ UNCHANGED <<status, rcv, orphans>>
      BY <2>2 DEF WorkerKill, RemoveContainers, GoTo, TypeOK, tableVars
    <3>2. QED
      BY <1>1, <3>1
  <2>3. CASE ConnectionLost(t)
    <3>1. /\ killer[t].pc # "off"
          /\ killer'[t].pc = "exit"
          /\ \A u \in Threads \ {t} : killer'[u] = killer[u]
          /\ UNCHANGED <<status, rcv, orphans, dirty>>
      BY <2>3 DEF ConnectionLost, GoTo, TypeOK, tableVars, workerVars
    <3>2. QED
      BY <1>1, <3>1
  <2>4. CASE Timeout(t)
    <3>1. /\ "timeout" \in Faults
          /\ killer[t].pc # "off"
          /\ killer'[t].pc = "exit"
          /\ \A u \in Threads \ {t} : killer'[u] = killer[u]
          /\ UNCHANGED <<status, rcv, dirty>>
      BY <2>4 DEF Timeout, GoTo, TypeOK, tableVars
    <3>2. QED
      BY <1>1, <3>1
  <2>5. CASE RestoreNode(t)
    <3>1. /\ killer[t].pc = "acked"
          /\ killer'[t].pc = "exit"
          /\ \A u \in Threads \ {t} : killer'[u] = killer[u]
          /\ status' = [status EXCEPT ![n] = "ALIVE"]
          /\ UNCHANGED <<rcv, orphans, dirty>>
      BY <2>5 DEF RestoreNode, GoTo, TypeOK, workerVars
    <3>2. \A u \in Threads \ {t} : killer[u].pc # "off" => killer[u].node # n
      BY <2>0, <3>1
    <3>3. QED
      BY <1>1, <3>1, <3>2 DEF TypeOK
  <2>6. CASE ExitKiller(t)
    <3>1. /\ killer'[t].pc = "off"
          /\ \A u \in Threads \ {t} : killer'[u] = killer[u]
          /\ UNCHANGED <<status, rcv, orphans, dirty>>
      BY <2>6 DEF ExitKiller, GoTo, TypeOK, tableVars, workerVars
    <3>2. QED
      BY <1>1, <3>1
  <2>7. QED
    BY <1>5, <2>1, <2>2, <2>3, <2>4, <2>5, <2>6 DEF Killer
<1>6. ASSUME NEW n \in Nodes, Worker(n)
      PROVE  LeaderInv'
  <2>1. /\ UNCHANGED <<status, rcv, killer>>
        /\ dirty' \subseteq dirty
    BY <1>6 DEF Worker, WorkerStart, WorkerCrash, WorkerStop, SendHeartbeat,
                LoseHeartbeat, OrphanKill, RemoveContainers, tableVars, killVars
  <2>2. (\A m \in Nodes : orphans[m] = 0) => \A m \in Nodes : orphans'[m] = 0
    BY <1>6 DEF Worker, WorkerStart, WorkerCrash, WorkerStop, SendHeartbeat,
                LoseHeartbeat, OrphanKill, TypeOK
  <2>3. QED
    BY <1>1, <2>1, <2>2
<1>7. CASE Tick
  BY <1>2, <1>7 DEF Tick, workerVars, killVars
<1>8. CASE LeadershipChange
  BY <1>8 DEF LeadershipChange
<1>9. CASE UNCHANGED vars
  BY <1>2, <1>9 DEF vars
<1>10. QED
  BY <1>3, <1>4, <1>5, <1>6, <1>7, <1>8, <1>9 DEF Next

LEMMA LeaderInvHolds ==
  ASSUME "leadership" \notin Faults, "preempt" \notin Faults
  PROVE  Spec => []LeaderInv
<1>1. Init => LeaderInv
  BY DEF Init, InitAt, LeaderInv, KillersWorkOnDead, NoSplitBrain
<1>2. TypeOK /\ OneKillerPerNode /\ LeaderInv /\ [Next]_vars => LeaderInv'
  BY LeaderInvStep
<1>3. QED
  BY <1>1, <1>2, TypeCorrect, OneKiller, PTL DEF Spec

\* Whatever times out and whatever Docker does, a goroutine of the leader works on a
\* node that is DEAD from its start to the worker's answer.
THEOREM KillersOnDeadNodes ==
  ASSUME "leadership" \notin Faults, "preempt" \notin Faults
  PROVE  Spec => []KillersWorkOnDead
<1>1. LeaderInv => KillersWorkOnDead
  BY DEF LeaderInv
<1>2. QED
  BY <1>1, LeaderInvHolds, PTL

\* The split-brain promise: while Docker obeys, whatever commands time out, a
\* worker with containers from before its death is DEAD to the leader.
THEOREM SplitBrainPrevented ==
  ASSUME "leadership" \notin Faults, "preempt" \notin Faults, "docker" \notin Faults
  PROVE  Spec => []NoSplitBrain
<1>1. LeaderInv => NoSplitBrain
  BY DEF LeaderInv
<1>2. QED
  BY <1>1, LeaderInvHolds, PTL

\* While no command is abandoned, whatever Docker does, a KillContainers reaches
\* only a worker that the leader holds DEAD.
THEOREM KillsAreSafe ==
  ASSUME "leadership" \notin Faults, "preempt" \notin Faults, "timeout" \notin Faults
  PROVE  Spec => []KillOnlyDeadNodes
<1>1. TypeOK /\ LeaderInv => KillOnlyDeadNodes
  BY DEF LeaderInv, KillOnlyDeadNodes, KillersWorkOnDead, KillersOf, TypeOK
<1>2. QED
  BY <1>1, TypeCorrect, LeaderInvHolds, PTL

-----------------------------------------------------------------------------
(* This master keeps the promise of NodeStatus. *)

\* A node the checker works on is in the node table, which never shrinks.
CheckerKnows ==
  /\ chk.todo \subseteq Known
  /\ chk.pc = "act" => chk.node \in Known

LEMMA CheckerKnowsStep ==
  ASSUME TypeOK, CheckerKnows, [Next]_vars
  PROVE  CheckerKnows'
<1>1. Known \subseteq Known'
  <2>1. ASSUME NEW n \in Nodes, status[n] # "UNKNOWN"
        PROVE  status'[n] # "UNKNOWN"
    <3>1. CASE Receiver
      BY <2>1, <3>1 DEF Receiver, Receive, Discovered, LateDecide, LateRevive, Revive,
                        LateSpawn, Spawn, UpdateNodeFromHeartbeat, TypeOK, tableVars
    <3>2. CASE Checker
      BY <2>1, <3>2 DEF Checker, CheckBegin, CheckRead, MarkDead, MarkSuspect, CheckSkip,
                        Recovered, CheckEnd, TypeOK, tableVars
    <3>3. ASSUME NEW t \in Threads, Killer(t) PROVE status'[n] # "UNKNOWN"
      BY <2>1, <3>3 DEF Killer, Dial, WorkerKill, ConnectionLost, Timeout, RestoreNode,
                        ExitKiller, TypeOK, tableVars
    <3>4. ASSUME NEW m \in Nodes, Worker(m) PROVE status'[n] # "UNKNOWN"
      BY <2>1, <3>4 DEF Worker, WorkerStart, WorkerCrash, WorkerStop, SendHeartbeat,
                        LoseHeartbeat, OrphanKill, tableVars
    <3>5. CASE Tick \/ LeadershipChange \/ UNCHANGED vars
      BY <2>1, <3>5 DEF Tick, LeadershipChange, vars, tableVars
    <3>6. QED
      BY <3>1, <3>2, <3>3, <3>4, <3>5 DEF Next
  <2>2. QED
    BY <2>1 DEF Known
<1>2. ASSUME UNCHANGED chk PROVE CheckerKnows'
  BY <1>1, <1>2 DEF CheckerKnows
<1>3. CASE Checker
  <2>1. CASE CheckBegin
    BY <1>1, <2>1 DEF CheckBegin, CheckerKnows, TypeOK
  <2>2. ASSUME NEW n \in Nodes, CheckRead(n) PROVE CheckerKnows'
    BY <1>1, <2>2 DEF CheckRead, CheckerKnows, TypeOK
  <2>3. CASE MarkDead \/ MarkSuspect \/ CheckSkip \/ Recovered \/ CheckEnd
    BY <1>1, <2>3 DEF MarkDead, MarkSuspect, CheckSkip, Recovered, CheckEnd,
                      CheckerKnows, TypeOK
  <2>4. QED
    BY <1>3, <2>1, <2>2, <2>3 DEF Checker
<1>4. CASE Receiver
  BY <1>2, <1>4 DEF Receiver, Receive, Discovered, LateDecide, LateRevive, Revive,
                    LateSpawn, Spawn, UpdateNodeFromHeartbeat, chkVars
<1>5. ASSUME NEW t \in Threads, Killer(t) PROVE CheckerKnows'
  BY <1>2, <1>5 DEF Killer, Dial, WorkerKill, ConnectionLost, Timeout, RestoreNode,
                    ExitKiller, chkVars
<1>6. ASSUME NEW m \in Nodes, Worker(m) PROVE CheckerKnows'
  BY <1>2, <1>6 DEF Worker, WorkerStart, WorkerCrash, WorkerStop, SendHeartbeat,
                    LoseHeartbeat, OrphanKill, chkVars
<1>7. CASE Tick \/ LeadershipChange \/ UNCHANGED vars
  BY <1>2, <1>7 DEF Tick, LeadershipChange, vars, chkVars
<1>8. QED
  BY <1>3, <1>4, <1>5, <1>6, <1>7 DEF Next

\* Every step of a goroutine, a worker or the clock is a step of NodeStatus or
\* changes nothing that NodeStatus shows.
LEMMA NodeStatusStep ==
  ASSUME "leadership" \notin Faults, "preempt" \notin Faults, "docker" \notin Faults,
         TypeOK, LeaderInv, CheckerKnows, [Next]_vars
  PROVE  [NS!Next]_(NS!vars)
<1> USE DEF NS!vars
<1> DEFINE Hidden == UNCHANGED <<status, isLeader, dirty>>
<1>1. ASSUME NEW n \in Nodes, NS!Hear(n) \/ NS!Suspect(n) \/ NS!Die(n) \/ NS!Clean(n)
                              \/ NS!Return(n)
      PROVE  NS!Next
  BY <1>1 DEF NS!Next
<1>2. CASE Receiver
  <2>1. ASSUME NEW n \in Nodes, Receive(n) PROVE NS!Hear(n) \/ Hidden
    BY <2>1 DEF Receive, NS!Hear, NS!Become, TypeOK
  <2>2. CASE LateRevive
    <3>1. status[rcv.node] = "DEAD" /\ ~isLeader /\ rcv.node \in Nodes
      <4>1. rcv.pc # "revive" /\ rcv.node \in Nodes
        BY DEF LeaderInv, TypeOK
      <4>2. LateDecision = "revive"
        BY <2>2, <4>1 DEF LateRevive
      <4>3. QED
        BY <4>1, <4>2 DEF LateDecision, TypeOK
    <3>2. NS!Return(rcv.node)
      BY <2>2, <3>1 DEF LateRevive, Revive, NS!Return, NS!Become, workerVars
    <3>3. QED
      BY <1>1, <3>1, <3>2
  <2>3. CASE UpdateNodeFromHeartbeat
    <3>1. rcv.node \in Nodes
      BY DEF TypeOK
    <3>2. CASE status[rcv.node] \in {"UNKNOWN", "SUSPECT"}
      <4>1. NS!Hear(rcv.node)
        BY <2>3, <3>2 DEF UpdateNodeFromHeartbeat, NS!Hear, NS!Become, workerVars
      <4>2. QED
        BY <1>1, <3>1, <4>1
    <3>3. CASE status[rcv.node] \in {"ALIVE", "DEAD"}
      BY <2>3, <3>3 DEF UpdateNodeFromHeartbeat, TypeOK, workerVars
    <3>4. QED
      BY <3>1, <3>2, <3>3 DEF TypeOK, Statuses
  <2>4. QED
    BY <1>1, <1>2, <2>1, <2>2, <2>3
       DEF Receiver, Discovered, LateDecide, LateSpawn, Spawn, tableVars, workerVars
<1>3. CASE Checker
  <2>1. CASE MarkDead
    <3>1. chk.node \in Nodes
      BY DEF TypeOK
    <3>2. CASE status[chk.node] \in {"ALIVE", "SUSPECT"}
      <4>1. NS!Die(chk.node)
        BY <2>1, <3>2 DEF MarkDead, NS!Die, NS!Become
      <4>2. QED
        BY <1>1, <3>1, <4>1
    <3>3. QED
      BY <2>1, <3>1, <3>2 DEF MarkDead, CheckerKnows, Known, TypeOK, Statuses
  <2>2. CASE MarkSuspect
    <3>1. chk.node \in Nodes
      BY DEF TypeOK
    <3>2. NS!Suspect(chk.node)
      BY <2>2 DEF MarkSuspect, NS!Suspect, NS!Become, workerVars
    <3>3. QED
      BY <1>1, <3>1, <3>2
  <2>3. QED
    BY <1>3, <2>1, <2>2
       DEF Checker, CheckBegin, CheckRead, CheckSkip, Recovered, CheckEnd, tableVars,
           workerVars
<1>4. ASSUME NEW t \in Threads, Killer(t)
      PROVE  [NS!Next]_(NS!vars)
  <2>1. killer[t].node \in Nodes
    BY DEF TypeOK
  <2>2. CASE WorkerKill(t)
    <3>1. NS!Clean(killer[t].node)
      BY <2>2 DEF WorkerKill, RemoveContainers, NS!Clean, tableVars
    <3>2. QED
      BY <1>1, <2>1, <3>1
  <2>3. CASE RestoreNode(t)
    <3>1. isLeader /\ status[killer[t].node] = "DEAD" /\ killer[t].node \notin dirty
      BY <2>3 DEF RestoreNode, LeaderInv, KillersWorkOnDead
    <3>2. NS!Return(killer[t].node)
      BY <2>3, <3>1 DEF RestoreNode, NS!Return, NS!Become, workerVars
    <3>3. QED
      BY <1>1, <2>1, <3>2
  <2>4. QED
    BY <1>4, <2>2, <2>3
       DEF Killer, Dial, ConnectionLost, Timeout, ExitKiller, tableVars, workerVars
<1>5. ASSUME NEW n \in Nodes, Worker(n)
      PROVE  [NS!Next]_(NS!vars)
  <2>1. NS!Clean(n) \/ Hidden
    BY <1>5 DEF Worker, WorkerStart, WorkerCrash, WorkerStop, SendHeartbeat,
                LoseHeartbeat, OrphanKill, RemoveContainers, NS!Clean, tableVars
  <2>2. QED
    BY <1>1, <2>1
<1>6. CASE Tick \/ LeadershipChange \/ UNCHANGED vars
  BY <1>6 DEF Tick, LeadershipChange, vars, workerVars
<1>7. QED
  BY <1>2, <1>3, <1>4, <1>5, <1>6 DEF Next

\* The goroutines, the clock and the network implement the abstract life of a
\* node: on the leader no DEAD node comes back before its containers are gone.
THEOREM ImplementsNodeStatus ==
  ASSUME "leadership" \notin Faults, "preempt" \notin Faults, "docker" \notin Faults
  PROVE  Spec => NodeStatusSpec
<1>1. Init => NS!Init /\ CheckerKnows
  BY DEF Init, InitAt, NS!Init, CheckerKnows
<1>2. TypeOK /\ CheckerKnows /\ [Next]_vars => CheckerKnows'
  BY CheckerKnowsStep
<1>3. TypeOK /\ LeaderInv /\ CheckerKnows /\ [Next]_vars => [NS!Next]_(NS!vars)
  BY NodeStatusStep
<1>4. QED
  BY <1>1, <1>2, <1>3, TypeCorrect, LeaderInvHolds, PTL
     DEF Spec, NodeStatusSpec, NS!Spec
=============================================================================
