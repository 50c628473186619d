# A TLA+ model of the Distributed Cluster Platform

The platform runs replicated containers on a set of workers. Masters form a Raft group;
the leader schedules containers onto workers over TCP, workers report with UDP multicast
heartbeats. This directory holds TLA+ modules for the parts of it whose correctness
depends on the order in which goroutines, commands and failures happen, the TLC
configurations that check them, and proofs for TLAPS.

Paths below are relative to `src/`. `PROJECT.json` maps every definition to its lines.

## 1. Inventory

| Component | State | Operations | Hard because | Correct when |
|---|---|---|---|---|
| Heartbeats (`internal/heartbeat`) | socket; node table through `State` | `send`, `handleHeartbeat` | packets get lost; discovery, late-heartbeat callback and update are separate critical sections | a node heard from becomes ALIVE, unless it is DEAD |
| Fault tolerance (`internal/fault`) | `recovering` | `check`, `HandleLateHeartbeat`, one goroutine per returning node | unlocked reads of `node.Status` and `LastHeartbeat`, a pass blocked by the recovery it runs, commands that time out | silent nodes end up DEAD, returning ones ALIVE, and only after their duplicates are gone |
| Recovery and retry (`cmd/master/main.go`) | container records | `onNodeDead`, the retry loop | run beside each other, the API and the goroutines of returning nodes, each with several Raft writes and commands | no replica is lost, none runs twice |
| Services API (`internal/api/server.go`) | services, container records | `createService`, `deleteService`; forwarding to the leader; login and refresh | a plan carried out one command at a time; deletion beside creation | every replica has a record; a deleted service is gone |
| Scheduler and load balancers | working copies of one call | `Plan`, `Schedule`, `SelectNode` | greedy, all-or-nothing, on a copy | no node oversubscribed, ports bound once, failure only for want of room |
| Cluster state (`internal/cluster/state.go`) | six maps behind one lock; node lists of the pools; audit list | getters return pointers; setters; `AssignNodeToPool`; `Snapshot`, `Restore` | what is read is used after the lock is released; a snapshot holds pointers; nodes and pools are not in the log but in the snapshot | what the log prescribes is shown; no node counts twice |
| Raft and FSM (`internal/cluster/raft.go`, `fsm.go`) | log, snapshots | `Apply`, `IsLeader`, `Leader`; the FSM's `Apply`, `Persist`, `Restore` | leadership moves; an `Apply` that fails may still commit; a snapshot is written while records change | masters agree on services and containers |
| Several masters together | each its own node table | the same, on every master | a follower's checks change nodes whose recovery is the leader's; a leader stops in the middle of one | the replica keeps one record that counts and ends up running |
| API gateway (`leaderForward`, `auth`, `login`, `refresh`; `internal/security`, `internal/audit`) | tokens; audit list of each master | forward to the leader, check token and role on every master, log | the leader changes under way; the connection breaks with the handler running; tokens expire | answers and audit entries tell what was committed |
| Command channel (`internal/agent/command.go`) | - | `SendCommand`, `handleConn` in a goroutine per connection | the master's deadline does not stop the worker | - |
| Docker manager (`internal/agent/docker.go`) | containers in Docker, `seq` | start, kill by service, kill all | list, stop and remove are separate calls beside starts; errors are logged and dropped; the daemon is shared; `seq` restarts | nothing leaks, a kill leaves nothing and spares others, a repeated start succeeds |
| Worker (`cmd/worker/main.go`) | process | start, planned stop | a stop removes the containers without telling anyone, and while commands are still served | - |
| Monitor (`internal/agent/monitor.go`) | - | `GetMetrics` | - | - |

How they interact: the receiver goroutine fills the node table and calls
`HandleLateHeartbeat`; the checker goroutine reads the table and calls `onNodeDead`;
`onNodeDead`, the retry loop and the API handlers plan with the scheduler, write records
through Raft and send commands; the goroutines of returning nodes send `KillContainers`,
stop records and set the node ALIVE. All of them share `State`, whose lock covers single
reads and writes only.

Every hazard found is listed in `PROJECT.json`, at its line and with the properties that
cover it.

## 2. Modules

| Module | Models |
|---|---|
| `NodeStatus` | what heartbeats and fault tolerance promise about a worker: the abstract specification |
| `NodeLifecycle` | receiver, checker, kill goroutines, commands, workers, clock: the detailed one |
| `NodeLifecycleProofs` | theorems about `NodeLifecycle` |
| `ContainerLifecycle` | create and delete handlers, recovery, retry loop, goroutines of returning nodes, workers' containers |
| `ContainerLifecycleProofs` | theorems about `ContainerLifecycle` |
| `ContainerCopiesProofs` | the theorem on how often a replica runs, on top of those |
| `Scheduler` | `Plan` with both load balancers |
| `SchedulerProofs` | theorems about `Scheduler` |
| `ReplicatedState` | log, FSM, snapshots and restarts of several masters; node tables and pools |
| `ReplicatedStateProofs` | theorems about `ReplicatedState` |
| `Failover` | node tables, checks, recoveries and retry loops of several masters under elections and crashes |
| `FailoverProofs` | theorems about `Failover` |
| `WorkerDocker` | command goroutines, Docker manager and processes of workers on one daemon |
| `WorkerDockerProofs` | theorems about `WorkerDocker` |
| `ApiGateway` | tokens, access rules, forwarding, the answers and audit entries of writes |
| `ApiGatewayProofs` | theorems about `ApiGateway` |
| `MC...` | the instances for TLC |

### NodeLifecycle

One master and any number of workers. A step is the code between two points at which
another goroutine can be observed: a lock of `State`, a command, or an unlocked read of
`node.Status` that a later step relies on.

| Variable | Code |
|---|---|
| `status`, `age` | `Node.Status`; now minus `Node.LastHeartbeat`, in heartbeat intervals, `DeadAfter` standing for anything larger and for the zero time of a new node |
| `rcv` | where `handleHeartbeat` stands, and the node it handles |
| `chk`, `since` | where `check` stands, the nodes of its list it has not looked at, what it made of the current one; the ages as of the `now` it captured |
| `recovering`, `killer` | `Tolerance.recovering`; the goroutines of `HandleLateHeartbeat` |
| `up`, `air`, `orphans` | worker processes; heartbeats under way; `KillContainers` a worker will run after its sender gave up |
| `dirty` | workers that still run containers from before they were declared DEAD; the subject of the promises, not a variable of the code |

Choices worth knowing:

* `check` captures `now` once and reads `LastHeartbeat` later, so `since` follows a newer
  heartbeat (`UpdateNodeFromHeartbeat` resets it) but not the clock.
* In the code the reads of `node.Status` and `LastHeartbeat` race with the locked writes.
  The model lets a read return any value present between the two steps around it. A torn
  read adds nothing: a `Status` mixed of two strings equals none of the constants, so it
  reads as "not DEAD", which one of the two was, and at the test for ALIVE as "skip", which
  one of the two says as well; of two heartbeat times, `Sub` uses the monotonic word alone,
  which is one word, and a mixture with the zero time is either as old as that or younger
  than the process.
* The goroutine that the leader starts has no bound in the code; `Threads` bounds how many
  are alive at once, and `Spawn` waits for a free one. `OneKillerPerNode` shows that more
  than one per node is never asked for.
* `Faults` says what the environment may do, so that a run or a theorem can name what it
  depends on: `timeout` (SendCommand gives up, the worker does not), `docker` (removing
  containers fails silently), `leadership` (the role moves), `preempt` (the receiver is
  suspended between its decision in `HandleLateHeartbeat` and acting on it).
* `NodeRemoved` is never assigned in the code and is left out.

### ContainerLifecycle

The leader. A step is one Raft write, one command or one read of the state; the handlers
of one service, the recovery, the retry loop and the goroutines interleave freely. A
container ID is a pair of its service and a number, handed out in order as the code
generates fresh ones. What node a plan picks is left open: any alive node may be a
candidate and any plan may fail. That covers pools, metrics, SUSPECT nodes (which no plan
picks; a plan that avoids one, or fails for its absence, is among the choices) and both
load balancers.

| Variable | Code |
|---|---|
| `status`, `services`, `rec` | `Node.Status`, `State.services`, `State.containers` (status and node of each record) |
| `docker`, `late`, `orphans` | what Docker runs on each worker; starts, and kills of all or of one service, that a worker will still carry out although their sender gave up (`orphans` of at most `MaxOrphans`) |
| `create`, `delete` | where the handlers of one service stand: `create.plan` and `create.i` are `plan` and `i` of `createService`, `delete.todo` the replicas `deleteService` looked up |
| `recovery` | `onNodeDead`: the containers still to recover, the one in hand, the node and ID of its replacement |
| `retry` | the retry loop: PENDING records not looked at yet, the plan of the current group |
| `kill` | the goroutines of `HandleLateHeartbeat` and the records each is to stop |
| `deaths` | bounds how often nodes die; not in the code |

`Faults` again: `refuse` (a command fails), `docker`, `timeout` (a start is abandoned but
still runs), `overdue` (a kill of a returning node is abandoned but still runs, and the node
waits for the next attempt), `slow` (a node dies while a plan that uses it is carried out),
`preempt` (the two list-then-write windows of `internal/fault` can be overtaken), `delete`
(and a deletion's kill can be abandoned and still run), `stop` (a worker restarts unnoticed).

Three assumptions on timing replace `slow` and `preempt` where these are off: a plan is
carried out before one of its nodes is declared DEAD (`MarkDeadInTime`), a goroutine does not
list the records of a node between its transition to DEAD and the list of its recovery
(`KillListInTime`), and a recovery does not write to a record that a goroutine has listed and
not stopped yet (`RecoveryRecordInTime`). No lock of the code enforces any of them. They are
therefore conjuncts of the next-state relation and not guards of the handlers, and a property
that depends on one says so in its comment.

Abstractions: a Raft write succeeds and is visible at once (the leader keeps its role); the
worker carries out a command in one step.

### Scheduler

One behaviour is one call of `Plan`: any pool, any request, one step per turn of the loop.
CPU is a `float64` in the code and, like RAM, a number of units here, where a unit stands for
much more than a rounding error. So rounding matters where a node has exactly the CPU that is
asked for: on one free core, 5 replicas of 0.2 do not fit, because 1 - 0.8 is less than 0.2.
There the model leaves it open whether the replica fits (`Doubtful`, `short`), once for each
state of a working copy, unless nothing was subtracted or nothing is asked for. The scores of
the weighted balancer are compared as exact fractions, so a tie here may be decided by
rounding there; no property depends on it. `SelectNode` is the result of the balancer's loop, the first of the
preferred candidates.

### ReplicatedState

Several masters and one log that they agree on (Raft is external). `Apply` appends an entry
on the leader, `FSMApply` lets one master catch up by one. `hist` records what the log
prescribes after each entry, so that a master can be compared with it.

| Variable | Code |
|---|---|
| `log`, `hist`, `leader` | Raft's log; not in the code; whose `IsLeader` is true |
| `mode`, `applied` | the process: down, inside `NewRaftNode`, up; the index its FSM has reached |
| `svcs`, `recs`, `nodes`, `pools` | `State.services`, `containers`, `nodes`, and `NodeIDs` of each pool |
| `hearing` | `handleHeartbeat` between `AddNode` and `AssignNodeToPool` |
| `taking`, `snap`, `ahead` | a snapshot between `FSM.Snapshot` and the end of `Persist`; the newest on disk; the index up to which its records may already show later entries |

`State.Snapshot` copies pointers, and `Persist` marshals them later: a status set meanwhile
is in the snapshot, and one set at the very moment may be read torn (`TORN`). The entries
are replayed afterwards, and `StateFollowsLog` says that this heals it.

### Failover

One replica and several masters. A worker that dies is declared DEAD by each master's own
check; the master that leads at that moment recovers. `store` is what the log prescribes,
`seen` each master's copy; a write of a master that does not lead is lost, as its callers
only log the error. `Faults` opens the windows one by one: `refuse`, `follower`, `forget`,
`between`, `midway`, `bounce`, `lag`, `slow` (explained in the module). Workers do not come
back here; `NodeLifecycle` and `ContainerLifecycle` are about that.

### WorkerDocker

One step per Docker call. `box` is the daemon, keyed by container name, so that two
containers cannot share one; `job` holds the goroutines of `handleConn` and, under the
worker's ID, `main` after a signal; `wanted` makes the master repeat a StartContainer that
failed, as the retry loop does. A StartContainer that timed out may still be running when the
retry sends the next one, so two of one service may be under way on a worker (`MaxOverlaps`
bounds how often); that the lock of `docker.go:89-92` gives them different names is a step of
its own (`TakeName`). `left` and the field `clean` are not in the code: containers
that Docker refused to remove, and kills that no start ran beside.

### ApiGateway

`job[r]` are the handlers that serve a request: the first on the master the client chose,
a second one where it was forwarded to. `knows[m]` is what `Leader()` returns on `m`, and
`IsLeader` is `knows[m] = m`: a deposed leader believes in itself until it hears of the next,
but only `leader` can commit. `done` counts the writes committed for a request and `calm`
says that leadership has been settled since it was sent; both are there for the properties.
What the handlers do to containers is in `ContainerLifecycle`.

## 3. Runs

`tlc -workers 2 -config <cfg> <module>`; the longest take about two minutes.

| Run | Asks | Bounds |
|---|---|---|
| `node_safety` | while commands time out: well-formed, one kill goroutine per node and `recovering` exact, goroutines work on DEAD nodes, no split brain, refinement of `NodeStatus` | 1 worker, 2 goroutines, suspect after 1, dead after 2 |
| `node_liveness` | while leadership moves, Docker fails and the receiver is suspended: workers that stay up come back; those that stay down end up DEAD | 1 goroutine |
| `container_recovery` | well-formed, no replica lost or doubled, no container without a record, while commands fail and kills are carried out late | 2 replicas, 5 records, 2 deaths, 2 late kills |
| `container_delete` | one service's deletion takes no replica from the other and leaves its RUNNING records true, and none runs twice although records are stopped under others' hands and the deletion's kill is carried out late | 2 services of 1 replica, 2 records each, 1 death, 1 late kill |
| `container_liveness` | every replica is RUNNING or FAILED in the end, with commands refused, timed out or carried out late, Docker failing and quick restarts | 1 replica, 3 records, 1 death, 1 late kill |
| `scheduler_plan` | capacity, ports, all-or-nothing, spread, whatever rounding decides | all pools of up to 2 small nodes, and of 3 with room; 1 to 4 replicas |
| `replicated_state` | masters show what the log prescribes and count no node twice | 2 masters, 3 entries, 1 snapshot, 1 crash, 1 election |
| `failover` | one record that counts, and a replica that ends up running, across a death, a crash and an election, while starts fail | 3 masters, 2 workers, 3 records, 1 of each |
| `worker_docker` | no leaks, kills complete and confined, starts that are repeated succeed in the end | 2 workers, 1 service, 2 goroutines, 5 numbers; one start, kill, stop, error and overlap |
| `api_gateway` | answers, audit and permissions match what was committed; one hop; no needless refusal; every request answered | 3 masters (one without an address), a writer and a reader, 1 write beside a service that is there, 2 elections, 1 error |

Why the bounds are enough. Workers of `NodeLifecycle` share only the receiver and the
checker, which serve one at a time, and no property relates two of them; the proofs are
for any number of workers. Two goroutines for one worker are what `recovering` must
prevent. Suspect after 1 and dead after 2 intervals put a state between and around both
limits. One abandoned kill (`MaxOrphans`) is enough for it to meet the next attempt. In
`ContainerLifecycle` two workers give a replica somewhere to go; two deaths let a node
die, come back, take replicas again and die again, or both nodes die one after the other;
a replica uses a new record for each recovery, and a recovery that finds no unused record
can only fail its plan; two late kills are one for each worker. In `ReplicatedState` three entries let one be in a snapshot before
its index, one after, and one be replayed; two masters let one install the other's. In
`Failover` three masters are the smallest group with a quorum when one is down; a record
is used per recovery; with one death a recovery meets every other event once, and a leader
may crash at any of its steps but the one between STOPPED and the next record (`between`).
With one master, `ReplicaServed` holds for three workers and two deaths too;
`OneActiveRecord` is proved for all bounds, with leaders that crash there, too, or are
deposed in the middle of a recovery, and heartbeats that come late besides.
In `WorkerDocker` two goroutines are what can meet on one name or one service, and the
second worker is there to be spared; names and labels keep services apart as they keep workers
apart, and the proofs are for any number of both. Five numbers get a start past two names that
are taken, a kill that removes what it has created, and an error. In `ApiGateway` requests meet only through the
services; two of them, on two masters, hold too. `CHECK_DEADLOCK FALSE` appears where the
bounds use everything up: services have settled, the log is full, every request is answered.

### Where the code and its documentation disagree

These runs end in a counterexample, each to a statement of the design chapter
(`docs/continut/capitol3/capitol3.tex`), quoted in `PROJECT.json`.

| Run | What happens |
|---|---|
| `pools_after_restart` | a master restarts from a snapshot: its nodes are back, `main` replaces the pools by empty ones, and a node that is known is never assigned again |
| `failover_stranded` | followers declare the worker DEAD while nobody leads; the one elected next never recovers its replicas |

More of the promises fail once a fault is let in that the passing runs leave out. Each can
be seen with the runs above by changing `Faults` and naming the property; the bounds are
those of the runs where the table gives none. Where a document says otherwise, it is named.

| Property | `Faults` | What happens |
|---|---|---|
| `NoSplitBrain` | `{"docker"}` | the reply of the kill is not looked at: the node returns with its old containers, against tolerance.go:107-109 ("only after the kill succeeds") |
| `NoSplitBrain` | `{"leadership"}` | a follower revives without a kill, then leads |
| `KillOnlyDeadNodes` | `{"timeout"}` | a kill that timed out runs after a second one brought the node back |
| `KillOnlyDeadNodes` | `{"preempt"}` | a late decision sends a kill to a node that is ALIVE again |
| `NewNodeNotDead` | `{}` | a check between AddNode and the first update declares the new node DEAD, against capitol3.tex:142 ("with status ALIVE") |
| `DeadMeansSilent` | `{}` | a node is declared DEAD right after a heartbeat of it was recorded |
| `NoDuplicateReplicas`, `NoHiddenContainers` | `{"timeout"}` | a start that timed out is repeated, and both run (capitol3.tex:337) |
| `NoDuplicateReplicas`, `NoHiddenContainers` | `{"docker"}` | a node returns with containers that its Docker did not remove, beside their replacements |
| `NoDuplicateReplicas`, `NoHiddenContainers` | `{"slow"}` | a start carried out on a node declared DEAD meanwhile, beside its replacement |
| `NoDuplicateReplicas`, `NoHiddenContainers` | `{"preempt"}` | a node is back before its recovery lists it: what was started there since is replaced, and both run |
| `RunningIsStarted` | `{"slow"}`, `{"stop"}` | a record is written RUNNING, or stays so, for a container that a kill or a stopped worker removed |
| `RunningIsStarted` | `{"refuse", "overdue"}` | a kill that timed out is carried out after a second one brought the node back, and removes what was started there since |
| `DeletedServiceGone` | `{"delete"}` | a deletion overtakes the creation of its service, and a container stays (capitol3.tex:579) |
| `NoHiddenContainers` | `{"delete"}` | the same, with a record that says STOPPED |
| `StoppedWorkerReplaced` | `{"stop"}` | a worker's planned restart loses containers for good (capitol3.tex:160) |
| `ReplicasTracked` | `{"slow"}` | a replica started on a node that died meanwhile is lost when it returns |
| `ReplicasTracked` | `{"preempt"}` | the goroutine of a returning node stops records before the recovery lists them |
| `StoppedIsFinal` | `{}` | a recovery writes PENDING over a record stopped meanwhile |
| `RetryAllOrNothing` | `{}` | the retry loop starts half a group that createService is still writing |
| `ReplicaServed` | `{"follower"}` | see `failover_stranded` |
| `ReplicaServed` | `{"forget"}` | a worker dies before a restarted master has heard of it |
| `ReplicaServed` | `{"between"}` | the leader stops between STOPPED and AddContainer: no record stands for the replica |
| `ReplicaServed` | `{"midway"}` | a leader deposed in the middle of a recovery goes on without effect, and may lead again |
| `ReplicaServed`, `OneActiveRecord` | `{"lag"}` | a new leader recovers from records it has not caught up with |
| `ReplicaServed` | `{"refuse", "slow"}`, 1 master, 3 workers, 2 deaths | a retry records RUNNING on a worker declared DEAD while the start was under way |
| `OneActiveRecord` | `{"midway", "bounce"}` | an old recovery, resumed, adds a second record |
| `OneActiveRecord` | `{"refuse", "bounce"}`, 3 workers, 2 deaths, 2 elections | an old retry, resumed, makes its record RUNNING although the replica has moved on |
| `KillIsComplete` | (`WorkerDocker`) | a start overtakes a kill or the last signal: its container stays (capitol3.tex:339) |
| `AnswersTellTruth` | `{"late"}` | 503 for a service that is committed after all |
| `DeletedIsGone` | `{}` | DELETE answers 200 and logs SERVICE_DELETE although its Raft write failed (capitol3.tex:304) |

Most windows are small. The checker would have to be suspended between marking a node DEAD and
listing its containers for as long as a heartbeat and a command take; the window between the
goroutine's list and its stop of a record lasts for a few Raft writes, and a recovery that
comes to the same record then is enough. The passing runs and the theorems say what holds once
the windows are closed.

### Fairness

`NodeLifecycle`: the Go runtime schedules receiver, checker and every goroutine (weak
fairness; network calls return at the latest with their deadline), the clock advances, a
worker that is up sends on its ticker, and the network does not lose all of a worker's
heartbeats (strong fairness of `Receive`, because a packet in the air can be lost).
Nothing is assumed of workers starting, failing or Docker succeeding.

`ContainerLifecycle`: the same for handlers, recovery, retry loop and goroutines; a worker
declared DEAD is heard from again; and of the environment, that a plan retried for ever is
possible at some point, a start retried for ever succeeds at some point and so does a kill
(strong fairness): a cluster that stays full owes nobody a replica.

`Failover`: masters that run elect one of them, apply the log, hear workers and go on with
checks, recoveries and retries (weak fairness); nobody owes a crashed master its return.
`WorkerDocker`: goroutines run, a signalled process exits, the master sends a start again
(weak fairness); errors, crashes and restarts are owed by nobody. `ApiGateway`: handlers run
(weak fairness of the steps of each request); clients, Raft and the clock owe nothing.

## 4. Proofs

`tlapm` on each of `NodeLifecycleProofs.tla`, `ContainerLifecycleProofs.tla`,
`ContainerCopiesProofs.tla`, `SchedulerProofs.tla`, `WorkerDockerProofs.tla`, `ApiGatewayProofs.tla`,
`ReplicatedStateProofs.tla` and `FailoverProofs.tla`. The theorems hold for any sets of
masters, workers, services, goroutines, requests and users, any limits, pools, capacities and
bounds, under the named assumptions of the modules (`LifecycleAssumption`,
`ContainerAssumption`, `SchedulerAssumption`, `WorkerAssumption`, `ApiAssumption`,
`ReplicatedAssumption`, `FailoverAssumption`), which say of what kind the constants are, and
that sets whose members are put side by side are disjoint. An assumption on `Faults` stands in
the theorem that needs it. Every inductive invariant below was checked with TLC before it was
proved, on the instance of its run or, for `ContainerLifecycle`, on smaller ones with more
faults.

`NodeLifecycle`:

* `TypeCorrect`: `TypeOK` is inductive by itself.
* `OneKiller`: one goroutine per node and `recovering` exact, with every fault. Inductive
  with `TypeOK`: a goroutine is started only for a node that is not in `recovering`, and
  the only step that takes it out ends the goroutine.
* `SplitBrainPrevented`, `KillsAreSafe`: neither property is inductive. `LeaderInv` adds
  where the goroutines are: one on its way to a worker or back works on a DEAD node
  (`KillersWorkOnDead`), a follower has none, and the receiver holds no old decision.
  `OneKillerPerNode` is what makes it inductive: only the one goroutine of a node can make
  it ALIVE. Assumptions on `Faults` say which faults the promise survives: the role fixed
  and no preemption for both, an obedient Docker for the first, no timeouts for the second.
  The tables of section 3 show that each is needed.
* `ImplementsNodeStatus`: the refinement, with the same assumptions as the first and
  `CheckerKnows` (the checker works on nodes of the table).
* `KillersOnDeadNodes`: the part of `LeaderInv` that holds with timeouts and a failing
  Docker together.

`KillOnlyDeadNodes` (`KillsAreSafe`) is proved and not in a run, because the fault it
excludes, a timeout, is the subject of the run `node_safety`; with `{"docker"}` TLC confirms
it too.

`ContainerLifecycle`: the invariant is built in layers, and each theorem rests on the layers
it needs and excludes the faults that break them. Lemmas on records and workers come first,
then what each step does to what its goroutine has in hand, then, per layer, one lemma for
each of the five kinds of goroutine and for what nodes do.

* `TypeCorrect`, with every fault: `TypeInv` adds to `TypeOK` what each goroutine has in hand
  where it stands (a plan while `createService` carries it out, a replacement from the plan of
  a recovery until it is recorded or has failed, a record of its own service for a deletion).
* `RunningTellsTruth` (`RunningIsStarted`): what is going to be recorded as RUNNING was
  started and is still there (`StartedInv`), since plans that are carried out use ALIVE nodes
  (`PlansAlive`, no `slow`) and only what a returning node runs is removed, or what a deletion
  removes; and no record is left RUNNING on a node when it counts as ALIVE again, because
  nothing becomes RUNNING there after the goroutine has listed what it stops (`ListedInv`).
  It holds with preemption, abandoned starts, failing Dockers and deletions; a deletion's kill
  that is carried out late removes only what is deleted anyway (`OrphansDeleted`). A worker that is
  stopped unnoticed (`stop`) breaks it, and so does a kill of a returning node that is carried out after its master
  gave it up (`overdue`): command.go:116-127 does not stop the worker, the next heartbeat sends
  a second kill that brings the node back, and the first then removes what was started since.
* `NoReplicaForgotten` (`ReplicasTracked`): `HandsInv` says who may have a container of each
  status in hand: a SCHEDULED one is its handler's, a RESCHEDULING one the recovery's, what
  the retry loop has listed is PENDING, and what is RUNNING on a DEAD node waits for a
  recovery. So everything that a late kill stops is something a recovery still has to see to;
  that is false once the goroutine of a returning node can overtake the recovery
  (`preempt`). Kills carried out late touch no record. `CountInv` counts: a record that counts, or that a recovery has in hand although
  it is STOPPED, stands for one replica, and there are as many as `createService` has
  recorded. Each step keeps the set of those or swaps one for its replacement. A service that
  is being deleted drops out of both invariants and touches no other.
* `NothingRunsHidden` (`NoHiddenContainers`): `DockerInv` says that what runs on an ALIVE node
  runs once, and that a RUNNING record of the node shows it or the one goroutine that has its
  start in hand is about to write it (`Known`); a node in the last steps of its return is
  empty. Commands must do what the master is told (no `timeout`, no `docker`), and there are
  no deletions, which break the property. Kills carried out late are allowed: what they remove
  is not hidden.
* `NeverTwice` (`NoDuplicateReplicas`, in `ContainerCopiesProofs`): holds with deletions, and
  then needs another invariant. A deletion sets records to STOPPED under the hands of
  `createService`, of a recovery and of the retry loop, which write RUNNING, PENDING or
  RESCHEDULING over it, so that a status no longer tells who has a record in hand (`HandsInv`
  fails). `OneHandInv` says it without the statuses: no two of them have the same record in
  hand, and it is as its holder left it or STOPPED. By `RunsInv`, what runs on an ALIVE node
  runs once, and it is in a RUNNING or STOPPED record of that node that nobody has in hand, or
  somebody is about to record it there (`BelongsOn`). `BoundInv` counts: a service has no
  more records that count than `createService` has written, where a STOPPED one counts as long
  as somebody has it in hand or its container runs. A recovery that stops a record gives up
  one that counts before it adds another; what runs is mapped one to one to what counts, a
  replacement that has no record yet to the record that it replaces.

The tables of section 3 show that each of the other assumptions is needed.

`Scheduler`:

* `NeverOversubscribed` and `PortsNeverShared`: both properties compare the plan with the
  pool as it was found, and neither is inductive. `AllCharged` says that each working copy
  is its node with `Placed(i)` replicas charged to it, and that the charge fits;
  `CountAppend` counts the replicas of a plan that grows.
* `LeastConnectionsSpreads`: `SpreadEvenly` is inductive by itself. The node selected has
  no more containers than any other that could take the replica, and a node that can take
  one later could take one before.
* `NothingForAReason` (`AllOrNothing`): `Room` is the set of places of the pool, the pairs of
  a node and a number of replicas that it can take, and a plan should fail only when there
  are fewer than were asked for. By `FilledInv` each replica of the plan fills a place of its
  own: those of a node are filled in order, because the charge of `k` replicas is what
  `Takes` adds up. Where no node is a candidate, every place is filled (`RoomFilled`), so that
  `Room` is no larger than the plan. A place that would use up the last of a node's CPU counts
  only where no subtraction can have rounded (`CPUFor`): what `Doubtful` copies are offered is
  the rounding's choice, and `ShortInv` says that only those are ever turned down for it. So
  the theorem does not claim that 5 replicas of 0.2 fit on a core, and holds whether they do
  or not.

`WorkerDocker`: none of the properties is inductive; `IInv` is. Its parts say which name a
start has and that no two starts have the same (`NameOfStart`, `NamesDiffer`: the number
only grows while the process runs, and `Crash` and `Exit` end all goroutines before it
starts again from 0), that a kill works on containers of its own worker and service
(`KillOnOwn`), that the list of an undisturbed kill is complete (`KillOnCourse`) and who
has a created container (`CreatedHeld`). `LeaksNothing`, `KillsAreComplete` and
`KillsSpareOthers` follow. The last one needs the names: a start that fails removes its
container by force, and only because the name is its own it cannot hit one that runs.
Lemmas on records come first (what a step does to the fields of a goroutine), then one
lemma per action.

`ApiGateway`: `IInv` says of every request what its handlers have come to. `Form`: it has one
handler or two, and each is done exactly when it has answered. `Chain`: the first of two
waits for the second and hands its answer on, or answers 502. `Outcome`: the place and the
answer of the last handler tell how many writes were committed. `Allowed`: past `auth` only
requests get that may write. `Logged`: the last handler's master has the one entry that
belongs to its answer. `Straight`: an undisturbed request is at the leader, or at most one
hop away from it. The invariant is a conjunction over requests, so one lemma says what a step
of one handler leaves alone, and each action is a lemma about one request.

* `ForwardsOnce`, `WritesPermitted` and `RefusalsJustified` hold under every fault.
* `AnswersTrue` and `AuditComplete` assume `"late" \notin Faults`: an entry whose `Apply` has
  returned an error is not committed later. With it they are false, see the table above:
  the handler answers 503 and logs nothing, and the service appears. The parts of `Outcome`
  that need it are guarded by `Prompt`; the rest of `IInv` is proved without.

`ReplicatedState`: `Story` says that `hist` is what the entries of the log do one after the
other. For each master, `MasterFollows`, `SnapFollows` and `TakingFollows` compare the tables
it works on, its newest snapshot and the one in the making with `hist` after the index that
each of them claims. A record of a snapshot may be ahead of that index, because `Persist`
marshals the records themselves: it is `Shown`, that is, equal to the log's, or it has the
status, whole or torn, that a `SetContainerStatus` between the index and `ahead` gives a
record that was there all the time (`Kept`). That last part is what makes the invariant
inductive: replaying the entries over a record that is ahead must give the log's record in
the end, and would not if the record had been replaced in between. `MasterPools` says that
every node of a pool fits it and is in it once, in the tables as in the snapshots.

* `FollowsLog`: at `ahead` nothing can be ahead any more, so what is shown is the log's; two masters
  at the same place therefore agree.
* `OnePlace`: a node fits one pool only, and `AssignNodeToPool` looks before it appends.

`Failover`: `TypeInv` is `TypeOK` and what the loops hold on to: a record never disappears, so
a recovery or retry that has one in hand sets its status and not that of no record. That
holds for every master, deposed or not, and under every fault.

* `OneActive`: `AloneInv` adds that the leader has seen every write, that the record its
  recovery has in hand is RESCHEDULING and the one of its retry PENDING, and that no record
  counts once the recovery has written STOPPED. One record counts, so recovery and retry
  cannot both have one in hand, and `todo` holds it alone: each write of the leader leaves
  one record that counts or none. Writes of anyone else are lost. Two assumptions keep a new
  leader from starting anywhere else: it has applied the whole log (no `lag`), and its own
  loops from an earlier term have ended (no `bounce`). The table above shows that each is
  needed. A leader may be deposed or crash at any step.

Checked by TLC only: liveness, because the prover does not do fairness. Every invariant that a
passing run checks is stated by a theorem.

## 5. Not modelled, and the plan

Left out for good:

* `monitor.go` reads `/proc` and `sysctl`: parsing of input, no state.
* Logging, JSON, HTTP wording, flags, Docker's ports, images and limits, the signatures of
  tokens and the hashes of passwords.
* Raft: external. That includes `-raft-bootstrap`, which deletes the directory of a master
  that is started with it again.
* `RemoveNode`, `GetActiveContainersByNode` and other readers: no caller changes state.

What would come next:

1. Two plans at once on the same metrics: the code reserves nothing between them, so the
   promise to check would have to come from its authors.
2. Failover composed with ContainerLifecycle: workers that return while the leadership moves.
