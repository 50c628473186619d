--------------------------- MODULE ReplicatedState ---------------------------
(***************************************************************************)
(* The cluster state of several masters.  Services and containers change   *)
(* through the Raft log only (internal/cluster/raft.go, fsm.go); nodes,    *)
(* pools and the audit log are each master's own, but are part of every    *)
(* snapshot (internal/cluster/state.go).                                   *)
(*                                                                         *)
(* The audit log is restored like the node table and is left out.          *)
(*                                                                         *)
(* Raft itself is external: one log that all masters agree on.  A snapshot *)
(* holds pointers: Snapshot collects them while the FSM stands still, and  *)
(* Persist marshals the records later, while the FSM goes on changing      *)
(* their status in place.                                                  *)
(***************************************************************************)
EXTENDS Naturals, Sequences, FiniteSets

CONSTANTS
  Masters,       \* Raft IDs
  Workers,       \* worker IDs
  Capacity,      \* worker -> the CPU and RAM of its heartbeats
  Services,      \* service IDs
  Containers,    \* container IDs
  AddedAs,       \* statuses of the records that AddContainer entries carry
  SetTo,         \* statuses that SetContainerStatus entries carry
  None,          \* no master, no worker
  MaxLog,        \* bound: log entries
  MaxElections,  \* bound: elections
  MaxCrashes,    \* bound: crashes of masters
  MaxSnapshots   \* bound: snapshots

ASSUME ReplicatedAssumption ==
  /\ None \notin Masters \cup Workers
  /\ Capacity \in [Workers -> [cpu : Nat, ram : Nat]]
  /\ {MaxLog, MaxElections, MaxCrashes, MaxSnapshots} \subseteq Nat
  /\ {"NONE", "TORN"} \cap (AddedAs \cup SetTo) = {}

VARIABLES
  log,      \* committed entries
  hist,     \* what the log prescribes: hist[k + 1] after its first k entries
  leader,   \* the master whose IsLeader is true
  mode,     \* master -> "down", "starting" (in NewRaftNode) or "up"
  applied,  \* master -> number of entries its FSM has applied
  svcs,     \* master -> State.services
  recs,     \* master -> State.containers; st is "NONE" without a record
  nodes,    \* master -> State.nodes
  pools,    \* master -> State.pools: pool -> NodeIDs
  hearing,  \* master -> node handleHeartbeat has added and not assigned yet
  taking,   \* master -> the snapshot that is being persisted
  snap,     \* master -> its newest snapshot on disk
  ahead,    \* master -> a log index its records may already reflect
  count     \* elections, crashes and snapshots so far

replicated == <<applied, svcs, recs, ahead>>
local == <<nodes, pools, hearing>>
vars == <<log, hist, leader, mode, replicated, local, taking, snap, count>>

NoRecord == [st |-> "NONE", node |-> None]
NoRecords == [c \in Containers |-> NoRecord]

-----------------------------------------------------------------------------
(* Resource pools. *)

Pools == {[id |-> "general",  minCPU |-> 0, maxCPU |-> 3,   minRAM |-> 0,     maxRAM |-> 32768],
          [id |-> "high-cpu", minCPU |-> 4, maxCPU |-> 128, minRAM |-> 0,     maxRAM |-> 32768],
          [id |-> "high-ram", minCPU |-> 0, maxCPU |-> 128, minRAM |-> 32769, maxRAM |-> 1048576]}

PoolIDs == {p.id : p \in Pools}

MatchesNode(p, n) == /\ p.minCPU <= n.cpu /\ n.cpu <= p.maxCPU
                     /\ p.minRAM <= n.ram /\ n.ram <= p.maxRAM

\* AddPool puts a fresh pool in the place of whatever had its ID.
EmptyPools == [p \in PoolIDs |-> <<>>]

IDs(seq) == {seq[i] : i \in DOMAIN seq}

-----------------------------------------------------------------------------
(* Log entries and what they do. *)

Entries ==
  [type : {"AddService", "RemoveService"}, id : Services]
    \cup [type : {"AddContainer"}, id : Containers, node : Workers, st : AddedAs]
    \cup [type : {"SetContainerStatus"}, id : Containers, st : SetTo]

ServicesAfter(S, e) ==
  IF e.type = "AddService" THEN S \cup {e.id}
  ELSE IF e.type = "RemoveService" THEN S \ {e.id}
  ELSE S

\* SetContainerStatus changes the record in place and ignores an unknown ID.
RecordsAfter(R, e) ==
  IF e.type = "AddContainer" THEN [R EXCEPT ![e.id] = [st |-> e.st, node |-> e.node]]
  ELSE IF e.type = "SetContainerStatus" /\ R[e.id] # NoRecord
         THEN [R EXCEPT ![e.id].st = e.st]
  ELSE R

\* A snapshot; the one with index 0 stands for none.
NoSnapshot == [index |-> 0, svcs |-> {}, recs |-> NoRecords, nodes |-> {},
               pools |-> EmptyPools, ahead |-> 0]

\* live: records still shared with State; todo: records not marshalled yet;
\* own: the pools and nodes are still State's.
NotTaking == [on |-> FALSE, own |-> TRUE, live |-> {}, todo |-> {}, snap |-> NoSnapshot]

Init ==
  /\ log = <<>>
  /\ hist = << [svcs |-> {}, recs |-> NoRecords] >>
  /\ leader = None
  /\ mode = [m \in Masters |-> "up"]
  /\ applied = [m \in Masters |-> 0]
  /\ svcs = [m \in Masters |-> {}]
  /\ recs = [m \in Masters |-> NoRecords]
  /\ nodes = [m \in Masters |-> {}]
  /\ pools = [m \in Masters |-> EmptyPools]
  /\ hearing = [m \in Masters |-> None]
  /\ taking = [m \in Masters |-> NotTaking]
  /\ snap = [m \in Masters |-> NoSnapshot]
  /\ ahead = [m \in Masters |-> 0]
  /\ count = [elections |-> 0, crashes |-> 0, snapshots |-> 0]

-----------------------------------------------------------------------------
(* Raft and the FSM. *)

Elect(m) ==
  /\ mode[m] = "up"
  /\ leader # m
  /\ count.elections < MaxElections
  /\ leader' = m
  /\ count' = [count EXCEPT !.elections = @ + 1]
  /\ UNCHANGED <<log, hist, mode, replicated, local, taking, snap>>

\* Only the leader can apply.  The caller learns of the commit after this
\* master's FSM has applied the entry, or never.
Apply(m, e) ==
  /\ leader = m
  /\ Len(log) < MaxLog
  /\ log' = Append(log, e)
  /\ LET last == hist[Len(hist)] IN
       hist' = Append(hist, [svcs |-> ServicesAfter(last.svcs, e),
                             recs |-> RecordsAfter(last.recs, e)])
  /\ UNCHANGED <<leader, mode, replicated, local, taking, snap, count>>

\* What entry e does to the snapshot that master m is marshalling: nothing, once
\* the record is marshalled or replaced; otherwise the status changes under the
\* marshaller, which may read it while it is being written.
Shares(m, e) == /\ e.type = "SetContainerStatus"
                /\ e.id \in taking[m].live \cap taking[m].todo

TakingAfter(m, e) ==
  IF e.type = "AddContainer" THEN {[taking[m] EXCEPT !.live = @ \ {e.id}]}
  ELSE IF Shares(m, e)
    THEN {[taking[m] EXCEPT !.snap.recs[e.id].st = e.st],
          [taking[m] EXCEPT !.snap.recs[e.id].st = "TORN", !.todo = @ \ {e.id}]}
  ELSE {taking[m]}

FSMApply(m) ==
  /\ mode[m] # "down"
  /\ applied[m] < Len(log)
  /\ LET e == log[applied[m] + 1] IN
       /\ svcs' = [svcs EXCEPT ![m] = ServicesAfter(@, e)]
       /\ recs' = [recs EXCEPT ![m] = RecordsAfter(@, e)]
       /\ \E t \in TakingAfter(m, e) : taking' = [taking EXCEPT ![m] = t]
  /\ applied' = [applied EXCEPT ![m] = @ + 1]
  /\ UNCHANGED <<log, hist, leader, mode, ahead, local, snap, count>>

-----------------------------------------------------------------------------
(* Snapshots. *)

\* Mutation of Snapshot: the index is that of the entry to come.
SnapshotNext(m) ==
  /\ mode[m] = "up"
  /\ ~taking[m].on
  /\ applied[m] > snap[m].index
  /\ count.snapshots < MaxSnapshots
  /\ taking' = [taking EXCEPT ![m] =
       [NotTaking EXCEPT !.on = TRUE,
                         !.snap = [NoSnapshot EXCEPT !.index = applied[m] + 1,
                                                     !.svcs = svcs[m], !.recs = recs[m]]]]
  /\ count' = [count EXCEPT !.snapshots = @ + 1]
  /\ UNCHANGED <<log, hist, leader, mode, replicated, local, snap>>

\* FSM.Snapshot, called between two entries, copies pointers and the node IDs.
Snapshot(m) ==
  /\ mode[m] = "up"
  /\ ~taking[m].on
  /\ applied[m] > snap[m].index
  /\ count.snapshots < MaxSnapshots
  /\ LET held == {c \in Containers : recs[m][c] # NoRecord} IN
       taking' = [taking EXCEPT ![m] =
         [on |-> TRUE, own |-> TRUE, live |-> held, todo |-> held,
          snap |-> [index |-> applied[m], svcs |-> svcs[m], recs |-> recs[m],
                    nodes |-> nodes[m], pools |-> EmptyPools, ahead |-> ahead[m]]]]
  /\ count' = [count EXCEPT !.snapshots = @ + 1]
  /\ UNCHANGED <<log, hist, leader, mode, replicated, local, snap>>

PersistRecord(m, c) ==
  /\ c \in taking[m].todo
  /\ taking' = [taking EXCEPT ![m].todo = @ \ {c}]
  /\ UNCHANGED <<log, hist, leader, mode, replicated, local, snap, count>>

\* Mutation of PersistEnd: the snapshot is filed under the index reached meanwhile.
PersistEndLate(m) ==
  /\ taking[m].on
  /\ taking[m].todo = {}
  /\ snap' = [snap EXCEPT ![m] = [taking[m].snap EXCEPT !.pools = pools[m],
                                                        !.index = applied[m],
                                                        !.ahead = applied[m]]]
  /\ taking' = [taking EXCEPT ![m] = NotTaking]
  /\ UNCHANGED <<log, hist, leader, mode, replicated, local, count>>

\* The pools are marshalled after the containers.  The store keeps the newest
\* snapshot, which may be one that was installed meanwhile.
PersistEnd(m) ==
  /\ taking[m].on
  /\ taking[m].todo = {}
  /\ LET s == [taking[m].snap EXCEPT
                 !.pools = IF taking[m].own THEN pools[m] ELSE @,
                 !.ahead = IF @ > applied[m] THEN @ ELSE applied[m]] IN
       snap' = [snap EXCEPT ![m] = IF s.index > @.index THEN s ELSE @]
  /\ taking' = [taking EXCEPT ![m] = NotTaking]
  /\ UNCHANGED <<log, hist, leader, mode, replicated, local, count>>

\* Restore replaces everything, the local parts too.
Restore(m, s) ==
  /\ applied' = [applied EXCEPT ![m] = s.index]
  /\ svcs' = [svcs EXCEPT ![m] = s.svcs]
  /\ recs' = [recs EXCEPT ![m] = s.recs]
  /\ ahead' = [ahead EXCEPT ![m] = s.ahead]
  /\ nodes' = [nodes EXCEPT ![m] = s.nodes]
  /\ pools' = [pools EXCEPT ![m] = s.pools]

\* The leader sends its snapshot to a follower that lacks entries it compacted.
InstallSnapshot(l, m) ==
  /\ leader = l
  /\ m # l
  /\ mode[m] # "down"
  /\ snap[l].index > applied[m]
  /\ Restore(m, snap[l])
  /\ snap' = [snap EXCEPT ![m] = snap[l]]
  /\ taking' = [taking EXCEPT ![m].own = FALSE,
                              ![m].live = {},
                              ![m].snap.pools = IF taking[m].on THEN pools[m] ELSE @]
  /\ UNCHANGED <<log, hist, leader, mode, hearing, count>>

-----------------------------------------------------------------------------
(* A master's process. *)

Crash(m) ==
  /\ mode[m] # "down"
  /\ count.crashes < MaxCrashes
  /\ count' = [count EXCEPT !.crashes = @ + 1]
  /\ mode' = [mode EXCEPT ![m] = "down"]
  /\ leader' = IF leader = m THEN None ELSE leader
  /\ Restore(m, NoSnapshot)
  /\ hearing' = [hearing EXCEPT ![m] = None]
  /\ taking' = [taking EXCEPT ![m] = NotTaking]
  /\ UNCHANGED <<log, hist, snap>>

\* NewRaft restores the newest snapshot; the log is replayed from there.
Start(m) ==
  /\ mode[m] = "down"
  /\ mode' = [mode EXCEPT ![m] = "starting"]
  /\ Restore(m, snap[m])
  /\ UNCHANGED <<log, hist, leader, hearing, taking, snap, count>>

\* main adds the default pools once NewRaftNode has returned.
AddPools(m) ==
  /\ mode[m] = "starting"
  /\ mode' = [mode EXCEPT ![m] = "up"]
  /\ pools' = [pools EXCEPT ![m] = EmptyPools]
  /\ UNCHANGED <<log, hist, leader, replicated, nodes, hearing, taking, snap, count>>

-----------------------------------------------------------------------------
(* handleHeartbeat, for a worker that is not in the node table. *)

AddNode(m, w) ==
  /\ mode[m] = "up"
  /\ hearing[m] = None
  /\ w \notin nodes[m]
  /\ nodes' = [nodes EXCEPT ![m] = @ \cup {w}]
  /\ hearing' = [hearing EXCEPT ![m] = w]
  /\ UNCHANGED <<log, hist, leader, mode, replicated, pools, taking, snap, count>>

\* Mutation of AssignNodeToPool: the node is appended without a look for it.
AssignNodeAgain(m) ==
  /\ hearing[m] # None
  /\ \E p \in Pools : /\ MatchesNode(p, Capacity[hearing[m]])
                      /\ pools' = [pools EXCEPT ![m][p.id] = Append(@, hearing[m])]
  /\ hearing' = [hearing EXCEPT ![m] = None]
  /\ UNCHANGED <<log, hist, leader, mode, replicated, nodes, taking, snap, count>>

AssignNodeToPool(m) ==
  /\ hearing[m] # None
  /\ LET w == hearing[m]
         matching == {p \in Pools : MatchesNode(p, Capacity[w])}
     IN IF matching = {}
          THEN UNCHANGED pools
          ELSE \E p \in matching :
                 pools' = [pools EXCEPT ![m][p.id] = IF w \in IDs(@) THEN @ ELSE Append(@, w)]
  /\ hearing' = [hearing EXCEPT ![m] = None]
  /\ UNCHANGED <<log, hist, leader, mode, replicated, nodes, taking, snap, count>>

-----------------------------------------------------------------------------
Next ==
  \E m \in Masters :
    \/ Elect(m)
    \/ \E e \in Entries : Apply(m, e)
    \/ FSMApply(m)
    \/ Snapshot(m)
    \/ \E c \in Containers : PersistRecord(m, c)
    \/ PersistEnd(m)
    \/ \E l \in Masters : InstallSnapshot(l, m)
    \/ Crash(m)
    \/ Start(m)
    \/ AddPools(m)
    \/ \E w \in Workers : AddNode(m, w)
    \/ AssignNodeToPool(m)

Spec == Init /\ [][Next]_vars

-----------------------------------------------------------------------------
(* Properties. *)

Records == [st : AddedAs \cup SetTo, node : Workers] \cup {NoRecord}
RecordsSeen == Records \cup [st : {"TORN"}, node : Workers]
SnapshotType == [index : 0..MaxLog, svcs : SUBSET Services,
                 recs : [Containers -> RecordsSeen], nodes : SUBSET Workers,
                 pools : [PoolIDs -> Seq(Workers)], ahead : 0..MaxLog]

\* Logs, tables, snapshots and pools keep their form, whatever is restored when
\* (state.go, fsm.go).
TypeOK ==
  /\ log \in Seq(Entries)
  /\ Len(log) <= MaxLog
  /\ Len(hist) = Len(log) + 1
  /\ \A k \in DOMAIN hist : hist[k] \in [svcs : SUBSET Services, recs : [Containers -> Records]]
  /\ leader \in Masters \cup {None}
  /\ mode \in [Masters -> {"down", "starting", "up"}]
  /\ leader # None => mode[leader] = "up"
  /\ applied \in [Masters -> 0..Len(log)]
  /\ svcs \in [Masters -> SUBSET Services]
  /\ recs \in [Masters -> [Containers -> RecordsSeen]]
  /\ ahead \in [Masters -> 0..Len(log)]
  /\ nodes \in [Masters -> SUBSET Workers]
  /\ pools \in [Masters -> [PoolIDs -> Seq(Workers)]]
  /\ hearing \in [Masters -> Workers \cup {None}]
  /\ \A m \in Masters : snap[m] \in SnapshotType /\ taking[m].snap \in SnapshotType
  /\ count \in [elections : 0..MaxElections, crashes : 0..MaxCrashes,
                snapshots : 0..MaxSnapshots]

\* A master shows what the log prescribes after the entries it has applied.  After
\* a restore from a snapshot that was persisted while records changed, a record may
\* already show something later, or a status read while it was written, but only
\* until the entries the snapshot ran ahead of are replayed (fsm.go:37-110,
\* state.go:324-370): replaying entries whose effect is in the snapshot is harmless.
StateFollowsLog ==
  \A m \in Masters :
    /\ svcs[m] = hist[applied[m] + 1].svcs
    /\ \A c \in Containers :
         \/ \E k \in applied[m]..ahead[m] \cup {applied[m]} : recs[m][c] = hist[k + 1].recs[c]
         \/ applied[m] < ahead[m] /\ recs[m][c].st = "TORN"

\* No node is twice in the pools of a master, where the scheduler would count its
\* capacity twice, although a snapshot's pools are newer than its node table and a
\* restored table makes handleHeartbeat add nodes again (state.go:231-248).
NodeInOnePlace ==
  \A m \in Masters, w \in Workers :
    Cardinality({x \in PoolIDs \X (1..Cardinality(Workers) + 1) :
                   x[2] \in DOMAIN pools[m][x[1]] /\ pools[m][x[1]][x[2]] = w}) <= 1

\* A node in the table of a running master that matches a pool is in that pool, so
\* that the scheduler sees it.
NodesInPools ==
  \A m \in Masters : mode[m] = "up" =>
    \A w \in nodes[m] \ {hearing[m]}, p \in Pools :
      MatchesNode(p, Capacity[w]) => w \in IDs(pools[m][p.id])
=============================================================================
