--------------------------- MODULE FailoverProofs ---------------------------
(***************************************************************************)
(* Theorems of Failover, for any masters, workers, containers and bounds.  *)
(***************************************************************************)
EXTENDS Failover, TLAPS

\* What the loops of m hold on to has a record, and so has what m has seen: a record is
\* never removed here.
LoopInv(m) ==
  /\ \A c \in Containers : seen[m][c] # NoRecord => store[c] # NoRecord
  /\ \A c \in recovery[m].todo : store[c] # NoRecord
  /\ recovery[m].pc \in {"start", "pending", "stop"} =>
       recovery[m].cur \in Containers /\ store[recovery[m].cur] # NoRecord
  /\ recovery[m].pc \in {"stop", "add"} => recovery[m].node \in Workers
  /\ retry[m] # NoRetry =>
       /\ retry[m].cur \in Containers /\ store[retry[m].cur] # NoRecord
       /\ retry[m].node \in Workers

TypeInv ==
  /\ TypeOK
  /\ \A m \in Masters : LoopInv(m)

\* A leader knows the record its recovery or its retry is about, and how far it has come:
\* nobody else has touched it in between.
LeaderInv(m) ==
  /\ seen[m] = store
  /\ recovery[m].todo # {} => recovery[m].pc = "next"
  /\ \A c \in recovery[m].todo : store[c].st \in {"RUNNING", "RESCHEDULING"}
  /\ recovery[m].pc \in {"start", "pending", "stop"} =>
       store[recovery[m].cur].st = "RESCHEDULING"
  /\ recovery[m].pc = "add" => \A c \in Containers : ~Active(c)
  /\ retry[m] # NoRetry => store[retry[m].cur].st = "PENDING"

AloneInv ==
  /\ OneActiveRecord
  /\ leader # None => LeaderInv(leader)

IInv == TypeInv /\ AloneInv

-----------------------------------------------------------------------------
(* Lemmas about the records. *)

Statuses == {"PENDING", "RUNNING", "RESCHEDULING", "STOPPED"}

\* What a write may do to the records: they keep their form and none disappears.
Grown ==
  /\ store' \in [Containers -> Record]
  /\ seen' \in [Masters -> [Containers -> Record]]
  /\ \A c \in Containers : store[c] # NoRecord => store'[c] # NoRecord
  /\ \A m \in Masters, c \in Containers : seen'[m][c] # NoRecord => store'[c] # NoRecord

\* A record that is there is one of a worker.
LEMMA Recorded ==
  ASSUME NEW r \in Record
  PROVE  /\ r # NoRecord <=> r.st \in Statuses
         /\ r # NoRecord => r.node \in Workers
BY DEF Record, NoRecord, Statuses

\* What SetContainerStatus writes to a record that is there.
LEMMA StatusSet ==
  ASSUME NEW r \in Record, r # NoRecord, NEW st \in Statuses
  PROVE  /\ [r EXCEPT !.st = st] \in Record \ {NoRecord}
         /\ [r EXCEPT !.st = st].st = st
BY DEF Record, NoRecord, Statuses

\* A write of a record (RaftNode.Apply): by the leader it changes that one record, which
\* the leader sees at once, by anyone else nothing.
LEMMA Written ==
  ASSUME TypeInv, NEW m \in Masters, NEW c \in Containers, NEW r \in Record \ {NoRecord},
         Write(m, c, r)
  PROVE  /\ Grown
         /\ leader # m => UNCHANGED records
         /\ leader = m => /\ store'[c] = r
                          /\ \A d \in Containers \ {c} : store'[d] = store[d]
                          /\ seen'[m] = store'
<1> USE DEF TypeInv, TypeOK, LoopInv
<1>1. CASE leader = m
  <2>1. store' = [store EXCEPT ![c] = r] /\ seen' = [seen EXCEPT ![m] = store']
    BY <1>1 DEF Write
  <2>2. /\ store' \in [Containers -> Record]
        /\ store'[c] = r
        /\ \A d \in Containers \ {c} : store'[d] = store[d]
    BY <2>1
  <2>3. /\ seen' \in [Masters -> [Containers -> Record]]
        /\ seen'[m] = store'
        /\ \A n \in Masters \ {m} : seen'[n] = seen[n]
    BY <2>1, <2>2
  <2>4. \A d \in Containers : store[d] # NoRecord => store'[d] # NoRecord
    BY <2>2
  <2>5. \A n \in Masters, d \in Containers : seen'[n][d] # NoRecord => store'[d] # NoRecord
    <3>1. SUFFICES ASSUME NEW n \in Masters, NEW d \in Containers, seen'[n][d] # NoRecord
                   PROVE  store'[d] # NoRecord
      OBVIOUS
    <3>2. CASE n = m
      BY <2>3, <3>1, <3>2
    <3>3. CASE n # m
      BY <2>3, <2>4, <3>1, <3>3
    <3> QED
      BY <3>2, <3>3
  <2> QED
    BY <1>1, <2>2, <2>3, <2>4, <2>5 DEF Grown
<1>2. CASE leader # m
  BY <1>2 DEF Write, records, Grown
<1> QED
  BY <1>1, <1>2

\* SetContainerStatus on a record that is there.
LEMMA StatusWritten ==
  ASSUME TypeInv, NEW m \in Masters, NEW c \in Containers, NEW st \in Statuses,
         store[c] # NoRecord, SetContainerStatus(m, c, st)
  PROVE  /\ Grown
         /\ leader # m => UNCHANGED records
         /\ leader = m => /\ store'[c].st = st
                          /\ \A d \in Containers \ {c} : store'[d] = store[d]
                          /\ seen'[m] = store'
<1>1. store[c] \in Record
  BY DEF TypeInv, TypeOK
<1>2. PICK r : r = [store[c] EXCEPT !.st = st]
  OBVIOUS
<1>3. r \in Record \ {NoRecord} /\ r.st = st
  BY <1>1, <1>2, StatusSet
<1>4. Write(m, c, r)
  BY <1>2 DEF SetContainerStatus
<1> QED
  BY <1>3, <1>4, Written

\* A record that runs on a worker.
LEMMA RunningRecord ==
  ASSUME NEW w \in Workers
  PROVE  /\ [st |-> "RUNNING", node |-> w] \in Record \ {NoRecord}
         /\ [st |-> "RUNNING", node |-> w].st = "RUNNING"
BY DEF Record, NoRecord

\* The record that a recovery adds.
LEMMA AddWritten ==
  ASSUME TypeInv, NEW m \in Masters, recovery[m].node \in Workers,
         \E c \in Unused : Write(m, c, [st |-> "RUNNING", node |-> recovery[m].node])
  PROVE  /\ Grown
         /\ leader # m => UNCHANGED records
         /\ leader = m => /\ \E c \in Containers :
                               \A d \in Containers \ {c} : store'[d] = store[d]
                          /\ seen'[m] = store'
<1>1. PICK c \in Containers : Write(m, c, [st |-> "RUNNING", node |-> recovery[m].node])
  BY DEF Unused
<1>2. PICK r : r = [st |-> "RUNNING", node |-> recovery[m].node]
  OBVIOUS
<1>3. r \in Record \ {NoRecord} /\ Write(m, c, r)
  BY <1>1, <1>2, RunningRecord
<1> QED
  BY <1>3, Written

\* The record that a retry makes run.
LEMMA RetryWritten ==
  ASSUME TypeInv, NEW m \in Masters, retry[m].cur \in Containers, retry[m].node \in Workers,
         Write(m, retry[m].cur, [st |-> "RUNNING", node |-> retry[m].node])
  PROVE  /\ Grown
         /\ leader # m => UNCHANGED records
         /\ leader = m => /\ store'[retry[m].cur].st = "RUNNING"
                          /\ \A d \in Containers \ {retry[m].cur} : store'[d] = store[d]
                          /\ seen'[m] = store'
<1>1. PICK r : r = [st |-> "RUNNING", node |-> retry[m].node]
  OBVIOUS
<1>2. r \in Record \ {NoRecord} /\ r.st = "RUNNING" /\ Write(m, retry[m].cur, r)
  BY <1>1, RunningRecord
<1> QED
  BY <1>2, Written

\* Records that stay as they are have not lost anything.
LEMMA SameGrown ==
  ASSUME TypeInv, UNCHANGED records
  PROVE  Grown
BY DEF TypeInv, TypeOK, LoopInv, records, Grown

\* A master whose loops do not move keeps what they hold on to.
LEMMA LoopKept ==
  ASSUME TypeInv, Grown, NEW m \in Masters,
         recovery'[m] = recovery[m], retry'[m] = retry[m]
  PROVE  LoopInv(m)'
BY DEF TypeInv, TypeOK, LoopInv, Grown

-----------------------------------------------------------------------------
(* Type correctness, one lemma per group of actions. *)

Recoveries ==
  [pc : {"idle", "next", "start", "pending", "stop", "add"}, todo : SUBSET Containers,
   cur : Containers \cup {None}, node : Workers \cup {None}]

Retries == [cur : Containers \cup {None}, node : Workers \cup {None}]

Counts == [deaths : 0..MaxDeaths, elections : 0..MaxElections, crashes : 0..MaxCrashes]

\* A counter below its bound may go up by one.
LEMMA Counted ==
  ASSUME FailoverAssumption, count \in Counts
  PROVE  /\ count.deaths < MaxDeaths => [count EXCEPT !.deaths = @ + 1] \in Counts
         /\ count.elections < MaxElections => [count EXCEPT !.elections = @ + 1] \in Counts
         /\ count.crashes < MaxCrashes => [count EXCEPT !.crashes = @ + 1] \in Counts
<1>1. MaxDeaths \in Nat /\ MaxElections \in Nat /\ MaxCrashes \in Nat
  BY DEF FailoverAssumption
<1> QED
  BY <1>1 DEF Counts

\* Elections, crashes, starts and heartbeats stop loops or leave them alone.
LEMMA OthersTyped ==
  ASSUME TypeInv, FailoverAssumption,
         \/ \E m \in Masters : \/ CatchUp(m) \/ Elect(m) \/ Depose(m)
                               \/ MasterCrash(m) \/ MasterStart(m)
                               \/ \E w \in Workers : Hear(m, w)
         \/ \E w \in Workers : WorkerCrash(w)
         \/ UNCHANGED vars
  PROVE  TypeInv'
<1> USE DEF TypeInv, TypeOK
<1>1. ASSUME NEW m \in Masters, CatchUp(m) PROVE TypeInv'
  <2>1. Grown
    BY <1>1 DEF CatchUp, Grown, LoopInv
  <2>2. \A n \in Masters : LoopInv(n)'
    BY <1>1, <2>1, LoopKept DEF CatchUp, loops
  <2> QED
    BY <1>1, <2>1, <2>2 DEF CatchUp, loops, Grown
<1>2. ASSUME NEW m \in Masters, Elect(m) PROVE TypeInv'
  BY <1>2 DEF Elect, loops, records, LoopInv
<1>3. ASSUME NEW m \in Masters, Depose(m) PROVE TypeInv'
  <2>1. count' \in Counts
    BY <1>3, Counted DEF Depose, Counts
  <2> QED
    BY <1>3, <2>1 DEF Depose, Counts, loops, records, LoopInv
<1>4. ASSUME NEW m \in Masters, MasterCrash(m) PROVE TypeInv'
  <2>1. count' \in Counts
    BY <1>4, Counted DEF MasterCrash, Counts
  <2>2. leader' \in (Masters \cap up') \cup {None} /\ up' \subseteq Masters \cup Workers
    BY <1>4 DEF MasterCrash
  <2>3. /\ NoRecords \in [Containers -> Record]
        /\ \A c \in Containers : NoRecords[c] = NoRecord
    BY DEF NoRecords, Record
  <2>4. Grown
    BY <1>4, <2>3 DEF MasterCrash, Grown, LoopInv
  <2>5. \A n \in Masters \ {m} : LoopInv(n)'
    BY <1>4, <2>4, LoopKept DEF MasterCrash
  <2>6. recovery'[m] = Idle /\ retry'[m] = NoRetry
    BY <1>4 DEF MasterCrash
  <2>7. LoopInv(m)'
    BY <2>4, <2>6 DEF LoopInv, Grown, Idle
  <2>8. recovery' \in [Masters -> Recoveries]
    BY <1>4 DEF MasterCrash, Idle, Recoveries
  <2>9. retry' \in [Masters -> Retries]
    BY <1>4 DEF MasterCrash, NoRetry, Retries
  <2>10. nodes' \in [Masters -> [Workers -> {"NONE", "ALIVE", "DEAD"}]]
    BY <1>4 DEF MasterCrash
  <2> QED
    BY <2>1, <2>2, <2>4, <2>5, <2>7, <2>8, <2>9, <2>10 DEF Grown, Counts, Recoveries, Retries
<1>5. ASSUME NEW m \in Masters, MasterStart(m) PROVE TypeInv'
  BY <1>5 DEF MasterStart, loops, records, LoopInv
<1>6. ASSUME NEW m \in Masters, NEW w \in Workers, Hear(m, w) PROVE TypeInv'
  BY <1>6 DEF Hear, loops, records, LoopInv
<1>7. ASSUME NEW w \in Workers, WorkerCrash(w) PROVE TypeInv'
  <2>1. count' \in Counts
    BY <1>7, Counted DEF WorkerCrash, Counts
  <2>2. leader' \in (Masters \cap up') \cup {None} /\ up' \subseteq Masters \cup Workers
    BY <1>7 DEF WorkerCrash, FailoverAssumption
  <2> QED
    BY <1>7, <2>1, <2>2 DEF WorkerCrash, Counts, loops, records, LoopInv
<1>8. CASE UNCHANGED vars
  BY <1>8 DEF vars, loops, records, LoopInv
<1> QED
  BY <1>1, <1>2, <1>3, <1>4, <1>5, <1>6, <1>7, <1>8

\* A step of the loops of m, seen by the types.
LEMMA LoopStep ==
  ASSUME TypeInv, Grown, NEW m \in Masters, UNCHANGED <<leader, up, count>>,
         nodes' \in [Masters -> [Workers -> {"NONE", "ALIVE", "DEAD"}]],
         recovery' \in [Masters -> Recoveries], retry' \in [Masters -> Retries],
         \A n \in Masters \ {m} : recovery'[n] = recovery[n] /\ retry'[n] = retry[n],
         LoopInv(m)'
  PROVE  TypeInv'
<1>1. \A n \in Masters \ {m} : LoopInv(n)'
  BY LoopKept
<1> QED
  BY <1>1 DEF TypeInv, TypeOK, Grown, Recoveries, Retries

\* Tolerance.check takes the records the master has seen on the worker.
LEMMA MarkDeadTyped ==
  ASSUME TypeInv, NEW m \in Masters, NEW w \in Workers, MarkDead(m, w)
  PROVE  TypeInv'
<1> USE DEF TypeInv, TypeOK
<1>1. Grown
  BY SameGrown DEF MarkDead
<1>2. nodes' \in [Masters -> [Workers -> {"NONE", "ALIVE", "DEAD"}]]
  BY DEF MarkDead
<1>3. PICK D : D = ActiveOn(seen[m], w)
  OBVIOUS
<1>4. D \subseteq Containers /\ \A c \in D : store[c] # NoRecord
  BY <1>3 DEF ActiveOn, LoopInv, NoRecord
<1>5. CASE leader = m /\ D # {}
  <2>1. PICK rec : rec = [Idle EXCEPT !.pc = "next", !.todo = D]
    OBVIOUS
  <2>2. /\ rec \in Recoveries
        /\ rec.pc = "next" /\ rec.todo = D /\ rec.cur = None /\ rec.node = None
    BY <1>4, <2>1 DEF Idle, Recoveries
  <2>3. recovery' = [recovery EXCEPT ![m] = rec]
    BY <1>3, <1>5, <2>1 DEF MarkDead
  <2>4. /\ recovery' \in [Masters -> Recoveries]
        /\ recovery'[m] = rec
        /\ \A n \in Masters \ {m} : recovery'[n] = recovery[n]
    BY <2>2, <2>3 DEF Recoveries
  <2>5. retry' \in [Masters -> Retries] /\ UNCHANGED <<leader, up, retry, count, records>>
    BY DEF MarkDead, Retries
  <2>6. LoopInv(m)'
    BY <1>1, <1>4, <2>2, <2>4, <2>5 DEF LoopInv, Grown, records
  <2> QED
    BY <1>1, <1>2, <2>4, <2>5, <2>6, LoopStep
<1>6. CASE ~(leader = m /\ D # {})
  <2>1. UNCHANGED <<leader, up, recovery, retry, count>>
    BY <1>3, <1>6 DEF MarkDead
  <2>2. LoopInv(m)'
    BY <1>1, <2>1, LoopKept
  <2> QED
    BY <1>1, <1>2, <2>1, <2>2, LoopStep DEF Recoveries, Retries
<1> QED
  BY <1>5, <1>6

\* The steps of a recovery, seen by the types: it goes on as r.
LEMMA RecoveryStep ==
  ASSUME TypeInv, NEW m \in Masters, Grown, UNCHANGED <<leader, up, nodes, retry, count>>,
         NEW r \in Recoveries, recovery' = [recovery EXCEPT ![m] = r],
         \A c \in r.todo : store[c] # NoRecord,
         r.pc \in {"start", "pending", "stop"} =>
           r.cur \in Containers /\ store[r.cur] # NoRecord,
         r.pc \in {"stop", "add"} => r.node \in Workers
  PROVE  TypeInv'
<1>1. recovery \in [Masters -> Recoveries] /\ retry \in [Masters -> Retries]
  BY DEF TypeInv, TypeOK, Recoveries, Retries
<1>2. /\ recovery' \in [Masters -> Recoveries]
      /\ recovery'[m] = r
      /\ \A n \in Masters \ {m} : recovery'[n] = recovery[n]
  BY <1>1
<1>3. /\ r.pc \in {"start", "pending", "stop"} => store'[r.cur] # NoRecord
      /\ \A c \in r.todo : store'[c] # NoRecord
  BY DEF Grown, Recoveries
<1>4. LoopInv(m)'
  BY <1>2, <1>3 DEF TypeInv, TypeOK, LoopInv, Grown
<1>5. nodes' \in [Masters -> [Workers -> {"NONE", "ALIVE", "DEAD"}]]
  BY DEF TypeInv, TypeOK
<1> QED
  BY <1>1, <1>2, <1>4, <1>5, LoopStep

\* The ways a recovery r moves on.
Started(r, c) == [r EXCEPT !.pc = "start", !.todo = @ \ {c}, !.cur = c]
Placed(r, w) == [r EXCEPT !.pc = "stop", !.node = w]
Unplaced(r) == [r EXCEPT !.pc = "pending"]
Postponed(r) == [r EXCEPT !.pc = "next", !.cur = None]
Stopped(r) == [r EXCEPT !.pc = "add", !.cur = None]
Added(r) == [r EXCEPT !.pc = "next", !.node = None]

\* The recovery takes a record up.
LEMMA StartMove ==
  ASSUME NEW r \in Recoveries, NEW c \in Containers
  PROVE  /\ Started(r, c) \in Recoveries
         /\ Started(r, c).pc = "start" /\ Started(r, c).todo = r.todo \ {c}
         /\ Started(r, c).cur = c
BY DEF Recoveries, Started

\* A worker has started the replica.
LEMMA PlaceMove ==
  ASSUME NEW r \in Recoveries, NEW w \in Workers
  PROVE  /\ Placed(r, w) \in Recoveries
         /\ Placed(r, w).pc = "stop" /\ Placed(r, w).todo = r.todo
         /\ Placed(r, w).cur = r.cur /\ Placed(r, w).node = w
BY DEF Recoveries, Placed

\* The other moves.
LEMMA PlainMoves ==
  ASSUME NEW r \in Recoveries
  PROVE  /\ Unplaced(r) \in Recoveries /\ Postponed(r) \in Recoveries
         /\ Stopped(r) \in Recoveries /\ Added(r) \in Recoveries
         /\ Unplaced(r).pc = "pending" /\ Unplaced(r).todo = r.todo
         /\ Unplaced(r).cur = r.cur
         /\ Postponed(r).pc = "next" /\ Postponed(r).todo = r.todo
         /\ Stopped(r).pc = "add" /\ Stopped(r).todo = r.todo /\ Stopped(r).node = r.node
         /\ Added(r).pc = "next" /\ Added(r).todo = r.todo
BY DEF Recoveries, Unplaced, Postponed, Stopped, Added

\* The actions of a recovery are these moves.
LEMMA RecoveryMoves ==
  ASSUME TypeInv, NEW m \in Masters
  PROVE  /\ \A c \in Containers : RecoveryNext(m, c) =>
              recovery' = [recovery EXCEPT ![m] = Started(recovery[m], c)]
         /\ RecoveryStart(m) =>
              \/ \E w \in Workers : recovery' = [recovery EXCEPT ![m] = Placed(recovery[m], w)]
              \/ recovery' = [recovery EXCEPT ![m] = Unplaced(recovery[m])]
         /\ RecoveryPending(m) =>
              recovery' = [recovery EXCEPT ![m] = Postponed(recovery[m])]
         /\ RecoveryStop(m) => recovery' = [recovery EXCEPT ![m] = Stopped(recovery[m])]
         /\ RecoveryAdd(m) => recovery' = [recovery EXCEPT ![m] = Added(recovery[m])]
BY DEF TypeInv, TypeOK, RecoveryNext, RecoveryStart, RecoveryPending, RecoveryStop,
       RecoveryAdd, Started, Placed, Unplaced, Postponed, Stopped, Added, Alive

\* The recovery of onNodeDead holds on to a record, then to a worker.
LEMMA RecoveryTyped ==
  ASSUME TypeInv, NEW m \in Masters, Recovery(m)
  PROVE  TypeInv'
<1>1. recovery[m] \in Recoveries
  BY DEF TypeInv, TypeOK, Recoveries
<1>2. LoopInv(m)
  BY DEF TypeInv
<1>3. ASSUME NEW c \in Containers, RecoveryNext(m, c) PROVE TypeInv'
  <2>1. store[c] # NoRecord
    BY <1>2, <1>3 DEF RecoveryNext, LoopInv
  <2>2. Grown
    BY <1>3, <2>1, StatusWritten DEF RecoveryNext, Statuses
  <2>3. PICK r : r = Started(recovery[m], c)
    OBVIOUS
  <2>4. /\ r \in Recoveries /\ r.pc = "start" /\ r.todo = recovery[m].todo \ {c}
        /\ r.cur = c
    BY <1>1, <2>3, StartMove
  <2>5. recovery' = [recovery EXCEPT ![m] = r]
    BY <1>3, <2>3, RecoveryMoves
  <2>6. UNCHANGED <<leader, up, nodes, retry, count>>
    BY <1>3 DEF RecoveryNext
  <2>7. /\ \A d \in r.todo : store[d] # NoRecord
        /\ r.pc \in {"start", "pending", "stop"} =>
             r.cur \in Containers /\ store[r.cur] # NoRecord
        /\ r.pc \in {"stop", "add"} => r.node \in Workers
    BY <1>2, <1>3, <2>1, <2>4 DEF RecoveryNext, LoopInv
  <2> QED
    BY <2>2, <2>4, <2>5, <2>6, <2>7, RecoveryStep
<1>4. CASE RecoveryStart(m)
  <2>1. Grown
    BY <1>4, SameGrown DEF RecoveryStart
  <2>2. UNCHANGED <<leader, up, nodes, retry, count>> /\ recovery[m].pc = "start"
    BY <1>4 DEF RecoveryStart
  <2>3. ASSUME NEW w \in Workers, recovery' = [recovery EXCEPT ![m] = Placed(recovery[m], w)]
        PROVE  TypeInv'
    <3>1. PICK r : r = Placed(recovery[m], w)
      OBVIOUS
    <3>2. /\ r \in Recoveries /\ r.pc = "stop" /\ r.todo = recovery[m].todo
          /\ r.cur = recovery[m].cur /\ r.node = w
      BY <1>1, <3>1, PlaceMove
    <3> QED
      BY <1>2, <2>1, <2>2, <2>3, <3>1, <3>2, RecoveryStep DEF LoopInv
  <2>4. CASE recovery' = [recovery EXCEPT ![m] = Unplaced(recovery[m])]
    <3>1. PICK r : r = Unplaced(recovery[m])
      OBVIOUS
    <3>2. /\ r \in Recoveries /\ r.pc = "pending" /\ r.todo = recovery[m].todo
          /\ r.cur = recovery[m].cur
      BY <1>1, <3>1, PlainMoves
    <3> QED
      BY <1>2, <2>1, <2>2, <2>4, <3>1, <3>2, RecoveryStep DEF LoopInv
  <2> QED
    BY <1>4, <2>3, <2>4, RecoveryMoves
<1>5. CASE RecoveryPending(m)
  <2>1. Grown
    BY <1>2, <1>5, StatusWritten DEF RecoveryPending, LoopInv, Statuses
  <2>2. PICK r : r = Postponed(recovery[m])
    OBVIOUS
  <2>3. r \in Recoveries /\ r.pc = "next" /\ r.todo = recovery[m].todo
    BY <1>1, <2>2, PlainMoves
  <2>4. recovery' = [recovery EXCEPT ![m] = r]
    BY <1>5, <2>2, RecoveryMoves
  <2>5. UNCHANGED <<leader, up, nodes, retry, count>>
    BY <1>5 DEF RecoveryPending
  <2>6. /\ \A d \in r.todo : store[d] # NoRecord
        /\ r.pc \in {"start", "pending", "stop"} =>
             r.cur \in Containers /\ store[r.cur] # NoRecord
        /\ r.pc \in {"stop", "add"} => r.node \in Workers
    BY <1>2, <1>5, <2>3 DEF RecoveryPending, LoopInv
  <2> QED
    BY <2>1, <2>3, <2>4, <2>5, <2>6, RecoveryStep
<1>6. CASE RecoveryStop(m)
  <2>1. Grown
    BY <1>2, <1>6, StatusWritten DEF RecoveryStop, LoopInv, Statuses
  <2>2. PICK r : r = Stopped(recovery[m])
    OBVIOUS
  <2>3. r \in Recoveries /\ r.pc = "add" /\ r.todo = recovery[m].todo /\ r.node = recovery[m].node
    BY <1>1, <2>2, PlainMoves
  <2>4. recovery' = [recovery EXCEPT ![m] = r]
    BY <1>6, <2>2, RecoveryMoves
  <2>5. UNCHANGED <<leader, up, nodes, retry, count>>
    BY <1>6 DEF RecoveryStop
  <2>6. /\ \A d \in r.todo : store[d] # NoRecord
        /\ r.pc \in {"start", "pending", "stop"} =>
             r.cur \in Containers /\ store[r.cur] # NoRecord
        /\ r.pc \in {"stop", "add"} => r.node \in Workers
    BY <1>2, <1>6, <2>3 DEF RecoveryStop, LoopInv
  <2> QED
    BY <2>1, <2>3, <2>4, <2>5, <2>6, RecoveryStep
<1>7. CASE RecoveryAdd(m)
  <2>1. Grown
    BY <1>2, <1>7, AddWritten DEF RecoveryAdd, LoopInv
  <2>2. PICK r : r = Added(recovery[m])
    OBVIOUS
  <2>3. r \in Recoveries /\ r.pc = "next" /\ r.todo = recovery[m].todo
    BY <1>1, <2>2, PlainMoves
  <2>4. recovery' = [recovery EXCEPT ![m] = r]
    BY <1>7, <2>2, RecoveryMoves
  <2>5. UNCHANGED <<leader, up, nodes, retry, count>>
    BY <1>7 DEF RecoveryAdd
  <2>6. /\ \A d \in r.todo : store[d] # NoRecord
        /\ r.pc \in {"start", "pending", "stop"} =>
             r.cur \in Containers /\ store[r.cur] # NoRecord
        /\ r.pc \in {"stop", "add"} => r.node \in Workers
    BY <1>2, <1>7, <2>3 DEF RecoveryAdd, LoopInv
  <2> QED
    BY <2>1, <2>3, <2>4, <2>5, <2>6, RecoveryStep
<1>8. CASE RecoveryEnd(m)
  <2>1. Grown
    BY <1>8, SameGrown DEF RecoveryEnd
  <2>2. Idle \in Recoveries /\ Idle.pc = "idle" /\ Idle.todo = {}
    BY DEF Idle, Recoveries
  <2> QED
    BY <1>8, <2>1, <2>2, RecoveryStep DEF RecoveryEnd
<1> QED
  BY <1>3, <1>4, <1>5, <1>6, <1>7, <1>8 DEF Recovery

\* The retry loop holds on to a record and the worker it has started it on.
LEMMA RetryTyped ==
  ASSUME TypeInv, NEW m \in Masters, Retry(m)
  PROVE  TypeInv'
<1> USE DEF TypeInv, TypeOK
<1>1. recovery \in [Masters -> Recoveries] /\ retry \in [Masters -> Retries]
  BY DEF Recoveries, Retries
<1>2. ASSUME NEW c \in Containers, RetryStart(m, c) PROVE TypeInv'
  <2>1. Grown
    BY <1>2, SameGrown DEF RetryStart
  <2>2. PICK w \in Workers : retry' = [retry EXCEPT ![m] = [cur |-> c, node |-> w]]
    BY <1>2 DEF RetryStart, Alive
  <2>3. /\ retry' \in [Masters -> Retries]
        /\ retry'[m].cur = c /\ retry'[m].node = w
        /\ \A n \in Masters \ {m} : retry'[n] = retry[n]
    BY <1>1, <2>2 DEF Retries
  <2>4. store[c] # NoRecord
    BY <1>2 DEF RetryStart, LoopInv, NoRecord
  <2>5. LoopInv(m)'
    BY <1>2, <2>1, <2>3, <2>4 DEF RetryStart, LoopInv, Grown
  <2> QED
    BY <1>1, <1>2, <2>1, <2>3, <2>5, LoopStep DEF RetryStart
<1>3. CASE RetryRecord(m)
  <2>1. Grown
    BY <1>3, RetryWritten DEF RetryRecord, LoopInv
  <2>2. NoRetry \in Retries
    BY DEF NoRetry, Retries
  <2>3. /\ retry' \in [Masters -> Retries] /\ retry'[m] = NoRetry
        /\ \A n \in Masters \ {m} : retry'[n] = retry[n]
    BY <1>1, <1>3, <2>2 DEF RetryRecord
  <2>4. LoopInv(m)'
    BY <1>3, <2>1, <2>3 DEF RetryRecord, LoopInv, Grown
  <2> QED
    BY <1>1, <1>3, <2>1, <2>3, <2>4, LoopStep DEF RetryRecord
<1> QED
  BY <1>2, <1>3 DEF Retry

\* The types hold at the start.
LEMMA InitTyped == Init => TypeInv
<1> USE FailoverAssumption
<1>1. ASSUME NEW c \in Containers, NEW w \in Workers, Init,
             store = [d \in Containers |->
                        IF d = c THEN [st |-> "RUNNING", node |-> w] ELSE NoRecord]
      PROVE  store \in [Containers -> Record]
  BY <1>1 DEF Record
<1>2. Init => store \in [Containers -> Record]
  BY <1>1 DEF Init
<1>3. MaxDeaths \in Nat /\ MaxElections \in Nat /\ MaxCrashes \in Nat
  BY DEF FailoverAssumption
<1>4. Init => count \in Counts
  BY <1>3 DEF Init, Counts
<1>5. Init => recovery \in [Masters -> Recoveries] /\ retry \in [Masters -> Retries]
  BY DEF Init, Idle, NoRetry, Recoveries, Retries
<1>6. Init => /\ leader \in (Masters \cap up) \cup {None} /\ up \subseteq Masters \cup Workers
              /\ seen \in [Masters -> [Containers -> Record]]
              /\ nodes \in [Masters -> [Workers -> {"NONE", "ALIVE", "DEAD"}]]
  BY <1>2 DEF Init
<1>7. Init => TypeOK
  BY <1>2, <1>4, <1>5, <1>6 DEF TypeOK, Counts, Recoveries, Retries
<1>8. Init => \A m \in Masters : LoopInv(m)
  BY DEF Init, LoopInv, Idle
<1> QED
  BY <1>7, <1>8 DEF TypeInv

\* Every step keeps them.
LEMMA StepTyped ==
  ASSUME TypeInv, [Next]_vars
  PROVE  TypeInv'
BY FailoverAssumption, OthersTyped, MarkDeadTyped, RecoveryTyped, RetryTyped DEF Next

\* Type correctness: the records, the node tables and the loops of the masters keep their
\* types, and a status is set only on a record that is there, whatever may happen.
THEOREM TypeCorrect == Spec => []TypeOK
<1>1. TypeInv => TypeOK
  BY DEF TypeInv
<1> QED
  BY <1>1, InitTyped, StepTyped, PTL DEF Spec

-----------------------------------------------------------------------------
(* One record that counts. *)

\* Nothing changes for the leader.
LEMMA LeaderKept ==
  ASSUME AloneInv, UNCHANGED <<leader, store>>,
         leader # None => /\ seen'[leader] = seen[leader]
                          /\ recovery'[leader] = recovery[leader]
                          /\ retry'[leader] = retry[leader]
  PROVE  AloneInv'
BY DEF AloneInv, OneActiveRecord, Active, LeaderInv

\* Elections, crashes, starts and heartbeats: a new leader has applied the whole log, and
\* its loops rest.
LEMMA OthersAlone ==
  ASSUME TypeInv, AloneInv, FailoverAssumption, "lag" \notin Faults, "bounce" \notin Faults,
         \/ \E m \in Masters : \/ CatchUp(m) \/ Elect(m) \/ Depose(m)
                               \/ MasterCrash(m) \/ MasterStart(m)
                               \/ \E w \in Workers : Hear(m, w)
         \/ \E w \in Workers : WorkerCrash(w)
         \/ UNCHANGED vars
  PROVE  AloneInv'
<1>1. /\ leader \in Masters \cup {None} /\ None \notin Masters
      /\ seen \in [Masters -> [Containers -> Record]]
      /\ recovery \in [Masters -> Recoveries] /\ retry \in [Masters -> Retries]
  BY DEF TypeInv, TypeOK, FailoverAssumption, Recoveries, Retries
<1>2. ASSUME NEW m \in Masters, CatchUp(m) PROVE AloneInv'
  <2>1. leader # None => seen[leader] = store
    BY DEF AloneInv, LeaderInv
  <2>2. leader # m
    BY <1>1, <1>2, <2>1 DEF CatchUp
  <2> QED
    BY <1>1, <1>2, <2>2, LeaderKept DEF CatchUp, loops
<1>3. ASSUME NEW m \in Masters, Elect(m) PROVE AloneInv'
  <2>1. /\ leader' = m /\ seen'[m] = store' /\ recovery'[m] = Idle /\ retry'[m] = NoRetry
        /\ store' = store
    BY <1>3 DEF Elect, loops, records
  <2>2. OneActiveRecord'
    BY <2>1 DEF AloneInv, OneActiveRecord, Active
  <2>3. LeaderInv(m)'
    BY <2>1 DEF LeaderInv, Idle
  <2> QED
    BY <2>1, <2>2, <2>3 DEF AloneInv
<1>4. ASSUME NEW m \in Masters, Depose(m) PROVE AloneInv'
  BY <1>4 DEF Depose, records, AloneInv, OneActiveRecord, Active
<1>5. ASSUME NEW m \in Masters, MasterCrash(m) PROVE AloneInv'
  <2>1. CASE leader = m
    BY <1>5, <2>1 DEF MasterCrash, AloneInv, OneActiveRecord, Active
  <2>2. CASE leader # m
    BY <1>1, <1>5, <2>2, LeaderKept DEF MasterCrash
  <2> QED
    BY <2>1, <2>2
<1>6. ASSUME NEW m \in Masters, MasterStart(m) PROVE AloneInv'
  BY <1>6, LeaderKept DEF MasterStart, records, loops
<1>7. ASSUME NEW m \in Masters, NEW w \in Workers, Hear(m, w) PROVE AloneInv'
  BY <1>7, LeaderKept DEF Hear, records, loops
<1>8. ASSUME NEW w \in Workers, WorkerCrash(w) PROVE AloneInv'
  BY <1>8, LeaderKept DEF WorkerCrash, records, loops
<1>9. CASE UNCHANGED vars
  BY <1>9, LeaderKept DEF vars, records, loops
<1> QED
  BY <1>2, <1>3, <1>4, <1>5, <1>6, <1>7, <1>8, <1>9

\* What a worker is declared DEAD for holds at most the record that counts.
LEMMA MarkDeadAlone ==
  ASSUME TypeInv, AloneInv, FailoverAssumption, NEW m \in Masters, NEW w \in Workers,
         MarkDead(m, w)
  PROVE  AloneInv'
<1>1. recovery \in [Masters -> Recoveries] /\ store \in [Containers -> Record]
  BY DEF TypeInv, TypeOK, Recoveries
<1>2. UNCHANGED <<leader, store, seen, retry>>
  BY DEF MarkDead, records
<1>3. CASE leader = m /\ ActiveOn(seen[m], w) # {}
  <2>1. m # None /\ LeaderInv(m)
    BY <1>3 DEF AloneInv, FailoverAssumption
  <2>2. PICK D : D = ActiveOn(seen[m], w)
    OBVIOUS
  <2>3. D \subseteq Containers /\ \A c \in D : store[c].st \in {"RUNNING", "RESCHEDULING"}
    BY <1>1, <2>1, <2>2 DEF ActiveOn, LeaderInv, Record, NoRecord
  <2>4. recovery'[m] = [Idle EXCEPT !.pc = "next", !.todo = D]
    BY <1>1, <1>3, <2>2 DEF MarkDead
  <2>5. recovery'[m].pc = "next" /\ recovery'[m].todo = D
    BY <2>4 DEF Idle
  <2>6. LeaderInv(m)'
    BY <1>2, <2>1, <2>3, <2>5 DEF LeaderInv
  <2> QED
    BY <1>2, <1>3, <2>6 DEF AloneInv, OneActiveRecord, Active
<1>4. CASE ~(leader = m /\ ActiveOn(seen[m], w) # {})
  BY <1>2, <1>4, LeaderKept DEF MarkDead
<1> QED
  BY <1>3, <1>4

\* The loops of a master that does not lead change nothing that counts.
LEMMA DeposedAlone ==
  ASSUME TypeInv, AloneInv, NEW m \in Masters, leader # m, Recovery(m) \/ Retry(m)
  PROVE  AloneInv'
<1>1. leader \in Masters \cup {None} /\ LoopInv(m)
  BY DEF TypeInv, TypeOK
<1>2. recovery \in [Masters -> Recoveries] /\ retry \in [Masters -> Retries]
  BY DEF TypeInv, TypeOK, Recoveries, Retries
<1>3. UNCHANGED <<leader, store, seen>>
  BY DEF Recovery, Retry, RecoveryNext, RecoveryStart, RecoveryPending, RecoveryStop,
         RecoveryAdd, RecoveryEnd, RetryStart, RetryRecord, SetContainerStatus, Write, records
<1>4. \A n \in Masters \ {m} : recovery'[n] = recovery[n] /\ retry'[n] = retry[n]
  BY <1>2 DEF Recovery, Retry, RecoveryNext, RecoveryStart, RecoveryPending, RecoveryStop,
              RecoveryAdd, RecoveryEnd, RetryStart, RetryRecord
<1>5. leader # None => /\ seen'[leader] = seen[leader]
                       /\ recovery'[leader] = recovery[leader]
                       /\ retry'[leader] = retry[leader]
  BY <1>1, <1>3, <1>4
<1> QED
  BY <1>3, <1>5, LeaderKept

\* One step of the leader on one record c: no other record counts, and the leader's loops
\* are after it where the status of c says.
LEMMA LeaderStep ==
  ASSUME TypeInv, NEW m \in Masters, leader = m, leader' = leader, NEW c \in Containers,
         \A d \in Containers : d # c => ~Active(d)',
         seen'[m] = store',
         recovery'[m].todo # {} => recovery'[m].pc = "next",
         \A d \in recovery'[m].todo : store'[d].st \in {"RUNNING", "RESCHEDULING"},
         recovery'[m].pc \in {"start", "pending", "stop"} =>
           store'[recovery'[m].cur].st = "RESCHEDULING",
         recovery'[m].pc = "add" => ~Active(c)',
         retry'[m] # NoRetry => store'[retry'[m].cur].st = "PENDING"
  PROVE  AloneInv'
<1>1. OneActiveRecord'
  BY DEF OneActiveRecord
<1>2. LeaderInv(m)'
  BY DEF LeaderInv
<1> QED
  BY <1>1, <1>2 DEF AloneInv

\* The recovery of the leader takes up the record that counts, stops it before it adds
\* another, and is through with it.
LEMMA RecoveryAlone ==
  ASSUME TypeInv, AloneInv, FailoverAssumption, NEW m \in Masters, leader = m, Recovery(m)
  PROVE  AloneInv'
<1>1. recovery[m] \in Recoveries
  BY DEF TypeInv, TypeOK, Recoveries
<1>2. recovery \in [Masters -> Recoveries] /\ store \in [Containers -> Record]
  BY DEF TypeInv, TypeOK, Recoveries
<1>3. m # None /\ LoopInv(m) /\ LeaderInv(m)
  BY DEF TypeInv, AloneInv, FailoverAssumption
<1>4. \A c, d \in Containers : Active(c) /\ Active(d) => c = d
  BY DEF AloneInv, OneActiveRecord
<1>5. ASSUME NEW c \in Containers, RecoveryNext(m, c) PROVE AloneInv'
  <2>1. c \in recovery[m].todo /\ Active(c) /\ store[c] # NoRecord
    BY <1>3, <1>5 DEF RecoveryNext, LeaderInv, LoopInv, Active
  <2>2. /\ store'[c].st = "RESCHEDULING"
        /\ \A d \in Containers \ {c} : store'[d] = store[d]
        /\ seen'[m] = store'
    BY <1>5, <2>1, StatusWritten DEF RecoveryNext, Statuses
  <2>3. PICK r : r = Started(recovery[m], c)
    OBVIOUS
  <2>4. r.pc = "start" /\ r.todo = recovery[m].todo \ {c} /\ r.cur = c
    BY <1>1, <2>3, StartMove
  <2>5. recovery'[m] = r
    BY <1>2, <1>5, <2>3, RecoveryMoves
  <2>6. \A d \in recovery[m].todo : d \in Containers /\ Active(d)
    BY <1>1, <1>3 DEF LeaderInv, Active, Recoveries
  <2>7. r.todo = {}
    BY <1>4, <2>1, <2>4, <2>6
  <2>8. \A d \in Containers : d # c => ~Active(d)'
    BY <1>4, <2>1, <2>2 DEF Active
  <2>9. retry'[m] = NoRetry
    <3>1. retry[m] # NoRetry =>
            /\ retry[m].cur \in Containers /\ Active(retry[m].cur)
            /\ store[retry[m].cur].st = "PENDING"
      BY <1>3 DEF LoopInv, LeaderInv, Active
    <3>2. store[c].st \in {"RUNNING", "RESCHEDULING"}
      BY <1>3, <2>1 DEF LeaderInv
    <3>3. retry[m] = NoRetry
      BY <1>4, <2>1, <3>1, <3>2
    <3> QED
      BY <1>5, <3>3 DEF RecoveryNext
  <2>10. leader' = leader
    BY <1>5 DEF RecoveryNext
  <2> QED
    BY <2>2, <2>4, <2>5, <2>7, <2>8, <2>9, <2>10, LeaderStep
<1>6. CASE RecoveryStart(m)
  <2>1. recovery[m].pc = "start" /\ UNCHANGED <<leader, store, seen, retry>>
    BY <1>6 DEF RecoveryStart, records
  <2>2. PICK r : /\ recovery'[m] = r /\ r.pc \in {"stop", "pending"}
                 /\ r.todo = recovery[m].todo /\ r.cur = recovery[m].cur
    BY <1>1, <1>2, <1>6, RecoveryMoves, PlaceMove, PlainMoves
  <2>3. r.todo = {}
    BY <1>3, <2>1, <2>2 DEF LeaderInv
  <2>4. LeaderInv(m)'
    BY <1>3, <2>1, <2>2, <2>3 DEF LeaderInv
  <2> QED
    BY <2>1, <2>4 DEF AloneInv, OneActiveRecord, Active
<1>7. ASSUME RecoveryPending(m) \/ RecoveryStop(m) PROVE AloneInv'
  <2>1. PICK c \in Containers : c = recovery[m].cur
    BY <1>3, <1>7 DEF RecoveryPending, RecoveryStop, LoopInv
  <2>2. store[c] # NoRecord /\ store[c].st = "RESCHEDULING" /\ recovery[m].todo = {}
    BY <1>3, <1>7, <2>1 DEF RecoveryPending, RecoveryStop, LoopInv, LeaderInv
  <2>3. PICK st \in {"PENDING", "STOPPED"} :
          /\ SetContainerStatus(m, c, st)
          /\ st = "PENDING" => recovery' = [recovery EXCEPT ![m] = Postponed(recovery[m])]
          /\ st = "STOPPED" => recovery' = [recovery EXCEPT ![m] = Stopped(recovery[m])]
    BY <1>7, <2>1, RecoveryMoves DEF RecoveryPending, RecoveryStop
  <2>4. /\ store'[c].st = st
        /\ \A d \in Containers \ {c} : store'[d] = store[d]
        /\ seen'[m] = store'
    BY <2>2, <2>3, StatusWritten DEF Statuses
  <2>5. PICK r : /\ recovery'[m] = r /\ r.todo = {}
                 /\ (r.pc = "next" /\ st = "PENDING") \/ (r.pc = "add" /\ st = "STOPPED")
    BY <1>1, <1>2, <2>2, <2>3, PlainMoves
  <2>6. Active(c)
    BY <2>2 DEF Active
  <2>7. \A d \in Containers : d # c => ~Active(d)'
    BY <1>4, <2>4, <2>6 DEF Active
  <2>8. st = "STOPPED" => ~Active(c)'
    BY <2>4 DEF Active
  <2>9. retry'[m] = NoRetry
    <3>1. retry[m] # NoRetry =>
            /\ retry[m].cur \in Containers /\ Active(retry[m].cur)
            /\ store[retry[m].cur].st = "PENDING"
      BY <1>3 DEF LoopInv, LeaderInv, Active
    <3>2. retry[m] = NoRetry
      BY <1>4, <2>2, <2>6, <3>1
    <3> QED
      BY <1>7, <3>2 DEF RecoveryPending, RecoveryStop
  <2>10. leader' = leader
    BY <1>7 DEF RecoveryPending, RecoveryStop
  <2> QED
    BY <2>4, <2>5, <2>7, <2>8, <2>9, <2>10, LeaderStep
<1>8. CASE RecoveryAdd(m)
  <2>1. recovery[m].pc = "add" /\ UNCHANGED <<leader, retry>>
    BY <1>8 DEF RecoveryAdd
  <2>2. \A d \in Containers : ~Active(d)
    BY <1>3, <2>1 DEF LeaderInv
  <2>3. recovery[m].todo = {} /\ recovery[m].node \in Workers
    BY <1>3, <2>1 DEF LeaderInv, LoopInv
  <2>4. seen'[m] = store' /\
        \E c \in Containers : \A d \in Containers \ {c} : store'[d] = store[d]
    BY <1>8, <2>3, AddWritten DEF RecoveryAdd
  <2>5. PICK c \in Containers : \A d \in Containers \ {c} : store'[d] = store[d]
    BY <2>4
  <2>6. PICK r : recovery'[m] = r /\ r.pc = "next" /\ r.todo = {}
    BY <1>1, <1>2, <1>8, <2>3, RecoveryMoves, PlainMoves
  <2>7. \A d \in Containers : d # c => ~Active(d)'
    BY <2>2, <2>5 DEF Active
  <2>8. retry'[m] = NoRetry
    <3>1. retry[m] # NoRetry => retry[m].cur \in Containers /\ Active(retry[m].cur)
      BY <1>3 DEF LoopInv, LeaderInv, Active
    <3> QED
      BY <2>1, <2>2, <3>1
  <2> QED
    BY <2>1, <2>4, <2>6, <2>7, <2>8, LeaderStep
<1>9. CASE RecoveryEnd(m)
  <2>1. UNCHANGED <<leader, store, seen, retry>> /\ recovery'[m] = Idle
    BY <1>2, <1>9 DEF RecoveryEnd, records
  <2>2. LeaderInv(m)'
    BY <1>3, <2>1 DEF LeaderInv, Idle
  <2> QED
    BY <2>1, <2>2 DEF AloneInv, OneActiveRecord, Active
<1> QED
  BY <1>5, <1>6, <1>7, <1>8, <1>9 DEF Recovery

\* The retry loop of the leader turns the PENDING record into the one that runs.
LEMMA RetryAlone ==
  ASSUME TypeInv, AloneInv, FailoverAssumption, NEW m \in Masters, leader = m, Retry(m)
  PROVE  AloneInv'
<1>1. retry \in [Masters -> Retries] /\ recovery[m] \in Recoveries
  BY DEF TypeInv, TypeOK, Recoveries, Retries
<1>2. m # None /\ LoopInv(m) /\ LeaderInv(m)
  BY DEF TypeInv, AloneInv, FailoverAssumption
<1>3. \A c, d \in Containers : Active(c) /\ Active(d) => c = d
  BY DEF AloneInv, OneActiveRecord
<1>4. ASSUME NEW c \in Containers, RetryStart(m, c) PROVE AloneInv'
  <2>1. UNCHANGED <<leader, store, seen, recovery>> /\ store[c].st = "PENDING"
    BY <1>2, <1>4 DEF RetryStart, records, LeaderInv
  <2>2. retry'[m].cur = c
    BY <1>1, <1>4 DEF RetryStart
  <2>3. LeaderInv(m)'
    BY <1>2, <2>1, <2>2 DEF LeaderInv, Active
  <2> QED
    BY <2>1, <2>3 DEF AloneInv, OneActiveRecord, Active
<1>5. CASE RetryRecord(m)
  <2>1. PICK c \in Containers : c = retry[m].cur
    BY <1>2, <1>5 DEF RetryRecord, LoopInv
  <2>2. store[c].st = "PENDING" /\ retry[m].node \in Workers /\ Active(c)
    BY <1>2, <1>5, <2>1 DEF RetryRecord, LoopInv, LeaderInv, Active
  <2>3. /\ store'[c].st = "RUNNING"
        /\ \A d \in Containers \ {c} : store'[d] = store[d]
        /\ seen'[m] = store'
    BY <1>5, <2>1, <2>2, RetryWritten DEF RetryRecord
  <2>4. \A d \in Containers : d # c => ~Active(d)'
    BY <1>3, <2>2, <2>3 DEF Active
  <2>5. UNCHANGED <<leader, recovery>> /\ retry'[m] = NoRetry
    BY <1>1, <1>5 DEF RetryRecord
  <2>6. recovery[m].todo = {}
    <3>1. \A d \in recovery[m].todo :
            d \in Containers /\ Active(d) /\ store[d].st # "PENDING"
      BY <1>1, <1>2 DEF LeaderInv, Active, Recoveries
    <3> QED
      BY <1>3, <2>2, <3>1
  <2>7. recovery[m].pc \notin {"start", "pending", "stop", "add"}
    <3>1. recovery[m].pc \in {"start", "pending", "stop"} =>
            /\ recovery[m].cur \in Containers /\ Active(recovery[m].cur)
            /\ store[recovery[m].cur].st # "PENDING"
      BY <1>2 DEF LoopInv, LeaderInv, Active
    <3>2. recovery[m].pc # "add"
      BY <1>2, <2>2 DEF LeaderInv
    <3> QED
      BY <1>3, <2>2, <3>1, <3>2
  <2> QED
    BY <2>3, <2>4, <2>5, <2>6, <2>7, LeaderStep
<1> QED
  BY <1>4, <1>5 DEF Retry

\* Whatever workers and masters crash, whatever leader is deposed and whatever heartbeats are
\* late, the replica never has two records that count, provided that a master leads with the
\* whole log applied and that none leads again while its old loops still run
\* (main.go:138-219).
THEOREM OneActive ==
  ASSUME "lag" \notin Faults, "bounce" \notin Faults
  PROVE  Spec => []OneActiveRecord
<1> USE FailoverAssumption
<1>1. Init => TypeInv /\ AloneInv
  <2>1. Init => TypeInv
    BY InitTyped
  <2>2. Init => OneActiveRecord
    BY DEF Init, OneActiveRecord, Active, NoRecord
  <2>3. ASSUME Init, leader # None PROVE LeaderInv(leader)
    <3>1. leader \in Masters
      BY <2>3 DEF Init
    <3>2. seen[leader] = store /\ recovery[leader] = Idle /\ retry[leader] = NoRetry
      BY <2>3, <3>1 DEF Init
    <3> QED
      BY <3>2 DEF LeaderInv, Idle
  <2> QED
    BY <2>1, <2>2, <2>3 DEF AloneInv
<1>2. IInv /\ [Next]_vars => IInv'
  <2> SUFFICES ASSUME IInv, [Next]_vars
               PROVE  IInv'
    OBVIOUS
  <2>1. TypeInv'
    BY StepTyped DEF IInv
  <2>2. AloneInv'
    BY OthersAlone, MarkDeadAlone, DeposedAlone, RecoveryAlone, RetryAlone DEF IInv, Next
  <2> QED
    BY <2>1, <2>2 DEF IInv
<1>3. IInv => OneActiveRecord
  BY DEF IInv, AloneInv
<1> QED
  BY <1>1, <1>2, <1>3, PTL DEF Spec, IInv
=============================================================================
