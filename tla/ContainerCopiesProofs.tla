----------------------- MODULE ContainerCopiesProofs -----------------------
(***************************************************************************)
(* How often a replica runs, while services are deleted.  A deletion sets  *)
(* records to STOPPED under the hands of createService, of a recovery and  *)
(* of the retry loop, and these write other statuses over STOPPED again,   *)
(* so that the statuses alone no longer say who has a record in hand, as   *)
(* they do in ContainerLifecycleProofs.  The invariant has three parts:    *)
(*   OneHandInv  no two goroutines have the same record in hand;           *)
(*   RunsInv     what runs on an ALIVE node is in the record of one that   *)
(*               nobody has in hand, or about to be recorded;              *)
(*   BoundInv    a service has no more records that count, or STOPPED ones *)
(*               that may count again, than createService has written.     *)
(***************************************************************************)
EXTENDS ContainerLifecycleProofs

\* Whose hands a record is in: those of createService, of a recovery, of the retry loop.
Created(c) == create[SvcOf(c)].pc \in {"start", "record"} /\ create[SvcOf(c)].cur = c

Recovered(c) ==
  \/ c \in recovery.todo
  \/ recovery.pc \in {"plan", "start", "record", "add"} /\ recovery.cur = c

Retried(c) == c \in retry.todo \cup DOMAIN retry.plan

InHands(c) == Created(c) \/ Recovered(c) \/ Retried(c)

\* Nobody else has a record in hand, and it is what he left it as or STOPPED.
OneHand(c) ==
  /\ rec[c].st = "SCHEDULED" => Created(c)
  /\ Created(c) => /\ rec[c].st \in {"SCHEDULED", "STOPPED"}
                   /\ rec[c].node = create[SvcOf(c)].plan[create[SvcOf(c)].i]
                   /\ ~ Recovered(c) /\ ~ Retried(c)
  /\ Recovered(c) => /\ rec[c].st \in {"RUNNING", "RESCHEDULING", "STOPPED"}
                     /\ recovery.pc = "add" /\ recovery.cur = c => rec[c].st = "STOPPED"
                     /\ ~ Retried(c)
  /\ Retried(c) => rec[c].st \in {"PENDING", "STOPPED"}
  /\ recovery.new = c => rec[c].st = "NONE"

\* The recovery and the retry loop have a record in hand once.
OnceInHand ==
  /\ recovery.pc \in {"plan", "start", "record", "add"} => recovery.cur \notin recovery.todo
  /\ retry.todo \cap DOMAIN retry.plan = {}

OneHandInv == ListedDead /\ OnceInHand /\ \A c \in Containers : OneHand(c)

\* A replica belongs on node n: its record says so, or is about to.
BelongsOn(n, c) ==
  \/ rec[c].st \in {"RUNNING", "STOPPED"} /\ rec[c].node = n /\ ~ InHands(c)
  \/ /\ create[SvcOf(c)].pc = "record" /\ create[SvcOf(c)].out = "ok"
     /\ create[SvcOf(c)].cur = c
     /\ create[SvcOf(c)].plan[create[SvcOf(c)].i] = n
  \/ recovery.pc \in {"record", "add"} /\ recovery.new = c /\ recovery.node = n
  \/ retry.pc = "record" /\ retry.out = "ok" /\ retry.cur = c /\ retry.plan[c] = n

OneCopy(n, c) == docker[n][c] = 0 \/ (docker[n][c] = 1 /\ BelongsOn(n, c))

RunsInv ==
  /\ late = {}
  /\ \A n \in Alive, c \in Containers : OneCopy(n, c)
  /\ \A n \in Nodes : Emptied(n)

Runs(c) == \E n \in Alive : docker[n][c] > 0

\* A record that makes up a replica, or a STOPPED one that may still stand for one.
Counts(c) ==
  \/ rec[c].st \notin {"NONE", "STOPPED"}
  \/ rec[c].st = "STOPPED" /\ (InHands(c) \/ Runs(c))

Counting(s) == {c \in Containers : SvcOf(c) = s /\ Counts(c)}

BoundInv == \A s \in Services : Cardinality(Counting(s)) <= Made(s)

CopiesAll == TypeInv /\ PlansAlive /\ OneHandInv /\ RunsInv /\ BoundInv

-----------------------------------------------------------------------------
(* No two goroutines have the same record in hand. *)

\* What does not touch a record's hands.
LEMMA OneHandKept ==
  ASSUME NEW c \in Containers, OneHand(c), rec'[c] = rec[c],
         create'[SvcOf(c)] = create[SvcOf(c)], UNCHANGED <<recovery, retry>>
  PROVE  OneHand(c)'
BY DEF OneHand, Created, Recovered, Retried

\* A record may be STOPPED under any hands.
LEMMA OneHandStopped ==
  ASSUME TypeInv, OneHandInv, UNCHANGED <<create, recovery, retry>>, ListedDead',
         NEW d \in Containers, SetContainerStatus(d, "STOPPED")
  PROVE  OneHandInv'
<1>1. "STOPPED" \in Statuses
  BY DEF Statuses
<1>2. /\ rec'[d].st = IF rec[d].st = "NONE" THEN "NONE" ELSE "STOPPED"
      /\ rec'[d].node = rec[d].node
      /\ \A c \in Containers : c # d => rec'[c] = rec[c]
  BY <1>1, RecordSet
<1>3. ASSUME NEW c \in Containers, OneHand(c) PROVE OneHand(c)'
  <2>1. CASE c = d
    BY <1>2, <1>3, <2>1 DEF OneHand, Created, Recovered, Retried
  <2>2. CASE c # d
    BY <1>2, <1>3, <2>2, OneHandKept
  <2> QED
    BY <2>1, <2>2
<1> QED
  BY <1>3 DEF OneHandInv, OnceInHand

\* What createService records of a replica that it has started.
LEMMA CreateRecorded ==
  ASSUME TypeInv, NEW s \in Services, CreateRecord(s), rec[create[s].cur].st # "NONE"
  PROVE  /\ rec'[create[s].cur].st \in {"RUNNING", "PENDING", "FAILED"}
         /\ create[s].out = "ok" => /\ rec'[create[s].cur].st = "RUNNING"
                                    /\ rec'[create[s].cur].node = create[s].plan[create[s].i]
         /\ \A c \in Containers : c # create[s].cur => rec'[c] = rec[c]
<1>1. create[s] \in Creates /\ CreateForm(s)
  BY DEF TypeInv
<1>2. PICK d, m : d = create[s].cur /\ m = create[s].plan[create[s].i]
  OBVIOUS
<1>3. d \in Containers /\ m \in MaybeNodes
  BY <1>1, <1>2 DEF CreateForm, CreateRecord, MaybeNodes
<1>4. {"RUNNING", "PENDING", "FAILED"} \subseteq Statuses
  BY DEF Statuses
<1>5. CASE create[s].out = "ok" /\ AddContainer(d, m, "RUNNING")
  <2>1. rec'[d].st = "RUNNING" /\ rec'[d].node = m
    BY <1>3, <1>4, <1>5, AddedStatus
  <2>2. \A c \in Containers : c # d => rec'[c] = rec[c]
    BY <1>3, <1>4, <1>5, RecordAdded
  <2> QED
    BY <1>2, <2>1, <2>2
<1>6. ASSUME create[s].out # "ok", NEW st \in {"PENDING", "FAILED"}, SetContainerStatus(d, st)
      PROVE  rec'[d].st = st /\ \A c \in Containers : c # d => rec'[c] = rec[c]
  BY <1>2, <1>3, <1>4, <1>6, RecordSet
<1>7. \/ create[s].out = "ok" /\ AddContainer(d, m, "RUNNING")
      \/ /\ create[s].out # "ok"
         /\ \E st \in {"PENDING", "FAILED"} : SetContainerStatus(d, st)
  BY <1>1, <1>2 DEF CreateRecord, Creates, Outcomes
<1> QED
  BY <1>2, <1>5, <1>6, <1>7

\* createService takes records in hand that were unused, and has one at a time
\* (server.go:302-401).
LEMMA CreateKeepsHand ==
  ASSUME TypeInv, OneHandInv, NEW s \in Services, Create(s)
  PROVE  OneHandInv'
<1>1. UNCHANGED <<status, recovery, retry, kill>>
  BY DEF Create, AddService, CreatePlan, CreatePending, CreateAdd, CreateStart, CreateRecord
<1>2. ListedDead' /\ OnceInHand'
  BY <1>1 DEF OneHandInv, ListedDead, OnceInHand, Alive
<1>3. create \in [Services -> Creates] /\ create[s] \in Creates /\ CreateForm(s)
  BY DEF TypeInv
<1>4. ASSUME NEW h, CreateGoes(s, h)
      PROVE  create'[s] = h /\ \A x \in Services : x # s => create'[x] = create[x]
  BY <1>3, <1>4 DEF CreateGoes
<1>5. ASSUME NEW h, CreateGoes(s, h), NEW d \in Containers, SvcOf(d) = s,
             \A c \in Containers : c # d => rec'[c] = rec[c],
             OneHand(d)',
             \A c \in Containers : c # d /\ SvcOf(c) = s => ~ Created(c) /\ ~ Created(c)'
      PROVE  OneHandInv'
  <2>1. ASSUME NEW c \in Containers, c # d PROVE OneHand(c)'
    <3>1. OneHand(c) /\ rec'[c] = rec[c]
      BY <1>5, <2>1 DEF OneHandInv
    <3>2. CASE SvcOf(c) = s
      BY <1>1, <1>5, <2>1, <3>1, <3>2 DEF OneHand, Recovered, Retried
    <3>3. CASE SvcOf(c) # s
      BY <1>1, <1>4, <1>5, <3>1, <3>3, ServiceOf, OneHandKept
    <3> QED
      BY <3>2, <3>3
  <2> QED
    BY <1>2, <1>5, <2>1 DEF OneHandInv
<1>6. ASSUME NEW h, CreateGoes(s, h), rec' = rec,
             \A c \in Containers : SvcOf(c) = s /\ OneHand(c) => OneHand(c)'
      PROVE  OneHandInv'
  <2>1. ASSUME NEW c \in Containers, SvcOf(c) # s, OneHand(c) PROVE OneHand(c)'
    BY <1>1, <1>4, <1>6, <2>1, ServiceOf, OneHandKept
  <2> QED
    BY <1>2, <1>6, <2>1 DEF OneHandInv
<1>7. CASE AddService(s) \/ CreatePlan(s)
  <2>1. PICK h : CreateGoes(s, h) /\ h.pc \in {"plan", "pending", "add"}
    BY <1>7, CreateSteps
  <2>2. rec' = rec /\ create[s].pc \in {"new", "plan"}
    BY <1>7 DEF AddService, CreatePlan
  <2>3. ASSUME NEW c \in Containers, SvcOf(c) = s, OneHand(c) PROVE OneHand(c)'
    BY <1>1, <1>4, <2>1, <2>2, <2>3 DEF OneHand, Created, Recovered, Retried
  <2> QED
    BY <1>6, <2>1, <2>2, <2>3
<1>8. CASE CreatePending(s)
  <2>1. PICK h : CreateGoes(s, h) /\ h.pc \in {"done", "pending"}
    BY <1>8, CreateSteps
  <2>2. PICK d : d = Fresh(s)
    OBVIOUS
  <2>3. /\ d \in Containers /\ SvcOf(d) = s /\ rec[d].st = "NONE" /\ recovery.new # d
        /\ AddContainer(d, None, "PENDING") /\ create[s].pc = "pending"
    BY <1>8, <2>2, FreshForm DEF CreatePending
  <2>4. "PENDING" \in Statuses /\ None \in MaybeNodes
    BY DEF Statuses, MaybeNodes
  <2>5. rec'[d].st = "PENDING" /\ \A c \in Containers : c # d => rec'[c] = rec[c]
    BY <2>3, <2>4, RecordAdded, AddedStatus
  <2>6. OneHand(d)
    BY <2>3 DEF OneHandInv
  <2>7. OneHand(d)'
    BY <1>1, <1>4, <2>1, <2>3, <2>5, <2>6 DEF OneHand, Created, Recovered, Retried
  <2>8. \A c \in Containers : SvcOf(c) = s => ~ Created(c) /\ ~ Created(c)'
    BY <1>4, <2>1, <2>3 DEF Created
  <2> QED
    BY <1>5, <2>1, <2>3, <2>5, <2>7, <2>8
<1>9. CASE CreateAdd(s)
  <2>1. PICK h : /\ CreateGoes(s, h) /\ h.pc = "start" /\ h.cur = Fresh(s)
                 /\ h.i = create[s].i /\ h.plan = create[s].plan
    BY <1>9, CreateSteps
  <2>2. PICK d, n : d = Fresh(s) /\ n = create[s].plan[create[s].i]
    OBVIOUS
  <2>3. /\ d \in Containers /\ SvcOf(d) = s /\ rec[d].st = "NONE" /\ recovery.new # d
        /\ AddContainer(d, n, "SCHEDULED") /\ create[s].pc = "add"
    BY <1>9, <2>2, FreshForm DEF CreateAdd
  <2>4. "SCHEDULED" \in Statuses /\ n \in MaybeNodes
    BY <1>3, <2>2, <2>3 DEF Statuses, MaybeNodes, CreateForm
  <2>5. /\ rec'[d].st = "SCHEDULED" /\ rec'[d].node = n
        /\ \A c \in Containers : c # d => rec'[c] = rec[c]
    BY <2>3, <2>4, RecordAdded, AddedStatus
  <2>6. ~ Recovered(d) /\ ~ Retried(d)
    BY <2>3 DEF OneHandInv, OneHand
  <2>7. OneHand(d)'
    <3>1. create'[s] = h
      BY <1>4, <2>1
    <3>2. Created(d)' /\ create'[s].plan[create'[s].i] = n
      BY <2>1, <2>2, <2>3, <3>1 DEF Created
    <3>3. ~ Recovered(d)' /\ ~ Retried(d)'
      BY <1>1, <2>6 DEF Recovered, Retried
    <3> QED
      BY <1>1, <2>3, <2>5, <3>2, <3>3 DEF OneHand
  <2>8. \A c \in Containers : c # d /\ SvcOf(c) = s => ~ Created(c) /\ ~ Created(c)'
    BY <1>4, <2>1, <2>2, <2>3 DEF Created
  <2> QED
    BY <1>5, <2>1, <2>3, <2>5, <2>7, <2>8
<1>10. CASE CreateStart(s)
  <2>1. PICK h : /\ CreateGoes(s, h) /\ h.pc = "record"
                 /\ h.i = create[s].i /\ h.plan = create[s].plan /\ h.cur = create[s].cur
    BY <1>10, CreateStartStep
  <2>2. rec' = rec /\ create[s].pc = "start"
    BY <1>10 DEF CreateStart
  <2>3. ASSUME NEW c \in Containers, SvcOf(c) = s, OneHand(c) PROVE OneHand(c)'
    BY <1>1, <1>4, <2>1, <2>2, <2>3 DEF OneHand, Created, Recovered, Retried
  <2> QED
    BY <1>6, <2>1, <2>2, <2>3
<1>11. CASE CreateRecord(s)
  <2>1. PICK h : CreateGoes(s, h) /\ h.pc \in {"done", "add"}
    BY <1>11, CreateSteps
  <2>2. PICK d : d = create[s].cur
    OBVIOUS
  <2>3. d \in Containers /\ SvcOf(d) = s /\ create[s].pc = "record" /\ Created(d)
    BY <1>3, <1>11, <2>2 DEF CreateForm, CreateRecord, Created
  <2>4. OneHand(d)
    BY <2>3 DEF OneHandInv
  <2>5. /\ rec'[d].st \in {"RUNNING", "PENDING", "FAILED"}
        /\ \A c \in Containers : c # d => rec'[c] = rec[c]
    BY <1>11, <2>2, <2>3, <2>4, CreateRecorded DEF OneHand
  <2>6. OneHand(d)'
    BY <1>1, <1>4, <2>1, <2>3, <2>4, <2>5 DEF OneHand, Created, Recovered, Retried
  <2>7. \A c \in Containers : c # d /\ SvcOf(c) = s => ~ Created(c) /\ ~ Created(c)'
    BY <1>4, <2>1, <2>2, <2>3 DEF Created
  <2> QED
    BY <1>5, <2>1, <2>3, <2>5, <2>6, <2>7
<1> QED
  BY <1>7, <1>8, <1>9, <1>10, <1>11 DEF Create

\* A deletion stops records under anybody's hands (server.go:380-401).
LEMMA DeleteKeepsHand ==
  ASSUME TypeInv, OneHandInv, NEW s \in Services, Delete(s)
  PROVE  OneHandInv'
<1>1. UNCHANGED <<status, create, recovery, retry, kill>>
  BY DEF Delete, DeleteList, DeleteKill, DeleteStop, RemoveService
<1>2. ListedDead' /\ OnceInHand'
  BY <1>1 DEF OneHandInv, ListedDead, OnceInHand, Alive
<1>3. CASE DeleteStop(s)
  BY <1>1, <1>2, <1>3, DeleteSteps, OneHandStopped
<1>4. CASE rec' = rec
  BY <1>1, <1>2, <1>4, OneHandKept DEF OneHandInv
<1> QED
  BY <1>3, <1>4 DEF Delete, DeleteList, DeleteKill, RemoveService

\* A recovery takes in hand what a dead node is recorded to run, one record after the other,
\* and lets go of each as PENDING or, once its replacement is recorded, STOPPED
\* (main.go:124-173).
LEMMA RecoveryKeepsHand ==
  ASSUME TypeInv, PlansAlive, OneHandInv, Recovery
  PROVE  OneHandInv'
<1>1. UNCHANGED <<status, create, retry, kill>>
  BY DEF Recovery, RecoveryList, RecoveryNext, RecoveryPlan, RecoveryStart, RecoveryRecord,
         RecoveryRecordInTime, RecoveryAdd, RecoveryEnd
<1>2. /\ recovery \in Recoveries /\ RecoveryForm /\ None \notin Containers
      /\ rec \in [Containers -> RecordForms]
  BY Constants DEF TypeInv
<1>3. {"RESCHEDULING", "STOPPED", "PENDING", "RUNNING"} \subseteq Statuses
  BY DEF Statuses
<1>4. ASSUME recovery'.pc # "list", OnceInHand', \A c \in Containers : OneHand(c)'
      PROVE  OneHandInv'
  BY <1>4 DEF OneHandInv, ListedDead
<1>5. CASE RecoveryList
  <2>1. /\ recovery'.pc = "next" /\ recovery'.todo = ActiveOn(recovery.node)
        /\ recovery'.new = None /\ recovery.pc = "list" /\ rec' = rec
    BY <1>5, RecoverySteps DEF RecoveryList
  <2>2. recovery.node \notin Alive
    BY <2>1 DEF OneHandInv, ListedDead
  <2>3. ASSUME NEW c \in Containers PROVE OneHand(c)'
    <3>1. OneHand(c) /\ ~ Recovered(c)
      BY <1>2, <2>1 DEF OneHandInv, Recovered, RecoveryForm
    <3>2. CASE c \in ActiveOn(recovery.node)
      <4>1. rec[c].node = recovery.node /\ rec[c].st \in {"RUNNING", "SCHEDULED", "RESCHEDULING"}
        BY <3>2 DEF ActiveOn
      <4>2. ASSUME Created(c) PROVE rec[c].node \in Alive
        <5>1. PICK s \in Services : s = SvcOf(c)
          BY ServiceOf
        <5>2. /\ create[s].pc \in {"start", "record"} /\ create[s].i \in 1..Replicas
              /\ Replicas \in Nat
          BY <4>2, <5>1, Constants DEF TypeInv, CreateForm, Created
        <5>3. create[s].plan[create[s].i] \in Alive
          BY <5>2 DEF PlansAlive
        <5> QED
          BY <3>1, <4>2, <5>1, <5>3 DEF OneHand
      <4>3. ~ Created(c) /\ ~ Retried(c)
        BY <2>2, <3>1, <4>1, <4>2 DEF OneHand
      <4>4. ~ Created(c)' /\ ~ Retried(c)' /\ rec[c].st # "SCHEDULED"
        BY <1>1, <3>1, <4>3 DEF Created, Retried, OneHand
      <4> QED
        BY <1>2, <2>1, <4>1, <4>4 DEF OneHand
    <3>3. CASE c \notin ActiveOn(recovery.node)
      <4>1. ~ Recovered(c)'
        BY <2>1, <3>3 DEF Recovered
      <4> QED
        BY <1>1, <1>2, <2>1, <3>1, <4>1 DEF OneHand, Created, Retried
    <3> QED
      BY <3>2, <3>3
  <2>4. OnceInHand'
    BY <1>1, <2>1 DEF OneHandInv, OnceInHand
  <2> QED
    BY <1>4, <2>1, <2>3, <2>4
<1>6. ASSUME NEW d \in Containers, RecoveryNext(d)
      PROVE  OneHandInv'
  <2>1. /\ recovery'.pc = "plan" /\ recovery'.cur = d
        /\ recovery'.todo = recovery.todo \ {d} /\ recovery'.new = None
        /\ recovery.pc = "next" /\ d \in recovery.todo
        /\ SetContainerStatus(d, "RESCHEDULING")
    BY <1>6, RecoverySteps DEF RecoveryNext
  <2>2. /\ rec'[d].st = IF rec[d].st = "NONE" THEN "NONE" ELSE "RESCHEDULING"
        /\ \A c \in Containers : c # d => rec'[c] = rec[c]
    BY <1>3, <2>1, RecordSet
  <2>3. ASSUME NEW c \in Containers PROVE OneHand(c)'
    <3>1. OneHand(c) /\ (Recovered(c)' <=> Recovered(c))
      BY <2>1 DEF OneHandInv, Recovered
    <3>2. CASE c = d
      <4>1. Recovered(c) /\ ~ Created(c) /\ ~ Retried(c) /\ rec[c].st # "NONE"
        BY <2>1, <3>1, <3>2 DEF OneHand, Recovered
      <4>2. ~ Created(c)' /\ ~ Retried(c)'
        BY <1>1, <4>1 DEF Created, Retried
      <4> QED
        BY <1>2, <2>1, <2>2, <3>2, <4>1, <4>2 DEF OneHand
    <3>3. CASE c # d
      BY <1>1, <1>2, <2>1, <2>2, <3>1, <3>3 DEF OneHand, Created, Retried
    <3> QED
      BY <3>2, <3>3
  <2>4. OnceInHand'
    BY <1>1, <2>1 DEF OneHandInv, OnceInHand
  <2> QED
    BY <1>4, <2>1, <2>3, <2>4
<1>7. CASE RecoveryPlan
  <2>1. /\ recovery'.todo = recovery.todo /\ recovery.pc = "plan" /\ rec' = rec
        /\ \/ recovery'.pc = "next" /\ recovery'.new = None
           \/ /\ recovery'.pc = "record" /\ recovery'.new = None
              /\ recovery'.cur = recovery.cur
           \/ /\ recovery'.pc = "start" /\ recovery'.cur = recovery.cur
              /\ rec[recovery'.new].st = "NONE"
    <3>1. recovery.cur \in Containers
      BY <1>2, <1>7 DEF RecoveryPlan, RecoveryForm
    <3> QED
      BY <1>7, <3>1, RecoverySteps, ServiceOf, FreshForm DEF RecoveryPlan
  <2>2. ASSUME NEW c \in Containers PROVE OneHand(c)'
    <3>1. OneHand(c) /\ (Recovered(c)' => Recovered(c))
      BY <2>1 DEF OneHandInv, Recovered
    <3> QED
      BY <1>1, <1>2, <2>1, <3>1 DEF OneHand, Created, Retried
  <2>3. OnceInHand'
    BY <1>1, <2>1 DEF OneHandInv, OnceInHand
  <2> QED
    BY <1>4, <2>1, <2>2, <2>3
<1>8. CASE RecoveryStart
  <2>1. /\ recovery'.pc = "record" /\ recovery'.todo = recovery.todo
        /\ recovery'.cur = recovery.cur /\ recovery'.new \in {recovery.new, None}
        /\ recovery.pc = "start" /\ rec' = rec
    BY <1>8, RecoveryStartStep DEF RecoveryStart
  <2>2. ASSUME NEW c \in Containers PROVE OneHand(c)'
    <3>1. OneHand(c) /\ (Recovered(c)' <=> Recovered(c))
      BY <2>1 DEF OneHandInv, Recovered
    <3> QED
      BY <1>1, <1>2, <2>1, <3>1 DEF OneHand, Created, Retried
  <2>3. OnceInHand'
    BY <1>1, <2>1 DEF OneHandInv, OnceInHand
  <2> QED
    BY <1>4, <2>1, <2>2, <2>3
<1>9. CASE RecoveryRecord
  <2>1. PICK d : d = recovery.cur
    OBVIOUS
  <2>2. /\ recovery'.pc = IF recovery.out = "ok" THEN "add" ELSE "next"
        /\ recovery'.todo = recovery.todo /\ recovery'.cur = d
        /\ recovery'.new = recovery.new /\ recovery.pc = "record" /\ d \in Containers
        /\ SetContainerStatus(d, IF recovery.out = "ok" THEN "STOPPED" ELSE "PENDING")
    BY <1>2, <1>9, <2>1, RecoverySteps DEF RecoveryRecord, RecoveryForm
  <2>3. Recovered(d) /\ OneHand(d) /\ d \notin recovery.todo
    BY <2>1, <2>2 DEF Recovered, OneHandInv, OnceInHand
  <2>4. /\ rec'[d].st = IF recovery.out = "ok" THEN "STOPPED" ELSE "PENDING"
        /\ \A c \in Containers : c # d => rec'[c] = rec[c]
    <3>1. rec[d].st # "NONE"
      BY <2>3 DEF OneHand
    <3>2. PICK st \in {"STOPPED", "PENDING"} :
            st = IF recovery.out = "ok" THEN "STOPPED" ELSE "PENDING"
      OBVIOUS
    <3> QED
      BY <1>3, <2>2, <3>1, <3>2, RecordSet
  <2>5. ASSUME NEW c \in Containers PROVE OneHand(c)'
    <3>1. OneHand(c) /\ (Recovered(c)' => Recovered(c))
      BY <2>1, <2>2 DEF OneHandInv, Recovered
    <3>2. CASE c = d
      <4>1. ~ Created(c) /\ ~ Retried(c) /\ recovery.new # c
        BY <2>3, <3>1, <3>2 DEF OneHand
      <4>2. ~ Created(c)' /\ ~ Retried(c)'
        BY <1>1, <4>1 DEF Created, Retried
      <4>3. recovery.out # "ok" => ~ Recovered(c)'
        BY <2>2, <2>3, <3>2 DEF Recovered
      <4> QED
        BY <2>2, <2>4, <3>2, <4>1, <4>2, <4>3 DEF OneHand
    <3>3. CASE c # d
      BY <1>1, <2>2, <2>4, <3>1, <3>3 DEF OneHand, Created, Retried
    <3> QED
      BY <3>2, <3>3
  <2>6. OnceInHand'
    BY <1>1, <2>2, <2>3 DEF OneHandInv, OnceInHand
  <2> QED
    BY <1>4, <2>2, <2>5, <2>6
<1>10. CASE RecoveryAdd
  <2>1. PICK d, n : d = recovery.new /\ n = recovery.node
    OBVIOUS
  <2>2. /\ recovery'.pc = "next" /\ recovery'.todo = recovery.todo /\ recovery'.new = None
        /\ d \in Containers /\ n \in MaybeNodes /\ AddContainer(d, n, "RUNNING")
    BY <1>2, <1>10, <2>1, RecoverySteps DEF RecoveryAdd, RecoveryForm, MaybeNodes
  <2>3. rec'[d].st = "RUNNING" /\ \A c \in Containers : c # d => rec'[c] = rec[c]
    BY <1>3, <2>2, RecordAdded, AddedStatus
  <2>4. ASSUME NEW c \in Containers PROVE OneHand(c)'
    <3>1. OneHand(c) /\ (Recovered(c)' => Recovered(c))
      BY <2>2 DEF OneHandInv, Recovered
    <3>2. CASE c = d
      <4>1. ~ Created(c) /\ ~ Retried(c) /\ ~ Recovered(c)'
        BY <2>1, <3>1, <3>2 DEF OneHand
      <4>2. ~ Created(c)' /\ ~ Retried(c)'
        BY <1>1, <4>1 DEF Created, Retried
      <4> QED
        BY <1>2, <2>2, <2>3, <3>2, <4>1, <4>2 DEF OneHand
    <3>3. CASE c # d
      BY <1>1, <1>2, <2>2, <2>3, <3>1, <3>3 DEF OneHand, Created, Retried
    <3> QED
      BY <3>2, <3>3
  <2>5. OnceInHand'
    BY <1>1, <2>2 DEF OneHandInv, OnceInHand
  <2> QED
    BY <1>4, <2>2, <2>4, <2>5
<1>11. CASE RecoveryEnd
  <2>1. /\ recovery'.pc = "idle" /\ recovery'.todo = {} /\ recovery'.new = None /\ rec' = rec
    BY <1>11, RecoverySteps DEF RecoveryEnd
  <2>2. ASSUME NEW c \in Containers PROVE OneHand(c)'
    <3>1. OneHand(c) /\ ~ Recovered(c)'
      BY <2>1 DEF OneHandInv, Recovered
    <3> QED
      BY <1>1, <1>2, <2>1, <3>1 DEF OneHand, Created, Retried
  <2>3. OnceInHand'
    BY <1>1, <2>1 DEF OneHandInv, OnceInHand
  <2> QED
    BY <1>4, <2>1, <2>2, <2>3
<1> QED
  BY <1>5, <1>6, <1>7, <1>8, <1>9, <1>10, <1>11 DEF Recovery, RecoveryRecordInTime

\* What the retry loop records of a replica that it has tried to start.
LEMMA RetryRecorded ==
  ASSUME TypeInv, RetryRecord
  PROVE  /\ retry.cur \in Containers /\ retry.cur \in DOMAIN retry.plan
         /\ retry.out = "ok" => /\ rec'[retry.cur].st = "RUNNING"
                                /\ rec'[retry.cur].node = retry.plan[retry.cur]
         /\ retry.out # "ok" => rec' = rec
         /\ \A c \in Containers : c # retry.cur => rec'[c] = rec[c]
<1>1. retry.cur \in DOMAIN retry.plan
  BY RetryStartSteps
<1>2. PICK d, n : d = retry.cur /\ n = retry.plan[retry.cur]
  OBVIOUS
<1>3. d \in Containers /\ n \in MaybeNodes /\ "RUNNING" \in Statuses
  BY <1>1, <1>2, RetryPlanForm DEF MaybeNodes, Statuses
<1>4. IF retry.out = "ok" THEN AddContainer(d, n, "RUNNING") ELSE rec' = rec
  BY <1>2 DEF RetryRecord
<1>5. ASSUME AddContainer(d, n, "RUNNING")
      PROVE  /\ rec'[d].st = "RUNNING" /\ rec'[d].node = n
             /\ \A c \in Containers : c # d => rec'[c] = rec[c]
  <2>1. rec'[d].st = "RUNNING" /\ rec'[d].node = n
    BY <1>3, <1>5, AddedStatus
  <2>2. \A c \in Containers : c # d => rec'[c] = rec[c]
    BY <1>3, <1>5, RecordAdded
  <2> QED
    BY <2>1, <2>2
<1> QED
  BY <1>1, <1>2, <1>3, <1>4, <1>5

\* The retry loop takes in hand what is PENDING and lets go of it as it was or RUNNING
\* (main.go:177-219).
LEMMA RetryKeepsHand ==
  ASSUME TypeInv, OneHandInv, Retry
  PROVE  OneHandInv'
<1>1. UNCHANGED <<status, create, recovery, kill>>
  BY DEF Retry, RetryList, RetryPlan, RetryStart, RetryRecord, RetryEnd
<1>2. ListedDead'
  BY <1>1 DEF OneHandInv, ListedDead, Alive
<1>3. retry \in Retries /\ RetryForm
  BY DEF TypeInv
<1>4. ASSUME rec' = rec, retry'.todo \cap DOMAIN retry'.plan = {},
             \A c \in Containers : Retried(c)' => Retried(c) \/ rec[c].st = "PENDING"
      PROVE  OneHandInv'
  <2>1. OnceInHand'
    BY <1>1, <1>4 DEF OneHandInv, OnceInHand
  <2>2. ASSUME NEW c \in Containers PROVE OneHand(c)'
    <3>1. OneHand(c)
      BY DEF OneHandInv
    <3>2. Retried(c)' => Retried(c) \/ rec[c].st = "PENDING"
      BY <1>4
    <3> QED
      BY <1>1, <1>4, <3>1, <3>2 DEF OneHand, Created, Recovered
  <2> QED
    BY <1>2, <2>1, <2>2 DEF OneHandInv
<1>5. CASE RetryList
  <2>1. /\ retry'.todo = Pending /\ retry'.plan = retry.plan /\ rec' = rec
        /\ DOMAIN retry.plan = {}
    BY <1>3, <1>5, RetrySteps DEF RetryList, RetryForm
  <2> QED
    BY <1>4, <2>1 DEF Retried, Pending
<1>6. ASSUME NEW s \in Services, RetryPlan(s)
      PROVE  OneHandInv'
  <2>1. /\ retry'.todo = {c \in retry.todo : SvcOf(c) # s} /\ rec' = rec
        /\ \/ retry'.plan = retry.plan
           \/ DOMAIN retry'.plan = {c \in retry.todo : SvcOf(c) = s}
    BY <1>6, RetrySteps DEF RetryPlan
  <2>2. retry.todo \cap DOMAIN retry.plan = {}
    BY DEF OneHandInv, OnceInHand
  <2>3. retry'.todo \cap DOMAIN retry'.plan = {}
    BY <2>1, <2>2
  <2> QED
    BY <1>4, <2>1, <2>3 DEF Retried
<1>7. ASSUME NEW c \in Containers, RetryStart(c)
      PROVE  OneHandInv'
  <2>1. retry'.todo = retry.todo /\ retry'.plan = retry.plan /\ rec' = rec
    BY <1>7, RetryStartSteps DEF RetryStart
  <2> QED
    BY <1>4, <2>1 DEF OneHandInv, OnceInHand, Retried
<1>8. CASE RetryRecord
  <2>1. PICK d : d = retry.cur
    OBVIOUS
  <2>2. /\ d \in Containers /\ d \in DOMAIN retry.plan
        /\ rec'[d].st = "RUNNING" \/ rec' = rec
        /\ \A c \in Containers : c # d => rec'[c] = rec[c]
    BY <1>8, <2>1, RetryRecorded DEF TypeInv
  <2>3. retry'.todo = retry.todo /\ DOMAIN retry'.plan = DOMAIN retry.plan \ {d}
    BY <1>8, <2>1, RetryStartSteps
  <2>4. retry.todo \cap DOMAIN retry.plan = {}
    BY DEF OneHandInv, OnceInHand
  <2>5. ASSUME NEW c \in Containers PROVE OneHand(c)'
    <3>1. OneHand(c)
      BY DEF OneHandInv
    <3>2. Retried(c)' <=> Retried(c) /\ c # d
      BY <2>2, <2>3, <2>4 DEF Retried
    <3>3. CASE c = d
      <4>1. Retried(d)
        BY <2>2 DEF Retried
      <4> QED
        BY <1>1, <2>2, <3>1, <3>2, <3>3, <4>1 DEF OneHand, Created, Recovered
    <3>4. CASE c # d
      BY <1>1, <2>2, <3>1, <3>2, <3>4 DEF OneHand, Created, Recovered
    <3> QED
      BY <3>3, <3>4
  <2>6. OnceInHand'
    BY <1>1, <2>3, <2>4 DEF OneHandInv, OnceInHand
  <2> QED
    BY <1>2, <2>5, <2>6 DEF OneHandInv
<1>9. CASE RetryEnd
  <2>1. retry'.todo = {} /\ retry'.plan = retry.plan /\ rec' = rec
    BY <1>9, RetrySteps DEF RetryEnd
  <2> QED
    BY <1>4, <2>1 DEF Retried
<1> QED
  BY <1>5, <1>6, <1>7, <1>8, <1>9 DEF Retry

\* A late kill stops records under anybody's hands, too (tolerance.go:118-150).
LEMMA KillKeepsHand ==
  ASSUME TypeInv, OneHandInv, "preempt" \notin Faults, NEW n \in Nodes,
         LateHeartbeat(n) \/ Kill(n)
  PROVE  OneHandInv'
<1>1. UNCHANGED <<create, recovery, retry>>
  BY DEF Kill, LateHeartbeat, KillContainers, KillList, KillListInTime, KillStop, NodeBack
<1>2. kill \in [Nodes -> Kills]
  BY DEF TypeInv
<1>3. ASSUME NEW h, KillGoes(n, h)
      PROVE  kill'[n] = h /\ \A m \in Nodes : m # n => kill'[m] = kill[m]
  BY <1>2, <1>3 DEF KillGoes
<1>4. ListedDead'
  <2>1. \E h : KillGoes(n, h) /\ (h.pc = "stop" => kill[n].pc = "stop" \/ KillListInTime(n))
    BY KillSteps DEF Kill, KillListInTime, KillStop
  <2>2. KillListInTime(n) => recovery.pc # "list" \/ recovery.node # n
    BY DEF KillListInTime
  <2>3. status' = status \/ (kill[n].pc = "stop" /\ status' = [status EXCEPT ![n] = "ALIVE"])
    BY DEF Kill, LateHeartbeat, KillContainers, KillList, KillListInTime, KillStop, NodeBack
  <2>4. recovery.pc = "list" => /\ recovery.node \in Nodes /\ recovery.node \notin Alive
                                /\ kill[recovery.node].pc # "stop"
    BY DEF OneHandInv, ListedDead, TypeInv, RecoveryForm
  <2>5. recovery.pc = "list" => recovery.node \notin Alive'
    BY <2>3, <2>4 DEF Alive, TypeInv
  <2> QED
    BY <1>1, <1>3, <2>1, <2>2, <2>4, <2>5 DEF ListedDead
<1>5. CASE KillStop(n)
  BY <1>1, <1>4, <1>5, KillSteps, OneHandStopped
<1>6. CASE rec' = rec
  BY <1>1, <1>4, <1>6, OneHandKept DEF OneHandInv, OnceInHand
<1> QED
  BY <1>5, <1>6 DEF Kill, LateHeartbeat, KillContainers, KillList, KillListInTime, NodeBack

\* A recovery starts with nothing in hand.
LEMMA DeathKeepsHand ==
  ASSUME TypeInv, OneHandInv, NEW n \in Nodes, MarkDead(n)
  PROVE  OneHandInv'
<1>1. UNCHANGED <<rec, create, retry, kill>> /\ recovery.pc = "idle" /\ status[n] = "ALIVE"
  BY DEF MarkDead
<1>2. /\ recovery'.pc = "list" /\ recovery'.node = n /\ recovery'.todo = {}
      /\ recovery'.new = None
  BY RecoverySteps
<1>3. ListedDead'
  BY <1>1, <1>2 DEF MarkDead, ListedDead, Alive, TypeInv, KillForm
<1>4. ASSUME NEW c \in Containers PROVE OneHand(c)'
  <2>1. OneHand(c) /\ ~ Recovered(c)'
    BY <1>2 DEF OneHandInv, Recovered
  <2> QED
    BY <1>1, <1>2, <2>1, Constants DEF OneHand, Created, Retried
<1>5. OnceInHand'
  BY <1>1, <1>2 DEF OneHandInv, OnceInHand
<1> QED
  BY <1>3, <1>4, <1>5 DEF OneHandInv

\* No step takes a record in hand that another goroutine has in hand.
LEMMA StepHand ==
  ASSUME TypeInv, PlansAlive, OneHandInv, "preempt" \notin Faults, [Next]_vars
  PROVE  OneHandInv'
<1>1. ASSUME UNCHANGED <<status, rec, create, recovery, retry, kill>>
      PROVE  OneHandInv'
  BY <1>1, OneHandKept DEF OneHandInv, ListedDead, OnceInHand, Alive
<1>2. CASE UNCHANGED vars
  BY <1>1, <1>2 DEF vars
<1>3. ASSUME NEW n \in Nodes, WorkerRestart(n) \/ \E c \in Containers : LateStart(n, c)
      PROVE  OneHandInv'
  BY <1>1, <1>3 DEF WorkerRestart, LateStart
<1>4. ASSUME NEW x \in orphans, LateKill(x) PROVE OneHandInv'
  BY <1>1, <1>4, LateKillRemoves
<1> QED
  BY <1>2, <1>3, <1>4, CreateKeepsHand, DeleteKeepsHand, RecoveryKeepsHand, RetryKeepsHand,
     KillKeepsHand, DeathKeepsHand DEF Next, MarkDeadInTime

\* Nothing is in hand when the program starts.
LEMMA InitHand ==
  ASSUME Init
  PROVE  OneHandInv
<1>1. /\ recovery.pc = "idle" /\ recovery.todo = {} /\ recovery.new = None
      /\ retry.todo = {} /\ DOMAIN retry.plan = {}
  BY DEF Init, NoPlan
<1>2. ASSUME NEW c \in Containers PROVE OneHand(c)
  <2>1. rec[c].st = "NONE" /\ create[SvcOf(c)].pc = "new"
    BY ServiceOf DEF Init
  <2> QED
    BY <1>1, <2>1 DEF OneHand, Created, Recovered, Retried
<1> QED
  BY <1>1, <1>2 DEF OneHandInv, ListedDead, OnceInHand

-----------------------------------------------------------------------------
(* What runs on ALIVE nodes runs where it belongs. *)

\* A replica belongs where its record says, unless somebody has it in hand: then where he is
\* about to record it.
LEMMA WhereItBelongs ==
  ASSUME TypeInv, NEW c \in Containers, NEW n \in Nodes, OneHand(c), BelongsOn(n, c)
  PROVE  \/ /\ rec[c].st \in {"RUNNING", "STOPPED"} /\ rec[c].node = n
            /\ ~ InHands(c) /\ recovery.new # c
         \/ /\ Created(c) /\ ~ Recovered(c) /\ ~ Retried(c) /\ recovery.new # c
            /\ create[SvcOf(c)].pc = "record" /\ create[SvcOf(c)].out = "ok"
            /\ create[SvcOf(c)].plan[create[SvcOf(c)].i] = n
         \/ /\ rec[c].st = "NONE" /\ ~ InHands(c)
            /\ recovery.pc \in {"record", "add"} /\ recovery.new = c /\ recovery.node = n
         \/ /\ Retried(c) /\ ~ Created(c) /\ ~ Recovered(c) /\ recovery.new # c
            /\ retry.pc = "record" /\ retry.out = "ok" /\ retry.cur = c /\ retry.plan[c] = n
<1>1. retry.pc = "record" => retry.cur \in DOMAIN retry.plan
  BY DEF TypeInv, RetryForm
<1>2. retry.pc = "record" /\ retry.cur = c => Retried(c)
  BY <1>1 DEF Retried
<1> QED
  BY <1>2 DEF BelongsOn, InHands, OneHand, Created

\* What touches neither the record nor the hands of a replica.
LEMMA BelongsKept ==
  ASSUME NEW c \in Containers, NEW n \in Nodes, BelongsOn(n, c), rec'[c] = rec[c],
         create'[SvcOf(c)] = create[SvcOf(c)], UNCHANGED <<recovery, retry>>
  PROVE  BelongsOn(n, c)'
BY DEF BelongsOn, InHands, Created, Recovered, Retried

\* A step that declares no node ALIVE: what is left to show of it.
LEMMA CopiesStep ==
  ASSUME RunsInv, late' = late, Alive' \subseteq Alive,
         \A n \in Alive, c \in Containers : OneCopy(n, c) => OneCopy(n, c)',
         \A n \in Nodes : Emptied(n)'
  PROVE  RunsInv'
BY DEF RunsInv

\* A step that starts and removes nothing.
LEMMA CopiesUntouched ==
  ASSUME RunsInv, UNCHANGED <<docker, late, kill>>, Alive' \subseteq Alive,
         \A n \in Alive, c \in Containers : BelongsOn(n, c) => BelongsOn(n, c)'
  PROVE  RunsInv'
<1>1. \A n \in Nodes : Emptied(n)'
  BY DEF RunsInv, Emptied
<1>2. ASSUME NEW n \in Alive, NEW c \in Containers, OneCopy(n, c) PROVE OneCopy(n, c)'
  BY <1>2 DEF OneCopy
<1> QED
  BY <1>1, <1>2, CopiesStep

\* A replica that is started runs once, because it belonged nowhere.
LEMMA StartedCopy ==
  ASSUME TypeInv, RunsInv, UNCHANGED <<status, kill>>, "timeout" \notin Faults,
         NEW m \in Alive, NEW d \in Containers, NEW out \in Outcomes,
         StartContainer(m, d, out), ~ BelongsOn(m, d), out = "ok" => BelongsOn(m, d)',
         \A n \in Alive, c \in Containers : BelongsOn(n, c) => BelongsOn(n, c)'
  PROVE  RunsInv'
<1>1. m \in Nodes /\ Alive' = Alive /\ Alive \subseteq Nodes
  BY DEF Alive
<1>2. /\ late' = late
      /\ \A n \in Nodes, c \in Containers :
           docker'[n][c] = IF out = "ok" /\ n = m /\ c = d THEN docker[n][c] + 1
                                                           ELSE docker[n][c]
  BY <1>1, DockerStarted
<1>3. docker[m][d] = 0
  BY DEF RunsInv, OneCopy
<1>4. ASSUME NEW n \in Alive, NEW c \in Containers, OneCopy(n, c) PROVE OneCopy(n, c)'
  <2>1. CASE out = "ok" /\ n = m /\ c = d
    <3>1. docker'[n][c] = 1
      BY <1>1, <1>2, <1>3, <2>1
    <3> QED
      BY <2>1, <3>1 DEF OneCopy
  <2>2. CASE ~ (out = "ok" /\ n = m /\ c = d)
    <3>1. docker'[n][c] = docker[n][c]
      BY <1>1, <1>2, <2>2
    <3> QED
      BY <1>4, <3>1 DEF OneCopy
  <2> QED
    BY <2>1, <2>2
<1>5. ASSUME NEW n \in Nodes PROVE Emptied(n)'
  <2>1. kill[n].pc # "off" => n # m
    BY DEF TypeInv, KillForm, Alive
  <2> QED
    BY <1>2, <2>1 DEF RunsInv, Emptied
<1> QED
  BY <1>1, <1>2, <1>4, <1>5, CopiesStep

\* Containers are removed from a worker that nothing is removed from otherwise.
LEMMA RemovedCopies ==
  ASSUME TypeInv, RunsInv, NEW m \in Nodes, NEW ss, RemoveDocker(m, ss),
         UNCHANGED <<status, rec, create, recovery, retry, kill, late>>
  PROVE  RunsInv'
<1>1. \A n \in Nodes, c \in Containers : docker'[n][c] \in {0, docker[n][c]}
  BY DockerRemoved
<1>2. Alive' = Alive /\ Alive \subseteq Nodes
  BY DEF Alive
<1>3. ASSUME NEW n \in Alive, NEW c \in Containers, OneCopy(n, c) PROVE OneCopy(n, c)'
  <2>1. BelongsOn(n, c) => BelongsOn(n, c)'
    BY <1>2, ServiceOf, BelongsKept
  <2> QED
    BY <1>1, <1>2, <1>3, <2>1 DEF OneCopy
<1>4. \A n \in Nodes : Emptied(n)'
  BY <1>1 DEF RunsInv, Emptied
<1> QED
  BY <1>2, <1>3, <1>4, CopiesStep

\* A record that is STOPPED stays on its node.
LEMMA StoppedBelongs ==
  ASSUME TypeInv, NEW c \in Containers, NEW n \in Nodes, BelongsOn(n, c),
         NEW d \in Containers, SetContainerStatus(d, "STOPPED"),
         UNCHANGED <<create, recovery, retry>>
  PROVE  BelongsOn(n, c)'
<1>1. "STOPPED" \in Statuses
  BY DEF Statuses
<1>2. /\ rec'[d].st = IF rec[d].st = "NONE" THEN "NONE" ELSE "STOPPED"
      /\ rec'[d].node = rec[d].node
      /\ \A e \in Containers : e # d => rec'[e] = rec[e]
  BY <1>1, RecordSet
<1>3. CASE c = d
  BY <1>2, <1>3 DEF BelongsOn, InHands, Created, Recovered, Retried
<1>4. CASE c # d
  BY <1>2, <1>4, ServiceOf, BelongsKept
<1> QED
  BY <1>3, <1>4

\* createService starts what it has in hand and records where (server.go:328-401).
LEMMA CreateKeepsCopies ==
  ASSUME TypeInv, PlansAlive, OneHandInv, RunsInv, "timeout" \notin Faults,
         NEW s \in Services, Create(s)
  PROVE  RunsInv'
<1>1. UNCHANGED <<status, recovery, retry, kill>>
  BY DEF Create, AddService, CreatePlan, CreatePending, CreateAdd, CreateStart, CreateRecord
<1>2. Alive' = Alive /\ Alive \subseteq Nodes
  BY <1>1 DEF Alive
<1>3. create \in [Services -> Creates] /\ create[s] \in Creates /\ CreateForm(s)
  BY DEF TypeInv
<1>4. ASSUME NEW h, CreateGoes(s, h)
      PROVE  create'[s] = h /\ \A x \in Services : x # s => create'[x] = create[x]
  BY <1>3, <1>4 DEF CreateGoes
<1>5. ASSUME NEW h, CreateGoes(s, h), NEW c \in Containers, NEW n \in Nodes, BelongsOn(n, c),
             SvcOf(c) # s, rec'[c] = rec[c]
      PROVE  BelongsOn(n, c)'
  BY <1>1, <1>4, <1>5, ServiceOf, BelongsKept
<1>6. CASE AddService(s) \/ CreatePlan(s)
  <2>1. PICK h : CreateGoes(s, h) /\ h.pc \in {"plan", "pending", "add"}
    BY <1>6, CreateSteps
  <2>2. UNCHANGED <<rec, docker, late>> /\ create[s].pc \in {"new", "plan"}
    BY <1>6 DEF AddService, CreatePlan, workers
  <2>3. ASSUME NEW n \in Alive, NEW c \in Containers, BelongsOn(n, c) PROVE BelongsOn(n, c)'
    <3>1. CASE SvcOf(c) = s
      BY <1>1, <1>4, <2>1, <2>2, <2>3, <3>1
         DEF BelongsOn, InHands, Created, Recovered, Retried
    <3> QED
      BY <1>2, <1>5, <2>1, <2>2, <2>3, <3>1
  <2> QED
    BY <1>1, <1>2, <2>2, <2>3, CopiesUntouched
<1>7. CASE CreatePending(s) \/ CreateAdd(s)
  <2>1. PICK h : CreateGoes(s, h) /\ (h.pc = "start" => h.cur = Fresh(s)) /\ h.pc # "record"
    BY <1>7, CreateSteps
  <2>2. PICK d : d = Fresh(s)
    OBVIOUS
  <2>3. /\ d \in Containers /\ SvcOf(d) = s /\ rec[d].st = "NONE" /\ recovery.new # d
        /\ UNCHANGED <<docker, late>> /\ create[s].pc \in {"pending", "add"}
    BY <1>7, <2>2, FreshForm DEF CreatePending, CreateAdd, workers
  <2>4. \A c \in Containers : c # d => rec'[c] = rec[c]
    <3>1. PICK n \in MaybeNodes, st \in {"PENDING", "SCHEDULED"} : AddContainer(d, n, st)
      BY <1>3, <1>7, <2>2 DEF CreatePending, CreateAdd, CreateForm, MaybeNodes
    <3>2. st \in Statuses
      BY DEF Statuses
    <3> QED
      BY <2>3, <3>1, <3>2, RecordAdded
  <2>5. ASSUME NEW n \in Alive, NEW c \in Containers, BelongsOn(n, c) PROVE BelongsOn(n, c)'
    <3>1. c # d
      <4>1. OneHand(d)
        BY <2>3 DEF OneHandInv
      <4>2. ~ Created(d) /\ ~ Retried(d)
        BY <2>3, <4>1 DEF OneHand
      <4> QED
        BY <1>2, <2>3, <2>5, <4>1, <4>2, WhereItBelongs
    <3>2. CASE SvcOf(c) = s
      <4>1. rec'[c] = rec[c]
        BY <2>4, <3>1
      <4>2. ~ Created(c)'
        BY <1>4, <2>1, <2>2, <3>1, <3>2 DEF Created
      <4> QED
        BY <1>1, <2>3, <2>5, <3>2, <4>1, <4>2 DEF BelongsOn, InHands, Recovered, Retried
    <3> QED
      BY <1>2, <1>5, <2>1, <2>4, <2>5, <3>1, <3>2
  <2> QED
    BY <1>1, <1>2, <2>3, <2>5, CopiesUntouched
<1>8. CASE CreateStart(s)
  <2>1. PICK h \in Creates, out \in Outcomes :
          /\ CreateGoes(s, h) /\ h.pc = "record" /\ h.out = out
          /\ h.i = create[s].i /\ h.plan = create[s].plan /\ h.cur = create[s].cur
          /\ StartContainer(create[s].plan[create[s].i], create[s].cur, out)
    BY <1>8, CreateStartStep
  <2>2. PICK m, d : m = create[s].plan[create[s].i] /\ d = create[s].cur
    OBVIOUS
  <2>3. /\ create[s].pc = "start" /\ rec' = rec
        /\ d \in Containers /\ SvcOf(d) = s /\ create[s].i \in 1..Replicas
    BY <1>3, <1>8, <2>2 DEF CreateStart, CreateForm
  <2>4. m \in Alive /\ m \in Nodes
    BY <2>2, <2>3, Constants DEF PlansAlive, Alive
  <2>5. OneHand(d) /\ Created(d)
    BY <2>2, <2>3 DEF OneHandInv, Created
  <2>6. ~ BelongsOn(m, d)
    BY <2>3, <2>4, <2>5, WhereItBelongs DEF InHands, OneHand
  <2>7. out = "ok" => BelongsOn(m, d)'
    BY <1>4, <2>1, <2>2, <2>3 DEF BelongsOn
  <2>8. ASSUME NEW n \in Alive, NEW c \in Containers, BelongsOn(n, c) PROVE BelongsOn(n, c)'
    <3>1. CASE SvcOf(c) = s
      <4>1. Created(c)' <=> Created(c)
        BY <1>4, <2>1, <2>3, <3>1 DEF Created
      <4> QED
        BY <1>1, <2>3, <2>8, <3>1, <4>1 DEF BelongsOn, InHands, Recovered, Retried
    <3> QED
      BY <1>2, <1>5, <2>1, <2>3, <2>8, <3>1
  <2> QED
    BY <1>1, <2>1, <2>2, <2>3, <2>4, <2>6, <2>7, <2>8, StartedCopy
<1>9. CASE CreateRecord(s)
  <2>1. PICK h : CreateGoes(s, h) /\ h.pc \in {"done", "add"}
    BY <1>9, CreateSteps
  <2>2. PICK d, m : d = create[s].cur /\ m = create[s].plan[create[s].i]
    OBVIOUS
  <2>3. /\ d \in Containers /\ SvcOf(d) = s
        /\ create[s].pc = "record" /\ UNCHANGED <<docker, late>>
    BY <1>3, <1>9, <2>2 DEF CreateForm, CreateRecord, workers
  <2>4. OneHand(d) /\ Created(d)
    BY <2>2, <2>3 DEF OneHandInv, Created
  <2>5. /\ create[s].out = "ok" => rec'[d].st = "RUNNING" /\ rec'[d].node = m
        /\ \A c \in Containers : c # d => rec'[c] = rec[c]
    BY <1>9, <2>2, <2>4, CreateRecorded DEF OneHand
  <2>6. \A c \in Containers : SvcOf(c) = s => ~ Created(c)' /\ (c # d => ~ Created(c))
    BY <1>4, <2>1, <2>2 DEF Created
  <2>7. ASSUME NEW n \in Alive, NEW c \in Containers, BelongsOn(n, c) PROVE BelongsOn(n, c)'
    <3>1. CASE c = d
      <4>1. create[s].out = "ok" /\ n = m /\ ~ Recovered(d) /\ ~ Retried(d)
        BY <1>2, <2>2, <2>3, <2>4, <2>7, <3>1, WhereItBelongs DEF InHands
      <4>2. ~ InHands(d)'
        BY <1>1, <2>3, <2>6, <4>1 DEF InHands, Recovered, Retried
      <4> QED
        BY <2>5, <3>1, <4>1, <4>2 DEF BelongsOn
    <3>2. CASE c # d /\ SvcOf(c) = s
      <4>1. rec'[c] = rec[c] /\ ~ Created(c)' /\ create[s].cur # c
        BY <2>2, <2>5, <2>6, <3>2
      <4> QED
        BY <1>1, <2>7, <3>2, <4>1 DEF BelongsOn, InHands, Recovered, Retried
    <3>3. CASE SvcOf(c) # s
      BY <1>2, <1>5, <2>1, <2>3, <2>5, <2>7, <3>3
    <3> QED
      BY <3>1, <3>2, <3>3
  <2> QED
    BY <1>1, <1>2, <2>3, <2>7, CopiesUntouched
<1> QED
  BY <1>6, <1>7, <1>8, <1>9 DEF Create

\* A deletion removes containers and stops records (server.go:380-401).
LEMMA DeleteKeepsCopies ==
  ASSUME TypeInv, RunsInv, NEW s \in Services, Delete(s)
  PROVE  RunsInv'
<1>1. UNCHANGED <<status, late, create, recovery, retry, kill>>
  BY DEF Delete, DeleteList, DeleteKill, DeleteStop, RemoveService, workers
<1>2. Alive' = Alive /\ Alive \subseteq Nodes
  BY <1>1 DEF Alive
<1>3. CASE DeleteList(s) \/ RemoveService(s)
  <2>1. UNCHANGED <<rec, docker>>
    BY <1>3 DEF DeleteList, RemoveService, workers
  <2> QED
    BY <1>1, <1>2, <2>1, ServiceOf, BelongsKept, CopiesUntouched
<1>4. CASE DeleteKill(s)
  <2>1. rec' = rec
    BY <1>4 DEF DeleteKill
  <2>2. CASE docker' = docker
    BY <1>1, <1>2, <2>1, <2>2, ServiceOf, BelongsKept, CopiesUntouched
  <2>3. ASSUME NEW n \in Nodes, RemoveDocker(n, {s}) PROVE RunsInv'
    BY <1>1, <2>1, <2>3, RemovedCopies
  <2> QED
    BY <1>4, <2>2, <2>3, DeleteSteps
<1>5. CASE DeleteStop(s)
  <2>1. docker' = docker
    BY <1>5 DEF DeleteStop, workers
  <2>2. PICK d \in Containers : SetContainerStatus(d, "STOPPED")
    BY <1>5, DeleteSteps
  <2>3. \A n \in Alive, c \in Containers : BelongsOn(n, c) => BelongsOn(n, c)'
    BY <1>1, <1>2, <2>2, StoppedBelongs
  <2> QED
    BY <1>1, <1>2, <2>1, <2>3, CopiesUntouched
<1> QED
  BY <1>3, <1>4, <1>5 DEF Delete

\* A recovery takes nothing in hand that runs on an ALIVE node, and starts what has no record
\* (main.go:124-173).
LEMMA RecoveryKeepsCopies ==
  ASSUME TypeInv, PlansAlive, OneHandInv, RunsInv, "timeout" \notin Faults, Recovery
  PROVE  RunsInv'
<1>1. UNCHANGED <<status, create, retry, kill>>
  BY DEF Recovery, RecoveryList, RecoveryNext, RecoveryPlan, RecoveryStart, RecoveryRecord,
         RecoveryRecordInTime, RecoveryAdd, RecoveryEnd
<1>2. Alive' = Alive /\ Alive \subseteq Nodes
  BY <1>1 DEF Alive
<1>3. recovery \in Recoveries /\ RecoveryForm /\ None \notin Containers
  BY Constants DEF TypeInv
<1>4. {"RESCHEDULING", "STOPPED", "PENDING", "RUNNING"} \subseteq Statuses
  BY DEF Statuses
<1>5. CASE RecoveryList
  <2>1. /\ recovery'.pc = "next" /\ recovery'.todo = ActiveOn(recovery.node)
        /\ recovery.pc = "list" /\ UNCHANGED <<rec, docker, late>>
    BY <1>5, RecoverySteps DEF RecoveryList, workers
  <2>2. recovery.node \notin Alive
    BY <2>1 DEF OneHandInv, ListedDead
  <2>3. ASSUME NEW n \in Alive, NEW c \in Containers, BelongsOn(n, c) PROVE BelongsOn(n, c)'
    <3>1. rec[c].node = n => ~ Recovered(c)'
      BY <2>1, <2>2 DEF Recovered, ActiveOn
    <3> QED
      BY <1>1, <2>1, <2>3, <3>1 DEF BelongsOn, InHands, Created, Retried
  <2> QED
    BY <1>1, <1>2, <2>1, <2>3, CopiesUntouched
<1>6. ASSUME NEW d \in Containers, RecoveryNext(d)
      PROVE  RunsInv'
  <2>1. /\ recovery'.pc = "plan" /\ recovery'.cur = d
        /\ recovery'.todo = recovery.todo \ {d}
        /\ recovery.pc = "next" /\ d \in recovery.todo
        /\ SetContainerStatus(d, "RESCHEDULING") /\ UNCHANGED <<docker, late>>
    BY <1>6, RecoverySteps DEF RecoveryNext, workers
  <2>2. \A c \in Containers : c # d => rec'[c] = rec[c]
    BY <1>4, <2>1, RecordSet
  <2>3. OneHand(d) /\ Recovered(d)
    BY <2>1 DEF OneHandInv, Recovered
  <2>4. ASSUME NEW n \in Alive, NEW c \in Containers, BelongsOn(n, c) PROVE BelongsOn(n, c)'
    <3>1. c # d
      BY <1>2, <2>3, <2>4, WhereItBelongs DEF InHands, OneHand
    <3>2. Recovered(c)' <=> Recovered(c)
      BY <2>1 DEF Recovered
    <3> QED
      BY <1>1, <2>1, <2>2, <2>4, <3>1, <3>2 DEF BelongsOn, InHands, Created, Retried
  <2> QED
    BY <1>1, <1>2, <2>1, <2>4, CopiesUntouched
<1>7. CASE RecoveryPlan
  <2>1. /\ recovery'.todo = recovery.todo /\ recovery.pc = "plan"
        /\ recovery'.pc = "next" \/ recovery'.cur = recovery.cur
        /\ UNCHANGED <<rec, docker, late>>
    BY <1>7, RecoverySteps DEF RecoveryPlan, workers
  <2>2. ASSUME NEW n \in Alive, NEW c \in Containers, BelongsOn(n, c) PROVE BelongsOn(n, c)'
    <3>1. Recovered(c)' => Recovered(c)
      BY <2>1 DEF Recovered
    <3> QED
      BY <1>1, <2>1, <2>2, <3>1 DEF BelongsOn, InHands, Created, Retried
  <2> QED
    BY <1>1, <1>2, <2>1, <2>2, CopiesUntouched
<1>8. CASE RecoveryStart
  <2>1. PICK out \in Outcomes :
          /\ StartContainer(recovery.node, recovery.new, out)
          /\ recovery'.pc = "record" /\ recovery'.todo = recovery.todo
          /\ recovery'.cur = recovery.cur /\ recovery'.node = recovery.node
          /\ out = "ok" => recovery'.new = recovery.new
    BY <1>8, RecoveryStartStep
  <2>2. PICK m, d : m = recovery.node /\ d = recovery.new
    OBVIOUS
  <2>3. /\ recovery.pc = "start" /\ rec' = rec /\ d \in Containers
    BY <1>3, <1>8, <2>2 DEF RecoveryStart, RecoveryForm
  <2>4. m \in Alive /\ m \in Nodes
    BY <1>2, <1>3, <2>2, <2>3 DEF PlansAlive
  <2>5. OneHand(d) /\ rec[d].st = "NONE"
    BY <2>2, <2>3 DEF OneHandInv, OneHand
  <2>6. ~ BelongsOn(m, d)
    BY <2>2, <2>3, <2>4, <2>5, WhereItBelongs DEF OneHand
  <2>7. out = "ok" => BelongsOn(m, d)'
    BY <2>1, <2>2 DEF BelongsOn
  <2>8. ASSUME NEW n \in Alive, NEW c \in Containers, BelongsOn(n, c) PROVE BelongsOn(n, c)'
    <3>1. Recovered(c)' <=> Recovered(c)
      BY <2>1, <2>3 DEF Recovered
    <3> QED
      BY <1>1, <2>3, <2>8, <3>1 DEF BelongsOn, InHands, Created, Retried
  <2> QED
    BY <1>1, <2>1, <2>2, <2>3, <2>4, <2>6, <2>7, <2>8, StartedCopy
<1>9. CASE RecoveryRecord
  <2>1. PICK d : d = recovery.cur
    OBVIOUS
  <2>2. /\ recovery'.pc = IF recovery.out = "ok" THEN "add" ELSE "next"
        /\ recovery'.todo = recovery.todo /\ recovery'.cur = d /\ recovery'.node = recovery.node
        /\ recovery'.new = recovery.new /\ recovery.pc = "record" /\ d \in Containers
        /\ SetContainerStatus(d, IF recovery.out = "ok" THEN "STOPPED" ELSE "PENDING")
        /\ UNCHANGED <<docker, late>>
    BY <1>3, <1>9, <2>1, RecoverySteps DEF RecoveryRecord, RecoveryForm, workers
  <2>3. \A c \in Containers : c # d => rec'[c] = rec[c]
    <3>1. PICK st \in {"STOPPED", "PENDING"} : SetContainerStatus(d, st)
      BY <2>2
    <3> QED
      BY <1>4, <2>2, <3>1, RecordSet
  <2>4. OneHand(d) /\ Recovered(d)
    BY <2>1, <2>2 DEF OneHandInv, Recovered
  <2>5. recovery.out # "ok" => recovery.new = None
    BY <1>3, <2>2 DEF RecoveryForm
  <2>6. ASSUME NEW n \in Alive, NEW c \in Containers, BelongsOn(n, c) PROVE BelongsOn(n, c)'
    <3>1. c # d
      BY <1>2, <2>4, <2>6, WhereItBelongs DEF InHands, OneHand
    <3>2. Recovered(c)' <=> Recovered(c)
      BY <2>1, <2>2, <3>1 DEF Recovered
    <3> QED
      BY <1>1, <1>3, <2>2, <2>3, <2>5, <2>6, <3>1, <3>2 DEF BelongsOn, InHands, Created, Retried
  <2> QED
    BY <1>1, <1>2, <2>2, <2>6, CopiesUntouched
<1>10. CASE RecoveryAdd
  <2>1. PICK d, m : d = recovery.new /\ m = recovery.node
    OBVIOUS
  <2>2. /\ recovery'.pc = "next" /\ recovery'.todo = recovery.todo /\ recovery.pc = "add"
        /\ d \in Containers /\ m \in MaybeNodes /\ AddContainer(d, m, "RUNNING")
        /\ UNCHANGED <<docker, late>>
    BY <1>3, <1>10, <2>1, RecoverySteps DEF RecoveryAdd, RecoveryForm, MaybeNodes, workers
  <2>3. rec'[d].st = "RUNNING" /\ rec'[d].node = m
    BY <1>4, <2>2, AddedStatus
  <2>4. \A c \in Containers : c # d => rec'[c] = rec[c]
    BY <1>4, <2>2, RecordAdded
  <2>5. ASSUME NEW n \in Alive, NEW c \in Containers, BelongsOn(n, c) PROVE BelongsOn(n, c)'
    <3>1. Recovered(c)' => Recovered(c)
      BY <2>2 DEF Recovered
    <3>2. CASE c = d
      <4>1. OneHand(d)
        BY <2>2 DEF OneHandInv
      <4>2. n = m /\ ~ InHands(d)
        BY <1>2, <2>1, <2>5, <3>2, <4>1, WhereItBelongs
      <4>3. ~ InHands(d)'
        BY <1>1, <3>1, <3>2, <4>2 DEF InHands, Created, Retried
      <4> QED
        BY <2>3, <3>2, <4>2, <4>3 DEF BelongsOn
    <3>3. CASE c # d
      BY <1>1, <2>1, <2>4, <2>5, <3>1, <3>3 DEF BelongsOn, InHands, Created, Retried
    <3> QED
      BY <3>2, <3>3
  <2> QED
    BY <1>1, <1>2, <2>2, <2>5, CopiesUntouched
<1>11. CASE RecoveryEnd
  <2>1. /\ recovery'.pc = "idle" /\ recovery'.todo = {} /\ recovery.pc = "next"
        /\ UNCHANGED <<rec, docker, late>>
    BY <1>11, RecoverySteps DEF RecoveryEnd, workers
  <2>2. ASSUME NEW n \in Alive, NEW c \in Containers, BelongsOn(n, c) PROVE BelongsOn(n, c)'
    <3>1. Recovered(c)' => Recovered(c)
      BY <2>1 DEF Recovered
    <3> QED
      BY <1>1, <2>1, <2>2, <3>1 DEF BelongsOn, InHands, Created, Retried
  <2> QED
    BY <1>1, <1>2, <2>1, <2>2, CopiesUntouched
<1> QED
  BY <1>5, <1>6, <1>7, <1>8, <1>9, <1>10, <1>11 DEF Recovery, RecoveryRecordInTime

\* The retry loop starts what it has in hand and records where (main.go:177-219).
LEMMA RetryKeepsCopies ==
  ASSUME TypeInv, PlansAlive, OneHandInv, RunsInv, "timeout" \notin Faults, Retry
  PROVE  RunsInv'
<1>1. UNCHANGED <<status, create, recovery, kill>>
  BY DEF Retry, RetryList, RetryPlan, RetryStart, RetryRecord, RetryEnd
<1>2. Alive' = Alive /\ Alive \subseteq Nodes
  BY <1>1 DEF Alive
<1>3. retry \in Retries /\ RetryForm
  BY DEF TypeInv
<1>4. ASSUME UNCHANGED <<rec, docker, late>>, retry.pc # "record",
             \A c \in Containers : Retried(c)' => Retried(c) \/ rec[c].st = "PENDING"
      PROVE  RunsInv'
  <2>1. ASSUME NEW n \in Alive, NEW c \in Containers, BelongsOn(n, c) PROVE BelongsOn(n, c)'
    <3>1. Retried(c)' => Retried(c) \/ rec[c].st = "PENDING"
      BY <1>4
    <3> QED
      BY <1>1, <1>4, <2>1, <3>1 DEF BelongsOn, InHands, Created, Recovered
  <2> QED
    BY <1>1, <1>2, <1>4, <2>1, CopiesUntouched
<1>5. CASE RetryList
  <2>1. retry'.todo = Pending /\ retry'.plan = retry.plan
    BY <1>5, RetrySteps
  <2>2. UNCHANGED <<rec, docker, late>> /\ retry.pc = "idle"
    BY <1>5 DEF RetryList, workers
  <2>3. \A c \in Containers : Retried(c)' => Retried(c) \/ rec[c].st = "PENDING"
    BY <2>1 DEF Retried, Pending
  <2> QED
    BY <1>4, <2>2, <2>3
<1>6. ASSUME NEW s \in Services, RetryPlan(s)
      PROVE  RunsInv'
  <2>1. /\ retry'.todo \subseteq retry.todo
        /\ retry'.plan = retry.plan \/ DOMAIN retry'.plan \subseteq retry.todo
    BY <1>6, RetrySteps
  <2>2. UNCHANGED <<rec, docker, late>> /\ retry.pc = "group"
    BY <1>6 DEF RetryPlan, workers
  <2>3. \A c \in Containers : Retried(c)' => Retried(c)
    BY <2>1 DEF Retried
  <2> QED
    BY <1>4, <2>2, <2>3
<1>7. ASSUME NEW d \in Containers, RetryStart(d)
      PROVE  RunsInv'
  <2>1. PICK out \in Outcomes :
          /\ d \in DOMAIN retry.plan
          /\ StartContainer(retry.plan[d], d, out)
          /\ retry'.pc = "record" /\ retry'.todo = retry.todo /\ retry'.plan = retry.plan
          /\ retry'.cur = d /\ retry'.out = out
    BY <1>7, RetryStartSteps
  <2>2. PICK m : m = retry.plan[d]
    OBVIOUS
  <2>3. rec' = rec /\ retry.pc = "start"
    BY <1>7 DEF RetryStart
  <2>4. m \in Alive /\ m \in Nodes
    BY <2>1, <2>2 DEF PlansAlive, Alive
  <2>5. OneHand(d) /\ Retried(d)
    BY <2>1 DEF OneHandInv, Retried
  <2>6. ~ BelongsOn(m, d)
    BY <2>3, <2>4, <2>5, WhereItBelongs DEF InHands, OneHand
  <2>7. out = "ok" => BelongsOn(m, d)'
    BY <2>1, <2>2 DEF BelongsOn
  <2>8. ASSUME NEW n \in Alive, NEW c \in Containers, BelongsOn(n, c) PROVE BelongsOn(n, c)'
    BY <1>1, <2>1, <2>3, <2>8 DEF BelongsOn, InHands, Created, Recovered, Retried
  <2> QED
    BY <1>1, <2>1, <2>2, <2>4, <2>6, <2>7, <2>8, StartedCopy
<1>8. CASE RetryRecord
  <2>1. PICK d : d = retry.cur
    OBVIOUS
  <2>2. /\ d \in Containers /\ d \in DOMAIN retry.plan
        /\ retry.out = "ok" => rec'[d].st = "RUNNING" /\ rec'[d].node = retry.plan[d]
        /\ \A c \in Containers : c # d => rec'[c] = rec[c]
        /\ retry.pc = "record" /\ UNCHANGED <<docker, late>>
    BY <1>8, <2>1, RetryRecorded DEF RetryRecord, workers
  <2>3. retry'.todo = retry.todo /\ DOMAIN retry'.plan = DOMAIN retry.plan \ {d}
    BY <1>8, <2>1, RetryStartSteps
  <2>4. OneHand(d) /\ Retried(d) /\ d \notin retry.todo
    BY <2>2 DEF OneHandInv, OnceInHand, Retried
  <2>5. ASSUME NEW n \in Alive, NEW c \in Containers, BelongsOn(n, c) PROVE BelongsOn(n, c)'
    <3>1. CASE c = d
      <4>1. retry.out = "ok" /\ n = retry.plan[d] /\ ~ Created(d) /\ ~ Recovered(d)
        BY <1>2, <2>4, <2>5, <3>1, WhereItBelongs DEF InHands
      <4>2. ~ InHands(d)'
        BY <1>1, <2>3, <2>4, <4>1 DEF InHands, Created, Recovered, Retried
      <4> QED
        BY <2>2, <3>1, <4>1, <4>2 DEF BelongsOn
    <3>2. CASE c # d
      <4>1. Retried(c)' => Retried(c)
        BY <2>3 DEF Retried
      <4> QED
        BY <1>1, <2>1, <2>2, <2>5, <3>2, <4>1 DEF BelongsOn, InHands, Created, Recovered
    <3> QED
      BY <3>1, <3>2
  <2> QED
    BY <1>1, <1>2, <2>2, <2>5, CopiesUntouched
<1>9. CASE RetryEnd
  <2>1. retry'.todo = {} /\ retry'.plan = retry.plan
    BY <1>9, RetrySteps
  <2>2. UNCHANGED <<rec, docker, late>> /\ retry.pc = "group"
    BY <1>9 DEF RetryEnd, workers
  <2>3. \A c \in Containers : Retried(c)' => Retried(c)
    BY <2>1 DEF Retried
  <2> QED
    BY <1>4, <2>2, <2>3
<1> QED
  BY <1>5, <1>6, <1>7, <1>8, <1>9 DEF Retry

\* A late kill empties its node before the node counts as ALIVE again (tolerance.go:118-150).
LEMMA KillKeepsCopies ==
  ASSUME TypeInv, RunsInv, "docker" \notin Faults, NEW n \in Nodes, LateHeartbeat(n) \/ Kill(n)
  PROVE  RunsInv'
<1>1. UNCHANGED <<late, create, recovery, retry>>
  BY DEF Kill, LateHeartbeat, KillContainers, KillList, KillListInTime, KillStop, NodeBack, workers
<1>2. kill \in [Nodes -> Kills] /\ (kill[n].pc # "off" => n \notin Alive) /\ Alive \subseteq Nodes
  BY DEF TypeInv, KillForm, Alive
<1>3. ASSUME NEW h, KillGoes(n, h)
      PROVE  kill'[n] = h /\ \A m \in Nodes : m # n => kill'[m] = kill[m]
  BY <1>2, <1>3 DEF KillGoes
<1>4. ASSUME NEW h, KillGoes(n, h), UNCHANGED <<status, rec>>,
             \A m \in Nodes, c \in Containers :
               docker'[m][c] = docker[m][c] \/ (m = n /\ docker'[m][c] = 0),
             h.pc \in {"list", "stop"} =>
               \/ \A c \in Containers : docker'[n][c] = 0
               \/ kill[n].pc \in {"list", "stop"}
      PROVE  RunsInv'
  <2>1. Alive' = Alive
    BY <1>4 DEF Alive
  <2>2. ASSUME NEW m \in Nodes PROVE Emptied(m)'
    BY <1>3, <1>4, <2>2 DEF RunsInv, Emptied
  <2>3. ASSUME NEW m \in Alive, NEW c \in Containers, OneCopy(m, c) PROVE OneCopy(m, c)'
    <3>1. BelongsOn(m, c) => BelongsOn(m, c)'
      BY <1>1, <1>2, <1>4, ServiceOf, BelongsKept
    <3> QED
      BY <1>2, <1>4, <2>3, <3>1 DEF OneCopy
  <2> QED
    BY <1>1, <2>1, <2>2, <2>3, CopiesStep
<1>5. CASE LateHeartbeat(n) \/ KillList(n)
  <2>1. PICK h : KillGoes(n, h) /\ (h.pc \in {"list", "stop"} => KillList(n))
    BY <1>5, KillSteps
  <2>2. UNCHANGED <<status, rec, docker>> /\ (KillList(n) => kill[n].pc = "list")
    BY <1>5 DEF LateHeartbeat, KillList, workers
  <2> QED
    BY <1>4, <2>1, <2>2
<1>6. CASE KillContainers(n)
  <2>1. PICK h : /\ KillGoes(n, h)
                 /\ \/ h.pc = "list" /\ RemoveDocker(n, Services)
                    \/ h.pc = "off" /\ docker' = docker
    BY <1>6, KillSteps
  <2>2. UNCHANGED <<status, rec>>
    BY <1>6 DEF KillContainers
  <2>3. CASE h.pc = "list" /\ RemoveDocker(n, Services)
    <3>1. \A m \in Nodes, c \in Containers :
            docker'[m][c] = IF m = n THEN 0 ELSE docker[m][c]
      BY <2>3, DockerRemoved, ServiceOf
    <3> QED
      BY <1>4, <2>1, <2>2, <3>1
  <2>4. CASE h.pc = "off" /\ docker' = docker
    BY <1>4, <2>1, <2>2, <2>4
  <2> QED
    BY <2>1, <2>3, <2>4
<1>7. CASE KillStop(n)
  <2>1. PICK d \in Containers, h \in Kills :
          KillGoes(n, h) /\ h.pc = "stop" /\ SetContainerStatus(d, "STOPPED")
    BY <1>7, KillSteps
  <2>2. UNCHANGED <<status, docker>> /\ kill[n].pc = "stop"
    BY <1>7 DEF KillStop, workers
  <2>3. Alive' = Alive
    BY <2>2 DEF Alive
  <2>4. ASSUME NEW m \in Nodes PROVE Emptied(m)'
    BY <1>3, <2>1, <2>2 DEF RunsInv, Emptied
  <2>5. ASSUME NEW m \in Alive, NEW c \in Containers, OneCopy(m, c) PROVE OneCopy(m, c)'
    <3>1. BelongsOn(m, c) => BelongsOn(m, c)'
      BY <1>1, <1>2, <2>1, StoppedBelongs
    <3> QED
      BY <2>2, <2>5, <3>1 DEF OneCopy
  <2> QED
    BY <1>1, <2>3, <2>4, <2>5, CopiesStep
<1>8. CASE NodeBack(n)
  <2>1. PICK h : KillGoes(n, h) /\ h.pc = "off"
    BY <1>8, KillSteps
  <2>2. /\ UNCHANGED <<rec, docker>> /\ kill[n].pc = "stop"
        /\ status' = [status EXCEPT ![n] = "ALIVE"]
    BY <1>8 DEF NodeBack, workers
  <2>3. Alive' = Alive \cup {n}
    BY <2>2 DEF Alive, TypeInv
  <2>4. ASSUME NEW m \in Alive', NEW c \in Containers PROVE OneCopy(m, c)'
    <3>1. CASE m = n
      <4>1. docker'[n][c] = 0
        BY <2>2 DEF RunsInv, Emptied
      <4> QED
        BY <3>1, <4>1 DEF OneCopy
    <3>2. CASE m # n
      <4>1. m \in Nodes /\ OneCopy(m, c)
        BY <1>2, <2>3, <3>2 DEF RunsInv
      <4>2. BelongsOn(m, c) => BelongsOn(m, c)'
        BY <1>1, <2>2, <4>1, ServiceOf, BelongsKept
      <4> QED
        BY <2>2, <4>1, <4>2 DEF OneCopy
    <3> QED
      BY <3>1, <3>2
  <2>5. ASSUME NEW m \in Nodes PROVE Emptied(m)'
    BY <1>3, <2>1, <2>2, <2>5 DEF RunsInv, Emptied
  <2> QED
    BY <1>1, <2>4, <2>5 DEF RunsInv
<1> QED
  BY <1>5, <1>6, <1>7, <1>8 DEF Kill, KillListInTime

\* A node that dies takes what runs on it out of sight, and a worker that is stopped removes it.
LEMMA NodeKeepsCopies ==
  ASSUME TypeInv, RunsInv, OneHandInv, NEW n \in Nodes, MarkDead(n) \/ WorkerRestart(n)
  PROVE  RunsInv'
<1>1. CASE MarkDead(n)
  <2>1. UNCHANGED <<rec, docker, late, create, retry, kill>> /\ recovery.pc = "idle"
    BY <1>1 DEF MarkDead, workers
  <2>2. recovery'.pc = "list" /\ recovery'.todo = {}
    BY <1>1, RecoverySteps
  <2>3. Alive' \subseteq Alive
    BY <1>1 DEF MarkDead, Alive, TypeInv
  <2>4. ASSUME NEW m \in Alive, NEW c \in Containers, BelongsOn(m, c) PROVE BelongsOn(m, c)'
    BY <2>1, <2>2, <2>4 DEF BelongsOn, InHands, Created, Recovered, Retried
  <2> QED
    BY <2>1, <2>3, <2>4, CopiesUntouched
<1>2. CASE WorkerRestart(n)
  <2>1. late' = late
    BY <1>2 DEF WorkerRestart, RunsInv
  <2> QED
    BY <1>2, <2>1, RemovedCopies DEF WorkerRestart
<1> QED
  BY <1>1, <1>2

\* Whatever runs on ALIVE nodes runs where it belongs, whichever step is taken.
LEMMA StepCopies ==
  ASSUME TypeInv, PlansAlive, OneHandInv, RunsInv, [Next]_vars,
         "timeout" \notin Faults, "docker" \notin Faults
  PROVE  RunsInv'
<1>1. ASSUME NEW n \in Nodes, NEW c \in Containers PROVE ~ LateStart(n, c)
  BY DEF RunsInv, LateStart
<1>2. CASE UNCHANGED vars
  <2>1. UNCHANGED <<rec, docker, late, create, recovery, retry, kill>> /\ Alive' = Alive
    BY <1>2 DEF vars, workers, Alive
  <2>2. Alive \subseteq Nodes
    BY DEF Alive
  <2> QED
    BY <2>1, <2>2, ServiceOf, BelongsKept, CopiesUntouched
<1>3. ASSUME NEW x \in orphans, LateKill(x) PROVE RunsInv'
  BY <1>3, LateKillRemoves, RemovedCopies
<1> QED
  BY <1>1, <1>2, <1>3, CreateKeepsCopies, DeleteKeepsCopies, RecoveryKeepsCopies, RetryKeepsCopies,
     KillKeepsCopies, NodeKeepsCopies DEF Next, MarkDeadInTime

\* Nothing runs when the program starts.
LEMMA InitCopies ==
  ASSUME Init
  PROVE  RunsInv
<1>1. ASSUME NEW n \in Nodes, NEW c \in Containers PROVE docker[n][c] = 0
  BY DEF Init
<1> QED
  BY <1>1 DEF Init, RunsInv, OneCopy, Emptied, Alive

-----------------------------------------------------------------------------
(* No more replicas than createService has written. *)

\* A service has finitely many records.
LEMMA CountingFinite ==
  ASSUME NEW s \in Services
  PROVE  IsFiniteSet(Counting(s)) /\ Cardinality(Counting(s)) \in Nat
<1>1. Counting(s) \subseteq {c \in Containers : SvcOf(c) = s}
  BY DEF Counting
<1>2. IsFiniteSet(Counting(s))
  BY <1>1, HoldersFinite, FS_Subset
<1> QED
  BY <1>2, FS_CardinalityType

\* What createService has written of a service, and how much that can be.
LEMMA MadeForm ==
  ASSUME TypeInv, NEW s \in Services
  PROVE  Made(s) \in Nat /\ Made(s) <= Replicas
<1>1. create[s] \in Creates /\ CreateForm(s) /\ Replicas \in Nat
  BY Constants DEF TypeInv
<1>2. create[s].i \in 0..Replicas
  BY <1>1 DEF Creates
<1> QED
  BY <1>1, <1>2 DEF Made, CreateForm

\* A set that one element is added to.
LEMMA OneMore ==
  ASSUME NEW S, IsFiniteSet(S), NEW d, NEW T, T \subseteq S \cup {d}
  PROVE  Cardinality(T) <= Cardinality(S) + 1
<1>1. /\ IsFiniteSet(S \cup {d})
      /\ Cardinality(S \cup {d}) = IF d \in S THEN Cardinality(S) ELSE Cardinality(S) + 1
  BY FS_AddElement
<1>2. IsFiniteSet(T) /\ Cardinality(T) <= Cardinality(S \cup {d})
  BY <1>1, FS_Subset
<1>3. /\ Cardinality(T) \in Nat /\ Cardinality(S) \in Nat
      /\ Cardinality(S \cup {d}) \in Nat
  BY <1>1, <1>2, FS_CardinalityType
<1> QED
  BY <1>1, <1>2, <1>3

\* A step that makes no record count.
LEMMA BoundKept ==
  ASSUME TypeInv, BoundInv, \A s \in Services : Made(s)' = Made(s),
         \A c \in Containers : Counts(c)' => Counts(c)
  PROVE  BoundInv'
<1> SUFFICES ASSUME NEW s \in Services
             PROVE  Cardinality(Counting(s)') <= Made(s)'
  BY DEF BoundInv
<1>1. Counting(s)' \subseteq Counting(s)
  BY DEF Counting
<1>2. /\ Cardinality(Counting(s)') <= Cardinality(Counting(s))
      /\ Cardinality(Counting(s)') \in Nat /\ Cardinality(Counting(s)) \in Nat
  BY <1>1, CountingFinite, FS_Subset, FS_CardinalityType
<1>3. Cardinality(Counting(s)) <= Made(s) /\ Made(s) \in Nat
  BY MadeForm DEF BoundInv
<1> QED
  BY <1>2, <1>3

\* What a record's counting depends on.
LEMMA CountsKept ==
  ASSUME NEW c \in Containers, rec'[c] = rec[c], InHands(c)' => InHands(c), Runs(c)' => Runs(c)
  PROVE  Counts(c)' => Counts(c)
BY DEF Counts

\* What is STOPPED counts no more than before.
LEMMA CountsStopped ==
  ASSUME TypeInv, UNCHANGED <<status, docker, create, recovery, retry>>,
         NEW d \in Containers, SetContainerStatus(d, "STOPPED"), NEW c \in Containers
  PROVE  Counts(c)' => Counts(c)
<1>1. "STOPPED" \in Statuses
  BY DEF Statuses
<1>2. /\ rec'[d].st = IF rec[d].st = "NONE" THEN "NONE" ELSE "STOPPED"
      /\ \A e \in Containers : e # d => rec'[e] = rec[e]
  BY <1>1, RecordSet
<1>3. (InHands(c)' <=> InHands(c)) /\ (Runs(c)' <=> Runs(c))
  BY DEF InHands, Created, Recovered, Retried, Runs, Alive
<1>4. CASE c = d
  BY <1>2, <1>3, <1>4 DEF Counts
<1>5. CASE c # d
  BY <1>2, <1>3, <1>5, CountsKept
<1> QED
  BY <1>4, <1>5

\* createService has one more record with every replica that it writes (server.go:302-401).
LEMMA CreateKeepsBound ==
  ASSUME TypeInv, PlansAlive, OneHandInv, BoundInv, NEW s \in Services, Create(s)
  PROVE  BoundInv'
<1>1. UNCHANGED <<status, recovery, retry, kill>>
  BY DEF Create, AddService, CreatePlan, CreatePending, CreateAdd, CreateStart, CreateRecord
<1>2. create \in [Services -> Creates] /\ create[s] \in Creates /\ CreateForm(s)
  BY DEF TypeInv
<1>3. ASSUME NEW h, CreateGoes(s, h)
      PROVE  create'[s] = h /\ \A x \in Services : x # s => create'[x] = create[x]
  BY <1>2, <1>3 DEF CreateGoes
<1>4. ASSUME NEW h, CreateGoes(s, h), NEW c \in Containers, Created(c)' => Created(c)
      PROVE  InHands(c)' => InHands(c)
  BY <1>1, <1>4 DEF InHands, Recovered, Retried
<1>5. ASSUME NEW h, CreateGoes(s, h)
      PROVE  /\ \A x \in Services : x # s => Made(x)' = Made(x)
             /\ \A c \in Containers : SvcOf(c) # s => (Created(c)' <=> Created(c))
             /\ Made(s)' = IF h.pc = "add" THEN h.i - 1 ELSE h.i
  BY <1>3, <1>5, ServiceOf DEF Made, Created
<1>6. docker' = docker => \A c \in Containers : Runs(c)' <=> Runs(c)
  BY <1>1 DEF Runs, Alive
<1>7. CASE AddService(s) \/ CreatePlan(s)
  <2>1. PICK h : /\ CreateGoes(s, h) /\ h.pc \in {"plan", "pending", "add"}
                 /\ h.i = IF h.pc = "add" THEN 1 ELSE 0
    BY <1>7, CreateSteps
  <2>2. UNCHANGED <<rec, docker>> /\ create[s].pc \in {"new", "plan"}
    BY <1>7 DEF AddService, CreatePlan, workers
  <2>3. Made(s)' = Made(s)
    BY <1>2, <1>5, <2>1, <2>2 DEF Made, CreateForm
  <2>4. \A c \in Containers : Created(c)' => Created(c)
    BY <1>3, <1>5, <2>1 DEF Created
  <2>5. \A c \in Containers : Counts(c)' => Counts(c)
    BY <1>4, <1>6, <2>1, <2>2, <2>4, CountsKept
  <2> QED
    BY <1>5, <2>1, <2>3, <2>5, BoundKept
<1>8. CASE CreatePending(s) \/ CreateAdd(s)
  <2>1. PICK h : /\ CreateGoes(s, h) /\ h.pc \in {"done", "pending", "start"}
                 /\ h.i = IF create[s].pc = "add" THEN create[s].i ELSE create[s].i + 1
                 /\ h.pc = "start" => h.cur = Fresh(s)
    <3>1. CASE CreatePending(s)
      <4>1. create[s].pc = "pending"
        BY <3>1 DEF CreatePending
      <4> QED
        BY <3>1, <4>1, CreateSteps
    <3>2. CASE CreateAdd(s)
      <4>1. create[s].pc = "add"
        BY <3>2 DEF CreateAdd
      <4> QED
        BY <3>2, <4>1, CreateSteps
    <3> QED
      BY <1>8, <3>1, <3>2
  <2>2. PICK d : d = Fresh(s)
    OBVIOUS
  <2>3. /\ d \in Containers /\ SvcOf(d) = s /\ rec[d].st = "NONE" /\ docker' = docker
        /\ create[s].pc \in {"pending", "add"}
    BY <1>8, <2>2, FreshForm DEF CreatePending, CreateAdd, workers
  <2>4. \A c \in Containers : c # d => rec'[c] = rec[c]
    <3>1. PICK n \in MaybeNodes, st \in {"PENDING", "SCHEDULED"} : AddContainer(d, n, st)
      BY <1>2, <1>8, <2>2 DEF CreatePending, CreateAdd, CreateForm, MaybeNodes
    <3>2. st \in Statuses
      BY DEF Statuses
    <3> QED
      BY <2>3, <3>1, <3>2, RecordAdded
  <2>5. Made(s)' = Made(s) + 1
    <3>1. create[s].i \in Nat
      BY <1>2, Constants DEF Creates
    <3> QED
      BY <1>5, <2>1, <2>3, <3>1 DEF Made
  <2>6. ASSUME NEW c \in Containers, c # d PROVE Counts(c)' => Counts(c)
    <3>1. Created(c)' => Created(c)
      BY <1>3, <1>5, <2>1, <2>2, <2>6 DEF Created
    <3> QED
      BY <1>4, <1>6, <2>1, <2>3, <2>4, <2>6, <3>1, CountsKept
  <2>7. ASSUME NEW x \in Services PROVE Cardinality(Counting(x)') <= Made(x)'
    <3>1. Cardinality(Counting(x)) <= Made(x) /\ Made(x) \in Nat
      BY MadeForm DEF BoundInv
    <3>2. CASE x = s
      <4>1. Counting(x)' \subseteq Counting(x) \cup {d}
        BY <2>6 DEF Counting
      <4>2. Cardinality(Counting(x)') <= Cardinality(Counting(x)) + 1
        BY <4>1, CountingFinite, OneMore
      <4>3. Cardinality(Counting(x)') \in Nat /\ Cardinality(Counting(x)) \in Nat
        <5>1. IsFiniteSet(Counting(x) \cup {d})
          BY CountingFinite, FS_AddElement
        <5> QED
          BY <4>1, <5>1, CountingFinite, FS_Subset, FS_CardinalityType
      <4> QED
        BY <2>5, <3>1, <3>2, <4>2, <4>3
    <3>3. CASE x # s
      <4>1. Counting(x)' \subseteq Counting(x)
        BY <2>3, <2>6, <3>3 DEF Counting
      <4>2. /\ Cardinality(Counting(x)') <= Cardinality(Counting(x))
            /\ Cardinality(Counting(x)') \in Nat /\ Cardinality(Counting(x)) \in Nat
        BY <4>1, CountingFinite, FS_Subset, FS_CardinalityType
      <4>3. Made(x)' = Made(x)
        BY <1>5, <2>1, <3>3
      <4> QED
        BY <3>1, <4>2, <4>3
    <3> QED
      BY <3>2, <3>3
  <2> QED
    BY <2>7 DEF BoundInv
<1>9. CASE CreateStart(s)
  <2>1. PICK h \in Creates, out \in Outcomes :
          /\ CreateGoes(s, h) /\ h.pc = "record" /\ h.out = out
          /\ h.i = create[s].i /\ h.plan = create[s].plan /\ h.cur = create[s].cur
          /\ StartContainer(create[s].plan[create[s].i], create[s].cur, out)
    BY <1>9, CreateStartStep
  <2>2. PICK m, d : m = create[s].plan[create[s].i] /\ d = create[s].cur
    OBVIOUS
  <2>3. /\ create[s].pc = "start" /\ rec' = rec
        /\ d \in Containers /\ SvcOf(d) = s /\ create[s].i \in 1..Replicas
    BY <1>2, <1>9, <2>2 DEF CreateStart, CreateForm
  <2>4. m \in Nodes
    BY <2>2, <2>3, Constants DEF PlansAlive, Alive
  <2>5. Made(s)' = Made(s)
    BY <1>5, <2>1, <2>3 DEF Made
  <2>6. \A c \in Containers : Created(c)' <=> Created(c)
    BY <1>3, <1>5, <2>1, <2>3 DEF Created
  <2>7. ASSUME NEW c \in Containers PROVE Counts(c)' => Counts(c)
    <3>1. InHands(c)' => InHands(c)
      BY <1>4, <2>1, <2>6
    <3>2. CASE c = d
      <4>1. Created(c) /\ OneHand(c)
        BY <2>2, <2>3, <3>2 DEF Created, OneHandInv
      <4> QED
        BY <4>1 DEF OneHand, Counts, InHands
    <3>3. CASE c # d
      <4>1. \A n \in Nodes : docker'[n][c] = docker[n][c]
        BY <2>1, <2>2, <2>3, <2>4, <3>3, DockerStarted
      <4>2. Runs(c)' => Runs(c)
        BY <1>1, <4>1 DEF Runs, Alive
      <4> QED
        BY <2>3, <3>1, <4>2, CountsKept
    <3> QED
      BY <3>2, <3>3
  <2> QED
    BY <1>5, <2>1, <2>5, <2>7, BoundKept
<1>10. CASE CreateRecord(s)
  <2>1. PICK h : /\ CreateGoes(s, h) /\ h.pc \in {"done", "add"}
                 /\ h.i = IF h.pc = "add" THEN create[s].i + 1 ELSE create[s].i
    BY <1>10, CreateSteps
  <2>2. PICK d : d = create[s].cur
    OBVIOUS
  <2>3. /\ d \in Containers /\ SvcOf(d) = s
        /\ create[s].pc = "record" /\ docker' = docker
    BY <1>2, <1>10, <2>2 DEF CreateForm, CreateRecord, workers
  <2>4. OneHand(d) /\ Created(d)
    BY <2>2, <2>3 DEF OneHandInv, Created
  <2>5. \A c \in Containers : c # d => rec'[c] = rec[c]
    BY <1>10, <2>2, <2>4, CreateRecorded DEF OneHand
  <2>6. Made(s)' = Made(s)
    <3>1. create[s].i \in Nat
      BY <1>2, Constants DEF Creates
    <3> QED
      BY <1>5, <2>1, <2>3, <3>1 DEF Made
  <2>7. \A c \in Containers : Created(c)' => Created(c)
    BY <1>3, <1>5, <2>1 DEF Created
  <2>8. Counts(d)
    BY <2>4 DEF OneHand, Counts, InHands
  <2>9. \A c \in Containers : Counts(c)' => Counts(c)
    BY <1>4, <1>6, <2>1, <2>3, <2>5, <2>7, <2>8, CountsKept
  <2> QED
    BY <1>5, <2>1, <2>6, <2>9, BoundKept
<1> QED
  BY <1>7, <1>8, <1>9, <1>10 DEF Create

\* A deletion makes no record count (server.go:380-401).
LEMMA DeleteKeepsBound ==
  ASSUME TypeInv, BoundInv, NEW s \in Services, Delete(s)
  PROVE  BoundInv'
<1>1. UNCHANGED <<status, create, recovery, retry>>
  BY DEF Delete, DeleteList, DeleteKill, DeleteStop, RemoveService
<1>2. Alive' = Alive /\ \A x \in Services : Made(x)' = Made(x)
  BY <1>1 DEF Alive, Made
<1>3. \A c \in Containers : InHands(c)' <=> InHands(c)
  BY <1>1 DEF InHands, Created, Recovered, Retried
<1>4. CASE DeleteStop(s)
  <2>1. docker' = docker
    BY <1>4 DEF DeleteStop, workers
  <2>2. PICK d \in Containers : SetContainerStatus(d, "STOPPED")
    BY <1>4, DeleteSteps
  <2> QED
    BY <1>1, <1>2, <2>1, <2>2, CountsStopped, BoundKept
<1>5. CASE DeleteList(s) \/ DeleteKill(s) \/ RemoveService(s)
  <2>1. \A n \in Nodes, c \in Containers : docker'[n][c] \in {0, docker[n][c]}
    <3>1. docker' = docker \/ \E n \in Nodes : RemoveDocker(n, {s})
      BY <1>5, DeleteSteps DEF DeleteList, RemoveService, workers
    <3> QED
      BY <3>1, DockerRemoved
  <2>2. \A c \in Containers : Runs(c)' => Runs(c)
    BY <1>2, <2>1 DEF Runs, Alive
  <2>3. rec' = rec
    BY <1>5 DEF DeleteList, DeleteKill, RemoveService
  <2> QED
    BY <1>2, <1>3, <2>2, <2>3, CountsKept, BoundKept
<1> QED
  BY <1>4, <1>5 DEF Delete

\* A recovery makes a replacement count where the record that it replaces no longer does
\* (main.go:124-173).
LEMMA RecoveryKeepsBound ==
  ASSUME TypeInv, PlansAlive, OneHandInv, RunsInv, BoundInv, Recovery
  PROVE  BoundInv'
<1>1. UNCHANGED <<status, create, retry, kill>>
  BY DEF Recovery, RecoveryList, RecoveryNext, RecoveryPlan, RecoveryStart, RecoveryRecord,
         RecoveryRecordInTime, RecoveryAdd, RecoveryEnd
<1>2. Alive' = Alive /\ \A s \in Services : Made(s)' = Made(s)
  BY <1>1 DEF Alive, Made
<1>3. recovery \in Recoveries /\ RecoveryForm /\ None \notin Containers
  BY Constants DEF TypeInv
<1>4. ASSUME NEW c \in Containers, Recovered(c)' => Recovered(c) PROVE InHands(c)' => InHands(c)
  BY <1>1, <1>4 DEF InHands, Created, Retried
<1>5. docker' = docker => \A c \in Containers : Runs(c)' <=> Runs(c)
  BY <1>2 DEF Runs
<1>6. CASE RecoveryList
  <2>1. /\ recovery'.pc = "next" /\ recovery'.todo = ActiveOn(recovery.node)
        /\ UNCHANGED <<rec, docker>>
    BY <1>6, RecoverySteps DEF RecoveryList, workers
  <2>2. ASSUME NEW c \in Containers PROVE Counts(c)' => Counts(c)
    <3>1. CASE c \in ActiveOn(recovery.node)
      BY <3>1 DEF ActiveOn, Counts
    <3>2. CASE c \notin ActiveOn(recovery.node)
      <4>1. ~ Recovered(c)'
        BY <2>1, <3>2 DEF Recovered
      <4> QED
        BY <1>4, <1>5, <2>1, <4>1, CountsKept
    <3> QED
      BY <3>1, <3>2
  <2> QED
    BY <1>2, <2>2, BoundKept
<1>7. ASSUME NEW d \in Containers, OneHand(d), Recovered(d), docker' = docker,
             \A c \in Containers : c # d => rec'[c] = rec[c],
             \A c \in Containers : c # d => (Recovered(c)' => Recovered(c))
      PROVE  BoundInv'
  <2>1. Counts(d)
    BY <1>7 DEF OneHand, Counts, InHands
  <2>2. \A c \in Containers : Counts(c)' => Counts(c)
    BY <1>4, <1>5, <1>7, <2>1, CountsKept
  <2> QED
    BY <1>2, <2>2, BoundKept
<1>8. ASSUME NEW d \in Containers, RecoveryNext(d)
      PROVE  BoundInv'
  <2>1. /\ recovery'.pc = "plan" /\ recovery'.cur = d
        /\ recovery'.todo = recovery.todo \ {d} /\ d \in recovery.todo
        /\ SetContainerStatus(d, "RESCHEDULING") /\ docker' = docker
    BY <1>8, RecoverySteps DEF RecoveryNext, workers
  <2>2. \A c \in Containers : c # d => rec'[c] = rec[c]
    BY <2>1, RecordSet DEF Statuses
  <2>3. OneHand(d) /\ Recovered(d) /\ \A c \in Containers : Recovered(c)' => Recovered(c)
    BY <2>1 DEF OneHandInv, Recovered
  <2> QED
    BY <1>7, <2>1, <2>2, <2>3
<1>9. CASE RecoveryPlan
  <2>1. /\ recovery'.todo = recovery.todo /\ recovery.pc = "plan"
        /\ recovery'.pc = "next" \/ recovery'.cur = recovery.cur
        /\ UNCHANGED <<rec, docker>>
    BY <1>9, RecoverySteps DEF RecoveryPlan, workers
  <2>2. \A c \in Containers : Recovered(c)' => Recovered(c)
    BY <2>1 DEF Recovered
  <2>3. \A c \in Containers : Counts(c)' => Counts(c)
    BY <1>4, <1>5, <2>1, <2>2, CountsKept
  <2> QED
    BY <1>2, <2>3, BoundKept
<1>10. CASE RecoveryStart
  <2>1. PICK out \in Outcomes :
          /\ StartContainer(recovery.node, recovery.new, out)
          /\ recovery'.pc = "record" /\ recovery'.todo = recovery.todo
          /\ recovery'.cur = recovery.cur
    BY <1>10, RecoveryStartStep
  <2>2. PICK m, d : m = recovery.node /\ d = recovery.new
    OBVIOUS
  <2>3. recovery.pc = "start" /\ rec' = rec /\ d \in Containers /\ m \in Nodes
    BY <1>3, <1>10, <2>2 DEF RecoveryStart, RecoveryForm
  <2>4. ASSUME NEW c \in Containers PROVE Counts(c)' => Counts(c)
    <3>1. CASE c = d
      BY <2>2, <2>3, <3>1 DEF OneHandInv, OneHand, Counts
    <3>2. CASE c # d
      <4>1. \A n \in Nodes : docker'[n][c] = docker[n][c]
        BY <2>1, <2>2, <2>3, <3>2, DockerStarted
      <4>2. Runs(c)' => Runs(c)
        BY <1>2, <4>1 DEF Runs, Alive
      <4>3. Recovered(c)' => Recovered(c)
        BY <2>1, <2>3 DEF Recovered
      <4> QED
        BY <1>4, <2>3, <4>2, <4>3, CountsKept
    <3> QED
      BY <3>1, <3>2
  <2> QED
    BY <1>2, <2>4, BoundKept
<1>11. CASE RecoveryRecord
  <2>1. PICK d : d = recovery.cur
    OBVIOUS
  <2>2. /\ recovery'.todo = recovery.todo /\ recovery'.cur = d
        /\ recovery.pc = "record" /\ d \in Containers /\ docker' = docker
        /\ \E st \in {"STOPPED", "PENDING"} : SetContainerStatus(d, st)
    BY <1>3, <1>11, <2>1, RecoverySteps DEF RecoveryRecord, RecoveryForm, workers
  <2>3. \A c \in Containers : c # d => rec'[c] = rec[c]
    <3>1. PICK st \in {"STOPPED", "PENDING"} : SetContainerStatus(d, st)
      BY <2>2
    <3> QED
      BY <2>2, <3>1, RecordSet DEF Statuses
  <2>4. OneHand(d) /\ Recovered(d) /\ \A c \in Containers : Recovered(c)' => Recovered(c)
    BY <2>1, <2>2 DEF OneHandInv, Recovered
  <2> QED
    BY <1>7, <2>2, <2>3, <2>4
<1>12. CASE RecoveryAdd
  <2>1. PICK d, e, m : d = recovery.new /\ e = recovery.cur /\ m = recovery.node
    OBVIOUS
  <2>2. /\ recovery'.pc = "next" /\ recovery'.todo = recovery.todo /\ recovery.pc = "add"
        /\ d \in Containers /\ e \in Containers /\ SvcOf(d) = SvcOf(e)
        /\ m \in MaybeNodes /\ AddContainer(d, m, "RUNNING") /\ docker' = docker
    BY <1>3, <1>12, <2>1, RecoverySteps
       DEF RecoveryAdd, RecoveryForm, MaybeNodes, workers
  <2>3. \A c \in Containers : c # d => rec'[c] = rec[c]
    BY <2>2, RecordAdded DEF Statuses
  <2>4. Recovered(e) /\ OneHand(e) /\ OneHand(d) /\ e \notin recovery.todo
    BY <2>1, <2>2 DEF Recovered, OneHandInv, OnceInHand
  <2>5. rec[e].st = "STOPPED" /\ rec[d].st = "NONE" /\ e # d
    BY <2>1, <2>2, <2>4 DEF OneHand
  <2>6. ~ InHands(e)'
    BY <1>1, <2>2, <2>4 DEF OneHand, InHands, Created, Recovered, Retried
  <2>7. ~ Runs(e)'
    <3>1. ASSUME NEW n \in Alive PROVE docker[n][e] = 0
      <4>1. n \in Nodes /\ OneCopy(n, e)
        BY <2>2 DEF RunsInv, Alive
      <4>2. ~ BelongsOn(n, e)
        BY <2>1, <2>2, <2>4, <2>5, <4>1, WhereItBelongs DEF InHands, OneHand
      <4> QED
        BY <4>1, <4>2 DEF OneCopy
    <3> QED
      BY <1>2, <2>2, <3>1 DEF Runs
  <2>8. Counts(e) /\ ~ Counts(e)' /\ ~ Counts(d)
    BY <2>3, <2>2, <2>4, <2>5, <2>6, <2>7 DEF Counts, InHands
  <2>9. ASSUME NEW c \in Containers, c # d PROVE Counts(c)' => Counts(c)
    <3>1. Recovered(c)' => Recovered(c)
      BY <2>2 DEF Recovered
    <3> QED
      BY <1>4, <1>5, <2>2, <2>3, <2>9, <3>1, CountsKept
  <2>10. ASSUME NEW s \in Services PROVE Cardinality(Counting(s)') <= Made(s)'
    <3>1. Cardinality(Counting(s)) <= Made(s) /\ Made(s) \in Nat /\ Made(s)' = Made(s)
      BY <1>2, MadeForm DEF BoundInv
    <3>2. /\ IsFiniteSet(Counting(s)) /\ Cardinality(Counting(s)) \in Nat
          /\ IsFiniteSet(Counting(s)') /\ Cardinality(Counting(s)') \in Nat
      <4>1. Counting(s)' \subseteq Counting(s) \cup {d}
        BY <2>9 DEF Counting
      <4>2. IsFiniteSet(Counting(s) \cup {d})
        BY CountingFinite, FS_AddElement
      <4> QED
        BY <4>1, <4>2, CountingFinite, FS_Subset, FS_CardinalityType
    <3>3. CASE SvcOf(d) = s
      <4>1. e \in Counting(s)
        BY <2>2, <2>8, <3>3 DEF Counting
      <4>2. Counting(s)' \subseteq (Counting(s) \ {e}) \cup {d}
        BY <2>8, <2>9 DEF Counting
      <4>3. /\ IsFiniteSet(Counting(s) \ {e})
            /\ Cardinality(Counting(s) \ {e}) = Cardinality(Counting(s)) - 1
        BY <3>2, <4>1, FS_RemoveElement
      <4>4. Cardinality(Counting(s)') <= Cardinality(Counting(s) \ {e}) + 1
        BY <4>2, <4>3, OneMore
      <4> QED
        BY <3>1, <3>2, <4>3, <4>4
    <3>4. CASE SvcOf(d) # s
      <4>1. Counting(s)' \subseteq Counting(s)
        BY <2>9, <3>4 DEF Counting
      <4>2. Cardinality(Counting(s)') <= Cardinality(Counting(s))
        BY <3>2, <4>1, FS_Subset
      <4> QED
        BY <3>1, <3>2, <4>2
    <3> QED
      BY <3>3, <3>4
  <2> QED
    BY <2>10 DEF BoundInv
<1>13. CASE RecoveryEnd
  <2>1. /\ recovery'.pc = "idle" /\ recovery'.todo = {} /\ UNCHANGED <<rec, docker>>
    BY <1>13, RecoverySteps DEF RecoveryEnd, workers
  <2>2. \A c \in Containers : Recovered(c)' => Recovered(c)
    BY <2>1 DEF Recovered
  <2>3. \A c \in Containers : Counts(c)' => Counts(c)
    BY <1>4, <1>5, <2>1, <2>2, CountsKept
  <2> QED
    BY <1>2, <2>3, BoundKept
<1> QED
  BY <1>6, <1>8, <1>9, <1>10, <1>11, <1>12, <1>13 DEF Recovery, RecoveryRecordInTime

\* The retry loop only touches what counts (main.go:177-219).
LEMMA RetryKeepsBound ==
  ASSUME TypeInv, OneHandInv, BoundInv, Retry
  PROVE  BoundInv'
<1>1. UNCHANGED <<status, create, recovery, kill>>
  BY DEF Retry, RetryList, RetryPlan, RetryStart, RetryRecord, RetryEnd
<1>2. Alive' = Alive /\ \A s \in Services : Made(s)' = Made(s)
  BY <1>1 DEF Alive, Made
<1>3. retry \in Retries /\ RetryForm
  BY DEF TypeInv
<1>4. ASSUME NEW c \in Containers, Retried(c)' => Retried(c) PROVE InHands(c)' => InHands(c)
  BY <1>1, <1>4 DEF InHands, Created, Recovered
<1>5. docker' = docker => \A c \in Containers : Runs(c)' <=> Runs(c)
  BY <1>2 DEF Runs
<1>6. ASSUME UNCHANGED <<rec, docker>>,
             \A c \in Containers : Retried(c)' => Retried(c) \/ rec[c].st = "PENDING"
      PROVE  BoundInv'
  <2>1. ASSUME NEW c \in Containers PROVE Counts(c)' => Counts(c)
    <3>1. CASE rec[c].st = "PENDING"
      BY <3>1 DEF Counts
    <3>2. CASE rec[c].st # "PENDING"
      BY <1>4, <1>5, <1>6, <3>2, CountsKept
    <3> QED
      BY <3>1, <3>2
  <2> QED
    BY <1>2, <2>1, BoundKept
<1>7. CASE RetryList
  <2>1. retry'.todo = Pending /\ retry'.plan = retry.plan
    BY <1>7, RetrySteps
  <2>2. UNCHANGED <<rec, docker>>
    BY <1>7 DEF RetryList, workers
  <2>3. \A c \in Containers : Retried(c)' => Retried(c) \/ rec[c].st = "PENDING"
    BY <2>1 DEF Retried, Pending
  <2> QED
    BY <1>6, <2>2, <2>3
<1>8. ASSUME NEW s \in Services, RetryPlan(s)
      PROVE  BoundInv'
  <2>1. /\ retry'.todo \subseteq retry.todo
        /\ retry'.plan = retry.plan \/ DOMAIN retry'.plan \subseteq retry.todo
    BY <1>8, RetrySteps
  <2>2. UNCHANGED <<rec, docker>>
    BY <1>8 DEF RetryPlan, workers
  <2>3. \A c \in Containers : Retried(c)' => Retried(c)
    BY <2>1 DEF Retried
  <2> QED
    BY <1>6, <2>2, <2>3
<1>9. ASSUME NEW d \in Containers, RetryStart(d)
      PROVE  BoundInv'
  <2>1. PICK out \in Outcomes :
          /\ d \in DOMAIN retry.plan
          /\ StartContainer(retry.plan[d], d, out)
          /\ retry'.todo = retry.todo /\ retry'.plan = retry.plan
    BY <1>9, RetryStartSteps
  <2>2. rec' = rec /\ retry.plan[d] \in Nodes
    BY <1>9, <2>1, RetryPlanForm DEF RetryStart
  <2>3. OneHand(d) /\ Retried(d) /\ \A c \in Containers : Retried(c)' <=> Retried(c)
    BY <2>1 DEF OneHandInv, Retried
  <2>4. Counts(d)
    BY <2>3 DEF OneHand, Counts, InHands
  <2>5. ASSUME NEW c \in Containers, c # d PROVE Counts(c)' => Counts(c)
    <3>1. \A n \in Nodes : docker'[n][c] = docker[n][c]
      BY <2>1, <2>2, <2>5, DockerStarted
    <3>2. Runs(c)' => Runs(c)
      BY <1>2, <3>1 DEF Runs, Alive
    <3> QED
      BY <1>4, <2>2, <2>3, <3>2, CountsKept
  <2> QED
    BY <1>2, <2>4, <2>5, BoundKept
<1>10. CASE RetryRecord
  <2>1. PICK d : d = retry.cur
    OBVIOUS
  <2>2. /\ d \in Containers /\ d \in DOMAIN retry.plan
        /\ \A c \in Containers : c # d => rec'[c] = rec[c]
        /\ docker' = docker
    BY <1>10, <2>1, RetryRecorded DEF RetryRecord, workers
  <2>3. retry'.todo = retry.todo /\ DOMAIN retry'.plan = DOMAIN retry.plan \ {d}
    BY <1>10, <2>1, RetryStartSteps
  <2>4. OneHand(d) /\ Retried(d) /\ \A c \in Containers : Retried(c)' => Retried(c)
    BY <2>2, <2>3 DEF OneHandInv, Retried
  <2>5. Counts(d)
    BY <2>4 DEF OneHand, Counts, InHands
  <2>6. \A c \in Containers : Counts(c)' => Counts(c)
    BY <1>4, <1>5, <2>2, <2>4, <2>5, CountsKept
  <2> QED
    BY <1>2, <2>6, BoundKept
<1>11. CASE RetryEnd
  <2>1. retry'.todo = {} /\ retry'.plan = retry.plan
    BY <1>11, RetrySteps
  <2>2. UNCHANGED <<rec, docker>>
    BY <1>11 DEF RetryEnd, workers
  <2>3. \A c \in Containers : Retried(c)' => Retried(c)
    BY <2>1 DEF Retried
  <2> QED
    BY <1>6, <2>2, <2>3
<1> QED
  BY <1>7, <1>8, <1>9, <1>10, <1>11 DEF Retry

\* A node that comes back brings nothing that runs (tolerance.go:118-150).
LEMMA KillKeepsBound ==
  ASSUME TypeInv, RunsInv, BoundInv, NEW n \in Nodes, LateHeartbeat(n) \/ Kill(n)
  PROVE  BoundInv'
<1>1. UNCHANGED <<create, recovery, retry>>
  BY DEF Kill, LateHeartbeat, KillContainers, KillList, KillListInTime, KillStop, NodeBack
<1>2. \A s \in Services : Made(s)' = Made(s)
  BY <1>1 DEF Made
<1>3. \A c \in Containers : InHands(c)' <=> InHands(c)
  BY <1>1 DEF InHands, Created, Recovered, Retried
<1>4. CASE KillStop(n)
  <2>1. UNCHANGED <<status, docker>>
    BY <1>4 DEF KillStop, workers
  <2>2. PICK d \in Containers : SetContainerStatus(d, "STOPPED")
    BY <1>4, KillSteps
  <2> QED
    BY <1>1, <1>2, <2>1, <2>2, CountsStopped, BoundKept
<1>5. ASSUME rec' = rec, \A c \in Containers : Runs(c)' => Runs(c)
      PROVE  BoundInv'
  BY <1>2, <1>3, <1>5, CountsKept, BoundKept
<1>6. CASE LateHeartbeat(n) \/ KillList(n)
  <2>1. UNCHANGED <<status, rec, docker>>
    BY <1>6 DEF LateHeartbeat, KillList, workers
  <2> QED
    BY <1>5, <2>1 DEF Runs, Alive
<1>7. CASE KillContainers(n)
  <2>1. UNCHANGED <<status, rec>>
    BY <1>7 DEF KillContainers
  <2>2. RemoveDocker(n, Services) \/ docker' = docker
    BY <1>7, KillSteps
  <2>3. \A m \in Nodes, c \in Containers : docker'[m][c] \in {0, docker[m][c]}
    BY <2>2, DockerRemoved
  <2>4. \A c \in Containers : Runs(c)' => Runs(c)
    BY <2>1, <2>3 DEF Runs, Alive
  <2> QED
    BY <1>5, <2>1, <2>4
<1>8. CASE NodeBack(n)
  <2>1. /\ UNCHANGED <<rec, docker>> /\ kill[n].pc = "stop"
        /\ status' = [status EXCEPT ![n] = "ALIVE"]
    BY <1>8 DEF NodeBack, workers
  <2>2. Alive' = Alive \cup {n}
    BY <2>1 DEF Alive, TypeInv
  <2>3. \A c \in Containers : docker[n][c] = 0
    BY <2>1 DEF RunsInv, Emptied
  <2>4. \A c \in Containers : Runs(c)' => Runs(c)
    BY <2>1, <2>2, <2>3 DEF Runs
  <2> QED
    BY <1>5, <2>1, <2>4
<1> QED
  BY <1>4, <1>6, <1>7, <1>8 DEF Kill, KillListInTime

\* A node that dies and a worker that is stopped make nothing count.
LEMMA NodeKeepsBound ==
  ASSUME TypeInv, BoundInv, NEW n \in Nodes, MarkDead(n) \/ WorkerRestart(n)
  PROVE  BoundInv'
<1>1. UNCHANGED <<rec, create, retry>> /\ \A s \in Services : Made(s)' = Made(s)
  BY DEF MarkDead, WorkerRestart, Made
<1>2. CASE MarkDead(n)
  <2>1. docker' = docker /\ Alive' \subseteq Alive
    BY <1>2 DEF MarkDead, workers, Alive, TypeInv
  <2>2. recovery'.pc = "list" /\ recovery'.todo = {}
    BY <1>2, RecoverySteps
  <2>3. ASSUME NEW c \in Containers PROVE Counts(c)' => Counts(c)
    <3>1. InHands(c)' => InHands(c)
      BY <1>1, <2>2 DEF InHands, Created, Recovered, Retried
    <3>2. Runs(c)' => Runs(c)
      BY <2>1 DEF Runs
    <3> QED
      BY <1>1, <3>1, <3>2, CountsKept
  <2> QED
    BY <1>1, <2>3, BoundKept
<1>3. CASE WorkerRestart(n)
  <2>1. UNCHANGED <<status, recovery>> /\ RemoveDocker(n, Services)
    BY <1>3 DEF WorkerRestart
  <2>2. \A m \in Nodes, c \in Containers : docker'[m][c] \in {0, docker[m][c]}
    BY <2>1, DockerRemoved
  <2>3. ASSUME NEW c \in Containers PROVE Counts(c)' => Counts(c)
    <3>1. InHands(c)' => InHands(c)
      BY <1>1, <2>1 DEF InHands, Created, Recovered, Retried
    <3>2. Runs(c)' => Runs(c)
      BY <2>1, <2>2 DEF Runs, Alive
    <3> QED
      BY <1>1, <3>1, <3>2, CountsKept
  <2> QED
    BY <1>1, <2>3, BoundKept
<1> QED
  BY <1>2, <1>3

\* No step makes more records count than createService has written.
LEMMA StepBound ==
  ASSUME TypeInv, PlansAlive, OneHandInv, RunsInv, BoundInv, [Next]_vars
  PROVE  BoundInv'
<1>1. ASSUME NEW n \in Nodes, NEW c \in Containers PROVE ~ LateStart(n, c)
  BY DEF RunsInv, LateStart
<1>2. CASE UNCHANGED vars
  <2>1. UNCHANGED <<status, rec, docker, create, recovery, retry>>
    BY <1>2 DEF vars, workers
  <2>2. \A c \in Containers : Counts(c)' => Counts(c)
    BY <2>1 DEF Counts, InHands, Created, Recovered, Retried, Runs, Alive
  <2>3. \A s \in Services : Made(s)' = Made(s)
    BY <2>1 DEF Made
  <2> QED
    BY <2>2, <2>3, BoundKept
<1>3. ASSUME NEW x \in orphans, LateKill(x) PROVE BoundInv'
  <2>1. UNCHANGED <<status, rec, create, recovery, retry>>
    BY <1>3, LateKillRemoves
  <2>2. \A m \in Nodes, c \in Containers : docker'[m][c] \in {0, docker[m][c]}
    BY <1>3, LateKillRemoves
  <2>3. ASSUME NEW c \in Containers PROVE Counts(c)' => Counts(c)
    <3>1. InHands(c)' => InHands(c)
      BY <2>1 DEF InHands, Created, Recovered, Retried
    <3>2. Runs(c)' => Runs(c)
      BY <2>1, <2>2 DEF Runs, Alive
    <3> QED
      BY <2>1, <3>1, <3>2, CountsKept
  <2>4. \A s \in Services : Made(s)' = Made(s)
    BY <2>1 DEF Made
  <2> QED
    BY <2>3, <2>4, BoundKept
<1> QED
  BY <1>1, <1>2, <1>3, CreateKeepsBound, DeleteKeepsBound, RecoveryKeepsBound, RetryKeepsBound,
     KillKeepsBound, NodeKeepsBound DEF Next, MarkDeadInTime

\* No records are written when the program starts.
LEMMA InitBound ==
  ASSUME Init
  PROVE  BoundInv
<1> SUFFICES ASSUME NEW s \in Services
             PROVE  Cardinality(Counting(s)) <= Made(s)
  BY DEF BoundInv
<1>1. Counting(s) = {}
  BY DEF Init, Counting, Counts
<1>2. Made(s) = 0
  BY DEF Init, Made
<1> QED
  BY <1>1, <1>2, FS_EmptySet

-----------------------------------------------------------------------------
(* No replica runs twice. *)

\* What runs counts, or replaces a record in hand that does and that runs nowhere.
LEMMA WhatRunsCounts ==
  ASSUME TypeInv, OneHandInv, NEW n \in Alive, NEW c \in Containers,
         docker[n][c] > 0, BelongsOn(n, c)
  PROVE  LET h == IF recovery.new = c THEN recovery.cur ELSE c
         IN  /\ h \in Containers /\ SvcOf(h) = SvcOf(c) /\ Counts(h)
             /\ h # c => \A m \in Nodes : ~ BelongsOn(m, h)
<1>1. recovery \in Recoveries /\ RecoveryForm /\ None \notin Containers /\ n \in Nodes
  BY Constants DEF TypeInv, Alive
<1>2. OneHand(c)
  BY DEF OneHandInv
<1>3. CASE recovery.new = c
  <2>1. recovery.pc \in {"record", "add"} /\ recovery.node = n
    BY <1>1, <1>2, <1>3, WhereItBelongs
  <2>2. PICK e \in Containers : e = recovery.cur /\ SvcOf(e) = SvcOf(c)
    BY <1>1, <1>3, <2>1 DEF RecoveryForm
  <2>3. OneHand(e) /\ Recovered(e)
    BY <2>1, <2>2 DEF OneHandInv, Recovered
  <2>4. Counts(e)
    BY <2>3 DEF OneHand, Counts, InHands
  <2>5. ASSUME NEW m \in Nodes PROVE ~ BelongsOn(m, e)
    BY <2>3, WhereItBelongs DEF InHands, OneHand
  <2> QED
    BY <1>3, <2>2, <2>4, <2>5
<1>4. CASE recovery.new # c
  <2>1. Runs(c)
    BY DEF Runs
  <2>2. Counts(c)
    BY <1>1, <1>2, <1>4, <2>1, WhereItBelongs DEF OneHand, Counts, InHands
  <2> QED
    BY <1>4, <2>2
<1> QED
  BY <1>3, <1>4

\* A replica belongs in one place.
LEMMA BelongsOnce ==
  ASSUME TypeInv, NEW c \in Containers, NEW n \in Nodes, NEW m \in Nodes,
         OneHand(c), BelongsOn(n, c), BelongsOn(m, c)
  PROVE  n = m
BY WhereItBelongs DEF InHands

\* No more replicas run than count, and none twice.
LEMMA CopiesBounded ==
  ASSUME TypeInv, OneHandInv, RunsInv, BoundInv
  PROVE  NoDuplicateReplicas
<1> SUFFICES ASSUME NEW s \in Services
             PROVE  LET copies == {x \in Alive \X Containers :
                                     SvcOf(x[2]) = s /\ docker[x[1]][x[2]] > 0}
                    IN  /\ Cardinality(copies) <= Replicas
                        /\ \A x \in copies : docker[x[1]][x[2]] = 1
  BY DEF NoDuplicateReplicas
<1> DEFINE copies == {x \in Alive \X Containers : SvcOf(x[2]) = s /\ docker[x[1]][x[2]] > 0}
           holder(c) == IF recovery.new = c THEN recovery.cur ELSE c
           f == [x \in copies |-> holder(x[2])]
<1>1. \A d \in Containers : OneHand(d)
  BY DEF OneHandInv
<1>2. ASSUME NEW x \in copies
      PROVE  /\ x[1] \in Alive /\ x[1] \in Nodes /\ x[2] \in Containers /\ SvcOf(x[2]) = s
             /\ x = <<x[1], x[2]>> /\ docker[x[1]][x[2]] > 0
             /\ docker[x[1]][x[2]] = 1 /\ BelongsOn(x[1], x[2])
  <2>1. /\ x[1] \in Alive /\ x[2] \in Containers /\ SvcOf(x[2]) = s /\ docker[x[1]][x[2]] > 0
        /\ x = <<x[1], x[2]>>
    OBVIOUS
  <2>2. OneCopy(x[1], x[2]) /\ x[1] \in Nodes
    BY <2>1 DEF RunsInv, Alive
  <2> QED
    BY <2>1, <2>2 DEF OneCopy
<1>3. ASSUME NEW x \in copies
      PROVE  /\ holder(x[2]) \in Containers /\ SvcOf(holder(x[2])) = s /\ Counts(holder(x[2]))
             /\ holder(x[2]) # x[2] => \A m \in Nodes : ~ BelongsOn(m, holder(x[2]))
  <2>1. PICK n, c : n = x[1] /\ c = x[2]
    OBVIOUS
  <2>2. n \in Alive /\ c \in Containers /\ SvcOf(c) = s /\ docker[n][c] > 0 /\ BelongsOn(n, c)
    BY <1>2, <2>1
  <2> QED
    BY <2>1, <2>2, WhatRunsCounts
<1>4. f \in [copies -> Counting(s)]
  <2>1. \A x \in copies : holder(x[2]) \in Counting(s)
    BY <1>3 DEF Counting
  <2> HIDE DEF copies, holder
  <2> QED
    BY <2>1
<1>5. ASSUME NEW x \in copies, NEW y \in copies, holder(x[2]) = holder(y[2])
      PROVE  x = y
  <2>1. ASSUME NEW u \in copies, NEW w \in copies, recovery.new = u[2], recovery.new # w[2]
        PROVE  holder(u[2]) # holder(w[2])
    <3>1. holder(w[2]) = w[2] /\ holder(u[2]) = recovery.cur
      BY <2>1
    <3>2. \E m \in Nodes : BelongsOn(m, w[2])
      BY <1>2
    <3>3. CASE recovery.cur = u[2]
      BY <2>1, <3>1, <3>3
    <3>4. CASE recovery.cur # u[2]
      BY <1>3, <3>1, <3>2, <3>4
    <3> QED
      BY <3>3, <3>4
  <2>2. x[2] = y[2]
    BY <1>5, <2>1
  <2>3. x[1] = y[1]
    <3>1. PICK n, m, c : n = x[1] /\ m = y[1] /\ c = x[2]
      OBVIOUS
    <3>2. /\ n \in Nodes /\ m \in Nodes /\ c \in Containers
          /\ BelongsOn(n, c) /\ BelongsOn(m, c)
      BY <1>2, <2>2, <3>1
    <3>3. n = m
      BY <1>1, <3>2, BelongsOnce
    <3> QED
      BY <3>1, <3>3
  <2> QED
    BY <1>2, <2>2, <2>3
<1>6. Cardinality(copies) <= Cardinality(Counting(s)) /\ IsFiniteSet(copies)
  <2>1. \A x, y \in copies : f[x] = f[y] => x = y
    <3> HIDE DEF copies, holder
    <3> QED
      BY <1>5
  <2> HIDE DEF copies, f
  <2>2. f \in Injection(copies, Counting(s))
    BY <1>4, <2>1 DEF Injection, IsInjective
  <2>3. IsFiniteSet(Counting(s))
    BY CountingFinite
  <2> QED
    BY <2>2, <2>3, FS_Injection
<1>7. /\ Cardinality(Counting(s)) <= Made(s) /\ Cardinality(Counting(s)) \in Nat
      /\ Made(s) \in Nat /\ Made(s) <= Replicas /\ Replicas \in Nat
  BY CountingFinite, MadeForm, Constants DEF BoundInv
<1>8. Cardinality(copies) \in Nat
  <2> HIDE DEF copies
  <2> QED
    BY <1>6, FS_CardinalityType
<1>9. Cardinality(copies) <= Replicas
  BY <1>6, <1>7, <1>8
<1> QED
  BY <1>2, <1>9

\* No replica runs twice on ALIVE workers, and not more run than were asked for, not even while
\* a dead node's replicas are replaced and the node comes back, and while services are deleted
\* under the hands of whoever starts them (main.go:124-219, server.go:302-401,
\* tolerance.go:118-150).
THEOREM NeverTwice ==
  ASSUME "slow" \notin Faults, "preempt" \notin Faults, "timeout" \notin Faults,
         "docker" \notin Faults
  PROVE  Spec => []NoDuplicateReplicas
<1>1. Init => CopiesAll
  BY InitType, InitPlans, InitHand, InitCopies, InitBound DEF CopiesAll
<1>2. CopiesAll /\ [Next]_vars => CopiesAll'
  BY StepType, StepPlans, StepHand, StepCopies, StepBound DEF CopiesAll
<1>3. CopiesAll => NoDuplicateReplicas
  BY CopiesBounded DEF CopiesAll
<1> QED
  BY <1>1, <1>2, <1>3, PTL DEF Spec
=============================================================================
