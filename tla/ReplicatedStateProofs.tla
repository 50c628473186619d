------------------------ MODULE ReplicatedStateProofs ------------------------
(***************************************************************************)
(* Theorems of ReplicatedState, for any masters, workers, capacities and   *)
(* logs.                                                                   *)
(***************************************************************************)
EXTENDS ReplicatedState, FiniteSetTheorems, SequenceTheorems, TLAPS

States == [svcs : SUBSET Services, recs : [Containers -> Records]]

PoolTables == [PoolIDs -> Seq(Workers)]

Snapshots == [index : Nat, svcs : SUBSET Services, recs : [Containers -> RecordsSeen],
              nodes : SUBSET Workers, pools : PoolTables, ahead : Nat]

Takings == [on : BOOLEAN, own : BOOLEAN, live : SUBSET Containers, todo : SUBSET Containers,
            snap : Snapshots]

Counts == [elections : 0..MaxElections, crashes : 0..MaxCrashes, snapshots : 0..MaxSnapshots]

TypeInv ==
  /\ Len(log) <= MaxLog
  /\ leader \in Masters \cup {None}
  /\ mode \in [Masters -> {"down", "starting", "up"}]
  /\ leader # None => mode[leader] = "up"
  /\ applied \in [Masters -> Nat]
  /\ svcs \in [Masters -> SUBSET Services]
  /\ recs \in [Masters -> [Containers -> RecordsSeen]]
  /\ ahead \in [Masters -> Nat]
  /\ nodes \in [Masters -> SUBSET Workers]
  /\ pools \in [Masters -> PoolTables]
  /\ hearing \in [Masters -> Workers \cup {None}]
  /\ snap \in [Masters -> Snapshots]
  /\ taking \in [Masters -> Takings]
  /\ count \in Counts

\* H is what the entries of L do, one after the other.
Story(H, L) ==
  /\ L \in Seq(Entries)
  /\ H \in Seq(States)
  /\ Len(H) = Len(L) + 1
  /\ H[1].svcs = {} /\ H[1].recs = NoRecords
  /\ \A k \in 1..Len(L) :
       /\ H[k + 1].svcs = ServicesAfter(H[k].svcs, L[k])
       /\ H[k + 1].recs = RecordsAfter(H[k].recs, L[k])

\* From i entries to k, container c has a record, with node n.
Kept(H, c, n, i, k) ==
  \A j \in i..k : H[j + 1].recs[c] # NoRecord /\ H[j + 1].recs[c].node = n

\* The record shows, whole or torn, a status that one of the entries i + 1 to a gives it; it
\* is the record that the entries up to there change.
Late(H, L, rec, c, i, a) ==
  \E k \in (i + 1)..a :
    /\ L[k].type = "SetContainerStatus" /\ L[k].id = c
    /\ rec.st \in {L[k].st, "TORN"}
    /\ Kept(H, c, rec.node, i, k)

Shown(H, L, rec, c, i, a) == rec = H[i + 1].recs[c] \/ Late(H, L, rec, c, i, a)

\* S and R are the services and records after i entries, ahead up to a in places.
Follows(H, L, S, R, i, a) ==
  /\ i <= Len(L) /\ a <= Len(L)
  /\ S = H[i + 1].svcs
  /\ \A c \in Containers : Shown(H, L, R[c], c, i, a)

Larger(a, b) == IF a > b THEN a ELSE b

MasterFollows(m) == Follows(hist, log, svcs[m], recs[m], applied[m], ahead[m])

SnapFollows(m) == Follows(hist, log, snap[m].svcs, snap[m].recs, snap[m].index, snap[m].ahead)

\* A snapshot in the making may be ahead as far as the master has come meanwhile; the records
\* it shares with the master have been there all the time.
TakingFollows(m) ==
  /\ Follows(hist, log, taking[m].snap.svcs, taking[m].snap.recs, taking[m].snap.index,
             Larger(taking[m].snap.ahead, applied[m]))
  /\ taking[m].snap.index <= applied[m]
  /\ \A c \in taking[m].live :
       Kept(hist, c, taking[m].snap.recs[c].node, taking[m].snap.index, applied[m])
  /\ mode[m] = "down" => taking[m] = NotTaking

\* Every node of a pool matches it, and is in it once.
PoolsFine(P) == \A p \in Pools :
  /\ \A i \in DOMAIN P[p.id] : MatchesNode(p, Capacity[P[p.id][i]])
  /\ \A i, j \in DOMAIN P[p.id] : P[p.id][i] = P[p.id][j] => i = j

MasterPools(m) == PoolsFine(pools[m]) /\ PoolsFine(snap[m].pools) /\ PoolsFine(taking[m].snap.pools)

MasterInv(m) == MasterFollows(m) /\ SnapFollows(m) /\ TakingFollows(m) /\ MasterPools(m)

IInv == TypeInv /\ Story(hist, log) /\ \A m \in Masters : MasterInv(m)

-----------------------------------------------------------------------------
(* Records under log entries. *)

\* What RecordsAfter does to one record.
RecordAfter(rec, c, e) ==
  IF e.id # c \/ e.type \in {"AddService", "RemoveService"} THEN rec
  ELSE IF e.type = "AddContainer" THEN [st |-> e.st, node |-> e.node]
  ELSE IF rec # NoRecord THEN [st |-> e.st, node |-> rec.node]
  ELSE rec

\* The four kinds of log entries.
LEMMA EntryForm ==
  ASSUME NEW e \in Entries
  PROVE  \/ e.type \in {"AddService", "RemoveService"} /\ e.id \in Services
         \/ e.type = "AddContainer" /\ e.id \in Containers /\ e.node \in Workers /\ e.st \in AddedAs
         \/ e.type = "SetContainerStatus" /\ e.id \in Containers /\ e.st \in SetTo
BY DEF Entries

\* A record has a status and a node, which is a worker unless there is no record.
LEMMA RecordForm ==
  ASSUME NEW rec \in RecordsSeen
  PROVE  /\ rec = [st |-> rec.st, node |-> rec.node]
         /\ rec # NoRecord => rec.node \in Workers /\ rec.st \in AddedAs \cup SetTo \cup {"TORN"}
         /\ rec.node \in Workers => rec # NoRecord
BY ReplicatedAssumption DEF RecordsSeen, Records, NoRecord

\* RecordsAfter, one record at a time (state.go: AddContainer, UpdateContainerStatus).
LEMMA RecordsAfterAt ==
  ASSUME NEW R \in [Containers -> RecordsSeen], NEW e \in Entries, NEW c \in Containers
  PROVE  RecordsAfter(R, e)[c] = RecordAfter(R[c], c, e)
<1>1. R[c] \in RecordsSeen
  OBVIOUS
<1>2. R[c] = [st |-> R[c].st, node |-> R[c].node]
  BY <1>1, RecordForm
<1> QED
  BY <1>2, EntryForm DEF RecordsAfter, RecordAfter, NoRecord

\* Entries replace a record by one of the log's, or change a status.
LEMMA RecordAfterSeen ==
  ASSUME NEW rec \in RecordsSeen, NEW e \in Entries, NEW c
  PROVE  RecordAfter(rec, c, e) \in RecordsSeen
BY EntryForm, RecordForm DEF RecordAfter, RecordsSeen, Records

\* The same without a torn status.
LEMMA RecordAfterWhole ==
  ASSUME NEW rec \in Records, NEW e \in Entries, NEW c
  PROVE  RecordAfter(rec, c, e) \in Records
BY EntryForm, RecordForm DEF RecordAfter, RecordsSeen, Records, NoRecord

\* A table of records remains one.
LEMMA RecordsAfterSeen ==
  ASSUME NEW R \in [Containers -> RecordsSeen], NEW e \in Entries
  PROVE  RecordsAfter(R, e) \in [Containers -> RecordsSeen]
<1>1. \A c \in Containers : RecordsAfter(R, e)[c] \in RecordsSeen
  BY RecordsAfterAt, RecordAfterSeen
<1>2. DOMAIN RecordsAfter(R, e) = Containers
  BY DEF RecordsAfter
<1>3. RecordsAfter(R, e) = [c \in DOMAIN RecordsAfter(R, e) |-> RecordsAfter(R, e)[c]]
  BY DEF RecordsAfter
<1> QED
  BY <1>1, <1>2, <1>3

\* The same for what the log prescribes.
LEMMA StateAfter ==
  ASSUME NEW s \in States, NEW e \in Entries
  PROVE  [svcs |-> ServicesAfter(s.svcs, e), recs |-> RecordsAfter(s.recs, e)] \in States
<1>1. s.recs \in [Containers -> Records] /\ s.recs \in [Containers -> RecordsSeen]
  BY DEF States, RecordsSeen
<1>2. \A c \in Containers : RecordsAfter(s.recs, e)[c] \in Records
  BY <1>1, RecordsAfterAt, RecordAfterWhole
<1>3. RecordsAfter(s.recs, e) \in [Containers -> Records]
  BY <1>1, <1>2, RecordsAfterSeen
<1>4. ServicesAfter(s.svcs, e) \in SUBSET Services
  BY EntryForm DEF States, ServicesAfter
<1> QED
  BY <1>3, <1>4 DEF States

-----------------------------------------------------------------------------
(* What the log prescribes. *)

\* After k entries every record is a whole one.
LEMMA Prescribed ==
  ASSUME NEW H, NEW L, Story(H, L), NEW k \in 0..Len(L), NEW c \in Containers
  PROVE  /\ H[k + 1] \in States
         /\ H[k + 1].recs \in [Containers -> RecordsSeen]
         /\ H[k + 1].recs[c] \in Records
         /\ H[k + 1].recs[c] \in RecordsSeen
<1>1. H \in Seq(States) /\ Len(H) = Len(L) + 1 /\ Len(L) \in Nat
  BY DEF Story
<1>2. k + 1 \in 1..Len(H)
  BY <1>1
<1>3. H[k + 1] \in States
  BY <1>1, <1>2
<1> QED
  BY <1>3 DEF States, RecordsSeen

\* One entry more, one record at a time.
LEMMA NextPrescribed ==
  ASSUME NEW H, NEW L, Story(H, L), NEW k \in 1..Len(L), NEW c \in Containers
  PROVE  /\ L[k] \in Entries
         /\ H[k + 1].recs[c] = RecordAfter(H[k].recs[c], c, L[k])
<1>1. L \in Seq(Entries) /\ Len(L) \in Nat
  BY DEF Story
<1>2. L[k] \in Entries
  BY <1>1
<1>3. H[k + 1].recs = RecordsAfter(H[k].recs, L[k])
  BY DEF Story
<1>4. k - 1 \in 0..Len(L) /\ (k - 1) + 1 = k
  BY <1>1
<1>5. H[k].recs \in [Containers -> RecordsSeen]
  BY <1>4, Prescribed
<1> QED
  BY <1>2, <1>3, <1>5, RecordsAfterAt

\* A record that is there keeps its node and gets the status of the entry.
LEMMA StatusSet ==
  ASSUME NEW H, NEW L, Story(H, L), NEW k \in 1..Len(L), NEW c \in Containers,
         L[k].type = "SetContainerStatus", L[k].id = c, H[k].recs[c] # NoRecord
  PROVE  /\ H[k + 1].recs[c] = [st |-> L[k].st, node |-> H[k].recs[c].node]
         /\ H[k + 1].recs[c] # NoRecord
<1>0. H[k + 1].recs[c] = RecordAfter(H[k].recs[c], c, L[k])
  BY NextPrescribed
<1>1. H[k + 1].recs[c] = [st |-> L[k].st, node |-> H[k].recs[c].node]
  BY <1>0 DEF RecordAfter
<1>2. k - 1 \in 0..Len(L) /\ (k - 1) + 1 = k
  BY DEF Story
<1>3. H[k].recs[c] \in RecordsSeen
  BY <1>2, Prescribed
<1>4. H[k].recs[c].node \in Workers
  BY <1>3, RecordForm
<1> QED
  BY <1>1, <1>4, ReplicatedAssumption DEF NoRecord

\* Unless entry k adds the container again, what is kept so far is kept over it.
LEMMA KeptOver ==
  ASSUME NEW H, NEW L, Story(H, L), NEW k \in 1..Len(L), NEW c \in Containers, NEW n,
         NEW i \in Nat, i <= k - 1, Kept(H, c, n, i, k - 1),
         ~(L[k].type = "AddContainer" /\ L[k].id = c)
  PROVE  Kept(H, c, n, i, k)
<1>1. k \in Nat /\ (k - 1) + 1 = k /\ k - 1 \in i..(k - 1)
  BY DEF Story
<1>2. H[k].recs[c] # NoRecord /\ H[k].recs[c].node = n
  BY <1>1 DEF Kept
<1>3. H[k + 1].recs[c] # NoRecord /\ H[k + 1].recs[c].node = n
  <2>1. CASE L[k].type = "SetContainerStatus" /\ L[k].id = c
    <3>1. /\ H[k + 1].recs[c] = [st |-> L[k].st, node |-> H[k].recs[c].node]
          /\ H[k + 1].recs[c] # NoRecord
      BY <2>1, <1>2, StatusSet
    <3> QED
      BY <3>1, <1>2
  <2>2. CASE ~(L[k].type = "SetContainerStatus" /\ L[k].id = c)
    <3>1. H[k + 1].recs[c] = RecordAfter(H[k].recs[c], c, L[k]) /\ L[k] \in Entries
      BY NextPrescribed
    <3>2. L[k].type \in {"AddService", "RemoveService", "AddContainer", "SetContainerStatus"}
      BY <3>1, EntryForm
    <3>3. RecordAfter(H[k].recs[c], c, L[k]) = H[k].recs[c]
      BY <2>2, <3>2 DEF RecordAfter
    <3> QED
      BY <3>1, <3>3, <1>2
  <2> QED
    BY <2>1, <2>2
<1>4. ASSUME NEW j \in i..k
      PROVE  H[j + 1].recs[c] # NoRecord /\ H[j + 1].recs[c].node = n
  <2>1. j \in i..(k - 1) \/ j = k
    BY <1>1
  <2> QED
    BY <2>1, <1>3 DEF Kept
<1> QED
  BY <1>4 DEF Kept

\* What is shown may be ahead further.
LEMMA ShownFurther ==
  ASSUME NEW H, NEW L, NEW rec, NEW c, NEW i \in Nat, NEW a \in Nat, NEW b \in Nat, a <= b,
         Shown(H, L, rec, c, i, a)
  PROVE  Shown(H, L, rec, c, i, b)
<1>1. \A k \in (i + 1)..a : k \in (i + 1)..b
  OBVIOUS
<1> QED
  BY <1>1 DEF Shown, Late

\* A record that is shown is there if the log's is, and has its node.
LEMMA ShownKept ==
  ASSUME NEW H, NEW L, NEW rec, NEW c, NEW i \in Nat, NEW a \in Nat,
         Shown(H, L, rec, c, i, a), rec # NoRecord
  PROVE  Kept(H, c, rec.node, i, i)
<1>1. \A j \in i..i : j = i
  OBVIOUS
<1>2. CASE rec = H[i + 1].recs[c]
  BY <1>1, <1>2 DEF Kept
<1>3. CASE Late(H, L, rec, c, i, a)
  <2>1. PICK k \in (i + 1)..a : Kept(H, c, rec.node, i, k)
    BY <1>3 DEF Late
  <2>2. \A j \in i..i : j \in i..k
    OBVIOUS
  <2> QED
    BY <2>1, <2>2 DEF Kept
<1> QED
  BY <1>2, <1>3 DEF Shown

\* Replay: an entry applied to a record that is already ahead of it leaves one that is not
\* behind (fsm.go: Apply).
LEMMA ShownAfter ==
  ASSUME NEW H, NEW L, Story(H, L), NEW c \in Containers, NEW rec \in RecordsSeen,
         NEW i \in Nat, i < Len(L), NEW a \in Nat, a <= Len(L), Shown(H, L, rec, c, i, a)
  PROVE  Shown(H, L, RecordAfter(rec, c, L[i + 1]), c, i + 1, a)
<1> DEFINE e == L[i + 1]
<1>1. Len(L) \in Nat /\ i + 1 \in 1..Len(L) /\ i \in 0..Len(L)
  BY DEF Story
<1>2. e \in Entries /\ H[(i + 1) + 1].recs[c] = RecordAfter(H[i + 1].recs[c], c, e)
  BY <1>1, NextPrescribed
<1>3. CASE rec = H[i + 1].recs[c]
  BY <1>2, <1>3 DEF Shown
<1>4. CASE Late(H, L, rec, c, i, a)
  <2>1. PICK k \in (i + 1)..a :
          /\ L[k].type = "SetContainerStatus" /\ L[k].id = c
          /\ rec.st \in {L[k].st, "TORN"}
          /\ Kept(H, c, rec.node, i, k)
    BY <1>4 DEF Late
  <2>2. i \in i..k
    OBVIOUS
  <2>3. H[i + 1].recs[c] # NoRecord /\ H[i + 1].recs[c].node = rec.node
    BY <2>1, <2>2 DEF Kept
  <2>4. H[i + 1].recs[c] \in RecordsSeen
    BY <1>1, Prescribed
  <2>5. rec # NoRecord
    BY <2>3, <2>4, RecordForm
  <2>6. CASE e.id = c /\ e.type \in {"AddContainer", "SetContainerStatus"}
    <3>1. RecordAfter(rec, c, e) = RecordAfter(H[i + 1].recs[c], c, e)
      BY <2>3, <2>5, <2>6 DEF RecordAfter
    <3> QED
      BY <3>1, <1>2 DEF Shown
  <2>7. CASE ~(e.id = c /\ e.type \in {"AddContainer", "SetContainerStatus"})
    <3>1. RecordAfter(rec, c, e) = rec
      BY <1>2, <2>7, EntryForm DEF RecordAfter
    <3>2. k # i + 1
      BY <2>1, <2>7
    <3>3. k \in ((i + 1) + 1)..a
      BY <3>2
    <3>4. \A j \in (i + 1)..k : j \in i..k
      OBVIOUS
    <3>5. Kept(H, c, rec.node, i + 1, k)
      BY <2>1, <3>4 DEF Kept
    <3>6. Late(H, L, rec, c, i + 1, a)
      BY <2>1, <3>3, <3>5 DEF Late
    <3> QED
      BY <3>1, <3>6 DEF Shown
  <2> QED
    BY <2>6, <2>7
<1> QED
  BY <1>3, <1>4 DEF Shown

\* Applied to all records.
LEMMA FollowsAfter ==
  ASSUME NEW H, NEW L, Story(H, L), NEW S, NEW R \in [Containers -> RecordsSeen],
         NEW i \in Nat, i < Len(L), NEW a \in Nat, Follows(H, L, S, R, i, a)
  PROVE  Follows(H, L, ServicesAfter(S, L[i + 1]), RecordsAfter(R, L[i + 1]), i + 1, a)
<1>1. Len(L) \in Nat /\ i + 1 \in 1..Len(L) /\ a <= Len(L)
  BY DEF Story, Follows
<1>2. L[i + 1] \in Entries
  BY <1>1 DEF Story
<1>3. H[(i + 1) + 1].svcs = ServicesAfter(S, L[i + 1])
  BY <1>1 DEF Story, Follows
<1>4. ASSUME NEW c \in Containers
      PROVE  Shown(H, L, RecordsAfter(R, L[i + 1])[c], c, i + 1, a)
  <2>1. Shown(H, L, R[c], c, i, a) /\ R[c] \in RecordsSeen
    BY DEF Follows
  <2>2. Shown(H, L, RecordAfter(R[c], c, L[i + 1]), c, i + 1, a)
    BY <2>1, <1>1, ShownAfter
  <2> QED
    BY <2>2, <1>2, RecordsAfterAt
<1> QED
  BY <1>1, <1>3, <1>4 DEF Follows

\* A state may be ahead further.
LEMMA FollowsFurther ==
  ASSUME NEW H, NEW L, NEW S, NEW R, NEW i \in Nat, NEW a \in Nat, NEW b \in Nat, a <= b,
         b <= Len(L), Follows(H, L, S, R, i, a)
  PROVE  Follows(H, L, S, R, i, b)
<1>1. \A c \in Containers : Shown(H, L, R[c], c, i, b)
  BY ShownFurther DEF Follows
<1> QED
  BY <1>1 DEF Follows

\* Before the first entry there is nothing.
LEMMA FollowsNothing ==
  ASSUME NEW H, NEW L, Story(H, L), NEW a \in Nat, a <= Len(L)
  PROVE  Follows(H, L, {}, NoRecords, 0, a)
<1>1. H[0 + 1].svcs = {} /\ H[0 + 1].recs = NoRecords /\ 0 <= Len(L)
  BY DEF Story
<1>2. \A c \in Containers : Shown(H, L, NoRecords[c], c, 0, a)
  BY <1>1 DEF Shown
<1> QED
  BY <1>1, <1>2 DEF Follows

\* The records R with another status for c.
Marked(R, c, st) == [R EXCEPT ![c].st = st]

\* While a snapshot is marshalled, an entry changes the status of a record that it shares: the
\* snapshot is ahead at least up to that entry.
LEMMA FollowsShared ==
  ASSUME NEW H, NEW L, Story(H, L), NEW S, NEW R \in [Containers -> RecordsSeen],
         NEW i \in Nat, NEW a \in Nat, NEW k \in 1..Len(L), i < k, k <= a,
         Follows(H, L, S, R, i, a), NEW c \in Containers,
         L[k].type = "SetContainerStatus", L[k].id = c, Kept(H, c, R[c].node, i, k - 1),
         NEW st \in {L[k].st, "TORN"}
  PROVE  /\ Marked(R, c, st) \in [Containers -> RecordsSeen]
         /\ \A d \in Containers : Marked(R, c, st)[d].node = R[d].node
         /\ Follows(H, L, S, Marked(R, c, st), i, a)
<1> DEFINE Q == Marked(R, c, st)
<1>1. k \in Nat /\ Len(L) \in Nat /\ k <= Len(L) /\ i <= k - 1 /\ i \in i..(k - 1)
      /\ i \in 0..Len(L)
  BY DEF Story
<1>2. R[c] = [st |-> R[c].st, node |-> R[c].node] /\ R[c] \in RecordsSeen
  BY RecordForm
<1>3. Q[c] = [st |-> st, node |-> R[c].node] /\ \A d \in Containers \ {c} : Q[d] = R[d]
  BY <1>2 DEF Marked
<1>4. H[i + 1].recs[c] # NoRecord /\ H[i + 1].recs[c].node = R[c].node
  BY <1>1 DEF Kept
<1>5. R[c].node \in Workers
  BY <1>1, <1>4, Prescribed, RecordForm
<1>6. L[k] \in Entries
  BY <1>1, NextPrescribed
<1>7. st \in SetTo \cup {"TORN"}
  BY <1>6, EntryForm
<1>8. Q[c] \in RecordsSeen
  BY <1>3, <1>5, <1>7 DEF RecordsSeen, Records
<1>9. Q \in [Containers -> RecordsSeen]
  BY <1>3, <1>8 DEF Marked
<1> HIDE DEF Q
<1>10. \A d \in Containers : Q[d].node = R[d].node
  <2>1. Q[c].node = R[c].node
    BY <1>3
  <2> QED
    BY <1>3, <2>1
<1>11. Kept(H, c, R[c].node, i, k)
  BY <1>1, KeptOver
<1>12. Late(H, L, Q[c], c, i, a)
  <2>1. k \in (i + 1)..a
    BY <1>1
  <2>2. Q[c].st = st /\ Q[c].node = R[c].node
    BY <1>3
  <2> QED
    BY <2>1, <2>2, <1>11 DEF Late
<1>13. \A d \in Containers : Shown(H, L, Q[d], d, i, a)
  <2> SUFFICES ASSUME NEW d \in Containers PROVE Shown(H, L, Q[d], d, i, a)
    OBVIOUS
  <2>1. CASE d = c
    BY <2>1, <1>12 DEF Shown
  <2>2. CASE d # c
    <3>1. Shown(H, L, R[d], d, i, a)
      BY DEF Follows
    <3> QED
      BY <2>2, <3>1, <1>3
  <2> QED
    BY <2>1, <2>2
<1>14. Follows(H, L, S, Q, i, a)
  BY <1>13 DEF Follows
<1> QED
  BY <1>9, <1>10, <1>14 DEF Q

-----------------------------------------------------------------------------
(* The log grows. *)

Grown(H, L, G, K) ==
  /\ Story(H, L)
  /\ Story(G, K)
  /\ Len(L) <= Len(K)
  /\ \A k \in 1..Len(L) : K[k] = L[k]
  /\ \A k \in 0..Len(L) : G[k + 1] = H[k + 1]

\* An entry that is appended with its effect continues the story.
LEMMA Continued ==
  ASSUME NEW H, NEW L, Story(H, L), NEW e \in Entries, NEW s, s = H[Len(H)]
  PROVE  Grown(H, L, Append(H, [svcs |-> ServicesAfter(s.svcs, e),
                                recs |-> RecordsAfter(s.recs, e)]), Append(L, e))
<1> DEFINE t == [svcs |-> ServicesAfter(s.svcs, e), recs |-> RecordsAfter(s.recs, e)]
           G == Append(H, t)
           K == Append(L, e)
<1>1. L \in Seq(Entries) /\ H \in Seq(States) /\ Len(H) = Len(L) + 1 /\ Len(L) \in Nat
  BY DEF Story
<1>2. Len(H) \in 1..Len(H)
  BY <1>1
<1>3. s \in States
  BY <1>1, <1>2
<1>4. t \in States
  BY <1>3, StateAfter
<1>5. /\ K \in Seq(Entries) /\ Len(K) = Len(L) + 1
      /\ \A k \in 1..Len(L) : K[k] = L[k]
      /\ K[Len(L) + 1] = e
  BY <1>1, AppendProperties
<1>6. /\ G \in Seq(States) /\ Len(G) = Len(H) + 1
      /\ \A k \in 1..Len(H) : G[k] = H[k]
      /\ G[Len(H) + 1] = t
  BY <1>1, <1>4, AppendProperties
<1>7. t.svcs = ServicesAfter(s.svcs, e) /\ t.recs = RecordsAfter(s.recs, e)
  OBVIOUS
<1> HIDE DEF t, G, K
<1>8. \A k \in 0..Len(L) : G[k + 1] = H[k + 1]
  BY <1>1, <1>6
<1>9. Story(G, K)
  <2>1. G[1].svcs = {} /\ G[1].recs = NoRecords
    <3>1. 1 \in 1..Len(H)
      BY <1>1
    <3> QED
      BY <3>1, <1>6 DEF Story
  <2>2. ASSUME NEW k \in 1..Len(K)
        PROVE  /\ G[k + 1].svcs = ServicesAfter(G[k].svcs, K[k])
               /\ G[k + 1].recs = RecordsAfter(G[k].recs, K[k])
    <3>1. CASE k = Len(L) + 1
      <4>1. G[k + 1] = t /\ K[k] = e
        BY <3>1, <1>1, <1>5, <1>6
      <4>2. G[k] = s
        BY <3>1, <1>1, <1>2, <1>6
      <4> QED
        BY <4>1, <4>2, <1>7
    <3>2. CASE k # Len(L) + 1
      <4>1. k \in 1..Len(L) /\ k \in 1..Len(H) /\ k + 1 \in 1..Len(H)
        BY <3>2, <1>1, <1>5
      <4>2. G[k] = H[k] /\ G[k + 1] = H[k + 1] /\ K[k] = L[k]
        BY <4>1, <1>5, <1>6
      <4> QED
        BY <4>1, <4>2 DEF Story
    <3> QED
      BY <3>1, <3>2
  <2>3. Len(G) = Len(K) + 1
    BY <1>1, <1>5, <1>6
  <2> QED
    BY <1>5, <1>6, <2>1, <2>2, <2>3 DEF Story
<1>10. Len(L) <= Len(K)
  BY <1>1, <1>5
<1>11. Grown(H, L, G, K)
  BY <1>5, <1>8, <1>9, <1>10 DEF Grown
<1> QED
  BY <1>11 DEF G, K, t

\* What was kept before remains so.
LEMMA GrownKept ==
  ASSUME NEW H, NEW L, NEW G, NEW K, Grown(H, L, G, K), NEW c, NEW n,
         NEW i \in Nat, NEW k \in Nat, k <= Len(L), Kept(H, c, n, i, k)
  PROVE  Kept(G, c, n, i, k)
<1>1. Len(L) \in Nat
  BY DEF Grown, Story
<1>2. \A j \in i..k : j \in 0..Len(L)
  BY <1>1
<1>3. \A j \in i..k : G[j + 1] = H[j + 1]
  BY <1>2 DEF Grown
<1> QED
  BY <1>3 DEF Kept

\* A state that follows the log goes on doing so.
LEMMA GrownFollows ==
  ASSUME NEW H, NEW L, NEW G, NEW K, Grown(H, L, G, K), NEW S, NEW R,
         NEW i \in Nat, NEW a \in Nat, Follows(H, L, S, R, i, a)
  PROVE  Follows(G, K, S, R, i, a)
<1>1. Len(L) \in Nat /\ Len(K) \in Nat /\ Len(L) <= Len(K) /\ i <= Len(L) /\ a <= Len(L)
  BY DEF Grown, Story, Follows
<1>2. i \in 0..Len(L) /\ G[i + 1] = H[i + 1]
  BY <1>1 DEF Grown
<1>3. ASSUME NEW c \in Containers
      PROVE  Shown(G, K, R[c], c, i, a)
  <2>1. CASE R[c] = H[i + 1].recs[c]
    BY <2>1, <1>2 DEF Shown
  <2>2. CASE Late(H, L, R[c], c, i, a)
    <3>1. PICK k \in (i + 1)..a :
            /\ L[k].type = "SetContainerStatus" /\ L[k].id = c
            /\ R[c].st \in {L[k].st, "TORN"}
            /\ Kept(H, c, R[c].node, i, k)
      BY <2>2 DEF Late
    <3>2. k \in 1..Len(L) /\ k \in Nat /\ k <= Len(L)
      BY <1>1
    <3>3. K[k] = L[k]
      BY <3>2 DEF Grown
    <3>4. Kept(G, c, R[c].node, i, k)
      BY <3>1, <3>2, GrownKept
    <3> QED
      BY <3>1, <3>3, <3>4 DEF Shown, Late
  <2> QED
    BY <2>1, <2>2 DEF Follows, Shown
<1> QED
  BY <1>1, <1>2, <1>3 DEF Follows

-----------------------------------------------------------------------------
(* Pools. *)

\* A pool table has a list of workers for every pool.
LEMMA PoolsTyped ==
  /\ EmptyPools \in PoolTables
  /\ \A P \in PoolTables, p \in Pools : p.id \in PoolIDs /\ P[p.id] \in Seq(Workers)
BY DEF EmptyPools, PoolTables, PoolIDs

\* New pools are empty.
LEMMA EmptyPoolsFine == PoolsFine(EmptyPools)
<1>1. \A p \in Pools : EmptyPools[p.id] = <<>>
  BY DEF EmptyPools, PoolIDs
<1>2. DOMAIN <<>> = {}
  OBVIOUS
<1> QED
  BY <1>1, <1>2 DEF PoolsFine

\* A worker of any size matches at most one pool (main.go: default pools).
LEMMA OnePool ==
  ASSUME NEW w \in Workers, NEW p \in Pools, NEW q \in Pools,
         MatchesNode(p, Capacity[w]), MatchesNode(q, Capacity[w])
  PROVE  p = q
<1>1. Capacity[w].cpu \in Nat /\ Capacity[w].ram \in Nat
  BY ReplicatedAssumption
<1> QED
  BY <1>1 DEF Pools, MatchesNode

\* Pools have different names.
LEMMA PoolNames ==
  ASSUME NEW p \in Pools, NEW q \in Pools, p.id = q.id
  PROVE  p = q
BY DEF Pools

\* A list of different workers, with one more.
LEMMA AppendNew ==
  ASSUME NEW s \in Seq(Workers), NEW w \in Workers, w \notin IDs(s),
         \A i, j \in DOMAIN s : s[i] = s[j] => i = j
  PROVE  /\ Append(s, w) \in Seq(Workers)
         /\ \A i \in DOMAIN Append(s, w) :
              Append(s, w)[i] = w \/ (i \in DOMAIN s /\ Append(s, w)[i] = s[i])
         /\ \A i, j \in DOMAIN Append(s, w) : Append(s, w)[i] = Append(s, w)[j] => i = j
<1> DEFINE t == Append(s, w)
<1>1. /\ t \in Seq(Workers) /\ Len(t) = Len(s) + 1
      /\ \A i \in 1..Len(s) : t[i] = s[i]
      /\ t[Len(s) + 1] = w
      /\ Len(s) \in Nat
  BY AppendProperties
<1> HIDE DEF t
<1>2. DOMAIN t = 1..Len(t) /\ DOMAIN s = 1..Len(s)
  BY <1>1
<1>3. ASSUME NEW i \in DOMAIN t
      PROVE  (i \in DOMAIN s /\ t[i] = s[i]) \/ (i = Len(s) + 1 /\ t[i] = w)
  <2>1. i \in 1..Len(s) \/ i = Len(s) + 1
    BY <1>1, <1>2
  <2> QED
    BY <2>1, <1>1, <1>2
<1>4. \A i \in DOMAIN s : s[i] # w
  BY DEF IDs
<1>5. \A i, j \in DOMAIN t : t[i] = t[j] => i = j
  BY <1>3, <1>4
<1>6. \A i \in DOMAIN t : t[i] = w \/ (i \in DOMAIN s /\ t[i] = s[i])
  BY <1>3
<1> QED
  BY <1>1, <1>5, <1>6 DEF t

\* AssignNodeToPool looks for the node in the pool first (state.go).
LEMMA Assigned ==
  ASSUME NEW P \in PoolTables, PoolsFine(P), NEW w \in Workers, NEW p \in Pools,
         MatchesNode(p, Capacity[w]), NEW s,
         s = IF w \in IDs(P[p.id]) THEN P[p.id] ELSE Append(P[p.id], w)
  PROVE  /\ [P EXCEPT ![p.id] = s] \in PoolTables
         /\ PoolsFine([P EXCEPT ![p.id] = s])
<1> DEFINE Q == [P EXCEPT ![p.id] = s]
<1>1. p.id \in PoolIDs /\ P[p.id] \in Seq(Workers)
  BY PoolsTyped
<1>2. /\ \A i \in DOMAIN P[p.id] : MatchesNode(p, Capacity[P[p.id][i]])
      /\ \A i, j \in DOMAIN P[p.id] : P[p.id][i] = P[p.id][j] => i = j
  BY DEF PoolsFine
<1>3. /\ s \in Seq(Workers)
      /\ \A i \in DOMAIN s : s[i] = w \/ (i \in DOMAIN P[p.id] /\ s[i] = P[p.id][i])
      /\ \A i, j \in DOMAIN s : s[i] = s[j] => i = j
  <2>1. CASE w \in IDs(P[p.id])
    BY <2>1, <1>1, <1>2
  <2>2. CASE w \notin IDs(P[p.id])
    BY <2>2, <1>1, <1>2, AppendNew
  <2> QED
    BY <2>1, <2>2
<1>4. Q \in PoolTables /\ Q[p.id] = s /\ \A x \in PoolIDs \ {p.id} : Q[x] = P[x]
  BY <1>1, <1>3 DEF PoolTables
<1> HIDE DEF Q
<1>5. \A i \in DOMAIN s : MatchesNode(p, Capacity[s[i]])
  BY <1>2, <1>3
<1>6. ASSUME NEW q \in Pools
      PROVE  /\ \A i \in DOMAIN Q[q.id] : MatchesNode(q, Capacity[Q[q.id][i]])
             /\ \A i, j \in DOMAIN Q[q.id] : Q[q.id][i] = Q[q.id][j] => i = j
  <2>1. CASE q.id = p.id
    <3>1. q = p
      BY <2>1, PoolNames
    <3> QED
      BY <3>1, <1>3, <1>4, <1>5
  <2>2. CASE q.id # p.id
    <3>1. Q[q.id] = P[q.id]
      BY <2>2, <1>4, PoolsTyped
    <3> QED
      BY <3>1 DEF PoolsFine
  <2> QED
    BY <2>1, <2>2
<1>7. PoolsFine(Q)
  BY <1>6 DEF PoolsFine
<1> QED
  BY <1>4, <1>7 DEF Q

-----------------------------------------------------------------------------
(* Snapshots. *)

\* NoSnapshot and NotTaking are what their names say.
LEMMA NothingTyped ==
  /\ NoRecords \in [Containers -> RecordsSeen]
  /\ NoSnapshot \in Snapshots
  /\ NotTaking \in Takings
  /\ PoolsFine(NoSnapshot.pools)
<1>1. NoRecords \in [Containers -> RecordsSeen]
  BY DEF NoRecords, RecordsSeen, Records
<1>2. NoSnapshot \in Snapshots
  BY <1>1, PoolsTyped DEF NoSnapshot, Snapshots
<1>3. NotTaking \in Takings
  BY <1>2 DEF NotTaking, Takings
<1>4. PoolsFine(NoSnapshot.pools)
  BY EmptyPoolsFine DEF NoSnapshot
<1> QED
  BY <1>1, <1>2, <1>3, <1>4

\* The fields of a snapshot.
LEMMA SnapshotForm ==
  ASSUME NEW s \in Snapshots
  PROVE  /\ s.index \in Nat /\ s.ahead \in Nat /\ s.svcs \in SUBSET Services
         /\ s.recs \in [Containers -> RecordsSeen] /\ s.nodes \in SUBSET Workers
         /\ s.pools \in PoolTables
BY DEF Snapshots

\* The fields of a snapshot in the making.
LEMMA TakingForm ==
  ASSUME NEW t \in Takings
  PROVE  /\ t.on \in BOOLEAN /\ t.own \in BOOLEAN /\ t.snap \in Snapshots
         /\ t.live \in SUBSET Containers /\ t.todo \in SUBSET Containers
BY DEF Takings

\* The larger one of two numbers.
LEMMA LargerIs ==
  ASSUME NEW a \in Nat, NEW b \in Nat
  PROVE  Larger(a, b) \in Nat /\ a <= Larger(a, b) /\ b <= Larger(a, b) /\ Larger(a, b) \in {a, b}
BY DEF Larger

-----------------------------------------------------------------------------
(* The initial state. *)

\* Init: every master is empty, and the log is.
LEMMA Initially == Init => IInv
<1> SUFFICES ASSUME Init PROVE IInv
  OBVIOUS
<1> USE DEF Init
<1>1. {MaxLog, MaxElections, MaxCrashes, MaxSnapshots} \subseteq Nat
  BY ReplicatedAssumption
<1>2. Len(log) = 0 /\ log \in Seq(Entries)
  OBVIOUS
<1>3. TypeInv
  <2>1. svcs \in [Masters -> SUBSET Services] /\ nodes \in [Masters -> SUBSET Workers]
    OBVIOUS
  <2>2. recs \in [Masters -> [Containers -> RecordsSeen]]
    BY NothingTyped
  <2>3. pools \in [Masters -> PoolTables]
    BY PoolsTyped
  <2>4. snap \in [Masters -> Snapshots] /\ taking \in [Masters -> Takings]
    BY NothingTyped
  <2>5. MaxElections \in Nat /\ MaxCrashes \in Nat /\ MaxSnapshots \in Nat /\ MaxLog \in Nat
    BY <1>1
  <2>6. applied \in [Masters -> Nat] /\ ahead \in [Masters -> Nat]
        /\ hearing \in [Masters -> Workers \cup {None}]
        /\ mode \in [Masters -> {"down", "starting", "up"}]
    OBVIOUS
  <2>7. count \in [elections : 0..MaxElections, crashes : 0..MaxCrashes,
                   snapshots : 0..MaxSnapshots]
    BY <2>5
  <2> QED
    BY <2>1, <2>2, <2>3, <2>4, <2>5, <2>6, <2>7, <1>2 DEF TypeInv, Counts
<1>4. Story(hist, log)
  <2>1. [svcs |-> {}, recs |-> NoRecords] \in States
    BY DEF States, NoRecords, Records
  <2>2. hist \in Seq(States) /\ Len(hist) = 1 /\ hist[1] = [svcs |-> {}, recs |-> NoRecords]
    BY <2>1
  <2>3. 1..Len(log) = {}
    BY <1>2
  <2> QED
    BY <1>2, <2>2, <2>3 DEF Story
<1>5. ASSUME NEW m \in Masters
      PROVE  MasterInv(m)
  <2>1. Follows(hist, log, {}, NoRecords, 0, 0)
    BY <1>2, <1>4, FollowsNothing
  <2>2. MasterFollows(m)
    BY <2>1 DEF MasterFollows
  <2>3. SnapFollows(m)
    BY <2>1 DEF SnapFollows, NoSnapshot
  <2>4. TakingFollows(m)
    <3>1. taking[m] = NotTaking /\ applied[m] = 0
      OBVIOUS
    <3>2. /\ NotTaking.live = {}
          /\ NotTaking.snap.index = 0 /\ NotTaking.snap.ahead = 0
          /\ NotTaking.snap.svcs = {} /\ NotTaking.snap.recs = NoRecords
      BY DEF NotTaking, NoSnapshot
    <3>3. Larger(0, 0) = 0
      BY DEF Larger
    <3> HIDE DEF Init
    <3>4. /\ taking[m].snap.index = 0 /\ taking[m].snap.ahead = 0
          /\ taking[m].snap.svcs = {} /\ taking[m].snap.recs = NoRecords
          /\ taking[m].live = {}
      BY <3>1, <3>2
    <3>5. Follows(hist, log, taking[m].snap.svcs, taking[m].snap.recs, taking[m].snap.index,
                  Larger(taking[m].snap.ahead, applied[m]))
      BY <2>1, <3>1, <3>3, <3>4
    <3> QED
      BY <3>1, <3>4, <3>5 DEF TakingFollows
  <2>5. MasterPools(m)
    BY EmptyPoolsFine DEF MasterPools, NotTaking, NoSnapshot
  <2> QED
    BY <2>2, <2>3, <2>4, <2>5 DEF MasterInv
<1> QED
  BY <1>3, <1>4, <1>5 DEF IInv

-----------------------------------------------------------------------------
(* The steps. *)

\* The parts of the invariant that concern one master.
LEMMA Known ==
  ASSUME IInv, NEW m \in Masters
  PROVE  /\ Story(hist, log) /\ Len(log) \in Nat /\ log \in Seq(Entries)
         /\ applied[m] \in Nat /\ ahead[m] \in Nat
         /\ recs[m] \in [Containers -> RecordsSeen] /\ pools[m] \in PoolTables
         /\ svcs[m] \in SUBSET Services /\ nodes[m] \in SUBSET Workers
         /\ snap[m] \in Snapshots /\ taking[m] \in Takings
         /\ mode[m] \in {"down", "starting", "up"}
         /\ MasterFollows(m) /\ SnapFollows(m) /\ TakingFollows(m) /\ MasterPools(m)
BY DEF IInv, TypeInv, Story, MasterInv

\* A step that leaves a master alone.
LEMMA Same ==
  ASSUME NEW m \in Masters, MasterInv(m), hist' = hist, log' = log,
         svcs'[m] = svcs[m], recs'[m] = recs[m], applied'[m] = applied[m], ahead'[m] = ahead[m],
         pools'[m] = pools[m], snap'[m] = snap[m], taking'[m] = taking[m],
         mode'[m] = "down" => mode[m] = "down"
  PROVE  MasterInv(m)'
BY DEF MasterInv, MasterFollows, SnapFollows, TakingFollows, MasterPools

\* A step of master m that leaves the log alone.
LEMMA Others ==
  ASSUME IInv, NEW m \in Masters, TypeInv', hist' = hist, log' = log, MasterInv(m)',
         \A n \in Masters \ {m} :
           /\ svcs'[n] = svcs[n] /\ recs'[n] = recs[n] /\ applied'[n] = applied[n]
           /\ ahead'[n] = ahead[n] /\ pools'[n] = pools[n] /\ snap'[n] = snap[n]
           /\ taking'[n] = taking[n] /\ mode'[n] = mode[n]
  PROVE  IInv'
<1>1. Story(hist, log)'
  BY DEF IInv
<1>2. ASSUME NEW n \in Masters
      PROVE  MasterInv(n)'
  <2>1. CASE n = m
    BY <2>1
  <2>2. CASE n # m
    BY <2>2, Same DEF IInv
  <2> QED
    BY <2>1, <2>2
<1> QED
  BY <1>1, <1>2 DEF IInv

\* A step that no part of the invariant but TypeInv is about.
LEMMA Apart ==
  ASSUME IInv, TypeInv', UNCHANGED <<log, hist, replicated, pools, snap, taking>>,
         \A n \in Masters : mode'[n] = "down" => mode[n] = "down"
  PROVE  IInv'
<1>1. Story(hist, log)'
  BY DEF IInv
<1>2. ASSUME NEW n \in Masters
      PROVE  MasterInv(n)'
  BY Same DEF IInv, replicated
<1> QED
  BY <1>1, <1>2 DEF IInv

\* The bounds are kept.
LEMMA Counting ==
  /\ count \in Counts /\ count.elections < MaxElections
       => [count EXCEPT !.elections = @ + 1] \in Counts
  /\ count \in Counts /\ count.crashes < MaxCrashes
       => [count EXCEPT !.crashes = @ + 1] \in Counts
  /\ count \in Counts /\ count.snapshots < MaxSnapshots
       => [count EXCEPT !.snapshots = @ + 1] \in Counts
<1>1. {MaxLog, MaxElections, MaxCrashes, MaxSnapshots} \subseteq Nat
  BY ReplicatedAssumption
<1>2. MaxElections \in Nat /\ MaxCrashes \in Nat /\ MaxSnapshots \in Nat
  BY <1>1
<1> QED
  BY <1>2 DEF Counts

\* An election changes nothing but the leader.
LEMMA ElectStep == ASSUME IInv, NEW m \in Masters, Elect(m) PROVE IInv'
<1>1. count' \in Counts
  BY Counting DEF IInv, TypeInv, Counts, Elect
<1>2. TypeInv'
  BY <1>1 DEF IInv, TypeInv, Counts, Elect, replicated, local
<1> QED
  BY <1>2, Apart DEF Elect, local

\* Raft appends: every state goes on following the log.
LEMMA ApplyStep == ASSUME IInv, NEW m \in Masters, NEW e \in Entries, Apply(m, e) PROVE IInv'
<1>1. Grown(hist, log, hist', log')
  <2>1. Story(hist, log)
    BY DEF IInv
  <2>2. PICK s : s = hist[Len(hist)]
    OBVIOUS
  <2>3. /\ log' = Append(log, e)
        /\ hist' = Append(hist, [svcs |-> ServicesAfter(s.svcs, e),
                                 recs |-> RecordsAfter(s.recs, e)])
    BY <2>2 DEF Apply
  <2> QED
    BY <2>1, <2>2, <2>3, Continued
<1>2. Len(log) \in Nat /\ log \in Seq(Entries) /\ MaxLog \in Nat
  BY ReplicatedAssumption DEF IInv, Story
<1>3. Len(log') = Len(log) + 1
  BY <1>2, AppendProperties DEF Apply
<1>4. TypeInv'
  BY <1>2, <1>3 DEF IInv, TypeInv, Apply, replicated, local
<1>5. Story(hist, log)'
  BY <1>1 DEF Grown
<1>6. ASSUME NEW n \in Masters
      PROVE  MasterInv(n)'
  <2>1. /\ applied[n] \in Nat /\ ahead[n] \in Nat /\ snap[n] \in Snapshots /\ taking[n] \in Takings
        /\ MasterFollows(n) /\ SnapFollows(n) /\ TakingFollows(n) /\ MasterPools(n)
    BY Known
  <2>2. UNCHANGED <<applied, svcs, recs, ahead, pools, snap, taking, mode>>
    BY DEF Apply, replicated, local
  <2>3. snap[n].index \in Nat /\ snap[n].ahead \in Nat
    BY <2>1, SnapshotForm
  <2>4. taking[n].snap.index \in Nat /\ taking[n].snap.ahead \in Nat
    BY <2>1, TakingForm, SnapshotForm
  <2>5. MasterFollows(n)'
    BY <2>1, <2>2, <1>1, GrownFollows DEF MasterFollows
  <2>6. SnapFollows(n)'
    BY <2>1, <2>2, <2>3, <1>1, GrownFollows DEF SnapFollows
  <2>7. TakingFollows(n)'
    <3>1. Larger(taking[n].snap.ahead, applied[n]) \in Nat
      BY <2>1, <2>4, LargerIs
    <3>2. Follows(hist', log', taking[n].snap.svcs, taking[n].snap.recs, taking[n].snap.index,
                  Larger(taking[n].snap.ahead, applied[n]))
      BY <3>1, <2>1, <2>4, <1>1, GrownFollows DEF TakingFollows
    <3>3. applied[n] <= Len(log)
      BY <2>1 DEF MasterFollows, Follows
    <3>4. \A c \in taking[n].live :
            Kept(hist', c, taking[n].snap.recs[c].node, taking[n].snap.index, applied[n])
      BY <3>3, <2>1, <2>4, <1>1, GrownKept DEF TakingFollows
    <3> QED
      BY <3>2, <3>4, <2>1, <2>2 DEF TakingFollows
  <2>8. MasterPools(n)'
    BY <2>1, <2>2 DEF MasterPools
  <2> QED
    BY <2>5, <2>6, <2>7, <2>8 DEF MasterInv
<1> QED
  BY <1>4, <1>5, <1>6 DEF IInv

\* The snapshot T in the making, with another status for c: read before or while it is written.
Marking(T, c, st) == {[T EXCEPT !.snap.recs[c].st = st],
                      [T EXCEPT !.snap.recs[c].st = st, !.todo = @ \ {c}]}

\* A snapshot in the making of which the status of a record has changed.
LEMMA TakingEdited ==
  ASSUME NEW T \in Takings, NEW c \in Containers, NEW st,
         Marked(T.snap.recs, c, st) \in [Containers -> RecordsSeen]
  PROVE  \A t \in Marking(T, c, st) :
           /\ t \in Takings
           /\ t.live = T.live
           /\ t.snap.recs = Marked(T.snap.recs, c, st)
           /\ t.snap.svcs = T.snap.svcs /\ t.snap.index = T.snap.index
           /\ t.snap.ahead = T.snap.ahead /\ t.snap.pools = T.snap.pools
<1> DEFINE R == Marked(T.snap.recs, c, st)
           s == [T.snap EXCEPT !.recs = R]
           u == [T EXCEPT !.snap = s]
           v == [u EXCEPT !.todo = @ \ {c}]
<1>1. T.snap \in Snapshots /\ R \in [Containers -> RecordsSeen]
  BY DEF Takings
<1>2. [T.snap EXCEPT !.recs[c].st = st] = s
  BY <1>1 DEF Snapshots, Marked
<1>3. [T EXCEPT !.snap.recs[c].st = st] = u
  BY <1>2 DEF Takings
<1>4. [T EXCEPT !.snap.recs[c].st = st, !.todo = @ \ {c}] = v
  BY <1>2 DEF Takings
<1> HIDE DEF R
<1>5. /\ s \in Snapshots /\ s.recs = R /\ s.svcs = T.snap.svcs /\ s.index = T.snap.index
      /\ s.ahead = T.snap.ahead /\ s.pools = T.snap.pools
  BY <1>1 DEF Snapshots
<1> HIDE DEF s
<1>6. u \in Takings /\ u.live = T.live /\ u.snap = s
  BY <1>5 DEF Takings
<1> HIDE DEF u
<1>7. v \in Takings /\ v.live = T.live /\ v.snap = s
  BY <1>6 DEF Takings
<1>8. Marking(T, c, st) = {u, v}
  BY <1>3, <1>4 DEF Marking
<1> QED
  BY <1>5, <1>6, <1>7, <1>8 DEF R

\* Whatever an entry does to a snapshot in the making, the snapshot is ahead no further than the
\* master then is, and the records it still shares are the log's (fsm.go: Persist).
LEMMA TakingKept ==
  ASSUME IInv, NEW m \in Masters, applied[m] < Len(log), mode[m] # "down",
         NEW t \in TakingAfter(m, log[applied[m] + 1])
  PROVE  /\ t \in Takings
         /\ t.snap.pools = taking[m].snap.pools
         /\ Follows(hist, log, t.snap.svcs, t.snap.recs, t.snap.index,
                    Larger(t.snap.ahead, applied[m] + 1))
         /\ t.snap.index <= applied[m] + 1
         /\ \A c \in t.live : Kept(hist, c, t.snap.recs[c].node, t.snap.index, applied[m] + 1)
<1>1. PICK T, p, k, e : T = taking[m] /\ p = applied[m] /\ k = p + 1 /\ e = log[k]
  OBVIOUS
<1>2. /\ Story(hist, log) /\ Len(log) \in Nat /\ log \in Seq(Entries)
      /\ p \in Nat /\ T \in Takings /\ TakingFollows(m)
  BY <1>1, Known
<1>3. /\ Follows(hist, log, T.snap.svcs, T.snap.recs, T.snap.index, Larger(T.snap.ahead, p))
      /\ T.snap.index <= p
      /\ \A c \in T.live : Kept(hist, c, T.snap.recs[c].node, T.snap.index, p)
  BY <1>1, <1>2 DEF TakingFollows
<1>4. /\ k \in 1..Len(log) /\ k \in Nat /\ k - 1 = p /\ k <= Len(log) /\ p <= k
  BY <1>1, <1>2
<1>5. e \in Entries
  BY <1>1, <1>2, <1>4
<1>6. /\ T.snap \in Snapshots /\ T.snap.index \in Nat /\ T.snap.ahead \in Nat
      /\ T.snap.recs \in [Containers -> RecordsSeen] /\ T.live \in SUBSET Containers
  BY <1>2, TakingForm, SnapshotForm
<1>7. PICK i, a, b, x : /\ i = T.snap.index /\ x = T.snap.ahead
                        /\ a = Larger(x, p) /\ b = Larger(x, k)
  OBVIOUS
<1>8. i \in Nat /\ x \in Nat /\ a \in Nat /\ b \in Nat /\ a <= b /\ k <= b /\ i <= p /\ i < k
  BY <1>2, <1>3, <1>4, <1>6, <1>7 DEF Larger
<1>9. b <= Len(log)
  BY <1>3, <1>4, <1>6, <1>7, <1>8 DEF Follows, Larger
<1>10. Follows(hist, log, T.snap.svcs, T.snap.recs, i, b)
  BY <1>3, <1>7, <1>8, <1>9, FollowsFurther
<1> SUFFICES /\ t \in Takings /\ t.snap.pools = T.snap.pools
             /\ t.snap.index = i /\ t.snap.ahead = x
             /\ Follows(hist, log, t.snap.svcs, t.snap.recs, i, b)
             /\ \A c \in t.live : Kept(hist, c, t.snap.recs[c].node, i, k)
  <2>1. applied[m] + 1 = k /\ i <= k
    BY <1>1, <1>4, <1>8
  <2> QED
    BY <2>1, <1>1, <1>7
<1>11. \A c \in T.live : ~(e.type = "AddContainer" /\ e.id = c)
         => Kept(hist, c, T.snap.recs[c].node, i, k)
  <2>1. i <= k - 1 /\ \A c \in T.live : c \in Containers /\ Kept(hist, c, T.snap.recs[c].node, i, k - 1)
    BY <1>3, <1>4, <1>6, <1>7, <1>8
  <2> QED
    BY <1>1, <1>2, <1>4, <1>8, <2>1, KeptOver
<1>12. t \in TakingAfter(m, e)
  BY <1>1
<1>13. CASE e.type = "AddContainer"
  <2>1. t = [T EXCEPT !.live = @ \ {e.id}]
    BY <1>1, <1>12, <1>13 DEF TakingAfter
  <2>2. t \in Takings /\ t.snap = T.snap /\ t.live = T.live \ {e.id}
    BY <2>1, <1>2 DEF Takings
  <2>3. \A c \in t.live : Kept(hist, c, T.snap.recs[c].node, i, k)
    BY <2>2, <1>11
  <2> QED
    BY <2>2, <2>3, <1>7, <1>10
<1>14. CASE e.type # "AddContainer" /\ ~Shares(m, e)
  <2>1. t = T
    BY <1>1, <1>12, <1>14 DEF TakingAfter
  <2>2. \A c \in t.live : Kept(hist, c, T.snap.recs[c].node, i, k)
    BY <2>1, <1>11, <1>14
  <2> QED
    BY <2>1, <2>2, <1>2, <1>7, <1>10
<1>15. CASE e.type # "AddContainer" /\ Shares(m, e)
  <2>1. e.type = "SetContainerStatus" /\ e.id \in T.live /\ e.id \in Containers
    BY <1>1, <1>6, <1>15 DEF Shares
  <2>2. t \in Marking(T, e.id, e.st) \/ t \in Marking(T, e.id, "TORN")
    <3>1. \/ t = [T EXCEPT !.snap.recs[e.id].st = e.st]
          \/ t = [T EXCEPT !.snap.recs[e.id].st = "TORN", !.todo = @ \ {e.id}]
      BY <1>1, <1>12, <1>15 DEF TakingAfter
    <3> QED
      BY <3>1 DEF Marking
  <2>3. PICK d \in Containers, st \in {e.st, "TORN"} : d = e.id /\ t \in Marking(T, d, st)
    BY <2>1, <2>2
  <2>4. PICK Q \in [Containers -> RecordsSeen] : Q = T.snap.recs
    BY <1>6
  <2>5. Kept(hist, d, Q[d].node, i, k - 1)
    BY <2>1, <2>3, <2>4, <1>3, <1>4, <1>7
  <2>6. /\ Marked(Q, d, st) \in [Containers -> RecordsSeen]
        /\ \A c \in Containers : Marked(Q, d, st)[c].node = Q[c].node
        /\ Follows(hist, log, T.snap.svcs, Marked(Q, d, st), i, b)
    <3>1. log[k].type = "SetContainerStatus" /\ log[k].id = d /\ st \in {log[k].st, "TORN"}
      BY <1>1, <2>1, <2>3
    <3>2. PICK S : S = T.snap.svcs /\ Follows(hist, log, S, Q, i, b)
      BY <2>4, <1>10
    <3>3. /\ Story(hist, log)
          /\ i \in Nat /\ b \in Nat /\ k \in 1..Len(log) /\ i < k /\ k <= b
      BY <1>2, <1>4, <1>8
    <3>4. /\ Marked(Q, d, st) \in [Containers -> RecordsSeen]
          /\ \A c \in Containers : Marked(Q, d, st)[c].node = Q[c].node
          /\ Follows(hist, log, S, Marked(Q, d, st), i, b)
      BY <3>1, <3>2, <3>3, <2>5, FollowsShared
    <3> QED
      BY <3>2, <3>4
  <2>7. /\ t \in Takings /\ t.live = T.live /\ t.snap.recs = Marked(Q, d, st)
        /\ t.snap.svcs = T.snap.svcs /\ t.snap.index = T.snap.index
        /\ t.snap.ahead = T.snap.ahead /\ t.snap.pools = T.snap.pools
    BY <2>3, <2>4, <2>6, <1>2, TakingEdited
  <2>8. \A c \in t.live : Kept(hist, c, t.snap.recs[c].node, i, k)
    BY <2>4, <2>6, <2>7, <1>6, <1>11, <1>15
  <2> QED
    BY <2>6, <2>7, <2>8, <1>7
<1> QED
  BY <1>13, <1>14, <1>15

\* FSM.Apply: the master and the snapshot it is making go on following the log.
LEMMA FSMApplyStep == ASSUME IInv, NEW m \in Masters, FSMApply(m) PROVE IInv'
<1> DEFINE e == log[applied[m] + 1]
<1>1. /\ Story(hist, log) /\ Len(log) \in Nat /\ log \in Seq(Entries)
      /\ applied[m] \in Nat /\ ahead[m] \in Nat /\ recs[m] \in [Containers -> RecordsSeen]
      /\ svcs[m] \in SUBSET Services
      /\ MasterFollows(m) /\ SnapFollows(m) /\ MasterPools(m)
  BY Known
<1>2. applied[m] < Len(log) /\ mode[m] # "down"
  BY DEF FSMApply
<1>3. e \in Entries
  BY <1>1, <1>2
<1>4. PICK t \in TakingAfter(m, e) : taking' = [taking EXCEPT ![m] = t]
  BY DEF FSMApply
<1>5. /\ t \in Takings
      /\ t.snap.pools = taking[m].snap.pools
      /\ Follows(hist, log, t.snap.svcs, t.snap.recs, t.snap.index,
                 Larger(t.snap.ahead, applied[m] + 1))
      /\ t.snap.index <= applied[m] + 1
      /\ \A c \in t.live : Kept(hist, c, t.snap.recs[c].node, t.snap.index, applied[m] + 1)
  BY <1>2, TakingKept
<1>6. /\ ServicesAfter(svcs[m], e) \in SUBSET Services
      /\ RecordsAfter(recs[m], e) \in [Containers -> RecordsSeen]
  BY <1>1, <1>3, EntryForm, RecordsAfterSeen DEF ServicesAfter
<1>7. /\ svcs' = [svcs EXCEPT ![m] = ServicesAfter(svcs[m], e)]
      /\ recs' = [recs EXCEPT ![m] = RecordsAfter(recs[m], e)]
      /\ applied' = [applied EXCEPT ![m] = applied[m] + 1]
      /\ UNCHANGED <<log, hist, leader, mode, ahead, nodes, pools, hearing, snap, count>>
  BY DEF FSMApply, local
<1>8. /\ svcs \in [Masters -> SUBSET Services] /\ recs \in [Masters -> [Containers -> RecordsSeen]]
      /\ applied \in [Masters -> Nat] /\ taking \in [Masters -> Takings]
  BY DEF IInv, TypeInv
<1>9. /\ svcs'[m] = ServicesAfter(svcs[m], e) /\ recs'[m] = RecordsAfter(recs[m], e)
      /\ applied'[m] = applied[m] + 1 /\ taking'[m] = t
  BY <1>4, <1>7, <1>8
<1>10. Follows(hist, log, ServicesAfter(svcs[m], e), RecordsAfter(recs[m], e), applied[m] + 1,
               ahead[m])
  BY <1>1, <1>2, FollowsAfter DEF MasterFollows
<1> HIDE DEF e
<1>11. TypeInv'
  <2>1. applied[m] + 1 \in Nat
    BY <1>1
  <2>2. /\ svcs' \in [Masters -> SUBSET Services]
        /\ recs' \in [Masters -> [Containers -> RecordsSeen]]
    BY <1>6, <1>7, <1>8
  <2>3. applied' \in [Masters -> Nat] /\ taking' \in [Masters -> Takings]
    BY <2>1, <1>4, <1>5, <1>7, <1>8
  <2> QED
    BY <2>2, <2>3, <1>7 DEF IInv, TypeInv
<1>12. MasterInv(m)'
  <2>1. MasterFollows(m)'
    BY <1>7, <1>9, <1>10 DEF MasterFollows
  <2>2. SnapFollows(m)'
    BY <1>1, <1>7 DEF SnapFollows
  <2>3. TakingFollows(m)'
    BY <1>2, <1>5, <1>7, <1>9 DEF TakingFollows
  <2>4. MasterPools(m)'
    BY <1>1, <1>5, <1>7, <1>9 DEF MasterPools
  <2> QED
    BY <2>1, <2>2, <2>3, <2>4 DEF MasterInv
<1>13. \A n \in Masters \ {m} :
         /\ svcs'[n] = svcs[n] /\ recs'[n] = recs[n] /\ applied'[n] = applied[n]
         /\ ahead'[n] = ahead[n] /\ pools'[n] = pools[n] /\ snap'[n] = snap[n]
         /\ taking'[n] = taking[n] /\ mode'[n] = mode[n]
  BY <1>4, <1>7, <1>8
<1> QED
  BY <1>7, <1>11, <1>12, <1>13, Others

\* A step that changes nothing but the snapshot in the making.
LEMMA TakingStep ==
  ASSUME IInv, NEW m \in Masters, NEW t \in Takings, taking' = [taking EXCEPT ![m] = t],
         UNCHANGED <<log, hist, leader, mode, replicated, local, snap>>, count' \in Counts,
         mode[m] # "down",
         PoolsFine(t.snap.pools),
         Follows(hist, log, t.snap.svcs, t.snap.recs, t.snap.index,
                 Larger(t.snap.ahead, applied[m])),
         t.snap.index <= applied[m],
         \A c \in t.live : Kept(hist, c, t.snap.recs[c].node, t.snap.index, applied[m])
  PROVE  IInv'
<1>1. taking \in [Masters -> Takings] /\ MasterInv(m)
  BY DEF IInv, TypeInv
<1>2. taking' \in [Masters -> Takings] /\ taking'[m] = t
      /\ \A n \in Masters \ {m} : taking'[n] = taking[n]
  BY <1>1
<1>3. UNCHANGED <<log, hist, leader, mode, applied, svcs, recs, ahead, nodes, pools, hearing,
                  snap>>
  BY DEF replicated, local
<1>4. TypeInv'
  BY <1>2, <1>3 DEF IInv, TypeInv
<1>5. MasterInv(m)'
  <2>1. MasterFollows(m)' /\ SnapFollows(m)'
    BY <1>1, <1>3 DEF MasterInv, MasterFollows, SnapFollows
  <2>2. TakingFollows(m)'
    BY <1>2, <1>3 DEF TakingFollows
  <2>3. MasterPools(m)'
    BY <1>1, <1>2, <1>3 DEF MasterInv, MasterPools
  <2> QED
    BY <2>1, <2>2, <2>3 DEF MasterInv
<1> QED
  BY <1>2, <1>3, <1>4, <1>5, Others

\* FSM.Snapshot: a copy of what the master shows; every record it holds is the log's.
LEMMA SnapshotStep == ASSUME IInv, NEW m \in Masters, Snapshot(m) PROVE IInv'
<1>1. /\ Story(hist, log) /\ Len(log) \in Nat
      /\ applied[m] \in Nat /\ ahead[m] \in Nat /\ recs[m] \in [Containers -> RecordsSeen]
      /\ svcs[m] \in SUBSET Services /\ nodes[m] \in SUBSET Workers
      /\ MasterFollows(m)
  BY Known
<1> DEFINE held == {c \in Containers : recs[m][c] # NoRecord}
           s == [index |-> applied[m], svcs |-> svcs[m], recs |-> recs[m],
                 nodes |-> nodes[m], pools |-> EmptyPools, ahead |-> ahead[m]]
           x == [on |-> TRUE, own |-> TRUE, live |-> held, todo |-> held, snap |-> s]
<1>2. PICK t : t = x
  OBVIOUS
<1>3. taking' = [taking EXCEPT ![m] = t]
  BY <1>2 DEF Snapshot
<1>4. s \in Snapshots
  BY <1>1, PoolsTyped DEF Snapshots
<1>5. t \in Takings
  BY <1>2, <1>4 DEF Takings
<1>6. /\ t.snap.index = applied[m] /\ t.snap.svcs = svcs[m] /\ t.snap.recs = recs[m]
      /\ t.snap.pools = EmptyPools /\ t.snap.ahead = ahead[m] /\ t.live = held
  BY <1>2
<1>7. Follows(hist, log, svcs[m], recs[m], applied[m], Larger(ahead[m], applied[m]))
  <2>1. Follows(hist, log, svcs[m], recs[m], applied[m], ahead[m])
        /\ applied[m] <= Len(log) /\ ahead[m] <= Len(log)
    BY <1>1 DEF MasterFollows, Follows
  <2>2. PICK b : b = Larger(ahead[m], applied[m])
    OBVIOUS
  <2>3. b \in Nat /\ ahead[m] <= b /\ b <= Len(log)
    BY <2>1, <2>2, <1>1, LargerIs
  <2>4. Follows(hist, log, svcs[m], recs[m], applied[m], b)
    BY <2>1, <2>3, <1>1, FollowsFurther
  <2> QED
    BY <2>2, <2>4
<1>8. \A c \in held : Kept(hist, c, recs[m][c].node, applied[m], applied[m])
  <2> SUFFICES ASSUME NEW c \in held
               PROVE  Kept(hist, c, recs[m][c].node, applied[m], applied[m])
    OBVIOUS
  <2>1. Shown(hist, log, recs[m][c], c, applied[m], ahead[m]) /\ recs[m][c] # NoRecord
    BY <1>1 DEF MasterFollows, Follows
  <2> QED
    BY <2>1, <1>1, ShownKept
<1>9. /\ mode[m] # "down" /\ UNCHANGED <<log, hist, leader, mode, replicated, local, snap>>
  BY DEF Snapshot
<1>10. count' \in Counts
  BY Counting DEF Snapshot, IInv, TypeInv
<1>11. PoolsFine(t.snap.pools) /\ t.snap.index <= applied[m]
  BY <1>1, <1>6, EmptyPoolsFine
<1>12. Follows(hist, log, t.snap.svcs, t.snap.recs, t.snap.index,
               Larger(t.snap.ahead, applied[m]))
  BY <1>6, <1>7
<1>13. \A c \in t.live : Kept(hist, c, t.snap.recs[c].node, t.snap.index, applied[m])
  BY <1>6, <1>8
<1> HIDE DEF s, x, held
<1> QED
  BY <1>3, <1>5, <1>9, <1>10, <1>11, <1>12, <1>13, TakingStep

\* Persist marshals one record after the other.
LEMMA PersistRecordStep ==
  ASSUME IInv, NEW m \in Masters, NEW c \in Containers, PersistRecord(m, c) PROVE IInv'
<1>1. /\ taking[m] \in Takings /\ TakingFollows(m) /\ MasterPools(m)
      /\ taking \in [Masters -> Takings]
  BY Known DEF IInv, TypeInv
<1>2. PICK t : t = [taking[m] EXCEPT !.todo = @ \ {c}]
  OBVIOUS
<1>3. t \in Takings /\ t.live = taking[m].live /\ t.snap = taking[m].snap
  BY <1>1, <1>2 DEF Takings
<1>4. taking' = [taking EXCEPT ![m] = t]
  BY <1>1, <1>2 DEF PersistRecord
<1>5. mode[m] # "down"
  <2>1. taking[m] # NotTaking
    BY DEF PersistRecord, NotTaking
  <2> QED
    BY <2>1, <1>1 DEF TakingFollows
<1>6. /\ UNCHANGED <<log, hist, leader, mode, replicated, local, snap>> /\ count' \in Counts
  BY DEF PersistRecord, IInv, TypeInv
<1>7. /\ PoolsFine(t.snap.pools)
      /\ Follows(hist, log, t.snap.svcs, t.snap.recs, t.snap.index,
                 Larger(t.snap.ahead, applied[m]))
      /\ t.snap.index <= applied[m]
      /\ \A d \in t.live : Kept(hist, d, t.snap.recs[d].node, t.snap.index, applied[m])
  BY <1>1, <1>3 DEF TakingFollows, MasterPools
<1> QED
  BY <1>3, <1>4, <1>5, <1>6, <1>7, TakingStep

\* With nothing in the making, there is nothing to be shared with the master.
LEMMA NotTakingFollows ==
  ASSUME NEW H, NEW L, Story(H, L), NEW i \in Nat, i <= Len(L)
  PROVE  /\ Follows(H, L, NotTaking.snap.svcs, NotTaking.snap.recs, NotTaking.snap.index,
                    Larger(NotTaking.snap.ahead, i))
         /\ NotTaking.snap.index <= i
         /\ NotTaking.live = {}
         /\ PoolsFine(NotTaking.snap.pools)
<1>1. /\ NotTaking.snap.index = 0 /\ NotTaking.snap.ahead = 0 /\ NotTaking.live = {}
      /\ NotTaking.snap.svcs = {} /\ NotTaking.snap.recs = NoRecords
      /\ NotTaking.snap = NoSnapshot
  BY DEF NotTaking, NoSnapshot
<1>2. Larger(0, i) = i
  BY DEF Larger
<1>3. Follows(H, L, {}, NoRecords, 0, i)
  BY FollowsNothing
<1> QED
  BY <1>1, <1>2, <1>3, NothingTyped

\* The snapshot that is stored is ahead as far as the master was when it was marshalled.
LEMMA PersistEndStep == ASSUME IInv, NEW m \in Masters, PersistEnd(m) PROVE IInv'
<1> DEFINE T == taking[m].snap
           P == IF taking[m].own THEN pools[m] ELSE T.pools
           a == Larger(T.ahead, applied[m])
           s == [T EXCEPT !.pools = P, !.ahead = a]
           t == IF s.index > snap[m].index THEN s ELSE snap[m]
<1>1. /\ Story(hist, log) /\ applied[m] \in Nat /\ taking[m] \in Takings /\ snap[m] \in Snapshots
      /\ pools[m] \in PoolTables
      /\ MasterFollows(m) /\ SnapFollows(m) /\ TakingFollows(m) /\ MasterPools(m)
  BY Known
<1>2. T \in Snapshots
  BY <1>1, TakingForm
<1>3. T.ahead \in Nat /\ T.pools \in PoolTables
  BY <1>2, SnapshotForm
<1>4. a \in Nat
  BY <1>1, <1>3, LargerIs
<1>5. P \in PoolTables /\ PoolsFine(P)
  BY <1>1, <1>3 DEF MasterPools
<1>6. Follows(hist, log, T.svcs, T.recs, T.index, a)
  BY <1>1 DEF TakingFollows
<1>7. snap' = [snap EXCEPT ![m] = t] /\ taking' = [taking EXCEPT ![m] = NotTaking]
  BY DEF PersistEnd, Larger
<1> HIDE DEF P, a, T
<1>8. /\ s \in Snapshots /\ s.svcs = T.svcs /\ s.recs = T.recs /\ s.index = T.index
      /\ s.ahead = a /\ s.pools = P
  BY <1>2, <1>4, <1>5 DEF Snapshots
<1> HIDE DEF s
<1>9. /\ t \in Snapshots /\ PoolsFine(t.pools)
      /\ Follows(hist, log, t.svcs, t.recs, t.index, t.ahead)
  BY <1>1, <1>5, <1>6, <1>8 DEF MasterPools, SnapFollows
<1> HIDE DEF t
<1>10. snap \in [Masters -> Snapshots] /\ taking \in [Masters -> Takings]
  BY DEF IInv, TypeInv
<1>11. UNCHANGED <<log, hist, leader, mode, applied, svcs, recs, ahead, nodes, pools, hearing,
                   count>>
  BY DEF PersistEnd, replicated, local
<1>12. /\ snap' \in [Masters -> Snapshots] /\ snap'[m] = t
       /\ taking' \in [Masters -> Takings] /\ taking'[m] = NotTaking
       /\ \A n \in Masters \ {m} : snap'[n] = snap[n] /\ taking'[n] = taking[n]
  BY <1>7, <1>9, <1>10, NothingTyped
<1>13. TypeInv'
  BY <1>11, <1>12 DEF IInv, TypeInv
<1>14. MasterInv(m)'
  <2>1. applied[m] <= Len(log)
    BY <1>1 DEF MasterFollows, Follows
  <2>2. /\ Follows(hist, log, NotTaking.snap.svcs, NotTaking.snap.recs, NotTaking.snap.index,
                   Larger(NotTaking.snap.ahead, applied[m]))
        /\ NotTaking.snap.index <= applied[m]
        /\ NotTaking.live = {}
        /\ PoolsFine(NotTaking.snap.pools)
    BY <2>1, <1>1, NotTakingFollows
  <2>3. MasterFollows(m)'
    BY <1>1, <1>11 DEF MasterFollows
  <2>4. SnapFollows(m)'
    BY <1>9, <1>11, <1>12 DEF SnapFollows
  <2>5. TakingFollows(m)'
    BY <2>2, <1>11, <1>12 DEF TakingFollows
  <2>6. MasterPools(m)'
    BY <2>2, <1>1, <1>9, <1>11, <1>12 DEF MasterPools
  <2> QED
    BY <2>3, <2>4, <2>5, <2>6 DEF MasterInv
<1> QED
  BY <1>11, <1>12, <1>13, <1>14, Others

\* Restore puts a snapshot that follows the log in the place of everything.
LEMMA Restored ==
  ASSUME IInv, NEW m \in Masters, NEW s \in Snapshots, Restore(m, s), UNCHANGED <<log, hist>>,
         Follows(hist, log, s.svcs, s.recs, s.index, s.ahead)
  PROVE  /\ applied' \in [Masters -> Nat] /\ ahead' \in [Masters -> Nat]
         /\ svcs' \in [Masters -> SUBSET Services] /\ nodes' \in [Masters -> SUBSET Workers]
         /\ recs' \in [Masters -> [Containers -> RecordsSeen]]
         /\ pools' \in [Masters -> PoolTables]
         /\ applied'[m] = s.index /\ pools'[m] = s.pools
         /\ MasterFollows(m)'
         /\ \A n \in Masters \ {m} :
              /\ svcs'[n] = svcs[n] /\ recs'[n] = recs[n] /\ applied'[n] = applied[n]
              /\ ahead'[n] = ahead[n] /\ pools'[n] = pools[n]
<1>1. /\ s.index \in Nat /\ s.ahead \in Nat /\ s.svcs \in SUBSET Services
      /\ s.recs \in [Containers -> RecordsSeen] /\ s.nodes \in SUBSET Workers
      /\ s.pools \in PoolTables
  BY SnapshotForm
<1>2. /\ applied \in [Masters -> Nat] /\ ahead \in [Masters -> Nat]
      /\ svcs \in [Masters -> SUBSET Services] /\ nodes \in [Masters -> SUBSET Workers]
      /\ recs \in [Masters -> [Containers -> RecordsSeen]]
      /\ pools \in [Masters -> PoolTables]
  BY DEF IInv, TypeInv
<1>3. /\ applied' \in [Masters -> Nat] /\ ahead' \in [Masters -> Nat]
      /\ applied'[m] = s.index /\ ahead'[m] = s.ahead
      /\ \A n \in Masters \ {m} : applied'[n] = applied[n] /\ ahead'[n] = ahead[n]
  BY <1>1, <1>2 DEF Restore
<1>4. /\ svcs' \in [Masters -> SUBSET Services] /\ nodes' \in [Masters -> SUBSET Workers]
      /\ svcs'[m] = s.svcs
      /\ \A n \in Masters \ {m} : svcs'[n] = svcs[n]
  BY <1>1, <1>2 DEF Restore
<1>5. /\ recs' \in [Masters -> [Containers -> RecordsSeen]]
      /\ pools' \in [Masters -> PoolTables]
      /\ recs'[m] = s.recs /\ pools'[m] = s.pools
      /\ \A n \in Masters \ {m} : recs'[n] = recs[n] /\ pools'[n] = pools[n]
  BY <1>1, <1>2 DEF Restore
<1>6. MasterFollows(m)'
  BY <1>3, <1>4, <1>5 DEF MasterFollows
<1> QED
  BY <1>3, <1>4, <1>5, <1>6

\* What an installed snapshot does to the one in the making: it keeps the records and the pools
\* that Restore has taken out of the state, and shares nothing any more.
Installed(T, P) ==
  [on |-> T.on, own |-> FALSE, live |-> {}, todo |-> T.todo,
   snap |-> [T.snap EXCEPT !.pools = IF T.on THEN P ELSE @]]

\* The same, as InstallSnapshot writes it.
PoolsPut(y, T, P) == [y EXCEPT !.snap.pools = IF T.on THEN P ELSE @]
InstalledIn(f, m, P) == [f EXCEPT ![m].own = FALSE, ![m].live = {},
                                  ![m].snap.pools = IF f[m].on THEN P ELSE @]

\* The changes of InstallSnapshot, one after the other.
LEMMA InstalledSteps ==
  ASSUME NEW T \in Takings, NEW P \in PoolTables, NEW x, NEW y,
         x = [T EXCEPT !.own = FALSE], y = [x EXCEPT !.live = {}]
  PROVE  PoolsPut(y, T, P) = Installed(T, P)
<1>1. x \in Takings
      /\ x = [on |-> T.on, own |-> FALSE, live |-> T.live, todo |-> T.todo, snap |-> T.snap]
  BY DEF Takings
<1>2. y \in Takings
      /\ y = [on |-> T.on, own |-> FALSE, live |-> {}, todo |-> T.todo, snap |-> T.snap]
  BY <1>1 DEF Takings
<1> DEFINE Q == IF T.on THEN P ELSE T.snap.pools
           s == [T.snap EXCEPT !.pools = Q]
<1>3. PoolsPut(y, T, P) = [y EXCEPT !.snap = s]
  BY <1>2 DEF PoolsPut
<1>4. [y EXCEPT !.snap = s]
        = [on |-> T.on, own |-> FALSE, live |-> {}, todo |-> T.todo, snap |-> s]
  <2>1. T.snap \in Snapshots
    BY DEF Takings
  <2>2. Q \in PoolTables
    BY <2>1 DEF Snapshots
  <2> HIDE DEF Q
  <2>3. s \in Snapshots
    BY <2>1, <2>2 DEF Snapshots
  <2>4. PICK z : z = [y EXCEPT !.snap = s]
    OBVIOUS
  <2> HIDE DEF s
  <2>5. z \in Takings /\ z.on = y.on /\ z.own = y.own /\ z.live = y.live /\ z.todo = y.todo
        /\ z.snap = s
    BY <2>3, <2>4, <1>2 DEF Takings
  <2>6. z = [on |-> z.on, own |-> z.own, live |-> z.live, todo |-> z.todo, snap |-> z.snap]
    BY <2>5 DEF Takings
  <2>7. y.on = T.on /\ y.own = FALSE /\ y.live = {} /\ y.todo = T.todo
    BY <1>2
  <2> QED
    BY <2>4, <2>5, <2>6, <2>7
<1> HIDE DEF s
<1>5. Installed(T, P) = [on |-> T.on, own |-> FALSE, live |-> {}, todo |-> T.todo, snap |-> s]
  BY DEF Installed, s
<1> QED
  BY <1>3, <1>4, <1>5

\* The form of such a snapshot.
LEMMA InstalledForm ==
  ASSUME NEW T \in Takings, NEW P \in PoolTables
  PROVE  /\ Installed(T, P) \in Takings /\ Installed(T, P).live = {}
         /\ Installed(T, P).snap.svcs = T.snap.svcs /\ Installed(T, P).snap.recs = T.snap.recs
         /\ Installed(T, P).snap.index = T.snap.index
         /\ Installed(T, P).snap.ahead = T.snap.ahead
         /\ Installed(T, P).snap.pools \in {T.snap.pools, P}
<1> DEFINE Q == IF T.on THEN P ELSE T.snap.pools
           s == [T.snap EXCEPT !.pools = Q]
<1>1. T.snap \in Snapshots /\ T.on \in BOOLEAN /\ T.todo \in SUBSET Containers
  BY TakingForm
<1>2. T.snap.pools \in PoolTables
  BY <1>1, SnapshotForm
<1>3. Q \in PoolTables /\ Q \in {T.snap.pools, P}
  BY <1>2
<1> HIDE DEF Q
<1>4. /\ s \in Snapshots /\ s.svcs = T.snap.svcs /\ s.recs = T.snap.recs
      /\ s.index = T.snap.index /\ s.ahead = T.snap.ahead /\ s.pools = Q
  BY <1>1, <1>3 DEF Snapshots
<1>5. Installed(T, P) = [on |-> T.on, own |-> FALSE, live |-> {}, todo |-> T.todo, snap |-> s]
  BY DEF Installed, Q
<1> HIDE DEF s
<1> QED
  BY <1>1, <1>3, <1>4, <1>5 DEF Takings

\* InstallSnapshot in these terms.
LEMMA InstalledIs ==
  ASSUME NEW f \in [Masters -> Takings], NEW m \in Masters, NEW P \in PoolTables
  PROVE  /\ InstalledIn(f, m, P) \in [Masters -> Takings]
         /\ InstalledIn(f, m, P)[m] = Installed(f[m], P)
         /\ \A n \in Masters \ {m} : InstalledIn(f, m, P)[n] = f[n]
<1>1. PICK T \in Takings : T = f[m]
  OBVIOUS
<1>2. PICK x : x = [T EXCEPT !.own = FALSE]
  OBVIOUS
<1>3. PICK y : y = [x EXCEPT !.live = {}]
  OBVIOUS
<1>4. PICK g : g = [f EXCEPT ![m].own = FALSE]
  OBVIOUS
<1>5. PICK h : h = [g EXCEPT ![m].live = {}]
  OBVIOUS
<1>6. g = [f EXCEPT ![m] = x]
  BY <1>1, <1>2, <1>4
<1>7. h = [f EXCEPT ![m] = y]
  <2>1. g[m] = x
    BY <1>6
  <2>2. h = [g EXCEPT ![m] = y]
    BY <2>1, <1>3, <1>5
  <2> QED
    BY <2>2, <1>6
<1>8. PoolsPut(y, T, P) = Installed(T, P)
  BY <1>2, <1>3, InstalledSteps
<1>9. [h EXCEPT ![m].snap.pools = IF f[m].on THEN P ELSE @] = [f EXCEPT ![m] = Installed(T, P)]
  <2>1. h[m] = y
    BY <1>7
  <2>2. [h EXCEPT ![m].snap.pools = IF f[m].on THEN P ELSE @]
          = [h EXCEPT ![m] = Installed(T, P)]
    BY <2>1, <1>1, <1>8 DEF PoolsPut
  <2> QED
    BY <2>2, <1>7
<1>10. InstalledIn(f, m, P) = [f EXCEPT ![m] = Installed(T, P)]
  BY <1>4, <1>5, <1>9 DEF InstalledIn
<1> QED
  BY <1>1, <1>10, InstalledForm

\* A master that is sent a snapshot: one that its leader has.
LEMMA InstallSnapshotStep ==
  ASSUME IInv, NEW m \in Masters, NEW l \in Masters, InstallSnapshot(l, m) PROVE IInv'
<1> DEFINE t == Installed(taking[m], pools[m])
<1>1. /\ applied[m] \in Nat /\ taking[m] \in Takings /\ pools[m] \in PoolTables
      /\ TakingFollows(m) /\ MasterPools(m) /\ Story(hist, log)
  BY Known
<1>2. snap[l] \in Snapshots /\ SnapFollows(l) /\ MasterPools(l)
  BY Known
<1>3. snap[l].index > applied[m] /\ mode[m] # "down" /\ Restore(m, snap[l])
      /\ UNCHANGED <<log, hist, leader, mode, hearing, count>>
      /\ snap' = [snap EXCEPT ![m] = snap[l]]
  BY DEF InstallSnapshot
<1>4. /\ applied' \in [Masters -> Nat] /\ ahead' \in [Masters -> Nat]
      /\ svcs' \in [Masters -> SUBSET Services] /\ nodes' \in [Masters -> SUBSET Workers]
      /\ recs' \in [Masters -> [Containers -> RecordsSeen]]
      /\ pools' \in [Masters -> PoolTables]
      /\ applied'[m] = snap[l].index /\ pools'[m] = snap[l].pools
      /\ MasterFollows(m)'
      /\ \A n \in Masters \ {m} :
           /\ svcs'[n] = svcs[n] /\ recs'[n] = recs[n] /\ applied'[n] = applied[n]
           /\ ahead'[n] = ahead[n] /\ pools'[n] = pools[n]
  BY <1>2, <1>3, Restored DEF SnapFollows
<1>5. snap \in [Masters -> Snapshots] /\ taking \in [Masters -> Takings]
  BY DEF IInv, TypeInv
<1>6. taking' \in [Masters -> Takings] /\ taking'[m] = t
      /\ \A n \in Masters \ {m} : taking'[n] = taking[n]
  <2>1. taking' = InstalledIn(taking, m, pools[m])
    BY DEF InstallSnapshot, InstalledIn
  <2> QED
    BY <2>1, <1>1, <1>5, InstalledIs
<1>7. /\ t \in Takings /\ t.live = {}
      /\ t.snap.svcs = taking[m].snap.svcs /\ t.snap.recs = taking[m].snap.recs
      /\ t.snap.index = taking[m].snap.index
      /\ t.snap.ahead = taking[m].snap.ahead
      /\ t.snap.pools \in {taking[m].snap.pools, pools[m]}
  BY <1>1, InstalledForm
<1> HIDE DEF t
<1>8. /\ snap' \in [Masters -> Snapshots] /\ snap'[m] = snap[l]
      /\ taking' \in [Masters -> Takings] /\ taking'[m] = t
      /\ \A n \in Masters \ {m} : snap'[n] = snap[n] /\ taking'[n] = taking[n]
  BY <1>2, <1>3, <1>5, <1>6, <1>7
<1>9. TypeInv'
  BY <1>3, <1>4, <1>8 DEF IInv, TypeInv
<1>10. MasterInv(m)'
  <2>1. SnapFollows(m)'
    BY <1>2, <1>3, <1>8 DEF SnapFollows
  <2>2. PICK a, i, T : a = Larger(T.ahead, i) /\ i = applied[m] /\ T = taking[m].snap
    OBVIOUS
  <2>3. PICK b, j : b = Larger(T.ahead, j) /\ j = snap[l].index
    OBVIOUS
  <2>4. /\ T.ahead \in Nat /\ T.index \in Nat /\ i \in Nat /\ j \in Nat /\ i < j
        /\ j <= Len(log) /\ Len(log) \in Nat
    BY <1>1, <1>2, <1>3, <2>2, <2>3, TakingForm, SnapshotForm DEF SnapFollows, Follows, Story
  <2>5. Follows(hist, log, T.svcs, T.recs, T.index, a) /\ T.index <= i
    BY <1>1, <2>2 DEF TakingFollows
  <2>6. a \in Nat /\ b \in Nat /\ a <= b /\ b <= Len(log)
    BY <2>2, <2>3, <2>4, <2>5 DEF Larger, Follows
  <2>7. Follows(hist, log, T.svcs, T.recs, T.index, b) /\ T.index <= j
    BY <2>4, <2>5, <2>6, FollowsFurther
  <2>8. TakingFollows(m)'
    BY <2>2, <2>3, <2>7, <1>3, <1>4, <1>7, <1>8 DEF TakingFollows
  <2>9. MasterPools(m)'
    BY <1>1, <1>2, <1>4, <1>7, <1>8 DEF MasterPools
  <2> QED
    BY <2>1, <2>8, <2>9, <1>4 DEF MasterInv
<1> QED
  BY <1>3, <1>4, <1>8, <1>9, <1>10, Others

\* A crash empties the state; the snapshot in the making is lost.
LEMMA CrashStep == ASSUME IInv, NEW m \in Masters, Crash(m) PROVE IInv'
<1>1. /\ Story(hist, log) /\ SnapFollows(m) /\ MasterPools(m) /\ Len(log) \in Nat
  BY Known
<1>2. /\ Restore(m, NoSnapshot) /\ UNCHANGED <<log, hist, snap>>
      /\ mode' = [mode EXCEPT ![m] = "down"] /\ hearing' = [hearing EXCEPT ![m] = None]
      /\ taking' = [taking EXCEPT ![m] = NotTaking]
      /\ leader' = IF leader = m THEN None ELSE leader
  BY DEF Crash
<1>3. /\ NoSnapshot.index = 0 /\ NoSnapshot.ahead = 0 /\ NoSnapshot.svcs = {}
      /\ NoSnapshot.recs = NoRecords /\ NoSnapshot.pools = EmptyPools
      /\ NoSnapshot \in Snapshots
  BY NothingTyped DEF NoSnapshot
<1>4. Follows(hist, log, {}, NoRecords, 0, 0)
  BY <1>1, FollowsNothing
<1>5. /\ applied' \in [Masters -> Nat] /\ ahead' \in [Masters -> Nat]
      /\ svcs' \in [Masters -> SUBSET Services] /\ nodes' \in [Masters -> SUBSET Workers]
      /\ recs' \in [Masters -> [Containers -> RecordsSeen]]
      /\ pools' \in [Masters -> PoolTables]
      /\ applied'[m] = NoSnapshot.index /\ pools'[m] = NoSnapshot.pools
      /\ MasterFollows(m)'
      /\ \A n \in Masters \ {m} :
           /\ svcs'[n] = svcs[n] /\ recs'[n] = recs[n] /\ applied'[n] = applied[n]
           /\ ahead'[n] = ahead[n] /\ pools'[n] = pools[n]
  <2>1. Follows(hist, log, NoSnapshot.svcs, NoSnapshot.recs, NoSnapshot.index, NoSnapshot.ahead)
    BY <1>3, <1>4
  <2> QED
    BY <2>1, <1>2, <1>3, Restored
<1>6. /\ taking \in [Masters -> Takings] /\ mode \in [Masters -> {"down", "starting", "up"}]
      /\ hearing \in [Masters -> Workers \cup {None}] /\ leader \in Masters \cup {None}
      /\ leader # None => mode[leader] = "up"
  BY DEF IInv, TypeInv
<1>7. /\ taking' \in [Masters -> Takings] /\ taking'[m] = NotTaking
      /\ \A n \in Masters \ {m} : taking'[n] = taking[n]
  BY <1>2, <1>6, NothingTyped
<1>8. /\ mode' \in [Masters -> {"down", "starting", "up"}]
      /\ \A n \in Masters \ {m} : mode'[n] = mode[n]
      /\ hearing' \in [Masters -> Workers \cup {None}]
  BY <1>2, <1>6
<1>9. leader' \in Masters \cup {None} /\ (leader' # None => mode'[leader'] = "up")
  BY <1>2, <1>6, <1>8
<1>10. count' \in Counts
  BY Counting DEF Crash, IInv, TypeInv
<1>11. TypeInv'
  BY <1>2, <1>5, <1>7, <1>8, <1>9, <1>10 DEF IInv, TypeInv
<1>12. MasterInv(m)'
  <2>1. /\ Follows(hist, log, NotTaking.snap.svcs, NotTaking.snap.recs, NotTaking.snap.index,
                   Larger(NotTaking.snap.ahead, 0))
        /\ NotTaking.snap.index <= 0
        /\ NotTaking.live = {}
        /\ PoolsFine(NotTaking.snap.pools)
    BY <1>1, NotTakingFollows
  <2>2. SnapFollows(m)'
    BY <1>1, <1>2 DEF SnapFollows
  <2>3. TakingFollows(m)'
    BY <2>1, <1>2, <1>3, <1>5, <1>7 DEF TakingFollows
  <2>4. MasterPools(m)'
    BY <2>1, <1>1, <1>2, <1>3, <1>5, <1>7, EmptyPoolsFine DEF MasterPools
  <2> QED
    BY <2>2, <2>3, <2>4, <1>5 DEF MasterInv
<1>13. \A n \in Masters \ {m} :
         /\ svcs'[n] = svcs[n] /\ recs'[n] = recs[n] /\ applied'[n] = applied[n]
         /\ ahead'[n] = ahead[n] /\ pools'[n] = pools[n] /\ snap'[n] = snap[n]
         /\ taking'[n] = taking[n] /\ mode'[n] = mode[n]
  BY <1>2, <1>5, <1>7, <1>8
<1> QED
  BY <1>2, <1>11, <1>12, <1>13, Others

\* A restart restores the master's own snapshot.
LEMMA StartStep == ASSUME IInv, NEW m \in Masters, Start(m) PROVE IInv'
<1>1. /\ Story(hist, log) /\ SnapFollows(m) /\ TakingFollows(m) /\ MasterPools(m)
      /\ snap[m] \in Snapshots
  BY Known
<1>2. /\ Restore(m, snap[m]) /\ mode[m] = "down"
      /\ UNCHANGED <<log, hist, leader, hearing, taking, snap, count>>
      /\ mode' = [mode EXCEPT ![m] = "starting"]
  BY DEF Start
<1>3. snap[m].index \in Nat /\ snap[m].index <= Len(log)
  BY <1>1, SnapshotForm DEF SnapFollows, Follows
<1>4. /\ applied' \in [Masters -> Nat] /\ ahead' \in [Masters -> Nat]
      /\ svcs' \in [Masters -> SUBSET Services] /\ nodes' \in [Masters -> SUBSET Workers]
      /\ recs' \in [Masters -> [Containers -> RecordsSeen]]
      /\ pools' \in [Masters -> PoolTables]
      /\ applied'[m] = snap[m].index /\ pools'[m] = snap[m].pools
      /\ MasterFollows(m)'
      /\ \A n \in Masters \ {m} :
           /\ svcs'[n] = svcs[n] /\ recs'[n] = recs[n] /\ applied'[n] = applied[n]
           /\ ahead'[n] = ahead[n] /\ pools'[n] = pools[n]
  BY <1>1, <1>2, Restored DEF SnapFollows
<1>5. /\ mode \in [Masters -> {"down", "starting", "up"}] /\ leader \in Masters \cup {None}
      /\ leader # None => mode[leader] = "up"
  BY DEF IInv, TypeInv
<1>6. /\ mode' \in [Masters -> {"down", "starting", "up"}] /\ mode'[m] = "starting"
      /\ \A n \in Masters \ {m} : mode'[n] = mode[n]
  BY <1>2, <1>5
<1>7. leader # None => mode'[leader] = "up"
  BY <1>2, <1>5, <1>6
<1>8. TypeInv'
  BY <1>2, <1>4, <1>6, <1>7 DEF IInv, TypeInv
<1>9. MasterInv(m)'
  <2>1. taking[m] = NotTaking
    BY <1>1, <1>2 DEF TakingFollows
  <2>2. /\ Follows(hist, log, NotTaking.snap.svcs, NotTaking.snap.recs, NotTaking.snap.index,
                   Larger(NotTaking.snap.ahead, snap[m].index))
        /\ NotTaking.snap.index <= snap[m].index
        /\ NotTaking.live = {}
    BY <1>1, <1>3, NotTakingFollows
  <2>3. SnapFollows(m)'
    BY <1>1, <1>2 DEF SnapFollows
  <2>4. TakingFollows(m)'
    BY <2>1, <2>2, <1>2, <1>4 DEF TakingFollows
  <2>5. MasterPools(m)'
    BY <1>1, <1>2, <1>4 DEF MasterPools
  <2> QED
    BY <2>3, <2>4, <2>5, <1>4 DEF MasterInv
<1>10. \A n \in Masters \ {m} :
         /\ svcs'[n] = svcs[n] /\ recs'[n] = recs[n] /\ applied'[n] = applied[n]
         /\ ahead'[n] = ahead[n] /\ pools'[n] = pools[n] /\ snap'[n] = snap[n]
         /\ taking'[n] = taking[n] /\ mode'[n] = mode[n]
  BY <1>2, <1>4, <1>6
<1> QED
  BY <1>2, <1>8, <1>9, <1>10, Others

\* A step that changes the pools of a master, and what only TypeInv is about.
LEMMA PoolsStep ==
  ASSUME IInv, NEW m \in Masters, TypeInv', NEW P, PoolsFine(P), pools' = [pools EXCEPT ![m] = P],
         UNCHANGED <<log, hist, replicated, snap, taking>>,
         mode'[m] = "down" => mode[m] = "down",
         \A n \in Masters \ {m} : mode'[n] = mode[n]
  PROVE  IInv'
<1>1. MasterInv(m) /\ pools \in [Masters -> PoolTables]
  BY DEF IInv, TypeInv
<1>2. pools'[m] = P /\ \A n \in Masters \ {m} : pools'[n] = pools[n]
  BY <1>1
<1>3. UNCHANGED <<log, hist, applied, svcs, recs, ahead, snap, taking>>
  BY DEF replicated
<1>4. MasterInv(m)'
  <2>1. MasterFollows(m)' /\ SnapFollows(m)'
    BY <1>1, <1>3 DEF MasterInv, MasterFollows, SnapFollows
  <2>2. MasterPools(m)'
    BY <1>1, <1>2, <1>3 DEF MasterInv, MasterPools
  <2> QED
    BY <2>1, <2>2, <1>1, <1>3 DEF MasterInv, TakingFollows
<1> QED
  BY <1>2, <1>3, <1>4, Others

\* main puts fresh pools in the place of the restored ones.
LEMMA AddPoolsStep == ASSUME IInv, NEW m \in Masters, AddPools(m) PROVE IInv'
<1>1. /\ mode[m] = "starting" /\ mode' = [mode EXCEPT ![m] = "up"]
      /\ pools' = [pools EXCEPT ![m] = EmptyPools]
      /\ UNCHANGED <<log, hist, leader, replicated, nodes, hearing, taking, snap, count>>
  BY DEF AddPools
<1>2. /\ mode \in [Masters -> {"down", "starting", "up"}] /\ leader \in Masters \cup {None}
      /\ leader # None => mode[leader] = "up"
      /\ pools \in [Masters -> PoolTables]
  BY DEF IInv, TypeInv
<1>3. /\ mode' \in [Masters -> {"down", "starting", "up"}] /\ mode'[m] = "up"
      /\ \A n \in Masters \ {m} : mode'[n] = mode[n]
  BY <1>1, <1>2
<1>4. leader' # None => mode'[leader'] = "up"
  BY <1>1, <1>2, <1>3
<1>5. pools' \in [Masters -> PoolTables]
  BY <1>1, <1>2, PoolsTyped
<1>6. TypeInv'
  BY <1>1, <1>3, <1>4, <1>5 DEF IInv, TypeInv, replicated
<1> QED
  BY <1>1, <1>3, <1>6, EmptyPoolsFine, PoolsStep

\* A heartbeat adds a node to the table, not to a pool yet.
LEMMA AddNodeStep ==
  ASSUME IInv, NEW m \in Masters, NEW w \in Workers, AddNode(m, w) PROVE IInv'
<1>1. /\ nodes' = [nodes EXCEPT ![m] = @ \cup {w}] /\ hearing' = [hearing EXCEPT ![m] = w]
      /\ UNCHANGED <<log, hist, leader, mode, replicated, pools, taking, snap, count>>
  BY DEF AddNode
<1>2. nodes \in [Masters -> SUBSET Workers] /\ hearing \in [Masters -> Workers \cup {None}]
  BY DEF IInv, TypeInv
<1>3. nodes' \in [Masters -> SUBSET Workers] /\ hearing' \in [Masters -> Workers \cup {None}]
  BY <1>1, <1>2
<1>4. TypeInv'
  BY <1>1, <1>3 DEF IInv, TypeInv, replicated
<1> QED
  BY <1>1, <1>4, Apart

\* AssignNodeToPool: the node goes where it matches, and is there once.
LEMMA AssignStep == ASSUME IInv, NEW m \in Masters, AssignNodeToPool(m) PROVE IInv'
<1>1. /\ hearing[m] # None /\ hearing' = [hearing EXCEPT ![m] = None]
      /\ UNCHANGED <<log, hist, leader, mode, replicated, nodes, taking, snap, count>>
  BY DEF AssignNodeToPool
<1>2. hearing \in [Masters -> Workers \cup {None}] /\ pools \in [Masters -> PoolTables]
  BY DEF IInv, TypeInv
<1>3. PICK w \in Workers : w = hearing[m]
  BY <1>1, <1>2
<1>4. hearing' \in [Masters -> Workers \cup {None}]
  BY <1>1, <1>2
<1>5. CASE UNCHANGED pools
  <2>1. TypeInv'
    BY <1>1, <1>4, <1>5 DEF IInv, TypeInv, replicated
  <2> QED
    BY <2>1, <1>1, <1>5, Apart
<1>6. CASE ~UNCHANGED pools
  <2>1. PICK p \in Pools :
          /\ MatchesNode(p, Capacity[w])
          /\ pools' = [pools EXCEPT ![m][p.id] = IF w \in IDs(@) THEN @ ELSE Append(@, w)]
    BY <1>3, <1>6 DEF AssignNodeToPool
  <2>2. PICK P \in PoolTables : P = pools[m] /\ PoolsFine(P)
    BY Known DEF MasterPools
  <2>3. PICK s : s = IF w \in IDs(P[p.id]) THEN P[p.id] ELSE Append(P[p.id], w)
    OBVIOUS
  <2>4. PICK Q : Q = [P EXCEPT ![p.id] = s]
    OBVIOUS
  <2>5. Q \in PoolTables /\ PoolsFine(Q)
    BY <2>1, <2>2, <2>3, <2>4, Assigned
  <2>6. pools' = [pools EXCEPT ![m] = Q]
    BY <2>1, <2>2, <2>3, <2>4
  <2>7. pools' \in [Masters -> PoolTables]
    BY <2>5, <2>6, <1>2
  <2>8. TypeInv'
    BY <2>7, <1>1, <1>4 DEF IInv, TypeInv, replicated
  <2> QED
    BY <2>5, <2>6, <2>8, <1>1, PoolsStep
<1> QED
  BY <1>5, <1>6

\* The invariant holds in every state that can be reached.
LEMMA Holds == Spec => []IInv
<1>1. Init => IInv
  BY Initially
<1>2. IInv /\ [Next]_vars => IInv'
  <2> SUFFICES ASSUME IInv, [Next]_vars PROVE IInv'
    OBVIOUS
  <2>1. CASE UNCHANGED vars
    <3>1. UNCHANGED <<log, hist, leader, mode, replicated, local, taking, snap, count>>
      BY <2>1 DEF vars
    <3>2. TypeInv'
      BY <3>1 DEF IInv, TypeInv, replicated, local
    <3> QED
      BY <3>1, <3>2, Apart DEF local
  <2>2. ASSUME NEW m \in Masters, Elect(m) PROVE IInv'
    BY <2>2, ElectStep
  <2>3. ASSUME NEW m \in Masters, NEW e \in Entries, Apply(m, e) PROVE IInv'
    BY <2>3, ApplyStep
  <2>4. ASSUME NEW m \in Masters, FSMApply(m) PROVE IInv'
    BY <2>4, FSMApplyStep
  <2>5. ASSUME NEW m \in Masters, Snapshot(m) PROVE IInv'
    BY <2>5, SnapshotStep
  <2>6. ASSUME NEW m \in Masters, NEW c \in Containers, PersistRecord(m, c) PROVE IInv'
    BY <2>6, PersistRecordStep
  <2>7. ASSUME NEW m \in Masters, PersistEnd(m) PROVE IInv'
    BY <2>7, PersistEndStep
  <2>8. ASSUME NEW m \in Masters, NEW l \in Masters, InstallSnapshot(l, m) PROVE IInv'
    BY <2>8, InstallSnapshotStep
  <2>9. ASSUME NEW m \in Masters, Crash(m) PROVE IInv'
    BY <2>9, CrashStep
  <2>10. ASSUME NEW m \in Masters, Start(m) PROVE IInv'
    BY <2>10, StartStep
  <2>11. ASSUME NEW m \in Masters, AddPools(m) PROVE IInv'
    BY <2>11, AddPoolsStep
  <2>12. ASSUME NEW m \in Masters, NEW w \in Workers, AddNode(m, w) PROVE IInv'
    BY <2>12, AddNodeStep
  <2>13. ASSUME NEW m \in Masters, AssignNodeToPool(m) PROVE IInv'
    BY <2>13, AssignStep
  <2> QED
    BY <2>1, <2>2, <2>3, <2>4, <2>5, <2>6, <2>7, <2>8, <2>9, <2>10, <2>11, <2>12, <2>13
    DEF Next
<1> QED
  BY <1>1, <1>2, PTL DEF Spec

-----------------------------------------------------------------------------
(* What follows. *)

\* A number up to a bound.
LEMMA Bounded == ASSUME NEW a \in Nat, NEW b \in Nat, a <= b PROVE a \in 0..b
OBVIOUS

\* Logs, tables, snapshots and pools keep their form, whatever is restored when (state.go,
\* fsm.go).
THEOREM TypeCorrect == Spec => []TypeOK
<1>1. IInv => TypeOK
  <2> SUFFICES ASSUME IInv PROVE TypeOK
    OBVIOUS
  <2>1. TypeInv /\ Story(hist, log) /\ Len(log) \in Nat /\ MaxLog \in Nat /\ Len(log) <= MaxLog
    BY ReplicatedAssumption DEF IInv, TypeInv, Story
  <2>2. ASSUME NEW m \in Masters
        PROVE  /\ applied[m] \in 0..Len(log) /\ ahead[m] \in 0..Len(log)
               /\ snap[m] \in SnapshotType /\ taking[m].snap \in SnapshotType
    <3>1. /\ applied[m] \in Nat /\ ahead[m] \in Nat /\ snap[m] \in Snapshots
          /\ taking[m] \in Takings
          /\ MasterFollows(m) /\ SnapFollows(m) /\ TakingFollows(m)
      BY Known
    <3>2. applied[m] <= Len(log) /\ ahead[m] <= Len(log)
      BY <3>1 DEF MasterFollows, Follows
    <3>3. taking[m].snap \in Snapshots
      BY <3>1, TakingForm
    <3>4. ASSUME NEW s \in Snapshots, s.index <= Len(log), s.ahead <= Len(log)
          PROVE  s \in SnapshotType
      <4>1. s.index \in 0..MaxLog /\ s.ahead \in 0..MaxLog
        BY <3>4, <2>1, SnapshotForm
      <4> QED
        BY <4>1 DEF Snapshots, SnapshotType, PoolTables
    <3>5. snap[m] \in SnapshotType
      BY <3>1, <3>4 DEF SnapFollows, Follows
    <3>6. taking[m].snap.index <= Len(log) /\ taking[m].snap.ahead <= Len(log)
      <4>1. taking[m].snap.ahead \in Nat
        BY <3>3, SnapshotForm
      <4>2. Larger(taking[m].snap.ahead, applied[m]) <= Len(log)
        BY <3>1 DEF TakingFollows, Follows
      <4>3. taking[m].snap.index <= Len(log)
        BY <3>1 DEF TakingFollows, Follows
      <4> QED
        BY <4>1, <4>2, <4>3, <3>1, <2>1 DEF Larger
    <3> QED
      BY <3>1, <3>2, <3>3, <3>4, <3>5, <3>6, <2>1, Bounded
  <2>3. ASSUME NEW k \in DOMAIN hist
        PROVE  hist[k] \in [svcs : SUBSET Services, recs : [Containers -> Records]]
    <3>1. hist \in Seq(States)
      BY <2>1 DEF Story
    <3>2. hist[k] \in States
      BY <3>1
    <3> QED
      BY <3>2 DEF States
  <2>4. applied \in [Masters -> 0..Len(log)] /\ ahead \in [Masters -> 0..Len(log)]
    BY <2>1, <2>2 DEF TypeInv
  <2>5. log \in Seq(Entries) /\ Len(hist) = Len(log) + 1
    BY <2>1 DEF Story
  <2> QED
    BY <2>1, <2>2, <2>3, <2>4, <2>5 DEF TypeOK, TypeInv, PoolTables, Counts
<1> QED
  BY <1>1, Holds, PTL

\* A record that is not the one of the entries applied is that of a later entry, or torn.
LEMMA LateShows ==
  ASSUME NEW H, NEW L, Story(H, L), NEW c \in Containers, NEW rec \in RecordsSeen,
         NEW i \in Nat, NEW a \in Nat, a <= Len(L), Late(H, L, rec, c, i, a)
  PROVE  i < a /\ (rec.st = "TORN" \/ \E k \in i..a : rec = H[k + 1].recs[c])
<1>1. PICK k \in (i + 1)..a :
        /\ L[k].type = "SetContainerStatus" /\ L[k].id = c
        /\ rec.st \in {L[k].st, "TORN"}
        /\ Kept(H, c, rec.node, i, k)
  BY DEF Late
<1>2. k \in Nat /\ k \in 1..Len(L) /\ k \in i..a /\ k \in i..k /\ k - 1 \in i..k /\ (k - 1) + 1 = k
      /\ i < a /\ Len(L) \in Nat
  BY DEF Story
<1>3. CASE rec.st = "TORN"
  BY <1>2, <1>3
<1>4. CASE rec.st # "TORN"
  <2>1. H[k].recs[c] # NoRecord /\ H[k].recs[c].node = rec.node
    BY <1>1, <1>2 DEF Kept
  <2>2. H[k + 1].recs[c] = [st |-> L[k].st, node |-> rec.node]
    BY <1>1, <1>2, <2>1, StatusSet
  <2>3. rec = [st |-> rec.st, node |-> rec.node]
    BY RecordForm
  <2>4. rec = H[k + 1].recs[c]
    BY <1>1, <1>4, <2>2, <2>3
  <2> QED
    BY <1>2, <2>4
<1> QED
  BY <1>3, <1>4

\* A master shows what the log prescribes after the entries it has applied; a record may show
\* something later, or a torn status, only until the entries that its snapshot ran ahead of are
\* replayed (fsm.go:37-110, state.go:324-370).
THEOREM FollowsLog == Spec => []StateFollowsLog
<1>1. IInv => StateFollowsLog
  <2> SUFFICES ASSUME IInv, NEW m \in Masters
               PROVE  /\ svcs[m] = hist[applied[m] + 1].svcs
                      /\ \A c \in Containers :
                           \/ \E k \in applied[m]..ahead[m] \cup {applied[m]} :
                                recs[m][c] = hist[k + 1].recs[c]
                           \/ applied[m] < ahead[m] /\ recs[m][c].st = "TORN"
    BY DEF StateFollowsLog
  <2>1. /\ Story(hist, log) /\ applied[m] \in Nat /\ ahead[m] \in Nat
        /\ recs[m] \in [Containers -> RecordsSeen] /\ MasterFollows(m)
    BY Known
  <2>2. svcs[m] = hist[applied[m] + 1].svcs /\ ahead[m] <= Len(log)
    BY <2>1 DEF MasterFollows, Follows
  <2>3. ASSUME NEW c \in Containers
        PROVE  \/ \E k \in applied[m]..ahead[m] \cup {applied[m]} :
                    recs[m][c] = hist[k + 1].recs[c]
               \/ applied[m] < ahead[m] /\ recs[m][c].st = "TORN"
    <3>1. Shown(hist, log, recs[m][c], c, applied[m], ahead[m]) /\ recs[m][c] \in RecordsSeen
      BY <2>1 DEF MasterFollows, Follows
    <3>2. CASE recs[m][c] = hist[applied[m] + 1].recs[c]
      BY <3>2
    <3>3. CASE Late(hist, log, recs[m][c], c, applied[m], ahead[m])
      <4>1. /\ applied[m] < ahead[m]
            /\ \/ recs[m][c].st = "TORN"
               \/ \E k \in applied[m]..ahead[m] : recs[m][c] = hist[k + 1].recs[c]
        <5>1. PICK rec \in RecordsSeen, i \in Nat, a \in Nat :
                rec = recs[m][c] /\ i = applied[m] /\ a = ahead[m]
          BY <3>1, <2>1
        <5>2. Late(hist, log, rec, c, i, a) /\ a <= Len(log)
          BY <5>1, <3>3, <2>2
        <5>3. i < a /\ (rec.st = "TORN" \/ \E k \in i..a : rec = hist[k + 1].recs[c])
          BY <5>2, <2>1, LateShows
        <5> QED
          BY <5>1, <5>3
      <4> QED
        BY <4>1
    <3> QED
      BY <3>1, <3>2, <3>3 DEF Shown
  <2> QED
    BY <2>2, <2>3
<1> QED
  BY <1>1, Holds, PTL

\* No node is twice in the pools of a master, although a snapshot's pools are newer than its
\* node table and a restored table makes handleHeartbeat add nodes again (state.go:231-248).
THEOREM OnePlace == Spec => []NodeInOnePlace
<1>1. IInv => NodeInOnePlace
  <2> SUFFICES ASSUME IInv, NEW m \in Masters, NEW w \in Workers
               PROVE  Cardinality({x \in PoolIDs \X (1..Cardinality(Workers) + 1) :
                        x[2] \in DOMAIN pools[m][x[1]] /\ pools[m][x[1]][x[2]] = w}) <= 1
    BY DEF NodeInOnePlace
  <2> DEFINE A == {x \in PoolIDs \X (1..Cardinality(Workers) + 1) :
                     x[2] \in DOMAIN pools[m][x[1]] /\ pools[m][x[1]][x[2]] = w}
  <2>1. PoolsFine(pools[m])
    BY Known DEF MasterPools
  <2>2. ASSUME NEW x \in A, NEW y \in A
        PROVE  x = y
    <3>1. /\ x = <<x[1], x[2]>> /\ x[1] \in PoolIDs /\ x[2] \in DOMAIN pools[m][x[1]]
          /\ pools[m][x[1]][x[2]] = w
          /\ y = <<y[1], y[2]>> /\ y[1] \in PoolIDs /\ y[2] \in DOMAIN pools[m][y[1]]
          /\ pools[m][y[1]][y[2]] = w
      OBVIOUS
    <3>2. PICK p \in Pools : p.id = x[1]
      BY <3>1 DEF PoolIDs
    <3>3. PICK q \in Pools : q.id = y[1]
      BY <3>1 DEF PoolIDs
    <3>4. MatchesNode(p, Capacity[w]) /\ MatchesNode(q, Capacity[w])
      BY <2>1, <3>1, <3>2, <3>3 DEF PoolsFine
    <3>5. p = q
      BY <3>4, OnePool
    <3>6. x[1] = y[1]
      BY <3>2, <3>3, <3>5
    <3>7. x[2] = y[2]
      BY <2>1, <3>1, <3>2, <3>6 DEF PoolsFine
    <3> QED
      BY <3>1, <3>6, <3>7
  <2>3. CASE A = {}
    BY <2>3, FS_EmptySet
  <2>4. CASE A # {}
    <3>1. PICK x : x \in A
      BY <2>4
    <3> HIDE DEF A
    <3>2. A = {x}
      BY <2>2, <3>1
    <3>3. Cardinality(A) = 1
      BY <3>2, FS_Singleton
    <3> QED
      BY <3>3 DEF A
  <2> QED
    BY <2>3, <2>4
<1> QED
  BY <1>1, Holds, PTL
=============================================================================
