-------------------------- MODULE WorkerDockerProofs --------------------------
(***************************************************************************)
(* Theorems of WorkerDocker, for any workers, goroutines and services that *)
(* share a daemon.                                                         *)
(***************************************************************************)
EXTENDS WorkerDocker, TLAPS

PCs == {"idle", "pull", "name", "create", "start", "list", "next", "remove", "reply"}

Jobs == [kind : {"none", "start", "kill"}, pc : PCs,
         node : Nodes \cup {None}, svc : Services \cup {All, None},
         name : Names \cup {None}, todo : SUBSET Names, clean : BOOLEAN]

Counts == [wants : 0..MaxWants, kills : 0..MaxKills, stops : 0..MaxStops, errors : 0..MaxErrors,
           overlaps : 0..MaxOverlaps]

States == {"none", "created", "running", "exited"}

TypeInv ==
  /\ up \subseteq Nodes
  /\ seq \in [Nodes -> 0..MaxSeq]
  /\ box \in [Names -> States]
  /\ job \in [Goroutines -> Jobs]
  /\ wanted \in [Nodes -> SUBSET Services]
  /\ left \subseteq Names
  /\ count \in Counts

\* What a goroutine does goes with where it is, and its worker's process runs.
FormOf(g) ==
  /\ job[g].kind = "none" => job[g] = Idle
  /\ job[g].kind = "start" =>
       /\ g \in Threads
       /\ job[g].pc \in {"pull", "name", "create", "start", "remove"}
       /\ job[g].svc \in Services
  /\ job[g].kind = "kill" =>
       /\ job[g].pc \in {"list", "next", "remove", "reply"}
       /\ job[g].svc \in Services \cup {All}
  /\ job[g].kind # "none" => job[g].node \in Nodes /\ job[g].node \in up

JobForm == \A g \in Goroutines : FormOf(g)

\* A goroutine that starts a container and has taken its name.
Named(g) == job[g].kind = "start" /\ job[g].pc \in {"create", "start", "remove"}

\* The name is one that the worker's process has given; the container does not run.
NameOf(g) == Named(g) =>
  /\ job[g].name \in Own(job[g].node, job[g].svc)
  /\ job[g].name.seq <= seq[job[g].node]
  /\ job[g].pc # "create" => box[job[g].name] \in {"none", "created"}

NameOfStart == \A g \in Goroutines : NameOf(g)

\* No two goroutines have the same name.
NamesDiffer == \A g, h \in Goroutines :
  Named(g) /\ Named(h) /\ g # h => job[g].name # job[h].name

\* A kill works on the containers of its worker and service.
OnOwn(g) == job[g].kind = "kill" =>
  /\ job[g].todo \subseteq Own(job[g].node, job[g].svc)
  /\ job[g].pc = "remove" => job[g].name \in Own(job[g].node, job[g].svc)

KillOnOwn == \A g \in Goroutines : OnOwn(g)

\* A kill that nothing has disturbed has on its list what is left of them.
OnCourse(g) == job[g].kind = "kill" /\ job[g].clean =>
  /\ \A h \in Threads : ~Starting(h, job[g].node, job[g].svc)
  /\ job[g].pc \in {"next", "remove", "reply"} =>
       \A n \in Own(job[g].node, job[g].svc) :
         box[n] # "none" => n \in job[g].todo \/ (job[g].pc = "remove" /\ n = job[g].name)
  /\ job[g].pc = "remove" => box[job[g].name] # "running"
  /\ job[g].pc = "reply" => job[g].todo = {}

KillOnCourse == \A g \in Goroutines : OnCourse(g)

\* A container that nobody has started is still being started or removed.
Held(n) == \/ n \in left
           \/ \E g \in Threads : /\ job[g].kind = "start"
                                 /\ job[g].pc \in {"start", "remove"}
                                 /\ job[g].name = n

CreatedHeld == \A n \in Names : box[n] = "created" => Held(n)

IInv ==
  /\ TypeInv
  /\ JobForm
  /\ NameOfStart
  /\ NamesDiffer
  /\ KillOnOwn
  /\ KillOnCourse
  /\ CreatedHeld

-----------------------------------------------------------------------------
(* What actions do to the record of a goroutine. *)

\* The fields of a record.
Has(r, k, p, w, s, n, t, c) ==
  /\ r \in Jobs
  /\ r.kind = k
  /\ r.pc = p
  /\ r.node = w
  /\ r.svc = s
  /\ r.name = n
  /\ r.todo = t
  /\ r.clean = c

\* All goroutines but g stay where they are.
Alone(g) ==
  /\ job' \in [Goroutines -> Jobs]
  /\ \A h \in Goroutines \ {g} : job'[h] = job[h]

\* g goes on at p with another name, list and mark.
GoesOn(g, p, n, t, c) ==
  /\ Alone(g)
  /\ Has(job'[g], job[g].kind, p, job[g].node, job[g].svc, n, t, c)

Ends(g) == Alone(g) /\ job'[g] = Idle

\* The fields of a record after each of the changes that actions make.
LEMMA Edits ==
  ASSUME NEW q \in Jobs, NEW p \in PCs,
         NEW n \in Names \cup {None}, NEW t \in SUBSET Names, NEW c \in BOOLEAN
  PROVE  /\ Has([q EXCEPT !.pc = p], q.kind, p, q.node, q.svc, q.name, q.todo, q.clean)
         /\ Has([q EXCEPT !.pc = p, !.name = n], q.kind, p, q.node, q.svc, n, q.todo, q.clean)
         /\ Has([q EXCEPT !.pc = p, !.todo = t], q.kind, p, q.node, q.svc, q.name, t, q.clean)
         /\ Has([q EXCEPT !.pc = p, !.clean = c], q.kind, p, q.node, q.svc, q.name, q.todo, c)
         /\ Has([q EXCEPT !.pc = p, !.name = n, !.todo = t],
                q.kind, p, q.node, q.svc, n, t, q.clean)
         /\ Has([q EXCEPT !.pc = p, !.name = n, !.todo = t, !.clean = c],
                q.kind, p, q.node, q.svc, n, t, c)
BY DEF Jobs, Has

\* The fields of the records that actions begin with.
LEMMA NewJobs ==
  /\ Has(Idle, "none", "idle", None, None, None, {}, FALSE)
  /\ \A w \in Nodes, s \in Services :
       Has([Idle EXCEPT !.kind = "start", !.pc = "pull", !.node = w, !.svc = s],
           "start", "pull", w, s, None, {}, FALSE)
  /\ \A w \in Nodes, s \in Services \cup {All}, c \in BOOLEAN :
       Has([Idle EXCEPT !.kind = "kill", !.pc = "list", !.node = w, !.svc = s, !.clean = c],
           "kill", "list", w, s, None, {}, c)
<1>1. Has(Idle, "none", "idle", None, None, None, {}, FALSE)
  BY DEF Idle, Has, Jobs, PCs
<1>2. ASSUME NEW w \in Nodes, NEW s \in Services
      PROVE  Has([Idle EXCEPT !.kind = "start", !.pc = "pull", !.node = w, !.svc = s],
                 "start", "pull", w, s, None, {}, FALSE)
  BY DEF Idle, Has, Jobs, PCs
<1>3. ASSUME NEW w \in Nodes, NEW s \in Services \cup {All}, NEW c \in BOOLEAN
      PROVE  Has([Idle EXCEPT !.kind = "kill", !.pc = "list", !.node = w, !.svc = s, !.clean = c],
                 "kill", "list", w, s, None, {}, c)
  BY DEF Idle, Has, Jobs, PCs
<1>4. QED
  BY <1>1, <1>2, <1>3, Zenon

\* The number of errors stays within its bound.
LEMMA ErrorCounts == ASSUME count \in Counts, Error PROVE count' \in Counts
BY WorkerAssumption DEF WorkerAssumption, Error, Counts

\* A new record in the place of another.
LEMMA Replaced ==
  ASSUME job \in [Goroutines -> Jobs], NEW g \in Goroutines, NEW j \in Jobs,
         job' = [job EXCEPT ![g] = j]
  PROVE  Alone(g) /\ job'[g] = j
BY DEF Alone

\* To changes only the place.
LEMMA ToGoesOn ==
  ASSUME job \in [Goroutines -> Jobs], NEW g \in Goroutines, NEW p \in PCs, To(g, p)
  PROVE  GoesOn(g, p, job[g].name, job[g].todo, job[g].clean)
<1> DEFINE j == [job[g] EXCEPT !.pc = p]
<1>1. Has(j, job[g].kind, p, job[g].node, job[g].svc, job[g].name, job[g].todo, job[g].clean)
  BY DEF Jobs, Has
<1>2. job' = [job EXCEPT ![g] = j]
  BY DEF To
<1> HIDE DEF j
<1>3. QED
  BY <1>1, <1>2, Replaced DEF GoesOn, Has

\* Reply ends the goroutine.
LEMMA ReplyEnds ==
  ASSUME job \in [Goroutines -> Jobs], NEW g \in Goroutines, Reply(g)
  PROVE  Ends(g)
<1>1. Idle \in Jobs
  BY NewJobs DEF Has
<1>2. QED
  BY <1>1, Replaced DEF Reply, Ends

\* The name that is taken has the next number of the worker.
LEMMA TakeNameGoesOn ==
  ASSUME TypeInv, JobForm, NEW g \in Goroutines, TakeName(g)
  PROVE  /\ seq' \in [Nodes -> 0..MaxSeq]
         /\ \E n \in Own(job[g].node, job[g].svc) :
              /\ n.seq = seq[job[g].node] + 1
              /\ seq' = [seq EXCEPT ![job[g].node] = n.seq]
              /\ GoesOn(g, "create", n, job[g].todo, job[g].clean)
<1> DEFINE w == job[g].node
           n == [node |-> w, svc |-> job[g].svc, seq |-> seq[w] + 1]
           j == [job[g] EXCEPT !.pc = "create", !.name = n]
<1>1. w \in Nodes /\ job[g].svc \in Services /\ seq[w] \in 0..MaxSeq /\ seq[w] < MaxSeq
  BY DEF JobForm, FormOf, TakeName, TypeInv, Idle, Jobs
<1>2. n \in Own(w, job[g].svc) /\ n \in Names /\ n.seq = seq[w] + 1
  BY <1>1, WorkerAssumption DEF WorkerAssumption, Own, Names
<1>3. seq' = [seq EXCEPT ![w] = n.seq] /\ seq'[w] = n.seq
  BY <1>1 DEF TakeName, TypeInv
<1>4. job' = [job EXCEPT ![g] = j]
  BY <1>3, <1>1 DEF TakeName
<1>5. job \in [Goroutines -> Jobs] /\ job[g] \in Jobs
  BY DEF TypeInv
<1> HIDE DEF n
<1>6. Has(j, job[g].kind, "create", w, job[g].svc, n, job[g].todo, job[g].clean)
  BY <1>2, <1>5 DEF Jobs, Has, PCs
<1> HIDE DEF j
<1>7. GoesOn(g, "create", n, job[g].todo, job[g].clean)
  BY <1>4, <1>5, <1>6, Replaced DEF GoesOn, Has
<1>8. seq' \in [Nodes -> 0..MaxSeq]
  BY <1>1, <1>2, <1>3, WorkerAssumption DEF WorkerAssumption, TypeInv
<1>9. QED
  BY <1>2, <1>3, <1>7, <1>8

\* A list has been made, or Docker has refused it.
LEMMA ListGoesOn ==
  ASSUME TypeInv, NEW g \in Goroutines, List(g)
  PROVE  \/ GoesOn(g, "next", job[g].name, Listed(g), job[g].clean)
         \/ GoesOn(g, "reply", job[g].name, job[g].todo, FALSE)
<1> DEFINE j == [job[g] EXCEPT !.pc = "next", !.todo = Listed(g)]
           k == [job[g] EXCEPT !.pc = "reply", !.clean = FALSE]
<1>1. /\ Listed(g) \in SUBSET Names /\ job[g] \in Jobs
      /\ job \in [Goroutines -> Jobs]
  BY DEF TypeInv, Listed, Own
<1>2. /\ Has(j, job[g].kind, "next", job[g].node, job[g].svc, job[g].name, Listed(g), job[g].clean)
      /\ Has(k, job[g].kind, "reply", job[g].node, job[g].svc, job[g].name, job[g].todo, FALSE)
  BY <1>1 DEF Jobs, Has, PCs
<1>3. job' = [job EXCEPT ![g] = j] \/ job' = [job EXCEPT ![g] = k]
  BY DEF List
<1> HIDE DEF j, k
<1>4. QED
  BY <1>1, <1>2, <1>3, Replaced DEF GoesOn, Has

\* A Docker call that fails takes the mark away, one that succeeds changes the container.
LEMMA StopBoxGoesOn ==
  ASSUME TypeInv, NEW g \in Goroutines, NEW n \in Names, StopBox(g, n)
  PROVE  \/ /\ GoesOn(g, "remove", n, job[g].todo \ {n}, job[g].clean)
            /\ box' = [box EXCEPT ![n] = IF @ = "running" THEN "exited" ELSE @]
            /\ UNCHANGED count
         \/ /\ GoesOn(g, "remove", n, job[g].todo \ {n}, FALSE)
            /\ UNCHANGED box
            /\ Error
<1> DEFINE t == job[g].todo \ {n}
           j == [job[g] EXCEPT !.pc = "remove", !.name = n, !.todo = t]
           k == [job[g] EXCEPT !.pc = "remove", !.name = n, !.todo = t, !.clean = FALSE]
<1>1. job[g] \in Jobs /\ t \in SUBSET Names /\ job \in [Goroutines -> Jobs]
  BY DEF TypeInv, Jobs
<1>2. \/ /\ job' = [job EXCEPT ![g] = j]
         /\ box' = [box EXCEPT ![n] = IF @ = "running" THEN "exited" ELSE @]
         /\ UNCHANGED count
      \/ job' = [job EXCEPT ![g] = k] /\ UNCHANGED box /\ Error
  BY DEF StopBox
<1> HIDE DEF t
<1>3. /\ Has(j, job[g].kind, "remove", job[g].node, job[g].svc, n, t, job[g].clean)
      /\ Has(k, job[g].kind, "remove", job[g].node, job[g].svc, n, t, FALSE)
  BY <1>1 DEF Jobs, Has, PCs
<1> HIDE DEF j, k
<1>4. job' = [job EXCEPT ![g] = j] => GoesOn(g, "remove", n, t, job[g].clean)
  BY <1>1, <1>3, Replaced DEF GoesOn, Has
<1>5. job' = [job EXCEPT ![g] = k] => GoesOn(g, "remove", n, t, FALSE)
  BY <1>1, <1>3, Replaced DEF GoesOn, Has
<1>6. QED
  BY <1>2, <1>4, <1>5 DEF t

\* A container has been removed unless it runs, or Docker has refused it.
LEMMA RemoveBoxGoesOn ==
  ASSUME TypeInv, NEW g \in Goroutines, RemoveBox(g)
  PROVE  \/ /\ GoesOn(g, "next", job[g].name, job[g].todo, job[g].clean)
            /\ box' = [box EXCEPT ![job[g].name] = IF @ = "running" THEN @ ELSE "none"]
            /\ UNCHANGED count
         \/ /\ GoesOn(g, "next", job[g].name, job[g].todo, FALSE)
            /\ UNCHANGED box
            /\ Error
<1> DEFINE k == [job[g] EXCEPT !.pc = "next", !.clean = FALSE]
<1>1. job[g] \in Jobs /\ job \in [Goroutines -> Jobs]
  BY DEF TypeInv
<1>2. To(g, "next") => GoesOn(g, "next", job[g].name, job[g].todo, job[g].clean)
  BY <1>1, ToGoesOn DEF PCs
<1>3. Has(k, job[g].kind, "next", job[g].node, job[g].svc, job[g].name, job[g].todo, FALSE)
  BY <1>1 DEF Jobs, Has, PCs
<1>4. \/ /\ To(g, "next")
         /\ box' = [box EXCEPT ![job[g].name] = IF @ = "running" THEN @ ELSE "none"]
         /\ UNCHANGED count
      \/ job' = [job EXCEPT ![g] = k] /\ UNCHANGED box /\ Error
  BY DEF RemoveBox
<1> HIDE DEF k
<1>5. job' = [job EXCEPT ![g] = k] => GoesOn(g, "next", job[g].name, job[g].todo, FALSE)
  BY <1>1, <1>3, Replaced DEF GoesOn, Has
<1>6. QED
  BY <1>2, <1>4, <1>5

\* A kill begins, with the mark if no StartContainer of its service runs on its worker.
LEMMA KillBegins ==
  ASSUME job \in [Goroutines -> Jobs], NEW g \in Goroutines, NEW w \in Nodes,
         NEW s \in Services \cup {All}, Kill(g, w, s)
  PROVE  /\ Alone(g)
         /\ \E c \in BOOLEAN : /\ c <=> \A h \in Threads : ~Starting(h, w, s)
                               /\ Has(job'[g], "kill", "list", w, s, None, {}, c)
<1> DEFINE c == \A h \in Threads : ~Starting(h, w, s)
           j == [Idle EXCEPT !.kind = "kill", !.pc = "list", !.node = w, !.svc = s, !.clean = c]
<1>1. job' = [job EXCEPT ![g] = j]
  BY Zenon DEF Kill
<1>2. c \in BOOLEAN
  OBVIOUS
<1> HIDE DEF c
<1>3. Has(j, "kill", "list", w, s, None, {}, c)
  BY <1>2, NewJobs
<1> HIDE DEF j
<1>4. Alone(g) /\ job'[g] = j
  BY <1>1, <1>3, Replaced DEF Has
<1>5. QED
  BY <1>2, <1>3, <1>4, Zenon DEF c

\* A start begins, and kills of its service on its worker lose their mark.
LEMMA StartBegins ==
  ASSUME job \in [Goroutines -> Jobs], NEW g \in Threads, NEW w \in Nodes, NEW s \in Services,
         StartCommand(g, w, s)
  PROVE  /\ job' \in [Goroutines -> Jobs]
         /\ Has(job'[g], "start", "pull", w, s, None, {}, FALSE)
         /\ \A h \in Goroutines \ {g} : \E c \in BOOLEAN :
              /\ c <=> job[h].clean /\ ~(job[h].node = w /\ job[h].svc \in {s, All})
              /\ Has(job'[h], job[h].kind, job[h].pc, job[h].node, job[h].svc, job[h].name,
                     job[h].todo, c)
<1> DEFINE c(h) == job[h].clean /\ ~(job[h].node = w /\ job[h].svc \in {s, All})
           j(h) == [job[h] EXCEPT !.clean = c(h)]
           i == [Idle EXCEPT !.kind = "start", !.pc = "pull", !.node = w, !.svc = s]
<1>1. job' = [h \in Goroutines |-> IF h = g THEN i ELSE j(h)]
  BY Zenon DEF StartCommand
<1>2. g \in Goroutines
  BY DEF Goroutines
<1>3. Has(i, "start", "pull", w, s, None, {}, FALSE)
  BY NewJobs
<1>4. ASSUME NEW h \in Goroutines
      PROVE  /\ c(h) \in BOOLEAN
             /\ Has(j(h), job[h].kind, job[h].pc, job[h].node, job[h].svc, job[h].name,
                    job[h].todo, c(h))
  <2>1. c(h) \in BOOLEAN /\ job[h] \in Jobs
    OBVIOUS
  <2> HIDE DEF c
  <2>2. QED
    BY <2>1 DEF Jobs, Has
<1> HIDE DEF i, j
<1>5. job' \in [Goroutines -> Jobs]
  BY <1>1, <1>3, <1>4 DEF Has
<1>6. job'[g] = i
  BY <1>1, <1>2
<1>7. \A h \in Goroutines \ {g} : job'[h] = j(h)
  BY <1>1
<1>8. ASSUME NEW h \in Goroutines \ {g}
      PROVE  \E b \in BOOLEAN :
               /\ b <=> job[h].clean /\ ~(job[h].node = w /\ job[h].svc \in {s, All})
               /\ Has(job'[h], job[h].kind, job[h].pc, job[h].node, job[h].svc, job[h].name,
                      job[h].todo, b)
  <2>1. c(h) <=> job[h].clean /\ ~(job[h].node = w /\ job[h].svc \in {s, All})
    OBVIOUS
  <2> HIDE DEF c
  <2>2. c(h) \in BOOLEAN /\ Has(job'[h], job[h].kind, job[h].pc, job[h].node, job[h].svc,
                                job[h].name, job[h].todo, c(h))
    BY <1>4, <1>7
  <2>3. QED
    BY <2>1, <2>2, Zenon
<1>9. QED
  BY <1>3, <1>5, <1>6, <1>8, Zenon

\* All goroutines of a worker end.
LEMMA DieEnds ==
  ASSUME job \in [Goroutines -> Jobs], NEW w \in Nodes, Die(w)
  PROVE  /\ job' \in [Goroutines -> Jobs]
         /\ \A g \in Goroutines : job'[g] = IF job[g].node = w THEN Idle ELSE job[g]
<1>1. Idle \in Jobs
  BY NewJobs DEF Has
<1>2. QED
  BY <1>1 DEF Die

-----------------------------------------------------------------------------
(* The invariant is inductive. *)

\* Types are kept; that a name is one of Names comes from NameOfStart.
LEMMA TypeStep == ASSUME TypeInv, JobForm, NameOfStart, Next PROVE TypeInv'
<1> USE WorkerAssumption DEF WorkerAssumption
<1>0. job \in [Goroutines -> Jobs]
  BY DEF TypeInv
<1>1. ASSUME NEW w \in Nodes, NEW s \in Services, Want(w, s) PROVE TypeInv'
  BY <1>1 DEF Want, TypeInv, Counts
<1>2. ASSUME NEW g \in Threads, NEW w \in Nodes, NEW s \in Services, StartCommand(g, w, s)
      PROVE  TypeInv'
  <2>1. job' \in [Goroutines -> Jobs]
    BY <1>0, <1>2, StartBegins
  <2>2. QED
    BY <1>2, <2>1 DEF StartCommand, TypeInv, Counts
<1>3. ASSUME NEW g \in Threads, NEW w \in Nodes, NEW s \in Services \cup {All},
             KillCommand(g, w, s)
      PROVE  TypeInv'
  <2>1. job' \in [Goroutines -> Jobs]
    BY <1>0, <1>3, KillBegins DEF KillCommand, Alone, Goroutines
  <2>2. QED
    BY <1>3, <2>1 DEF KillCommand, TypeInv, Counts
<1>4. ASSUME NEW g \in Goroutines, Pull(g) PROVE TypeInv'
  <2>1. job' \in [Goroutines -> Jobs]
    BY <1>0, <1>4, ToGoesOn, ReplyEnds DEF Pull, GoesOn, Ends, Alone, PCs
  <2>2. count' \in Counts
    BY <1>4, ErrorCounts DEF Pull, TypeInv
  <2>3. QED
    BY <1>4, <2>1, <2>2 DEF Pull, TypeInv
<1>5. ASSUME NEW g \in Goroutines, TakeName(g) PROVE TypeInv'
  <2>1. job' \in [Goroutines -> Jobs] /\ seq' \in [Nodes -> 0..MaxSeq]
    BY <1>5, TakeNameGoesOn DEF GoesOn, Alone
  <2>2. QED
    BY <1>5, <2>1 DEF TakeName, TypeInv
<1>6. ASSUME NEW g \in Goroutines, Create(g) PROVE TypeInv'
  <2>1. job' \in [Goroutines -> Jobs]
    BY <1>0, <1>6, ToGoesOn, ReplyEnds DEF Create, GoesOn, Ends, Alone, PCs
  <2>2. count' \in Counts
    BY <1>6, ErrorCounts DEF Create, TypeInv
  <2>3. box' \in [Names -> States] /\ left' \subseteq Names
    BY <1>6 DEF Create, TypeInv, States
  <2>4. QED
    BY <1>6, <2>1, <2>2, <2>3 DEF Create, TypeInv
<1>7. ASSUME NEW g \in Goroutines, Start(g) PROVE TypeInv'
  <2>1. job' \in [Goroutines -> Jobs]
    BY <1>0, <1>7, ToGoesOn, ReplyEnds DEF Start, GoesOn, Ends, Alone, PCs
  <2>2. count' \in Counts
    BY <1>7, ErrorCounts DEF Start, TypeInv
  <2>3. box' \in [Names -> States] /\ wanted' \in [Nodes -> SUBSET Services]
    BY <1>7 DEF Start, TypeInv, States
  <2>4. QED
    BY <1>7, <2>1, <2>2, <2>3 DEF Start, TypeInv
<1>8. ASSUME NEW g \in Goroutines, RemoveCreated(g) PROVE TypeInv'
  <2>1. job' \in [Goroutines -> Jobs]
    BY <1>0, <1>8, ReplyEnds DEF RemoveCreated, Ends, Alone
  <2>2. count' \in Counts
    BY <1>8, ErrorCounts DEF RemoveCreated, TypeInv
  <2>3. job[g].name \in Names
    BY <1>8 DEF RemoveCreated, NameOfStart, NameOf, Named, Own
  <2>4. QED
    BY <1>8, <2>1, <2>2, <2>3 DEF RemoveCreated, TypeInv, States
<1>9. ASSUME NEW g \in Goroutines, List(g) PROVE TypeInv'
  <2>1. job' \in [Goroutines -> Jobs]
    BY <1>9, ListGoesOn DEF GoesOn, Alone
  <2>2. count' \in Counts
    BY <1>9, ErrorCounts DEF List, TypeInv
  <2>3. QED
    BY <1>9, <2>1, <2>2 DEF List, TypeInv
<1>10. ASSUME NEW g \in Goroutines, NEW n \in Names, StopBox(g, n) PROVE TypeInv'
  <2>1. job' \in [Goroutines -> Jobs]
    BY <1>10, StopBoxGoesOn DEF GoesOn, Alone
  <2>2. count' \in Counts
    BY <1>10, ErrorCounts DEF StopBox, TypeInv
  <2>3. box' \in [Names -> States]
    BY <1>10 DEF StopBox, TypeInv, States
  <2>4. QED
    BY <1>10, <2>1, <2>2, <2>3 DEF StopBox, TypeInv
<1>11. ASSUME NEW g \in Goroutines, RemoveBox(g) PROVE TypeInv'
  <2>1. job' \in [Goroutines -> Jobs]
    BY <1>11, RemoveBoxGoesOn DEF GoesOn, Alone
  <2>2. count' \in Counts
    BY <1>11, ErrorCounts DEF RemoveBox, TypeInv
  <2>3. box' \in [Names -> States]
    BY <1>11 DEF RemoveBox, TypeInv, States
  <2>4. QED
    BY <1>11, <2>1, <2>2, <2>3 DEF RemoveBox, TypeInv
<1>12. ASSUME NEW g \in Goroutines, KillEnd(g) PROVE TypeInv'
  <2>1. job' \in [Goroutines -> Jobs]
    BY <1>0, <1>12, ToGoesOn DEF KillEnd, GoesOn, Alone, PCs
  <2>2. QED
    BY <1>12, <2>1 DEF KillEnd, TypeInv
<1>13. ASSUME NEW g \in Goroutines, KillReply(g) PROVE TypeInv'
  <2>1. job' \in [Goroutines -> Jobs]
    BY <1>0, <1>13, ReplyEnds DEF KillReply, Ends, Alone
  <2>2. QED
    BY <1>13, <2>1 DEF KillReply, TypeInv
<1>14. ASSUME NEW w \in Nodes, Crash(w) PROVE TypeInv'
  <2>1. job' \in [Goroutines -> Jobs]
    BY <1>0, <1>14, DieEnds DEF Crash
  <2>2. QED
    BY <1>14, <2>1 DEF Crash, Die, Own, TypeInv, Counts
<1>15. ASSUME NEW w \in Nodes, Signal(w) PROVE TypeInv'
  <2>1. job' \in [Goroutines -> Jobs]
    BY <1>0, <1>15, KillBegins DEF Signal, Alone, Goroutines
  <2>2. QED
    BY <1>15, <2>1 DEF Signal, TypeInv, Counts
<1>16. ASSUME NEW w \in Nodes, Exit(w) PROVE TypeInv'
  <2>1. job' \in [Goroutines -> Jobs]
    BY <1>0, <1>16, DieEnds DEF Exit
  <2>2. QED
    BY <1>16, <2>1 DEF Exit, Die, Own, TypeInv
<1>17. ASSUME NEW w \in Nodes, WorkerStart(w) PROVE TypeInv'
  BY <1>17 DEF WorkerStart, TypeInv
<1>18. ASSUME NEW n \in Names, ContainerExit(n) PROVE TypeInv'
  BY <1>18 DEF ContainerExit, TypeInv, States, Counts
<1>19. QED
  BY <1>1, <1>2, <1>3, <1>4, <1>5, <1>6, <1>7, <1>8, <1>9, <1>10, <1>11, <1>12, <1>13,
     <1>14, <1>15, <1>16, <1>17, <1>18 DEF Next, Run

\* ImageInspect and ImagePull.
LEMMA PullStep ==
  ASSUME IInv, NEW g \in Goroutines, Pull(g)
  PROVE  IInv'
<1> USE DEF IInv
<1>1. job \in [Goroutines -> Jobs] /\ Threads \subseteq Goroutines
  BY DEF TypeInv, Goroutines
<1>2. TypeInv'
  <2>1. Next
    BY DEF Next, Run
  <2>2. QED
    BY <2>1, TypeStep
<1>3. /\ job[g].pc = "pull"
      /\ GoesOn(g, "name", job[g].name, job[g].todo, job[g].clean) \/ Ends(g)
      /\ UNCHANGED <<up, seq, box, left>>
  BY <1>1, ToGoesOn, ReplyEnds DEF Pull, PCs
<1>4. /\ FormOf(g) /\ NameOf(g) /\ OnOwn(g) /\ OnCourse(g)
      /\ job[g].kind \in {"none", "start", "kill"}
  BY <1>1 DEF JobForm, NameOfStart, KillOnOwn, KillOnCourse, Jobs
<1>5. JobForm'
  <2> SUFFICES ASSUME NEW h \in Goroutines PROVE FormOf(h)'
    BY DEF JobForm
  <2>1. FormOf(h)
    BY DEF JobForm
  <2>2. CASE h = g
    BY <1>1, <1>3, <1>4, <2>1, <2>2 DEF GoesOn, Ends, Alone, Has, Idle, FormOf
  <2>3. CASE h # g
    BY <1>1, <1>3, <1>4, <2>1, <2>3 DEF GoesOn, Ends, Alone, Has, Idle, FormOf, TypeInv, States
  <2>4. QED
    BY <2>2, <2>3
<1>6. NameOfStart'
  BY <1>1, <1>3, <1>4 DEF NameOfStart, GoesOn, Ends, Alone, Has, Idle, FormOf, NameOf, Named, Own,
        Names, NamesDiffer, TypeInv, States
<1>7. KillOnOwn'
  BY <1>1, <1>3, <1>4 DEF KillOnOwn, GoesOn, Ends, Alone, Has, Idle, FormOf, OnOwn, Own, Listed,
        TypeInv, States
<1>8. KillOnCourse'
  <2> SUFFICES ASSUME NEW h \in Goroutines PROVE OnCourse(h)'
    BY DEF KillOnCourse
  <2>1. OnCourse(h) /\ FormOf(h)
    BY DEF KillOnCourse, JobForm
  <2>2. CASE h = g
    <3>1. job'[h].kind # "kill"
      BY <1>3, <1>4, <2>2 DEF FormOf, GoesOn, Ends, Has, Idle
    <3>2. QED
      BY <3>1, <2>2 DEF OnCourse
  <2>3. CASE h # g
    BY <1>1, <1>3, <1>4, <2>1, <2>3 DEF GoesOn, Ends, Alone, Has, Idle, FormOf, OnCourse, OnOwn,
          NameOf, Named, Starting, Own, Listed, KillOnOwn, NameOfStart, JobForm, TypeInv, States
  <2>4. QED
    BY <2>2, <2>3
<1>9. NamesDiffer'
  BY <1>3, <1>4 DEF NamesDiffer, NameOfStart, NameOf, Named, FormOf, JobForm, Own, TypeInv,
        GoesOn, Ends, Alone, Has, Idle
<1>10. CreatedHeld'
  BY <1>1, <1>3, <1>4 DEF CreatedHeld, Held, NameOf, Named, FormOf, Own, TypeInv, GoesOn, Ends,
        Alone, Has, Idle
<1>11. QED
  BY <1>2, <1>5, <1>6, <1>7, <1>8, <1>9, <1>10

\* A new number: greater than those of all names that goroutines of the worker have.
LEMMA TakeNameStep ==
  ASSUME IInv, NEW g \in Goroutines, TakeName(g)
  PROVE  IInv'
<1> USE DEF IInv
<1>1. job \in [Goroutines -> Jobs] /\ Threads \subseteq Goroutines
  BY DEF TypeInv, Goroutines
<1>2. TypeInv'
  <2>1. Next
    BY DEF Next, Run
  <2>2. QED
    BY <2>1, TypeStep
<1>3. /\ job[g].pc = "name"
      /\ \E n \in Own(job[g].node, job[g].svc) :
           /\ n.seq = seq[job[g].node] + 1
           /\ seq' = [seq EXCEPT ![job[g].node] = n.seq]
           /\ GoesOn(g, "create", n, job[g].todo, job[g].clean)
      /\ UNCHANGED <<up, box, left>>
  BY <1>1, TakeNameGoesOn DEF TakeName
<1>4. /\ FormOf(g) /\ NameOf(g) /\ OnOwn(g) /\ OnCourse(g)
      /\ job[g].kind \in {"none", "start", "kill"}
  BY <1>1 DEF JobForm, NameOfStart, KillOnOwn, KillOnCourse, Jobs
<1>5. JobForm'
  BY <1>1, <1>3, <1>4 DEF JobForm, GoesOn, Ends, Alone, Has, Idle, FormOf, TypeInv, States
<1>6. NameOfStart'
  <2> SUFFICES ASSUME NEW h \in Goroutines PROVE NameOf(h)'
    BY DEF NameOfStart
  <2>1. NameOf(h) /\ FormOf(h)
    BY DEF NameOfStart, JobForm
  <2>2. CASE h = g
    <3>1. PICK n \in Own(job[g].node, job[g].svc) :
            /\ seq' = [seq EXCEPT ![job[g].node] = n.seq]
            /\ GoesOn(g, "create", n, job[g].todo, job[g].clean)
      BY <1>3
    <3>2. job[g].node \in Nodes
      BY <1>3, <1>4 DEF FormOf, Idle
    <3>3. seq'[job[g].node] = n.seq /\ n.seq \in Nat
      BY <3>1, <3>2 DEF TypeInv, Own, Names
    <3>4. QED
      BY <2>2, <3>1, <3>3 DEF NameOf, Named, GoesOn, Has
  <2>3. CASE h # g
    BY <1>1, <1>3, <1>4, <2>1, <2>3 DEF GoesOn, Ends, Alone, Has, Idle, FormOf, NameOf, Named,
          Own, Names, NamesDiffer, NameOfStart, TypeInv, States
  <2>4. QED
    BY <2>2, <2>3
<1>7. KillOnOwn'
  BY <1>1, <1>3, <1>4 DEF KillOnOwn, GoesOn, Ends, Alone, Has, Idle, FormOf, OnOwn, Own, Listed,
        TypeInv, States
<1>8. KillOnCourse'
  BY <1>1, <1>3, <1>4 DEF KillOnCourse, GoesOn, Ends, Alone, Has, Idle, FormOf, OnCourse, OnOwn,
        NameOf, Named, Starting, Own, Listed, KillOnOwn, NameOfStart, JobForm, TypeInv, States
<1>9. NamesDiffer'
  BY <1>3, <1>4 DEF NamesDiffer, NameOfStart, NameOf, Named, FormOf, JobForm, Own, TypeInv,
        GoesOn, Ends, Alone, Has, Idle
<1>10. CreatedHeld'
  BY <1>1, <1>3, <1>4 DEF CreatedHeld, Held, NameOf, Named, FormOf, Own, TypeInv, GoesOn, Ends,
        Alone, Has, Idle
<1>11. QED
  BY <1>2, <1>5, <1>6, <1>7, <1>8, <1>9, <1>10

\* ContainerCreate: no kill that is undisturbed works on this service.
LEMMA CreateStep ==
  ASSUME IInv, NEW g \in Goroutines, Create(g)
  PROVE  IInv'
<1> USE DEF IInv
<1>1. job \in [Goroutines -> Jobs] /\ Threads \subseteq Goroutines
  BY DEF TypeInv, Goroutines
<1>2. TypeInv'
  <2>1. Next
    BY DEF Next, Run
  <2>2. QED
    BY <2>1, TypeStep
<1>3. /\ job[g].pc = "create"
      /\ \/ /\ GoesOn(g, "start", job[g].name, job[g].todo, job[g].clean)
            /\ box[job[g].name] = "none"
            /\ box' = [box EXCEPT ![job[g].name] = "created"]
            /\ left' = left \ {job[g].name}
         \/ Ends(g) /\ UNCHANGED <<box, left>>
      /\ UNCHANGED <<up, seq>>
  BY <1>1, ToGoesOn, ReplyEnds DEF Create, PCs
<1>4. /\ FormOf(g) /\ NameOf(g) /\ OnOwn(g) /\ OnCourse(g)
      /\ job[g].kind \in {"none", "start", "kill"}
  BY <1>1 DEF JobForm, NameOfStart, KillOnOwn, KillOnCourse, Jobs
<1>5. JobForm'
  <2> SUFFICES ASSUME NEW h \in Goroutines PROVE FormOf(h)'
    BY DEF JobForm
  <2>1. FormOf(h)
    BY DEF JobForm
  <2>2. CASE h = g
    BY <1>1, <1>3, <1>4, <2>1, <2>2 DEF GoesOn, Ends, Alone, Has, Idle, FormOf
  <2>3. CASE h # g
    BY <1>1, <1>3, <1>4, <2>1, <2>3 DEF GoesOn, Ends, Alone, Has, Idle, FormOf, TypeInv, States
  <2>4. QED
    BY <2>2, <2>3
<1>6. NameOfStart'
  <2> SUFFICES ASSUME NEW h \in Goroutines PROVE NameOf(h)'
    BY DEF NameOfStart
  <2>1. NameOf(h) /\ FormOf(h)
    BY DEF NameOfStart, JobForm
  <2>2. CASE h = g
    <3>1. job[g].kind = "start" /\ job[g].name \in Names
      BY <1>3, <1>4 DEF FormOf, NameOf, Named, Own, Idle
    <3>2. Named(g) /\ seq' = seq
      BY <1>3, <3>1 DEF Named
    <3>3. CASE Ends(g)
      BY <2>2, <3>3 DEF NameOf, Named, Ends, Idle
    <3>4. CASE /\ GoesOn(g, "start", job[g].name, job[g].todo, job[g].clean)
               /\ box' = [box EXCEPT ![job[g].name] = "created"]
      BY <1>4, <2>2, <3>1, <3>2, <3>4 DEF NameOf, Named, GoesOn, Has, TypeInv
    <3>5. QED
      BY <1>3, <3>3, <3>4
  <2>3. CASE h # g
    BY <1>1, <1>3, <1>4, <2>1, <2>3 DEF GoesOn, Ends, Alone, Has, Idle, FormOf, NameOf, Named,
          Own, Names, NamesDiffer, NameOfStart, TypeInv, States
  <2>4. QED
    BY <2>2, <2>3
<1>7. KillOnOwn'
  BY <1>1, <1>3, <1>4 DEF KillOnOwn, GoesOn, Ends, Alone, Has, Idle, FormOf, OnOwn, Own, Listed,
        TypeInv, States
<1>8. KillOnCourse'
  <2> SUFFICES ASSUME NEW h \in Goroutines PROVE OnCourse(h)'
    BY DEF KillOnCourse
  <2>1. OnCourse(h) /\ FormOf(h)
    BY DEF KillOnCourse, JobForm
  <2>2. CASE h = g
    <3>1. job'[h].kind # "kill"
      BY <1>3, <1>4, <2>2 DEF FormOf, GoesOn, Ends, Has, Idle
    <3>2. QED
      BY <3>1, <2>2 DEF OnCourse
  <2>3. CASE h # g
    <3>1. job'[h] = job[h] /\ \A n \in Names \ {job[g].name} : box'[n] = box[n]
      BY <1>3, <2>3 DEF TypeInv, GoesOn, Ends, Alone
    <3>2. \A x \in Threads : Starting(x, job[h].node, job[h].svc)' =>
            Starting(x, job[h].node, job[h].svc)
      BY <1>1, <1>3, <1>4, <3>1 DEF Starting, GoesOn, Ends, Alone, Has, Idle, FormOf
    <3>3. g \in Threads /\ Named(g)
      BY <1>3, <1>4 DEF FormOf, Named, Idle
    <3>4. job[h].kind = "kill" /\ job[h].clean => job[g].name \notin Own(job[h].node, job[h].svc)
      BY <1>4, <2>1, <3>3, WorkerAssumption
         DEF WorkerAssumption, NameOf, FormOf, Named, OnCourse, Starting, Own
    <3>5. \A n \in Own(job[h].node, job[h].svc) : n \in Names
      BY DEF Own
    <3>6. OnOwn(h)
      BY DEF KillOnOwn
    <3>7. QED
      BY <2>1, <3>1, <3>2, <3>4, <3>5, <3>6 DEF OnCourse, OnOwn
  <2>4. QED
    BY <2>2, <2>3
<1>9. NamesDiffer'
  BY <1>3, <1>4 DEF NamesDiffer, NameOfStart, NameOf, Named, FormOf, JobForm, Own, TypeInv,
        GoesOn, Ends, Alone, Has, Idle
<1>10. CreatedHeld'
  <2>1. job[g].kind = "start" /\ g \in Threads
    BY <1>3, <1>4 DEF FormOf, Idle
  <2> SUFFICES ASSUME NEW n \in Names, box'[n] = "created" PROVE Held(n)'
    BY DEF CreatedHeld
  <2>2. \A x \in Threads : job[x].pc \in {"start", "remove"} => job'[x] = job[x]
    BY <1>1, <1>3 DEF GoesOn, Ends, Alone
  <2>3. CASE n = job[g].name /\ GoesOn(g, "start", job[g].name, job[g].todo, job[g].clean)
    BY <2>1, <2>3 DEF Held, GoesOn, Has
  <2>4. CASE box'[n] = box[n] /\ (n \in left => n \in left')
    BY <2>2, <2>4 DEF CreatedHeld, Held
  <2>5. QED
    BY <1>3, <2>3, <2>4 DEF TypeInv
<1>11. QED
  BY <1>2, <1>5, <1>6, <1>7, <1>8, <1>9, <1>10

\* ContainerStart: names differ, so that no other start has this container.
LEMMA StartStep ==
  ASSUME IInv, NEW g \in Goroutines, Start(g)
  PROVE  IInv'
<1> USE DEF IInv
<1>1. job \in [Goroutines -> Jobs] /\ Threads \subseteq Goroutines
  BY DEF TypeInv, Goroutines
<1>2. TypeInv'
  <2>1. Next
    BY DEF Next, Run
  <2>2. QED
    BY <2>1, TypeStep
<1>3. /\ job[g].pc = "start"
      /\ \/ /\ Ends(g)
            /\ box[job[g].name] = "created"
            /\ box' = [box EXCEPT ![job[g].name] = "running"]
         \/ GoesOn(g, "remove", job[g].name, job[g].todo, job[g].clean) /\ UNCHANGED box
      /\ UNCHANGED <<up, seq, left>>
  BY <1>1, ToGoesOn, ReplyEnds DEF Start, PCs
<1>4. /\ FormOf(g) /\ NameOf(g) /\ OnOwn(g) /\ OnCourse(g)
      /\ job[g].kind \in {"none", "start", "kill"}
  BY <1>1 DEF JobForm, NameOfStart, KillOnOwn, KillOnCourse, Jobs
<1>5. JobForm'
  <2> SUFFICES ASSUME NEW h \in Goroutines PROVE FormOf(h)'
    BY DEF JobForm
  <2>1. FormOf(h)
    BY DEF JobForm
  <2>2. CASE h = g
    BY <1>1, <1>3, <1>4, <2>1, <2>2 DEF GoesOn, Ends, Alone, Has, Idle, FormOf
  <2>3. CASE h # g
    BY <1>1, <1>3, <1>4, <2>1, <2>3 DEF GoesOn, Ends, Alone, Has, Idle, FormOf, TypeInv, States
  <2>4. QED
    BY <2>2, <2>3
<1>6. NameOfStart'
  <2> SUFFICES ASSUME NEW h \in Goroutines PROVE NameOf(h)'
    BY DEF NameOfStart
  <2>1. NameOf(h) /\ FormOf(h)
    BY DEF NameOfStart, JobForm
  <2>2. CASE h = g
    BY <1>1, <1>3, <1>4, <2>1, <2>2 DEF GoesOn, Ends, Alone, Has, Idle, FormOf, NameOf, Named,
          Own, Names, NamesDiffer, NameOfStart
  <2>3. CASE h # g
    <3>1. job'[h] = job[h] /\ seq' = seq
      BY <1>3, <2>3 DEF GoesOn, Ends, Alone
    <3>2. Named(g)
      BY <1>3, <1>4 DEF FormOf, Named, Idle
    <3>3. Named(h) => job[h].name # job[g].name
      BY <2>3, <3>2 DEF NamesDiffer
    <3>4. Named(h) => box'[job[h].name] = box[job[h].name]
      BY <1>3, <2>1, <3>3 DEF NameOf, Own, TypeInv
    <3>5. QED
      BY <2>1, <3>1, <3>4 DEF NameOf, Named
  <2>4. QED
    BY <2>2, <2>3
<1>7. KillOnOwn'
  BY <1>1, <1>3, <1>4 DEF KillOnOwn, GoesOn, Ends, Alone, Has, Idle, FormOf, OnOwn, Own, Listed,
        TypeInv, States
<1>8. KillOnCourse'
  <2> SUFFICES ASSUME NEW h \in Goroutines PROVE OnCourse(h)'
    BY DEF KillOnCourse
  <2>1. OnCourse(h) /\ FormOf(h)
    BY DEF KillOnCourse, JobForm
  <2>2. CASE h = g
    <3>1. job'[h].kind # "kill"
      BY <1>3, <1>4, <2>2 DEF FormOf, GoesOn, Ends, Has, Idle
    <3>2. QED
      BY <3>1, <2>2 DEF OnCourse
  <2>3. CASE h # g
    <3>1. job'[h] = job[h] /\ \A n \in Names \ {job[g].name} : box'[n] = box[n]
      BY <1>3, <2>3 DEF TypeInv, GoesOn, Ends, Alone
    <3>2. \A x \in Threads : Starting(x, job[h].node, job[h].svc)' =>
            Starting(x, job[h].node, job[h].svc)
      BY <1>1, <1>3, <1>4, <3>1 DEF Starting, GoesOn, Ends, Alone, Has, Idle, FormOf
    <3>3. g \in Threads /\ Named(g)
      BY <1>3, <1>4 DEF FormOf, Named, Idle
    <3>4. job[h].kind = "kill" /\ job[h].clean => job[g].name \notin Own(job[h].node, job[h].svc)
      BY <1>4, <2>1, <3>3, WorkerAssumption
         DEF WorkerAssumption, NameOf, FormOf, Named, OnCourse, Starting, Own
    <3>5. \A n \in Own(job[h].node, job[h].svc) : n \in Names
      BY DEF Own
    <3>6. OnOwn(h)
      BY DEF KillOnOwn
    <3>7. QED
      BY <2>1, <3>1, <3>2, <3>4, <3>5, <3>6 DEF OnCourse, OnOwn
  <2>4. QED
    BY <2>2, <2>3
<1>9. NamesDiffer'
  BY <1>3, <1>4 DEF NamesDiffer, NameOfStart, NameOf, Named, FormOf, JobForm, Own, TypeInv,
        GoesOn, Ends, Alone, Has, Idle
<1>10. CreatedHeld'
  BY <1>1, <1>3, <1>4 DEF CreatedHeld, Held, NameOf, Named, FormOf, Own, TypeInv, GoesOn, Ends,
        Alone, Has, Idle
<1>11. QED
  BY <1>2, <1>5, <1>6, <1>7, <1>8, <1>9, <1>10

\* The removal of a container that has not started.
LEMMA RemoveCreatedStep ==
  ASSUME IInv, NEW g \in Goroutines, RemoveCreated(g)
  PROVE  IInv'
<1> USE DEF IInv
<1>1. job \in [Goroutines -> Jobs] /\ Threads \subseteq Goroutines
  BY DEF TypeInv, Goroutines
<1>2. TypeInv'
  <2>1. Next
    BY DEF Next, Run
  <2>2. QED
    BY <2>1, TypeStep
<1>3. /\ job[g].pc = "remove"
      /\ job[g].kind = "start"
      /\ Ends(g)
      /\ \/ box' = [box EXCEPT ![job[g].name] = "none"] /\ UNCHANGED left
         \/ left' = left \cup {job[g].name} /\ UNCHANGED box
      /\ UNCHANGED <<up, seq>>
  BY <1>1, ReplyEnds DEF RemoveCreated
<1>4. /\ FormOf(g) /\ NameOf(g) /\ OnOwn(g) /\ OnCourse(g)
      /\ job[g].kind \in {"none", "start", "kill"}
  BY <1>1 DEF JobForm, NameOfStart, KillOnOwn, KillOnCourse, Jobs
<1>5. JobForm'
  BY <1>1, <1>3, <1>4 DEF JobForm, GoesOn, Ends, Alone, Has, Idle, FormOf, TypeInv, States
<1>6. NameOfStart'
  BY <1>1, <1>3, <1>4 DEF NameOfStart, GoesOn, Ends, Alone, Has, Idle, FormOf, NameOf, Named, Own,
        Names, NamesDiffer, TypeInv, States
<1>7. KillOnOwn'
  BY <1>1, <1>3, <1>4 DEF KillOnOwn, GoesOn, Ends, Alone, Has, Idle, FormOf, OnOwn, Own, Listed,
        TypeInv, States
<1>8. KillOnCourse'
  BY <1>1, <1>3, <1>4 DEF KillOnCourse, GoesOn, Ends, Alone, Has, Idle, FormOf, OnCourse, OnOwn,
        NameOf, Named, Starting, Own, Listed, KillOnOwn, NameOfStart, JobForm, TypeInv, States
<1>9. NamesDiffer'
  BY <1>3, <1>4 DEF NamesDiffer, NameOfStart, NameOf, Named, FormOf, JobForm, Own, TypeInv,
        GoesOn, Ends, Alone, Has, Idle
<1>10. CreatedHeld'
  BY <1>1, <1>3, <1>4 DEF CreatedHeld, Held, NameOf, Named, FormOf, Own, TypeInv, GoesOn, Ends,
        Alone, Has, Idle
<1>11. QED
  BY <1>2, <1>5, <1>6, <1>7, <1>8, <1>9, <1>10

\* ContainerList: the list is complete, for all containers there are.
LEMMA ListStep ==
  ASSUME IInv, NEW g \in Goroutines, List(g)
  PROVE  IInv'
<1> USE DEF IInv
<1>1. job \in [Goroutines -> Jobs] /\ Threads \subseteq Goroutines
  BY DEF TypeInv, Goroutines
<1>2. TypeInv'
  <2>1. Next
    BY DEF Next, Run
  <2>2. QED
    BY <2>1, TypeStep
<1>3. /\ job[g].pc = "list"
      /\ \/ GoesOn(g, "next", job[g].name, Listed(g), job[g].clean)
         \/ GoesOn(g, "reply", job[g].name, job[g].todo, FALSE)
      /\ UNCHANGED <<up, seq, box, left>>
  BY <1>1, ListGoesOn DEF List
<1>4. /\ FormOf(g) /\ NameOf(g) /\ OnOwn(g) /\ OnCourse(g)
      /\ job[g].kind \in {"none", "start", "kill"}
  BY <1>1 DEF JobForm, NameOfStart, KillOnOwn, KillOnCourse, Jobs
<1>5. JobForm'
  <2> SUFFICES ASSUME NEW h \in Goroutines PROVE FormOf(h)'
    BY DEF JobForm
  <2>1. FormOf(h)
    BY DEF JobForm
  <2>2. CASE h = g
    BY <1>1, <1>3, <1>4, <2>1, <2>2 DEF GoesOn, Ends, Alone, Has, Idle, FormOf
  <2>3. CASE h # g
    BY <1>1, <1>3, <1>4, <2>1, <2>3 DEF GoesOn, Ends, Alone, Has, Idle, FormOf, TypeInv, States
  <2>4. QED
    BY <2>2, <2>3
<1>6. NameOfStart'
  BY <1>1, <1>3, <1>4 DEF NameOfStart, GoesOn, Ends, Alone, Has, Idle, FormOf, NameOf, Named, Own,
        Names, NamesDiffer, TypeInv, States
<1>7. KillOnOwn'
  BY <1>1, <1>3, <1>4 DEF KillOnOwn, GoesOn, Ends, Alone, Has, Idle, FormOf, OnOwn, Own, Listed,
        TypeInv, States
<1>8. KillOnCourse'
  <2> SUFFICES ASSUME NEW h \in Goroutines PROVE OnCourse(h)'
    BY DEF KillOnCourse
  <2>1. OnCourse(h) /\ FormOf(h)
    BY DEF KillOnCourse, JobForm
  <2>2. CASE h = g
    <3>1. job[g].kind = "kill"
      BY <1>3, <1>4 DEF FormOf, Idle
    <3>2. \A x \in Threads : Starting(x, job[g].node, job[g].svc)' <=>
            Starting(x, job[g].node, job[g].svc)
      BY <1>1, <1>3, <3>1 DEF Starting, GoesOn, Alone, Has
    <3>3. CASE GoesOn(g, "reply", job[g].name, job[g].todo, FALSE)
      BY <2>2, <3>3 DEF OnCourse, GoesOn, Has
    <3>4. CASE GoesOn(g, "next", job[g].name, Listed(g), job[g].clean)
      BY <1>3, <1>4, <2>2, <3>1, <3>2, <3>4 DEF OnCourse, GoesOn, Has, Listed
    <3>5. QED
      BY <1>3, <3>3, <3>4
  <2>3. CASE h # g
    BY <1>1, <1>3, <1>4, <2>1, <2>3 DEF GoesOn, Ends, Alone, Has, Idle, FormOf, OnCourse, OnOwn,
          NameOf, Named, Starting, Own, Listed, KillOnOwn, NameOfStart, JobForm, TypeInv, States
  <2>4. QED
    BY <2>2, <2>3
<1>9. NamesDiffer'
  BY <1>3, <1>4 DEF NamesDiffer, NameOfStart, NameOf, Named, FormOf, JobForm, Own, TypeInv,
        GoesOn, Ends, Alone, Has, Idle
<1>10. CreatedHeld'
  BY <1>1, <1>3, <1>4 DEF CreatedHeld, Held, NameOf, Named, FormOf, Own, TypeInv, GoesOn, Ends,
        Alone, Has, Idle
<1>11. QED
  BY <1>2, <1>5, <1>6, <1>7, <1>8, <1>9, <1>10

\* ContainerStop, which leaves the container not running.
LEMMA StopBoxStep ==
  ASSUME IInv, NEW g \in Goroutines, NEW n \in Names, StopBox(g, n)
  PROVE  IInv'
<1> USE DEF IInv
<1>1. job \in [Goroutines -> Jobs] /\ Threads \subseteq Goroutines
  BY DEF TypeInv, Goroutines
<1>2. TypeInv'
  <2>1. Next
    BY DEF Next, Run
  <2>2. QED
    BY <2>1, TypeStep
<1>3. /\ job[g].pc = "next"
      /\ n \in job[g].todo
      /\ \/ /\ GoesOn(g, "remove", n, job[g].todo \ {n}, job[g].clean)
            /\ box' = [box EXCEPT ![n] = IF @ = "running" THEN "exited" ELSE @]
         \/ GoesOn(g, "remove", n, job[g].todo \ {n}, FALSE) /\ UNCHANGED box
      /\ UNCHANGED <<up, seq, left>>
  BY <1>1, StopBoxGoesOn DEF StopBox
<1>4. /\ FormOf(g) /\ NameOf(g) /\ OnOwn(g) /\ OnCourse(g)
      /\ job[g].kind \in {"none", "start", "kill"}
  BY <1>1 DEF JobForm, NameOfStart, KillOnOwn, KillOnCourse, Jobs
<1>5. JobForm'
  <2> SUFFICES ASSUME NEW h \in Goroutines PROVE FormOf(h)'
    BY DEF JobForm
  <2>1. FormOf(h) /\ up' = up
    BY <1>3 DEF JobForm
  <2>2. CASE h = g
    <3>1. job[g].kind = "kill"
      BY <1>3, <1>4 DEF FormOf, Idle
    <3>2. Has(job'[g], "kill", "remove", job[g].node, job[g].svc, n, job[g].todo \ {n},
              job'[g].clean)
      BY <1>3, <3>1 DEF GoesOn, Has
    <3>3. QED
      BY <1>4, <2>1, <2>2, <3>1, <3>2 DEF Has, FormOf
  <2>3. CASE h # g
    <3>1. job'[h] = job[h]
      BY <1>3, <2>3 DEF GoesOn, Alone
    <3>2. QED
      BY <2>1, <3>1 DEF FormOf
  <2>4. QED
    BY <2>2, <2>3
<1>6. NameOfStart'
  BY <1>1, <1>3, <1>4 DEF NameOfStart, GoesOn, Ends, Alone, Has, Idle, FormOf, NameOf, Named, Own,
        Names, NamesDiffer, TypeInv, States
<1>7. KillOnOwn'
  BY <1>1, <1>3, <1>4 DEF KillOnOwn, GoesOn, Ends, Alone, Has, Idle, FormOf, OnOwn, Own, Listed,
        TypeInv, States
<1>8. KillOnCourse'
  <2> SUFFICES ASSUME NEW h \in Goroutines PROVE OnCourse(h)'
    BY DEF KillOnCourse
  <2>1. OnCourse(h) /\ FormOf(h)
    BY DEF KillOnCourse, JobForm
  <2>2. CASE h = g
    <3>1. job[g].kind = "kill"
      BY <1>3, <1>4 DEF FormOf, Idle
    <3>2. \A x \in Threads : Starting(x, job[g].node, job[g].svc)' <=>
            Starting(x, job[g].node, job[g].svc)
      BY <1>1, <1>3, <3>1 DEF Starting, GoesOn, Alone, Has
    <3>3. CASE GoesOn(g, "remove", n, job[g].todo \ {n}, FALSE)
      BY <2>2, <3>3 DEF OnCourse, GoesOn, Has
    <3>4. CASE /\ GoesOn(g, "remove", n, job[g].todo \ {n}, job[g].clean)
               /\ box' = [box EXCEPT ![n] = IF @ = "running" THEN "exited" ELSE @]
      <4>1. box'[n] # "running" /\ \A m \in Names \ {n} : box'[m] = box[m]
        BY <3>4 DEF TypeInv
      <4>2. \A m \in Own(job[g].node, job[g].svc) : m \in Names
        BY DEF Own
      <4>3. QED
        BY <1>3, <1>4, <2>2, <3>1, <3>2, <3>4, <4>1, <4>2 DEF OnCourse, GoesOn, Has
    <3>5. QED
      BY <1>3, <3>3, <3>4
  <2>3. CASE h # g
    BY <1>1, <1>3, <1>4, <2>1, <2>3 DEF GoesOn, Ends, Alone, Has, Idle, FormOf, OnCourse, OnOwn,
          NameOf, Named, Starting, Own, Listed, KillOnOwn, NameOfStart, JobForm, TypeInv, States
  <2>4. QED
    BY <2>2, <2>3
<1>9. NamesDiffer'
  BY <1>3, <1>4 DEF NamesDiffer, NameOfStart, NameOf, Named, FormOf, JobForm, Own, TypeInv,
        GoesOn, Ends, Alone, Has, Idle
<1>10. CreatedHeld'
  BY <1>1, <1>3, <1>4 DEF CreatedHeld, Held, NameOf, Named, FormOf, Own, TypeInv, GoesOn, Ends,
        Alone, Has, Idle
<1>11. QED
  BY <1>2, <1>5, <1>6, <1>7, <1>8, <1>9, <1>10

\* ContainerRemove of a container that has been stopped.
LEMMA RemoveBoxStep ==
  ASSUME IInv, NEW g \in Goroutines, RemoveBox(g)
  PROVE  IInv'
<1> USE DEF IInv
<1>1. job \in [Goroutines -> Jobs] /\ Threads \subseteq Goroutines
  BY DEF TypeInv, Goroutines
<1>2. TypeInv'
  <2>1. Next
    BY DEF Next, Run
  <2>2. QED
    BY <2>1, TypeStep
<1>3. /\ job[g].pc = "remove"
      /\ job[g].kind = "kill"
      /\ \/ /\ GoesOn(g, "next", job[g].name, job[g].todo, job[g].clean)
            /\ box' = [box EXCEPT ![job[g].name] = IF @ = "running" THEN @ ELSE "none"]
         \/ GoesOn(g, "next", job[g].name, job[g].todo, FALSE) /\ UNCHANGED box
      /\ UNCHANGED <<up, seq, left>>
  BY <1>1, RemoveBoxGoesOn DEF RemoveBox
<1>4. /\ FormOf(g) /\ NameOf(g) /\ OnOwn(g) /\ OnCourse(g)
      /\ job[g].kind \in {"none", "start", "kill"}
  BY <1>1 DEF JobForm, NameOfStart, KillOnOwn, KillOnCourse, Jobs
<1>5. JobForm'
  <2> SUFFICES ASSUME NEW h \in Goroutines PROVE FormOf(h)'
    BY DEF JobForm
  <2>1. FormOf(h) /\ up' = up
    BY <1>3 DEF JobForm
  <2>2. CASE h = g
    <3>1. Has(job'[g], "kill", "next", job[g].node, job[g].svc, job[g].name, job[g].todo,
              job'[g].clean)
      BY <1>3 DEF GoesOn, Has
    <3>2. QED
      BY <1>3, <1>4, <2>1, <2>2, <3>1 DEF Has, FormOf
  <2>3. CASE h # g
    <3>1. job'[h] = job[h]
      BY <1>3, <2>3 DEF GoesOn, Alone
    <3>2. QED
      BY <2>1, <3>1 DEF FormOf
  <2>4. QED
    BY <2>2, <2>3
<1>6. NameOfStart'
  BY <1>1, <1>3, <1>4 DEF NameOfStart, GoesOn, Ends, Alone, Has, Idle, FormOf, NameOf, Named, Own,
        Names, NamesDiffer, TypeInv, States
<1>7. KillOnOwn'
  BY <1>1, <1>3, <1>4 DEF KillOnOwn, GoesOn, Ends, Alone, Has, Idle, FormOf, OnOwn, Own, Listed,
        TypeInv, States
<1>8. KillOnCourse'
  <2> SUFFICES ASSUME NEW h \in Goroutines PROVE OnCourse(h)'
    BY DEF KillOnCourse
  <2>1. OnCourse(h) /\ FormOf(h)
    BY DEF KillOnCourse, JobForm
  <2>2. CASE h = g
    <3>1. \A x \in Threads : Starting(x, job[g].node, job[g].svc)' <=>
            Starting(x, job[g].node, job[g].svc)
      BY <1>1, <1>3 DEF Starting, GoesOn, Alone, Has
    <3>2. CASE GoesOn(g, "next", job[g].name, job[g].todo, FALSE)
      BY <2>2, <3>2 DEF OnCourse, GoesOn, Has
    <3>3. CASE /\ GoesOn(g, "next", job[g].name, job[g].todo, job[g].clean)
               /\ box' = [box EXCEPT ![job[g].name] = IF @ = "running" THEN @ ELSE "none"]
               /\ job[g].clean
      <4>1. box'[job[g].name] = "none" /\ \A m \in Names \ {job[g].name} : box'[m] = box[m]
        BY <1>3, <1>4, <3>3 DEF TypeInv, OnOwn, OnCourse, Own
      <4>2. \A m \in Own(job[g].node, job[g].svc) : m \in Names
        BY DEF Own
      <4>3. QED
        BY <1>3, <1>4, <2>2, <3>1, <3>3, <4>1, <4>2 DEF OnCourse, GoesOn, Has
    <3>4. CASE GoesOn(g, "next", job[g].name, job[g].todo, job[g].clean) /\ ~job[g].clean
      BY <2>2, <3>4 DEF OnCourse, GoesOn, Has
    <3>5. QED
      BY <1>3, <3>2, <3>3, <3>4
  <2>3. CASE h # g
    BY <1>1, <1>3, <1>4, <2>1, <2>3 DEF GoesOn, Ends, Alone, Has, Idle, FormOf, OnCourse, OnOwn,
          NameOf, Named, Starting, Own, Listed, KillOnOwn, NameOfStart, JobForm, TypeInv, States
  <2>4. QED
    BY <2>2, <2>3
<1>9. NamesDiffer'
  BY <1>3, <1>4 DEF NamesDiffer, NameOfStart, NameOf, Named, FormOf, JobForm, Own, TypeInv,
        GoesOn, Ends, Alone, Has, Idle
<1>10. CreatedHeld'
  BY <1>1, <1>3, <1>4 DEF CreatedHeld, Held, NameOf, Named, FormOf, Own, TypeInv, GoesOn, Ends,
        Alone, Has, Idle
<1>11. QED
  BY <1>2, <1>5, <1>6, <1>7, <1>8, <1>9, <1>10

\* The list has been worked through.
LEMMA KillEndStep ==
  ASSUME IInv, NEW g \in Goroutines, KillEnd(g)
  PROVE  IInv'
<1> USE DEF IInv
<1>1. job \in [Goroutines -> Jobs] /\ Threads \subseteq Goroutines
  BY DEF TypeInv, Goroutines
<1>2. TypeInv'
  <2>1. Next
    BY DEF Next, Run
  <2>2. QED
    BY <2>1, TypeStep
<1>3. /\ job[g].pc = "next"
      /\ job[g].todo = {}
      /\ GoesOn(g, "reply", job[g].name, job[g].todo, job[g].clean)
      /\ UNCHANGED <<up, seq, box, left>>
  BY <1>1, ToGoesOn DEF KillEnd, PCs
<1>4. /\ FormOf(g) /\ NameOf(g) /\ OnOwn(g) /\ OnCourse(g)
      /\ job[g].kind \in {"none", "start", "kill"}
  BY <1>1 DEF JobForm, NameOfStart, KillOnOwn, KillOnCourse, Jobs
<1>5. JobForm'
  BY <1>1, <1>3, <1>4 DEF JobForm, GoesOn, Ends, Alone, Has, Idle, FormOf, TypeInv, States
<1>6. NameOfStart'
  BY <1>1, <1>3, <1>4 DEF NameOfStart, GoesOn, Ends, Alone, Has, Idle, FormOf, NameOf, Named, Own,
        Names, NamesDiffer, TypeInv, States
<1>7. KillOnOwn'
  BY <1>1, <1>3, <1>4 DEF KillOnOwn, GoesOn, Ends, Alone, Has, Idle, FormOf, OnOwn, Own, Listed,
        TypeInv, States
<1>8. KillOnCourse'
  BY <1>1, <1>3, <1>4 DEF KillOnCourse, GoesOn, Ends, Alone, Has, Idle, FormOf, OnCourse, OnOwn,
        NameOf, Named, Starting, Own, Listed, KillOnOwn, NameOfStart, JobForm, TypeInv, States
<1>9. NamesDiffer'
  BY <1>3, <1>4 DEF NamesDiffer, NameOfStart, NameOf, Named, FormOf, JobForm, Own, TypeInv,
        GoesOn, Ends, Alone, Has, Idle
<1>10. CreatedHeld'
  BY <1>1, <1>3, <1>4 DEF CreatedHeld, Held, NameOf, Named, FormOf, Own, TypeInv, GoesOn, Ends,
        Alone, Has, Idle
<1>11. QED
  BY <1>2, <1>5, <1>6, <1>7, <1>8, <1>9, <1>10

\* The reply of a kill.
LEMMA KillReplyStep ==
  ASSUME IInv, NEW g \in Goroutines, KillReply(g)
  PROVE  IInv'
<1> USE DEF IInv
<1>1. job \in [Goroutines -> Jobs] /\ Threads \subseteq Goroutines
  BY DEF TypeInv, Goroutines
<1>2. TypeInv'
  <2>1. Next
    BY DEF Next, Run
  <2>2. QED
    BY <2>1, TypeStep
<1>3. /\ job[g].pc = "reply"
      /\ Ends(g)
      /\ UNCHANGED <<up, seq, box, left>>
  BY <1>1, ReplyEnds DEF KillReply
<1>4. /\ FormOf(g) /\ NameOf(g) /\ OnOwn(g) /\ OnCourse(g)
      /\ job[g].kind \in {"none", "start", "kill"}
  BY <1>1 DEF JobForm, NameOfStart, KillOnOwn, KillOnCourse, Jobs
<1>5. JobForm'
  BY <1>1, <1>3, <1>4 DEF JobForm, GoesOn, Ends, Alone, Has, Idle, FormOf, TypeInv, States
<1>6. NameOfStart'
  BY <1>1, <1>3, <1>4 DEF NameOfStart, GoesOn, Ends, Alone, Has, Idle, FormOf, NameOf, Named, Own,
        Names, NamesDiffer, TypeInv, States
<1>7. KillOnOwn'
  BY <1>1, <1>3, <1>4 DEF KillOnOwn, GoesOn, Ends, Alone, Has, Idle, FormOf, OnOwn, Own, Listed,
        TypeInv, States
<1>8. KillOnCourse'
  BY <1>1, <1>3, <1>4 DEF KillOnCourse, GoesOn, Ends, Alone, Has, Idle, FormOf, OnCourse, OnOwn,
        NameOf, Named, Starting, Own, Listed, KillOnOwn, NameOfStart, JobForm, TypeInv, States
<1>9. NamesDiffer'
  BY <1>3, <1>4 DEF NamesDiffer, NameOfStart, NameOf, Named, FormOf, JobForm, Own, TypeInv,
        GoesOn, Ends, Alone, Has, Idle
<1>10. CreatedHeld'
  BY <1>1, <1>3, <1>4 DEF CreatedHeld, Held, NameOf, Named, FormOf, Own, TypeInv, GoesOn, Ends,
        Alone, Has, Idle
<1>11. QED
  BY <1>2, <1>5, <1>6, <1>7, <1>8, <1>9, <1>10

\* A kill begins on a goroutine that was idle.
LEMMA KillStep ==
  ASSUME IInv, NEW g \in Goroutines, NEW w \in up, NEW s \in Services \cup {All},
         job[g] = Idle, Kill(g, w, s), UNCHANGED <<up, seq, box, left>>, TypeInv'
  PROVE  IInv'
<1> USE DEF IInv
<1>1. /\ job \in [Goroutines -> Jobs] /\ Threads \subseteq Goroutines /\ w \in Nodes
      /\ job[g].kind = "none"
  BY DEF TypeInv, Goroutines, Idle
<1>2. PICK c \in BOOLEAN : /\ c <=> \A h \in Threads : ~Starting(h, w, s)
                           /\ Has(job'[g], "kill", "list", w, s, None, {}, c)
  BY <1>1, KillBegins
<1>3. \A h \in Goroutines \ {g} : job'[h] = job[h]
  BY <1>1, KillBegins DEF Alone
<1>4. ASSUME NEW h \in Goroutines
      PROVE  FormOf(h)' /\ NameOf(h)' /\ OnOwn(h)' /\ (Named(h)' => Named(h) /\ h # g)
  <2>1. FormOf(h) /\ NameOf(h) /\ OnOwn(h)
    BY DEF JobForm, NameOfStart, KillOnOwn
  <2>2. CASE h = g
    BY <1>1, <1>2, <2>2 DEF FormOf, NameOf, Named, OnOwn, Has
  <2>3. CASE h # g
    BY <1>3, <2>1, <2>3 DEF FormOf, NameOf, Named, OnOwn
  <2>4. QED
    BY <2>2, <2>3
<1>5. NamesDiffer'
  BY <1>3, <1>4 DEF NamesDiffer
<1>6. KillOnCourse'
  <2>1. \A x \in Threads : job'[x].kind = "start" => x # g /\ job'[x] = job[x]
    BY <1>1, <1>2, <1>3 DEF Has
  <2> SUFFICES ASSUME NEW h \in Goroutines PROVE OnCourse(h)'
    BY DEF KillOnCourse
  <2>2. CASE h = g
    BY <1>2, <2>1, <2>2 DEF OnCourse, Starting, Has
  <2>3. CASE h # g
    BY <1>3, <2>1, <2>3 DEF OnCourse, Starting, KillOnCourse
  <2>4. QED
    BY <2>2, <2>3
<1>7. CreatedHeld'
  BY <1>1, <1>3 DEF CreatedHeld, Held
<1>8. QED
  BY <1>4, <1>5, <1>6, <1>7 DEF JobForm, NameOfStart, KillOnOwn

\* A start begins: kills of its service lose their mark, so that they promise nothing.
LEMMA StartCommandStep ==
  ASSUME IInv, NEW g \in Threads, NEW w \in Nodes, NEW s \in Services, StartCommand(g, w, s),
         TypeInv'
  PROVE  IInv'
<1> USE DEF IInv
<1>1. /\ job \in [Goroutines -> Jobs] /\ g \in Goroutines /\ Threads \subseteq Goroutines
      /\ job[g].kind = "none" /\ w \in up /\ UNCHANGED <<up, seq, box, left>>
  BY DEF TypeInv, Goroutines, Idle, StartCommand
<1>2. /\ Has(job'[g], "start", "pull", w, s, None, {}, FALSE)
      /\ \A h \in Goroutines \ {g} : \E c \in BOOLEAN :
           /\ c <=> job[h].clean /\ ~(job[h].node = w /\ job[h].svc \in {s, All})
           /\ Has(job'[h], job[h].kind, job[h].pc, job[h].node, job[h].svc, job[h].name,
                  job[h].todo, c)
  <2>1. job \in [Goroutines -> Jobs]
    BY <1>1
  <2>2. QED
    BY <2>1, StartBegins, Zenon
<1>3. ASSUME NEW h \in Goroutines \ {g}
      PROVE  /\ job'[h].kind = job[h].kind /\ job'[h].pc = job[h].pc
             /\ job'[h].node = job[h].node /\ job'[h].svc = job[h].svc
             /\ job'[h].name = job[h].name /\ job'[h].todo = job[h].todo
             /\ job'[h].clean => job[h].clean /\ ~(job[h].node = w /\ job[h].svc \in {s, All})
             /\ job[h] = Idle => job'[h] = Idle
  <2>1. PICK c \in BOOLEAN :
          /\ c <=> job[h].clean /\ ~(job[h].node = w /\ job[h].svc \in {s, All})
          /\ Has(job'[h], job[h].kind, job[h].pc, job[h].node, job[h].svc, job[h].name,
                 job[h].todo, c)
    BY <1>2, Zenon
  <2>2. ASSUME job[h] = Idle PROVE job'[h] = Idle
    <3>1. job'[h] = [Idle EXCEPT !.clean = Idle.clean /\ ~(Idle.node = w /\ Idle.svc \in {s, All})]
      BY <1>1, <2>2 DEF StartCommand
    <3>2. Idle.clean = FALSE
      BY DEF Idle
    <3>3. (Idle.clean /\ ~(Idle.node = w /\ Idle.svc \in {s, All})) = Idle.clean
      BY <3>2
    <3>4. [Idle EXCEPT !.clean = Idle.clean] = Idle
      BY DEF Idle
    <3>5. QED
      BY <3>1, <3>3, <3>4, Zenon
  <2>3. QED
    BY <2>1, <2>2 DEF Has
<1>4. ASSUME NEW h \in Goroutines
      PROVE  FormOf(h)' /\ NameOf(h)' /\ OnOwn(h)' /\ (Named(h)' => Named(h) /\ h # g)
  <2>1. FormOf(h) /\ NameOf(h) /\ OnOwn(h)
    BY DEF JobForm, NameOfStart, KillOnOwn
  <2>2. CASE h = g
    BY <1>1, <1>2, <2>2 DEF FormOf, NameOf, Named, OnOwn, Has
  <2>3. CASE h # g
    BY <1>1, <1>3, <2>1, <2>3 DEF FormOf, NameOf, Named, OnOwn
  <2>4. QED
    BY <2>2, <2>3
<1>5. NamesDiffer'
  BY <1>3, <1>4 DEF NamesDiffer
<1>6. KillOnCourse'
  <2> SUFFICES ASSUME NEW h \in Goroutines, job'[h].kind = "kill", job'[h].clean
               PROVE  OnCourse(h)'
    BY DEF KillOnCourse, OnCourse
  <2>1. h # g
    BY <1>2 DEF Has
  <2>2. job[h].kind = "kill" /\ job[h].clean /\ OnCourse(h)
    BY <1>3, <2>1 DEF KillOnCourse
  <2>3. ASSUME NEW x \in Threads PROVE ~Starting(x, job[h].node, job[h].svc)'
    <3>1. CASE x = g
      BY <1>2, <1>3, <2>1, <3>1 DEF Starting, Has
    <3>2. CASE x # g
      BY <1>1, <1>3, <2>1, <2>2, <3>2 DEF Starting, OnCourse
    <3>3. QED
      BY <3>1, <3>2
  <2>4. QED
    BY <1>1, <1>3, <2>1, <2>2, <2>3 DEF OnCourse
<1>7. CreatedHeld'
  BY <1>1, <1>3 DEF CreatedHeld, Held
<1>8. QED
  BY <1>4, <1>5, <1>6, <1>7 DEF JobForm, NameOfStart, KillOnOwn

\* A process ends: what its goroutines had created is counted as left.
LEMMA DieStep ==
  ASSUME IInv, NEW w \in Nodes, Die(w), UNCHANGED <<seq, box>>, TypeInv'
  PROVE  IInv'
<1> USE DEF IInv
<1>1. \A g \in Goroutines : job'[g] = IF job[g].node = w THEN Idle ELSE job[g]
  BY DieEnds DEF TypeInv
<1>2. up' = up \ {w} /\ left' = left \cup {n \in Own(w, All) : box[n] = "created"}
  BY DEF Die
<1>3. Threads \subseteq Goroutines
  BY DEF Goroutines
<1>4. ASSUME NEW h \in Goroutines
      PROVE  FormOf(h)' /\ NameOf(h)' /\ OnOwn(h)' /\ (Named(h)' => Named(h) /\ job'[h] = job[h])
  <2>1. FormOf(h) /\ NameOf(h) /\ OnOwn(h)
    BY DEF JobForm, NameOfStart, KillOnOwn
  <2>2. CASE job[h].node = w
    <3>1. job'[h] = Idle
      BY <1>1, <2>2
    <3>2. job'[h].kind = "none"
      BY <3>1 DEF Idle
    <3>3. QED
      BY <3>1, <3>2 DEF FormOf, NameOf, Named, OnOwn
  <2>3. CASE job[h].node # w
    BY <1>1, <1>2, <2>1, <2>3 DEF FormOf, NameOf, Named, OnOwn
  <2>4. QED
    BY <2>2, <2>3
<1>5. NamesDiffer'
  BY <1>4 DEF NamesDiffer
<1>6. KillOnCourse'
  <2> SUFFICES ASSUME NEW h \in Goroutines, job'[h].kind = "kill" PROVE OnCourse(h)'
    BY DEF KillOnCourse, OnCourse
  <2>1. job'[h] = job[h]
    BY <1>1 DEF Idle
  <2>2. \A x \in Threads : job'[x].kind = "start" => job'[x] = job[x]
    BY <1>1, <1>3 DEF Idle
  <2>3. QED
    BY <2>1, <2>2 DEF KillOnCourse, OnCourse, Starting
<1>7. CreatedHeld'
  <2> SUFFICES ASSUME NEW n \in Names, box[n] = "created" PROVE Held(n)'
    BY DEF CreatedHeld
  <2>1. CASE n \in left
    BY <1>2, <2>1 DEF Held
  <2>2. ASSUME NEW g \in Threads, job[g].kind = "start", job[g].pc \in {"start", "remove"},
               job[g].name = n
        PROVE  Held(n)'
    <3>1. n.node = job[g].node
      BY <1>3, <2>2 DEF NameOfStart, NameOf, Named, Own
    <3>2. CASE job[g].node = w
      BY <1>2, <3>1, <3>2 DEF Held, Own
    <3>3. CASE job[g].node # w
      BY <1>1, <1>3, <2>2, <3>3 DEF Held
    <3>4. QED
      BY <3>2, <3>3
  <2>3. QED
    BY <2>1, <2>2 DEF CreatedHeld, Held
<1>8. QED
  BY <1>4, <1>5, <1>6, <1>7 DEF JobForm, NameOfStart, KillOnOwn

\* Every step keeps the invariant.
LEMMA IInvStep == IInv /\ [Next]_vars => IInv'
<1> SUFFICES ASSUME IInv, [Next]_vars PROVE IInv'
  OBVIOUS
<1>1. TypeInv'
  BY TypeStep DEF IInv, vars, TypeInv
<1>2. ASSUME NEW w \in Nodes, NEW s \in Services, Want(w, s) PROVE IInv'
  BY <1>1, <1>2 DEF Want, IInv, JobForm, FormOf, NameOfStart, NameOf, Named, NamesDiffer,
                    KillOnOwn, OnOwn, KillOnCourse, OnCourse, Starting, CreatedHeld, Held
<1>3. ASSUME NEW w \in Nodes, NEW g \in Threads, NEW s \in Services, StartCommand(g, w, s)
      PROVE  IInv'
  BY <1>1, <1>3, StartCommandStep
<1>4. ASSUME NEW w \in Nodes, NEW g \in Threads, NEW s \in Services \cup {All},
             KillCommand(g, w, s)
      PROVE  IInv'
  BY <1>1, <1>4, KillStep DEF KillCommand, Goroutines
<1>5. ASSUME NEW w \in Nodes, Signal(w) PROVE IInv'
  BY <1>1, <1>5, KillStep DEF Signal, Goroutines
<1>6. ASSUME NEW w \in Nodes, Crash(w) PROVE IInv'
  BY <1>1, <1>6, DieStep DEF Crash
<1>7. ASSUME NEW w \in Nodes, Exit(w) PROVE IInv'
  BY <1>1, <1>7, DieStep DEF Exit
<1>8. ASSUME NEW w \in Nodes, WorkerStart(w) PROVE IInv'
  <2>1. up' = up \cup {w} /\ w \notin up /\ UNCHANGED <<box, job, left>>
    BY <1>8 DEF WorkerStart
  <2>2. \A v \in Nodes \ {w} : seq'[v] = seq[v]
    BY <1>8 DEF WorkerStart, IInv, TypeInv
  <2>3. ASSUME NEW g \in Goroutines PROVE FormOf(g)' /\ NameOf(g)'
    <3>1. FormOf(g) /\ NameOf(g)
      BY DEF IInv, JobForm, NameOfStart
    <3>2. QED
      BY <2>1, <2>2, <3>1 DEF FormOf, NameOf, Named
  <2>4. QED
    BY <1>1, <2>1, <2>3 DEF IInv, JobForm, NameOfStart, NamesDiffer, Named, KillOnOwn, OnOwn,
                            KillOnCourse, OnCourse, Starting, CreatedHeld, Held
<1>9. ASSUME NEW n \in Names, ContainerExit(n) PROVE IInv'
  <2>1. /\ box[n] = "running" /\ box' = [box EXCEPT ![n] = "exited"]
        /\ UNCHANGED <<up, seq, job, left>>
    BY <1>9 DEF ContainerExit
  <2>2. \A m \in Names : m # n => box'[m] = box[m]
    BY <2>1 DEF IInv, TypeInv
  <2>3. box'[n] = "exited"
    BY <2>1 DEF IInv, TypeInv
  <2>4. ASSUME NEW g \in Goroutines PROVE NameOf(g)' /\ OnCourse(g)'
    <3>1. NameOf(g) /\ OnCourse(g) /\ OnOwn(g)
      BY DEF IInv, NameOfStart, KillOnCourse, KillOnOwn
    <3>2. QED
      BY <2>1, <2>2, <2>3, <3>1 DEF NameOf, Named, OnCourse, OnOwn, Starting, Own
  <2>5. QED
    BY <1>1, <2>1, <2>2, <2>3, <2>4 DEF IInv, JobForm, FormOf, NameOfStart, NamesDiffer, Named,
                                        KillOnOwn, OnOwn, KillOnCourse, CreatedHeld, Held
<1>10. CASE UNCHANGED vars
  BY <1>1, <1>10 DEF vars, IInv, JobForm, FormOf, NameOfStart, NameOf, Named, NamesDiffer,
                     KillOnOwn, OnOwn, KillOnCourse, OnCourse, Starting, CreatedHeld, Held
<1>11. ASSUME NEW g \in Goroutines, Run(g) PROVE IInv'
  BY <1>11, PullStep, TakeNameStep, CreateStep, StartStep, RemoveCreatedStep, ListStep,
     StopBoxStep, RemoveBoxStep, KillEndStep, KillReplyStep DEF Run
<1>12. QED
  BY <1>2, <1>3, <1>4, <1>5, <1>6, <1>7, <1>8, <1>9, <1>10, <1>11 DEF Next

\* The invariant holds at first.
LEMMA IInvInit == Init => IInv
<1> SUFFICES ASSUME Init PROVE IInv
  OBVIOUS
<1>1. \A g \in Goroutines : job[g] = Idle /\ job[g].kind = "none"
  BY DEF Init, Idle
<1>2. TypeInv
  <2>1. job \in [Goroutines -> Jobs]
    BY NewJobs DEF Init, Has
  <2>2. QED
    BY <2>1, WorkerAssumption DEF WorkerAssumption, Init, TypeInv, States, Counts
<1>3. \A n \in Names : box[n] = "none"
  BY DEF Init
<1>4. QED
  BY <1>1, <1>2, <1>3 DEF IInv, JobForm, FormOf, NameOfStart, NameOf, Named, NamesDiffer,
                          KillOnOwn, OnOwn, KillOnCourse, OnCourse, CreatedHeld, Held

\* The invariant holds.
LEMMA IInvHolds == Spec => []IInv
BY IInvInit, IInvStep, PTL DEF Spec

-----------------------------------------------------------------------------
\* Type correctness: numbers, names and goroutines keep their form, and no goroutine
\* outlives the process it belongs to (docker.go, command.go).
THEOREM TypeCorrect == Spec => []TypeOK
<1>1. IInv => TypeOK
  <2> SUFFICES ASSUME IInv PROVE TypeOK
    OBVIOUS
  <2>1. \A g \in Goroutines : job[g] # Idle => job[g].node \in up
    BY DEF IInv, JobForm, FormOf
  <2>2. QED
    BY <2>1, Zenon DEF IInv, TypeInv, TypeOK, Jobs, PCs, Counts, States
<1>2. QED
  BY <1>1, IInvHolds, PTL

\* No StartContainer that fails leaves a container behind that was created and never
\* started, unless Docker refused to remove it or the process ended (docker.go:98-102).
THEOREM LeaksNothing == Spec => []NothingLeaks
<1>1. IInv => NothingLeaks
  BY DEF IInv, CreatedHeld, Held, NothingLeaks
<1>2. QED
  BY <1>1, IInvHolds, PTL

\* A kill that nothing has disturbed leaves no container of its worker and service, with
\* any number of goroutines at work on the same daemon (docker.go:108-130, 157-184).
THEOREM KillsAreComplete == Spec => []KillLeavesNothing
<1>1. IInv => KillLeavesNothing
  <2> SUFFICES ASSUME IInv, NEW g \in Goroutines, job[g].pc = "reply", job[g].clean,
                      NEW n \in Own(job[g].node, job[g].svc)
               PROVE  box[n] = "none"
    BY DEF KillLeavesNothing
  <2>1. job[g].kind = "kill"
    <3>1. FormOf(g) /\ job[g] \in Jobs
      BY DEF IInv, JobForm, TypeInv
    <3>2. QED
      BY <3>1 DEF FormOf, Jobs, Idle
  <2>2. OnCourse(g)
    BY DEF IInv, KillOnCourse
  <2>3. QED
    BY <2>1, <2>2 DEF OnCourse
<1>2. QED
  BY <1>1, IInvHolds, PTL

\* On a shared daemon a container that has run is removed only by a kill of its own worker
\* and service: names are never given twice by a process, and lists are filtered by label
\* (ownFilter, listOwnContainers, StartContainer).
THEOREM KillsSpareOthers == Spec => KillSparesOthers
<1> DEFINE Killed(n) == \E g \in Goroutines : /\ job[g].kind = "kill"
                                              /\ job[g].node = n.node
                                              /\ job[g].svc \in {n.svc, All}
<1>1. ASSUME IInv, [Next]_vars, NEW n \in Names, box[n] \in {"running", "exited"},
             box'[n] = "none"
      PROVE  Killed(n)
  <2> USE <1>1
  <2>1. box \in [Names -> States]
    BY DEF IInv, TypeInv
  <2>2. CASE \E g \in Goroutines : RemoveBox(g)
    <3>1. PICK g \in Goroutines : RemoveBox(g)
      BY <2>2
    <3>2. n = job[g].name
      BY <2>1, <3>1 DEF RemoveBox
    <3>3. n \in Own(job[g].node, job[g].svc) /\ job[g].kind = "kill"
      BY <3>1, <3>2 DEF RemoveBox, IInv, KillOnOwn, OnOwn
    <3>4. QED
      BY <3>3 DEF Own
  <2>3. CASE \E g \in Goroutines : RemoveCreated(g)
    <3>1. PICK g \in Goroutines : RemoveCreated(g)
      BY <2>3
    <3>2. n = job[g].name
      BY <2>1, <3>1 DEF RemoveCreated
    <3>3. box[n] \in {"none", "created"}
      BY <3>1, <3>2 DEF RemoveCreated, IInv, NameOfStart, NameOf, Named
    <3>4. QED
      BY <3>3
  <2>4. CASE ~\E g \in Goroutines : RemoveBox(g) \/ RemoveCreated(g)
    <3>1. CASE \E g \in Goroutines : Run(g)
      <4>1. PICK g \in Goroutines : Run(g)
        BY <3>1
      <4>2. CASE Create(g) \/ Start(g)
        BY <2>1, <4>2 DEF Create, Start
      <4>3. CASE \E m \in Names : StopBox(g, m)
        BY <2>1, <4>3 DEF StopBox
      <4>4. CASE Pull(g) \/ TakeName(g) \/ List(g) \/ KillEnd(g) \/ KillReply(g)
        BY <4>4 DEF Pull, TakeName, List, KillEnd, KillReply
      <4>5. QED
        BY <2>4, <4>1, <4>2, <4>3, <4>4 DEF Run
    <3>2. CASE \E m \in Names : ContainerExit(m)
      BY <2>1, <3>2 DEF ContainerExit
    <3>3. CASE ~(\E g \in Goroutines : Run(g)) /\ ~(\E m \in Names : ContainerExit(m))
      <4>1. UNCHANGED box
        BY <3>3 DEF Next, vars, Want, StartCommand, KillCommand, Signal, Crash, Exit, WorkerStart
      <4>2. QED
        BY <4>1
    <3>4. QED
      BY <3>1, <3>2, <3>3
  <2>5. QED
    BY <2>2, <2>3, <2>4
<1>2. IInv /\ [Next]_vars => [\A n \in Names : box[n] \in {"running", "exited"} /\ box'[n] = "none"
                                => Killed(n)]_vars
  BY <1>1
<1>3. QED
  BY <1>2, IInvHolds, PTL DEF Spec, KillSparesOthers
=============================================================================
