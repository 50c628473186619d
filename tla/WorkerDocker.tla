---------------------------- MODULE WorkerDocker ----------------------------
(***************************************************************************)
(* Workers and the Docker daemon that they share on one machine.  The      *)
(* command server runs every command in a goroutine of its own             *)
(* (internal/agent/command.go), the Docker manager holds its lock for the  *)
(* number of a name only (internal/agent/docker.go), and a signal makes    *)
(* main remove the worker's containers while commands still run            *)
(* (cmd/worker/main.go).  Docker itself is external: it has one container  *)
(* per name, does a call or fails it, and keeps its containers when a      *)
(* worker's process ends.                                                  *)
(*                                                                         *)
(* The master asks for a replica of a service on a worker, again and again *)
(* until a StartContainer succeeds, also while an earlier one that it gave *)
(* up waiting for still runs, and for kills whenever it likes.             *)
(***************************************************************************)
EXTENDS Naturals, FiniteSets

CONSTANTS
  Nodes,      \* worker IDs; a worker's main goroutine goes by its ID
  Threads,    \* goroutines of handleConn
  Services,   \* service IDs
  All,        \* the empty ServiceID of a KillContainers
  None,       \* no worker, no service, no container
  MaxSeq,     \* bound: numbers of container names
  MaxWants,   \* bound: replicas the master asks for
  MaxKills,   \* bound: KillContainers commands
  MaxStops,   \* bound: crashes, signals and containers that end by themselves
  MaxErrors,  \* bound: Docker calls that fail
  MaxOverlaps \* bound: starts of what is being started on the worker

ASSUME WorkerAssumption ==
  /\ {All, None} \cap (Nodes \cup Threads \cup Services) = {}
  /\ Nodes \cap Threads = {}
  /\ MaxSeq \in Nat \ {0}
  /\ {MaxWants, MaxKills, MaxStops, MaxErrors, MaxOverlaps} \subseteq Nat

\* dcp-<nodeID>-<serviceID>-<seq>; the labels say the node and the service too.
Names == [node : Nodes, svc : Services, seq : 1..MaxSeq]

VARIABLES
  up,      \* workers whose process runs
  seq,     \* worker -> DockerManager.seq
  box,     \* name -> "none", "created", "running" or "exited"
  job,     \* goroutine -> what it does
  wanted,  \* worker -> services the master wants a replica of
  left,    \* created containers that their goroutine could not remove
  count    \* replicas asked for, kills, stops, errors and overlapping starts so far

vars == <<up, seq, box, job, wanted, left, count>>

Goroutines == Threads \cup Nodes

\* clean: nothing can have been started since the kill was received, and no call failed
Idle == [kind |-> "none", pc |-> "idle", node |-> None, svc |-> None, name |-> None,
         todo |-> {}, clean |-> FALSE]

Init ==
  /\ up = Nodes
  /\ seq = [w \in Nodes |-> 0]
  /\ box = [n \in Names |-> "none"]
  /\ job = [g \in Goroutines |-> Idle]
  /\ wanted = [w \in Nodes |-> {}]
  /\ left = {}
  /\ count = [wants |-> 0, kills |-> 0, stops |-> 0, errors |-> 0,
              overlaps |-> 0]

\* ownFilter: the labels of the worker and, if one is given, of the service.
Own(w, s) == {n \in Names : n.node = w /\ (s = All \/ n.svc = s)}

Starting(g, w, s) == /\ job[g].kind = "start"
                     /\ job[g].node = w
                     /\ s = All \/ job[g].svc = s

Error == /\ count.errors < MaxErrors
         /\ count' = [count EXCEPT !.errors = @ + 1]

To(g, pc) == job' = [job EXCEPT ![g].pc = pc]

\* handleConn sends the reply and ends.
Reply(g) == job' = [job EXCEPT ![g] = Idle]

-----------------------------------------------------------------------------
(* The master. *)

Want(w, s) ==
  /\ count.wants < MaxWants
  /\ s \notin wanted[w]
  /\ wanted' = [wanted EXCEPT ![w] = @ \cup {s}]
  /\ count' = [count EXCEPT !.wants = @ + 1]
  /\ UNCHANGED <<up, seq, box, job, left>>

\* A start is sent again when SendCommand has returned: the worker may still be at the last
\* one, of which the master got no answer (command.go:116, main.go:199).
StartCommand(g, w, s) ==
  /\ w \in up
  /\ s \in wanted[w]
  /\ job[g] = Idle
  /\ job' = [h \in Goroutines |->
               IF h = g
                 THEN [Idle EXCEPT !.kind = "start", !.pc = "pull", !.node = w, !.svc = s]
                 ELSE [job[h] EXCEPT !.clean = @ /\ ~(job[h].node = w /\ job[h].svc \in {s, All})]]
  /\ \/ /\ \A h \in Threads : ~Starting(h, w, s)
        /\ UNCHANGED count
     \/ /\ \E h \in Threads : Starting(h, w, s)
        /\ count.overlaps < MaxOverlaps
        /\ count' = [count EXCEPT !.overlaps = @ + 1]
  /\ UNCHANGED <<up, seq, box, wanted, left>>

Kill(g, w, s) ==
  job' = [job EXCEPT ![g] = [Idle EXCEPT !.kind = "kill", !.pc = "list", !.node = w, !.svc = s,
                                         !.clean = \A h \in Threads : ~Starting(h, w, s)]]

KillCommand(g, w, s) ==
  /\ w \in up
  /\ job[g] = Idle
  /\ count.kills < MaxKills
  /\ count' = [count EXCEPT !.kills = @ + 1]
  /\ Kill(g, w, s)
  /\ UNCHANGED <<up, seq, box, wanted, left>>

-----------------------------------------------------------------------------
(* StartContainer. *)

\* ImageInspect and ImagePull, which may take any time.
Pull(g) ==
  /\ job[g].pc = "pull"
  /\ \/ To(g, "name") /\ UNCHANGED count
     \/ Reply(g) /\ Error
  /\ UNCHANGED <<up, seq, box, wanted, left>>

\* Mutation of TakeName: the number is read before it is incremented.
TakeNameBefore(g) ==
  /\ job[g].pc = "name"
  /\ LET w == job[g].node IN
       /\ seq' = [seq EXCEPT ![w] = @ + 1]
       /\ job' = [job EXCEPT ![g].pc = "create",
                             ![g].name = [node |-> w, svc |-> job[g].svc, seq |-> seq[w]]]
  /\ UNCHANGED <<up, box, wanted, left, count>>

TakeName(g) ==
  /\ job[g].pc = "name"
  /\ LET w == job[g].node IN
       /\ seq[w] < MaxSeq
       /\ seq' = [seq EXCEPT ![w] = @ + 1]
       /\ job' = [job EXCEPT ![g].pc = "create",
                             ![g].name = [node |-> w, svc |-> job[g].svc, seq |-> seq'[w]]]
  /\ UNCHANGED <<up, box, wanted, left, count>>

\* Mutation of Create: a number that turns out to be taken is given back.
CreateGiveBack(g) ==
  /\ job[g].pc = "create"
  /\ IF box[job[g].name] = "none"
       THEN /\ box' = [box EXCEPT ![job[g].name] = "created"]
            /\ To(g, "start")
            /\ UNCHANGED seq
       ELSE /\ seq' = [seq EXCEPT ![job[g].node] = @ - 1]
            /\ Reply(g)
            /\ UNCHANGED box
  /\ UNCHANGED <<up, wanted, left, count>>

\* ContainerCreate fails if the name is taken: by a container that an earlier
\* process of the worker has left.
Create(g) ==
  /\ job[g].pc = "create"
  /\ LET n == job[g].name IN
       \/ /\ box[n] = "none"
          /\ box' = [box EXCEPT ![n] = "created"]
          /\ left' = left \ {n}
          /\ To(g, "start")
          /\ UNCHANGED count
       \/ /\ box[n] # "none"
          /\ Reply(g)
          /\ UNCHANGED <<box, left, count>>
       \/ Reply(g) /\ Error /\ UNCHANGED <<box, left>>
  /\ UNCHANGED <<up, seq, wanted>>

\* Mutation of Start: a container that does not start is left as it is.
StartAndForget(g) ==
  /\ job[g].pc = "start"
  /\ Reply(g)
  /\ \/ /\ box[job[g].name] = "created"
        /\ box' = [box EXCEPT ![job[g].name] = "running"]
        /\ wanted' = [wanted EXCEPT ![job[g].node] = @ \ {job[g].svc}]
        /\ UNCHANGED count
     \/ Error /\ UNCHANGED <<box, wanted>>
  /\ UNCHANGED <<up, seq, left>>

\* ContainerStart fails if a kill has removed the container meanwhile.
Start(g) ==
  /\ job[g].pc = "start"
  /\ LET n == job[g].name IN
       \/ /\ box[n] = "created"
          /\ box' = [box EXCEPT ![n] = "running"]
          /\ wanted' = [wanted EXCEPT ![n.node] = @ \ {n.svc}]
          /\ Reply(g)
          /\ UNCHANGED count
       \/ /\ box[n] = "none"
          /\ To(g, "remove")
          /\ UNCHANGED <<box, wanted, count>>
       \/ To(g, "remove") /\ Error /\ UNCHANGED <<box, wanted>>
  /\ UNCHANGED <<up, seq, left>>

\* ContainerRemove with Force; its error is not looked at.
RemoveCreated(g) ==
  /\ job[g].pc = "remove"
  /\ job[g].kind = "start"
  /\ \/ box' = [box EXCEPT ![job[g].name] = "none"] /\ UNCHANGED <<left, count>>
     \/ left' = left \cup {job[g].name} /\ Error /\ UNCHANGED box
  /\ Reply(g)
  /\ UNCHANGED <<up, seq, wanted>>

-----------------------------------------------------------------------------
(* KillContainersByService and KillAllContainers. *)

Listed(g) == {n \in Own(job[g].node, job[g].svc) : box[n] # "none"}

\* Mutation of List: only containers that run, as RunningContainerIDs does.
ListRunning(g) ==
  /\ job[g].pc = "list"
  /\ job' = [job EXCEPT ![g].pc = "next", ![g].todo = {n \in Listed(g) : box[n] = "running"}]
  /\ UNCHANGED <<up, seq, box, wanted, left, count>>

\* Mutation of List: without the label of the node.
ListOfAllNodes(g) ==
  /\ job[g].pc = "list"
  /\ job' = [job EXCEPT ![g].pc = "next",
                        ![g].todo = {n \in Names : /\ box[n] # "none"
                                                   /\ job[g].svc \in {All, n.svc}}]
  /\ UNCHANGED <<up, seq, box, wanted, left, count>>

List(g) ==
  /\ job[g].pc = "list"
  /\ \/ /\ job' = [job EXCEPT ![g].pc = "next", ![g].todo = Listed(g)]
        /\ UNCHANGED count
     \/ /\ job' = [job EXCEPT ![g].pc = "reply", ![g].clean = FALSE]
        /\ Error
  /\ UNCHANGED <<up, seq, box, wanted, left>>

\* removeContainers.  Stopping a container that is gone or does not run changes nothing.
StopBox(g, n) ==
  /\ job[g].pc = "next"
  /\ n \in job[g].todo
  /\ \/ /\ box' = [box EXCEPT ![n] = IF @ = "running" THEN "exited" ELSE @]
        /\ job' = [job EXCEPT ![g].pc = "remove", ![g].name = n, ![g].todo = @ \ {n}]
        /\ UNCHANGED count
     \/ /\ job' = [job EXCEPT ![g].pc = "remove", ![g].name = n, ![g].todo = @ \ {n},
                              ![g].clean = FALSE]
        /\ Error
        /\ UNCHANGED box
  /\ UNCHANGED <<up, seq, wanted, left>>

\* Without Force, Docker does not remove a container that runs.
RemoveBox(g) ==
  /\ job[g].pc = "remove"
  /\ job[g].kind = "kill"
  /\ \/ /\ box' = [box EXCEPT ![job[g].name] = IF @ = "running" THEN @ ELSE "none"]
        /\ To(g, "next")
        /\ UNCHANGED count
     \/ /\ job' = [job EXCEPT ![g].pc = "next", ![g].clean = FALSE]
        /\ Error
        /\ UNCHANGED box
  /\ UNCHANGED <<up, seq, wanted, left>>

KillEnd(g) ==
  /\ job[g].pc = "next"
  /\ job[g].todo = {}
  /\ To(g, "reply")
  /\ UNCHANGED <<up, seq, box, wanted, left, count>>

KillReply(g) ==
  /\ job[g].pc = "reply"
  /\ g \in Threads
  /\ Reply(g)
  /\ UNCHANGED <<up, seq, box, wanted, left, count>>

-----------------------------------------------------------------------------
(* Processes and containers. *)

\* All goroutines of w end; what they had created stays.
Die(w) ==
  /\ up' = up \ {w}
  /\ job' = [g \in Goroutines |-> IF job[g].node = w THEN Idle ELSE job[g]]
  /\ left' = left \cup {n \in Own(w, All) : box[n] = "created"}

Crash(w) ==
  /\ w \in up
  /\ count.stops < MaxStops
  /\ count' = [count EXCEPT !.stops = @ + 1]
  /\ Die(w)
  /\ UNCHANGED <<seq, box, wanted>>

\* SIGINT or SIGTERM: main removes the containers, commands are still served.
Signal(w) ==
  /\ w \in up
  /\ job[w] = Idle
  /\ count.stops < MaxStops
  /\ count' = [count EXCEPT !.stops = @ + 1]
  /\ Kill(w, w, All)
  /\ UNCHANGED <<up, seq, box, wanted, left>>

Exit(w) ==
  /\ job[w].pc = "reply"
  /\ Die(w)
  /\ UNCHANGED <<seq, box, wanted, count>>

\* A new DockerManager counts from 0.
WorkerStart(w) ==
  /\ w \notin up
  /\ up' = up \cup {w}
  /\ seq' = [seq EXCEPT ![w] = 0]
  /\ UNCHANGED <<box, job, wanted, left, count>>

\* A container's own process ends; nobody looks.
ContainerExit(n) ==
  /\ box[n] = "running"
  /\ count.stops < MaxStops
  /\ count' = [count EXCEPT !.stops = @ + 1]
  /\ box' = [box EXCEPT ![n] = "exited"]
  /\ UNCHANGED <<up, seq, job, wanted, left>>

-----------------------------------------------------------------------------
Run(g) == \/ Pull(g) \/ TakeName(g) \/ Create(g) \/ Start(g) \/ RemoveCreated(g)
          \/ List(g) \/ (\E n \in Names : StopBox(g, n)) \/ RemoveBox(g)
          \/ KillEnd(g) \/ KillReply(g)

Next ==
  \/ \E w \in Nodes :
       \/ Crash(w) \/ Signal(w) \/ Exit(w) \/ WorkerStart(w)
       \/ \E s \in Services : Want(w, s)
       \/ \E g \in Threads : \/ \E s \in Services : StartCommand(g, w, s)
                             \/ \E s \in Services \cup {All} : KillCommand(g, w, s)
  \/ \E g \in Goroutines : Run(g)
  \/ \E n \in Names : ContainerExit(n)

Spec == Init /\ [][Next]_vars

\* Goroutines get to run, and the retry loop sends what it wants again.
Fairness ==
  /\ \A g \in Goroutines : WF_vars(Run(g))
  /\ \A w \in Nodes : WF_vars(Exit(w))
  /\ \A w \in Nodes, s \in Services : WF_vars(\E g \in Threads : StartCommand(g, w, s))

FairSpec == Spec /\ Fairness

-----------------------------------------------------------------------------
(* Properties. *)

\* Numbers, names and goroutines keep their form, and a goroutine belongs to a process
\* that runs (docker.go, command.go).
TypeOK ==
  /\ up \subseteq Nodes
  /\ seq \in [Nodes -> 0..MaxSeq]
  /\ box \in [Names -> {"none", "created", "running", "exited"}]
  /\ job \in [Goroutines ->
       [kind : {"none", "start", "kill"},
        pc : {"idle", "pull", "name", "create", "start", "list", "next", "remove", "reply"},
        node : Nodes \cup {None}, svc : Services \cup {All, None},
        name : Names \cup {None}, todo : SUBSET Names, clean : BOOLEAN]]
  /\ \A g \in Goroutines : job[g] # Idle => job[g].node \in up
  /\ wanted \in [Nodes -> SUBSET Services]
  /\ left \subseteq Names
  /\ count \in [wants : 0..MaxWants, kills : 0..MaxKills, stops : 0..MaxStops,
                errors : 0..MaxErrors, overlaps : 0..MaxOverlaps]

\* A container that was created and never started is still in the hands of the
\* goroutine that created it, unless Docker refused to remove it or the process
\* ended: a StartContainer that fails leaks nothing (docker.go:98-102).
NothingLeaks ==
  \A n \in Names : box[n] = "created" =>
    \/ n \in left
    \/ \E g \in Threads : job[g].kind = "start" /\ job[g].name = n

\* A kill whose Docker calls succeed leaves no container of that worker and service,
\* not even one that an earlier process of the worker created and never started,
\* unless a StartContainer of that service ran at the same time; two kills do not
\* disturb each other (docker.go:108-130, 157-184).
KillLeavesNothing ==
  \A g \in Goroutines :
    job[g].pc = "reply" /\ job[g].clean
      => \A n \in Own(job[g].node, job[g].svc) : box[n] = "none"

\* On a shared daemon no kill stops a container of another worker or service.
KillSparesOthers ==
  [][\A n \in Names : box[n] \in {"running", "exited"} /\ box'[n] = "none" =>
       \E g \in Goroutines : /\ job[g].kind = "kill"
                             /\ job[g].node = n.node
                             /\ job[g].svc \in {n.svc, All}]_vars

\* A StartContainer that is repeated succeeds, although the names the worker tries
\* first are taken by containers of its earlier process: every attempt takes the next
\* number (docker.go:89-96).
StartSucceeds ==
  \A w \in Nodes, s \in Services :
    (<>[](w \in up)) => (s \in wanted[w] ~> s \notin wanted[w])

\* Whoever answers a kill, or exits, has left nothing of what it was to remove.
KillIsComplete ==
  \A g \in Goroutines :
    job[g].pc = "reply" => \A n \in Own(job[g].node, job[g].svc) : box[n] # "running"
=============================================================================
