----------------------------- MODULE NodeStatus -----------------------------
(***************************************************************************)
(* What the heartbeat and fault-tolerance components promise the rest of   *)
(* one master about a worker, with no goroutine, command or clock in it: a *)
(* node joins ALIVE, is suspected and declared DEAD, is heard from again,  *)
(* and, on the leader, comes back from DEAD only once the containers it    *)
(* kept are gone.  NodeLifecycle implements it.                            *)
(***************************************************************************)
CONSTANTS
  Nodes,        \* worker IDs
  LeaderMoves   \* whether the master can gain and lose Raft leadership

VARIABLES
  status,    \* node -> Node.Status, "UNKNOWN" before the first heartbeat
  isLeader,  \* whether this master leads the Raft group
  dirty      \* workers running containers from before they were declared DEAD

vars == <<status, isLeader, dirty>>

Init ==
  /\ status = [n \in Nodes |-> "UNKNOWN"]
  /\ isLeader \in BOOLEAN
  /\ dirty = {}

Become(n, s) == status' = [status EXCEPT ![n] = s]

\* A first heartbeat, or one from a node under suspicion.
Hear(n) ==
  /\ status[n] \in {"UNKNOWN", "SUSPECT"}
  /\ Become(n, "ALIVE")
  /\ UNCHANGED <<isLeader, dirty>>

Suspect(n) ==
  /\ status[n] = "ALIVE"
  /\ Become(n, "SUSPECT")
  /\ UNCHANGED <<isLeader, dirty>>

\* From here on the node's containers are replaced elsewhere.
Die(n) ==
  /\ status[n] \in {"ALIVE", "SUSPECT"}
  /\ Become(n, "DEAD")
  /\ dirty' = dirty \cup {n}
  /\ UNCHANGED isLeader

\* The worker removes its containers, told to or on its way out.
Clean(n) ==
  /\ dirty' = dirty \ {n}
  /\ UNCHANGED <<status, isLeader>>

\* A follower takes a node back unconditionally.
Return(n) ==
  /\ status[n] = "DEAD"
  /\ isLeader => n \notin dirty
  /\ Become(n, "ALIVE")
  /\ UNCHANGED <<isLeader, dirty>>

ChangeRole ==
  /\ LeaderMoves
  /\ isLeader' = ~isLeader
  /\ UNCHANGED <<status, dirty>>

Next == \/ \E n \in Nodes : Hear(n) \/ Suspect(n) \/ Die(n) \/ Clean(n) \/ Return(n)
        \/ ChangeRole

Spec == Init /\ [][Next]_vars
=============================================================================
