----------------------------- MODULE ApiGateway -----------------------------
(***************************************************************************)
(* The REST API of the masters (internal/api/server.go): login and         *)
(* refresh, the middleware auth with its tokens (internal/security/jwt.go) *)
(* and access rules (internal/security/acl.go), leaderForward, and the     *)
(* handlers of POST and DELETE as far as the Raft write that creates or    *)
(* removes the service; what they do to containers is in                   *)
(* ContainerLifecycle.  The audit log (internal/audit/logger.go) is local  *)
(* to each master.  Raft is external: a master that was deposed believes   *)
(* that it leads until it hears of it, and only the one that leads can     *)
(* have an entry committed.                                                *)
(*                                                                         *)
(* Requests are numbered; a number also names the service it creates, and  *)
(* Old one that was there before.  No request relies on another's steps    *)
(* but through the services.                                               *)
(***************************************************************************)
EXTENDS Naturals, Sequences, FiniteSets

CONSTANTS
  Masters,       \* Raft IDs
  Clients,       \* users of the API
  Role,          \* client -> its role in State.users
  Listed,        \* masters named by -peers-api
  None,
  AccessLife,    \* durations of the two tokens
  RefreshLife,
  MaxTime,       \* bound: the clock
  MaxLogins,     \* bound: logins
  MaxRequests,   \* bound: writes that clients send
  MaxElections,  \* bound: changes of leadership
  MaxErrors,     \* bound: connections that fail, Raft writes that fail on the leader
  Faults         \* "late": an entry commits although Apply returned an error

Roles == {"ADMIN", "WRITER", "READER"}
Requests == 1..MaxRequests
Old == 0
Ops == {"create", "delete", "invalid"}
Events == {"LOGIN", "AUTH_DENIED", "SERVICE_CREATE", "SERVICE_DELETE"}
Answers == {"200", "201", "400", "401", "403", "404", "502", "503"}

ASSUME ApiAssumption ==
  /\ Role \in [Clients -> Roles]
  /\ Listed \subseteq Masters
  /\ None \notin Masters \cup Clients \cup Answers
  /\ Clients \cap Requests = {}
  /\ {AccessLife, RefreshLife} \subseteq Nat \ {0}
  /\ {MaxTime, MaxLogins, MaxRequests, MaxElections, MaxErrors} \subseteq Nat
  /\ Faults \subseteq {"late"}

VARIABLES
  leader,    \* the master that can commit, or None
  knows,     \* master -> the leader in its eyes, or None
  now,       \* the clock
  held,      \* client -> when its tokens expire, by type; 0 if it has none
  req,       \* requests sent so far
  job,       \* request -> the handlers that serve it; the first is the client's
  services,  \* services in the replicated state, by the request that created them
  done,      \* request -> how many of its writes were committed
  audit,     \* master -> events that it logged, by request or client
  count      \* logins, changes of leadership and errors so far

raft == <<leader, knows>>
vars == <<leader, knows, now, held, req, job, services, done, audit, count>>

Init ==
  /\ leader = None
  /\ knows = [m \in Masters |-> None]
  /\ now = 0
  /\ held = [c \in Clients |-> [access |-> 0, refresh |-> 0]]
  /\ req = <<>>
  /\ job = [r \in Requests |-> <<>>]
  /\ services = {Old}
  /\ done = [r \in Requests |-> 0]
  /\ audit = [m \in Masters |-> [x \in Requests \cup Clients |-> <<>>]]
  /\ count = [logins |-> 0, elections |-> 0, errors |-> 0]

-----------------------------------------------------------------------------
(* Raft, the clock. *)

IsLeader(m) == knows[m] = m

\* calm: since the request was sent, all masters agree on a leader and nothing failed.
Disturb == req' = [r \in DOMAIN req |-> [req[r] EXCEPT !.calm = FALSE]]

Elect(m) ==
  /\ m # leader
  /\ count.elections < MaxElections
  /\ count' = [count EXCEPT !.elections = @ + 1]
  /\ leader' = m
  /\ knows' = [knows EXCEPT ![m] = m]
  /\ Disturb
  /\ UNCHANGED <<now, held, job, services, done, audit>>

\* A master hears from the leader, or misses the one it knew.
Learn(m) ==
  /\ leader # m
  /\ \E l \in {leader, None} \ {knows[m]} : knows' = [knows EXCEPT ![m] = l]
  /\ knows[m] # leader
  /\ Disturb
  /\ UNCHANGED <<leader, now, held, job, services, done, audit, count>>

StepDown(m) ==
  /\ m = leader
  /\ count.elections < MaxElections
  /\ count' = [count EXCEPT !.elections = @ + 1]
  /\ leader' = None
  /\ knows' = [knows EXCEPT ![m] = None]
  /\ Disturb
  /\ UNCHANGED <<now, held, job, services, done, audit>>

Tick ==
  /\ now < MaxTime
  /\ now' = now + 1
  /\ UNCHANGED <<leader, knows, held, req, job, services, done, audit, count>>

-----------------------------------------------------------------------------
(* Tokens and roles. *)

GenerateTokenPair == [access |-> now + AccessLife, refresh |-> now + RefreshLife]

ValidateAccessToken(t) == t.type = "access" /\ now < t.exp

ValidateRefreshToken(t) == t.type = "refresh" /\ now < t.exp

Reads == {"services", "nodes", "pools", "audit"} \X {"read"}
Writes == {"services"} \X {"create", "delete"}

aclRules == [ADMIN  |-> Reads \cup Writes \cup {"users"} \X {"read", "create"},
             WRITER |-> Reads \cup Writes,
             READER |-> Reads]

\* Mutation of CheckPermission: the resource decides, whatever the action.
CheckResource(role, resource, action) == \E p \in aclRules[role] : p[1] = resource

CheckPermission(role, resource, action) == <<resource, action>> \in aclRules[role]

Log(m, x, event) == audit' = [audit EXCEPT ![m][x] = Append(@, event)]

\* A client asks for tokens when it has no access token that is valid.
Expired(c) == ~ValidateAccessToken([type |-> "access", exp |-> held[c].access])

Login(c, m) ==
  /\ Expired(c)
  /\ count.logins < MaxLogins
  /\ count' = [count EXCEPT !.logins = @ + 1]
  /\ held' = [held EXCEPT ![c] = GenerateTokenPair]
  /\ Log(m, c, "LOGIN")
  /\ UNCHANGED <<leader, knows, now, req, job, services, done>>

Refresh(c) ==
  /\ Expired(c)
  /\ ValidateRefreshToken([type |-> "refresh", exp |-> held[c].refresh])
  /\ held' = [held EXCEPT ![c] = GenerateTokenPair]
  /\ UNCHANGED <<leader, knows, now, req, job, services, done, audit, count>>

-----------------------------------------------------------------------------
(* Requests and the handlers that serve them. *)

Handler(m) == [at |-> m, pc |-> "auth", answer |-> None]

At(r, i, pc) == i \in DOMAIN job[r] /\ job[r][i].pc = pc

To(r, i, pc) == job' = [job EXCEPT ![r][i].pc = pc]

Answer(r, i, code) == job' = [job EXCEPT ![r][i].pc = "done", ![r][i].answer = code]

\* The answer that the client has, or None.
Got(r) == IF job[r] = <<>> THEN None ELSE job[r][1].answer

Error == /\ count.errors < MaxErrors
         /\ count' = [count EXCEPT !.errors = @ + 1]
         /\ Disturb

Undisturbed == UNCHANGED <<req, count>>

Calm == leader # None /\ \A m \in Masters : knows[m] = leader

\* A client may send either token, none (exp 0) or an old one; it deletes what was asked for before.
Send(c, m, op, type) ==
  /\ Len(req) < MaxRequests
  /\ type = "access" \/ held[c].refresh > 0
  /\ \E target \in IF op = "delete" THEN {Old} \cup DOMAIN req ELSE {Len(req) + 1} :
       req' = Append(req, [client |-> c, op |-> op, target |-> target, sent |-> now, calm |-> Calm,
                           token |-> [type |-> type, exp |-> held[c][type]]])
  /\ job' = [job EXCEPT ![Len(req) + 1] = <<Handler(m)>>]
  /\ UNCHANGED <<leader, knows, now, held, services, done, audit, count>>

\* auth, in front of leaderForward on every master that the request reaches.
Auth(r, i) ==
  /\ At(r, i, "auth")
  /\ LET action == IF req[r].op = "delete" THEN "delete" ELSE "create" IN
       \/ /\ ~ValidateAccessToken(req[r].token)
          /\ Answer(r, i, "401")
          /\ UNCHANGED audit
       \/ /\ ValidateAccessToken(req[r].token)
          /\ ~CheckPermission(Role[req[r].client], "services", action)
          /\ Log(job[r][i].at, r, "AUTH_DENIED")
          /\ Answer(r, i, "403")
       \/ /\ ValidateAccessToken(req[r].token)
          /\ CheckPermission(Role[req[r].client], "services", action)
          /\ To(r, i, "isLeader")
          /\ UNCHANGED audit
  /\ UNCHANGED <<raft, now, held, services, done>>
  /\ Undisturbed

\* leaderForward reads Raft's state twice: IsLeader, then Leader.
CheckLeader(r, i) ==
  /\ At(r, i, "isLeader")
  /\ To(r, i, IF IsLeader(job[r][i].at) THEN "run" ELSE "forward")
  /\ UNCHANGED <<raft, now, held, services, done, audit>>
  /\ Undisturbed

\* The request is marked as forwarded: every handler but the first one sees the header.
Forwarded(i) == i > 1

Proxy(r, i, m) ==
  job' = [job EXCEPT ![r] = Append([@ EXCEPT ![i].pc = "proxy"], Handler(m))]

\* Mutation of Forward: the header is not looked at.
ForwardAgain(r, i) ==
  /\ At(r, i, "forward")
  /\ LET l == knows[job[r][i].at] IN
       IF l \in Listed THEN Proxy(r, i, l) ELSE Answer(r, i, "503")
  /\ UNCHANGED <<raft, now, held, services, done, audit>>
  /\ Undisturbed

\* Mutation of Forward: nobody asks whether there is a leader, or an address.
ForwardBlindly(r, i) ==
  /\ At(r, i, "forward")
  /\ IF Forwarded(i) THEN Answer(r, i, "503") ELSE Proxy(r, i, knows[job[r][i].at])
  /\ UNCHANGED <<raft, now, held, services, done, audit>>
  /\ Undisturbed

\* Mutation of Forward: a follower only tells the client to go elsewhere.
ForwardNothing(r, i) ==
  /\ At(r, i, "forward")
  /\ Answer(r, i, "503")
  /\ UNCHANGED <<raft, now, held, services, done, audit>>
  /\ Undisturbed

Forward(r, i) ==
  /\ At(r, i, "forward")
  /\ LET l == knows[job[r][i].at] IN
       IF l = None \/ Forwarded(i) \/ l \notin Listed
         THEN Answer(r, i, "503")
         ELSE Proxy(r, i, l)
  /\ UNCHANGED <<raft, now, held, services, done, audit>>
  /\ Undisturbed

\* Mutation of Relay: only a success is passed on.
RelaySuccess(r, i) ==
  /\ At(r, i, "proxy")
  /\ At(r, i + 1, "done")
  /\ job[r][i + 1].answer \in {"200", "201"}
  /\ Answer(r, i, job[r][i + 1].answer)
  /\ UNCHANGED <<raft, now, held, services, done, audit>>
  /\ Undisturbed

Relay(r, i) ==
  /\ At(r, i, "proxy")
  /\ At(r, i + 1, "done")
  /\ Answer(r, i, job[r][i + 1].answer)
  /\ UNCHANGED <<raft, now, held, services, done, audit>>
  /\ Undisturbed

\* Mutation of ProxyError: the request is sent once more.
ProxyErrorRetry(r, i) ==
  /\ At(r, i, "proxy")
  /\ job' = [job EXCEPT ![r] = Append(@, Handler(@[i + 1].at))]
  /\ Error
  /\ UNCHANGED <<raft, now, held, services, done, audit>>

\* The connection to the leader fails, before the request has reached it or after.
ProxyError(r, i) ==
  /\ At(r, i, "proxy")
  /\ \/ Answer(r, i, "502")
     \/ /\ At(r, i + 1, "auth")
        /\ job' = [job EXCEPT ![r] = [SubSeq(@, 1, i) EXCEPT ![i].pc = "done", ![i].answer = "502"]]
  /\ Error
  /\ UNCHANGED <<raft, now, held, services, done, audit>>

\* createService and deleteService up to their first Raft write about the service.
Run(r, i) ==
  /\ At(r, i, "run")
  /\ CASE req[r].op = "invalid" -> Answer(r, i, "400")
       [] req[r].op = "create" -> To(r, i, "apply")
       [] req[r].op = "delete" /\ req[r].target \notin services -> Answer(r, i, "404")
       [] req[r].op = "delete" /\ req[r].target \in services -> To(r, i, "apply")
  /\ UNCHANGED <<raft, now, held, services, done, audit>>
  /\ Undisturbed

Committed(r) ==
  /\ services' = IF req[r].op = "create" THEN services \cup {r} ELSE services \ {req[r].target}
  /\ done' = [done EXCEPT ![r] = @ + 1]

\* Mutation of Failed: POST, too, only logs the error.
FailedIgnored(r, i) == To(r, i, "audit")

\* What the handler does with an error of Apply: DELETE logs it only.
Failed(r, i) == IF req[r].op = "create" THEN Answer(r, i, "503") ELSE To(r, i, "audit")

Apply(r, i) ==
  /\ At(r, i, "apply")
  /\ LET m == job[r][i].at IN
       \/ /\ m = leader
          /\ Committed(r)
          /\ To(r, i, "audit")
          /\ Undisturbed
       \/ /\ m # leader
          /\ Failed(r, i)
          /\ UNCHANGED <<services, done>>
          /\ Undisturbed
       \/ /\ m = leader
          /\ Failed(r, i)
          /\ Error
          /\ \/ UNCHANGED <<services, done>>
             \/ "late" \in Faults /\ Committed(r)
  /\ UNCHANGED <<raft, now, held, audit>>

Finish(r, i) ==
  /\ At(r, i, "audit")
  /\ IF req[r].op = "create"
       THEN Log(job[r][i].at, r, "SERVICE_CREATE") /\ Answer(r, i, "201")
       ELSE Log(job[r][i].at, r, "SERVICE_DELETE") /\ Answer(r, i, "200")
  /\ UNCHANGED <<raft, now, held, services, done>>
  /\ Undisturbed

-----------------------------------------------------------------------------
Raft == \/ \E m \in Masters : Elect(m) \/ Learn(m) \/ StepDown(m)
        \/ Tick

Users == \E c \in Clients :
  \/ \E m \in Masters : Login(c, m)
  \/ Refresh(c)
  \/ \E m \in Masters, op \in Ops, type \in {"access", "refresh"} : Send(c, m, op, type)

Serve(r) == \E i \in DOMAIN job[r] :
  \/ Auth(r, i) \/ CheckLeader(r, i) \/ Forward(r, i) \/ Relay(r, i)
  \/ Run(r, i) \/ Apply(r, i) \/ Finish(r, i)

Next ==
  \/ Raft
  \/ Users
  \/ \E r \in Requests : Serve(r)
  \/ \E r \in Requests : \E i \in DOMAIN job[r] : ProxyError(r, i)

Spec == Init /\ [][Next]_vars

\* Handlers run; nothing is asked of clients, of Raft or of the clock.
FairSpec == Spec /\ \A r \in Requests : WF_vars(Serve(r))

-----------------------------------------------------------------------------
Codes == Answers \cup {None}
PCs == {"auth", "isLeader", "forward", "proxy", "run", "apply", "audit", "done"}

\* Requests, handlers, tokens and audit entries keep their form (server.go).
TypeOK ==
  /\ leader \in Masters \cup {None}
  /\ knows \in [Masters -> Masters \cup {None}]
  /\ now \in 0..MaxTime
  /\ \A c \in Clients : held[c] \in [access : Nat, refresh : Nat]
  /\ \A r \in DOMAIN req : req[r] \in
       [client : Clients, op : Ops, target : {Old} \cup Requests, sent : Nat, calm : BOOLEAN,
        token : [type : {"access", "refresh"}, exp : Nat]]
  /\ \A r \in Requests : \A i \in DOMAIN job[r] :
       /\ job[r][i] \in [at : Masters, pc : PCs, answer : Codes]
       /\ (job[r][i].pc = "done") = (job[r][i].answer # None)
  /\ services \subseteq {Old} \cup DOMAIN req
  /\ done \in [Requests -> Nat]
  /\ \A m \in Masters : \A x \in Requests \cup Clients : audit[m][x] \in Seq(Events)

\* However requests are forwarded, connections break and leadership moves around an Apply, a
\* refusal means that nothing was committed for the request, a 201 that its service was
\* created, and no request is carried out twice; a 502 leaves the outcome open (createService,
\* leaderForward and its proxy). Claimed only where no entry commits after its Apply has
\* returned an error (raft.go:123, server.go:295-297): with "late", the 503 of a leader that
\* was deposed during its Apply can be wrong.
AnswersTellTruth == \A r \in DOMAIN req :
  /\ done[r] <= 1
  /\ Got(r) = "201" => done[r] = 1
  /\ Got(r) \in Answers \ {"200", "201", "502"} => done[r] = 0

\* Entries of an event about a request on all masters together.
Entries(r, event) ==
  {x \in Masters \X (1..2) : x[2] \in DOMAIN audit[x[1]][r] /\ audit[x[1]][r][x[2]] = event}

\* Every service created has one SERVICE_CREATE entry, on one master, once its handler is
\* through, and every request denied one AUTH_DENIED entry (audit.Log in createService, auth).
\* Claimed without "late", like AnswersTellTruth: a handler told that its Apply has failed
\* logs nothing (server.go:295-297). It says nothing of deletions (server.go:449).
AuditMatches == \A r \in DOMAIN req :
  LET at(pc) == {i \in DOMAIN job[r] : job[r][i].pc = pc}
      denied == {i \in DOMAIN job[r] : job[r][i].answer = "403"}
  IN
  /\ req[r].op = "create" =>
       Cardinality(Entries(r, "SERVICE_CREATE")) + Cardinality(at("audit")) = done[r]
  /\ Cardinality(Entries(r, "AUTH_DENIED")) = Cardinality(denied)

\* A write is committed only for a user whose role allows it and whose access token had not
\* expired when the request was sent, whatever masters it went through (auth, jwt.go, acl.go).
OnlyPermitted == \A r \in DOMAIN req : done[r] > 0 =>
  /\ Role[req[r].client] \in {"ADMIN", "WRITER"}
  /\ req[r].token.type = "access"
  /\ req[r].sent < req[r].token.exp

\* A request is forwarded once at most, wherever the leadership moves (forwardedHeader).
ForwardedOnce == \A r \in Requests : Len(job[r]) <= 2

\* Any master serves a write: it is refused with 503 or 502 only if the leadership was
\* unsettled or something failed since it was sent, or if the leader's address was not
\* given to -peers-api (leaderForward).
RefusedInTransitionOnly == \A r \in DOMAIN req :
  Got(r) \in {"502", "503"} => ~req[r].calm \/ leader \notin Listed

\* DELETE answers 200 only if the service is gone (deleteService).
DeletedIsGone == \A r \in DOMAIN req :
  Got(r) = "200" => req[r].target \notin services

\* Every request gets an answer, wherever it is forwarded (leaderForward, ReverseProxy).
RequestsAnswered == \A r \in Requests : r \in DOMAIN req ~> Got(r) # None
=============================================================================
