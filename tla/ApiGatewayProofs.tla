--------------------------- MODULE ApiGatewayProofs ---------------------------
(***************************************************************************)
(* Theorems of ApiGateway, for any masters, clients, roles and number of   *)
(* requests.  Two of them assume that an entry whose Apply has returned an *)
(* error is not committed later ("late" is no fault).                      *)
(***************************************************************************)
EXTENDS ApiGateway, FiniteSetTheorems, SequenceTheorems, TLAPS

Tokens == [type : {"access", "refresh"}, exp : Nat]

RequestRecords == [client : Clients, op : Ops, target : {Old} \cup Requests, sent : Nat,
                   calm : BOOLEAN, token : Tokens]

Handlers == [at : Masters, pc : PCs, answer : Codes]

TypeInv ==
  /\ leader \in Masters \cup {None}
  /\ knows \in [Masters -> Masters \cup {None}]
  /\ now \in 0..MaxTime
  /\ held \in [Clients -> [access : Nat, refresh : Nat]]
  /\ req \in Seq(RequestRecords)
  /\ Len(req) <= MaxRequests
  /\ job \in [Requests -> Seq(Handlers)]
  /\ services \subseteq {Old} \cup DOMAIN req
  /\ done \in [Requests -> Nat]
  /\ audit \in [Masters -> [Requests \cup Clients -> Seq(Events)]]

\* The handler that has gone furthest.
Last(r) == job[r][Len(job[r])]

\* Requests that were sent have one handler, or two; a handler has answered or is at work.
Form(r) ==
  /\ r \in DOMAIN req => Len(job[r]) \in {1, 2}
  /\ r \notin DOMAIN req => job[r] = <<>> /\ done[r] = 0 /\ \A m \in Masters : audit[m][r] = <<>>
  /\ \A i \in DOMAIN job[r] : (job[r][i].pc = "done") = (job[r][i].answer # None)

\* A handler that has forwarded the request waits for the other's answer and gives that one.
Chain(r) ==
  /\ \A i \in DOMAIN job[r] : job[r][i].pc = "proxy" => i = 1 /\ Len(job[r]) = 2
  /\ Len(job[r]) = 2 =>
       /\ job[r][1].pc \in {"proxy", "done"}
       /\ job[r][2].answer # "502"
       /\ job[r][1].answer \in {None, "502"} \/ job[r][1].answer = job[r][2].answer

\* No entry commits after Apply has returned an error for it.
Prompt == "late" \notin Faults

\* What the last handler has come to tells how many writes were committed.
Outcome(r) == r \in DOMAIN req =>
  /\ Last(r).pc \in {"apply", "audit"} => req[r].op \in {"create", "delete"}
  /\ Last(r).answer = "201" => req[r].op = "create"
  /\ Last(r).answer = "200" => req[r].op # "create"
  /\ Prompt =>
       /\ Last(r).pc \notin {"audit", "done"} => done[r] = 0
       /\ done[r] <= 1
       /\ Last(r).pc = "audit" /\ req[r].op = "create" => done[r] = 1
       /\ Last(r).answer = "201" => done[r] = 1
       /\ Last(r).answer \in Answers \ {"200", "201"} => done[r] = 0

MayWrite(r) ==
  /\ Role[req[r].client] \in {"ADMIN", "WRITER"}
  /\ req[r].token.type = "access"
  /\ req[r].sent < req[r].token.exp

\* Only a request that may write gets past auth.
Allowed(r) == r \in DOMAIN req =>
  /\ req[r].sent <= now
  /\ done[r] > 0 => MayWrite(r)
  /\ \A i \in DOMAIN job[r] : job[r][i].pc \notin {"auth", "done"} => MayWrite(r)
  /\ Len(job[r]) = 2 => MayWrite(r) /\ job[r][2].answer # "403"

Entry(answer) ==
  CASE answer = "403" -> <<"AUTH_DENIED">>
    [] answer = "201" -> <<"SERVICE_CREATE">>
    [] answer = "200" -> <<"SERVICE_DELETE">>
    [] OTHER -> <<>>

\* The last handler's master logs its answer, and nobody else does.
Logged(r) == r \in DOMAIN req =>
  \A m \in Masters : audit[m][r] = IF m = Last(r).at THEN Entry(Last(r).answer) ELSE <<>>

\* While nothing has disturbed a request, it goes the straight way to the leader.
Straight(r) == r \in DOMAIN req /\ req[r].calm =>
  /\ Calm
  /\ \A i \in DOMAIN job[r] :
       /\ job[r][i].pc = "forward" => i = 1 /\ job[r][i].at # leader
       /\ i = 2 => job[r][i].at = leader
       /\ job[r][i].pc \in {"run", "apply"} => job[r][i].at = leader
       /\ job[r][i].answer \in {"502", "503"} => leader \notin Listed

RequestInv(r) == Form(r) /\ Chain(r) /\ Outcome(r) /\ Allowed(r) /\ Logged(r) /\ Straight(r)

IInv == TypeInv /\ \A r \in Requests : RequestInv(r)

-----------------------------------------------------------------------------
(* What steps do. *)

\* Handler i of request r comes to pc with an answer; nothing else happens to the handlers.
Moves(r, i, pc, code) ==
  /\ job' \in [Requests -> Seq(Handlers)]
  /\ Len(job'[r]) = Len(job[r])
  /\ job'[r][i].at = job[r][i].at
  /\ job'[r][i].pc = pc
  /\ job'[r][i].answer = code
  /\ \A j \in DOMAIN job[r] : j # i => job'[r][j] = job[r][j]
  /\ \A q \in Requests : q # r => job'[q] = job[q]

\* Requests stay what they are, but may be disturbed.
SameRequests ==
  /\ req' \in Seq(RequestRecords)
  /\ Len(req') = Len(req)
  /\ DOMAIN req' = DOMAIN req
  /\ \A q \in DOMAIN req :
       /\ req'[q].client = req[q].client
       /\ req'[q].op = req[q].op
       /\ req'[q].target = req[q].target
       /\ req'[q].sent = req[q].sent
       /\ req'[q].token = req[q].token
       /\ req'[q].calm => req[q].calm

\* Editing a handler edits its fields.
LEMMA HandlerAt ==
  ASSUME NEW h \in Handlers, NEW pc \in PCs
  PROVE  /\ [h EXCEPT !.pc = pc] \in Handlers
         /\ [h EXCEPT !.pc = pc].at = h.at
         /\ [h EXCEPT !.pc = pc].pc = pc
         /\ [h EXCEPT !.pc = pc].answer = h.answer
  BY DEF Handlers

\* The same for its answer.
LEMMA HandlerAnswer ==
  ASSUME NEW h \in Handlers, NEW code \in Codes
  PROVE  /\ [h EXCEPT !.answer = code] \in Handlers
         /\ [h EXCEPT !.answer = code].at = h.at
         /\ [h EXCEPT !.answer = code].pc = h.pc
         /\ [h EXCEPT !.answer = code].answer = code
  BY DEF Handlers

\* A handler that goes on.
LEMMA ToMoves ==
  ASSUME TypeInv, NEW r \in Requests, NEW i \in DOMAIN job[r], NEW pc \in PCs, To(r, i, pc)
  PROVE  Moves(r, i, pc, job[r][i].answer)
<1>1. job[r] \in Seq(Handlers) /\ job[r][i] \in Handlers
  BY DEF TypeInv
<1> DEFINE h == [job[r][i] EXCEPT !.pc = pc]
<1>2. h \in Handlers /\ h.at = job[r][i].at /\ h.pc = pc /\ h.answer = job[r][i].answer
  BY <1>1, HandlerAt
<1>3. job' = [job EXCEPT ![r][i] = h]
  BY DEF To
<1> HIDE DEF h
<1>4. QED
  BY <1>1, <1>2, <1>3 DEF Moves, TypeInv

\* A handler that answers.
LEMMA AnswerMoves ==
  ASSUME TypeInv, NEW r \in Requests, NEW i \in DOMAIN job[r], NEW code \in Codes,
         Answer(r, i, code)
  PROVE  Moves(r, i, "done", code)
<1>1. job[r] \in Seq(Handlers) /\ job[r][i] \in Handlers
  BY DEF TypeInv
<1> DEFINE g == [job[r][i] EXCEPT !.pc = "done"]
           h == [g EXCEPT !.answer = code]
<1>2. g \in Handlers /\ g.at = job[r][i].at /\ g.pc = "done"
  <2>1. "done" \in PCs
    BY DEF PCs
  <2>2. QED
    BY <1>1, <2>1, HandlerAt
<1> DEFINE j == [job EXCEPT ![r][i] = g]
<1>3. job' = [j EXCEPT ![r][i].answer = code]
  BY DEF Answer
<1> HIDE DEF g
<1>4. h \in Handlers /\ h.at = job[r][i].at /\ h.pc = "done" /\ h.answer = code
  BY <1>2, HandlerAnswer
<1>5. /\ j \in [Requests -> Seq(Handlers)]
      /\ Len(j[r]) = Len(job[r]) /\ DOMAIN j[r] = DOMAIN job[r]
      /\ j[r][i] = g
      /\ \A k \in DOMAIN job[r] : k # i => j[r][k] = job[r][k]
      /\ \A q \in Requests : q # r => j[q] = job[q]
  BY <1>1, <1>2 DEF TypeInv
<1> HIDE DEF j
<1>6. job' = [j EXCEPT ![r][i] = h]
  BY <1>3, <1>5
<1> HIDE DEF h
<1>7. QED
  BY <1>1, <1>4, <1>5, <1>6 DEF Moves

\* A disturbance leaves no request calm and changes nothing else about it.
LEMMA DisturbEffect ==
  ASSUME TypeInv, Disturb
  PROVE  SameRequests /\ \A q \in DOMAIN req' : ~req'[q].calm
<1>1. req \in Seq(RequestRecords)
  BY DEF TypeInv
<1>2. ASSUME NEW q \in DOMAIN req
      PROVE  /\ req'[q] \in RequestRecords
             /\ req'[q].client = req[q].client
             /\ req'[q].op = req[q].op
             /\ req'[q].target = req[q].target
             /\ req'[q].sent = req[q].sent
             /\ req'[q].token = req[q].token
             /\ ~req'[q].calm
  <2>1. req[q] \in RequestRecords
    BY <1>1
  <2>2. req'[q] = [req[q] EXCEPT !.calm = FALSE]
    BY DEF Disturb
  <2>3. QED
    BY <2>1, <2>2 DEF RequestRecords
<1>3. req' \in Seq(RequestRecords) /\ Len(req') = Len(req) /\ DOMAIN req' = DOMAIN req
  BY <1>1, <1>2 DEF Disturb
<1>4. QED
  BY <1>2, <1>3 DEF SameRequests

\* Where nothing disturbs, requests stay as they are.
LEMMA UndisturbedEffect ==
  ASSUME TypeInv, UNCHANGED req
  PROVE  SameRequests
  BY DEF TypeInv, SameRequests

\* An entry in the log of a master.
LEMMA LogEffect ==
  ASSUME TypeInv, NEW m \in Masters, NEW x \in Requests \cup Clients, NEW event \in Events,
         Log(m, x, event)
  PROVE  /\ audit' \in [Masters -> [Requests \cup Clients -> Seq(Events)]]
         /\ audit'[m][x] = Append(audit[m][x], event)
         /\ \A n \in Masters, y \in Requests \cup Clients :
              n # m \/ y # x => audit'[n][y] = audit[n][y]
<1> DEFINE D == Requests \cup Clients
           s == Append(audit[m][x], event)
<1>1. audit \in [Masters -> [D -> Seq(Events)]] /\ audit[m][x] \in Seq(Events)
  BY DEF TypeInv
<1>2. s \in Seq(Events)
  BY <1>1
<1>3. audit' = [audit EXCEPT ![m][x] = s]
  BY DEF Log
<1> HIDE DEF D, s
<1>4. /\ audit' \in [Masters -> [D -> Seq(Events)]]
      /\ audit'[m][x] = s
      /\ \A n \in Masters, y \in D : n # m \/ y # x => audit'[n][y] = audit[n][y]
  <2>1. x \in D
    BY DEF D
  <2>2. QED
    BY <1>1, <1>2, <1>3, <2>1
<1>5. QED
  BY <1>4 DEF D, s

\* The first entry about a request.
LEMMA LogFirst ==
  ASSUME TypeInv, NEW r \in Requests, NEW i \in DOMAIN job[r],
         \A m \in Masters : audit[m][r] = <<>>,
         NEW event \in Events, Log(job[r][i].at, r, event)
  PROVE  /\ audit' \in [Masters -> [Requests \cup Clients -> Seq(Events)]]
         /\ \A m \in Masters : audit'[m][r] = IF m = job[r][i].at THEN <<event>> ELSE <<>>
         /\ \A q \in Requests : q # r => \A m \in Masters : audit'[m][q] = audit[m][q]
<1> DEFINE m == job[r][i].at
<1>1. m \in Masters
  <2>1. job[r][i] \in Handlers
    BY DEF TypeInv
  <2>2. QED
    BY <2>1 DEF Handlers
<1>2. r \in Requests \cup Clients /\ Log(m, r, event)
  OBVIOUS
<1> HIDE DEF m
<1>3. audit' \in [Masters -> [Requests \cup Clients -> Seq(Events)]]
  BY <1>1, <1>2, LogEffect
<1>4. audit'[m][r] = Append(audit[m][r], event)
  BY <1>1, <1>2, LogEffect
<1>5. \A n \in Masters, y \in Requests \cup Clients : n # m \/ y # r => audit'[n][y] = audit[n][y]
  BY <1>1, <1>2, LogEffect
<1>6. audit'[m][r] = <<event>>
  <2>1. audit[m][r] = <<>> /\ Append(<<>>, event) = <<event>>
    BY <1>1
  <2>2. QED
    BY <1>4, <2>1
<1>7. QED
  BY <1>3, <1>5, <1>6 DEF m

\* What is logged for an answer.
LEMMA EntryOf ==
  /\ Entry("403") = <<"AUTH_DENIED">>
  /\ Entry("201") = <<"SERVICE_CREATE">>
  /\ Entry("200") = <<"SERVICE_DELETE">>
  /\ \A a : a \notin {"200", "201", "403"} => Entry(a) = <<>>
  BY DEF Entry

\* Who may create and delete services.
LEMMA Permission ==
  ASSUME NEW role \in Roles, NEW action \in {"create", "delete"}
  PROVE  CheckPermission(role, "services", action) <=> role \in {"ADMIN", "WRITER"}
<1>1. <<"services", action>> \in Writes /\ <<"services", action>> \notin Reads
  BY DEF Writes, Reads
<1>2. QED
  BY <1>1 DEF CheckPermission, aclRules, Roles

-----------------------------------------------------------------------------
(* The invariant of one request. *)

\* Nothing happens to request q, but that it may be disturbed and that time passes.
Kept(q) ==
  /\ job'[q] = job[q]
  /\ done'[q] = done[q]
  /\ \A m \in Masters : audit'[m][q] = audit[m][q]

\* A request that nothing happens to keeps its invariant.
LEMMA KeptInv ==
  ASSUME TypeInv, NEW q \in Requests, RequestInv(q), Kept(q), SameRequests, now \in Nat,
         now' \in Nat, now <= now', q \in DOMAIN req /\ req'[q].calm => UNCHANGED raft
  PROVE  RequestInv(q)'
<1> USE DEF Kept, SameRequests
<1>1. Form(q)'
  BY DEF RequestInv, Form
<1>2. Chain(q)'
  BY DEF RequestInv, Chain
<1>3. Outcome(q)'
  BY DEF RequestInv, Outcome, Last
<1>4. Allowed(q)'
  <2>1. q \in DOMAIN req => req[q].sent \in Nat
    <3>1. q \in DOMAIN req => req[q] \in RequestRecords
      BY DEF TypeInv
    <3>2. QED
      BY <3>1 DEF RequestRecords
  <2>2. q \in DOMAIN req /\ MayWrite(q) => MayWrite(q)'
    BY DEF MayWrite
  <2>3. q \in DOMAIN req' => req'[q].sent <= now'
    BY <2>1 DEF RequestInv, Allowed
  <2>4. QED
    BY <2>2, <2>3 DEF RequestInv, Allowed
<1>5. Logged(q)'
  BY DEF RequestInv, Logged, Last
<1>6. Straight(q)'
  BY DEF RequestInv, Straight, Calm, raft
<1>7. QED
  BY <1>1, <1>2, <1>3, <1>4, <1>5, <1>6 DEF RequestInv

\* Handler i of request r works: it has neither answered nor handed the request on.
Works(r, i) == i \in DOMAIN job[r] /\ job[r][i].pc \notin {"proxy", "done"}

\* The handler that works is the last one.
LEMMA WorksLast ==
  ASSUME TypeInv, NEW r \in Requests, RequestInv(r), NEW i, Works(r, i)
  PROVE  /\ r \in DOMAIN req
         /\ Len(job[r]) \in {1, 2}
         /\ i = Len(job[r])
         /\ Last(r) = job[r][i]
         /\ job[r][i] \in Handlers
         /\ job[r][i].answer = None
<1>1. job[r] \in Seq(Handlers)
  BY DEF TypeInv
<1>2. r \in DOMAIN req /\ Len(job[r]) \in {1, 2} /\ job[r][i].answer = None
  BY <1>1 DEF RequestInv, Form, Works
<1>3. i = Len(job[r])
  BY <1>1, <1>2 DEF RequestInv, Chain, Works
<1>4. QED
  BY <1>1, <1>2, <1>3 DEF Last, Works

\* What has to be so for handler i to come to pc with an answer.
Fits(r, i, pc, code) ==
  /\ pc # "proxy"
  /\ (pc = "done") = (code # None)
  /\ i = 2 => code \notin {"403", "502"}
  /\ pc \in {"apply", "audit"} => req[r].op \in {"create", "delete"}
  /\ code = "201" => req[r].op = "create"
  /\ code = "200" => req[r].op # "create"
  /\ Prompt =>
       /\ pc \notin {"audit", "done"} => done'[r] = 0
       /\ done'[r] <= 1
       /\ pc = "audit" /\ req[r].op = "create" => done'[r] = 1
       /\ code = "201" => done'[r] = 1
       /\ code \in Answers \ {"200", "201"} => done'[r] = 0
  /\ done'[r] > 0 => MayWrite(r)
  /\ pc \notin {"auth", "done"} => MayWrite(r)
  /\ \A m \in Masters : audit'[m][r] = IF m = job[r][i].at THEN Entry(code) ELSE <<>>
  /\ req'[r].calm =>
       /\ UNCHANGED raft
       /\ pc = "forward" => i = 1 /\ job[r][i].at # leader
       /\ pc \in {"run", "apply"} => job[r][i].at = leader
       /\ code \in {"502", "503"} => leader \notin Listed

\* The invariant of a request after a step of the handler that works on it.
LEMMA WorkInv ==
  ASSUME TypeInv, TypeInv', NEW r \in Requests, RequestInv(r), NEW i, Works(r, i),
         NEW pc, NEW code, Moves(r, i, pc, code), SameRequests, now' = now, Fits(r, i, pc, code)
  PROVE  RequestInv(r)'
<1>1. /\ r \in DOMAIN req
      /\ Len(job[r]) \in {1, 2}
      /\ i = Len(job[r])
      /\ Last(r) = job[r][i]
      /\ job[r][i].answer = None
  BY WorksLast
<1>2. job[r] \in Seq(Handlers) /\ job'[r] \in Seq(Handlers)
  BY DEF TypeInv
<1>3. /\ Len(job'[r]) = Len(job[r])
      /\ DOMAIN job'[r] = DOMAIN job[r]
      /\ DOMAIN job[r] = 1..Len(job[r])
  BY <1>2 DEF Moves
<1>4. /\ job'[r][i].at = job[r][i].at
      /\ job'[r][i].pc = pc
      /\ job'[r][i].answer = code
      /\ \A j \in DOMAIN job[r] : j # i => job'[r][j] = job[r][j]
  BY DEF Moves
<1>5. Last(r)' = job'[r][i]
  BY <1>1, <1>3 DEF Last
<1>6. r \in DOMAIN req' /\ req'[r].op = req[r].op /\ (MayWrite(r) => MayWrite(r)')
  BY <1>1 DEF SameRequests, MayWrite
<1>7. Form(r)'
  BY <1>1, <1>3, <1>4, <1>6 DEF Fits, RequestInv, Form
<1>8. Chain(r)'
  BY <1>1, <1>3, <1>4 DEF Fits, RequestInv, Chain
<1>9. Outcome(r)'
  BY <1>4, <1>5, <1>6 DEF Fits, Outcome
<1>10. Allowed(r)'
  <2>1. req'[r].sent <= now'
    BY <1>1 DEF SameRequests, RequestInv, Allowed
  <2>2. \A j \in DOMAIN job'[r] : job'[r][j].pc \notin {"auth", "done"} => MayWrite(r)
    BY <1>1, <1>3, <1>4 DEF Fits, RequestInv, Allowed
  <2>3. Len(job'[r]) = 2 => MayWrite(r) /\ job'[r][2].answer # "403"
    BY <1>1, <1>3, <1>4 DEF Fits, RequestInv, Allowed
  <2>4. done'[r] > 0 => MayWrite(r)
    BY DEF Fits
  <2>5. QED
    BY <1>6, <2>1, <2>2, <2>3, <2>4 DEF Allowed
<1>11. Logged(r)'
  BY <1>4, <1>5 DEF Fits, Logged
<1>12. Straight(r)'
  <2>1. SUFFICES ASSUME req'[r].calm PROVE Straight(r)'
    BY DEF Straight
  <2>2. req[r].calm /\ UNCHANGED raft /\ Calm /\ Calm'
    BY <1>1, <2>1 DEF SameRequests, Fits, RequestInv, Straight, Calm, raft
  <2>3. QED
    BY <1>1, <1>3, <1>4, <2>1, <2>2 DEF Fits, RequestInv, Straight, raft
<1>13. QED
  BY <1>7, <1>8, <1>9, <1>10, <1>11, <1>12 DEF RequestInv

\* The invariant after a step of the handler that works on request r.
LEMMA ServeInv ==
  ASSUME IInv, NEW r \in Requests, NEW i, Works(r, i), NEW pc, NEW code, Moves(r, i, pc, code),
         SameRequests, UNCHANGED <<raft, now, held>>, Fits(r, i, pc, code),
         services' \subseteq services \cup {r},
         done' \in [Requests -> Nat],
         audit' \in [Masters -> [Requests \cup Clients -> Seq(Events)]],
         \A q \in Requests : q # r =>
           done'[q] = done[q] /\ \A m \in Masters : audit'[m][q] = audit[m][q]
  PROVE  IInv'
<1>1. TypeInv /\ RequestInv(r)
  BY DEF IInv
<1>2. r \in DOMAIN req
  BY <1>1, WorksLast
<1>3. TypeInv'
  BY <1>1, <1>2 DEF TypeInv, Moves, SameRequests, raft
<1>4. now \in Nat /\ now' \in Nat /\ now <= now'
  BY <1>1, ApiAssumption DEF TypeInv
<1>5. ASSUME NEW q \in Requests
      PROVE  RequestInv(q)'
  <2>1. CASE q = r
    BY <1>1, <1>3, <2>1, WorkInv
  <2>2. CASE q # r
    <3>1. Kept(q) /\ RequestInv(q)
      BY <2>2 DEF Kept, Moves, IInv
    <3>2. QED
      BY <1>1, <1>4, <3>1, KeptInv
  <2>3. QED
    BY <2>1, <2>2
<1>6. QED
  BY <1>3, <1>5 DEF IInv

-----------------------------------------------------------------------------
(* The handlers. *)

\* What holds where a handler works.
LEMMA WorkFacts ==
  ASSUME IInv, NEW r \in Requests, NEW i, Works(r, i)
  PROVE  /\ r \in DOMAIN req /\ req[r] \in RequestRecords
         /\ i \in {1, 2} /\ i \in DOMAIN job[r]
         /\ job[r][i] \in Handlers /\ job[r][i].answer = None
         /\ \A m \in Masters : audit[m][r] = <<>>
         /\ job[r][i].pc \in {"apply", "audit"} => req[r].op \in {"create", "delete"}
         /\ Prompt =>
              /\ done[r] <= 1
              /\ job[r][i].pc # "audit" => done[r] = 0
              /\ job[r][i].pc = "audit" /\ req[r].op = "create" => done[r] = 1
         /\ i = 2 \/ job[r][i].pc # "auth" \/ done[r] > 0 => MayWrite(r)
         /\ req[r].sent <= now
         /\ req[r].calm =>
              /\ Calm
              /\ job[r][i].pc = "forward" => i = 1 /\ job[r][i].at # leader
              /\ i = 2 => job[r][i].at = leader
              /\ job[r][i].pc \in {"run", "apply"} => job[r][i].at = leader
<1>1. TypeInv /\ RequestInv(r)
  BY DEF IInv
<1>2. /\ r \in DOMAIN req
      /\ Len(job[r]) \in {1, 2}
      /\ i = Len(job[r])
      /\ Last(r) = job[r][i]
      /\ job[r][i] \in Handlers
      /\ job[r][i].answer = None
  BY <1>1, WorksLast
<1>3. req[r] \in RequestRecords
  BY <1>1, <1>2 DEF TypeInv
<1>4. i \in DOMAIN job[r] /\ job[r][i].pc \notin {"proxy", "done"}
  BY DEF Works
<1>5. \A m \in Masters : audit[m][r] = <<>>
  <2>1. Entry(None) = <<>>
    BY EntryOf, ApiAssumption DEF Answers
  <2>2. QED
    BY <1>1, <1>2, <2>1 DEF RequestInv, Logged
<1>6. /\ job[r][i].pc \in {"apply", "audit"} => req[r].op \in {"create", "delete"}
      /\ Prompt =>
           /\ done[r] <= 1
           /\ job[r][i].pc # "audit" => done[r] = 0
           /\ job[r][i].pc = "audit" /\ req[r].op = "create" => done[r] = 1
  BY <1>1, <1>2, <1>4 DEF RequestInv, Outcome
<1>7. /\ i = 2 \/ job[r][i].pc # "auth" \/ done[r] > 0 => MayWrite(r)
      /\ req[r].sent <= now
  BY <1>1, <1>2, <1>4 DEF RequestInv, Allowed
<1>8. req[r].calm =>
        /\ Calm
        /\ job[r][i].pc = "forward" => i = 1 /\ job[r][i].at # leader
        /\ i = 2 => job[r][i].at = leader
        /\ job[r][i].pc \in {"run", "apply"} => job[r][i].at = leader
  BY <1>1, <1>2, <1>4 DEF RequestInv, Straight
<1>9. QED
  BY <1>2, <1>3, <1>4, <1>5, <1>6, <1>7, <1>8

\* A step before the write is applied that commits and logs nothing.
LEMMA QuietInv ==
  ASSUME IInv, NEW r \in Requests, NEW i, Works(r, i), NEW pc, NEW code, Moves(r, i, pc, code),
         SameRequests, UNCHANGED <<raft, now, held, services, done, audit>>,
         job[r][i].pc # "audit", pc \notin {"proxy", "audit"}, (pc = "done") = (code # None),
         code \notin {"200", "201", "403"}, i = 2 => code # "502",
         pc = "apply" => req[r].op \in {"create", "delete"},
         pc \in {"auth", "done"} \/ MayWrite(r),
         req'[r].calm =>
           /\ pc = "forward" => i = 1 /\ job[r][i].at # leader
           /\ pc \in {"run", "apply"} => job[r][i].at = leader
           /\ code \in {"502", "503"} => leader \notin Listed
  PROVE  IInv'
<1>1. /\ \A m \in Masters : audit[m][r] = <<>>
      /\ Prompt => done[r] = 0
      /\ done[r] > 0 => MayWrite(r)
  BY WorkFacts
<1>2. Entry(code) = <<>>
  BY EntryOf
<1>3. Fits(r, i, pc, code)
  BY <1>1, <1>2 DEF Fits, raft
<1>4. /\ done' \in [Requests -> Nat]
      /\ audit' \in [Masters -> [Requests \cup Clients -> Seq(Events)]]
  BY DEF IInv, TypeInv
<1>5. QED
  BY <1>3, <1>4, ServeInv

\* auth.
LEMMA AuthInv ==
  ASSUME IInv, NEW r \in Requests, NEW i, Auth(r, i)
  PROVE  IInv'
<1>1. TypeInv
  BY DEF IInv
<1>2. Works(r, i) /\ job[r][i].pc = "auth" /\ UNCHANGED <<raft, now, held, services, done>>
  BY DEF Auth, At, Works
<1>3. /\ r \in DOMAIN req /\ req[r] \in RequestRecords
      /\ i \in {1, 2} /\ i \in DOMAIN job[r]
      /\ job[r][i] \in Handlers /\ job[r][i].answer = None
      /\ \A m \in Masters : audit[m][r] = <<>>
      /\ Prompt => done[r] = 0
      /\ i = 2 \/ done[r] > 0 => MayWrite(r)
      /\ req[r].sent <= now
  BY <1>2, WorkFacts
<1>4. SameRequests /\ done' \in [Requests -> Nat] /\ done'[r] = done[r]
  BY <1>1, <1>2, <1>3, UndisturbedEffect DEF Auth, Undisturbed, TypeInv
<1> DEFINE action == IF req[r].op = "delete" THEN "delete" ELSE "create"
<1>5. /\ ValidateAccessToken(req[r].token) => req[r].token.type = "access"
                                               /\ req[r].sent < req[r].token.exp
      /\ CheckPermission(Role[req[r].client], "services", action)
           <=> Role[req[r].client] \in {"ADMIN", "WRITER"}
  <2>1. req[r].sent \in Nat /\ req[r].token.exp \in Nat /\ now \in Nat /\ req[r].client \in Clients
    BY <1>1, <1>3, ApiAssumption DEF TypeInv, RequestRecords, Tokens
  <2>2. Role[req[r].client] \in Roles /\ action \in {"create", "delete"}
    BY <2>1, ApiAssumption
  <2> HIDE DEF action
  <2>3. QED
    BY <1>3, <2>1, <2>2, Permission DEF ValidateAccessToken
<1>6. CASE Answer(r, i, "401") /\ UNCHANGED audit
  <2>1. Moves(r, i, "done", "401")
    BY <1>1, <1>3, <1>6, AnswerMoves DEF Codes, Answers
  <2>2. Fits(r, i, "done", "401")
    BY <1>2, <1>3, <1>4, <1>6, EntryOf, ApiAssumption DEF Fits, Answers
  <2>3. audit' \in [Masters -> [Requests \cup Clients -> Seq(Events)]]
    BY <1>1, <1>6 DEF TypeInv
  <2>4. QED
    BY <1>2, <1>4, <1>6, <2>1, <2>2, <2>3, ServeInv
<1>7. CASE /\ ~CheckPermission(Role[req[r].client], "services", action)
           /\ Log(job[r][i].at, r, "AUTH_DENIED")
           /\ Answer(r, i, "403")
  <2>1. Moves(r, i, "done", "403")
    BY <1>1, <1>3, <1>7, AnswerMoves DEF Codes, Answers
  <2>2. i # 2
    BY <1>3, <1>5, <1>7 DEF MayWrite
  <2>3. /\ audit' \in [Masters -> [Requests \cup Clients -> Seq(Events)]]
        /\ \A m \in Masters : audit'[m][r] = IF m = job[r][i].at THEN Entry("403") ELSE <<>>
        /\ \A q \in Requests : q # r => \A m \in Masters : audit'[m][q] = audit[m][q]
    <3>1. PICK event \in Events : event = "AUTH_DENIED"
      BY DEF Events
    <3>2. Log(job[r][i].at, r, event) /\ Entry("403") = <<event>>
      BY <1>7, <3>1, EntryOf
    <3>3. i \in DOMAIN job[r] /\ \A m \in Masters : audit[m][r] = <<>>
      BY <1>3
    <3>4. /\ audit' \in [Masters -> [Requests \cup Clients -> Seq(Events)]]
          /\ \A m \in Masters : audit'[m][r] = IF m = job[r][i].at THEN <<event>> ELSE <<>>
          /\ \A q \in Requests : q # r => \A m \in Masters : audit'[m][q] = audit[m][q]
      BY <1>1, <3>2, <3>3, LogFirst
    <3>5. QED
      BY <3>2, <3>4
  <2>4. Fits(r, i, "done", "403")
    BY <1>2, <1>3, <1>4, <2>2, <2>3, ApiAssumption DEF Fits, Answers
  <2>5. QED
    BY <1>2, <1>4, <2>1, <2>3, <2>4, ServeInv
<1>8. CASE /\ ValidateAccessToken(req[r].token)
           /\ CheckPermission(Role[req[r].client], "services", action)
           /\ To(r, i, "isLeader")
           /\ UNCHANGED audit
  <2>1. Moves(r, i, "isLeader", None)
    BY <1>1, <1>3, <1>8, ToMoves DEF PCs
  <2>2. MayWrite(r)
    BY <1>5, <1>8 DEF MayWrite
  <2>3. Fits(r, i, "isLeader", None)
    BY <1>2, <1>3, <1>4, <1>8, <2>2, EntryOf, ApiAssumption DEF Fits, Answers
  <2>4. audit' \in [Masters -> [Requests \cup Clients -> Seq(Events)]]
    BY <1>1, <1>8 DEF TypeInv
  <2>5. QED
    BY <1>2, <1>4, <1>8, <2>1, <2>3, <2>4, ServeInv
<1>9. QED
  BY <1>6, <1>7, <1>8 DEF Auth

\* IsLeader.
LEMMA CheckLeaderInv ==
  ASSUME IInv, NEW r \in Requests, NEW i, CheckLeader(r, i)
  PROVE  IInv'
<1>1. TypeInv
  BY DEF IInv
<1>2. /\ Works(r, i) /\ job[r][i].pc = "isLeader"
      /\ UNCHANGED <<raft, now, held, services, done, audit>> /\ UNCHANGED req
  BY DEF CheckLeader, At, Works, Undisturbed
<1>3. /\ r \in DOMAIN req /\ i \in {1, 2} /\ i \in DOMAIN job[r]
      /\ job[r][i] \in Handlers /\ job[r][i].answer = None /\ MayWrite(r)
      /\ req[r].calm => Calm /\ (i = 2 => job[r][i].at = leader)
  BY <1>2, WorkFacts
<1>4. job[r][i].at \in Masters
  BY <1>3 DEF Handlers
<1>5. SameRequests
  BY <1>1, <1>2, UndisturbedEffect
<1> DEFINE pc == IF IsLeader(job[r][i].at) THEN "run" ELSE "forward"
<1>6. pc \in PCs /\ pc \in {"run", "forward"}
  BY DEF PCs
<1>7. Moves(r, i, pc, None)
  <2>1. To(r, i, pc)
    BY DEF CheckLeader
  <2> HIDE DEF pc
  <2>2. QED
    BY <1>1, <1>3, <1>6, <2>1, ToMoves
<1>8. req'[r].calm =>
        /\ pc = "forward" => i = 1 /\ job[r][i].at # leader
        /\ pc \in {"run", "apply"} => job[r][i].at = leader
  BY <1>2, <1>3, <1>4 DEF Calm, IsLeader
<1> HIDE DEF pc
<1>9. None \notin {"200", "201", "403", "502", "503"}
  BY ApiAssumption DEF Answers
<1>10. QED
  BY <1>2, <1>3, <1>5, <1>6, <1>7, <1>8, <1>9, QuietInv

\* leaderForward, where it refuses.
LEMMA ForwardRefusesInv ==
  ASSUME IInv, NEW r \in Requests, NEW i, Forward(r, i), Answer(r, i, "503")
  PROVE  IInv'
<1>1. TypeInv
  BY DEF IInv
<1>2. /\ Works(r, i) /\ job[r][i].pc = "forward"
      /\ UNCHANGED <<raft, now, held, services, done, audit>> /\ UNCHANGED req
  BY DEF Forward, At, Works, Undisturbed
<1>3. /\ r \in DOMAIN req /\ i \in {1, 2} /\ i \in DOMAIN job[r]
      /\ job[r][i] \in Handlers /\ job[r][i].answer = None
      /\ req[r].calm => Calm /\ i = 1
  BY <1>2, WorkFacts
<1>4. job[r][i].at \in Masters
  BY <1>3 DEF Handlers
<1>5. SameRequests
  BY <1>1, <1>2, UndisturbedEffect
<1>6. Moves(r, i, "done", "503")
  BY <1>1, <1>3, AnswerMoves DEF Codes, Answers
<1>7. req'[r].calm => leader \notin Listed
  <2>1. SUFFICES ASSUME req[r].calm PROVE leader \notin Listed
    BY <1>2
  <2>2. i = 1 /\ knows[job[r][i].at] = leader /\ leader # None
    BY <1>3, <1>4, <2>1 DEF Calm
  <2>3. ~Forwarded(i)
    BY <2>2 DEF Forwarded
  <2>4. SUFFICES ASSUME leader \in Listed PROVE FALSE
    OBVIOUS
  <2>5. Proxy(r, i, leader)
    BY <2>2, <2>3, <2>4 DEF Forward
  <2>6. Len(job'[r]) = Len(job[r]) + 1
    <3>1. job[r] \in Seq(Handlers)
      BY <1>1 DEF TypeInv
    <3>2. QED
      BY <1>1, <2>5, <3>1 DEF Proxy, TypeInv
  <2>7. Len(job'[r]) = Len(job[r]) /\ Len(job[r]) \in Nat
    BY <1>1, <1>6 DEF Moves, TypeInv
  <2>8. QED
    BY <2>6, <2>7
<1>8. "503" # None
  BY ApiAssumption DEF Answers
<1>9. QED
  BY <1>2, <1>3, <1>5, <1>6, <1>7, <1>8, QuietInv

\* A step that changes only what is known of the handlers of request r.
LEMMA HandlersInv ==
  ASSUME IInv, NEW r \in Requests, r \in DOMAIN req, job' \in [Requests -> Seq(Handlers)],
         \A q \in Requests : q # r => job'[q] = job[q],
         SameRequests, UNCHANGED <<raft, now, held, services, done, audit>>,
         Form(r)', Chain(r)', Outcome(r)', Allowed(r)', Logged(r)', Straight(r)'
  PROVE  IInv'
<1>1. TypeInv
  BY DEF IInv
<1>2. TypeInv'
  BY <1>1 DEF TypeInv, SameRequests, raft
<1>3. now \in Nat /\ now' \in Nat /\ now <= now'
  BY <1>1, ApiAssumption DEF TypeInv
<1>4. ASSUME NEW q \in Requests
      PROVE  RequestInv(q)'
  <2>1. CASE q = r
    BY <2>1 DEF RequestInv
  <2>2. CASE q # r
    <3>1. Kept(q) /\ RequestInv(q)
      BY <2>2 DEF Kept, IInv
    <3>2. QED
      BY <1>1, <1>3, <3>1, KeptInv
  <2>3. QED
    BY <2>1, <2>2
<1>5. QED
  BY <1>2, <1>4 DEF IInv

\* A second element after the first.
LEMMA AppendSecond ==
  ASSUME NEW S, NEW s \in Seq(S), NEW h \in S
  PROVE  Len(s) = 1 =>
           /\ Append(s, h) \in Seq(S)
           /\ Len(Append(s, h)) = 2
           /\ Append(s, h)[1] = s[1]
           /\ Append(s, h)[2] = h
<1> DEFINE t == Append(s, h)
<1>1. /\ t \in Seq(S)
      /\ Len(t) = Len(s) + 1
      /\ \A i \in 1..Len(s) : t[i] = s[i]
      /\ t[Len(s) + 1] = h
  BY AppendProperties
<1> HIDE DEF t
<1>2. Len(s) = 1 => t \in Seq(S) /\ Len(t) = 2 /\ t[1] = s[1] /\ t[2] = h
  BY <1>1
<1>3. QED
  BY <1>2 DEF t

\* A handler that passes the request on has another one behind it.
LEMMA ProxyEffect ==
  ASSUME TypeInv, NEW r \in Requests, Len(job[r]) = 1, NEW l \in Masters, Proxy(r, 1, l)
  PROVE  /\ job' \in [Requests -> Seq(Handlers)]
         /\ Len(job'[r]) = 2
         /\ job'[r][1].at = job[r][1].at
         /\ job'[r][1].pc = "proxy"
         /\ job'[r][1].answer = job[r][1].answer
         /\ job'[r][2].at = l
         /\ job'[r][2].pc = "auth"
         /\ job'[r][2].answer = None
         /\ \A q \in Requests : q # r => job'[q] = job[q]
<1>1. job[r] \in Seq(Handlers) /\ job[r][1] \in Handlers
  <2>1. job[r] \in Seq(Handlers)
    BY DEF TypeInv
  <2>2. QED
    BY <2>1
<1> DEFINE g == [job[r][1] EXCEPT !.pc = "proxy"]
           h == Handler(l)
           s == [job[r] EXCEPT ![1] = g]
<1>2. g \in Handlers /\ g.at = job[r][1].at /\ g.pc = "proxy" /\ g.answer = job[r][1].answer
  <2>1. "proxy" \in PCs
    BY DEF PCs
  <2>2. QED
    BY <1>1, <2>1, HandlerAt
<1>3. h \in Handlers /\ h.at = l /\ h.pc = "auth" /\ h.answer = None
  BY DEF Handler, Handlers, PCs, Codes
<1>4. job' = [job EXCEPT ![r] = Append(s, h)]
  BY DEF Proxy
<1> HIDE DEF g, h
<1>5. s \in Seq(Handlers) /\ Len(s) = 1 /\ s[1] = g
  BY <1>1, <1>2
<1> HIDE DEF s
<1>6. Append(s, h) \in Seq(Handlers) /\ Len(Append(s, h)) = 2
      /\ Append(s, h)[1] = g /\ Append(s, h)[2] = h
  <2>1. s \in Seq(Handlers) /\ h \in Handlers /\ Len(s) = 1 /\ s[1] = g
    BY <1>3, <1>5
  <2>2. QED
    BY <2>1, AppendSecond
<1>7. job' \in [Requests -> Seq(Handlers)] /\ job'[r] = Append(s, h)
      /\ \A q \in Requests : q # r => job'[q] = job[q]
  BY <1>4, <1>6 DEF TypeInv
<1>8. QED
  BY <1>2, <1>3, <1>6, <1>7

\* leaderForward, where it passes the request on.
LEMMA ForwardPassesInv ==
  ASSUME IInv, NEW r \in Requests, NEW i, Forward(r, i), ~Forwarded(i),
         NEW l \in Masters, l = knows[job[r][i].at], Proxy(r, i, l)
  PROVE  IInv'
<1>1. TypeInv /\ RequestInv(r)
  BY DEF IInv
<1>2. /\ Works(r, i) /\ job[r][i].pc = "forward"
      /\ UNCHANGED <<raft, now, held, services, done, audit>> /\ UNCHANGED req
  BY DEF Forward, At, Works, Undisturbed
<1>3. /\ r \in DOMAIN req /\ i = 1 /\ job[r][i].at \in Masters /\ job[r][i].answer = None
      /\ (Prompt => done[r] = 0) /\ MayWrite(r) /\ req[r].sent <= now
      /\ \A m \in Masters : audit[m][r] = <<>>
      /\ req[r].calm => Calm
  BY <1>2, WorkFacts DEF Forwarded, Handlers
<1>4. Len(job[r]) = 1
  BY <1>1, <1>2, <1>3, WorksLast
<1>5. /\ job' \in [Requests -> Seq(Handlers)]
      /\ Len(job'[r]) = 2
      /\ job'[r][1].at = job[r][1].at
      /\ job'[r][1].pc = "proxy"
      /\ job'[r][1].answer = None
      /\ job'[r][2].at = l
      /\ job'[r][2].pc = "auth"
      /\ job'[r][2].answer = None
      /\ \A q \in Requests : q # r => job'[q] = job[q]
  BY <1>1, <1>3, <1>4, ProxyEffect
<1>6. DOMAIN job'[r] = {1, 2} /\ Last(r)' = job'[r][2]
  BY <1>5 DEF Last
<1>7. SameRequests
  BY <1>1, <1>2, UndisturbedEffect
<1>8. None \notin Answers
  BY ApiAssumption
<1>9. Form(r)'
  BY <1>2, <1>3, <1>5, <1>6 DEF Form
<1>10. Chain(r)'
  BY <1>5, <1>6, <1>8 DEF Chain, Answers
<1>11. Outcome(r)'
  BY <1>2, <1>3, <1>5, <1>6, <1>8 DEF Outcome, Answers
<1>12. Allowed(r)'
  BY <1>2, <1>3, <1>5, <1>6, <1>8 DEF Allowed, Answers, MayWrite
<1>13. Logged(r)'
  <2>1. Entry(None) = <<>>
    BY <1>8, EntryOf DEF Answers
  <2>2. QED
    BY <1>2, <1>3, <1>5, <1>6, <2>1 DEF Logged
<1>14. Straight(r)'
  <2>1. req[r].calm => l = leader
    BY <1>3 DEF Calm
  <2>2. QED
    BY <1>2, <1>3, <1>5, <1>6, <1>8, <2>1 DEF Straight, Answers, Calm, raft
<1>15. QED
  BY <1>2, <1>3, <1>5, <1>7, <1>9, <1>10, <1>11, <1>12, <1>13, <1>14, HandlersInv

\* leaderForward.
LEMMA ForwardInv ==
  ASSUME IInv, NEW r \in Requests, NEW i, Forward(r, i)
  PROVE  IInv'
<1>1. CASE Answer(r, i, "503")
  BY <1>1, ForwardRefusesInv
<1>2. CASE ~Answer(r, i, "503")
  <2> DEFINE l == knows[job[r][i].at]
  <2>1. ~Forwarded(i) /\ l \in Listed /\ Proxy(r, i, l)
    BY <1>2 DEF Forward
  <2>2. l \in Masters
    BY <2>1, ApiAssumption
  <2>3. QED
    BY <2>1, <2>2, ForwardPassesInv
<1>3. QED
  BY <1>1, <1>2

\* What holds where a handler waits for another's answer.
LEMMA ProxyFacts ==
  ASSUME IInv, NEW r \in Requests, NEW i, At(r, i, "proxy")
  PROVE  /\ r \in DOMAIN req /\ i = 1 /\ Len(job[r]) = 2 /\ DOMAIN job[r] = {1, 2}
         /\ job[r] \in Seq(Handlers) /\ job[r][1] \in Handlers /\ job[r][2] \in Handlers
         /\ Last(r) = job[r][2] /\ MayWrite(r)
         /\ (job[r][2].pc = "done") = (job[r][2].answer # None)
         /\ job[r][2].pc # "proxy"
         /\ job[r][2].answer \notin {"403", "502"}
<1>1. TypeInv /\ RequestInv(r)
  BY DEF IInv
<1>2. job[r] \in Seq(Handlers)
  BY <1>1 DEF TypeInv
<1>3. i = 1 /\ Len(job[r]) = 2
  BY <1>1 DEF RequestInv, Chain, At
<1>4. DOMAIN job[r] = {1, 2} /\ r \in DOMAIN req
  BY <1>1, <1>2, <1>3 DEF RequestInv, Form
<1>5. job[r][1] \in Handlers /\ job[r][2] \in Handlers
  BY <1>2, <1>4
<1>6. MayWrite(r) /\ job[r][2].answer # "403"
  BY <1>1, <1>3, <1>4 DEF RequestInv, Allowed
<1>7. (job[r][2].pc = "done") = (job[r][2].answer # None)
  BY <1>1, <1>4 DEF RequestInv, Form
<1>8. job[r][2].pc # "proxy" /\ job[r][2].answer # "502"
  BY <1>1, <1>3, <1>4 DEF RequestInv, Chain
<1>9. QED
  BY <1>2, <1>3, <1>4, <1>5, <1>6, <1>7, <1>8 DEF Last

\* A handler that waits answers for good.
LEMMA ProxyAnswersInv ==
  ASSUME IInv, NEW r \in Requests, NEW i, At(r, i, "proxy"), NEW code \in Codes,
         Answer(r, i, code), SameRequests, UNCHANGED <<raft, now, held, services, done, audit>>,
         \/ code = "502" /\ (r \in DOMAIN req' => ~req'[r].calm)
         \/ code = job[r][2].answer /\ job[r][2].pc = "done" /\ UNCHANGED req
  PROVE  IInv'
<1>1. TypeInv /\ RequestInv(r)
  BY DEF IInv
<1>2. /\ r \in DOMAIN req /\ i = 1 /\ Len(job[r]) = 2 /\ DOMAIN job[r] = {1, 2}
      /\ job[r] \in Seq(Handlers)
      /\ Last(r) = job[r][2] /\ MayWrite(r)
      /\ (job[r][2].pc = "done") = (job[r][2].answer # None)
      /\ job[r][2].pc # "proxy" /\ job[r][2].answer \notin {"403", "502"}
  BY ProxyFacts
<1>3. Moves(r, 1, "done", code)
  BY <1>1, <1>2, AnswerMoves
<1>4. /\ job' \in [Requests -> Seq(Handlers)]
      /\ Len(job'[r]) = 2 /\ DOMAIN job'[r] = {1, 2}
      /\ job'[r][1].at = job[r][1].at
      /\ job'[r][1].pc = "done"
      /\ job'[r][1].answer = code
      /\ job'[r][2] = job[r][2]
      /\ \A q \in Requests : q # r => job'[q] = job[q]
  BY <1>2, <1>3 DEF Moves
<1>5. Last(r)' = Last(r)
  BY <1>2, <1>4 DEF Last
<1>6. code # None /\ None # "502"
  BY <1>2, ApiAssumption DEF Answers
<1>7. /\ r \in DOMAIN req' /\ req'[r].op = req[r].op /\ req'[r].sent = req[r].sent
      /\ (MayWrite(r) => MayWrite(r)') /\ (req'[r].calm => req[r].calm)
  BY <1>2 DEF SameRequests, MayWrite
<1>8. Form(r)'
  BY <1>2, <1>4, <1>6, <1>7 DEF Form
<1>9. Chain(r)'
  BY <1>2, <1>4 DEF Chain
<1>10. Outcome(r)'
  BY <1>1, <1>2, <1>5, <1>7 DEF RequestInv, Outcome
<1>11. Allowed(r)'
  BY <1>1, <1>2, <1>4, <1>7 DEF RequestInv, Allowed
<1>12. Logged(r)'
  BY <1>1, <1>2, <1>5, <1>7 DEF RequestInv, Logged
<1>13. Straight(r)'
  <2>1. SUFFICES ASSUME req'[r].calm PROVE Straight(r)'
    BY DEF Straight
  <2>2. req[r].calm /\ code = job[r][2].answer
    BY <1>7, <2>1
  <2>3. Calm /\ Calm'
    BY <1>1, <1>2, <2>2 DEF RequestInv, Straight, Calm, raft
  <2>4. code \in {"502", "503"} => leader \notin Listed
    BY <1>1, <1>2, <2>2 DEF RequestInv, Straight
  <2>5. QED
    BY <1>1, <1>2, <1>4, <2>2, <2>3, <2>4 DEF RequestInv, Straight, raft
<1>14. QED
  BY <1>2, <1>4, <1>8, <1>9, <1>10, <1>11, <1>12, <1>13, HandlersInv

\* The proxy passes the answer on.
LEMMA RelayInv ==
  ASSUME IInv, NEW r \in Requests, NEW i, Relay(r, i)
  PROVE  IInv'
<1>1. At(r, i, "proxy") /\ TypeInv
  BY DEF Relay, IInv
<1>2. i = 1 /\ job[r][2] \in Handlers
  BY <1>1, ProxyFacts
<1>3. job[r][2].pc = "done" /\ Answer(r, i, job[r][2].answer)
      /\ UNCHANGED <<raft, now, held, services, done, audit>> /\ UNCHANGED req
  BY <1>2 DEF Relay, At, Undisturbed
<1>4. job[r][2].answer \in Codes
  BY <1>2 DEF Handlers
<1>5. SameRequests
  BY <1>1, <1>3, UndisturbedEffect
<1>6. QED
  BY <1>1, <1>3, <1>4, <1>5, ProxyAnswersInv

\* The first element of two.
LEMMA CutFirst ==
  ASSUME NEW S, NEW s \in Seq(S), Len(s) = 2
  PROVE  SubSeq(s, 1, 1) \in Seq(S) /\ Len(SubSeq(s, 1, 1)) = 1 /\ SubSeq(s, 1, 1)[1] = s[1]
<1> DEFINE t == SubSeq(s, 1, 1)
<1>1. \A i \in 1..1 : s[i] \in S
  OBVIOUS
<1>2. /\ t \in Seq(S)
      /\ Len(t) = IF 1 <= 1 THEN 1 - 1 + 1 ELSE 0
      /\ \A i \in 1..(1 - 1 + 1) : t[i] = s[1 + i - 1]
  BY <1>1, SubSeqProperties
<1> HIDE DEF t
<1>3. t \in Seq(S) /\ Len(t) = 1 /\ t[1] = s[1]
  BY <1>2
<1>4. QED
  BY <1>3 DEF t

\* Another first element.
LEMMA ReplaceFirst ==
  ASSUME NEW S, NEW s \in Seq(S), Len(s) = 1, NEW h \in S
  PROVE  /\ [s EXCEPT ![1] = h] \in Seq(S)
         /\ Len([s EXCEPT ![1] = h]) = 1
         /\ [s EXCEPT ![1] = h][1] = h
  BY ExceptSeq

\* A connection that fails before the request has got through leaves one handler.
LEMMA CutEffect ==
  ASSUME TypeInv, NEW r \in Requests, Len(job[r]) = 2,
         job' = [job EXCEPT ![r] = [SubSeq(@, 1, 1) EXCEPT ![1].pc = "done", ![1].answer = "502"]]
  PROVE  /\ job' \in [Requests -> Seq(Handlers)]
         /\ Len(job'[r]) = 1
         /\ job'[r][1].at = job[r][1].at
         /\ job'[r][1].pc = "done"
         /\ job'[r][1].answer = "502"
         /\ \A q \in Requests : q # r => job'[q] = job[q]
<1> DEFINE s == SubSeq(job[r], 1, 1)
           g == [job[r][1] EXCEPT !.pc = "done"]
           h == [g EXCEPT !.answer = "502"]
           t == [s EXCEPT ![1] = g]
<1>1. job[r] \in Seq(Handlers) /\ job[r][1] \in Handlers
  <2>1. job[r] \in Seq(Handlers)
    BY DEF TypeInv
  <2>2. QED
    BY <2>1
<1>2. s \in Seq(Handlers) /\ Len(s) = 1 /\ s[1] = job[r][1]
  BY <1>1, CutFirst
<1>3. job' = [job EXCEPT ![r] = [[s EXCEPT ![1].pc = "done"] EXCEPT ![1].answer = "502"]]
  OBVIOUS
<1> HIDE DEF s
<1>4. [s EXCEPT ![1].pc = "done"] = t
  BY <1>2
<1>5. g \in Handlers /\ g.at = job[r][1].at /\ g.pc = "done"
  <2>1. "done" \in PCs
    BY DEF PCs
  <2>2. QED
    BY <1>1, <2>1, HandlerAt
<1> HIDE DEF g
<1>6. t \in Seq(Handlers) /\ Len(t) = 1 /\ t[1] = g
  BY <1>2, <1>5, ReplaceFirst
<1> HIDE DEF t
<1>7. [t EXCEPT ![1].answer = "502"] = [t EXCEPT ![1] = h]
  BY <1>6
<1>8. h \in Handlers /\ h.at = g.at /\ h.pc = g.pc /\ h.answer = "502"
  <2>1. "502" \in Codes
    BY DEF Codes, Answers
  <2>2. QED
    BY <1>5, <2>1, HandlerAnswer
<1> HIDE DEF h
<1>9. [t EXCEPT ![1] = h] \in Seq(Handlers) /\ Len([t EXCEPT ![1] = h]) = 1
      /\ [t EXCEPT ![1] = h][1] = h
  BY <1>5, <1>6, <1>8, ReplaceFirst
<1>10. job' = [job EXCEPT ![r] = [t EXCEPT ![1] = h]]
  BY <1>3, <1>4, <1>7
<1>11. QED
  BY <1>5, <1>8, <1>9, <1>10 DEF TypeInv

\* Errors disturb every request.
LEMMA ErrorEffect ==
  ASSUME TypeInv, Error
  PROVE  SameRequests /\ \A q \in DOMAIN req' : ~req'[q].calm
  BY DisturbEffect DEF Error

\* The proxy fails.
LEMMA ProxyErrorInv ==
  ASSUME IInv, NEW r \in Requests, NEW i, ProxyError(r, i)
  PROVE  IInv'
<1>1. TypeInv /\ RequestInv(r)
  BY DEF IInv
<1>2. At(r, i, "proxy") /\ UNCHANGED <<raft, now, held, services, done, audit>>
  BY DEF ProxyError
<1>3. SameRequests /\ \A q \in DOMAIN req' : ~req'[q].calm
  BY <1>1, ErrorEffect DEF ProxyError
<1>4. CASE Answer(r, i, "502")
  <2>1. "502" \in Codes
    BY DEF Codes, Answers
  <2>2. QED
    BY <1>2, <1>3, <1>4, <2>1, ProxyAnswersInv
<1>5. CASE /\ At(r, i + 1, "auth")
           /\ job' = [job EXCEPT ![r] = [SubSeq(@, 1, i) EXCEPT ![i].pc = "done",
                                                                ![i].answer = "502"]]
  <2>1. /\ r \in DOMAIN req /\ i = 1 /\ Len(job[r]) = 2
        /\ Last(r) = job[r][2] /\ MayWrite(r)
        /\ (job[r][2].pc = "done") = (job[r][2].answer # None)
    BY <1>2, ProxyFacts
  <2>2. job[r][2].pc = "auth" /\ job[r][2].answer = None
    BY <1>5, <2>1 DEF At
  <2>3. /\ job' \in [Requests -> Seq(Handlers)]
        /\ Len(job'[r]) = 1
        /\ job'[r][1].at = job[r][1].at
        /\ job'[r][1].pc = "done"
        /\ job'[r][1].answer = "502"
        /\ \A q \in Requests : q # r => job'[q] = job[q]
    BY <1>1, <1>5, <2>1, CutEffect
  <2>4. DOMAIN job'[r] = {1} /\ Last(r)' = job'[r][1]
    BY <2>3 DEF Last
  <2>5. None # "502"
    BY ApiAssumption DEF Answers
  <2>6. Prompt => done'[r] = 0
    BY <1>1, <1>2, <2>1, <2>2 DEF RequestInv, Outcome
  <2>7. r \in DOMAIN req' /\ req'[r].sent = req[r].sent /\ ~req'[r].calm /\ MayWrite(r)'
    BY <1>3, <2>1 DEF SameRequests, MayWrite
  <2>8. Form(r)'
    BY <2>3, <2>4, <2>5, <2>7 DEF Form
  <2>9. Chain(r)'
    BY <2>3, <2>4 DEF Chain
  <2>10. Outcome(r)'
    BY <2>3, <2>4, <2>6 DEF Outcome
  <2>11. Allowed(r)'
    BY <1>1, <1>2, <2>1, <2>3, <2>4, <2>6, <2>7 DEF RequestInv, Allowed
  <2>12. Logged(r)'
    <3>1. Entry(None) = <<>> /\ Entry("502") = <<>>
      BY EntryOf, ApiAssumption DEF Answers
    <3>2. \A m \in Masters : audit'[m][r] = <<>>
      BY <1>1, <1>2, <2>1, <2>2, <3>1 DEF RequestInv, Logged
    <3>3. QED
      BY <2>3, <2>4, <3>1, <3>2 DEF Logged
  <2>13. Straight(r)'
    BY <2>7 DEF Straight
  <2>14. QED
    BY <1>2, <1>3, <2>1, <2>3, <2>8, <2>9, <2>10, <2>11, <2>12, <2>13, HandlersInv
<1>6. QED
  BY <1>4, <1>5 DEF ProxyError

\* createService and deleteService before their Raft write.
LEMMA RunInv ==
  ASSUME IInv, NEW r \in Requests, NEW i, Run(r, i)
  PROVE  IInv'
<1>1. TypeInv
  BY DEF IInv
<1>2. /\ Works(r, i) /\ job[r][i].pc = "run"
      /\ UNCHANGED <<raft, now, held, services, done, audit>> /\ UNCHANGED req
  BY DEF Run, At, Works, Undisturbed
<1>3. /\ r \in DOMAIN req /\ req[r] \in RequestRecords /\ i \in {1, 2} /\ i \in DOMAIN job[r]
      /\ job[r][i].answer = None /\ MayWrite(r)
      /\ req[r].calm => job[r][i].at = leader
  BY <1>2, WorkFacts
<1>4. SameRequests
  BY <1>1, <1>2, UndisturbedEffect
<1>5. None \notin Answers
  BY ApiAssumption
<1>6. req[r].op \in Ops
  BY <1>3 DEF RequestRecords
<1>7. ASSUME NEW code \in {"400", "404"}, Answer(r, i, code)
      PROVE  IInv'
  <2>1. code \in Codes /\ code # None
    BY <1>5 DEF Codes, Answers
  <2>2. Moves(r, i, "done", code)
    BY <1>1, <1>3, <1>7, <2>1, AnswerMoves
  <2>3. QED
    BY <1>2, <1>4, <2>1, <2>2, QuietInv
<1>8. ASSUME To(r, i, "apply"), req[r].op \in {"create", "delete"}
      PROVE  IInv'
  <2>1. Moves(r, i, "apply", None)
    BY <1>1, <1>3, <1>8, ToMoves DEF PCs
  <2>2. QED
    BY <1>2, <1>3, <1>4, <1>5, <1>8, <2>1, QuietInv DEF Answers
<1>9. CASE req[r].op = "invalid"
  <2>1. Answer(r, i, "400")
    BY <1>9 DEF Run
  <2>2. QED
    BY <1>7, <2>1
<1>10. CASE req[r].op = "create"
  <2>1. To(r, i, "apply")
    BY <1>10 DEF Run
  <2>2. QED
    BY <1>8, <1>10, <2>1
<1>11. CASE req[r].op = "delete"
  <2>1. To(r, i, "apply") \/ Answer(r, i, "404")
    BY <1>11 DEF Run
  <2>2. QED
    BY <1>7, <1>8, <1>11, <2>1
<1>12. QED
  BY <1>6, <1>9, <1>10, <1>11 DEF Ops

\* Apply, where its entry is committed, whether it returns an error or not.
LEMMA CommittedEffect ==
  ASSUME TypeInv, NEW r \in Requests, Committed(r)
  PROVE  /\ services' \subseteq services \cup {r}
         /\ done' \in [Requests -> Nat]
         /\ done'[r] = done[r] + 1
         /\ \A q \in Requests : q # r => done'[q] = done[q]
  BY DEF TypeInv, Committed

\* What a failed write leads to, committed or not.
LEMMA FailedInv ==
  ASSUME IInv, NEW r \in Requests, NEW i, At(r, i, "apply"), Failed(r, i), SameRequests,
         UNCHANGED <<raft, now, held, audit>>,
         ~req'[r].calm,
         UNCHANGED <<services, done>> \/ (~Prompt /\ Committed(r))
  PROVE  IInv'
<1>1. TypeInv
  BY DEF IInv
<1>2. Works(r, i) /\ job[r][i].pc = "apply"
  BY DEF At, Works
<1>3. /\ r \in DOMAIN req /\ i \in {1, 2} /\ i \in DOMAIN job[r]
      /\ job[r][i].answer = None /\ MayWrite(r)
      /\ req[r].op \in {"create", "delete"}
      /\ \A m \in Masters : audit[m][r] = <<>>
      /\ Prompt => done[r] = 0
  BY <1>2, WorkFacts
<1>4. /\ services' \subseteq services \cup {r}
      /\ done' \in [Requests -> Nat]
      /\ Prompt => done'[r] = done[r]
      /\ \A q \in Requests : q # r => done'[q] = done[q]
  BY <1>1, CommittedEffect DEF TypeInv
<1>5. /\ audit' \in [Masters -> [Requests \cup Clients -> Seq(Events)]]
      /\ \A q \in Requests : \A m \in Masters : audit'[m][q] = audit[m][q]
  BY <1>1 DEF TypeInv
<1>6. None \notin Answers
  BY ApiAssumption
<1>7. Entry(None) = <<>> /\ Entry("503") = <<>>
  BY <1>6, EntryOf DEF Answers
<1>8. CASE req[r].op = "create"
  <2>1. Moves(r, i, "done", "503")
    BY <1>1, <1>3, <1>8, AnswerMoves DEF Failed, Codes, Answers
  <2>2. Fits(r, i, "done", "503")
    BY <1>3, <1>4, <1>6, <1>7 DEF Fits, Answers
  <2>3. QED
    BY <1>2, <1>4, <1>5, <2>1, <2>2, ServeInv
<1>9. CASE req[r].op # "create"
  <2>1. Moves(r, i, "audit", None)
    BY <1>1, <1>3, <1>9, ToMoves DEF Failed, PCs
  <2>2. Fits(r, i, "audit", None)
    BY <1>3, <1>4, <1>6, <1>7, <1>9 DEF Fits, Answers
  <2>3. QED
    BY <1>2, <1>4, <1>5, <2>1, <2>2, ServeInv
<1>10. QED
  BY <1>8, <1>9

\* The Raft write of createService or deleteService.
LEMMA ApplyInv ==
  ASSUME IInv, NEW r \in Requests, NEW i, Apply(r, i)
  PROVE  IInv'
<1>1. TypeInv
  BY DEF IInv
<1>2. /\ At(r, i, "apply") /\ Works(r, i) /\ job[r][i].pc = "apply"
      /\ UNCHANGED <<raft, now, held, audit>>
  BY DEF Apply, At, Works
<1>3. /\ r \in DOMAIN req /\ i \in {1, 2} /\ i \in DOMAIN job[r]
      /\ job[r][i].answer = None /\ MayWrite(r)
      /\ req[r].op \in {"create", "delete"}
      /\ \A m \in Masters : audit[m][r] = <<>>
      /\ Prompt => done[r] = 0
      /\ req[r].calm => job[r][i].at = leader
  BY <1>2, WorkFacts
<1>4. CASE job[r][i].at = leader /\ Committed(r) /\ To(r, i, "audit") /\ Undisturbed
  <2>1. SameRequests /\ UNCHANGED req
    BY <1>1, <1>4, UndisturbedEffect DEF Undisturbed
  <2>2. Moves(r, i, "audit", None)
    BY <1>1, <1>3, <1>4, ToMoves DEF PCs
  <2>3. /\ services' \subseteq services \cup {r}
        /\ done' \in [Requests -> Nat]
        /\ done'[r] = done[r] + 1
        /\ \A q \in Requests : q # r => done'[q] = done[q]
    BY <1>1, <1>4, CommittedEffect
  <2>4. None \notin Answers
    BY ApiAssumption
  <2>5. Entry(None) = <<>>
    BY <2>4, EntryOf DEF Answers
  <2>6. Fits(r, i, "audit", None)
    BY <1>2, <1>3, <2>3, <2>4, <2>5 DEF Fits, Answers, raft
  <2>7. /\ audit' \in [Masters -> [Requests \cup Clients -> Seq(Events)]]
        /\ \A q \in Requests : \A m \in Masters : audit'[m][q] = audit[m][q]
    BY <1>1, <1>2 DEF TypeInv
  <2>8. QED
    BY <1>2, <2>1, <2>2, <2>3, <2>6, <2>7, ServeInv
<1>5. CASE job[r][i].at # leader /\ Failed(r, i) /\ UNCHANGED <<services, done>> /\ Undisturbed
  <2>1. SameRequests /\ ~req'[r].calm
    BY <1>1, <1>3, <1>5, UndisturbedEffect DEF Undisturbed
  <2>2. QED
    BY <1>2, <1>5, <2>1, FailedInv
<1>6. CASE /\ Failed(r, i)
           /\ Error
           /\ UNCHANGED <<services, done>> \/ ("late" \in Faults /\ Committed(r))
  <2>1. SameRequests /\ ~req'[r].calm
    BY <1>1, <1>3, <1>6, ErrorEffect DEF SameRequests
  <2>2. UNCHANGED <<services, done>> \/ (~Prompt /\ Committed(r))
    BY <1>6 DEF Prompt
  <2>3. QED
    BY <1>2, <1>6, <2>1, <2>2, FailedInv
<1>7. QED
  BY <1>4, <1>5, <1>6 DEF Apply

\* A handler that logs what it has done and answers.
LEMMA FinishInv ==
  ASSUME IInv, NEW r \in Requests, NEW i, Finish(r, i)
  PROVE  IInv'
<1>1. TypeInv
  BY DEF IInv
<1>2. /\ Works(r, i) /\ job[r][i].pc = "audit"
      /\ UNCHANGED <<raft, now, held, services, done>> /\ UNCHANGED req
  BY DEF Finish, At, Works, Undisturbed
<1>3. /\ r \in DOMAIN req /\ i \in {1, 2} /\ i \in DOMAIN job[r]
      /\ MayWrite(r)
      /\ \A m \in Masters : audit[m][r] = <<>>
      /\ Prompt => done[r] <= 1 /\ (req[r].op = "create" => done[r] = 1)
  BY <1>2, WorkFacts
<1>4. SameRequests
  BY <1>1, <1>2, UndisturbedEffect
<1>5. done' \in [Requests -> Nat]
  BY <1>1, <1>2 DEF TypeInv
<1>6. None \notin Answers
  BY ApiAssumption
<1>7. ASSUME NEW event \in Events, Log(job[r][i].at, r, event), NEW code \in {"200", "201"},
             Answer(r, i, code), Entry(code) = <<event>>, (code = "201") <=> req[r].op = "create"
      PROVE  IInv'
  <2>1. code \in Codes /\ code # None
    BY <1>6 DEF Codes, Answers
  <2>2. Moves(r, i, "done", code)
    BY <1>1, <1>3, <1>7, <2>1, AnswerMoves
  <2>3. /\ audit' \in [Masters -> [Requests \cup Clients -> Seq(Events)]]
        /\ \A m \in Masters : audit'[m][r] = IF m = job[r][i].at THEN <<event>> ELSE <<>>
        /\ \A q \in Requests : q # r => \A m \in Masters : audit'[m][q] = audit[m][q]
    BY <1>1, <1>3, <1>7, LogFirst
  <2>4. Fits(r, i, "done", code)
    BY <1>2, <1>3, <1>7, <2>1, <2>3 DEF Fits, raft
  <2>5. QED
    BY <1>2, <1>4, <1>5, <2>2, <2>3, <2>4, ServeInv
<1>8. CASE req[r].op = "create"
  <2>1. Log(job[r][i].at, r, "SERVICE_CREATE") /\ Answer(r, i, "201")
    BY <1>8 DEF Finish
  <2>2. "SERVICE_CREATE" \in Events /\ Entry("201") = <<"SERVICE_CREATE">>
    BY EntryOf DEF Events
  <2>3. QED
    BY <1>7, <1>8, <2>1, <2>2
<1>9. CASE req[r].op # "create"
  <2>1. Log(job[r][i].at, r, "SERVICE_DELETE") /\ Answer(r, i, "200")
    BY <1>9 DEF Finish
  <2>2. "SERVICE_DELETE" \in Events /\ Entry("200") = <<"SERVICE_DELETE">>
    BY EntryOf DEF Events
  <2>3. QED
    BY <1>7, <1>9, <2>1, <2>2
<1>10. QED
  BY <1>8, <1>9

-----------------------------------------------------------------------------
(* Clients, Raft and the clock. *)

\* A step that no request takes part in, but that may disturb all of them.
LEMMA OutsideInv ==
  ASSUME IInv, TypeInv', SameRequests, UNCHANGED <<job, done>>, now <= now',
         \A q \in Requests, m \in Masters : audit'[m][q] = audit[m][q],
         UNCHANGED raft \/ \A q \in DOMAIN req' : ~req'[q].calm
  PROVE  IInv'
<1>1. now \in Nat /\ now' \in Nat
  BY ApiAssumption DEF IInv, TypeInv
<1>2. ASSUME NEW q \in Requests
      PROVE  RequestInv(q)'
  <2>1. Kept(q) /\ RequestInv(q) /\ TypeInv
    BY DEF Kept, IInv
  <2>2. q \in DOMAIN req /\ req'[q].calm => UNCHANGED raft
    BY DEF SameRequests
  <2>3. QED
    BY <1>1, <2>1, <2>2, KeptInv
<1>3. QED
  BY <1>2 DEF IInv

\* Elections and what masters hear of them.
LEMMA RaftInv ==
  ASSUME IInv, NEW m \in Masters, Elect(m) \/ Learn(m) \/ StepDown(m)
  PROVE  IInv'
<1>1. TypeInv
  BY DEF IInv
<1>2. Disturb /\ UNCHANGED <<now, held, job, services, done, audit>>
  BY DEF Elect, Learn, StepDown
<1>3. SameRequests /\ \A q \in DOMAIN req' : ~req'[q].calm
  BY <1>1, <1>2, DisturbEffect
<1>4. leader' \in Masters \cup {None} /\ knows' \in [Masters -> Masters \cup {None}]
  <2>1. CASE Elect(m)
    BY <1>1, <2>1 DEF TypeInv, Elect
  <2>2. CASE Learn(m)
    <3>1. PICK l \in {leader, None} : knows' = [knows EXCEPT ![m] = l]
      BY <2>2 DEF Learn
    <3>2. QED
      BY <1>1, <2>2, <3>1 DEF TypeInv, Learn
  <2>3. CASE StepDown(m)
    BY <1>1, <2>3 DEF TypeInv, StepDown
  <2>4. QED
    BY <2>1, <2>2, <2>3
<1>5. TypeInv'
  BY <1>1, <1>2, <1>3, <1>4 DEF TypeInv, SameRequests
<1>6. now <= now'
  BY <1>1, <1>2, ApiAssumption DEF TypeInv
<1>7. QED
  BY <1>2, <1>3, <1>5, <1>6, OutsideInv

\* Time passes.
LEMMA TickInv ==
  ASSUME IInv, Tick
  PROVE  IInv'
<1>1. TypeInv
  BY DEF IInv
<1>2. SameRequests
  BY <1>1, UndisturbedEffect DEF Tick
<1>3. now' \in 0..MaxTime /\ now <= now'
  <2>1. MaxTime \in Nat /\ now \in 0..MaxTime /\ now < MaxTime /\ now' = now + 1
    BY <1>1, ApiAssumption DEF TypeInv, Tick
  <2>2. QED
    BY <2>1
<1>4. TypeInv'
  BY <1>1, <1>3 DEF TypeInv, Tick
<1>5. QED
  BY <1>2, <1>3, <1>4, OutsideInv DEF Tick, raft

\* New tokens, at a login or for a refresh token.
LEMMA TokensInv ==
  ASSUME IInv, NEW c \in Clients, (\E m \in Masters : Login(c, m)) \/ Refresh(c)
  PROVE  IInv'
<1>1. TypeInv
  BY DEF IInv
<1>2. UNCHANGED <<leader, knows, now, req, job, services, done>>
      /\ held' = [held EXCEPT ![c] = GenerateTokenPair]
  BY DEF Login, Refresh
<1>3. held' \in [Clients -> [access : Nat, refresh : Nat]]
  <2>1. GenerateTokenPair \in [access : Nat, refresh : Nat]
    BY <1>1, ApiAssumption DEF GenerateTokenPair, TypeInv
  <2>2. QED
    BY <1>1, <1>2, <2>1 DEF TypeInv
<1>4. /\ audit' \in [Masters -> [Requests \cup Clients -> Seq(Events)]]
      /\ \A q \in Requests, m \in Masters : audit'[m][q] = audit[m][q]
  <2>1. CASE Refresh(c)
    BY <1>1, <2>1 DEF Refresh, TypeInv
  <2>2. CASE \E m \in Masters : Login(c, m)
    <3>1. PICK m \in Masters : Log(m, c, "LOGIN")
      BY <2>2 DEF Login
    <3>2. "LOGIN" \in Events /\ c \in Requests \cup Clients /\ c \notin Requests
      BY ApiAssumption DEF Events
    <3>3. audit' \in [Masters -> [Requests \cup Clients -> Seq(Events)]]
      BY <1>1, <3>1, <3>2, LogEffect
    <3>4. \A n \in Masters, y \in Requests \cup Clients :
            n # m \/ y # c => audit'[n][y] = audit[n][y]
      BY <1>1, <3>1, <3>2, LogEffect
    <3>5. QED
      BY <3>2, <3>3, <3>4
  <2>3. QED
    BY <2>1, <2>2
<1>5. SameRequests
  BY <1>1, <1>2, UndisturbedEffect
<1>6. TypeInv'
  BY <1>1, <1>2, <1>3, <1>4 DEF TypeInv
<1>7. now <= now'
  BY <1>1, <1>2, ApiAssumption DEF TypeInv
<1>8. QED
  BY <1>2, <1>4, <1>5, <1>6, <1>7, OutsideInv DEF raft

\* The record and the handler of a request that is sent.
LEMMA SendEffect ==
  ASSUME TypeInv, NEW c \in Clients, NEW m \in Masters, NEW op \in Ops,
         NEW type \in {"access", "refresh"}, Send(c, m, op, type)
  PROVE  LET r == Len(req) + 1 IN
         /\ r \in Requests /\ DOMAIN req = 1..Len(req)
         /\ req' \in Seq(RequestRecords) /\ Len(req') = r /\ DOMAIN req' = 1..r
         /\ \A q \in DOMAIN req : req'[q] = req[q]
         /\ req'[r].sent = now /\ (req'[r].calm => Calm)
         /\ job' \in [Requests -> Seq(Handlers)]
         /\ job'[r] = <<Handler(m)>> /\ Handler(m) \in Handlers
         /\ \A q \in Requests : q # r => job'[q] = job[q]
<1> DEFINE r == Len(req) + 1
           Targets == IF op = "delete" THEN {Old} \cup DOMAIN req ELSE {r}
           New(target) == [client |-> c, op |-> op, target |-> target, sent |-> now, calm |-> Calm,
                           token |-> [type |-> type, exp |-> held[c][type]]]
<1>1. req \in Seq(RequestRecords) /\ DOMAIN req = 1..Len(req) /\ Len(req) \in Nat
      /\ MaxRequests \in Nat /\ Len(req) < MaxRequests /\ r \in Requests
  BY ApiAssumption DEF TypeInv, Send, Requests
<1>2. Targets \subseteq {Old} \cup Requests
  BY <1>1 DEF Requests
<1>3. PICK target \in Targets : req' = Append(req, New(target))
  BY DEF Send
<1>4. New(target) \in RequestRecords
  <2>1. target \in {Old} \cup Requests
    BY <1>2
  <2>2. now \in Nat /\ Calm \in BOOLEAN
    BY ApiAssumption DEF TypeInv, Calm
  <2>3. [type |-> type, exp |-> held[c][type]] \in Tokens
    <3>1. held[c] \in [access : Nat, refresh : Nat]
      BY DEF TypeInv
    <3>2. held[c][type] \in Nat
      BY <3>1
    <3>3. QED
      BY <3>2 DEF Tokens
  <2>4. QED
    BY <2>1, <2>2, <2>3 DEF RequestRecords
<1>5. New(target).sent = now /\ New(target).calm = Calm
  OBVIOUS
<1>6. Handler(m) \in Handlers
  BY DEF Handler, Handlers, PCs, Codes
<1>7. job' = [job EXCEPT ![r] = <<Handler(m)>>]
  BY DEF Send
<1> HIDE DEF New, Targets
<1>8. /\ req' \in Seq(RequestRecords) /\ Len(req') = Len(req) + 1
      /\ \A q \in 1..Len(req) : req'[q] = req[q]
      /\ req'[Len(req) + 1] = New(target)
  BY <1>1, <1>3, <1>4, AppendProperties
<1>9. DOMAIN req' = 1..r
  BY <1>8
<1>10. <<Handler(m)>> \in Seq(Handlers)
  BY <1>6
<1>11. /\ job' \in [Requests -> Seq(Handlers)]
       /\ job'[r] = <<Handler(m)>>
       /\ \A q \in Requests : q # r => job'[q] = job[q]
  BY <1>1, <1>7, <1>10 DEF TypeInv
<1>12. QED
  BY <1>1, <1>5, <1>6, <1>8, <1>9, <1>11

\* A client sends a request.
LEMMA SendInv ==
  ASSUME IInv, NEW c \in Clients, NEW m \in Masters, NEW op \in Ops,
         NEW type \in {"access", "refresh"}, Send(c, m, op, type)
  PROVE  IInv'
<1>1. TypeInv
  BY DEF IInv
<1>0. PICK r \in Requests : r = Len(req) + 1
  BY <1>1, SendEffect
<1>2. /\ DOMAIN req = 1..Len(req)
      /\ req' \in Seq(RequestRecords) /\ Len(req') = r /\ DOMAIN req' = 1..r
      /\ \A q \in DOMAIN req : req'[q] = req[q]
      /\ req'[r].sent = now /\ (req'[r].calm => Calm)
      /\ job' \in [Requests -> Seq(Handlers)]
      /\ job'[r] = <<Handler(m)>> /\ Handler(m) \in Handlers
      /\ \A q \in Requests : q # r => job'[q] = job[q]
  BY <1>0, <1>1, SendEffect
<1>3. Len(req) \in Nat /\ now \in Nat /\ MaxRequests \in Nat
  BY <1>1, ApiAssumption DEF TypeInv
<1>4. UNCHANGED <<leader, knows, now, held, services, done, audit>>
  BY DEF Send
<1>5. TypeInv'
  <2>1. Len(req') <= MaxRequests /\ DOMAIN req \subseteq DOMAIN req'
    BY <1>0, <1>2, <1>3 DEF Requests
  <2>2. QED
    BY <1>1, <1>2, <1>4, <2>1 DEF TypeInv
<1>6. r \notin DOMAIN req
  BY <1>0, <1>2, <1>3
<1>7. \A q \in Requests : q # r => ((q \in DOMAIN req') <=> (q \in DOMAIN req))
  BY <1>0, <1>2, <1>3 DEF Requests
<1>8. ASSUME NEW q \in Requests, q # r
      PROVE  RequestInv(q)'
  <2>1. RequestInv(q) /\ job'[q] = job[q] /\ (q \in DOMAIN req => req'[q] = req[q])
    BY <1>2, <1>8 DEF IInv
  <2>2. (q \in DOMAIN req') <=> (q \in DOMAIN req)
    BY <1>7, <1>8
  <2>3. Form(q)' /\ Chain(q)'
    BY <1>4, <2>1, <2>2 DEF RequestInv, Form, Chain
  <2>4. Outcome(q)' /\ Logged(q)'
    BY <1>4, <2>1, <2>2 DEF RequestInv, Outcome, Logged, Last
  <2>5. Allowed(q)'
    BY <1>4, <2>1, <2>2 DEF RequestInv, Allowed, MayWrite
  <2>6. Straight(q)'
    BY <1>4, <2>1, <2>2 DEF RequestInv, Straight, Calm
  <2>7. QED
    BY <2>3, <2>4, <2>5, <2>6 DEF RequestInv
<1>9. RequestInv(r)'
  <2>1. Form(r) /\ r \in DOMAIN req'
    BY <1>0, <1>2, <1>3 DEF IInv, RequestInv
  <2>2. /\ Len(job'[r]) = 1 /\ DOMAIN job'[r] = {1} /\ Last(r)' = job'[r][1]
        /\ job'[r][1].at = m /\ job'[r][1].pc = "auth" /\ job'[r][1].answer = None
    BY <1>2 DEF Handler, Last
  <2>3. done'[r] = 0 /\ \A n \in Masters : audit'[n][r] = <<>>
    BY <1>4, <1>6, <2>1 DEF Form
  <2>4. None \notin Answers
    BY ApiAssumption
  <2>5. Entry(None) = <<>>
    BY <2>4, EntryOf DEF Answers
  <2>6. Form(r)' /\ Chain(r)'
    BY <2>1, <2>2 DEF Form, Chain
  <2>7. Outcome(r)'
    BY <2>1, <2>2, <2>3, <2>4 DEF Outcome, Answers
  <2>8. Allowed(r)'
    <3>1. req'[r].sent <= now'
      BY <1>2, <1>3, <1>4
    <3>2. QED
      BY <2>1, <2>2, <2>3, <3>1 DEF Allowed
  <2>9. Logged(r)'
    BY <2>1, <2>2, <2>3, <2>5 DEF Logged
  <2>10. Straight(r)'
    BY <1>2, <1>4, <2>1, <2>2, <2>4 DEF Straight, Calm, Answers
  <2>11. QED
    BY <2>6, <2>7, <2>8, <2>9, <2>10 DEF RequestInv
<1>10. QED
  BY <1>5, <1>8, <1>9 DEF IInv

-----------------------------------------------------------------------------
(* The invariant of the system. *)

\* It holds at the start: nothing has been sent.
LEMMA InitInv == Init => IInv
<1> SUFFICES ASSUME Init PROVE IInv
  OBVIOUS
<1>1. MaxTime \in Nat /\ MaxRequests \in Nat
  BY ApiAssumption
<1>2. /\ leader = None /\ now = 0 /\ req = <<>> /\ services = {Old}
      /\ knows = [m \in Masters |-> None]
      /\ held = [c \in Clients |-> [access |-> 0, refresh |-> 0]]
      /\ job = [r \in Requests |-> <<>>]
      /\ done = [r \in Requests |-> 0]
      /\ audit = [m \in Masters |-> [x \in Requests \cup Clients |-> <<>>]]
  BY DEF Init
<1>3. DOMAIN req = {} /\ req \in Seq(RequestRecords) /\ Len(req) = 0
  BY <1>2
<1>4. audit \in [Masters -> [Requests \cup Clients -> Seq(Events)]]
  <2>1. [x \in Requests \cup Clients |-> <<>>] \in [Requests \cup Clients -> Seq(Events)]
    OBVIOUS
  <2>2. QED
    BY <1>2, <2>1
<1>5. job \in [Requests -> Seq(Handlers)] /\ done \in [Requests -> Nat]
  BY <1>2
<1>6. TypeInv
  BY <1>1, <1>2, <1>3, <1>4, <1>5 DEF TypeInv
<1>7. ASSUME NEW r \in Requests
      PROVE  RequestInv(r)
  <2>1. /\ r \notin DOMAIN req /\ job[r] = <<>> /\ done[r] = 0
        /\ \A m \in Masters : audit[m][r] = <<>>
    BY <1>2, <1>3
  <2>2. Len(job[r]) = 0 /\ DOMAIN job[r] = {}
    BY <2>1
  <2>3. QED
    BY <2>1, <2>2 DEF RequestInv, Form, Chain, Outcome, Allowed, Logged, Straight
<1>8. QED
  BY <1>6, <1>7 DEF IInv

\* Every step keeps it.
LEMMA NextInv == IInv /\ [Next]_vars => IInv'
<1> SUFFICES ASSUME IInv, [Next]_vars PROVE IInv'
  OBVIOUS
<1>1. ASSUME NEW m \in Masters, Elect(m) \/ Learn(m) \/ StepDown(m)
      PROVE  IInv'
  BY <1>1, RaftInv
<1>2. CASE Tick
  BY <1>2, TickInv
<1>3. ASSUME NEW c \in Clients, (\E m \in Masters : Login(c, m)) \/ Refresh(c)
      PROVE  IInv'
  BY <1>3, TokensInv
<1>4. ASSUME NEW c \in Clients, NEW m \in Masters, NEW op \in Ops,
             NEW type \in {"access", "refresh"}, Send(c, m, op, type)
      PROVE  IInv'
  BY <1>4, SendInv
<1>5. ASSUME NEW r \in Requests, Serve(r)
      PROVE  IInv'
  <2>1. PICK i \in DOMAIN job[r] : \/ Auth(r, i) \/ CheckLeader(r, i) \/ Forward(r, i)
                                   \/ Relay(r, i) \/ Run(r, i) \/ Apply(r, i) \/ Finish(r, i)
    BY <1>5 DEF Serve
  <2>2. QED
    BY <2>1, AuthInv, CheckLeaderInv, ForwardInv, RelayInv, RunInv, ApplyInv, FinishInv
<1>6. ASSUME NEW r \in Requests, NEW i \in DOMAIN job[r], ProxyError(r, i)
      PROVE  IInv'
  BY <1>6, ProxyErrorInv
<1>7. CASE UNCHANGED vars
  <2>1. TypeInv
    BY DEF IInv
  <2>2. TypeInv'
    BY <1>7, <2>1 DEF vars, raft, TypeInv
  <2>3. SameRequests
    BY <1>7, <2>1, UndisturbedEffect DEF vars
  <2>4. now <= now'
    BY <1>7, <2>1, ApiAssumption DEF vars, TypeInv
  <2>5. QED
    BY <1>7, <2>2, <2>3, <2>4, OutsideInv DEF vars, raft
<1>8. QED
  BY <1>1, <1>2, <1>3, <1>4, <1>5, <1>6, <1>7 DEF Next, Raft, Users

\* The inductive invariant holds in every state.
LEMMA IInvHolds == Spec => []IInv
  BY InitInv, NextInv, PTL DEF Spec

-----------------------------------------------------------------------------
(* Theorems. *)

\* The types and forms of requests, handlers, tokens and the audit log (server.go).
THEOREM TypeCorrect == Spec => []TypeOK
<1>1. IInv => TypeOK
  <2> SUFFICES ASSUME IInv PROVE TypeOK
    OBVIOUS
  <2>1. TypeInv /\ \A r \in Requests : Form(r)
    BY DEF IInv, RequestInv
  <2>2. ASSUME NEW r \in DOMAIN req
        PROVE  req[r] \in [client : Clients, op : Ops, target : {Old} \cup Requests, sent : Nat,
                           calm : BOOLEAN, token : [type : {"access", "refresh"}, exp : Nat]]
    <3>1. req[r] \in RequestRecords
      BY <2>1 DEF TypeInv
    <3>2. QED
      BY <3>1 DEF RequestRecords, Tokens
  <2>3. ASSUME NEW r \in Requests, NEW i \in DOMAIN job[r]
        PROVE  /\ job[r][i] \in [at : Masters, pc : PCs, answer : Codes]
               /\ (job[r][i].pc = "done") = (job[r][i].answer # None)
    <3>1. job[r][i] \in Handlers
      BY <2>1 DEF TypeInv
    <3>2. QED
      BY <2>1, <3>1 DEF Form, Handlers
  <2>4. /\ \A c \in Clients : held[c] \in [access : Nat, refresh : Nat]
        /\ \A m \in Masters : \A x \in Requests \cup Clients : audit[m][x] \in Seq(Events)
    BY <2>1 DEF TypeInv
  <2>5. QED
    BY <2>1, <2>2, <2>3, <2>4 DEF TypeInv, TypeOK
<1>2. QED
  BY <1>1, IInvHolds, PTL

\* The header X-Forwarded-By-Leader stops a request that a former leader would pass on again
\* (leaderForward).
THEOREM ForwardsOnce == Spec => []ForwardedOnce
<1>1. IInv => ForwardedOnce
  <2> SUFFICES ASSUME IInv, NEW r \in Requests PROVE Len(job[r]) <= 2
    BY DEF ForwardedOnce
  <2>1. Form(r)
    BY DEF IInv, RequestInv
  <2>2. CASE r \in DOMAIN req
    <3>1. Len(job[r]) = 1 \/ Len(job[r]) = 2
      BY <2>1, <2>2 DEF Form
    <3>2. 1 <= 2 /\ 2 <= 2
      OBVIOUS
    <3>3. QED
      BY <3>1, <3>2, Zenon
  <2>3. CASE r \notin DOMAIN req
    <3>1. Len(job[r]) = 0
      BY <2>1, <2>3 DEF Form
    <3>2. QED
      BY <3>1
  <2>4. QED
    BY <2>2, <2>3
<1>2. QED
  BY <1>1, IInvHolds, PTL

\* No write is committed for a user whose role or whose token does not allow it, wherever the
\* request went and whatever expired meanwhile (auth, ValidateAccessToken, CheckPermission).
THEOREM WritesPermitted == Spec => []OnlyPermitted
<1>1. IInv => OnlyPermitted
  <2> SUFFICES ASSUME IInv, NEW r \in DOMAIN req, done[r] > 0 PROVE MayWrite(r)
    BY DEF OnlyPermitted, MayWrite
  <2>1. r \in Requests
    BY ApiAssumption DEF IInv, TypeInv, Requests
  <2>2. QED
    BY <2>1 DEF IInv, RequestInv, Allowed
<1>2. QED
  BY <1>1, IInvHolds, PTL

\* An undisturbed request is refused with 503 or 502 only if the leader's address is not known
\* (leaderForward, -peers-api).
THEOREM RefusalsJustified == Spec => []RefusedInTransitionOnly
<1>1. IInv => RefusedInTransitionOnly
  <2> SUFFICES ASSUME IInv, NEW r \in DOMAIN req, Got(r) \in {"502", "503"}, req[r].calm
               PROVE  leader \notin Listed
    BY DEF RefusedInTransitionOnly
  <2>1. r \in Requests
    BY ApiAssumption DEF IInv, TypeInv, Requests
  <2>2. Form(r) /\ Straight(r) /\ job[r] \in Seq(Handlers)
    BY <2>1 DEF IInv, RequestInv, TypeInv
  <2>3. 1 \in DOMAIN job[r] /\ Got(r) = job[r][1].answer
    BY <2>2 DEF Form, Got
  <2>4. QED
    BY <2>2, <2>3 DEF Straight
<1>2. QED
  BY <1>1, IInvHolds, PTL

\* Unless an entry commits after its Apply has failed, the answer a client gets tells whether
\* its write was committed, and none is committed twice (createService, leaderForward).
THEOREM AnswersTrue ==
  ASSUME "late" \notin Faults
  PROVE  Spec => []AnswersTellTruth
<1>1. IInv => AnswersTellTruth
  <2> SUFFICES ASSUME IInv, NEW r \in DOMAIN req
               PROVE  /\ done[r] <= 1
                      /\ Got(r) = "201" => done[r] = 1
                      /\ Got(r) \in Answers \ {"200", "201", "502"} => done[r] = 0
    BY DEF AnswersTellTruth
  <2>1. r \in Requests
    BY ApiAssumption DEF IInv, TypeInv, Requests
  <2>2. Form(r) /\ Chain(r) /\ Outcome(r) /\ job[r] \in Seq(Handlers) /\ Prompt
    BY <2>1 DEF IInv, RequestInv, TypeInv, Prompt
  <2>3. Len(job[r]) \in {1, 2} /\ Got(r) = job[r][1].answer
    BY <2>2 DEF Form, Got
  <2>4. Got(r) \in {None, "502"} \/ Got(r) = Last(r).answer
    BY <2>2, <2>3 DEF Chain, Last
  <2>5. None \notin Answers
    BY ApiAssumption
  <2>6. QED
    BY <2>2, <2>4, <2>5 DEF Outcome, Answers
<1>2. QED
  BY <1>1, IInvHolds, PTL

\* The audit logs of all masters together hold one entry for every service created, once its
\* handler is through, and one for every request denied (audit.Log).
THEOREM AuditComplete ==
  ASSUME "late" \notin Faults
  PROVE  Spec => []AuditMatches
<1>1. ASSUME IInv, NEW r \in DOMAIN req
      PROVE  LET at(pc) == {i \in DOMAIN job[r] : job[r][i].pc = pc}
                 denied == {i \in DOMAIN job[r] : job[r][i].answer = "403"}
             IN  /\ req[r].op = "create" =>
                      Cardinality(Entries(r, "SERVICE_CREATE")) + Cardinality(at("audit")) = done[r]
                 /\ Cardinality(Entries(r, "AUTH_DENIED")) = Cardinality(denied)
  <2> DEFINE n == Len(job[r])
             h == Last(r)
  <2>1. r \in Requests
    BY <1>1, ApiAssumption DEF IInv, TypeInv, Requests
  <2>2. Form(r) /\ Chain(r) /\ Outcome(r) /\ Allowed(r) /\ Logged(r) /\ Prompt
    BY <1>1, <2>1 DEF IInv, RequestInv, Prompt
  <2>3. job[r] \in Seq(Handlers) /\ done[r] \in Nat
    BY <1>1, <2>1 DEF IInv, TypeInv
  <2>4. n \in {1, 2} /\ DOMAIN job[r] = 1..n /\ h = job[r][n] /\ h \in Handlers
    <3>1. n \in {1, 2}
      BY <1>1, <2>2 DEF Form
    <3>2. DOMAIN job[r] = 1..n /\ n \in DOMAIN job[r]
      BY <2>3, <3>1
    <3>3. QED
      BY <2>3, <3>1, <3>2 DEF Last
  <2>5. (h.pc = "done") = (h.answer # None)
    BY <2>2, <2>4 DEF Form
  <2>6. None \notin Answers
    BY ApiAssumption
  <2>7. ASSUME NEW event \in Events
        PROVE  Entries(r, event) = IF Entry(h.answer) = <<event>> THEN {<<h.at, 1>>} ELSE {}
    <3>1. \A m \in Masters : audit[m][r] = IF m = h.at THEN Entry(h.answer) ELSE <<>>
      BY <1>1, <2>2 DEF Logged
    <3>2. \/ Entry(h.answer) = <<>>
          \/ \E e \in Events : Entry(h.answer) = <<e>>
      BY EntryOf DEF Events
    <3>3. h.at \in Masters
      BY <2>4 DEF Handlers
    <3>4. ASSUME NEW m \in Masters, NEW k \in 1..2
          PROVE  (k \in DOMAIN audit[m][r] /\ audit[m][r][k] = event)
                   <=> (m = h.at /\ k = 1 /\ Entry(h.answer) = <<event>>)
      <4> HIDE DEF h
      <4>1. CASE m # h.at \/ Entry(h.answer) = <<>>
        BY <3>1, <4>1
      <4>2. CASE m = h.at /\ \E e \in Events : Entry(h.answer) = <<e>>
        <5>1. PICK e \in Events : Entry(h.answer) = <<e>>
          BY <4>2
        <5>2. audit[m][r] = <<e>>
          BY <3>1, <4>2, <5>1
        <5>3. QED
          BY <4>2, <5>1, <5>2
      <4>3. QED
        BY <3>2, <4>1, <4>2
    <3> HIDE DEF h
    <3>5. ASSUME NEW x \in Masters \X (1..2)
          PROVE  (x[2] \in DOMAIN audit[x[1]][r] /\ audit[x[1]][r][x[2]] = event)
                   <=> (x = <<h.at, 1>> /\ Entry(h.answer) = <<event>>)
      <4>1. x[1] \in Masters /\ x[2] \in 1..2 /\ x = <<x[1], x[2]>>
        OBVIOUS
      <4>2. QED
        BY <3>4, <4>1
    <3>6. <<h.at, 1>> \in Masters \X (1..2)
      BY <3>3
    <3>7. QED
      BY <3>5, <3>6 DEF Entries
  <2> DEFINE at(pc) == {i \in DOMAIN job[r] : job[r][i].pc = pc}
             denied == {i \in DOMAIN job[r] : job[r][i].answer = "403"}
  <2>8. at("audit") = IF h.pc = "audit" THEN {n} ELSE {}
    <3>1. CASE n = 1
      BY <2>4, <3>1
    <3>2. CASE n = 2
      BY <2>2, <2>4, <3>2 DEF Chain
    <3>3. QED
      BY <2>4, <3>1, <3>2
  <2>9. denied = IF h.answer = "403" THEN {n} ELSE {}
    <3>1. CASE n = 1
      BY <2>4, <3>1
    <3>2. CASE n = 2
      BY <1>1, <2>2, <2>4, <2>6, <3>2 DEF Chain, Allowed, Answers
    <3>3. QED
      BY <2>4, <3>1, <3>2
  <2>10. "SERVICE_CREATE" \in Events /\ "AUTH_DENIED" \in Events
    BY DEF Events
  <2>11. /\ (Entry(h.answer) = <<"SERVICE_CREATE">>) <=> h.answer = "201"
         /\ (Entry(h.answer) = <<"AUTH_DENIED">>) <=> h.answer = "403"
    BY EntryOf
  <2>12. /\ Cardinality(Entries(r, "SERVICE_CREATE")) = IF h.answer = "201" THEN 1 ELSE 0
         /\ Cardinality(Entries(r, "AUTH_DENIED")) = IF h.answer = "403" THEN 1 ELSE 0
         /\ Cardinality(at("audit")) = IF h.pc = "audit" THEN 1 ELSE 0
         /\ Cardinality(denied) = IF h.answer = "403" THEN 1 ELSE 0
    <3> HIDE DEF h, n, denied, at
    <3>1. /\ Entries(r, "SERVICE_CREATE") = IF h.answer = "201" THEN {<<h.at, 1>>} ELSE {}
          /\ Entries(r, "AUTH_DENIED") = IF h.answer = "403" THEN {<<h.at, 1>>} ELSE {}
      BY <2>7, <2>10, <2>11
    <3>2. QED
      BY <2>8, <2>9, <3>1, FS_EmptySet, FS_Singleton
  <2>13. req[r].op = "create" =>
           done[r] = (IF h.answer = "201" THEN 1 ELSE 0) + (IF h.pc = "audit" THEN 1 ELSE 0)
    <3>1. h.answer = None \/ h.answer \in Answers
      BY <2>4 DEF Handlers, Codes
    <3>2. CASE h.answer = None
      BY <1>1, <2>2, <2>3, <2>5, <2>6, <3>2 DEF Outcome, Answers
    <3>3. CASE h.answer \in Answers
      BY <1>1, <2>2, <2>3, <2>5, <2>6, <3>3 DEF Outcome, Answers
    <3>4. QED
      BY <3>1, <3>2, <3>3
  <2>14. QED
    BY <2>12, <2>13
<1>2. IInv => AuditMatches
  BY <1>1 DEF AuditMatches
<1>3. QED
  BY <1>2, IInvHolds, PTL
=============================================================================
