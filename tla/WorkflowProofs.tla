----------------------------- MODULE WorkflowProofs -----------------------------
(***************************************************************************)
(* Proofs about the detailed workflow, for any number of users,            *)
(* applications and requests and any bound on versions.                    *)
(***************************************************************************)
EXTENDS WorkflowProperties, TLAPS

--------------------------------------------------------------------------------
(* The helpers of module Transitions. *)

(* The patch of an action is again a row, one version on, in the state the *)
(* rule names, with the same owner.                                        *)
LEMMA PatchIsRow ==
  ASSUME NEW row \in Row, NEW action,
         NEW to \in ApplicationState, NEW u \in User
  PROVE  LET p == ComputePatch(row, action, to, u) IN
         /\ p \in Row
         /\ p.state = to
         /\ p.version = row.version + 1
         /\ p.applicantId = row.applicantId
         /\ p.reviewerId = IF action = "START_REVIEW" THEN u ELSE row.reviewerId
         /\ p.approverId = IF action \in Decisions THEN u ELSE row.approverId
  BY DEF ComputePatch, Row

(* Every workflow action has a name in the audit log. *)
LEMMA NameIsAuditAction ==
  ASSUME NEW action \in WorkflowAction
  PROVE  MapToAuditAction[action] \in AuditAction
  BY DEF MapToAuditAction, WorkflowAction, AuditAction

(* What the rules lead to and who may use them. *)
LEMMA RuleTypes ==
  ASSUME NEW rule \in TRANSITIONS
  PROVE  /\ rule.action \in WorkflowAction
         /\ rule.from \in ApplicationState
         /\ rule.to \in ApplicationState
         /\ rule.role = RequiredRole[rule.action]
         /\ rule.from \notin TERMINAL_STATES
  BY DEF TRANSITIONS, WorkflowAction, ApplicationState, RequiredRole, Endpoint,
         TERMINAL_STATES

(* The rows there are at first, and after a creation.                      *)
LEMMA RowTypes == NoRow \in Row /\ \A u \in User : NewRow(u) \in Row
  BY DEF NoRow, NewRow, Row, ApplicationState

--------------------------------------------------------------------------------
(* The server's phases are what they are called. *)
LEMMA Phases ==
  /\ "idle" \notin InTransaction /\ "idle" \notin Answer
  /\ InTransaction \cap Answer = {}
  /\ {"admitted", "resolved", "updated", "audited"} \subseteq InTransaction
  /\ {"OK", "NOT_FOUND", "FORBIDDEN", "CHECK_VIOLATED",
      "ILLEGAL_STATE_TRANSITION", "CONCURRENT_MODIFICATION"} \subseteq Answer
  BY DEF InTransaction, Answer, Conflict

(* The end of a request leaves its variables well typed. *)
LEMMA FinishTypes ==
  ASSUME TypeOK, NEW r \in Request, NEW answer \in Answer \cup {"idle"},
         Finish(r, answer)
  PROVE  /\ phase' \in [Request -> {"idle"} \cup InTransaction \cup Answer]
         /\ lock' \in [App -> Request \cup {NoRequest}]
         /\ tx' \in [Request -> Tx \cup {NoTx}]
         /\ phase'[r] = answer
         /\ answer \notin InTransaction
         /\ \A q \in Request \ {r} : phase'[q] = phase[q] /\ tx'[q] = tx[q]
  BY Phases DEF Finish, TypeOK

(* An answered request keeps its call, a dropped one loses it. *)
LEMMA FinishOK ==
  ASSUME TypeOK, NEW r \in Request, NEW answer \in Answer,
         Finish(r, answer), UNCHANGED call, phase[r] # "idle"
  PROVE  call' \in [Request -> Call \cup {NoCall}] /\ \A q \in Request : RequestOK(q)'
<1>1. RequestOK(r)'
  BY FinishTypes, Phases DEF TypeOK, RequestOK
<1>2. \A q \in Request \ {r} : RequestOK(q)'
  BY FinishTypes DEF TypeOK, RequestOK
<1>3. QED
  BY <1>1, <1>2 DEF TypeOK

(* A request that is given up is well-typed, and so are the others.        *)
LEMMA DropOK ==
  ASSUME TypeOK, NEW r \in Request, Drop(r)
  PROVE  call' \in [Request -> Call \cup {NoCall}] /\ \A q \in Request : RequestOK(q)'
<1>1. Finish(r, "idle") /\ call' = [call EXCEPT ![r] = NoCall]
  BY DEF Drop
<1>2. RequestOK(r)'
  BY <1>1, FinishTypes, Phases DEF TypeOK, RequestOK
<1>3. \A q \in Request \ {r} : RequestOK(q)'
  BY <1>1, FinishTypes DEF TypeOK, RequestOK
<1>4. QED
  BY <1>1, <1>2, <1>3 DEF TypeOK

(* An entry appended to a trail. *)
LEMMA AppendTypes ==
  ASSUME TypeOK, NEW a \in App, NEW e \in AuditEntry,
         audit' = [audit EXCEPT ![a] = Append(@, e)]
  PROVE  audit' \in [App -> Seq(AuditEntry)]
<1>1. audit[a] \in Seq(AuditEntry)
  BY DEF TypeOK
<1>2. Append(audit[a], e) \in Seq(AuditEntry)
  BY <1>1
<1>3. QED
  BY <1>2 DEF TypeOK

(* The entry a creation writes. *)
LEMMA CreationEntry ==
  ASSUME NEW c \in Call
  PROVE  [action |-> "APPLICATION_CREATED", previousState |-> "ABSENT",
          newState |-> "DRAFT", actorId |-> c.user, actorRole |-> c.role] \in AuditEntry
  BY DEF Call, AuditEntry, AuditAction, ApplicationState

(* Every step keeps the types. *)
LEMMA StepKeepsTypes ==
  ASSUME TypeOK, [Next]_vars
  PROVE  TypeOK'
<1>1. CASE UNCHANGED vars
  BY <1>1 DEF vars, TypeOK, RequestOK
<1>2. CASE ChangeRole
  BY <1>2, WorkflowAssumption DEF ChangeRole, TypeOK, RequestOK
<1>3. ASSUME NEW r \in Request, Step(r) PROVE TypeOK'
  <2>1. CASE BeginCreate(r)
    BY <2>1, Phases DEF BeginCreate, Admit, TypeOK, RequestOK, Call, Endpoint
  <2>2. CASE BeginTransition(r)
    BY <2>2, Phases DEF BeginTransition, Admit, TypeOK, RequestOK, Call, Endpoint, Row
  <2>3. CASE Create(r)
    <3>1. call[r] \in Call /\ phase[r] # "idle"
      BY <2>3, Phases DEF Create, TypeOK, RequestOK
    <3>2. app' \in [App -> Row]
      BY <2>3, <3>1, RowTypes DEF Create, TypeOK, Call
    <3>3. audit' \in [App -> Seq(AuditEntry)]
      BY <2>3, <3>1, CreationEntry, AppendTypes DEF Create, Call
    <3>4. CASE Finish(r, "OK") /\ UNCHANGED call
      BY <2>3, <3>1, <3>2, <3>3, <3>4, Phases, FinishTypes, FinishOK DEF Create, TypeOK
    <3>5. CASE Drop(r)
      BY <2>3, <3>2, <3>3, <3>5, FinishTypes, DropOK DEF Create, Drop, TypeOK
    <3>6. QED
      BY <2>3, <3>4, <3>5 DEF Create
  <2>4. CASE Resolve(r)
    BY <2>4, Phases, RowTypes, RuleTypes
       DEF Resolve, Loading, Loaded, RulesFor, TypeOK, RequestOK, Tx, Call
  <2>5. CASE Refuse(r)
    <3>1. PICK answer \in Answer : Finish(r, answer)
      BY <2>5, Phases DEF Refuse
    <3>2. phase[r] # "idle"
      BY <2>5, Phases DEF Refuse, Loading
    <3>3. QED
      BY <2>5, <3>1, <3>2, FinishTypes, FinishOK DEF Refuse, TypeOK
  <2>6. CASE Update(r)
    <3>1. /\ call[r] \in Call /\ tx[r] \in Tx /\ phase[r] # "idle"
          /\ call[r].action \in WorkflowAction
      BY <2>6, Phases DEF Update, TypeOK, RequestOK
    <3>2. ASSUME NEW answer \in Answer, Finish(r, answer) PROVE TypeOK'
      BY <2>6, <3>1, <3>2, FinishTypes, FinishOK DEF Update, TypeOK
    <3>3. CASE /\ phase' = [phase EXCEPT ![r] = "updated"]
               /\ lock' = [lock EXCEPT ![call[r].id] = r]
               /\ tx' = [tx EXCEPT ![r] = [read |-> tx[r].read, to |-> tx[r].to,
                                           write |-> Written(r), entry |-> NoEntry]]
      <4>1. Written(r) \in Row
        BY <3>1, PatchIsRow DEF Written, Call, Tx, TypeOK
      <4>2. [read |-> tx[r].read, to |-> tx[r].to,
             write |-> Written(r), entry |-> NoEntry] \in Tx
        BY <3>1, <4>1 DEF Tx
      <4>3. QED
        BY <2>6, <3>1, <3>3, <4>2, Phases DEF Update, TypeOK, RequestOK, Call
    <3>4. QED
      BY <2>6, <3>2, <3>3, Phases DEF Update
  <2>7. CASE RecordAudit(r)
    <3>1. /\ call[r] \in Call /\ tx[r] \in Tx /\ call[r].action \in WorkflowAction
      BY <2>7, Phases DEF RecordAudit, TypeOK, RequestOK
    <3>3. EntryOf(r) \in AuditEntry
      BY <3>1, NameIsAuditAction DEF EntryOf, AuditEntry, Call, Tx, Row
    <3>4. [read |-> tx[r].read, to |-> tx[r].to,
           write |-> tx[r].write, entry |-> EntryOf(r)] \in Tx
      BY <3>1, <3>3 DEF Tx
    <3>5. QED
      BY <2>7, <3>1, <3>3, <3>4, Phases DEF RecordAudit, TypeOK, RequestOK
  <2>8. CASE Commit(r)
    <3>1. /\ call[r] \in Call /\ tx[r] \in Tx /\ tx[r].entry \in AuditEntry
          /\ phase[r] # "idle"
      BY <2>8, Phases DEF Commit, TypeOK, RequestOK
    <3>2. app' \in [App -> Row]
      BY <2>8, <3>1 DEF Commit, TypeOK, Tx
    <3>3. audit' \in [App -> Seq(AuditEntry)]
      BY <2>8, <3>1, AppendTypes DEF Commit, Call
    <3>4. CASE Finish(r, "OK") /\ UNCHANGED call
      BY <2>8, <3>1, <3>2, <3>3, <3>4, Phases, FinishTypes, FinishOK DEF Commit, TypeOK
    <3>5. CASE Drop(r)
      BY <2>8, <3>2, <3>3, <3>5, FinishTypes, DropOK DEF Commit, Drop, TypeOK
    <3>6. QED
      BY <2>8, <3>4, <3>5 DEF Commit
  <2>9. CASE Abort(r)
    BY <2>9, FinishTypes, DropOK DEF Abort, Drop, TypeOK
  <2>10. CASE Recycle(r)
    BY <2>10, Phases DEF Recycle, TypeOK, RequestOK
  <2>11. QED
    BY <1>3, <2>1, <2>2, <2>3, <2>4, <2>5, <2>6, <2>7, <2>8, <2>9, <2>10
       DEF Step, Serve
<1>4. QED
  BY <1>1, <1>2, <1>3 DEF Next

(* Everything is well-typed at first.                                      *)
LEMMA InitTypes == Init => TypeOK
  BY RowTypes, Phases, WorkflowAssumption DEF Init, TypeOK, RequestOK

(* The type invariant: in every reachable state a request past its guards  *)
(* carries a well-formed call, one past its read a well-formed transaction *)
(* and one past step 7 an audit entry.                                     *)
THEOREM TypeCorrect == Spec => []TypeOK
<1>1. TypeOK /\ [Next]_vars => TypeOK'
  BY StepKeepsTypes
<1>2. QED
  BY <1>1, InitTypes, PTL DEF Spec

--------------------------------------------------------------------------------
(***************************************************************************)
(* What holds whatever versions clients send.  A request that has read its *)
(* row holds a rule that was right for the row it read; the row is at      *)
(* least at the version that was read, and the same row if it is at that   *)
(* version; who has updated a row holds its lock, the row is as it was     *)
(* then and at the version the client sent, and what will be committed is  *)
(* the patch of that row.                                                  *)
(***************************************************************************)
AbsentInv == \A a \in App : app[a].state = "ABSENT" => app[a] = NoRow

LockInv ==
  /\ \A a \in App : lock[a] # NoRequest =>
       phase[lock[a]] \in Holding /\ call[lock[a]].id = a
  /\ \A r \in Request : phase[r] \in Holding => lock[call[r].id] = r

\* The rule a request holds fits the row it read.
HoldsRule(r) ==
  \E rule \in TRANSITIONS :
    /\ rule.action = call[r].action
    /\ rule.to = tx[r].to
    /\ Permitted(rule, call[r].user, call[r].role, tx[r].read)

ReadInv(r) ==
  phase[r] \in InTransaction \ {"admitted"} =>
    /\ HoldsRule(r)
    /\ tx[r].read.version <= app[call[r].id].version
    /\ tx[r].read.version = app[call[r].id].version => tx[r].read = app[call[r].id]

RequestInv(r) ==
  /\ phase[r] \in InTransaction => call[r].role = RequiredRole[call[r].action]
  /\ ReadInv(r)
  /\ phase[r] \in Holding => VersionMatches(r) /\ tx[r].write = Written(r)
  /\ phase[r] = "audited" => tx[r].entry = EntryOf(r)

CoreInv == TypeOK /\ AbsentInv /\ LockInv /\ \A r \in Request : RequestInv(r)

(* The phases with a transaction are disjoint from the others. *)
LEMMA HoldingPhases ==
  /\ Holding \subseteq InTransaction \ {"admitted"}
  /\ "resolved" \notin Holding /\ "admitted" \notin Holding /\ "idle" \notin Holding
  /\ "resolved" \in InTransaction \ {"admitted"}
  /\ "updated" \in Holding /\ "audited" \in Holding
  BY DEF Holding, InTransaction

(* The end of a request gives its row lock back and no other. *)
LEMMA FinishReleases ==
  ASSUME TypeOK, LockInv, NEW r \in Request, NEW answer \in Answer \cup {"idle"},
         Finish(r, answer), \A q \in Request \ {r} : call'[q] = call[q]
  PROVE  LockInv' /\ RequestInv(r)'
<1>1. phase'[r] \notin InTransaction /\ \A q \in Request \ {r} : phase'[q] = phase[q]
  BY FinishTypes
<1>2. phase'[r] \notin Holding /\ phase'[r] # "audited"
  BY <1>1, HoldingPhases
<1>3. RequestInv(r)'
  BY <1>1, <1>2 DEF RequestInv, ReadInv
<1>4. lock' = [a \in App |-> IF lock[a] = r THEN NoRequest ELSE lock[a]]
  BY DEF Finish
<1>5. ASSUME NEW a \in App, lock'[a] # NoRequest
      PROVE  phase'[lock'[a]] \in Holding /\ call'[lock'[a]].id = a
  <2>1. lock'[a] = lock[a] /\ lock[a] # r /\ lock[a] # NoRequest
    BY <1>4, <1>5
  <2>2. lock[a] \in Request \ {r}
    BY <2>1 DEF TypeOK
  <2>3. QED
    BY <1>1, <2>1, <2>2 DEF LockInv
<1>6. ASSUME NEW q \in Request, phase'[q] \in Holding
      PROVE  lock'[call'[q].id] = q
  <2>1. q # r
    BY <1>2, <1>6
  <2>2. phase[q] \in Holding /\ call'[q] = call[q]
    BY <1>1, <1>6, <2>1
  <2>3. call[q].id \in App /\ lock[call[q].id] = q
    BY <2>2, HoldingPhases, Phases DEF TypeOK, RequestOK, LockInv, Call
  <2>4. QED
    BY <1>4, <2>1, <2>2, <2>3
<1>7. QED
  BY <1>3, <1>5, <1>6 DEF LockInv

(* A request that does not move keeps its part of the invariant when the   *)
(* row of its application stays the same.                                  *)
LEMMA OthersKeep ==
  ASSUME NEW q \in Request, RequestInv(q), phase'[q] = phase[q], call'[q] = call[q],
         tx'[q] = tx[q], app'[call[q].id] = app[call[q].id]
  PROVE  RequestInv(q)'
  BY DEF RequestInv, ReadInv, HoldsRule, VersionMatches, Written, EntryOf

(* A rule held is a rule for a row that exists. *)
LEMMA HeldRuleStarts ==
  ASSUME NEW r \in Request, HoldsRule(r)
  PROVE  tx[r].read.state \in ApplicationState
  BY RuleTypes DEF HoldsRule, Permitted

\* What a creation does to a row and its trail, in one step.
LegalOpen(a, u) ==
  /\ app[a] = NoRow
  /\ app' = [app EXCEPT ![a] = NewRow(u)]
  /\ audit' = [audit EXCEPT ![a] =
                 Append(@, [action        |-> "APPLICATION_CREATED",
                            previousState |-> "ABSENT",
                            newState      |-> "DRAFT",
                            actorId       |-> u,
                            actorRole     |-> "APPLICANT"])]

(* What a transaction has read exists: its row is there. *)
LEMMA ReadRowExists ==
  ASSUME CoreInv, NEW r \in Request, phase[r] \in InTransaction \ {"admitted"}
  PROVE  /\ call[r] \in Call /\ tx[r] \in Tx /\ call[r].action \in WorkflowAction
         /\ call[r].id \in App /\ call[r].user \in User /\ call[r].role \in UserRole
         /\ app[call[r].id] \in Row /\ app[call[r].id].state # "ABSENT"
<1>1. call[r] \in Call /\ tx[r] \in Tx /\ call[r].action \in WorkflowAction
  BY Phases DEF CoreInv, TypeOK, RequestOK
<1>2. app[call[r].id] \in Row /\ tx[r].read \in Row
  BY <1>1 DEF CoreInv, TypeOK, Call, Tx
<1>3. SUFFICES ASSUME app[call[r].id].state = "ABSENT" PROVE FALSE
  BY <1>1, <1>2 DEF Call
<1>4. app[call[r].id] = NoRow
  BY <1>1, <1>3 DEF CoreInv, AbsentInv, Call
<1>5. /\ tx[r].read.version <= app[call[r].id].version
      /\ tx[r].read.version = app[call[r].id].version => tx[r].read = app[call[r].id]
      /\ HoldsRule(r)
  BY DEF CoreInv, RequestInv, ReadInv
<1>6. tx[r].read.version \in Nat /\ app[call[r].id].version = 0
  BY <1>2, <1>4 DEF Row, NoRow
<1>7. tx[r].read = NoRow
  BY <1>4, <1>5, <1>6
<1>8. QED
  BY <1>5, <1>7, HeldRuleStarts DEF NoRow, ApplicationState

(* What a commit does, whatever version was sent: the row, which is at     *)
(* that version, gets the patch of the request's action, and the trail the *)
(* request's entry.                                                        *)
LEMMA CommitWrites ==
  ASSUME CoreInv, NEW r \in Request, Commit(r)
  PROVE  /\ call[r] \in Call /\ call[r].action \in WorkflowAction
         /\ call[r].id \in App /\ call[r].user \in User /\ call[r].role \in UserRole
         /\ app[call[r].id].state # "ABSENT" /\ app[call[r].id].version \in Nat
         /\ app[call[r].id].version = call[r].version
         /\ tx[r].to \in ApplicationState
         /\ app' = [app EXCEPT ![call[r].id] =
                      ComputePatch(app[call[r].id], call[r].action, tx[r].to, call[r].user)]
         /\ EntryOf(r) \in AuditEntry
         /\ audit' = [audit EXCEPT ![call[r].id] = Append(@, EntryOf(r))]
<1>1. phase[r] = "audited" /\ phase[r] \in InTransaction \ {"admitted"} /\ phase[r] \in Holding
  BY HoldingPhases DEF Commit
<1>2. /\ call[r] \in Call /\ tx[r] \in Tx /\ call[r].action \in WorkflowAction
      /\ call[r].id \in App /\ call[r].user \in User /\ call[r].role \in UserRole
      /\ app[call[r].id] \in Row /\ app[call[r].id].state # "ABSENT"
  BY <1>1, ReadRowExists
<1>3. /\ VersionMatches(r) /\ tx[r].write = Written(r) /\ tx[r].entry = EntryOf(r)
  BY <1>1 DEF CoreInv, RequestInv
<1>4. app[call[r].id].version = call[r].version /\ app[call[r].id].version \in Nat
  BY <1>2, <1>3 DEF VersionMatches, Row
<1>5. app' = [app EXCEPT ![call[r].id] =
                ComputePatch(app[call[r].id], call[r].action, tx[r].to, call[r].user)]
  BY <1>3 DEF Commit, Written
<1>6. tx[r].to \in ApplicationState
  BY <1>2 DEF Tx
<1>7. EntryOf(r) \in AuditEntry
  <2>1. tx[r].entry \in AuditEntry
    BY <1>1 DEF CoreInv, TypeOK, RequestOK
  <2>2. QED
    BY <1>3, <2>1
<1>8. audit' = [audit EXCEPT ![call[r].id] = Append(@, EntryOf(r))]
  BY <1>3 DEF Commit
<1>9. QED
  BY <1>2, <1>4, <1>5, <1>6, <1>7, <1>8

(* A creation opens one application, for its sender, at version 0.         *)
LEMMA CreateIsLegal ==
  ASSUME CoreInv, NEW r \in Request, Create(r)
  PROVE  /\ LegalOpen(call[r].id, call[r].user)
         /\ call[r].id \in App /\ call[r].user \in User
         /\ app[call[r].id].version = 0 /\ app'[call[r].id].version = 0
<1>1. call[r] \in Call /\ phase[r] \in InTransaction
  BY Phases DEF Create, CoreInv, TypeOK, RequestOK
<1>2. call[r].role = "APPLICANT"
  BY <1>1 DEF Create, CoreInv, RequestInv, RequiredRole, Endpoint
<1>3. QED
  BY <1>1, <1>2 DEF Create, LegalOpen, NoRow, NewRow, CoreInv, TypeOK, Call

(* The core invariant holds at first.                                      *)
LEMMA CoreInit == Init => CoreInv
<1>1. Init => TypeOK
  BY InitTypes
<1>2. Init => AbsentInv
  BY DEF Init, AbsentInv
<1>3. Init => LockInv /\ \A r \in Request : RequestInv(r)
  BY Phases, HoldingPhases DEF Init, LockInv, RequestInv, ReadInv
<1>4. QED
  BY <1>1, <1>2, <1>3 DEF CoreInv

(* A call that is admitted has nothing yet but a role. *)
LEMMA AdmitKeeps ==
  ASSUME CoreInv, NEW r \in Request, NEW c \in Call, Admit(r, c)
  PROVE  LockInv' /\ \A q \in Request : RequestInv(q)'
<1>1. /\ phase[r] = "idle" /\ phase'[r] = "admitted" /\ call'[r] = c
      /\ \A q \in Request \ {r} : phase'[q] = phase[q] /\ call'[q] = call[q]
      /\ UNCHANGED <<app, lock, tx>>
  BY DEF Admit, CoreInv, TypeOK
<1>2. LockInv'
  <2>1. ASSUME NEW a \in App, lock[a] # NoRequest
        PROVE  phase'[lock[a]] \in Holding /\ call'[lock[a]].id = a
    <3>1. lock[a] \in Request /\ phase[lock[a]] \in Holding /\ call[lock[a]].id = a
      BY <2>1 DEF CoreInv, TypeOK, LockInv
    <3>2. lock[a] # r
      BY <1>1, <3>1, HoldingPhases
    <3>3. QED
      BY <1>1, <3>1, <3>2
  <2>2. ASSUME NEW q \in Request, phase'[q] \in Holding PROVE lock[call'[q].id] = q
    <3>1. q # r
      BY <1>1, <2>2, HoldingPhases
    <3>2. QED
      BY <1>1, <2>2, <3>1 DEF CoreInv, LockInv
  <2>3. QED
    BY <1>1, <2>1, <2>2 DEF LockInv
<1>3. RequestInv(r)'
  BY <1>1, HoldingPhases DEF RequestInv, ReadInv, Admit
<1>4. ASSUME NEW q \in Request \ {r} PROVE RequestInv(q)'
  BY <1>1, OthersKeep DEF CoreInv
<1>5. QED
  BY <1>2, <1>3, <1>4

(* A committed change of row a leaves the other requests' part as it is:   *)
(* they hold another row's lock, and what they read of a is older now.     *)
LEMMA OthersSurvive ==
  ASSUME CoreInv, NEW r \in Request, NEW q \in Request \ {r}, NEW a \in App,
         phase'[q] = phase[q], call'[q] = call[q], tx'[q] = tx[q],
         \A b \in App \ {a} : app'[b] = app[b],
         \/ app[a] = NoRow /\ app'[a].version = 0
         \/ lock[a] = r /\ app'[a].version = app[a].version + 1
  PROVE  RequestInv(q)'
<1>1. CASE phase[q] \notin InTransaction
  BY <1>1, HoldingPhases DEF RequestInv, ReadInv
<1>2. CASE phase[q] \in InTransaction /\ call[q].id # a
  <2>1. call[q].id \in App
    BY <1>2, Phases DEF CoreInv, TypeOK, RequestOK, Call
  <2>2. QED
    BY <1>2, <2>1, OthersKeep DEF CoreInv
<1>3. CASE phase[q] \in InTransaction /\ call[q].id = a
  <2>1. /\ call[q] \in Call /\ RequestInv(q) /\ app[a].version \in Nat
    BY <1>3, Phases DEF CoreInv, TypeOK, RequestOK, Call, Row
  <2>2. app[a].version <= app'[a].version /\ app'[a].version \in Nat
    BY <2>1 DEF NoRow
  <2>3. phase[q] \notin Holding
    <3>1. SUFFICES ASSUME phase[q] \in Holding PROVE FALSE
      OBVIOUS
    <3>2. lock[a] = q
      BY <1>3, <3>1 DEF CoreInv, LockInv
    <3>3. app[a] = NoRow
      BY <3>2
    <3>4. /\ HoldsRule(q) /\ tx[q].read.version <= app[a].version
          /\ tx[q].read.version = app[a].version => tx[q].read = app[a]
          /\ tx[q].read.version \in Nat
      BY <1>3, <2>1, <3>1, HoldingPhases DEF RequestInv, ReadInv, CoreInv, TypeOK,
         RequestOK, Tx, Row
    <3>5. tx[q].read = NoRow
      BY <3>3, <3>4 DEF NoRow
    <3>6. QED
      BY <3>4, <3>5, HeldRuleStarts DEF NoRow, ApplicationState
  <2>4. ASSUME phase[q] \in InTransaction \ {"admitted"}
        PROVE  /\ HoldsRule(q)'
               /\ tx[q].read.version <= app'[a].version
               /\ tx[q].read.version # app'[a].version
    <3>1. /\ HoldsRule(q)
          /\ tx[q].read.version <= app[a].version
          /\ tx[q].read.version = app[a].version => tx[q].read = app[a]
          /\ tx[q].read.version \in Nat
      BY <1>3, <2>1, <2>4 DEF RequestInv, ReadInv, CoreInv, TypeOK, RequestOK, Tx, Row
    <3>2. HoldsRule(q)'
      BY <3>1 DEF HoldsRule
    <3>3. app[a] # NoRow
      <4>1. SUFFICES ASSUME app[a] = NoRow PROVE FALSE
        OBVIOUS
      <4>2. tx[q].read = NoRow
        BY <3>1, <4>1 DEF NoRow
      <4>3. QED
        BY <3>1, <4>2, HeldRuleStarts DEF NoRow, ApplicationState
    <3>4. QED
      BY <2>1, <3>1, <3>2, <3>3
  <2>5. ReadInv(q)'
    BY <1>3, <2>4 DEF ReadInv
  <2>6. phase[q] # "audited"
    BY <2>3, HoldingPhases
  <2>7. QED
    BY <1>3, <2>1, <2>3, <2>5, <2>6 DEF RequestInv
<1>4. QED
  BY <1>1, <1>2, <1>3

(* A request that ends without a commit leaves everything else as it was. *)
LEMMA EndKeeps ==
  ASSUME CoreInv, NEW r \in Request, NEW answer \in Answer \cup {"idle"},
         Finish(r, answer), app' = app, \A q \in Request \ {r} : call'[q] = call[q]
  PROVE  LockInv' /\ \A q \in Request : RequestInv(q)'
<1>1. LockInv' /\ RequestInv(r)'
  BY FinishReleases DEF CoreInv
<1>2. \A q \in Request \ {r} : RequestInv(q)'
  BY FinishTypes, OthersKeep DEF CoreInv
<1>3. QED
  BY <1>1, <1>2

(* Finish and Drop, seen alike: the request ends, the other calls stay. *)
LEMMA Ends ==
  ASSUME CoreInv, NEW r \in Request, (Finish(r, "OK") /\ UNCHANGED call) \/ Drop(r)
  PROVE  /\ \E answer \in Answer \cup {"idle"} : Finish(r, answer)
         /\ \A q \in Request \ {r} : call'[q] = call[q]
  BY Phases DEF Drop, CoreInv, TypeOK

(* A step of one request keeps the locks and what is said of every         *)
(* request.                                                                *)
LEMMA StepKeepsRequests ==
  ASSUME CoreInv, NEW r \in Request, Step(r)
  PROVE  LockInv' /\ \A q \in Request : RequestInv(q)'
<1>1. CASE BeginCreate(r)
  <2>1. PICK u \in User, a \in App :
          Admit(r, [user |-> u, role |-> role[u], action |-> "CREATE",
                    id |-> a, version |-> 0])
    BY <1>1 DEF BeginCreate
  <2>2. [user |-> u, role |-> role[u], action |-> "CREATE", id |-> a, version |-> 0] \in Call
    BY DEF Call, Endpoint, CoreInv, TypeOK
  <2>3. QED
    BY <2>1, <2>2, AdmitKeeps
<1>2. CASE BeginTransition(r)
  <2>1. PICK u \in User, action \in WorkflowAction, a \in App, v \in 0 .. MaxVersion - 1 :
          Admit(r, [user |-> u, role |-> role[u], action |-> action,
                    id |-> a, version |-> v])
    BY <1>2 DEF BeginTransition
  <2>2. [user |-> u, role |-> role[u], action |-> action, id |-> a, version |-> v] \in Call
    BY WorkflowAssumption DEF Call, Endpoint, CoreInv, TypeOK
  <2>3. QED
    BY <2>1, <2>2, AdmitKeeps
<1>3. CASE Create(r)
  <2>1. PICK answer \in Answer \cup {"idle"} : Finish(r, answer)
    BY <1>3, Ends DEF Create
  <2>2. \A q \in Request \ {r} : call'[q] = call[q]
    BY <1>3, Ends DEF Create
  <2>3. LockInv' /\ RequestInv(r)'
    BY <2>1, <2>2, FinishReleases DEF CoreInv
  <2>4. /\ app[call[r].id] = NoRow /\ app'[call[r].id].version = 0 /\ call[r].id \in App
        /\ \A b \in App \ {call[r].id} : app'[b] = app[b]
    BY <1>3, CreateIsLegal DEF Create, CoreInv, TypeOK
  <2>5. \A q \in Request \ {r} : RequestInv(q)'
    BY <2>1, <2>2, <2>4, FinishTypes, OthersSurvive DEF CoreInv
  <2>6. QED
    BY <2>3, <2>5
<1>4. CASE Resolve(r)
  <2>1. call[r] \in Call /\ call[r].action \in WorkflowAction /\ phase[r] = "admitted"
        /\ phase[r] \in InTransaction
    BY <1>4, Phases DEF Resolve, Loading, CoreInv, TypeOK, RequestOK
  <2>2. PICK rule \in TRANSITIONS :
          /\ rule.action = call[r].action
          /\ Permitted(rule, call[r].user, call[r].role, app[call[r].id])
          /\ tx' = [tx EXCEPT ![r] = [read |-> app[call[r].id], to |-> rule.to,
                                      write |-> NoRow, entry |-> NoEntry]]
    BY <1>4 DEF Resolve, RulesFor, Loaded
  <2>3. /\ phase' = [phase EXCEPT ![r] = "resolved"] /\ UNCHANGED <<app, lock, call>>
    BY <1>4 DEF Resolve
  <2>4. /\ phase'[r] = "resolved" /\ tx'[r].read = app[call[r].id] /\ tx'[r].to = rule.to
        /\ \A q \in Request \ {r} : phase'[q] = phase[q] /\ tx'[q] = tx[q]
    BY <2>2, <2>3 DEF CoreInv, TypeOK
  <2>5. LockInv'
    BY <2>1, <2>3, <2>4, HoldingPhases DEF CoreInv, TypeOK, LockInv
  <2>6. app[call[r].id].version \in Nat
    BY <2>1 DEF CoreInv, TypeOK, Call, Row
  <2>7. HoldsRule(r)'
    BY <2>2, <2>3, <2>4 DEF HoldsRule
  <2>8. RequestInv(r)'
    BY <2>1, <2>3, <2>4, <2>6, <2>7, HoldingPhases DEF RequestInv, ReadInv, CoreInv
  <2>9. \A q \in Request \ {r} : RequestInv(q)'
    BY <2>3, <2>4, OthersKeep DEF CoreInv
  <2>10. QED
    BY <2>5, <2>8, <2>9
<1>5. CASE Refuse(r)
  BY <1>5, EndKeeps, Phases DEF Refuse
<1>6. CASE Update(r)
  <2>1. call[r] \in Call /\ tx[r] \in Tx
    BY <1>6, Phases DEF Update, CoreInv, TypeOK, RequestOK
  <2>2. CASE ~VersionMatches(r)
    BY <1>6, <2>2, EndKeeps, Phases DEF Update
  <2>3. CASE VersionMatches(r) /\ ~ReviewerNotApprover(Written(r))
    BY <1>6, <2>3, EndKeeps, Phases DEF Update
  <2>4. CASE VersionMatches(r) /\ ReviewerNotApprover(Written(r))
    <3>1. /\ phase' = [phase EXCEPT ![r] = "updated"]
          /\ lock' = [lock EXCEPT ![call[r].id] = r]
          /\ tx' = [tx EXCEPT ![r] = [read |-> tx[r].read, to |-> tx[r].to,
                                      write |-> Written(r), entry |-> NoEntry]]
          /\ UNCHANGED <<app, call>>
          /\ phase[r] = "resolved" /\ lock[call[r].id] = NoRequest
      BY <1>6, <2>4 DEF Update
    <3>2. /\ phase'[r] = "updated" /\ lock'[call[r].id] = r
          /\ tx'[r].read = tx[r].read /\ tx'[r].to = tx[r].to /\ tx'[r].write = Written(r)
          /\ \A q \in Request \ {r} : phase'[q] = phase[q] /\ tx'[q] = tx[q]
          /\ \A b \in App \ {call[r].id} : lock'[b] = lock[b]
      BY <2>1, <3>1 DEF CoreInv, TypeOK, Call
    <3>3. Written(r)' = Written(r)
      BY <3>1, <3>2 DEF Written
    <3>4. RequestInv(r)'
      BY <2>4, <3>1, <3>2, <3>3, HoldingPhases
         DEF RequestInv, ReadInv, HoldsRule, VersionMatches, CoreInv
    <3>5. \A q \in Request \ {r} : RequestInv(q)'
      BY <3>1, <3>2, OthersKeep DEF CoreInv
    <3>6. ASSUME NEW a \in App, lock'[a] # NoRequest
          PROVE  phase'[lock'[a]] \in Holding /\ call[lock'[a]].id = a
      <4>1. CASE a = call[r].id
        BY <3>2, <4>1, HoldingPhases
      <4>2. CASE a # call[r].id
        <5>1. /\ lock'[a] = lock[a] /\ lock[a] \in Request
              /\ phase[lock[a]] \in Holding /\ call[lock[a]].id = a
          BY <3>2, <3>6, <4>2 DEF CoreInv, LockInv, TypeOK
        <5>2. QED
          BY <3>2, <4>2, <5>1
      <4>3. QED
        BY <4>1, <4>2
    <3>7. ASSUME NEW q \in Request, phase'[q] \in Holding PROVE lock'[call[q].id] = q
      <4>1. CASE q = r
        BY <3>2, <4>1
      <4>2. CASE q # r
        <5>1. phase[q] \in Holding /\ lock[call[q].id] = q /\ call[q].id \in App
          BY <3>2, <3>7, <4>2, HoldingPhases, Phases
             DEF CoreInv, LockInv, TypeOK, RequestOK, Call
        <5>2. call[q].id # call[r].id
          BY <3>1, <5>1, WorkflowAssumption
        <5>3. QED
          BY <3>2, <5>1, <5>2
      <4>3. QED
        BY <4>1, <4>2
    <3>8. QED
      BY <3>1, <3>4, <3>5, <3>6, <3>7 DEF LockInv
  <2>5. QED
    BY <2>2, <2>3, <2>4
<1>7. CASE RecordAudit(r)
  <2>1. call[r] \in Call /\ tx[r] \in Tx /\ phase[r] = "updated"
    BY <1>7, Phases DEF RecordAudit, CoreInv, TypeOK, RequestOK
  <2>2. /\ phase'[r] = "audited" /\ tx'[r].read = tx[r].read /\ tx'[r].to = tx[r].to
        /\ tx'[r].write = tx[r].write /\ tx'[r].entry = EntryOf(r)
        /\ \A q \in Request \ {r} : phase'[q] = phase[q] /\ tx'[q] = tx[q]
        /\ UNCHANGED <<app, lock, call>>
    BY <1>7 DEF RecordAudit, CoreInv, TypeOK
  <2>3. LockInv'
    <3>1. ASSUME NEW q \in Request PROVE phase'[q] \in Holding <=> phase[q] \in Holding
      BY <2>1, <2>2, HoldingPhases
    <3>2. QED
      BY <2>2, <3>1 DEF CoreInv, LockInv, TypeOK
  <2>4. Written(r)' = Written(r) /\ EntryOf(r)' = EntryOf(r)
    BY <2>2 DEF Written, EntryOf
  <2>5. RequestInv(r)'
    BY <2>1, <2>2, <2>4, HoldingPhases
       DEF RequestInv, ReadInv, HoldsRule, VersionMatches, CoreInv
  <2>6. \A q \in Request \ {r} : RequestInv(q)'
    BY <2>2, OthersKeep DEF CoreInv
  <2>7. QED
    BY <2>3, <2>5, <2>6
<1>8. CASE Commit(r)
  <2>1. PICK answer \in Answer \cup {"idle"} : Finish(r, answer)
    BY <1>8, Ends DEF Commit
  <2>2. \A q \in Request \ {r} : call'[q] = call[q]
    BY <1>8, Ends DEF Commit
  <2>3. LockInv' /\ RequestInv(r)'
    BY <2>1, <2>2, FinishReleases DEF CoreInv
  <2>4. /\ lock[call[r].id] = r
        /\ call[r].id \in App /\ app'[call[r].id].version = app[call[r].id].version + 1
        /\ \A b \in App \ {call[r].id} : app'[b] = app[b]
    <3>1. lock[call[r].id] = r
      BY <1>8, HoldingPhases DEF Commit, CoreInv, LockInv
    <3>2. /\ call[r].id \in App
          /\ app' = [app EXCEPT ![call[r].id] =
                       ComputePatch(app[call[r].id], call[r].action, tx[r].to, call[r].user)]
      BY <1>8, CommitWrites
    <3>3. app'[call[r].id] =
            ComputePatch(app[call[r].id], call[r].action, tx[r].to, call[r].user)
      BY <3>2 DEF CoreInv, TypeOK
    <3>4. app'[call[r].id].version = app[call[r].id].version + 1
      BY <3>3 DEF ComputePatch
    <3>5. \A b \in App \ {call[r].id} : app'[b] = app[b]
      BY <3>2 DEF CoreInv, TypeOK
    <3>6. QED
      BY <3>1, <3>2, <3>4, <3>5
  <2>5. \A q \in Request \ {r} : RequestInv(q)'
    BY <2>1, <2>2, <2>4, FinishTypes, OthersSurvive DEF CoreInv
  <2>6. QED
    BY <2>3, <2>5
<1>9. CASE Abort(r)
  <2>1. Finish(r, "idle") /\ \A q \in Request \ {r} : call'[q] = call[q]
    BY <1>9 DEF Abort, Drop, CoreInv, TypeOK
  <2>2. QED
    BY <1>9, <2>1, EndKeeps DEF Abort
<1>10. CASE Recycle(r)
  <2>1. /\ phase[r] \in Answer /\ phase'[r] = "idle"
        /\ \A q \in Request \ {r} : phase'[q] = phase[q] /\ call'[q] = call[q]
        /\ UNCHANGED <<app, lock, tx>>
    BY <1>10 DEF Recycle, CoreInv, TypeOK
  <2>2. RequestInv(r)'
    BY <2>1, Phases, HoldingPhases DEF RequestInv, ReadInv
  <2>3. \A q \in Request \ {r} : RequestInv(q)'
    BY <2>1, OthersKeep DEF CoreInv
  <2>4. phase[r] \notin Holding
    BY <2>1, Phases, HoldingPhases
  <2>5. LockInv'
    <3>1. phase'[r] \notin Holding
      BY <2>1, HoldingPhases
    <3>2. \A a \in App : lock[a] # NoRequest => lock[a] \in Request \ {r}
      BY <2>4 DEF CoreInv, LockInv, TypeOK
    <3>3. QED
      BY <2>1, <3>1, <3>2 DEF CoreInv, LockInv
  <2>6. QED
    BY <2>2, <2>3, <2>5
<1>11. QED
  BY <1>1, <1>2, <1>3, <1>4, <1>5, <1>6, <1>7, <1>8, <1>9, <1>10 DEF Step, Serve

(* How the rows and trails move, whatever versions are sent: not at all,   *)
(* by a creation, or one version on, with one entry more.                  *)
LEMMA RowsGrow ==
  ASSUME CoreInv, [Next]_vars, NEW a \in App
  PROVE  \/ app'[a] = app[a] /\ audit'[a] = audit[a]
         \/ /\ app[a] = NoRow /\ app'[a].state = "DRAFT" /\ app'[a].version = 0
            /\ \E e \in AuditEntry :
                 audit'[a] = Append(audit[a], e) /\ e.action = "APPLICATION_CREATED"
         \/ /\ app[a].state # "ABSENT" /\ app'[a].state # "ABSENT"
            /\ app'[a].version = app[a].version + 1
            /\ app'[a].applicantId = app[a].applicantId
            /\ \E e \in AuditEntry : audit'[a] = Append(audit[a], e)
<1>1. ASSUME NEW r \in Request, Step(r), ~Create(r), ~Commit(r)
      PROVE  UNCHANGED <<app, audit>>
  BY <1>1 DEF Step, Serve, BeginCreate, BeginTransition, Admit, Resolve, Refuse,
     Update, RecordAudit, Abort, Recycle
<1>2. ASSUME NEW r \in Request, Create(r), call[r].id = a
      PROVE  /\ app[a] = NoRow /\ app'[a].state = "DRAFT" /\ app'[a].version = 0
             /\ \E e \in AuditEntry :
                  audit'[a] = Append(audit[a], e) /\ e.action = "APPLICATION_CREATED"
  <2> DEFINE e == [action        |-> "APPLICATION_CREATED",
                   previousState |-> "ABSENT",
                   newState      |-> "DRAFT",
                   actorId       |-> call[r].user,
                   actorRole     |-> call[r].role]
  <2>1. call[r] \in Call
    BY <1>2, Phases DEF Create, CoreInv, TypeOK, RequestOK
  <2>2. e \in AuditEntry /\ e.action = "APPLICATION_CREATED"
    BY <2>1, CreationEntry
  <2>3. audit'[a] = Append(audit[a], e)
    BY <1>2 DEF Create, CoreInv, TypeOK
  <2>4. app[a] = NoRow /\ app'[a] = NewRow(call[r].user)
    BY <1>2 DEF Create, CoreInv, TypeOK
  <2> HIDE DEF e
  <2>5. QED
    BY <2>2, <2>3, <2>4 DEF NewRow
<1>3. ASSUME NEW r \in Request, Commit(r), call[r].id = a
      PROVE  /\ app[a].state # "ABSENT" /\ app'[a].state # "ABSENT"
             /\ app'[a].version = app[a].version + 1
             /\ app'[a].applicantId = app[a].applicantId
             /\ \E e \in AuditEntry : audit'[a] = Append(audit[a], e)
  <2>1. /\ app[a].state # "ABSENT" /\ tx[r].to \in ApplicationState
        /\ app'[a] = ComputePatch(app[a], call[r].action, tx[r].to, call[r].user)
        /\ EntryOf(r) \in AuditEntry /\ audit'[a] = Append(audit[a], EntryOf(r))
    BY <1>3, CommitWrites DEF CoreInv, TypeOK
  <2>2. tx[r].to # "ABSENT"
    BY <2>1 DEF ApplicationState
  <2>3. QED
    BY <2>1, <2>2 DEF ComputePatch
<1>4. ASSUME NEW r \in Request, Create(r) \/ Commit(r), call[r].id # a
      PROVE  app'[a] = app[a] /\ audit'[a] = audit[a]
  BY <1>4 DEF Create, Commit, CoreInv, TypeOK
<1>5. QED
  BY <1>1, <1>2, <1>3, <1>4 DEF Next, vars, ChangeRole

(* The core invariant is inductive. *)
LEMMA CoreStep ==
  ASSUME CoreInv, [Next]_vars
  PROVE  CoreInv'
<1>1. TypeOK'
  BY StepKeepsTypes DEF CoreInv
<1>2. AbsentInv'
  <2>1. ASSUME NEW a \in App, app'[a].state = "ABSENT" PROVE app'[a] = NoRow
    <3>1. app'[a] = app[a]
      BY <2>1, RowsGrow
    <3>2. QED
      BY <2>1, <3>1 DEF CoreInv, AbsentInv
  <2>2. QED
    BY <2>1 DEF AbsentInv
<1>3. LockInv' /\ \A q \in Request : RequestInv(q)'
  <2>1. CASE \E r \in Request : Step(r)
    BY <2>1, StepKeepsRequests
  <2>2. CASE UNCHANGED <<app, audit, lock, phase, call, tx>>
    <3>1. LockInv'
      BY <2>2 DEF CoreInv, LockInv
    <3>2. \A q \in Request : RequestInv(q)'
      BY <2>2, OthersKeep DEF CoreInv
    <3>3. QED
      BY <3>1, <3>2
  <2>3. QED
    BY <2>1, <2>2 DEF Next, ChangeRole, vars
<1>4. QED
  BY <1>1, <1>2, <1>3 DEF CoreInv

(* Whatever version a client sends, what a request has read is the row or  *)
(* an older one, and what it will commit is its patch of the row as it is. *)
THEOREM CoreInductive == Spec => []CoreInv
<1>1. CoreInv /\ [Next]_vars => CoreInv'
  BY CoreStep
<1>2. QED
  BY <1>1, CoreInit, PTL DEF Spec

(* A commit fits when the version sent is not above the one that was read: *)
(* then the row the UPDATE found is the very row the rule was decided on.  *)
LEMMA CommitFits ==
  ASSUME CoreInv, NEW r \in Request, Commit(r), call[r].version <= tx[r].read.version
  PROVE  \E rule \in TRANSITIONS :
           /\ rule.action = call[r].action
           /\ LegalMove(call[r].id, rule, call[r].user, call[r].role)
<1>1. phase[r] = "audited" /\ phase[r] \in InTransaction \ {"admitted"} /\ phase[r] \in Holding
  BY HoldingPhases DEF Commit
<1>2. tx[r] \in Tx /\ app[call[r].id] \in Row
  BY <1>1, ReadRowExists
<1>3. PICK rule \in TRANSITIONS :
        /\ rule.action = call[r].action
        /\ rule.to = tx[r].to
        /\ Permitted(rule, call[r].user, call[r].role, tx[r].read)
  BY <1>1 DEF CoreInv, RequestInv, ReadInv, HoldsRule
<1>4. tx[r].read = app[call[r].id]
  <2>1. /\ tx[r].read.version <= app[call[r].id].version
        /\ tx[r].read.version = app[call[r].id].version => tx[r].read = app[call[r].id]
    BY <1>1 DEF CoreInv, RequestInv, ReadInv
  <2>2. tx[r].read.version \in Nat /\ app[call[r].id].version \in Nat
    BY <1>2 DEF Tx, Row
  <2>3. app[call[r].id].version = call[r].version
    BY CommitWrites
  <2>4. QED
    BY <2>1, <2>2, <2>3
<1>5. app' = [app EXCEPT ![call[r].id] =
                ComputePatch(app[call[r].id], rule.action, rule.to, call[r].user)]
  BY <1>3, CommitWrites
<1>6. EntryOf(r) = [action        |-> MapToAuditAction[rule.action],
                    previousState |-> rule.from,
                    newState      |-> rule.to,
                    actorId       |-> call[r].user,
                    actorRole     |-> call[r].role]
  BY <1>3 DEF EntryOf, Permitted
<1>7. QED
  BY <1>3, <1>4, <1>5, <1>6, CommitWrites DEF LegalMove

(* Only a version above the one the request has read can lead it astray:   *)
(* every other commit, however stale or repeated the call, is a move of    *)
(* the table, by somebody it permits, on the row as it is.                 *)
THEOREM OnlyNewerVersionsMisfit == Spec => OlderVersionsFit
<1>1. CoreInv /\ [Next]_vars =>
        [\A r \in Request :
           Commit(r) /\ call[r].version <= tx[r].read.version =>
             \E rule \in TRANSITIONS :
               /\ rule.action = call[r].action
               /\ LegalMove(call[r].id, rule, call[r].user, call[r].role)]_vars
  BY CommitFits
<1>2. QED
  BY <1>1, CoreInductive, PTL DEF Spec, OlderVersionsFit

--------------------------------------------------------------------------------
(***************************************************************************)
(* What holds where clients send only versions they were shown.  The       *)
(* version sent is then at most the one that is read, so when the WHERE    *)
(* clause finds it, all three versions are equal and the rule is right for *)
(* the row as it is.  The row lock keeps it so until the commit, and the   *)
(* rows keep the shape the table gives them.                               *)
(***************************************************************************)
\* The columns go with the state.
RowInv ==
  \A a \in App :
    /\ app[a].state \in {"DRAFT", "SUBMITTED"} => app[a].reviewerId = NoUser
    /\ app[a].state \notin TERMINAL_STATES => app[a].approverId = NoUser

NotAhead(r) ==
  /\ phase[r] \in InTransaction => call[r].version <= app[call[r].id].version
  /\ phase[r] \in InTransaction \ {"admitted"} => call[r].version <= tx[r].read.version

IInv == CoreInv /\ RowInv /\ \A r \in Request : NotAhead(r)

(* The heart of the matter: what commits is a legal move of the row as it  *)
(* is at the commit, however stale the row was that the request read.      *)
LEMMA CommitIsLegal ==
  ASSUME IInv, NEW r \in Request, Commit(r)
  PROVE  \E rule \in TRANSITIONS :
           /\ rule.action = call[r].action
           /\ LegalMove(call[r].id, rule, call[r].user, call[r].role)
<1>1. phase[r] \in InTransaction \ {"admitted"}
  BY HoldingPhases DEF Commit
<1>2. call[r].version <= tx[r].read.version
  BY <1>1 DEF IInv, NotAhead
<1>3. QED
  BY <1>2, CommitFits DEF IInv

(* Rows and trails change by legal moves and openings only. *)
LEMMA StepsAreLegal ==
  ASSUME IInv, [Next]_vars
  PROVE  \/ UNCHANGED <<app, audit>>
         \/ \E a \in App, u \in User :
              \/ LegalOpen(a, u)
              \/ \E rule \in TRANSITIONS, ro \in UserRole : LegalMove(a, rule, u, ro)
<1>1. ASSUME NEW r \in Request, Step(r), ~Create(r), ~Commit(r)
      PROVE  UNCHANGED <<app, audit>>
  BY <1>1 DEF Step, Serve, BeginCreate, BeginTransition, Admit, Resolve, Refuse,
     Update, RecordAudit, Abort, Recycle
<1>2. QED
  BY <1>1, CommitIsLegal, CommitWrites, CreateIsLegal DEF Next, vars, ChangeRole, IInv

(* Legal steps keep the columns in agreement with the state. *)
LEMMA LegalKeepsRows ==
  ASSUME TypeOK, RowInv, NEW a \in App, NEW u \in User,
         \/ LegalOpen(a, u)
         \/ \E rule \in TRANSITIONS, ro \in UserRole : LegalMove(a, rule, u, ro)
  PROVE  RowInv'
<1>1. CASE LegalOpen(a, u)
  BY <1>1 DEF LegalOpen, NewRow, RowInv, TypeOK, TERMINAL_STATES
<1>2. ASSUME NEW rule \in TRANSITIONS, NEW ro \in UserRole, LegalMove(a, rule, u, ro)
      PROVE  RowInv'
  <2>1. app' = [app EXCEPT ![a] = ComputePatch(app[a], rule.action, rule.to, u)]
        /\ rule.from = app[a].state
    BY <1>2 DEF LegalMove, Permitted
  <2>2. /\ rule.to # "ABSENT"
        /\ rule.to \in {"DRAFT", "SUBMITTED"} =>
             rule.action = "SUBMIT" /\ rule.from = "DRAFT"
        /\ rule.to \notin TERMINAL_STATES => rule.action \notin Decisions
        /\ rule.from \notin TERMINAL_STATES
    BY DEF TRANSITIONS, TERMINAL_STATES, Decisions
  <2>3. LET p == ComputePatch(app[a], rule.action, rule.to, u) IN
        /\ p.state = rule.to
        /\ p.reviewerId = IF rule.action = "START_REVIEW" THEN u ELSE app[a].reviewerId
        /\ p.approverId = IF rule.action \in Decisions THEN u ELSE app[a].approverId
    BY DEF ComputePatch
  <2>4. ASSUME NEW b \in App, b # a PROVE app'[b] = app[b]
    BY <2>1, <2>4 DEF TypeOK
  <2>5. app'[a] = ComputePatch(app[a], rule.action, rule.to, u)
    BY <2>1 DEF TypeOK
  <2>6. QED
    BY <2>1, <2>2, <2>3, <2>4, <2>5 DEF RowInv
<1>3. QED
  BY <1>1, <1>2

(* The inductive invariant holds at first.                                 *)
LEMMA IInvInit == Init => IInv
<1>1. Init => RowInv /\ \A r \in Request : NotAhead(r)
  BY Phases, HoldingPhases DEF Init, RowInv, NotAhead, NoRow
<1>2. QED
  BY <1>1, CoreInit DEF IInv

(* Nobody gets ahead: a version that was shown is one the row has reached, *)
(* and versions never go back.                                             *)
LEMMA NobodyGetsAhead ==
  ASSUME ShownVersions, CoreInv, [Next]_vars, NEW q \in Request, NotAhead(q)
  PROVE  NotAhead(q)'
<1>1. ASSUME phase'[q] = phase[q], call'[q] = call[q],
             phase[q] \in InTransaction \ {"admitted"} => tx'[q].read = tx[q].read
      PROVE  NotAhead(q)'
  <2>1. CASE phase[q] \notin InTransaction
    BY <1>1, <2>1 DEF NotAhead
  <2>2. CASE phase[q] \in InTransaction
    <3>1. call[q].id \in App /\ call[q].version \in Nat
      BY <2>2, Phases DEF CoreInv, TypeOK, RequestOK, Call
    <3>2. app[call[q].id].version \in Nat
      BY <3>1 DEF CoreInv, TypeOK, Row
    <3>3. app'[call[q].id].version >= app[call[q].id].version
          /\ app'[call[q].id].version \in Nat
      BY <3>1, <3>2, RowsGrow DEF NoRow
    <3>4. QED
      BY <1>1, <2>2, <3>1, <3>2, <3>3 DEF NotAhead
  <2>3. QED
    BY <2>1, <2>2
<1>2. CASE UNCHANGED <<phase, call, tx>>
  BY <1>1, <1>2
<1>3. ASSUME NEW r \in Request, Step(r), r # q
      PROVE  phase'[q] = phase[q] /\ call'[q] = call[q] /\ tx'[q] = tx[q]
  BY <1>3 DEF Step, Serve, BeginCreate, BeginTransition, Admit, Create, Resolve, Refuse,
     Update, RecordAudit, Commit, Abort, Recycle, Drop, Finish, CoreInv, TypeOK
<1>4. ASSUME Step(q) PROVE NotAhead(q)'
  <2>1. CASE phase'[q] \notin InTransaction
    BY <2>1 DEF NotAhead
  <2>2. CASE BeginCreate(q)
    <3>1. PICK u \in User, a \in App :
            Admit(q, [user |-> u, role |-> role[u], action |-> "CREATE",
                      id |-> a, version |-> 0])
      BY <2>2 DEF BeginCreate
    <3>2. /\ phase'[q] = "admitted" /\ call'[q].version = 0 /\ call'[q].id = a
          /\ app' = app /\ app[a].version \in Nat
      BY <3>1 DEF Admit, CoreInv, TypeOK, Row
    <3>3. QED
      BY <3>2, HoldingPhases DEF NotAhead
  <2>3. CASE BeginTransition(q)
    <3>1. PICK u \in User, action \in WorkflowAction, a \in App, v \in 0 .. MaxVersion - 1 :
            /\ v <= app[a].version + MaxLead
            /\ Admit(q, [user |-> u, role |-> role[u], action |-> action,
                         id |-> a, version |-> v])
      BY <2>3 DEF BeginTransition
    <3>2. /\ phase'[q] = "admitted" /\ call'[q].version = v /\ call'[q].id = a
          /\ app' = app /\ app[a].version \in Nat /\ v <= app[a].version
      BY <3>1 DEF Admit, CoreInv, TypeOK, Row, ShownVersions
    <3>3. QED
      BY <3>2, HoldingPhases DEF NotAhead
  <2>4. CASE Resolve(q)
    <3>1. PICK rule \in TRANSITIONS :
            tx' = [tx EXCEPT ![q] = [read |-> app[call[q].id], to |-> rule.to,
                                     write |-> NoRow, entry |-> NoEntry]]
      BY <2>4 DEF Resolve, RulesFor, Loaded
    <3>2. /\ phase[q] = "admitted" /\ app' = app /\ call' = call
          /\ tx'[q].read = app[call[q].id]
      BY <2>4, <3>1 DEF Resolve, Loading, CoreInv, TypeOK
    <3>3. QED
      BY <3>2, Phases DEF NotAhead
  <2>5. CASE Update(q) \/ RecordAudit(q)
    <3>1. CASE phase'[q] \in InTransaction
      <4>1. /\ phase[q] \in InTransaction \ {"admitted"} /\ app' = app /\ call' = call
            /\ tx'[q].read = tx[q].read
        BY <2>5, <3>1, HoldingPhases, Phases
           DEF Update, RecordAudit, Finish, CoreInv, TypeOK
      <4>2. QED
        BY <4>1 DEF NotAhead
    <3>2. QED
      BY <2>1, <3>1
  <2>6. CASE Create(q) \/ Refuse(q) \/ Commit(q) \/ Abort(q) \/ Recycle(q)
    <3>1. phase'[q] \notin InTransaction
      BY <2>6, Phases DEF Create, Refuse, Commit, Abort, Recycle, Drop, Finish, CoreInv, TypeOK
    <3>2. QED
      BY <2>1, <3>1
  <2>7. QED
    BY <1>4, <2>2, <2>3, <2>4, <2>5, <2>6 DEF Step, Serve
<1>5. QED
  BY <1>1, <1>2, <1>3, <1>4 DEF Next, ChangeRole, vars

(* The invariant is inductive. *)
LEMMA IInvStep ==
  ASSUME ShownVersions, IInv, [Next]_vars
  PROVE  IInv'
<1>1. CoreInv'
  BY CoreStep DEF IInv
<1>2. RowInv'
  <2>1. CASE UNCHANGED <<app, audit>>
    BY <2>1 DEF IInv, RowInv
  <2>2. CASE ~UNCHANGED <<app, audit>>
    BY <2>2, StepsAreLegal, LegalKeepsRows DEF IInv, CoreInv
  <2>3. QED
    BY <2>1, <2>2
<1>3. \A q \in Request : NotAhead(q)'
  BY NobodyGetsAhead DEF IInv
<1>4. QED
  BY <1>1, <1>2, <1>3 DEF IInv

(* Where clients send only versions they were shown, whatever a request    *)
(* has read, what it holds is right or its version is out of date: the     *)
(* inductive invariant holds in every reachable state.                     *)
THEOREM Inductive ==
  ASSUME ShownVersions
  PROVE  Spec => []IInv
<1>1. IInv /\ [Next]_vars => IInv'
  BY IInvStep
<1>2. QED
  BY <1>1, IInvInit, PTL DEF Spec

(* The WHERE clause matched: the row is the one that was read. *)
LEMMA MatchMeansFresh ==
  ASSUME IInv, NEW r \in Request, phase[r] = "resolved", VersionMatches(r)
  PROVE  /\ tx[r].read = app[call[r].id]
         /\ call[r].id \in App /\ call[r].user \in User
         /\ app[call[r].id] \in Row
         /\ \E rule \in TRANSITIONS :
              /\ rule.action = call[r].action
              /\ rule.to = tx[r].to
              /\ Permitted(rule, call[r].user, call[r].role, app[call[r].id])
<1>1. call[r] \in Call /\ tx[r] \in Tx
  BY Phases, HoldingPhases DEF IInv, CoreInv, TypeOK, RequestOK
<1>2. app[call[r].id] \in Row /\ tx[r].read \in Row
  BY <1>1 DEF IInv, CoreInv, TypeOK, Call, Tx
<1>3. /\ ReadInv(r) /\ phase[r] \in InTransaction \ {"admitted"}
      /\ call[r].version <= tx[r].read.version
  BY HoldingPhases DEF IInv, CoreInv, RequestInv, NotAhead
<1>4. tx[r].read = app[call[r].id]
  <2>1. /\ call[r].version <= tx[r].read.version
        /\ tx[r].read.version <= app[call[r].id].version
        /\ tx[r].read.version = app[call[r].id].version => tx[r].read = app[call[r].id]
    BY <1>3 DEF ReadInv
  <2>2. tx[r].read.version \in Nat /\ app[call[r].id].version \in Nat
    BY <1>2 DEF Row
  <2>3. app[call[r].id].version = call[r].version
    BY DEF VersionMatches
  <2>4. QED
    BY <2>1, <2>2, <2>3
<1>5. QED
  BY <1>1, <1>2, <1>3, <1>4 DEF ReadInv, HoldsRule, Call

(* The database's CHECK holds for every row the UPDATE may write. *)
LEMMA CheckHolds ==
  ASSUME IInv, NEW r \in Request, phase[r] = "resolved", VersionMatches(r)
  PROVE  ReviewerNotApprover(Written(r))
<1>1. PICK rule \in TRANSITIONS :
        /\ rule.action = call[r].action
        /\ rule.to = tx[r].to
        /\ Permitted(rule, call[r].user, call[r].role, app[call[r].id])
  BY MatchMeansFresh
<1>2. rule.from = app[call[r].id].state /\ rule.from \notin TERMINAL_STATES
  BY <1>1, RuleTypes DEF Permitted
<1>3. app[call[r].id].approverId = NoUser
  BY <1>2, MatchMeansFresh DEF IInv, RowInv
<1>4. CASE call[r].action \in Decisions
  BY <1>1, <1>4 DEF Written, ComputePatch, ReviewerNotApprover, Permitted,
     SamePersonDecides, Decisions
<1>5. CASE call[r].action \notin Decisions
  BY <1>3, <1>5 DEF Written, ComputePatch, ReviewerNotApprover
<1>6. QED
  BY <1>4, <1>5

(* A decision is final: no request, however long under way, changes a      *)
(* decided row or its trail (the WHERE clause with the version).           *)
THEOREM DecisionsAreFinal ==
  ASSUME ShownVersions
  PROVE  Spec => DecisionIsFinal
<1>1. IInv /\ [Next]_vars =>
        [\A a \in App : app[a].state \in TERMINAL_STATES =>
           app'[a] = app[a] /\ audit'[a] = audit[a]]_vars
  <2> SUFFICES ASSUME IInv, [Next]_vars, NEW a \in App,
                      app[a].state \in TERMINAL_STATES
               PROVE  app'[a] = app[a] /\ audit'[a] = audit[a]
    OBVIOUS
  <2>1. CASE UNCHANGED <<app, audit>>
    BY <2>1
  <2>2. ASSUME NEW b \in App, NEW u \in User, LegalOpen(b, u)
        PROVE  app'[a] = app[a] /\ audit'[a] = audit[a]
    <3>1. a # b
      BY <2>2 DEF LegalOpen, NoRow, TERMINAL_STATES
    <3>2. QED
      BY <2>2, <3>1 DEF LegalOpen, IInv, CoreInv, TypeOK
  <2>3. ASSUME NEW b \in App, NEW u \in User, NEW rule \in TRANSITIONS,
               NEW ro \in UserRole, LegalMove(b, rule, u, ro)
        PROVE  app'[a] = app[a] /\ audit'[a] = audit[a]
    <3>1. a # b
      BY <2>3, RuleTypes DEF LegalMove, Permitted
    <3>2. QED
      BY <2>3, <3>1 DEF LegalMove, IInv, CoreInv, TypeOK
  <2>4. QED
    BY <2>1, <2>2, <2>3, StepsAreLegal
<1>2. QED
  BY <1>1, Inductive, PTL DEF Spec, DecisionIsFinal

(* The CHECK of the database is never reached: whatever raced with a       *)
(* decision, the service has refused its reviewer before.                  *)
LEMMA ConstraintStep ==
  ASSUME IInv, ConstraintNeverFires, [Next]_vars
  PROVE  ConstraintNeverFires'
<1>1. ASSUME NEW r \in Request, Step(r) PROVE phase'[r] # "CHECK_VIOLATED"
  <2>1. CASE Update(r)
    <3>1. phase[r] = "resolved"
      BY <2>1 DEF Update
    <3>2. \/ Finish(r, "CONCURRENT_MODIFICATION")
          \/ phase' = [phase EXCEPT ![r] = "updated"]
      BY <2>1, <3>1, CheckHolds DEF Update
    <3>3. QED
      BY <3>2 DEF Finish, IInv, CoreInv, TypeOK
  <2>2. CASE ~Update(r)
    BY <1>1, <2>2 DEF Step, Serve, BeginCreate, BeginTransition, Admit, Create, Resolve,
       Refuse, RecordAudit, Commit, Abort, Recycle, Drop, Finish, IInv, CoreInv, TypeOK
  <2>3. QED
    BY <2>1, <2>2
<1>2. ASSUME NEW r \in Request, Step(r), NEW q \in Request \ {r}
      PROVE  phase'[q] = phase[q]
  BY <1>2 DEF Step, Serve, BeginCreate, BeginTransition, Admit, Create, Resolve,
     Refuse, Update, RecordAudit, Commit, Abort, Recycle, Drop, Finish, IInv, CoreInv, TypeOK
<1>3. QED
  BY <1>1, <1>2 DEF Next, ChangeRole, vars, ConstraintNeverFires

(* ConstraintNeverFires: the CHECK that approver and reviewer differ never *)
(* stops an update, since transition() has refused the reviewer before     *)
(* (step 4).                                                               *)
THEOREM ReviewerIsRefusedInTime ==
  ASSUME ShownVersions
  PROVE  Spec => []ConstraintNeverFires
<1>1. Init => ConstraintNeverFires
  BY DEF Init, ConstraintNeverFires
<1>2. IInv /\ ConstraintNeverFires /\ [Next]_vars => ConstraintNeverFires'
  BY ConstraintStep
<1>3. QED
  BY <1>1, <1>2, Inductive, PTL DEF Spec

(* The reviewer and the owner of a row stay the same once they are set:    *)
(* START_REVIEW assigns whoever calls it, but the table lets only the      *)
(* assigned reviewer call it again.                                        *)
THEOREM ReviewersKeepTheirCases ==
  ASSUME ShownVersions
  PROVE  Spec => ReviewerKeepsTheApplication
<1>1. IInv /\ [Next]_vars =>
        [\A a \in App :
           /\ app[a].reviewerId # NoUser => app'[a].reviewerId = app[a].reviewerId
           /\ app[a].state # "ABSENT" => app'[a].applicantId = app[a].applicantId]_vars
  <2> SUFFICES ASSUME IInv, [Next]_vars, NEW a \in App
               PROVE  /\ app[a].reviewerId # NoUser =>
                           app'[a].reviewerId = app[a].reviewerId
                      /\ app[a].state # "ABSENT" =>
                           app'[a].applicantId = app[a].applicantId
    OBVIOUS
  <2>1. CASE UNCHANGED <<app, audit>>
    BY <2>1
  <2>2. ASSUME NEW b \in App, NEW u \in User, LegalOpen(b, u)
        PROVE  app'[a] = app[a] \/ app[a] = NoRow
    BY <2>2 DEF LegalOpen, IInv, CoreInv, TypeOK
  <2>3. ASSUME NEW b \in App, NEW u \in User, NEW rule \in TRANSITIONS,
               NEW ro \in UserRole, LegalMove(b, rule, u, ro)
        PROVE  /\ app[a].reviewerId # NoUser =>
                    app'[a].reviewerId = app[a].reviewerId
               /\ app'[a].applicantId = app[a].applicantId
    <3>1. CASE a # b
      BY <2>3, <3>1 DEF LegalMove, IInv, CoreInv, TypeOK
    <3>2. CASE a = b
      <4>1. app'[a] = ComputePatch(app[a], rule.action, rule.to, u)
        BY <2>3, <3>2 DEF LegalMove, IInv, CoreInv, TypeOK
      <4>2. /\ rule.from = app[a].state
            /\ rule.bond = "reviewer" => app[a].reviewerId = u
        BY <2>3, <3>2 DEF LegalMove, Permitted, CanAct, ActorContext
      <4>3. rule.action = "START_REVIEW" =>
              rule.from = "SUBMITTED" \/ rule.bond = "reviewer"
        BY DEF TRANSITIONS
      <4>4. app[a].state = "SUBMITTED" => app[a].reviewerId = NoUser
        BY DEF IInv, RowInv
      <4>5. QED
        BY <4>1, <4>2, <4>3, <4>4 DEF ComputePatch
    <3>3. QED
      BY <3>1, <3>2
  <2>4. QED
    BY <2>1, <2>2, <2>3, StepsAreLegal DEF NoRow
<1>2. QED
  BY <1>1, Inductive, PTL DEF Spec, ReviewerKeepsTheApplication

================================================================================
