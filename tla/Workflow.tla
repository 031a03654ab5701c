-------------------------------- MODULE Workflow --------------------------------
(***************************************************************************)
(* WorkflowService.transition() and ApplicationsService.create() as the    *)
(* server runs them: many requests at once, each a database transaction of *)
(* several statements under PostgreSQL's READ COMMITTED isolation.         *)
(*                                                                         *)
(* A request passes the guards (JwtStrategy, RolesGuard), reads the row,   *)
(* decides, updates the row under its lock and only if the version is the  *)
(* one the client sent, writes the audit entry, and commits.  Writes are   *)
(* private until the commit.  At any point the transaction may fail, and   *)
(* the answer to a committed one may be lost; a client that retries sends  *)
(* the same call again, which is a request of its own here.                *)
(***************************************************************************)
EXTENDS Transitions, Sequences

CONSTANTS Role,        \* bound: the roles in play
          App,         \* ids of applications
          Request,     \* requests the server serves at the same time
          NoRequest,   \* a row lock nobody holds
          MaxVersion,  \* bound: clients act on versions below this one
          MaxLag,      \* bound: how far a version may be behind when it is sent
          MaxLead      \* bound: how far it may be ahead of the row's

ASSUME WorkflowAssumption ==
  /\ Role \subseteq UserRole
  /\ NoRequest \notin Request
  /\ MaxVersion \in Nat
  /\ MaxLag \in Nat
  /\ MaxLead \in Nat

\* The condition on clients: they send versions they were shown, never one the
\* row has yet to reach.  The server does not ask for it.
ShownVersions == MaxLead = 0

VARIABLES
  role,    \* role[u]: User.role, as committed
  app,     \* app[a]: the committed row of application a
  audit,   \* audit[a]: the committed audit entries of a, in order of insertion
  lock,    \* lock[a]: the request whose transaction has updated row a
  phase,   \* phase[r]: how far request r is, or how it was answered
  call,    \* call[r]: what r asks for, and for whom
  tx       \* tx[r]: what r has read and written and not yet committed

vars == <<role, app, audit, lock, phase, call, tx>>

--------------------------------------------------------------------------------
Endpoint == WorkflowAction \cup {"CREATE"}

\* The @Roles decorator of each endpoint.
RequiredRole ==
  [e \in Endpoint |->
     IF e \in {"CREATE", "SUBMIT", "RESUBMIT"} THEN "APPLICANT"
     ELSE IF e \in {"START_REVIEW", "REQUEST_INFO"} THEN "REVIEWER"
     ELSE "APPROVER"]

Conflict == {"ILLEGAL_STATE_TRANSITION", "CONCURRENT_MODIFICATION"}   \* HTTP 409

\* How a request may be answered.  CHECK_VIOLATED is the opaque 500 of a failed
\* constraint.
Answer == Conflict \cup {"OK", "NOT_FOUND", "FORBIDDEN", "CHECK_VIOLATED"}

InTransaction == {"admitted", "resolved", "updated", "audited"}

Holding == {"updated", "audited"}

AuditEntry == [action        : AuditAction,
               previousState : ApplicationState \cup {"ABSENT"},
               newState      : ApplicationState,
               actorId       : User,
               actorRole     : UserRole]

NoEntry == [action |-> "NONE"]

Call == [user : User, role : UserRole, action : Endpoint,
         id : App, version : Nat]

NoCall == [action |-> "NONE"]

Tx == [read : Row, to : ApplicationState, write : Row,
       entry : AuditEntry \cup {NoEntry}]

NoTx == [to |-> "NONE"]

--------------------------------------------------------------------------------
Init ==
  /\ role \in [User -> Role]
  /\ app = [a \in App |-> NoRow]
  /\ audit = [a \in App |-> << >>]
  /\ lock = [a \in App |-> NoRequest]
  /\ phase = [r \in Request |-> "idle"]
  /\ call = [r \in Request |-> NoCall]
  /\ tx = [r \in Request |-> NoTx]

\* Faulty form: the row lock outlives the transaction.
Finish_KeepsLock(r, answer) ==
  /\ phase' = [phase EXCEPT ![r] = answer]
  /\ tx' = [tx EXCEPT ![r] = NoTx]
  /\ UNCHANGED lock

\* The end of a request: its transaction is gone, and so is its row lock.
Finish(r, answer) ==
  /\ phase' = [phase EXCEPT ![r] = answer]
  /\ tx' = [tx EXCEPT ![r] = NoTx]
  /\ lock' = [a \in App |-> IF lock[a] = r THEN NoRequest ELSE lock[a]]

\* A request that ends without an answer the client can use.
Drop(r) ==
  /\ Finish(r, "idle")
  /\ call' = [call EXCEPT ![r] = NoCall]

(***************************************************************************)
(* An authenticated call arrives.  JwtStrategy.validate reads the role of  *)
(* the user, and the request keeps it to its end.  RolesGuard turns away   *)
(* every role but the endpoint's; such a call touches nothing.             *)
(***************************************************************************)
Admit(r, c) ==
  /\ phase[r] = "idle"
  /\ c.role = RequiredRole[c.action]
  /\ call' = [call EXCEPT ![r] = c]
  /\ phase' = [phase EXCEPT ![r] = "admitted"]
  /\ UNCHANGED <<role, app, audit, lock, tx>>

\* The id the row will have is fresh (a uuid); it is chosen here already.
BeginCreate(r) ==
  \E u \in User, a \in App :
    /\ app[a] = NoRow
    /\ \A q \in Request : call[q].action = "CREATE" => call[q].id # a
    /\ Admit(r, [user |-> u, role |-> role[u], action |-> "CREATE",
                 id |-> a, version |-> 0])

\* The body is checked for an integer that is not negative, and for no more: the
\* version may be the row's, one it had, or one it does not have yet.
BeginTransition(r) ==
  \E u \in User, action \in WorkflowAction, a \in App, v \in 0 .. MaxVersion - 1 :
    /\ app[a].version <= v + MaxLag
    /\ v <= app[a].version + MaxLead
    /\ Admit(r, [user |-> u, role |-> role[u], action |-> action,
                 id |-> a, version |-> v])

(***************************************************************************)
(* ApplicationsService.create: the row and its first audit entry, in one   *)
(* transaction that no other can see into before it commits.               *)
(***************************************************************************)
Create(r) ==
  /\ phase[r] = "admitted"
  /\ call[r].action = "CREATE"
  /\ app[call[r].id] = NoRow
  /\ app' = [app EXCEPT ![call[r].id] = NewRow(call[r].user)]
  /\ audit' = [audit EXCEPT ![call[r].id] =
                 Append(@, [action        |-> "APPLICATION_CREATED",
                            previousState |-> "ABSENT",
                            newState      |-> "DRAFT",
                            actorId       |-> call[r].user,
                            actorRole     |-> call[r].role])]
  /\ (Finish(r, "OK") /\ UNCHANGED call) \/ Drop(r)
  /\ UNCHANGED role

--------------------------------------------------------------------------------
(* transition(), statement by statement. *)

Loading(r) == phase[r] = "admitted" /\ call[r].action \in WorkflowAction

\* The rows findUnique may return to r: the committed one.
Loaded(r) == app[call[r].id]

\* Steps 1 to 4 pass: the request holds a rule, decided on the row it read.
Resolve(r) ==
  /\ Loading(r)
  /\ \E rule \in RulesFor(Loaded(r).state, call[r].action) :
       /\ Permitted(rule, call[r].user, call[r].role, Loaded(r))
       /\ tx' = [tx EXCEPT ![r] = [read |-> Loaded(r), to |-> rule.to,
                                   write |-> NoRow, entry |-> NoEntry]]
  /\ phase' = [phase EXCEPT ![r] = "resolved"]
  /\ UNCHANGED <<role, app, audit, lock, call>>

\* Steps 1 to 4 refuse: no such row, no rule for its state, or not this actor.
Refuse(r) ==
  /\ Loading(r)
  /\ \/ /\ Loaded(r) = NoRow
        /\ Finish(r, "NOT_FOUND")
     \/ /\ Loaded(r) # NoRow
        /\ RulesFor(Loaded(r).state, call[r].action) = {}
        /\ Finish(r, "ILLEGAL_STATE_TRANSITION")
     \/ /\ RulesFor(Loaded(r).state, call[r].action) # {}
        /\ \A rule \in RulesFor(Loaded(r).state, call[r].action) :
             ~Permitted(rule, call[r].user, call[r].role, Loaded(r))
        /\ Finish(r, "FORBIDDEN")
  /\ UNCHANGED <<role, app, audit, call>>

\* Faulty forms: no version in the WHERE; any version up to the row's; off by one.
VersionMatches_Unchecked(r) == TRUE

VersionMatches_NotNewer(r) == call[r].version <= app[call[r].id].version

VersionMatches_OffByOne(r) == call[r].version + 1 = app[call[r].id].version

\* The WHERE clause of the UPDATE, on the row as it is when r gets at it.
VersionMatches(r) == app[call[r].id].version = call[r].version

Written(r) == ComputePatch(app[call[r].id], call[r].action, tx[r].to, call[r].user)

(***************************************************************************)
(* Steps 5 and 6.  The UPDATE waits while another transaction has the row  *)
(* locked, and then evaluates its WHERE on what that one committed.        *)
(***************************************************************************)
Update(r) ==
  /\ phase[r] = "resolved"
  /\ lock[call[r].id] = NoRequest
  /\ IF ~VersionMatches(r) THEN Finish(r, "CONCURRENT_MODIFICATION")
     ELSE IF ~ReviewerNotApprover(Written(r)) THEN Finish(r, "CHECK_VIOLATED")
     ELSE /\ phase' = [phase EXCEPT ![r] = "updated"]
          /\ lock' = [lock EXCEPT ![call[r].id] = r]
          /\ tx' = [tx EXCEPT ![r] = [read |-> tx[r].read, to |-> tx[r].to,
                                      write |-> Written(r), entry |-> NoEntry]]
  /\ UNCHANGED <<role, app, audit, call>>

\* The entry of a transition.  Its previousState is the state of the row that
\* was read, not of the row that was updated.
EntryOf(r) == [action        |-> MapToAuditAction[call[r].action],
               previousState |-> tx[r].read.state,
               newState      |-> tx[r].to,
               actorId       |-> call[r].user,
               actorRole     |-> call[r].role]

\* Faulty form: record() in place of recordWithTx(), so the entry is out at once.
RecordAudit_OutsideTx(r) ==
  /\ phase[r] = "updated"
  /\ audit' = [audit EXCEPT ![call[r].id] =
                 Append(@, EntryOf(r))]
  /\ phase' = [phase EXCEPT ![r] = "audited"]
  /\ UNCHANGED <<role, app, lock, call, tx>>

\* Step 7: the entry goes into the same transaction.
RecordAudit(r) ==
  /\ phase[r] = "updated"
  /\ tx' = [tx EXCEPT ![r] = [read |-> tx[r].read, to |-> tx[r].to,
                              write |-> tx[r].write, entry |-> EntryOf(r)]]
  /\ phase' = [phase EXCEPT ![r] = "audited"]
  /\ UNCHANGED <<role, app, audit, lock, call>>

\* The transaction commits; the answer reaches the client or is lost.
Commit(r) ==
  /\ phase[r] = "audited"
  /\ app' = [app EXCEPT ![call[r].id] = tx[r].write]
  /\ audit' = [audit EXCEPT ![call[r].id] = Append(@, tx[r].entry)]
  /\ (Finish(r, "OK") /\ UNCHANGED call) \/ Drop(r)
  /\ UNCHANGED role

\* A statement fails, the five seconds of an interactive transaction are over,
\* or the process dies: PostgreSQL rolls back.
Abort(r) ==
  /\ phase[r] \in InTransaction
  /\ Drop(r)
  /\ UNCHANGED <<role, app, audit>>

\* The connection is free for another call.
Recycle(r) ==
  /\ phase[r] \in Answer
  /\ phase' = [phase EXCEPT ![r] = "idle"]
  /\ call' = [call EXCEPT ![r] = NoCall]
  /\ UNCHANGED <<role, app, audit, lock, tx>>

\* An administrator gives a user another role (UsersService.update).
ChangeRole ==
  /\ \E u \in User, new \in Role : role' = [role EXCEPT ![u] = new]
  /\ UNCHANGED <<app, audit, lock, phase, call, tx>>

--------------------------------------------------------------------------------
\* What the server does for a request it has admitted.
Serve(r) == Create(r) \/ Resolve(r) \/ Refuse(r) \/ Update(r) \/ RecordAudit(r)
            \/ Commit(r)

Step(r) == BeginCreate(r) \/ BeginTransition(r) \/ Serve(r) \/ Abort(r) \/ Recycle(r)

Next == ChangeRole \/ \E r \in Request : Step(r)

Spec == Init /\ [][Next]_vars

(***************************************************************************)
(* The event loop and PostgreSQL go on with every admitted request: weak   *)
(* fairness of its statements.  A transaction that waits for a row lock is *)
(* queued, so it is not passed over for ever: strong fairness of the       *)
(* UPDATE.  Nothing is assumed of clients, administrators or failures.     *)
(***************************************************************************)
Fairness == \A r \in Request : WF_vars(Serve(r)) /\ SF_vars(Update(r))

FairSpec == Spec /\ Fairness
================================================================================
