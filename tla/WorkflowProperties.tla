--------------------------- MODULE WorkflowProperties ---------------------------
(***************************************************************************)
(* What the workflow guarantees, stated over the detailed specification.   *)
(* TypeOK, OkIsTrue, OneWinner, OlderVersionsFit, EveryRequestIsAnswered   *)
(* hold whatever versions clients send; the other nine where they send     *)
(* only versions they were shown (ShownVersions), and not without that.    *)
(***************************************************************************)
EXTENDS Workflow

(* Types of the variables; which phases a request's call, transaction and  *)
(* audit entry exist in.                                                   *)
RequestOK(r) ==
  /\ phase[r] # "idle" => call[r] \in Call
  /\ phase[r] \in InTransaction \ {"admitted"} =>
       tx[r] \in Tx /\ call[r].action \in WorkflowAction
  /\ phase[r] = "audited" => tx[r].entry \in AuditEntry

TypeOK ==
  /\ role \in [User -> UserRole]
  /\ app \in [App -> Row]
  /\ audit \in [App -> Seq(AuditEntry)]
  /\ lock \in [App -> Request \cup {NoRequest}]
  /\ phase \in [Request -> {"idle"} \cup InTransaction \cup Answer]
  /\ call \in [Request -> Call \cup {NoCall}]
  /\ tx \in [Request -> Tx \cup {NoTx}]
  /\ \A r \in Request : RequestOK(r)

--------------------------------------------------------------------------------
(* The audit trail tells the whole story of the row: it starts with the    *)
(* creation, every later entry starts from the state the one before it     *)
(* reached, the last one reached the state the row is in, and there is one *)
(* entry per version: no committed change without its entry, no entry of a *)
(* change that did not commit, no change counted twice.                    *)
AuditTellsTheStory ==
  \A a \in App :
    IF app[a].state = "ABSENT" THEN audit[a] = << >>
    ELSE /\ Len(audit[a]) = app[a].version + 1
         /\ audit[a][1].action = "APPLICATION_CREATED"
         /\ audit[a][1].newState = "DRAFT"
         /\ \A i \in 1 .. app[a].version :
              audit[a][i + 1].previousState = audit[a][i].newState
         /\ audit[a][Len(audit[a])].newState = app[a].state

(* Who did what, over the whole history of an application: only its owner  *)
(* submitted and resubmitted it, every review step was the reviewer's the  *)
(* row names, every decision the approver's it names, and each acted in    *)
(* the role its endpoint asks for.                                         *)
EveryEntryIsAuthorised ==
  \A a \in App : \A i \in DOMAIN audit[a] :
    LET e == audit[a][i] IN
    /\ e.action \in {"APPLICATION_CREATED", "APPLICATION_SUBMITTED",
                     "APPLICATION_RESUBMITTED"}
         => e.actorRole = "APPLICANT" /\ e.actorId = app[a].applicantId
    /\ e.action \in {"REVIEW_STARTED", "INFO_REQUESTED"}
         => e.actorRole = "REVIEWER" /\ e.actorId = app[a].reviewerId
    /\ e.action \in {"APPLICATION_APPROVED", "APPLICATION_REJECTED"}
         => e.actorRole = "APPROVER" /\ e.actorId = app[a].approverId

(* Nobody decides an application he ever did a review step on, whatever    *)
(* roles he had in between ("cannot be the same person who reviewed").     *)
ReviewerNeverDecides ==
  \A a \in App : \A i, j \in DOMAIN audit[a] :
    /\ audit[a][i].action \in {"REVIEW_STARTED", "INFO_REQUESTED"}
    /\ audit[a][j].action \in {"APPLICATION_APPROVED", "APPLICATION_REJECTED"}
    => audit[a][i].actorId # audit[a][j].actorId

(* The database's CHECK is a last line that is never reached: the service  *)
(* has always refused with a 403 before ("gives a clear 403 instead of a   *)
(* generic constraint violation 500"), races included.                     *)
ConstraintNeverFires == \A r \in Request : phase[r] # "CHECK_VIOLATED"

--------------------------------------------------------------------------------
(* An answer of success is true: the entry the client's version led to is  *)
(* the client's own.                                                       *)
Done(c) ==
  /\ c.action \in WorkflowAction
  /\ c.version + 2 \in DOMAIN audit[c.id]
  /\ LET e == audit[c.id][c.version + 2]
     IN /\ e.action = MapToAuditAction[c.action]
        /\ e.actorId = c.user
        /\ e.actorRole = c.role

OkIsTrue ==
  \A r \in Request :
    phase[r] = "OK" /\ call[r].action \in WorkflowAction => Done(call[r])

(* At most one request succeeds on a version of an application.            *)
OneWinner ==
  \A q, r \in Request :
    /\ q # r
    /\ phase[q] = "OK" /\ phase[r] = "OK"
    /\ call[q].action \in WorkflowAction /\ call[r].action \in WorkflowAction
    => <<call[q].id, call[q].version>> # <<call[r].id, call[r].version>>

(* "This application was modified by someone else" is said only when it    *)
(* was: the row is past the version the client sent.                       *)
ConflictIsReal ==
  \A r \in Request :
    phase[r] = "CONCURRENT_MODIFICATION" =>
      app[call[r].id].version > call[r].version

(* "A retried action returns 409 because the version has moved": a call    *)
(* that has been carried out is never refused as forbidden when it is sent *)
(* again in the same role.                                                 *)
RetryIsNotForbidden ==
  \A r \in Request : phase[r] = "FORBIDDEN" => ~Done(call[r])

--------------------------------------------------------------------------------
\* What the table lets a user do to a row: the patch of a rule he is permitted,
\* and the entry that goes with it, in one step.
LegalMove(a, rule, u, ro) ==
  /\ Permitted(rule, u, ro, app[a])
  /\ app' = [app EXCEPT ![a] = ComputePatch(app[a], rule.action, rule.to, u)]
  /\ audit' = [audit EXCEPT ![a] =
                 Append(@, [action        |-> MapToAuditAction[rule.action],
                            previousState |-> rule.from,
                            newState      |-> rule.to,
                            actorId       |-> u,
                            actorRole     |-> ro])]

(* The decision is made on one row and the update hits another; only the   *)
(* version stands between.  What it can stop is an older version: a call   *)
(* that sends no more than the version of the row it was decided on, stale *)
(* or repeated as it may be, commits a move of the table on the row as it  *)
(* is then, by somebody it permits.                                        *)
OlderVersionsFit ==
  [][\A r \in Request :
       Commit(r) /\ call[r].version <= tx[r].read.version =>
         \E rule \in TRANSITIONS :
           /\ rule.action = call[r].action
           /\ LegalMove(call[r].id, rule, call[r].user, call[r].role)]_vars

(* "APPROVED and REJECTED are terminal": a decision is final, also for     *)
(* requests that were under way when it was made; neither the row nor its  *)
(* trail changes again.                                                    *)
DecisionIsFinal ==
  [][\A a \in App : app[a].state \in TERMINAL_STATES =>
       app'[a] = app[a] /\ audit'[a] = audit[a]]_vars

(* "Once a reviewer owns an application, they own its review cycles": the  *)
(* owner and the reviewer of a row never change once they are set.         *)
ReviewerKeepsTheApplication ==
  [][\A a \in App :
       /\ app[a].reviewerId # NoUser => app'[a].reviewerId = app[a].reviewerId
       /\ app[a].state # "ABSENT" => app'[a].applicantId = app[a].applicantId]_vars

(* The requests together implement the machine of the table, in which a    *)
(* move and its trail entry are one step.                                  *)
Machine ==
  INSTANCE AuditedMachine WITH
    Item    <- App,
    Rules   <- TRANSITIONS,
    Name    <- MapToAuditAction,
    Opened  <- "APPLICATION_CREATED",
    Unborn  <- "ABSENT",
    Initial <- "DRAFT",
    state   <- [a \in App |-> app[a].state],
    trail   <- [a \in App |->
                  [i \in DOMAIN audit[a] |->
                     [action |-> audit[a][i].action,
                      from   |-> audit[a][i].previousState,
                      to     |-> audit[a][i].newState]]]

ImplementsMachine == Machine!Spec

--------------------------------------------------------------------------------
(* Every admitted request comes to an end: optimistic locking neither      *)
(* deadlocks nor leaves a request waiting for a row lock for ever.         *)
EveryRequestIsAnswered ==
  \A r \in Request : phase[r] = "admitted" ~> phase[r] \in Answer \cup {"idle"}
================================================================================
