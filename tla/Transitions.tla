------------------------------ MODULE Transitions ------------------------------
(***************************************************************************)
(* The transition table of the application workflow and the pure functions *)
(* over it (workflow/transitions.ts, workflow/state-machine.ts), together  *)
(* with the two pure helpers of WorkflowService: the row patch of an       *)
(* action and the name it has in the audit log.                            *)
(*                                                                         *)
(* A row keeps the columns the decisions read or write.  The texts (notes, *)
(* institution, licence type) are left out here.                           *)
(***************************************************************************)
EXTENDS Naturals

CONSTANTS User,    \* ids of the accounts
          NoUser   \* NULL in a user column

ASSUME NoUserAssumption == NoUser \notin User

ApplicationState ==
  {"DRAFT", "SUBMITTED", "UNDER_REVIEW", "INFO_REQUESTED", "RESUBMITTED",
   "APPROVED", "REJECTED"}

UserRole == {"APPLICANT", "REVIEWER", "APPROVER", "ADMIN"}

WorkflowAction ==
  {"SUBMIT", "START_REVIEW", "REQUEST_INFO", "RESUBMIT", "APPROVE", "REJECT"}

(***************************************************************************)
(* One record per rule.  canAct is data: the role it asks for and the bond *)
(* with the application it asks for ("applicant" = the owner, "reviewer" = *)
(* the assigned reviewer, "none" = the role is enough).                    *)
(***************************************************************************)
TRANSITIONS ==
  { [action |-> "SUBMIT",       from |-> "DRAFT",          to |-> "SUBMITTED",
     role |-> "APPLICANT", bond |-> "applicant"],
    [action |-> "START_REVIEW", from |-> "SUBMITTED",      to |-> "UNDER_REVIEW",
     role |-> "REVIEWER",  bond |-> "none"],
    [action |-> "START_REVIEW", from |-> "RESUBMITTED",    to |-> "UNDER_REVIEW",
     role |-> "REVIEWER",  bond |-> "reviewer"],
    [action |-> "REQUEST_INFO", from |-> "UNDER_REVIEW",   to |-> "INFO_REQUESTED",
     role |-> "REVIEWER",  bond |-> "reviewer"],
    [action |-> "RESUBMIT",     from |-> "INFO_REQUESTED", to |-> "RESUBMITTED",
     role |-> "APPLICANT", bond |-> "applicant"],
    [action |-> "APPROVE",      from |-> "UNDER_REVIEW",   to |-> "APPROVED",
     role |-> "APPROVER",  bond |-> "none"],
    [action |-> "REJECT",       from |-> "UNDER_REVIEW",   to |-> "REJECTED",
     role |-> "APPROVER",  bond |-> "none"] }

TERMINAL_STATES == {"APPROVED", "REJECTED"}

Decisions == {"APPROVE", "REJECT"}

(***************************************************************************)
(* Rows of the Application table.  NoRow stands for an id no row has.      *)
(***************************************************************************)
Row == [applicantId : User \cup {NoUser},
        reviewerId  : User \cup {NoUser},
        approverId  : User \cup {NoUser},
        state       : ApplicationState \cup {"ABSENT"},
        version     : Nat]

NoRow == [applicantId |-> NoUser, reviewerId |-> NoUser, approverId |-> NoUser,
          state |-> "ABSENT", version |-> 0]

\* The row application.create inserts: the columns' defaults and the owner.
NewRow(u) == [applicantId |-> u, reviewerId |-> NoUser, approverId |-> NoUser,
              state |-> "DRAFT", version |-> 0]

(***************************************************************************)
(* Who the user is relative to a row, and the table's answer.              *)
(***************************************************************************)
\* Faulty form: whoever asks counts as the assigned reviewer of a row that has one.
ActorContext_AnyReviewer(u, role, row) ==
  [role               |-> role,
   isApplicant        |-> row.applicantId = u,
   isAssignedReviewer |-> row.reviewerId # NoUser]

ActorContext(u, role, row) ==
  [role               |-> role,
   isApplicant        |-> row.applicantId = u,
   isAssignedReviewer |-> row.reviewerId = u]

\* Faulty forms: the role is enough; the reviewer's bond is forgotten.
CanAct_RoleOnly(rule, actor) == actor.role = rule.role

CanAct_NoReviewerBond(rule, actor) ==
  actor.role = rule.role /\ (rule.bond = "applicant" => actor.isApplicant)

CanAct(rule, actor) ==
  /\ actor.role = rule.role
  /\ rule.bond = "applicant" => actor.isApplicant
  /\ rule.bond = "reviewer"  => actor.isAssignedReviewer

RulesFor(state, action) ==
  {t \in TRANSITIONS : t.from = state /\ t.action = action}

\* Faulty form: the service leaves the check to the database.
SamePersonDecides_Unchecked(action, u, row) == FALSE

\* Step 4 of transition(): the check that needs the ids.
SamePersonDecides(action, u, row) ==
  action \in Decisions /\ row.reviewerId = u

\* What user u, holding the given role, may do to a row: the table's answer
\* less the decisions the reviewer of the row is excluded from.
Permitted(rule, u, role, row) ==
  /\ rule.from = row.state
  /\ CanAct(rule, ActorContext(u, role, row))
  /\ ~SamePersonDecides(rule.action, u, row)

(***************************************************************************)
(* computePatch and the version increment of the UPDATE.                   *)
(***************************************************************************)
\* Faulty forms: the version does not move; a request for information gives
\* the application back to the queue.
ComputePatch_SameVersion(row, action, to, u) ==
  [row EXCEPT !.state      = to,
              !.reviewerId = IF action = "START_REVIEW" THEN u ELSE @,
              !.approverId = IF action \in Decisions THEN u ELSE @]

ComputePatch_Unassigns(row, action, to, u) ==
  [row EXCEPT !.state      = to,
              !.reviewerId = IF action = "START_REVIEW" THEN u
                             ELSE IF action = "REQUEST_INFO" THEN NoUser ELSE @,
              !.approverId = IF action \in Decisions THEN u ELSE @,
              !.version    = @ + 1]

ComputePatch(row, action, to, u) ==
  [applicantId |-> row.applicantId,
   reviewerId  |-> IF action = "START_REVIEW" THEN u ELSE row.reviewerId,
   approverId  |-> IF action \in Decisions THEN u ELSE row.approverId,
   state       |-> to,
   version     |-> row.version + 1]

\* CHECK constraint reviewer_not_approver of the lockdown migration.
ReviewerNotApprover(row) ==
  \/ row.reviewerId = NoUser
  \/ row.approverId = NoUser
  \/ row.reviewerId # row.approverId

\* Faulty form: the action goes into the log under its own name.
MapToAuditAction_Raw == [a \in WorkflowAction |-> a]

MapToAuditAction ==
  [a \in WorkflowAction |->
     CASE a = "SUBMIT"       -> "APPLICATION_SUBMITTED"
       [] a = "START_REVIEW" -> "REVIEW_STARTED"
       [] a = "REQUEST_INFO" -> "INFO_REQUESTED"
       [] a = "RESUBMIT"     -> "APPLICATION_RESUBMITTED"
       [] a = "APPROVE"      -> "APPLICATION_APPROVED"
       [] a = "REJECT"       -> "APPLICATION_REJECTED"]

AuditAction ==
  {"APPLICATION_CREATED", "APPLICATION_SUBMITTED", "REVIEW_STARTED",
   "INFO_REQUESTED", "APPLICATION_RESUBMITTED", "APPLICATION_APPROVED",
   "APPLICATION_REJECTED"}
================================================================================
