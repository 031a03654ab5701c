---------------------------------- MODULE Views ----------------------------------
(***************************************************************************)
(* What one person sees of one row and may do with it: the filter of every *)
(* read (applications/visibility.ts) and the list of buttons               *)
(* (ApplicationsService.availableActionsFor).  Pure functions of the row,  *)
(* the user and his role.                                                  *)
(***************************************************************************)
EXTENDS Transitions

\* Faulty form: a reviewer sees only what is his.
Visible_NoQueue(row, u, ro) ==
  /\ row # NoRow
  /\ \/ ro = "ADMIN"
     \/ ro = "APPLICANT" /\ row.applicantId = u
     \/ ro = "REVIEWER"  /\ row.reviewerId = u
     \/ ro = "APPROVER"  /\ (row.approverId = u \/ row.state = "UNDER_REVIEW")

\* applicationVisibilityFilter: the WHERE every read goes through.
Visible(row, u, ro) ==
  /\ row # NoRow
  /\ \/ ro = "ADMIN"
     \/ ro = "APPLICANT" /\ row.applicantId = u
     \/ ro = "REVIEWER"
        /\ (row.reviewerId = u \/ row.state \in {"SUBMITTED", "RESUBMITTED"})
     \/ ro = "APPROVER"  /\ (row.approverId = u \/ row.state = "UNDER_REVIEW")

\* Faulty form: the reviewer of the row is offered its decision.
AvailableActions_AnyDecider(row, u, ro) ==
  {t.action : t \in {t \in TRANSITIONS :
     t.from = row.state /\ CanAct(t, ActorContext(u, ro, row))}}

\* availableActionsFor: the buttons of a user who can see the row.
AvailableActions(row, u, ro) ==
  {t.action : t \in {t \in TRANSITIONS :
     /\ t.from = row.state
     /\ CanAct(t, ActorContext(u, ro, row))
     /\ ~(t.action \in Decisions /\ row.reviewerId = u)}}
==================================================================================
