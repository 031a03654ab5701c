----------------------------------- MODULE Seed -----------------------------------
(***************************************************************************)
(* The world prisma/seed.ts leaves behind: seven accounts and seven        *)
(* applications, each driven to its state by a scripted sequence of        *)
(* transitions through the services.                                       *)
(***************************************************************************)
EXTENDS Transitions

SEED_USERS ==
  [admin      |-> "ADMIN",
   applicant1 |-> "APPLICANT", applicant2 |-> "APPLICANT",
   reviewer1  |-> "REVIEWER",  reviewer2  |-> "REVIEWER",
   approver1  |-> "APPROVER",  approver2  |-> "APPROVER"]

\* One step of driveTo; it sends the version the step before returned.
DriveStep(row, u, action) ==
  LET rule == CHOOSE t \in RulesFor(row.state, action) : TRUE
  IN ComputePatch(row, action, rule.to, u)

\* What the scripts have in common: submitted by a, started by r, sent back by r.
Submitted(a)        == DriveStep(NewRow(a), a, "SUBMIT")
Started(a, r)       == DriveStep(Submitted(a), r, "START_REVIEW")
InfoRequested(a, r) == DriveStep(Started(a, r), r, "REQUEST_INFO")

\* The applications by the state they end in.
SeedApplications ==
  {NewRow("applicant1"),
   Submitted("applicant2"),
   Started("applicant1", "reviewer1"),
   InfoRequested("applicant2", "reviewer2"),
   DriveStep(Started("applicant1", "reviewer2"), "approver1", "APPROVE"),
   DriveStep(Started("applicant2", "reviewer1"), "approver1", "REJECT"),
   DriveStep(InfoRequested("applicant1", "reviewer2"), "applicant1", "RESUBMIT")}
===================================================================================
