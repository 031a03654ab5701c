SPECIFICATION ASpec
CONSTANTS
  User = {u1, u2}
  NoUser = NoUser
  Role = {"APPLICANT", "REVIEWER", "APPROVER"}
  App = {a1}
  Request = {r1, r2}
  NoRequest = NoRequest
  MaxVersion = 6
  MaxLag = 0
  MaxLead = 0
  Content = {c1}
  Editor = {}
SYMMETRY Symmetry
INVARIANTS
  AuditTellsTheStory
  EveryEntryIsAuthorised
  ConstraintNeverFires
  ConflictIsReal
  RetryIsNotForbidden
  ReviewerNeverDecides
  ButtonsAreExact
  WhoCanActCanSee
PROPERTIES
  DecisionIsFinal
  ReviewerKeepsTheApplication
  ImplementsMachine
