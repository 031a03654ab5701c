SPECIFICATION Spec
CONSTANTS
  User = {u1, u2}
  NoUser = NoUser
  Role = {"APPLICANT", "REVIEWER", "APPROVER"}
  App = {a1}
  Request = {r1, r2}
  NoRequest = NoRequest
  MaxVersion = 4
  MaxLag = 0
  MaxLead = 1
SYMMETRY Symmetry
PROPERTIES
  DecisionIsFinal
