SPECIFICATION ASpec
CONSTANTS
  User = {u1}
  NoUser = NoUser
  Role = {"APPLICANT", "REVIEWER", "APPROVER", "ADMIN"}
  App = {a1}
  Request = {r1}
  NoRequest = NoRequest
  MaxVersion = 2
  MaxLag = 0
  MaxLead = 0
  Content = {c1, c2}
  Editor = {s1}
PROPERTIES
  SubmittedContentIsFrozen
