SPECIFICATION AFairSpec
CONSTANTS
  User = {u1}
  NoUser = NoUser
  Role = {"APPLICANT", "REVIEWER"}
  App = {a1}
  Request = {r1, r2}
  NoRequest = NoRequest
  MaxVersion = 2
  MaxLag = 0
  MaxLead = 1
  Content = {c1, c2}
  Editor = {s1}
INVARIANTS
  TypeOK
  OkIsTrue
  OneWinner
  ATypeOK
PROPERTIES
  OlderVersionsFit
  ContentComesToRest
  EveryCallIsAnswered
