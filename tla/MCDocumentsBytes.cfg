SPECIFICATION Spec
CONSTANTS
  User = {u1}
  NoUser = NoUser
  App = {a1}
  DocType = {t1}
  Bytes = {b1, b2}
  Request = {r1, r2}
  NoPath = NoPath
  FreshBytes = FALSE
  MaxDocs = 2
  MaxFaults = 0
INVARIANTS
  EveryDocumentHasItsBytes
