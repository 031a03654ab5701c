SPECIFICATION FairSpec
CONSTANTS
  User = {u1}
  NoUser = NoUser
  App = {a1}
  DocType = {t1, t2}
  Bytes = {b1, b2}
  Request = {r1, r2}
  NoPath = NoPath
  FreshBytes = TRUE
  MaxDocs = 2
  MaxFaults = 2
INVARIANTS
  DTypeOK
  VersionsAreDense
  TrailMatchesDocuments
  UploadConflictIsReal
  NothingLeaks
  EveryDocumentHasItsBytes
  ListTellsTheHistory
PROPERTIES
  EveryUploadIsAnswered
