SPECIFICATION Spec
CONSTANTS
  User = {"admin", "applicant1", "applicant2", "reviewer1", "reviewer2", "approver1", "approver2"}
  NoUser = NoUser
  Content = {c1, c2}
  Sessions <- MCSessions
  MaxMade = 2
SYMMETRY Symmetry
INVARIANTS
  NothingStaleLooksFresh
  AcceptedAsOffered
  NotesAreForTheirVersion
PROPERTIES
  UntypedSavesChangeNothing
CHECK_DEADLOCK FALSE
