SPECIFICATION ASpec
CONSTANTS
  User = {u1, u2}
  NoUser = NoUser
  Role = {"ADMIN", "REVIEWER"}
  SessionId = {s1, s2}
  Slot = {k1, k2}
  MaxLog = 4
SYMMETRY Symmetry
INVARIANTS
  AnAdminRemainsInTurn
  LiveTokensAreCurrentInTurn
  TrailTellsTheAccountInTurn
  EveryLoginIsLogged
PROPERTIES
  UpdatesKeepEachOther
