SPECIFICATION FairSpec
CONSTANTS
  Person = {a, b}
  Nobody = Nobody
  MaxLogins = 2
  MaxFaults = 1
  MaxRefetches = 1
INVARIANTS
  NothingOfAnother
PROPERTIES
  LoginLeadsIn
CHECK_DEADLOCK FALSE
