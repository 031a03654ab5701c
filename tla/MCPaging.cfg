SPECIFICATION Spec
CONSTANTS
  Limits = {1, 2}
  OldRows = 2
  MaxRows = 3
  MaxStamp = 3
  MaxChanges = 2
  MaxDepth = 2
INVARIANTS
  ReadingIsComplete
  NothingIsShownTwice
  NextPageHasRows
