CONSTANTS
  parent = parent
  child1 = child1
  child2 = child2
  NoName = NoName
  Names = {parent, child1, child2}
  ParentOf <- Family
  Supervised = {child1, child2}
  Fragile = {child1, child2}
  OneForAll = TRUE
  Directives = {"Restart"}
  MaxRestarts = 2
  WindowHolds = TRUE
  MailboxCap = 4
  MaxCells = 3
  MaxTells = 0
  MaxStarts = 8
SPECIFICATION FamilySpec
INVARIANTS
  RestartsAreBounded
\* nobody sends to a family that has come to rest
CHECK_DEADLOCK FALSE
