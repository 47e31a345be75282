CONSTANTS
  parent = parent
  child = child
  NoName = NoName
  Names = {parent, child}
  ParentOf <- Family
  Supervised = {child}
  Fragile = {child}
  OneForAll = FALSE
  Directives = {"Resume", "Restart", "Stop", "Escalate"}
  MaxRestarts = 1
  WindowHolds = FALSE
  MailboxCap = 2
  MaxCells = 3
  MaxTells = 0
  MaxStarts = 1
SPECIFICATION Spec
INVARIANTS
  TypeOK
  LookupFindsTheLiving
  TheLivingAreFound
  AcceptedIsHandled
\* every actor may have ended
CHECK_DEADLOCK FALSE
