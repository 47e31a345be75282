CONSTANTS
  parent = parent
  child = child
  NoName = NoName
  Names = {parent, child}
  ParentOf <- Family
  Supervised = {child}
  Fragile = {parent, child}
  OneForAll = FALSE
  Directives = {"Restart"}
  MaxRestarts = 1
  WindowHolds = FALSE
  MailboxCap = 2
  MaxCells = 2
  MaxTells = 1
  MaxStarts = 1
SPECIFICATION FairSpec
PROPERTIES
  ShutdownWaitsForStraysOnly
\* every actor may have ended
CHECK_DEADLOCK FALSE
