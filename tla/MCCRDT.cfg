CONSTANTS
  Types = {"GCounter", "GSet", "LWWRegister", "ORSet"}
  Replicas = {r1, r2, r3}
  Elems = {a, b}
  Amounts = {1, 2}
  Times = {1, 2}
  Initial = zero
  MaxUpdates = 3
  MaxSent = 2
SPECIFICATION Spec
SYMMETRY Symmetry
INVARIANTS
  TypeOK
  CountsEachUpdateOnce
  AddWins
  LatestWriteWins
