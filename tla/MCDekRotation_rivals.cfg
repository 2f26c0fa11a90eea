SPECIFICATION Spec
CONSTANTS
  Current = {v1}
  History = {h1, h2}
  Proposals = {p1}
  Admins = {a1, a2}
  Writers = {w1}
  BatchSize = 1
  MaxDek = 4
  MaxVersion = 2
  MaintenanceWindow = TRUE
SYMMETRY Symmetry
INVARIANTS AlwaysReadable KeysFollowOperation
PROPERTIES DestroyedOnlyUnused
