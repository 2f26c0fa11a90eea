SPECIFICATION Spec
CONSTANTS
  Current = {v1}
  History = {h1}
  Proposals = {}
  Admins = {a1}
  Writers = {w1}
  BatchSize = 1
  MaxDek = 2
  MaxVersion = 1
  MaintenanceWindow = FALSE
PROPERTIES DestroyedOnlyUnused
