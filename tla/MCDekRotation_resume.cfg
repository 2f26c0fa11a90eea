SPECIFICATION FairSpec
CONSTANTS
  Current = {v1}
  History = {h1, h2}
  Proposals = {p1, p2}
  Admins = {a1}
  Writers = {w1}
  BatchSize = 1
  MaxDek = 3
  MaxVersion = 2
  MaintenanceWindow = TRUE
INVARIANTS TypeOK ProgressExact
PROPERTIES RotationCompletes
