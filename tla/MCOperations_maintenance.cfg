SPECIFICATION Spec
CONSTANTS
  None = None
  Backups = {b1, b2}
  Workers = {w1, w2}
  BatchSize = 1
  MaxEvents = 3
SYMMETRY Symmetry
INVARIANTS TypeOK RestoreRecorded RestoreTruthful AuditPreserved
