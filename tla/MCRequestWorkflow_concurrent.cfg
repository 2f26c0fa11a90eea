SPECIFICATION Spec
CONSTANTS
  Requests = {r1, r2}
  Keys = {k1}
  Contents = {c1, c2}
  Workers = {w1, w2}
  MaxItems = 1
  MaxVersion = 1
  MaxItemRevision = 2
  None = None
SYMMETRY Symmetry
INVARIANTS TypeOK StatusReflectsReview AppliedExactlyOnce LedgerComplete
PROPERTIES FinalFrozen AppliesWhatWasShown ImplementsRegistry
