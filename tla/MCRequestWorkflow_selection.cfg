SPECIFICATION Spec
CONSTANTS
  Requests = {r1, r2}
  Keys = {k1, k2}
  Contents = {c1}
  Workers = {w1}
  MaxItems = 2
  MaxVersion = 1
  MaxItemRevision = 1
  None = None
SYMMETRY Symmetry
INVARIANTS AppliedExactlyOnce
PROPERTIES AppliesWhatWasShown ImplementsRegistry
