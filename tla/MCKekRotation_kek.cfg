SPECIFICATION Spec
CONSTANTS
  k1 = k1
  k2 = k2
  k3 = k3
  None = None
  MasterKeys = {k1, k2, k3}
  Environments = {e1, e2}
  Users = {u}
  Workers = {w1, w2}
  MaxDek = 2
SYMMETRY Symmetry
INVARIANTS TypeOK SealedUnderActive ServesWhatItOpens
