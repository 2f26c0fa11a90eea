SPECIFICATION Spec
CONSTANTS
  Users = {a, u}
  BootstrapAdmin = a
  SignsIn = {u}
  Sids = {s1, s2, s3}
  Workers = {w1, w2}
  AdminOps = {"create", "password", "role", "totp"}
  AssignedRoles = {"CONTRIBUTOR", "OPERATOR"}
  MaxAuthVersion = 3
  MaxStep = 1
  MaxParams = 2
  None = None
SYMMETRY Symmetry
INVARIANT ResetForcesReplacement
