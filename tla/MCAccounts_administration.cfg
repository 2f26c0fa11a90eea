SPECIFICATION Spec
CONSTANTS
  Users = {a, b, c}
  BootstrapAdmin = a
  SignsIn = {}
  Sids = {s1}
  Workers = {w1, w2}
  AdminOps = {"create", "access", "role", "active"}
  AssignedRoles = {"CONTRIBUTOR", "ADMINISTRATOR"}
  MaxAuthVersion = 3
  MaxStep = 2
  MaxParams = 2
  None = None
SYMMETRY Symmetry
INVARIANTS AdministratorRemains GrantsFollowAccount
