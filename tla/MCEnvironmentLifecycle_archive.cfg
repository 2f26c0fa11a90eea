SPECIFICATION Spec
CONSTANTS
  a1 = a1
  a2 = a2
  e1 = e1
  e2 = e2
  e3 = e3
  Apps = {a1, a2}
  Envs = {e1, e2, e3}
  AppOf <- AppOfEnv
  Defaults = {e1, e3}
  Workers = {w1, w2}
  MaxOpen = 2
INVARIANTS TypeOK OneActiveEnvironment
PROPERTIES SharedEditsRespectArchive
