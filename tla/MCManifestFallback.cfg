CONSTANTS
  Nil = Nil
  Reqs = {r1, r2}
  Wanted <- MCBoth
  RegistryK8s = TRUE
  HasCredentials = TRUE
  MaxVer = 2
  MaxBreaks = 1
  MaxRestarts = 1
SPECIFICATION Spec
SYMMETRY Symmetry
INVARIANTS
  TypeOK
  FallbackJustified
  NotFoundJustified
PROPERTIES
  RemovedOnlyIfGone
