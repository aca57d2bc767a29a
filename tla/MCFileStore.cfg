CONSTANTS
  Nil = Nil
  Now = Now
  v1 = v1
  v2 = v2
  fallback = fallback
  Procs = {p1, p2, p3}
  Keys = {a}
  Vers <- MCVers
  Paths <- MCPaths
  EffOf <- MCEffOf
  MaxFaults = 2
  MaxCrashes = 1
SPECIFICATION Spec
SYMMETRY Symmetry
INVARIANTS
  TypeOK
  CoherentAtRest
  QuietGetCoherent
PROPERTIES
  TempsRemoved
  ImplementsRegister
