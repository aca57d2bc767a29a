CONSTANTS
  Nil = Nil
  Reqs = {r1, r2}
  Heads = {r1}
  Conditional = {r1}
  MaxVer = 2
  MaxTime = 1
  MaxRestarts = 1
  TTL = 1
  RequireRevalidate = TRUE
  SupportsValidation = TRUE
  HasCredentials = TRUE
  Rewrites = TRUE
  Tagged = TRUE
  Dated = TRUE
  Orderly = FALSE
  Flaky = TRUE
SPECIFICATION Spec
INVARIANTS
  TypeOK
  RevalidationSound
  CacheHoldsAnswers
PROPERTIES
  StalenessBounded
