CONSTANTS
  Nil = Nil
  Reqs = {r1}
  Heads = {r1}
  Conditional = {}
  MaxVer = 2
  MaxTime = 1
  MaxRestarts = 0
  TTL = 0
  RequireRevalidate = TRUE
  SupportsValidation = TRUE
  HasCredentials = FALSE
  Rewrites = FALSE
  Tagged = TRUE
  Dated = TRUE
  Orderly = TRUE
  Flaky = FALSE
SPECIFICATION Spec
INVARIANTS
  FreshHit
