CONSTANTS
  Nil = Nil
  Empty = Empty
  NotFound = NotFound
  Failed = Failed
  r1 = r1
  r2 = r2
  archive = archive
  q1 = q1
  q2 = q2
  Clients = {c1}
  Refs = {r1, r2}
  Paths = {archive}
  Queries = {q1, q2}
  MaxVer = 2
  Listed <- MCListed
  MaxRestarts = 0
  MaxCuts = 1
SPECIFICATION Spec
INVARIANTS
  WholeBodies
