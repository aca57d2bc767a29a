CONSTANTS
  Nil = Nil
  Empty = Empty
  NotFound = NotFound
  Failed = Failed
  r1 = r1
  r2 = r2
  archive = archive
  q1 = q1
  q2 = q2
  Clients = {c1, c2}
  Refs = {r1, r2}
  Paths = {archive}
  Queries = {q1, q2}
  MaxVer = 2
  Listed <- MCListed
  MaxRestarts = 1
  MaxCuts = 1
SPECIFICATION Spec
SYMMETRY Symmetry
INVARIANTS
  TypeOK
  MirrorResolved
  RightArchive
