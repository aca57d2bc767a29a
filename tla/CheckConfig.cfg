CONSTANTS
  Sites <- MCTwo
  MaxAge = 2
  Nil = Nil
  Tokens <- MCTokens
  Absent = Absent
  Lower <- MCLower
  Ports = {"5000", "1", "2"}
  Bad = {"http-hub"}
  ModuleTTL <- MCTTL
  DefaultTTL = 3
  Looks <- MCLooks
SPECIFICATION Spec
INVARIANTS
  AcceptedStarts
