CONSTANTS
  Nil = Nil
  Procs = {p1, p2, p3}
  Keys = {a, b}
  Locks = {o1, o2, o3}
SPECIFICATION Spec
INVARIANTS
  TypeOK
  MutualExclusion
  PointersCurrent
  TableTracksUsers
PROPERTIES
  ImplementsKeyedMutex
