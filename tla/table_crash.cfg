SPECIFICATION Spec
CONSTANTS
  Careful = {u1, u2, u3}
  ModifyMd = {}
  Tool = {}
  Mortal = {u1, u2, u3}
  File = {f1, f2}
  NoName = NoName
  NoClient = NoClient
  MUTEX_NUM = 2
SYMMETRY Symmetry
CHECK_DEADLOCK FALSE
INVARIANTS
  MutualExclusion
  NoEarlyFree
