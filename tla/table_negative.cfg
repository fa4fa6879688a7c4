SPECIFICATION Spec
CONSTANTS
  Careful = {}
  ModifyMd = {m1, m2, m3}
  Tool = {}
  Mortal = {}
  File = {f1, f2}
  NoName = NoName
  NoClient = NoClient
  MUTEX_NUM = 1
SYMMETRY Symmetry
INVARIANT CountNotNegative
