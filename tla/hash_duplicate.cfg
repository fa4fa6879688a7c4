SPECIFICATION Spec
CONSTANTS
  Careful = {u1, u2}
  ModifyMd = {}
  Tool = {}
  Mortal = {}
  File = {f1}
  NoName = NoName
  NoClient = NoClient
  Block = {b1, b2}
  Nil = Nil
  NHASH = 1
  Crowded = {f1}
  hash_func <- Chains
INVARIANT UniqueNode
