SPECIFICATION PromptFairSpec
CONSTANTS
  Careful = {u1, u2}
  ModifyMd = {}
  Tool = {}
  Mortal = {}
  File = {f1, f2, f3}
  NoName = NoName
  NoClient = NoClient
  Block = {b1, b2}
  Nil = Nil
  NHASH = 2
  Crowded = {f1, f2}
  hash_func <- Chains
INVARIANTS
  RefCount
  UniqueNode
  NoDangling
PROPERTIES
  ImplementsService
  HandOver
  NeverBlocks
