SPECIFICATION Spec
CONSTANTS
  Careful = {u1}
  ModifyMd = {}
  Tool = {t1}
  Mortal = {}
  File = {f1, f2}
  NoName = NoName
  NoClient = NoClient
  Block = {b1, b2, b3}
  Nil = Nil
  NHASH = 1
  Crowded = {f1, f2}
  hash_func <- Chains
SYMMETRY Symmetry
CHECK_DEADLOCK FALSE
INVARIANTS
  TypeOK
  ChainsLinked
  LiveCounted
  WalksEnd
PROPERTY SecondNodeByRace
