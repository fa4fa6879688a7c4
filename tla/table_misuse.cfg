SPECIFICATION FairSpec
CONSTANTS
  Careful = {}
  ModifyMd = {m1}
  Tool = {t1}
  Mortal = {}
  File = {f1, f2}
  NoName = NoName
  NoClient = NoClient
  MUTEX_NUM = 2
CHECK_DEADLOCK FALSE
INVARIANTS
  TypeOK
  UniqueTaken
PROPERTY NeverBlocks
