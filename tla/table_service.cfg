SPECIFICATION FairSpec
CONSTANTS
  Careful = {u1}
  ModifyMd = {m1}
  Tool = {}
  Mortal = {}
  File = {f1, f2, f3}
  NoName = NoName
  NoClient = NoClient
  MUTEX_NUM = 2
INVARIANTS
  RefCount
  PointerValid
  UnlockSucceeds
  Consistent
  EnoughSlots
PROPERTIES
  NoRecycling
  ImplementsService
  HandOver
