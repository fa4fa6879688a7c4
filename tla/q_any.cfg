SPECIFICATION BoundedSpec
CONSTANTS
  Client = {c1, c2}
  Nobody = Nobody
  Reader = {}
  Writer = {c1, c2}
  Remover = {c2}
  Updater = {c2}
  Offered <- Requests
  Replica = {c2, r2}
  Host <- Hosts
  IO_Q_LEN = 3
  MaxTime = 2
  MaxFail = 2
CHECK_DEADLOCK FALSE
INVARIANTS
  TypeOK
  TurnsApart
  PlacesKept
  ListWhole
  NamesStored
  DataFollows
PROPERTIES
  StaysRemoved
  OwnPointer
