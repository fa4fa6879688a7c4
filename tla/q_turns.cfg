SPECIFICATION OrderlySpec
CONSTANTS
  Client = {c1, c2, c3}
  Nobody = Nobody
  Reader = {c1, c2}
  Writer = {c1, c2}
  Remover = {c3}
  Updater = {}
  Offered <- Requests
  Replica = {}
  Host <- Hosts
  IO_Q_LEN = 3
  MaxTime = 2
  MaxFail = 0
CHECK_DEADLOCK FALSE
PROPERTIES
  ImplementsTurns
  Returns
