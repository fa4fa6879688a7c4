SPECIFICATION SerialSpec
CONSTANTS
  Client = {c1, c2}
  Nobody = Nobody
  Reader = {c1, c2}
  Writer = {c1, c2}
  Remover = {}
  Updater = {}
  Offered <- Requests
  Replica = {}
  Host <- Hosts
  IO_Q_LEN = 3
  MaxTime = 2
  MaxFail = 0
CHECK_DEADLOCK FALSE
INVARIANT OneAtATime
