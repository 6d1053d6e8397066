SPECIFICATION ServersSpec
CONSTANTS
  IPB_BEGIN = 0
  IPB_END = 4
  Devices = {1}
  Capacity <- ServersCapacity
  BadPercent = 30
  LoopLimit = 0
  Files = {"f"}
  Ports = {"p", "q"}
  Servers = {1, 2, 3}
  Keys = {k1, k2}
  Requests = {r1, r2}
  Lengths = {1}
  Confs <- ServersConfs
  FirstConf <- ServersConf
  PassbyEnable = TRUE
  PassbyBegin = 1
  PassbyLimit = 2
  KeepAlive = FALSE
  MemFails = FALSE
SYMMETRY Symmetry
INVARIANTS LinksExact
PROPERTIES EvictsOldest CapacityKept
