SPECIFICATION DumpSpec
CONSTANTS
  IPB_BEGIN = 0
  IPB_END = 4
  Devices = {1, 2}
  Capacity <- DumpCapacity
  BadPercent = 30
  LoopLimit = 4
  Files = {"f", "g"}
  Ports = {"p", "q"}
  Servers = {1, 2}
  Keys = {k1}
  Requests = {r1}
  Lengths = {1}
  Confs <- DumpConfs
  FirstConf <- DumpConf
  PassbyEnable = FALSE
  PassbyBegin = 0
  PassbyLimit = 0
  KeepAlive = FALSE
  MemFails = FALSE
  UnitCells = 2
  NoDump = {}
  LoadFails = {"item"}
PROPERTIES AbnormalQuitLosesAll
