SPECIFICATION FairSpec
CONSTANTS
  IPB_BEGIN = 0
  IPB_END = 4
  Devices = {1, 2}
  Capacity <- RemovalCapacity
  BadPercent = 30
  LoopLimit = 0
  Files = {"f", "g"}
  Ports = {"p", "q"}
  Servers = {1, 2}
  Keys = {k1, k2}
  Requests = {r1}
  Lengths = {1}
  Confs <- RemovalConfs
  FirstConf <- RemovalConf
  PassbyEnable = FALSE
  PassbyBegin = 0
  PassbyLimit = 0
  KeepAlive = FALSE
  MemFails = FALSE
PROPERTIES DeviceGoes ServerGoes
