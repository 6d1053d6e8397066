SPECIFICATION Spec
CONSTANTS
  IPB_BEGIN = 0
  IPB_END = 4
  Devices = {1, 2, 3}
  Capacity <- DevicesCapacity
  BadPercent = 30
  LoopLimit = 1
  Files = {"f", "g"}
  Ports = {"p"}
  Servers = {1}
  Keys = {k1, k2}
  Requests = {r1, r2}
  Lengths = {1}
  Confs <- DevicesConfs
  FirstConf <- DevicesConf
  PassbyEnable = FALSE
  PassbyBegin = 0
  PassbyLimit = 0
  KeepAlive = TRUE
  MemFails = TRUE
SYMMETRY Symmetry
INVARIANTS HeldIsThere NoConflict SpaceExact
