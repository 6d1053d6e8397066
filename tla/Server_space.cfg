SPECIFICATION Spec
CONSTANTS
  IPB_BEGIN = 0
  IPB_END = 4
  Devices = {1}
  Capacity <- SpaceCapacity
  BadPercent = 30
  LoopLimit = 4
  Files = {"f"}
  Ports = {"p"}
  Servers = {1}
  Keys = {k1, k2, k3}
  Requests = {r1, r2}
  Lengths = {3, 9}
  Confs <- SpaceConfs
  FirstConf <- SpaceConf
  PassbyEnable = FALSE
  PassbyBegin = 0
  PassbyLimit = 0
  KeepAlive = FALSE
  MemFails = FALSE
SYMMETRY Symmetry
INVARIANTS SpaceExact QueueExact CountsExact LinksExact HitsAreComplete
