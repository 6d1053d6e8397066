SPECIFICATION Spec
CONSTANTS
  Requests = {r1}
  Workers = {w1, w2, w3, w4}
  Master = Master
  InitThreads = 2
  MaxThreads = 4
  PipeCap = 1
  ReadMax = 1
  MaxReloads = 2
  ReloadInQuit = FALSE
SYMMETRY Symmetry
PROPERTIES FailedReloadKeepsWorkers
