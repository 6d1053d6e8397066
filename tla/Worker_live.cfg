SPECIFICATION LiveSpec
CONSTANTS
  Requests = {r1, r2}
  Workers = {w1, w2}
  Master = Master
  InitThreads = 2
  MaxThreads = 2
  PipeCap = 1
  ReadMax = 1
  MaxReloads = 1
  ReloadInQuit = FALSE
PROPERTIES QuitCompletes RetiredExits
