SPECIFICATION Spec
CONSTANTS
  Requests = {r1, r2}
  Workers = {w1, w2}
  Master = Master
  InitThreads = 1
  MaxThreads = 2
  PipeCap = 1
  ReadMax = 1
  MaxReloads = 2
  ReloadInQuit = TRUE
SYMMETRY Symmetry
INVARIANTS RequestNrExact FreedUnreferenced OnlyOwnerTouches
PROPERTIES NoDispatchToRetired
