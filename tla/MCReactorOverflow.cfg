SPECIFICATION Spec
CONSTANTS
  Socks = {1, 2, 3}
  listen_sock = 0
  QLen = 2
  MaxRaw = 0
  MaxBatch = 1
  MaxFanout = 0
INVARIANT EveryClientWatched
