SPECIFICATION Spec
CONSTANTS
  Socks = {1, 2}
  listen_sock = 0
  QLen = 1
  MaxRaw = 1
  MaxBatch = 1
  MaxFanout = 1
INVARIANTS TypeOK SlotOwnsConnection NoSilentLoss
PROPERTY ImplementsLifecycle
