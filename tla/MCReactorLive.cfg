SPECIFICATION LiveSpec
CONSTANTS
  Socks = {1}
  listen_sock = 0
  QLen = 2
  MaxRaw = 1
  MaxBatch = 2
  MaxFanout = 1
PROPERTIES WorkerReturns AcceptedIsServed SelectRecovers BufferedIsRead
