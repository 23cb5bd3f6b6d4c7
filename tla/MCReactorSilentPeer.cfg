SPECIFICATION FairSpec
CONSTANTS
  Socks = {1, 2}
  listen_sock = 0
  QLen = 2
  MaxRaw = 1
  MaxBatch = 1
  MaxFanout = 0
PROPERTY EventsAreTaken
