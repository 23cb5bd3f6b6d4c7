SPECIFICATION LiveSpec
CONSTANTS
  c1 = c1
  c2 = c2
  p1 = p1
  p2 = p2
  Socks = {c1}
  Topics = {t}
  Ids = {p1}
  Qos = {1, 2}
  MaxNodes = 1
  MaxEntries = 2
  MaxPubs = 2
  MaxCount = 3
INVARIANTS HonestAckIsFound SendsAreArmed
PROPERTY QueuedIsSent
