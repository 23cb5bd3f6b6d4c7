SPECIFICATION Spec
SYMMETRY Interchangeable
CONSTANTS
  c1 = c1
  c2 = c2
  p1 = p1
  p2 = p2
  Socks = {c1, c2}
  Topics = {t}
  Ids = {p1, p2}
  Qos = {1}
  MaxNodes = 2
  MaxEntries = 1
  MaxPubs = 2
  MaxCount = 3
INVARIANTS TypeOK HonestAckIsFound CountsCover RightMessage
