SPECIFICATION Spec
CONSTANTS
  Ids = {2, 5, 8, 10, 16}
  InitPower = 1
  MaxPower = 3
  MaxCount = 2
INVARIANTS TypeOK LiveIsFound SizeCoversLive
PROPERTY OnlyCrowdingLoses
