SPECIFICATION Spec
CONSTANTS
  Ids = {2, 5, 8, 10, 16}
  InitPower = 2
  MaxPower = 3
  MaxCount = 2

PROPERTY OnlyReleaseLoses
