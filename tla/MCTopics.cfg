SPECIFICATION Spec
CONSTANTS
  Keys = {1, 2, 3, 4}
  Hash <- SmallHash
  REHASH_SIZE_TIMES = 3
  Blank = 4
  Wild = {3}
  Qos = {0, 1}
  EMPTY_QOS = 255
INVARIANTS TypeOK NothingUnasked FewAreKept WalkSeesAll
PROPERTY ImplementsSet
CHECK_DEADLOCK FALSE
