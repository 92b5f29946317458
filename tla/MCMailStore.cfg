CONSTANTS
  Boxes = {inbox, trash}
  Txns = {t1, t2}
  MaxRows = 3
  Loads <- MCLoads
  None = None
SPECIFICATION Spec
SYMMETRY Symmetry
INVARIANTS TypeOK NothingLost MovedOnce NextUidFree CountExact
