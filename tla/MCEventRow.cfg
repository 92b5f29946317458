CONSTANTS
  p1 = p1
  p2 = p2
  i1 = i1
  i2 = i2
  ann = ann
  None = None
  Reqs = {p1, p2}
  Insts <- MCInsts
  Rules <- MCRules
  Occ <- MCOcc
  Window <- MCWindow
  Texts <- MCTexts
  People = {ann}
  Props = {1}
  MaxSeq = 2
  MaxId = 2
  MaxStamp = 1
  Loads <- MCLoads
SPECIFICATION Spec
SYMMETRY ReqSymmetry
CHECK_DEADLOCK FALSE
INVARIANTS
  ExclusiveExceptions
  AckedEditsKept
  AcceptedApplied

  
