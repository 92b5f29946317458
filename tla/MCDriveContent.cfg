CONSTANTS
  n1 = n1
  n2 = n2
  n3 = n3
  Files = {f1, f2}
  Names = {n1, n2, n3}
  FolderNames = {n3}
  Keys = {k1, k2, k3}
  Requests = {r1, r2}
  MaxVersion = 2
  None = None
  Loads <- MCLoads
SYMMETRY Symmetry
SPECIFICATION Spec
INVARIANTS MissingOnlyIfReleased AckedReachable
