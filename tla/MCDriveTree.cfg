CONSTANTS
  Nodes = {a, b, f}
  Folders = {a, b}
  Names = {x, y}
  Requests = {r1, r2}
  Loads <- MCLoads
  Root = Root
  None = None
SPECIFICATION Spec
SYMMETRY Symmetry
INVARIANT HistoryMatchesName
PROPERTY TrashUntouched
