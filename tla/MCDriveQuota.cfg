CONSTANTS
  Files = {f1, f2}
  Sizes = {0, 1}
  MaxBytes = 2
  Requests = {r1, r2}
  MaxVersions = 2
  MaxExtra = 2
  None = None
SPECIFICATION Spec
SYMMETRY Symmetry
INVARIANTS OvershootBounded
