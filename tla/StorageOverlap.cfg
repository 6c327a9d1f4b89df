\* One file, two attempts, a cleanup pass at any time.
CONSTANTS
  Files = {f1}
  Attempts = {a1, a2}
  None = None
  Cleaner = Cleaner
  MaxFiles = 1
  MaxFaults = 1
  Overlap = TRUE
SPECIFICATION Spec
SYMMETRY Symmetry
INVARIANTS
  OneUploadPerToken
  NeverUndercounted
PROPERTIES
  OnlyLapsedReclaimed
