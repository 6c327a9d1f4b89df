\* One file, two attempts, one failure.
CONSTANTS
  Files = {f1}
  Attempts = {a1, a2}
  None = None
  Cleaner = Cleaner
  MaxFiles = 1
  MaxFaults = 1
  Overlap = FALSE
SPECIFICATION FairSpec
INVARIANTS
  FilesLastUntilDeleted
  NeverOverCredited
PROPERTIES
  RowsResolve
  NoObjectOutlivesDeletion
