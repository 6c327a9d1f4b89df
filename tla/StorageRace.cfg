\* The cleanup pass meets an upload that finalizes; nothing fails.
CONSTANTS
  Files = {f1}
  Attempts = {a1}
  None = None
  Cleaner = Cleaner
  MaxFiles = 1
  MaxFaults = 0
  Overlap = TRUE
SPECIFICATION Spec
INVARIANTS
  FilesLastUntilDeleted
