SPECIFICATION Spec
CONSTANTS
  s1 = s1
  s2 = s2
  old = old
  Saves <- Two
  Old = old
  Size <- Sizes
  ThumbSize = 1
  Capacity = 4
  Attempts = 2
  MaxFaults = 4
INVARIANTS
  OnlyDoubleCreditsUndercount
  WithinCapacity
  ExactWithoutFaults
CHECK_DEADLOCK FALSE
