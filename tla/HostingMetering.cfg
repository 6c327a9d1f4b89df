SPECIFICATION FairSpec
CONSTANTS
  e1 = e1
  e2 = e2
  Execs <- Both
  MaxTracked = 2
  MaxInFlight = 1
  AdmitAttempts = 2
  StartedAttempts = 2
  CompleteAttempts = 3
  MaxFaults = 4
INVARIANTS
  RunsAreMetered
  UncertaintyLatches
  NoConflict
PROPERTIES
  ReservationsSettle
CHECK_DEADLOCK FALSE
