\* One job, two processes of one slot each and a caller: takeovers,
\* cancellation, retries, and one crash, stop or failed database call.
CONSTANTS
  Jobs = {j1}
  Workers = {w1, w2}
  Leases = {l1, l2}
  Callers = {c1}
  Deployments = {d1}
  None = None
  MaxConcurrency = 1
  ClaimBatch = 1
  LeaseDuration = 2
  RenewInterval = 1
  MaxAttempts = 1
  ScheduleDelays <- Now
  RetryDelays <- OneLater
  DeferDelay = 1
  CancelReads = 2
  MaxAge = 1
  MaxFaults = 1
  Punctual = FALSE
SPECIFICATION Spec
SYMMETRY SymmetryAll
INVARIANTS
  CancelStopsAttempt
  SnapshotAvailable
PROPERTIES
  OnlyOwnerSettles
