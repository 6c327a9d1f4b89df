\* Two jobs, one process with two slots that may crash, stop or lose a write
\* once; polls and heartbeats in time.
CONSTANTS
  Jobs = {j1, j2}
  Workers = {w1}
  Leases = {l1, l2, l3}
  Callers = {}
  Deployments = {d1}
  None = None
  MaxConcurrency = 2
  ClaimBatch = 2
  LeaseDuration = 3
  RenewInterval = 1
  MaxAttempts = 3
  ScheduleDelays <- Now
  RetryDelays <- OneLater
  DeferDelay = 1
  CancelReads = 2
  MaxAge = 1
  MaxFaults = 1
  Punctual = TRUE
SPECIFICATION FairSpec
INVARIANTS
  SlotsAccounted
PROPERTIES
  EventuallySettles
  NoUnnecessaryTheft
  ImplementsQueue
