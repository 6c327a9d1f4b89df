SPECIFICATION Spec
SYMMETRY Symmetric
CONSTANTS
    None = None
    HistoryLimit = 1
    Schema <- MCSchema
    Migrates <- MCMigrates
    Accepts <- MCAccepts
    A = A
    s1 = s1
    s2 = s2
    Deployments = {A, B, C, D}
    Schemas = {s1, s2}
    Requests = {r1, r2}
    Jobs = {j1}
INVARIANTS
    RollbackTargetKept
PROPERTIES
    SwitchesAtomically
    HistoryHolds
    OnlyStaleWritersMix
