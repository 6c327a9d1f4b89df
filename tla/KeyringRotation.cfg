SPECIFICATION FairSpec
CONSTANTS
  Keys = {k1, k2, k3}
  Mutations = {m1}
  Signers = {g1}
  Visitors = {v1}
  Cleaner = cleaner
  NoOne = NoOne
  NoKey = NoKey
  Rotation = 2
  Grace = 4
  TTL = 3
  MaxDelay = 1
  MaxFaults = 1
INVARIANTS
  SignedURLsVerify
PROPERTY
  MutationsGoOn
