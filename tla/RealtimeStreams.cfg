\* One session and one plain connection.
CONSTANTS
  Sessions = {s}
  Plains = {c}
  p = p
  q = q
  Ids = {p, q}
  Requests <- SomeRequests
  None = None
  Refused = Refused
  MaxConnections = 1
  MaxConcurrentQueries = 1
  MaxSubscriptionsPerSession = 1
  MaxSubs = 4
  MaxCalls = 2
  MaxSwitches = 1
  MaxWrites = 1
  MaxEvents = 3
SPECIFICATION Spec
INVARIANTS
  PinnedToActive
  FreshWhenQuiet
  NothingOutlivesHandler
  NeverStuck
PROPERTIES
  MessagesInOrder
