SPECIFICATION FairSpec
CONSTANTS
  Workers = {w1}
  NoWorker = NoWorker
  Tasks = {t1}
  NoTask = NoTask
  Clients = {c1}
  ClientOf <- OneClient
  Slots = {s1, s2}
  Sweeps = {k1}
  Requests = {r1}
  MaxAttempts = 2
  Environment = {"cancel", "retry", "crash", "flush", "error"}
  Punctual = TRUE
INVARIANTS
  TypeOK
  WorkIsOwned
  OneExecution
  RetryBudget
  LeaseIffHeld
PROPERTIES
  ImplementsLifecycle
  EventuallySettled
