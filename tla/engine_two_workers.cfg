SPECIFICATION Spec
CONSTANTS
  Workers = {w1, w2}
  NoWorker = NoWorker
  Tasks = {t1}
  NoTask = NoTask
  Clients = {c1}
  ClientOf <- OneClient
  Slots = {s1}
  Sweeps = {k1}
  Requests = {r1}
  MaxAttempts = 2
  Environment = {"cancel", "retry"}
  Punctual = TRUE
CHECK_DEADLOCK FALSE
SYMMETRY Symmetric
INVARIANTS
  OneExecution
  NothingStranded
