SPECIFICATION Spec
CONSTANTS
  Workers = {w1}
  NoWorker = NoWorker
  Tasks = {t1}
  NoTask = NoTask
  Clients = {c1}
  ClientOf <- OneClient
  Slots = {s1}
  Sweeps = {k1}
  Requests = {r1}
  MaxAttempts = 2
  Environment = {"cancel", "crash", "error"}
  Punctual = FALSE
INVARIANTS
  SlotForClaimed
  LeaseIffHeld
