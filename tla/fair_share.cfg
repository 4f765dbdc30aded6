SPECIFICATION Spec
CONSTANTS
  Clients = {1, 2, 3}
  NoClient = NoClient
  Cost = 4
  Weights = {1, 3, 4, 8, 10}
  MaxRounds = 12
CHECK_DEADLOCK FALSE
INVARIANTS
  ProportionalShare
