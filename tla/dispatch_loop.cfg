SPECIFICATION FairSpec
CONSTANTS
  Clients = {1, 2}
  NoClient = NoClient
  Tasks = {1, 2, 3}
  ClientOf <- TwoOfTheFirst
  Priorities = {1, 2}
  Times = {0, 1}
  Multiplier = 2
  Cost = 2
  Weights = {1, 2}
  MaxDeficit = 2
  Happenings = {"withdraw", "flush", "error", "weights"}
INVARIANTS
  TypeOK
  Registered
PROPERTIES
  BestFirst
  GetsTurn
