SPECIFICATION FairSpec
CONSTANTS
  Clients = {1, 2, 3}
  NoClient = NoClient
  Tasks = {1, 2, 3}
  ClientOf <- OneEach
  Priorities = {1}
  Times = {0}
  Multiplier = 1
  Cost = 2
  Weights = {2}
  MaxDeficit = 2
  Happenings = {}
PROPERTIES
  GetsTurn
