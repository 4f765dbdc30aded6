SPECIFICATION Spec
CONSTANTS
  Tasks = {a, b}
  Resting = {b}
  MaxAttempts = 2
  Handlers = {1, 2}
  Hydrations = {1, 2}
  Moves = 2
  Troubles = 0
  Upsets = 2
  RECENT_TERMINAL_LIMIT = 1
CHECK_DEADLOCK FALSE
INVARIANTS
  ViewIsCurrent
