SPECIFICATION FairSpec
CONSTANTS
  Threads = {1,2,3}
  Size = 2
  Runs = {1,2,3}
  Tasks = {t1, t2}
  NoTask = NoTask
  TaskOf <- FirstAgain
  Environment = {"cancel", "kill", "error", "shutdown"}
CHECK_DEADLOCK FALSE
INVARIANTS
  TypeOK
  PoolKeepsSize
  OneRunPerThread
  OutcomeIsOwn
PROPERTIES
  ImplementsPoolSlots
  EveryRunSettled
