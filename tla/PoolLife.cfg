SPECIFICATION FairSpec
CONSTANTS
  Works = {a, b, c}
  Callers = {main, app}
  Main = main
  Workers = {t1, t2}
  MayExit = TRUE
  NoWork = NoWork
INVARIANTS TakenInOrder NoFaultBeforeExit
PROPERTIES QueuedIsTaken ImplementsWorkPool
CHECK_DEADLOCK FALSE
