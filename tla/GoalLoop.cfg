SPECIFICATION LoopSpec
CONSTANTS
  Dispatcher = d
  Operator = o
  Callers = {d, o}
  MaxPid = 3
  MaxStarts = 4
  Budgets <- LoopBudgets
  Pollers = {q1, q2}
  GoalEvents = {v1, v2}
  MaxBoardMoves = 1
  IntakeFaults = 1
INVARIANTS LoopTypeOK NothingStrays OneWriterWithinLease
PROPERTIES ClosedGoalIsDown RuntimeComesBack BoardShowsContext EventsRecorded
