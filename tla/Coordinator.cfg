SPECIFICATION CoordinatorSpec
CONSTANTS
  a1 = a1
  NoConsumer = NoConsumer
  NoTurn = NoTurn
  User = User
  Messages = {m1}
  Agents = {a1}
  Consumers = {c1, c2}
  Reports <- MCReports
  Topics <- MCTopics
  Recipient <- MCRecipient
  Observable = {}
  LeaseMs = 1
  Delays = {0}
  Staleness = 0
  MaxAttempts = 2
  MaxTime = 0
SYMMETRY Symmetry
INVARIANTS CoordinatorTypeOK LockCoversChild MarkFollowsLock WorkedTurnNotReplayed TurnKeepsMessage FailureIsSurfaced CompletionMeansWork
CHECK_DEADLOCK FALSE
