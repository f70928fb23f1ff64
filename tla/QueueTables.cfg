SPECIFICATION FairSpec
CONSTANTS
  a1 = a1
  NoConsumer = NoConsumer
  Messages = {m1}
  Agents = {a1}
  Consumers = {c1, c2}
  Reports = {r1, r2}
  Topics = {t1}
  Recipient <- MCRecipient
  Observable = {}
  LeaseMs = 1
  Delays = {0, 1}
  Staleness = 1
  MaxAttempts = 2
  MaxTime = 3
INVARIANTS TypeOK AttemptLedger AcceptedOnReceipt NotReplayedBlindly OneReportPerTurn
PROPERTIES DeadConsumersLoseLeases
CHECK_DEADLOCK FALSE
