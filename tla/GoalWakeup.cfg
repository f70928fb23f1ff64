SPECIFICATION FairSpec
CONSTANTS
  e1 = e1
  e2 = e2
  NoConsumer = NoConsumer
  Events = {e1, e2}
  Inputs = {}
  SourceTime <- MCSourceTime
  Consumers = {c1}
  MaxTurns = 2
  MaxAttempts = 2
  Continuous = FALSE
  Deliveries = {d1}
  MaxFaults = 1
PROPERTIES DeliveringResolves ImplementsEventFeed
CHECK_DEADLOCK FALSE
