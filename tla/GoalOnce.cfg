SPECIFICATION Spec
CONSTANTS
  e1 = e1
  e2 = e2
  NoConsumer = NoConsumer
  Events = {e1, e2}
  Inputs = {i1}
  SourceTime <- MCSourceTime
  Consumers = {c1}
  MaxTurns = 2
  MaxAttempts = 2
  Continuous = FALSE
  Deliveries = {d1}
  MaxFaults = 1
INVARIANTS TypeOK OnePromptPerClientId ConsumedMeansTurnCompleted
CHECK_DEADLOCK FALSE
