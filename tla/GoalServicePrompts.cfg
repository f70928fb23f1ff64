SPECIFICATION Spec
CONSTANTS
  e1 = e1
  e2 = e2
  NoConsumer = NoConsumer
  Events = {e1}
  Inputs = {}
  SourceTime <- MCSourceTime
  Consumers = {c1}
  MaxTurns = 2
  MaxAttempts = 2
  Continuous = TRUE
  Deliveries = {d1, d2}
  MaxFaults = 0
INVARIANTS OnePromptPerClientId
CHECK_DEADLOCK FALSE
