SPECIFICATION Spec
CONSTANTS
  a1 = a1
  NoConsumer = NoConsumer
  Messages = {m1, m2}
  Agents = {a1}
  Consumers = {c1}
  Reports = {r1}
  Topics = {}
  Recipient <- MCRecipient
  Observable = {"busy"}
  LeaseMs = 1
  Delays = {0}
  Staleness = 1
  MaxAttempts = 2
  MaxTime = 1
PROPERTIES KeepsContract
CHECK_DEADLOCK FALSE
