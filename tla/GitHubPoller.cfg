SPECIFICATION FairSpec
CONSTANTS
  e1 = e1
  e2 = e2
  e3 = e3
  e4 = e4
  k1 = k1
  k2 = k2
  neo = neo
  trinity = trinity
  Unsigned = Unsigned
  Feedback = {e1, e2, e3, e4}
  Continuations = {k1, k2}
  Workers = {neo, trinity}
  Content <- MCContent
  WaitsFor <- MCWaitsFor
  Recipient <- MCRecipient
  Unavailable = {neo}
  Kinds <- MCKinds
  Workloads <- MCWorkloads
  Passes = {p1, p2}
  Threshold = 2
  MaxFaults = 1
INVARIANTS PollerTypeOK NothingSkipped OutcomeIsBacked SentOrEscalated AnsweredAsDecided CyclesEscalatedInSeries
CHECK_DEADLOCK FALSE
PROPERTIES FeedbackIsRouted ContinuationsAnswered
