SPECIFICATION Spec
CONSTANTS
  m1 = m1
  m2 = m2
  w1 = w1
  w2 = w2
  Messages = {m1}
  Workers = {w1, w2}
  MaxRetries = 2
  Threshold = 2
  MaxFaults = 1
INVARIANTS TypeOK WaitingIsScheduled
PROPERTY RetriesSettle
CHECK_DEADLOCK FALSE
