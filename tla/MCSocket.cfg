SPECIFICATION WsFairSpec
CONSTANTS
  q1 = q1
  q2 = q2
  c1 = c1
  i1 = i1
  i2 = i2
  i3 = i3
  Requests = {q1, q2}
  ChosenIds = {c1}
  RandomIds = {i1, i2, i3}
  None = None
  KeepAlive = KeepAlive
  MaxIncoming = 0
INVARIANTS
  ResponsesMatch
  WaitingIsTracked
  TimeoutIsReal
PROPERTY
  EveryRequestEnds
