CONSTANTS
  q1 = q1
  q2 = q2
  p1 = p1
  p2 = p2
  k1 = k1
  k2 = k2
  k3 = k3
  Request = {q1, q2}
  Payload = {p1, p2}
  RingKey = {k1, k2, k3}
  NoPayload = NoPayload
  FirstKey = k1
  Retention = 2
  Overlap = 2
SPECIFICATION Spec
SYMMETRY MCSymmetry
INVARIANTS
  RecordTellsOutcome
  AnswersAgree
CHECK_DEADLOCK FALSE
