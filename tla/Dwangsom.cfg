SPECIFICATION Spec
CONSTANTS
  None = None
  c1 = c1
  c2 = c2
  p1 = p1
  a = a
  b = b
  Calculations = {c1, c2}
  Payouts = {p1}
  Requests = {a, b}
  Days <- MCDays
  Deadline = 0
  Corrections = {1000}
SYMMETRY Alike
CONSTRAINT Bounds
INVARIANTS TypeOK OneDwangsom AmountIsOwed DecisionReflectsDays PayoutsFollow
CHECK_DEADLOCK FALSE
