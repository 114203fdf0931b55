SPECIFICATION Spec
CONSTANTS
  task = task
  toets = toets
  alice = alice
  bob = bob
  Decidiq = Decidiq
  None = None
  Asks = {task}
  Decisions = {toets}
  People = {alice, bob}
  Assignees <- MCAssignees
  MaxRounds <- MCRounds
  MaxFaults = 1
INVARIANTS TypeOK AskedOnce AnswersAreTrue
PROPERTY AnswerArrives
CHECK_DEADLOCK FALSE
