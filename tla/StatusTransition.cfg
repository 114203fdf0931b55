SPECIFICATION Spec
CONSTANTS
  c1 = c1
  c2 = c2
  new = new
  busy = busy
  closed = closed
  elsewhere = elsewhere
  handler = handler
  boss = boss
  a = a
  b = b
  Cases = {c1, c2}
  Statuses = {new, busy, closed}
  OtherStatuses = {elsewhere}
  InitialStatus = new
  AnyStatus = AnyStatus
  NoEffect = NoEffect
  Users = {handler, boss}
  Admins = {boss}
  Transitions <- MCTransitions
  From <- MCFrom
  To <- MCTo
  Allowed <- MCAllowed
  Effect <- MCEffect
  Template <- MCTemplate
  NeedsField = {"close"}
  NeedsChecklist = {"take"}
  Requests = {a, b}
  CaseLists <- Lists
  MaxCaseIds = 2
  StoreChecksVersion = TRUE
  EditBound = 1
SYMMETRY Alike
CONSTRAINT Quiet
INVARIANTS TypeOK MovesChain RecordsTellTheTruth ReportsAreFaithful
PROPERTY ActsAtomically
