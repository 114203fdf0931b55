SPECIFICATION Spec
CONSTANTS
  c1 = c1
  c2 = c2
  new = new
  busy = busy
  closed = closed
  elsewhere = elsewhere
  handler = handler
  boss = boss
  a = a
  b = b
  Cases = {c1}
  Statuses = {new, busy, closed}
  OtherStatuses = {elsewhere}
  InitialStatus = new
  AnyStatus = AnyStatus
  NoEffect = NoEffect
  Users = {boss}
  Admins = {}
  Transitions <- MCTransitions
  From <- MCFrom
  To <- MCTo
  Allowed <- MCAllowed
  Effect <- MCEffect
  Template <- OnlyTake
  NeedsField = {"close"}
  NeedsChecklist = {"take"}
  Requests = {a}
  CaseLists <- OneCase
  MaxCaseIds = 2
  StoreChecksVersion = TRUE
  EditBound = 2
INVARIANT StatusIsRecorded
