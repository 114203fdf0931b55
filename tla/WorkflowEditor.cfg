SPECIFICATION EditorSpec
CONSTANTS
  None = None
  d1 = d1
  d2 = d2
  d3 = d3
  standaard = standaard
  spoed = spoed
  open = open
  done = done
  ui = ui
  api = api
  cli = cli
  Definitions = {d1, d2, d3}
  Routes = {standaard, spoed}
  Standaard = standaard
  Statuses = {open, done}
  Finals = {done}
  Graphs <- MCGraphs
  Requests = {ui, api, cli}
  Ui = ui
SYMMETRY Alike
CONSTRAINT Bounds
INVARIANTS EditorTypeOK OneActivePerRoute RouteServed DefaultRouteIsTaken NotStranded CleanCopyIsStored
PROPERTIES KeepsDefaultRoute PublishesOnlyValid SavesOnlyDrafts
CHECK_DEADLOCK FALSE
