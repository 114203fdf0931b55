SPECIFICATION Spec
CONSTANTS
  root = root
  none = none
  illegal = illegal
  Root = root
  NoContext = none
  Illegal = illegal
  Unset = Unset
  Keys = {"urgent"}
  StoreChecksVersion = TRUE
  Items <- MCItems
  Order <- MCOrder
  Kind <- MCKind
  Parent <- MCParent
  Discretionary <- MCDiscretionary
  Entry <- MCEntry
  Exit <- MCExit
  Values = {"yes", "withdrawn"}
  MaxCascadeDepth = 50
  Workers = {1, 2}
INVARIANTS TypeOK Settled TreeConsistent OffersAreExact
PROPERTY MovesForward
