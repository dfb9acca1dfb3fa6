SPECIFICATION Spec
CONSTANTS
  MaxSlots = 3
  MaxRefs = 2
  Plain = {p}
  Stubs = {a, b}
  Strings = {t}
  LibObjects = {p}
  MaxGarbage = 1
  Within <- MCWithin
  None = None
INVARIANT RegistryOK
INVARIANT FaultsHaveACause
INVARIANT PredicateFound
INVARIANT SugarCallsRight
PROPERTY LostAreDestroyed
