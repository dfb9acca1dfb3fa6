CONSTANTS
  Handles = {h1, h2}
  Refs = {r1, r2}
  Impls = {i1, i2}
  Classes = {"Reader", "Writer", "Concrete"}
  Methods = {read}
  Proxyable = {"Reader", "Writer"}
  Lists <- MCLists
  Captures = TRUE
  MaxCalls = 1
  None = None
  Plain = Plain
SPECIFICATION Spec
CHECK_DEADLOCK FALSE
INVARIANT HeapOK
INVARIANT HandleCountExact
INVARIANT InterfacesWhileHandled
INVARIANT CallsKeptAlive
PROPERTY LostAreDestroyed
