CONSTANTS
  Handles = {h1, h2}
  Refs = {r1}
  Impls = {i1, i2}
  Classes = {"Reader", "Concrete"}
  Methods = {read}
  Proxyable = {"Reader"}
  Lists <- MCMixedLists
  Captures = FALSE
  MaxCalls = 1
  None = None
  Plain = Plain
SPECIFICATION Spec
INVARIANT NoLeak
