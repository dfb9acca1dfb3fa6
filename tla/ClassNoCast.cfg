CONSTANTS
  Classes <- Chain
  Bases <- ChainBases
  Methods <- ChainMethods
SPECIFICATION Spec
INVARIANT CastFunctionsFollowPath
