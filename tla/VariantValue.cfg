CONSTANTS
  Variants = {v1, v2, v3}
  Holders = {h1, h2, h3}
  Numbers = {"DOUBLE", "FLOAT"}
  Externals = {x1}
  Types = {copyable, moveOnly}
  Copyable = {copyable}
  Movable = {copyable, moveOnly}
  Assignable = {copyable}
  Values = {0, 1}
  MayThrow = {"object", "string"}
  NullPtr = NullPtr
  Dangling = Dangling
SPECIFICATION Spec
VIEW MemoryView
INVARIANT MemoryOK
INVARIANT OwnersExact
PROPERTY NoActionAtADistance
PROPERTY CopiesAreIndependent
PROPERTY FailureIsContained
PROPERTY UndefinedOnlyByMisuse
