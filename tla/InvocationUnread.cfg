CONSTANTS
  Types <- MCTypes
  Scalars <- MCScalars
  Strings <- MCStrings
  Castable <- MCCastable
  PointerTo <- MCPointerTo
  ConstPointerTo <- MCConstPointerTo
  Layouts <- MCLayouts
  BaseOffset <- MCBaseOffset
  Holders <- MCHolders
  Requests <- MCRequests
  Callables <- MCCallables
  Functions <- MCFunctions
  NotMade = NotMade
  Attributes <- MCAttributes
  NullPtr = NullPtr
  NotCached = NotCached
  NoObject = NoObject
SPECIFICATION Spec
INVARIANT FailedConversionsAreNeverRead
