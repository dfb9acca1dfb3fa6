CONSTANTS
  Types <- MCTypes
  Scalars <- MCScalars
  Strings <- MCStrings
  Castable <- MCCastable
  PointerTo <- MCPointerTo
  ConstPointerTo <- MCConstPointerTo
  Layouts <- MCLayouts
  BaseOffset <- MCBaseOffset
  Holders <- MCMutableHolders
  Requests <- MCRequests
  NullPtr = NullPtr
  NotCached = NotCached
SPECIFICATION Spec
PROPERTY CacheIsTransparent
