CONSTANTS
  Types <- MCTypes
  Scalars <- MCScalars
  Strings <- MCStrings
  Castable <- MCCastable
  PointerTo <- MCPointerTo
  ConstPointerTo <- MCConstPointerTo
  Layouts <- MCLayouts
  BaseOffset <- MCBaseOffset
  Holders <- MCHolders
  Requests <- MCFewRequests
  NullPtr = NullPtr
  NotCached = NotCached
SPECIFICATION Spec
INVARIANT TypeOK
INVARIANT PossibleEntriesSound
INVARIANT ConstDroppedOnlyByMoves
INVARIANT ImpossibleIffRefused
INVARIANT AnswersAreCasts
