CONSTANTS
  Classes <- Family
  Bases <- FamilyBases
  Methods <- FamilyMethods
SPECIFICATION Spec
INVARIANT MetaOK
INVARIANT NoBaseLost
INVARIANT SearchSeesAll
INVARIANT MethodsRelated
INVARIANT PathSound
PROPERTY PassMakesProgress
