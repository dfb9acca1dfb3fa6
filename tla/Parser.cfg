CONSTANTS
  Programs <- MCPrograms
SPECIFICATION Spec
INVARIANT RecordsOK
INVARIANT RecordedOnce
INVARIANT InterfaceAsDocumented
INVARIANT StubsPrintable
INVARIANT TypesReadBack
