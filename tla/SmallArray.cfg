CONSTANTS
  Elements = {null, number, text}
  Null = null
  SelfPointing = {text}
  Small = 2
  MaxSize = 5
  Blocks = {b1, b2}
  NoBlock = NoBlock
  Raw = Raw
  Events <- MCEvents
SPECIFICATION Spec
INVARIANT ElementsOK
PROPERTY IsSequence
