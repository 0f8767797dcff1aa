CONSTANTS
  WIDTH = 18
  HEIGHT = 16
  Bytes <- MCBytes
  Glyph <- MCGlyph
  ParamMax = 32
  SgrCodes = {0, 32}
  MaxSequence = 6
SPECIFICATION Spec
INVARIANTS
  DisplayOK
  SequenceUnderstood
  CommandsUnderstood
  CleanMeansShown
