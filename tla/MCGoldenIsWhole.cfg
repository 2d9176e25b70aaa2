SPECIFICATION Spec
CONSTANTS
  one = one
  two = two
  Image <- MCImage
  Promoted <- MCPromoted
  Size <- MCSize
  NoFile = NoFile
  MaxEvents = 2
INVARIANT GoldenIsWhole
