SPECIFICATION Spec
CONSTANTS
  one = one
  two = two
  Image <- MCOneImage
  Promoted <- MCPromoted
  Size <- MCSize
  NoFile = NoFile
  MaxEvents = 2
INVARIANTS TypeOK OneWebTransfer
PROPERTIES TransferringEnds MutexReleased
