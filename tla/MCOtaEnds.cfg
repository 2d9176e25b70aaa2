SPECIFICATION Spec
CONSTANTS
  good = good
  bad = bad
  Image <- MCImage
  Crashy <- MCCrashy
  Size <- MCSize
  AppPages = 2
  Blank = Blank
  Torn = Torn
  NoConfig = NoConfig
  NoImage = NoImage
  BootAttemptLimit = 1
  AttemptCap = 2
  MaxRetries = 2
  Staged <- MCNothing
  Budget <- MCOneEach
PROPERTIES TransferEnds
