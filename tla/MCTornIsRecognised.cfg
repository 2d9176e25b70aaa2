SPECIFICATION Spec
CONSTANTS
  small = small
  large = large
  crashing = crashing
  Image <- MCImage
  Crashy <- MCCrashy
  Size <- MCSize
  AppPages = 2
  Blank = Blank
  Torn = Torn
  NoConfig = NoConfig
  BootAttemptLimit = 2
  AttemptCap = 3
INVARIANTS
  TornIsRecognised
