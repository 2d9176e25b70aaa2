SPECIFICATION Spec
CONSTANTS
  Lux <- MCLux
  NoLux <- MCNoLux
  Percent <- MCPercent
  Refresh = 3
  Items = 2
  MaxInputs = 4
INVARIANTS TypeOK ManualIsShown EditingIsManual
PROPERTIES Settles StripFollows
