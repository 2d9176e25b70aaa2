SPECIFICATION Spec
CONSTANTS
  Base = 3
  Sync = 2
  MaxPayload = 3
  CrcSize = 2
  Crc <- MCCrc
  Traffic <- MCTraffic
INVARIANTS
  TypeOK
  ExactlyFrames
  InStepArrives
  ResyncBounded
