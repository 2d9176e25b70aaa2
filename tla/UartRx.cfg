SPECIFICATION Spec
CONSTANTS
  RingSize = 3
  StreamSize = 4
  MaxBytes = 7
INVARIANTS TypeOK InOrder
PROPERTY QuietIsDelivered
CHECK_DEADLOCK FALSE
