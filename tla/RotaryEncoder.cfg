SPECIFICATION KnobSpec
CONSTANT MaxMoves = 12
INVARIANTS KnobTypeOK InStep SkipCostsTwo
CHECK_DEADLOCK FALSE
