SPECIFICATION SimSpec
CONSTANTS
  Turn = 4
  MaxLat = 0
  MaxLon = 0
  Fine = 3
  Charge = 100
  Drain = 20
  MaxAge = 2
INVARIANT ReadingsAreValid
CHECK_DEADLOCK FALSE
