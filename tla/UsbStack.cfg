SPECIFICATION StackSpec
CONSTANTS
  MaxPlugs = 2
  Lengths = {64}
  InMps = 64
  OutMps = 64
  MaxFlying = 1
  MaxLeaked = 1
INVARIANTS DevHandleIsOpen ClientHandleIsRegistered TransfersAccounted
PROPERTY DeviceServed
CHECK_DEADLOCK FALSE
