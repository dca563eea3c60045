SPECIFICATION Spec
CONSTANTS
  kCheapPrepend = 3
  kInitialSize = 6
  SizeMax = 65536
  Messages <- MCMessages
  MaxLen = 5
  Radix = 4
  Extra = 3
  MaxSent = 3
INVARIANT SpaceIsMade
CHECK_DEADLOCK FALSE
