SPECIFICATION Spec
CONSTANTS
  Chars <- MCChars
  Specials <- MCSpecials
  FifoLen = 2
  MaxBytes = 4
  Width = 3
  Height = 4
  Rows = 3
  MaxOutput = 1
  MaxPrints = 2
INVARIANTS TypeOK NoKeyStuck OneStaleRead ShiftFollowsKey IndexInScreen ScreenIsRing
PROPERTIES RingIsTerminal KeyRead
CHECK_DEADLOCK FALSE
