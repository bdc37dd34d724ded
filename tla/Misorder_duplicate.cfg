SPECIFICATION Spec
CONSTANTS
  Frames = {0, 1}
  LastSub = 2
  Copies = 2
  MaxQueue = 2
  MaxJump = 2
  OtherSockets = FALSE
  IsFile = FALSE
  MaxRestarts = 0
  None = none
INVARIANT InOrder
