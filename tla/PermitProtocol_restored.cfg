SPECIFICATION Spec
CONSTANTS
  Epoch = {motion1}
  Key = {motionKey}
  MotionSource = {motion1, motionKey}
  PermitAge = 0
  MaxTime = 1
  MaxGeneration = 3
  MaxMoves = 1
INVARIANTS FreshPermitRestoresOutput
