SPECIFICATION Spec
CONSTANTS
  Epoch = {motion1, vr2}
  Key = {motionKey, vrKey}
  MotionSource = {motion1, motionKey}
  PermitAge = 0
  MaxTime = 1
  MaxGeneration = 3
  MaxMoves = 1
INVARIANTS TypeOK PublishedUnderItsPermit PermissionFailsSafe AcknowledgedRevokeIsComplete
PROPERTIES StalePermitEndsOutput
