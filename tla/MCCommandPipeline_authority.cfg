SPECIFICATION Spec
CONSTANTS
  Endpoint = {"teleop_r", "move_l", "move_b"}
  ServoEndpoint <- MCServos
  MoveId = {m1, m2}
  Joint <- MCJoint
  Joints <- MCJoints
  Priority <- MCPriority
  Lease <- MCLease
  FeedbackMaxAge = 1
  MaxPeriod = 1
  RetryInterval = 1
  MoveTimeout = 1
  MaxTime = 2
  MaxSequence = 3
  MaxToken = 2
  MaxGeneration = 1
  MaxSkew = 0
SYMMETRY MoveSymmetry
INVARIANTS TypeOK SessionsHoldClaims BackendSessionsDisjoint MoveEndsOnce RevokedMeansSilent
PROPERTIES OutputIsCurrent StoppedMoveIsSilent
