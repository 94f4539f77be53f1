SPECIFICATION Spec
CONSTANTS
  Endpoint = {"teleop_l", "move_l", "move_b"}
  ServoEndpoint <- MCServos
  MoveId = {m1, m2}
  Joint <- MCJoint
  Joints <- MCJoints
  Priority <- MCPriority
  Lease <- MCLease
  FeedbackMaxAge = 3
  MaxPeriod = 2
  RetryInterval = 2
  MoveTimeout = 2
  MaxTime = 4
  MaxSequence = 2
  MaxToken = 2
  MaxGeneration = 0
  MaxSkew = 1
SYMMETRY MoveSymmetry
PROPERTIES OutputIsFresh RunningMoveRunsToItsEnd OffersAreWhole
