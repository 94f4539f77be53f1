SPECIFICATION Spec
CONSTANTS
  Endpoint = {"servo_l", "move_l"}
  ServoEndpoint <- MCServos
  MoveId = {m1, m2}
  Joint <- MCJoint
  Joints <- MCJoints
  Priority <- MCPriority
  Lease <- MCLease
  InputMaxAge = 2
  FutureTolerance = 1
  MaxSetBacks = 0
  MaxTime = 3
  MaxSequence = 3
SYMMETRY MoveSymmetry
INVARIANT EarlierLeaseNotExposed
