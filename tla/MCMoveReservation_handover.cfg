SPECIFICATION Spec
CONSTANTS
  Endpoint = {"servo_b", "move_l", "move_r", "move_b"}
  ServoEndpoint <- MCServos
  MoveId = {m1, m2}
  Joint <- MCJoint
  Joints <- MCJoints
  Priority <- MCPriority
  Lease <- MCLease
  InputMaxAge = 2
  FutureTolerance = 1
  MaxSetBacks = 1
  MaxTime = 3
  MaxSequence = 3
SYMMETRY MoveSymmetry
INVARIANTS TypeOK MovesAreReserved QueuedTargetsFollowMoves QueuedTargetsKeepTheirAge
