\* Servos of one arm and of both; every set of registered endpoints is met,
\* nested or not.
SPECIFICATION Spec
CONSTANTS
  Endpoint = {"move_l", "move_lr", "servo_r", "teleop_r", "servo_lr"}
  MoveId = {m1, m2}
  ServoEndpoint <- MCServos
  Joint <- MCJoint
  Joints <- MCJoints
  Priority <- MCPriority
  Lease <- MCLease
  MaxTime = 3
  MaxSequence = 3
  MaxSkew = 1
SYMMETRY MoveSymmetry
INVARIANTS
  TypeOK
  WinnersDisjoint
  WinnersAreGreedy
  MovesNeverWait
  InputOrderIrrelevant
PROPERTIES
  RejectedMoveIsHarmless
