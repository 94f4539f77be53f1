\* A Servo that drives both arms and one of higher priority on one arm.
SPECIFICATION Spec
CONSTANTS
  Endpoint = {"move_l", "teleop_r", "servo_lr"}
  MoveId = {m1}
  ServoEndpoint <- MCServos
  Joint <- MCJoint
  Joints <- MCJoints
  Priority <- MCPriority
  Lease <- MCLease
  MaxTime = 3
  MaxSequence = 4
  MaxSkew = 1
PROPERTIES
  LostMoveNeverResumes
