SPECIFICATION Spec
CONSTANTS
  Session = {"move_j", "move_p", "servo"}
  Kind <- MCKind
  Waypoints <- MCWaypoints
  Unknown = Unknown
  Joint <- MCJoint
  Lower <- MCLower
  Upper <- MCUpper
  RecoveryMargin = 2
  MaxStep = 1
  Reading <- MCReading
  Shaped <- MCShaped
  Candidate <- MCCandidate
  MoveTarget <- MCMoveTarget
  PositionTolerance = 0
  VelocityTolerance = 0
  StableDuration = 2
  MoveTimeout = 2
  Lease = 2
  FeedbackMaxAge = 2
  MaxPeriod = 1
  RetryInterval = 1
  MaxTime = 3
INVARIANTS TypeOK TasksEndWithSessions SmootherContinuesOutput
PROPERTIES OutputsMoveInward SuccessIsEarned
