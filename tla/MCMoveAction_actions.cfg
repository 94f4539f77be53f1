SPECIFICATION Spec
CONSTANTS
  move1 = move1
  move2 = move2
  left = left
  Goal = {move1, move2}
  Joints <- MCJoints
  Mapping = TRUE
  MaxTasks = 2
INVARIANTS TypeOK NoMotionAfterResult NeverAnsweredTwice NothingLeftBehind
PROPERTIES EveryGoalGetsItsResult WorkersFinishAtShutdown
CHECK_DEADLOCK FALSE
