SPECIFICATION Spec
CONSTANT Goal = {left, right}
INVARIANTS TypeOK MovingGoalsAreOwned StoppedPosesStayStopped
PROPERTY PosesAreAnswered
