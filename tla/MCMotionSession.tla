--------------------------- MODULE MCMotionSession ---------------------------
(* Two joints of one group: elbow may be found two steps below its only    *)
(* allowed position or one above it, wrist has room.  A MoveP of two       *)
(* waypoints, a MoveJ and a Servo that need the group one after the other. *)
EXTENDS MotionSession, TLC

MCJoint == {"elbow", "wrist"}
MCLower == [j \in MCJoint |-> 0]
MCUpper == [j \in MCJoint |-> IF j = "elbow" THEN 0 ELSE 1]
MCKind == [s \in Session |-> CASE s = "move_j" -> "MOVE_J"
                               [] s = "move_p" -> "MOVE_P"
                               [] OTHER -> "SERVO_P"]
MCWaypoints == [s \in Session |-> IF s = "move_p" THEN 2 ELSE 1]

Position(e, w) == [elbow |-> e, wrist |-> w]
At(e, w, ev, wv) == [q |-> Position(e, w), v |-> Position(ev, wv)]

\* Measured at rest at and below the lower limit, moving at the goal, above
\* the upper limit, and beyond recovery.
MCReading == {At(e, 0, 0, 0) : e \in -3 .. 1} \cup {At(0, 0, 1, 0)}

\* Put out moving up, moving down, and with the wrist beyond its limit.
MCShaped == {At(e, 0, 1, 0) : e \in -2 .. 0}
            \cup {At(-1, 0, -1, 0), At(1, 0, -1, 0), At(0, 2, 0, 1)}
MCCandidate == {Position(0, 0), Position(1, 0)}
MCMoveTarget == Position(0, 0)
=============================================================================
