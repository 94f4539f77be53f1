-------------------------- MODULE MCMoveReservation --------------------------
(* Two arms, a Servo on one or on both, and Moves of each arm or of both.  *)
EXTENDS MoveReservation, TLC

MCJoint == {"left", "right"}
MCServos == Endpoint \cap {"servo_l", "servo_b"}
MCJoints == [e \in Endpoint |->
               CASE e \in {"servo_l", "move_l"} -> {"left"}
                 [] e = "move_r" -> {"right"}
                 [] OTHER -> {"left", "right"}]
MCPriority == [e \in Endpoint |-> 1]
MCLease == [s \in MCServos |-> 2]

MoveSymmetry == Permutations(MoveId)
=============================================================================
