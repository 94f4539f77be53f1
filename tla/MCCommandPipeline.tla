-------------------------- MODULE MCCommandPipeline --------------------------
(* CommandPipeline on two arms: Move endpoints for both and for one, and a *)
(* Servo endpoint for each, one above and one level with the Moves.        *)
EXTENDS CommandPipeline, TLC

MCJoint == {"left", "right"}
MCServos == Endpoint \cap {"teleop_l", "teleop_r"}
MCJoints == Restrict([teleop_l |-> {"left"}, teleop_r |-> {"right"},
                      move_l |-> {"left"}, move_b |-> {"left", "right"}], Endpoint)
MCPriority == [e \in Endpoint |-> IF e = "teleop_l" THEN 2 ELSE 1]
MCLease == [s \in MCServos |-> 2]

MoveSymmetry == Permutations(MoveId)
=============================================================================
