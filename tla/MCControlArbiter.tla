-------------------------- MODULE MCControlArbiter --------------------------
(***************************************************************************)
(* Instances of ControlArbiter for TLC.                                    *)
(***************************************************************************)
EXTENDS ControlArbiter, TLC

\* Two arms.  move_l, move_lr and teleop_r have the shape of the shipped
\* channels, in which a Servo drives one arm and a Move one or both; servo_lr
\* drives both.  Endpoints are registered one by one, so that the runs see the
\* channels with it and without.
MCJoint == {"l", "r"}
MCJoints == Restrict([move_l |-> {"l"}, move_lr |-> {"l", "r"},
                      servo_r |-> {"r"}, teleop_r |-> {"r"}, servo_lr |-> {"l", "r"}], Endpoint)
MCPriority == [e \in Endpoint |-> IF e = "teleop_r" THEN 100 ELSE 50]
MCServos == Endpoint \ {"move_l", "move_lr"}
MCLease == [s \in MCServos |-> 2]

MoveSymmetry == Permutations(MoveId)
=============================================================================
