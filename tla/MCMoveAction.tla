---------------------------- MODULE MCMoveAction ----------------------------
(* Instances of MoveAction. *)
EXTENDS MoveAction

CONSTANTS move1, move2, left

\* Both goals are for the same arm.
MCJoints == [g \in Goal |-> {left}]
=============================================================================
