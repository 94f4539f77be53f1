---------------------------- MODULE GoalMonitor ----------------------------
(***************************************************************************)
(* GoalMonitor (src/motion/goal_monitor.cpp): when a Move has reached its  *)
(* goal.  A goal is a record of goals_; begin makes one and observe gives  *)
(* an observation and the goal's next state.                               *)
(*                                                                         *)
(* The Cartesian part of a goal is compared with a pose the SDK computes   *)
(* from the measured joints, so all that is kept of a pose is whether it   *)
(* is "near" the goal, "far" from it, or unusable ("none").  Goals without *)
(* a Cartesian part are given "near".                                      *)
(***************************************************************************)
EXTENDS Integers

CONSTANTS
  PositionTolerance,  \* joint_position_tolerance_rad
  VelocityTolerance,  \* joint_velocity_tolerance_rad_s
  StableDuration,     \* stable_duration
  MoveTimeout         \* move_timeout

\* begin refuses any other configuration.
ASSUME MonitorAssumption ==
  /\ PositionTolerance \in Nat /\ VelocityTolerance \in Nat
  /\ StableDuration \in Nat /\ MoveTimeout \in Nat \ {0}

NotStable == -1
Pose == {"near", "far", "none"}

BeginGoal(q, now) == [q |-> q, started_at |-> now, stable_since |-> NotStable]

Close(x, y, tolerance) == x - y <= tolerance /\ y - x <= tolerance

WithinTolerance(goal, measured, pose) ==
  /\ \A j \in DOMAIN goal.q : /\ Close(measured.q[j], goal.q[j], PositionTolerance)
                              /\ Close(measured.v[j], 0, VelocityTolerance)
  /\ pose = "near"

\* Fault: leaving the goal does not restart the wait.
StableSince_Kept(goal, within, now) ==
  IF within /\ goal.stable_since = NotStable THEN now ELSE goal.stable_since

StableSince(goal, within, now) ==
  IF ~within THEN NotStable
  ELSE IF goal.stable_since = NotStable THEN now ELSE goal.stable_since

Observe(goal, measured, pose, now) ==
  LET within == WithinTolerance(goal, measured, pose)
      since  == StableSince(goal, within, now)
      Result(observation) ==
        [observation |-> observation, goal |-> [goal EXCEPT !.stable_since = since]]
  IN  IF now - goal.started_at > MoveTimeout
        THEN [observation |-> "TIMED_OUT", goal |-> goal]
      ELSE IF pose = "none" THEN Result("INVALID_FEEDBACK")
      ELSE IF within /\ now - since >= StableDuration THEN Result("REACHED")
      ELSE Result("RUNNING")
=============================================================================
