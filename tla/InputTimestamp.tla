--------------------------- MODULE InputTimestamp ---------------------------
(***************************************************************************)
(* InputTimestamp (include/humanoid_motion_server/motion/                  *)
(* input_timestamp.hpp): the tracker of one input topic.  It decides from  *)
(* the source stamp of a message, which is ROS time, whether the message   *)
(* counts, and from when on the steady clock, which a lease is measured    *)
(* with.  The ROS clock may be set back; the steady clock never is.        *)
(*                                                                         *)
(* Negative times, which accept turns away first, are left out.            *)
(***************************************************************************)
EXTENDS Integers

NoStamp == 0

Tracker == [last_stamp : Nat, last_ros_now : Nat]
FreshTracker == [last_stamp |-> NoStamp, last_ros_now |-> 0]

\* Fault: a clock that stands still is taken for one that was set back.
Reset_UnlessLater(tracker, ros_now) == ros_now <= tracker.last_ros_now

\* The tracker learns of a clock that was set back by the next message only.
Reset(tracker, ros_now) == ros_now < tracker.last_ros_now

LastStamp(tracker, ros_now) ==
  IF Reset(tracker, ros_now) THEN NoStamp ELSE tracker.last_stamp

IsFresh(stamp, ros_now, max_age, future_tolerance) ==
  ros_now - stamp < max_age /\ stamp - ros_now <= future_tolerance

Accepts(tracker, stamp, ros_now, max_age, future_tolerance, require_stamp) ==
  IF stamp = NoStamp
    THEN ~require_stamp
    ELSE /\ IsFresh(stamp, ros_now, max_age, future_tolerance)
         /\ stamp > LastStamp(tracker, ros_now)

\* fresh_at: what has passed since the stamp counts against the lease.
FreshAt(stamp, ros_now, received_at) ==
  IF stamp = NoStamp \/ stamp > ros_now THEN received_at
                                        ELSE received_at - (ros_now - stamp)

\* A message that is turned away may still tell that the clock was set back.
After(tracker, stamp, ros_now, accepted) ==
  [last_stamp   |-> IF accepted /\ stamp # NoStamp THEN stamp
                    ELSE LastStamp(tracker, ros_now),
   last_ros_now |-> ros_now]
=============================================================================
