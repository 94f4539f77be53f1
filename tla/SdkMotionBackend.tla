-------------------------- MODULE SdkMotionBackend --------------------------
(***************************************************************************)
(* SdkMotionBackend (src/motion/sdk_motion_backend.cpp) for one joint      *)
(* group: the sessions it runs, the realtime tasks it has started in the   *)
(* SDK for them, and the group's final smoother (RTC), which all sessions  *)
(* of the group share.  Each operation is an action on these variables     *)
(* that the pipeline's actions are made of.                                *)
(*                                                                         *)
(* The SDK is closed: it may accept or refuse, report a waypoint reached   *)
(* or not, and give any position.  A smoother that failed half-way is      *)
(* Unknown.  stopped_sessions, which is only written, is left out.         *)
(***************************************************************************)
EXTENDS Integers, Functions

CONSTANTS
  Session,  \* session ids of the group
  Kind,     \* Kind[s]: the MotionKind of session s
  Waypoints,\* Waypoints[s]: the number of joint targets of a MoveP
  Unknown   \* where a smoother is after an error

ASSUME BackendAssumption ==
  /\ Kind \in [Session -> {"MOVE_J", "MOVE_L", "MOVE_P", "SERVO_J", "SERVO_P"}]
  /\ Waypoints \in [Session -> Nat \ {0}]
  /\ \A s \in Session : Kind[s] # "MOVE_P" => Waypoints[s] = 1

VARIABLES
  sdk_sessions,  \* sessions: id -> waypoint_index
  sdk_tasks,     \* sessions whose realtime task runs in the SDK
  rtc            \* where the final smoother is

backend == <<sdk_sessions, sdk_tasks, rtc>>

BackendInit == sdk_sessions = <<>> /\ sdk_tasks = {} /\ rtc = Unknown

\* ServoJ needs no task, its target is a joint target already.
HasTask(s) == Kind[s] # "SERVO_J"

\* startSession when the SDK accepts; an error leaves nothing behind, since
\* a task that did not start is stopped at once.
StartSession(s) ==
  /\ s \notin DOMAIN sdk_sessions
  /\ sdk_sessions' = [t \in DOMAIN sdk_sessions \cup {s} |->
                        IF t = s THEN 0 ELSE sdk_sessions[t]]
  /\ sdk_tasks' = sdk_tasks \cup (IF HasTask(s) THEN {s} ELSE {})
  /\ UNCHANGED rtc

IsLastWaypoint(s) == sdk_sessions[s] + 1 = Waypoints[s]

\* What tickSession reports when the SDK has reached the present waypoint.
PathReached(s, reached) == reached /\ IsLastWaypoint(s)

\* tickSession: a MoveP goes on to its next waypoint.
TickSession(s, reached) ==
  /\ sdk_sessions' =
       IF reached /\ ~IsLastWaypoint(s)
         THEN [sdk_sessions EXCEPT ![s] = @ + 1] ELSE sdk_sessions
  /\ UNCHANGED <<sdk_tasks, rtc>>

\* stopSession for each session of S.
StopSessions(S) ==
  /\ sdk_sessions' = Restrict(sdk_sessions, DOMAIN sdk_sessions \ S)
  /\ sdk_tasks' = sdk_tasks \ (S \cap DOMAIN sdk_sessions)

\* resetFinalJointTarget and rebaseFinalJointTarget.
ResetFinal(target) == rtc' = target

\* updateFinalJointTarget.
UpdateFinal(output) == rtc' = output
=============================================================================
