----------------------------- MODULE MoveAction -----------------------------
(***************************************************************************)
(* Move Actions in HumanoidMotionControlNode (src/                         *)
(* humanoid_motion_control_node.cpp): from the acceptance of a goal to its *)
(* one result.  The executor accepts goals and cancel requests; each goal  *)
(* has a worker thread (launch_action, execute_move, finish_move); the     *)
(* control thread hands over how sessions ended through terminal_events_.  *)
(*                                                                         *)
(* Of the pipeline only the sessions are kept, with the events it has not  *)
(* given to a cycle yet.  A goal handle is in one of the states of         *)
(* rclcpp_action (external): a transition it does not know throws.         *)
(***************************************************************************)
EXTENDS Integers, FiniteSets

CONSTANTS
  Goal,           \* goals; also the ids of their sessions
  Joints,         \* the joints of a goal's group
  Mapping,        \* public_mapping_.enabled(): Moves reserve their joints
  MaxTasks        \* worker threads (64U)

ASSUME ActionAssumption ==
  /\ Mapping \in BOOLEAN /\ MaxTasks \in Nat
  /\ DOMAIN Joints = Goal /\ \A g \in Goal : Joints[g] # {}

VARIABLES
  goal,                     \* the handle's state, by goal
  worker,                   \* what the worker thread does next, by goal
  cancel_requested,         \* goals whose worker has canceled the session
  move_owners,              \* goals that own joints
  permitted,                \* source_permitted
  current,                  \* goals that were accepted under this permission
  sessions, events,         \* the pipeline
  tick_events, handing_over,    \* locals of control_tick
  waiting_move_sessions, terminal_events,
  stopping                  \* rclcpp::ok() no more, or stopping_

node == <<move_owners, permitted, current>>
control == <<tick_events, handing_over>>
vars == <<goal, worker, cancel_requested, node, sessions, events, control,
          waiting_move_sessions, terminal_events, stopping>>

None == "none"
Active == {"executing", "canceling"}
Result == {"succeeded", "canceled", "aborted"}
SessionEnd == {"succeeded", "canceled", "preempted", "aborted"}

\* What a worker does next; a session's end, when it has taken that event.
WorkerStep == {None, "launch", "check", "submit", "poll", "discard", "abort", "drop",
               "catch", "caught", "release", "done"} \cup SessionEnd

Overlap(g, h) == Joints[g] \cap Joints[h] # {}

NoEvents == [g \in Goal |-> None]

Init ==
  /\ goal = [g \in Goal |-> None]
  /\ worker = [g \in Goal |-> None]
  /\ cancel_requested = {} /\ move_owners = {}
  /\ permitted = FALSE /\ current = {}
  /\ sessions = {} /\ events = NoEvents
  /\ tick_events = NoEvents /\ handing_over = FALSE
  /\ waiting_move_sessions = {} /\ terminal_events = NoEvents
  /\ stopping = FALSE

GoTo(g, step) == worker' = [worker EXCEPT ![g] = step]
-----------------------------------------------------------------------------
\* The pipeline: terminate, for the sessions in S.

\* Fault: a canceled session leaves no event.
EventsAfter_NotCanceled(S, end) ==
  [g \in Goal |-> IF g \in S /\ end # "canceled" THEN end ELSE events[g]]

EventsAfter(S, end) == [g \in Goal |-> IF g \in S THEN end ELSE events[g]]

EndSessions(S, end) ==
  /\ sessions' = sessions \ S
  /\ events' = EventsAfter(S, end)

\* cancel: no matter if the session is there.
CancelSession(g) == EndSessions({g} \cap sessions, "canceled")
-----------------------------------------------------------------------------
\* The executor thread.

\* The goal and the accepted callbacks, up to the second source_permitted.
AcceptGoal(g) ==
  /\ goal[g] = None /\ permitted /\ ~stopping
  /\ goal' = [goal EXCEPT ![g] = "executing"]
  /\ GoTo(g, "launch")
  /\ UNCHANGED <<cancel_requested, node, sessions, events, control,
                 waiting_move_sessions, terminal_events, stopping>>

Tasks == {g \in Goal : worker[g] \notin {None, "launch", "done"}}

HasCapacity == permitted /\ ~stopping /\ Cardinality(Tasks) < MaxTasks

MayReserve(g) == Mapping => \A h \in move_owners : ~Overlap(g, h)

\* launch_action; without a worker it aborts the goal itself.
LaunchAction(g) ==
  /\ worker[g] = "launch"
  /\ IF HasCapacity /\ MayReserve(g)
       THEN /\ move_owners' = IF Mapping THEN move_owners \cup {g} ELSE move_owners
            /\ current' = current \cup {g}
            /\ GoTo(g, "check")
            /\ UNCHANGED goal
       ELSE /\ goal' = [goal EXCEPT ![g] = "aborted"]
            /\ GoTo(g, "done")
            /\ UNCHANGED <<move_owners, current>>
  /\ UNCHANGED <<cancel_requested, permitted, sessions, events, control,
                 waiting_move_sessions, terminal_events, stopping>>

CancelGoal(g) ==
  /\ goal[g] = "executing" /\ ~stopping
  /\ worker[g] # "launch"       \* the executor's callbacks exclude each other
  /\ goal' = [goal EXCEPT ![g] = "canceling"]
  /\ UNCHANGED <<worker, cancel_requested, node, sessions, events, control,
                 waiting_move_sessions, terminal_events, stopping>>

\* The permission changes: the sessions end (setOutputPermit), and requests
\* accepted before will be rejected.
Revoke ==
  /\ permitted
  /\ permitted' = FALSE /\ current' = {}
  /\ EndSessions(sessions, "canceled")
  /\ UNCHANGED <<goal, worker, cancel_requested, move_owners, control,
                 waiting_move_sessions, terminal_events, stopping>>

Grant ==
  /\ ~permitted /\ ~stopping
  /\ permitted' = TRUE
  /\ UNCHANGED <<goal, worker, cancel_requested, move_owners, current, sessions, events,
                 control, waiting_move_sessions, terminal_events, stopping>>

Shutdown ==
  /\ ~stopping
  /\ stopping' = TRUE
  /\ UNCHANGED <<goal, worker, cancel_requested, node, sessions, events, control,
                 waiting_move_sessions, terminal_events >>
-----------------------------------------------------------------------------
\* The worker thread of goal g.

\* execute_move_j, _l, _p and execute_move up to the submission.  The request
\* may be invalid or feedback missing; otherwise the worker registers first.
AwaitEvent(g) ==
  /\ worker[g] = "check"
  /\ \/ /\ waiting_move_sessions' = waiting_move_sessions \cup {g}
        /\ GoTo(g, "submit")
     \/ /\ GoTo(g, "abort")
        /\ UNCHANGED waiting_move_sessions
  /\ UNCHANGED <<goal, cancel_requested, node, sessions, events, control,
                 terminal_events, stopping>>

\* submitMove: the arbiter or the backend may reject; an admitted Move
\* preempts those it overlaps.
SubmitMove(g) ==
  /\ worker[g] = "submit"
  /\ \/ /\ g \in current
        /\ LET preempted == {h \in sessions : Overlap(g, h)}
           IN  /\ sessions' = (sessions \ preempted) \cup {g}
               /\ events' = EventsAfter(preempted, "preempted")
        /\ GoTo(g, "poll")
     \/ /\ GoTo(g, "discard")
        /\ UNCHANGED <<sessions, events>>
  /\ UNCHANGED <<goal, cancel_requested, node, control, waiting_move_sessions,
                 terminal_events, stopping>>

\* Fault: the loop goes on when the node stops.
GoesOn_Always == TRUE

GoesOn == ~stopping

Polls(g) == worker[g] = "poll" /\ GoesOn

RequestCancel(g) ==
  /\ Polls(g) /\ goal[g] = "canceling" /\ g \notin cancel_requested
  /\ cancel_requested' = cancel_requested \cup {g}
  /\ CancelSession(g)
  /\ UNCHANGED <<goal, worker, node, control, waiting_move_sessions, terminal_events,
                 stopping>>

\* Fault: a Move that has timed out goes on.
TimeOut_KeepsSession(g) ==
  /\ Polls(g) /\ g \notin cancel_requested
  /\ GoTo(g, "discard")
  /\ UNCHANGED <<goal, cancel_requested, node, sessions, events, control,
                 waiting_move_sessions, terminal_events, stopping>>

TimeOut(g) ==
  /\ Polls(g) /\ g \notin cancel_requested
  /\ CancelSession(g)
  /\ GoTo(g, "discard")
  /\ UNCHANGED <<goal, cancel_requested, node, control, waiting_move_sessions,
                 terminal_events, stopping>>

\* take_terminal_event
TakeTerminalEvent(g) ==
  /\ Polls(g) /\ terminal_events[g] # None
  /\ waiting_move_sessions' = waiting_move_sessions \ {g}
  /\ terminal_events' = [terminal_events EXCEPT ![g] = None]
  /\ GoTo(g, terminal_events[g])
  /\ UNCHANGED <<goal, cancel_requested, node, sessions, events, control, stopping>>

\* Fault: the state of the session is taken for a state of the handle.
FinishAs_Session(end) == end

FinishAs(end) == IF end = "preempted" THEN "aborted" ELSE end

\* finish_move.  Only a goal the client asked to cancel may become canceled.
\* The result may fail to be sent after the handle has changed.
FinishMove(g) ==
  /\ worker[g] \in SessionEnd
  /\ \/ /\ worker[g] = "canceled" => goal[g] = "canceling"
        /\ goal' = [goal EXCEPT ![g] = FinishAs(worker[g])]
        /\ \E step \in {"release", "catch"} : GoTo(g, step)
     \/ /\ worker[g] = "canceled" /\ goal[g] = "executing"
        /\ GoTo(g, "catch")
        /\ UNCHANGED goal
  /\ UNCHANGED <<cancel_requested, node, sessions, events, control,
                 waiting_move_sessions, terminal_events, stopping>>

\* The loop ends without a result.
StopWorker(g) ==
  /\ worker[g] = "poll" /\ ~GoesOn
  /\ CancelSession(g)
  /\ GoTo(g, "drop")
  /\ UNCHANGED <<goal, cancel_requested, node, control, waiting_move_sessions,
                 terminal_events, stopping>>

\* work() throws: conversions, SDK calls and sending feedback may.
Throw(g) ==
  /\ worker[g] \in {"check", "poll"} \cup SessionEnd
  /\ GoTo(g, "catch")
  /\ UNCHANGED <<goal, cancel_requested, node, sessions, events, control,
                 waiting_move_sessions, terminal_events, stopping>>

Catch(g) ==
  /\ worker[g] = "catch"
  /\ CancelSession(g)
  /\ GoTo(g, "caught")
  /\ UNCHANGED <<goal, cancel_requested, node, control, waiting_move_sessions,
                 terminal_events, stopping>>

\* Fault: an exception always ends in an INTERNAL_ERROR result.
MayAbort_Always(g) == TRUE

MayAbort(g) == ~stopping /\ goal[g] \in Active

\* discard_terminal_event, and what comes after it.
DiscardTerminalEvent(g) ==
  /\ worker[g] \in {"discard", "drop", "caught"}
  /\ waiting_move_sessions' = waiting_move_sessions \ {g}
  /\ terminal_events' = [terminal_events EXCEPT ![g] = None]
  /\ GoTo(g, CASE worker[g] = "discard" -> "abort"
               [] worker[g] = "drop" -> "release"
               [] worker[g] = "caught" -> IF MayAbort(g) THEN "abort" ELSE "release")
  /\ UNCHANGED <<goal, cancel_requested, node, sessions, events, control, stopping>>

\* abort_status, abort_core
Abort(g) ==
  /\ worker[g] = "abort"
  /\ goal' = [goal EXCEPT ![g] = "aborted"]
  /\ GoTo(g, "release")
  /\ UNCHANGED <<cancel_requested, node, sessions, events, control,
                 waiting_move_sessions, terminal_events, stopping>>

\* The thread's locals go with it.
ReleaseMove(g) ==
  /\ worker[g] = "release"
  /\ move_owners' = move_owners \ {g}
  /\ cancel_requested' = cancel_requested \ {g} /\ current' = current \ {g}
  /\ GoTo(g, "done")
  /\ UNCHANGED <<goal, permitted, sessions, events, control,
                 waiting_move_sessions, terminal_events, stopping>>
-----------------------------------------------------------------------------
\* The control thread.

\* control_tick up to the end of tick: Servos and the cycle itself end
\* sessions, and it takes all events.  The timer is canceled at shutdown.
RunTick ==
  /\ ~handing_over /\ ~stopping
  /\ \E S \in SUBSET sessions, end \in SessionEnd \ {"canceled"} :
       /\ sessions' = sessions \ S
       /\ tick_events' = EventsAfter(S, end)
  /\ events' = NoEvents
  /\ handing_over' = TRUE
  /\ UNCHANGED <<goal, worker, cancel_requested, node, waiting_move_sessions,
                 terminal_events, stopping>>

\* Fault: events are kept for anyone.
Awaited_All(g) == TRUE

Awaited(g) == g \in waiting_move_sessions

HandOver ==
  /\ handing_over
  /\ terminal_events' =
       [g \in Goal |-> IF tick_events[g] # None /\ Awaited(g) THEN tick_events[g]
                       ELSE terminal_events[g]]
  /\ tick_events' = NoEvents
  /\ handing_over' = FALSE
  /\ UNCHANGED <<goal, worker, cancel_requested, node, sessions, events,
                 waiting_move_sessions, stopping>>
-----------------------------------------------------------------------------
Client(g) == AcceptGoal(g) \/ CancelGoal(g)

Worker(g) ==
  \/ AwaitEvent(g) \/ SubmitMove(g)
  \/ RequestCancel(g) \/ TimeOut(g) \/ TakeTerminalEvent(g) \/ StopWorker(g)
  \/ FinishMove(g) \/ Catch(g) \/ DiscardTerminalEvent(g) \/ Abort(g) \/ ReleaseMove(g)

Control == RunTick \/ HandOver

Next ==
  \/ \E g \in Goal : Client(g) \/ LaunchAction(g) \/ Worker(g) \/ Throw(g)
  \/ Control
  \/ Revoke \/ Grant \/ Shutdown

\* Threads run, and the control timer keeps firing.
Fairness ==
  /\ \A g \in Goal : WF_vars(LaunchAction(g)) /\ WF_vars(Worker(g))
  /\ WF_vars(Control)

Spec == Init /\ [][Next]_vars /\ Fairness
-----------------------------------------------------------------------------
(* Type invariant. *)
TypeOK ==
  /\ goal \in [Goal -> {None} \cup Active \cup Result]
  /\ worker \in [Goal -> WorkerStep]
  /\ cancel_requested \subseteq Goal /\ move_owners \subseteq Goal
  /\ permitted \in BOOLEAN /\ current \subseteq Goal
  /\ sessions \subseteq Goal
  /\ {events, tick_events, terminal_events} \subseteq [Goal -> {None} \cup SessionEnd]
  /\ waiting_move_sessions \subseteq Goal
  /\ handing_over \in BOOLEAN /\ stopping \in BOOLEAN

(* A client that has its result may rely on it: the session of that Move   *)
(* is over and moves no joint any more, also when the result is a timeout, *)
(* or an error in the worker, that the pipeline knows nothing of.          *)
NoMotionAfterResult ==
  \A g \in Goal : goal[g] \in Result => g \notin sessions

(* Workers "release their wait registrations" (test_servo_freshness_ros    *)
(* .py:210): terminal events are kept only for a Move that waits for its   *)
(* result, also when the event is handed over late (README.md:181), and a  *)
(* worker that is done leaves no session and no joint behind.              *)
NothingLeftBehind ==
  \A g \in Goal :
    /\ terminal_events[g] # None => g \in waiting_move_sessions
    /\ worker[g] = "done" =>
         g \notin waiting_move_sessions \cup sessions \cup move_owners

(* No goal is answered twice: a worker is about to abort only a goal that  *)
(* has no result yet; the exception would leave its joints reserved.       *)
NeverAnsweredTwice ==
  \A g \in Goal : worker[g] = "abort" => goal[g] \in Active

(* A goal is not refused as "already occupied" when every other goal has   *)
(* its result: docs/motion_control_api_zh.md:49 lets a new command of the  *)
(* same arm even preempt one that is running.                              *)
SequentialMovesAreTaken ==
  [][\A g \in Goal :
       worker[g] = "launch" /\ worker'[g] = "done" /\ HasCapacity =>
         \E h \in Goal \ {g} : goal[h] \in Active]_vars

(* Workers "must deliver timeout/cancel results"                           *)
(* (test_servo_freshness_ros.py:210): each accepted goal gets its result,  *)
(* however cancel, timeout, revocation, preemption and the session's end   *)
(* meet, unless the node is shut down.                                     *)
EveryGoalGetsItsResult ==
  \A g \in Goal : goal[g] \in Active ~> goal[g] \in Result \/ stopping

(* Workers "finish when shutdown occurs during a Move" (the same comment): *)
(* the destructor waits for them, and no control cycle comes any more.     *)
WorkersFinishAtShutdown ==
  \A g \in Goal : stopping ~> worker[g] \in {None, "done"}
=============================================================================
