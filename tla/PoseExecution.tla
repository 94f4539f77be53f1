---------------------------- MODULE PoseExecution ----------------------------
(***************************************************************************)
(* The pose runtime (python/humanoid_motion_server/pose_runtime.py), the   *)
(* worker that executes one pose for it (pose_execution.py), and the peers *)
(* they depend on: the MoveJ servers and the teleop receiver.  A pose is   *)
(* one MoveJ goal for each joint group; while they move the robot, teleop  *)
(* must not.                                                               *)
(*                                                                         *)
(* The runtime's callbacks run on one thread, the worker and the calls to  *)
(* the receiver on others.  Each wait has a deadline, which may pass at    *)
(* any time.  The receiver is not in this repository; its two services do  *)
(* what the mock peer of test/test_pose_runtime_ros.py does.  Of its two   *)
(* flags only inhibited is kept: enabled is the operator's as well, and    *)
(* nothing here tells its values apart.  A jog, a pose that is refused     *)
(* while teleop is enabled, and reset_reference are left out.              *)
(***************************************************************************)
EXTENDS Naturals

CONSTANT Goal  \* the goals of a pose, one for each joint group

ASSUME GoalAssumption == Goal # {}

VARIABLES
  inhibited,   \* external: the receiver keeps teleop from moving the robot
  late,        \* external: requests to the receiver whose worker gave up
  call,        \* the worker's request to the receiver and the reply
  server,      \* external: goal -> what its MoveJ server has done with it
  request,     \* a request for a pose on its way: "none", stamped after the
               \* last stop ("current") or before it ("old")
  running,     \* self.future
  controlling, \* self.control_future
  blocked,     \* self.blocked
  cancel,      \* self.cancel_motion is set
  worker,      \* the locals of execute_pose_with_teleop, pc its place
  acceptance,  \* goal -> what the future of send_goal_async holds
  result,      \* goal -> what the future of get_result_async holds
  canceled,    \* goals the worker has asked to cancel
  barred       \* history: what a stop or cancel since the pose's request was
               \* stamped must keep it from: "move" and "resume", or "resume"

external == <<inhibited, late>>
runtime == <<request, running, controlling, blocked, barred>>
futures == <<acceptance, result, canceled>>
vars == <<external, call, server, runtime, cancel, worker, futures>>

NoCall == [action |-> "none", reply |-> "none"]
Idle == [pc |-> "idle", acquired |-> FALSE, completed |-> FALSE,
         unsure |-> FALSE, resume_after |-> FALSE]
Nothing == [g \in Goal |-> "none"]
\* The worker's list of futures has no entry for a goal before it sends it.
Unsent == [g \in Goal |-> "unsent"]

Init ==
  /\ inhibited = FALSE /\ late = {}
  /\ call = NoCall
  /\ server = Nothing
  /\ request = "none" /\ running = FALSE /\ controlling = FALSE
  /\ blocked = FALSE
  /\ cancel = FALSE /\ barred = {}
  /\ worker = Idle
  /\ acceptance = Unsent /\ result = Nothing /\ canceled = {}
-----------------------------------------------------------------------------
(* The receiver, external. *)

\* set_motion_active or, to resume, set_enabled, as the mock peer serves them.
Grants(action) == ~(action \in {"acquire", "resume"} /\ inhibited)

InhibitedAfter(action) ==
  (inhibited \/ action = "acquire") /\ action # "release"

ServeCall ==
  /\ call.action # "none" /\ call.reply = "none"
  /\ inhibited' = InhibitedAfter(call.action)
  /\ call' = [call EXCEPT !.reply = IF Grants(call.action) THEN "ok" ELSE "no"]
  /\ UNCHANGED <<late, server, runtime, cancel, worker, futures>>

ServeLate(action) ==
  /\ action \in late
  /\ inhibited' = InhibitedAfter(action) /\ late' = late \ {action}
  /\ UNCHANGED <<call, server, runtime, cancel, worker, futures>>
-----------------------------------------------------------------------------
(* The MoveJ servers, external: a canceled goal may still succeed, and a   *)
(* server that died does nothing any more.                                 *)

Serving(g, from, to) ==
  /\ server[g] = from
  /\ server' = [server EXCEPT ![g] = to]
  /\ UNCHANGED <<external, call, runtime, cancel, worker, futures>>

MayMove(g) == server[g] \in {"sent", "running"}
-----------------------------------------------------------------------------
(* receiver_control: a node and a client are made and the service waited   *)
(* for, which may fail; then a request, and its reply, an error or a       *)
(* timeout, after which the receiver may still serve it.                   *)

Granted == call.reply = "ok" /\ call' = NoCall /\ UNCHANGED late

\* Whatever the receiver did, its reply may come too late, and the request may
\* not even have been sent.  A resume that is served late changes nothing that
\* is modelled.
Failed ==
  /\ call' = NoCall
  /\ \/ UNCHANGED late
     \/ /\ call.reply = "none" /\ call.action \in {"acquire", "release"}
        /\ late' = late \cup {call.action}
-----------------------------------------------------------------------------
(* The runtime's callbacks. *)

AskForPose ==
  /\ request = "none"
  /\ request' = "current"
  /\ UNCHANGED <<external, call, server, running, controlling, blocked, barred,
                 cancel, worker, futures>>

\* Fault: requests are taken whenever they were stamped.
IsCurrent_Always(asked) == asked # "none"

IsCurrent(asked) == asked = "current"

Busy == running \/ controlling \/ blocked

\* request, for a pose; it may also be invalid or come without fresh feedback.
\* resume_after is what the receiver last published, and out of date maybe.
StartPose ==
  /\ request # "none" /\ request' = "none"
  /\ \/ /\ ~Busy /\ IsCurrent(request)
        /\ cancel' = FALSE
        /\ running' = TRUE
        /\ barred' = IF request = "old" THEN {"move", "resume"} ELSE {}
        /\ \E resume_after \in BOOLEAN :
             worker' = [Idle EXCEPT !.pc = "begin", !.resume_after = resume_after]
     \/ UNCHANGED <<running, cancel, worker, barred>>
  /\ UNCHANGED <<external, call, server, controlling, blocked, futures>>

\* What the worker has yet to look at cancel_event for.
Ahead ==
  CASE worker.pc \in {"begin", "acquire", "prepare"} -> {"move", "resume"}
    [] worker.pc \in {"send", "accept", "follow", "stop", "release", "releasing"} -> {"resume"}
    [] OTHER -> {}

\* stop, for a message on the stop topic.
Stop ==
  /\ cancel' = TRUE /\ barred' = barred \cup Ahead
  /\ request' = IF request = "none" THEN "none" ELSE "old"
  /\ UNCHANGED <<running, blocked, external, call, server, worker, futures>>

StopMotion == Stop /\ UNCHANGED controlling

\* A request to pause stops the pose, even where the receiver is not called.
PauseTeleop == Stop /\ controlling' \in {controlling, TRUE}

ResumeTeleop ==
  /\ ~Busy
  /\ controlling' = TRUE
  /\ UNCHANGED <<external, call, server, request, running, blocked, barred,
                 cancel, worker, futures>>

\* tick: the call a user asked for is over.
AnswerUser ==
  /\ controlling
  /\ controlling' = FALSE
  /\ UNCHANGED <<external, call, server, request, running, blocked, barred,
                 cancel, worker, futures>>

\* tick without fresh feedback, or the worker's own subscription to stops.
CancelMotion ==
  /\ running
  /\ cancel' = TRUE /\ barred' = barred \cup Ahead
  /\ UNCHANGED <<external, call, server, request, running, controlling, blocked,
                 worker, futures>>

\* tick: the pose is over.
AnswerPose ==
  /\ worker.pc = "done"
  /\ running' = FALSE /\ blocked' = worker.unsure
  /\ worker' = Idle
  /\ UNCHANGED <<external, call, server, request, controlling, barred, cancel, futures>>
-----------------------------------------------------------------------------
(* execute_pose_with_teleop. *)

At(pc) == worker.pc = pc
Goto(pc) == worker' = [worker EXCEPT !.pc = pc]
\* What no step of the worker changes.
Working == UNCHANGED <<inhibited, runtime, cancel>>
KeepCalls == UNCHANGED <<call, late>>

Begin ==
  /\ At("begin")
  /\ Goto(IF cancel THEN "done" ELSE "acquire")
  /\ Working /\ KeepCalls /\ UNCHANGED <<server, futures>>

\* What the worker asks the receiver, by its place.
Wanted == [acquire |-> "acquire", releasing |-> "release", resuming |-> "resume"]

SendRequest ==
  /\ worker.pc \in DOMAIN Wanted /\ call = NoCall
  /\ call' = [action |-> Wanted[worker.pc], reply |-> "none"]
  /\ Working /\ UNCHANGED <<late, server, worker, futures>>

Acquire ==
  /\ At("acquire")
  /\ \/ Granted /\ worker' = [worker EXCEPT !.pc = "prepare", !.acquired = TRUE]
     \/ Failed /\ Goto("done")
  /\ Working /\ UNCHANGED <<server, futures>>

\* Fault: the results of the pose before are kept.
NewFutures_KeepResults ==
  acceptance' = Unsent /\ canceled' = {} /\ UNCHANGED result

NewFutures == acceptance' = Unsent /\ canceled' = {} /\ result' = Nothing

\* Once the last Servo target has run out, the last look at cancel_event before
\* the goals are sent; the pose ends here too if a server does not answer.
Prepare ==
  /\ At("prepare")
  /\ \/ ~cancel /\ NewFutures /\ Goto("send")
     \/ UNCHANGED futures /\ Goto("release")
  /\ Working /\ KeepCalls /\ UNCHANGED server

\* One goal after the other; sending one may throw.
SendGoal(g) ==
  /\ At("send") /\ acceptance[g] = "unsent"
  /\ \/ /\ server' = [server EXCEPT ![g] = "sent"]
        /\ acceptance' = [acceptance EXCEPT ![g] = "none"]
        /\ UNCHANGED worker
     \/ Goto("stop") /\ UNCHANGED <<server, acceptance>>
  /\ Working /\ KeepCalls /\ UNCHANGED <<result, canceled>>

EndSending ==
  /\ At("send") /\ \A g \in Goal : acceptance[g] # "unsent"
  /\ Goto("accept")
  /\ Working /\ KeepCalls /\ UNCHANGED <<server, futures>>

\* What futures hold, seen while the worker spins.
HearAcceptance(g) ==
  /\ worker.pc \in {"accept", "stop"} /\ acceptance[g] = "none"
  /\ \/ /\ server[g] \in {"running", "ok", "failed"}
        /\ acceptance' = [acceptance EXCEPT ![g] = "accepted"]
     \/ server[g] = "refused" /\ acceptance' = [acceptance EXCEPT ![g] = "rejected"]
     \/ acceptance' = [acceptance EXCEPT ![g] = "error"]
  /\ Working /\ KeepCalls /\ UNCHANGED <<server, worker, result, canceled>>

HearResult(g) ==
  /\ worker.pc \in {"follow", "stop"}
  /\ acceptance[g] = "accepted" /\ result[g] = "none"
  /\ \/ server[g] \in {"ok", "failed"} /\ result' = [result EXCEPT ![g] = server[g]]
     \/ result' = [result EXCEPT ![g] = "error"]
  /\ Working /\ KeepCalls /\ UNCHANGED <<server, worker, acceptance, canceled>>

\* All goals were accepted, or one was not, or not in time.
AwaitAcceptance ==
  /\ At("accept")
  /\ Goto(IF \A g \in Goal : acceptance[g] = "accepted" THEN "follow" ELSE "stop")
  /\ Working /\ KeepCalls /\ UNCHANGED <<server, futures>>

\* Fault: the results have no deadline.
MayStop_IfCanceled == cancel \/ \E g \in Goal : result[g] \notin {"none", "ok"}

\* Canceled, past the deadline, or a goal has failed.
MayStop == TRUE

AwaitResults ==
  /\ At("follow")
  /\ IF \A g \in Goal : result[g] = "ok"
       THEN worker' = [worker EXCEPT !.pc = "release", !.completed = TRUE]
       ELSE MayStop /\ Goto("stop")
  /\ Working /\ KeepCalls /\ UNCHANGED <<server, futures>>

\* The handler: each goal known to be accepted, late ones too, is canceled once.
ToCancel == {g \in Goal : acceptance[g] = "accepted" /\ result[g] = "none"} \ canceled

CancelGoals ==
  /\ At("stop") /\ ToCancel # {}
  /\ canceled' = canceled \cup ToCancel
  /\ Working /\ KeepCalls /\ UNCHANGED <<server, worker, acceptance, result>>

\* Fault: goals nobody has answered for are forgotten.
Uncertain_OfAccepted ==
  \E g \in Goal : acceptance[g] = "accepted" /\ result[g] \in {"none", "error"}

Uncertain ==
  \E g \in Goal : \/ acceptance[g] \in {"none", "error"}
                  \/ acceptance[g] = "accepted" /\ result[g] \in {"none", "error"}

\* All futures are done or it takes too long; a cancel may have failed as well.
EndHandler ==
  /\ At("stop") /\ ToCancel = {}
  /\ \/ ~Uncertain /\ Goto("release")
     \/ /\ Uncertain \/ canceled # {}
        /\ worker' = [worker EXCEPT !.pc = "release", !.unsure = TRUE, !.acquired = FALSE]
  /\ Working /\ KeepCalls /\ UNCHANGED <<server, futures>>

\* The finally clause.
BeginRelease ==
  /\ At("release")
  /\ Goto(IF worker.acquired THEN "releasing" ELSE "done")
  /\ Working /\ KeepCalls /\ UNCHANGED <<server, futures>>

\* Released; teleop is to go on if it was enabled when the pose began and, by
\* the last look at cancel_event, nothing has stopped the pose.
Release ==
  /\ At("releasing") /\ Granted
  /\ Goto(IF worker.completed /\ worker.resume_after /\ ~cancel THEN "resuming" ELSE "done")
  /\ Working /\ UNCHANGED <<server, futures>>

FailRelease ==
  /\ At("releasing") /\ Failed
  /\ worker' = [worker EXCEPT !.pc = "done", !.unsure = TRUE]
  /\ Working /\ UNCHANGED <<server, futures>>

Resume ==
  /\ At("resuming")
  /\ Granted \/ Failed
  /\ Goto("done")
  /\ Working /\ UNCHANGED <<server, futures>>
-----------------------------------------------------------------------------
Peers ==
  \/ ServeCall
  \/ \E action \in {"acquire", "release"} : ServeLate(action)
  \/ \E g \in Goal : \/ Serving(g, "sent", "running") \/ Serving(g, "sent", "refused")
                     \/ Serving(g, "running", "ok") \/ Serving(g, "running", "failed")

Callbacks ==
  \/ AskForPose \/ StartPose \/ StopMotion \/ PauseTeleop \/ ResumeTeleop
  \/ AnswerUser \/ CancelMotion

Hear == \E g \in Goal : HearAcceptance(g) \/ HearResult(g)

Work ==
  \/ Begin \/ SendRequest \/ Acquire
  \/ Prepare \/ (\E g \in Goal : SendGoal(g)) \/ EndSending
  \/ AwaitAcceptance \/ AwaitResults \/ CancelGoals \/ EndHandler
  \/ BeginRelease \/ Release \/ FailRelease \/ Resume

Next == Peers \/ Callbacks \/ AnswerPose \/ Hear \/ Work

\* The worker's waits all end and the runtime's timer goes on; nothing is
\* assumed of the servers, the receiver and their messages.
Spec == Init /\ [][Next]_vars /\ WF_vars(Work) /\ WF_vars(AnswerPose)
-----------------------------------------------------------------------------
(* Type invariant. *)
TypeOK ==
  /\ late \subseteq {"acquire", "release"}
  /\ call \in [action : {"none", "acquire", "release", "resume"},
              reply : {"none", "ok", "no"}]
  /\ server \in [Goal -> {"none", "sent", "running", "refused", "ok", "failed"}]
  /\ request \in {"none", "current", "old"}
  /\ running = (worker.pc # "idle")
  /\ {inhibited, controlling, blocked, cancel} \subseteq BOOLEAN
  /\ barred \subseteq {"move", "resume"}
  /\ acceptance \in [Goal -> {"unsent", "none", "accepted", "rejected", "error"}]
  /\ result \in [Goal -> {"none", "ok", "failed", "error"}]
  /\ worker.pc = "accept" => result = Nothing
  /\ canceled \subseteq Goal

(* While a goal may move the robot, teleop is inhibited and either a       *)
(* worker is at it or the runtime is blocked; and a runtime that is        *)
(* blocked has asked each goal to stop that it was still waiting for       *)
(* (docs/simulation_zh.md:104; pose_execution.py:14).                      *)
MovingGoalsAreOwned ==
  \A g \in Goal : MayMove(g) =>
    /\ inhibited
    /\ running \/ blocked
    /\ ~running /\ acceptance[g] = "accepted" /\ result[g] = "none" => g \in canceled

(* A stop, a pause and lost feedback are heeded, whatever else is         *)
(* asked of the runtime: heard before the worker's last look at            *)
(* cancel_event ahead of sending (pose_execution.py:100), no goal moves;   *)
(* heard before its last look ahead of resuming (line 48), even with all   *)
(* goals reached or the release served, teleop is not enabled.  It may be  *)
(* if the stop comes after that look but before the request.               *)
StoppedPosesStayStopped ==
  running =>
    /\ "move" \in barred => \A g \in Goal : ~MayMove(g)
    /\ "resume" \in barred => call.action # "resume"

(* Every pose that was started is answered, whatever its servers and the   *)
(* receiver do: no wait is for ever.                                       *)
PosesAreAnswered == running ~> ~running
=============================================================================
