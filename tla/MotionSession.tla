---------------------------- MODULE MotionSession ----------------------------
(***************************************************************************)
(* The sessions of one joint group as CommandPipeline::tick drives them    *)
(* (src/motion/command_pipeline.cpp), with what CommandPipeline.tla leaves *)
(* open: which backend calls a cycle makes and in which order, what the    *)
(* limit checks let through, and when a Move has reached its goal.  It     *)
(* puts SdkMotionBackend, GoalMonitor and LimitRecovery together.          *)
(*                                                                         *)
(* A cycle holds the pipeline's mutex.  Each backend call is an action, as *)
(* time passes in it; tick.result is what it returned, to be looked at     *)
(* only if the deadline has not passed meanwhile.  One session of the      *)
(* group can win: its live Move, as Moves never wait (ControlArbiter.tla), *)
(* or else a Servo, unless a session of another group has the joints.      *)
(* Permits and publishCommands are CommandPipeline's; here a cycle is over *)
(* with its command appended.                                              *)
(***************************************************************************)
EXTENDS LimitRecovery, GoalMonitor, SdkMotionBackend, FiniteSets

CONSTANTS
  Reading,         \* what the joint sensors may say
  Shaped,          \* what the final smoother may put out
  Candidate,       \* joint positions the SDK's task may propose
  MoveTarget,      \* the joint target of a MoveJ
  Lease,           \* how long a Servo target is good for
  FeedbackMaxAge,  \* config_.feedback_max_age
  MaxPeriod,       \* config_.max_control_period
  RetryInterval,   \* config_.servo_retry_interval
  MaxTime          \* bound: the clock stops here

ASSUME SessionAssumption ==
  /\ Reading \subseteq Target /\ Reading # {} /\ Shaped \subseteq Target
  /\ Candidate \subseteq [Joint -> Int] /\ MoveTarget \in [Joint -> Int]
  /\ FeedbackMaxAge \in Nat \ {0} /\ MaxPeriod \in Nat \ {0}
  /\ Lease \in Nat \ {0} /\ RetryInterval \in Nat /\ MaxTime \in Nat

Servo == {s \in Session : Kind[s] \in {"SERVO_J", "SERVO_P"}}
Move == Session \ Servo
IsCartesian(m) == Kind[m] \in {"MOVE_L", "MOVE_P"}

VARIABLES
  clock,           \* the steady clock
  feedback,        \* the latest measurement: a Reading and received_at
  live,            \* sessions_: id -> submitted_at
  run,             \* sessions with backend_started -> last_final_target and
                   \* recovering_limits
  goals,           \* monitor_.goals_
  retry_after,     \* servo_retry_after_, 0 where there is no entry
  last_tick_time,  \* now of the last tick, or Never
  tick,            \* the locals of tick
  trail,           \* history: started session -> the last output it appended
  evidence,        \* history: since when, and from which sample on, all
                   \* measurements judged for a Move were at its goal
  arrived          \* history: Cartesian Moves whose task has reported its
                   \* last waypoint reached

history == <<trail, evidence, arrived>>
vars == <<clock, feedback, live, run, goals, retry_after, last_tick_time,
          tick, history, backend>>

Never == -1
Time == 0 .. MaxTime

Without(f, S) == Restrict(f, DOMAIN f \ S)
With(f, x, y) == [z \in DOMAIN f \cup {x} |-> IF z = x THEN y ELSE f[z]]

Idle == [phase |-> "idle", session |-> "none", result |-> "ok", deadline |-> 0,
         candidate |-> <<>>, path_reached |-> FALSE,
         appended |-> FALSE]

\* Before the first measurement there is none that is fresh.
Init ==
  /\ clock = 0
  /\ LET r == CHOOSE r \in Reading : TRUE
     IN  feedback = [q |-> r.q, v |-> r.v, received_at |-> -FeedbackMaxAge]
  /\ live = <<>> /\ run = <<>> /\ goals = <<>>
  /\ retry_after = [s \in Servo |-> 0]
  /\ last_tick_time = Never /\ tick = Idle
  /\ trail = <<>> /\ evidence = <<>> /\ arrived = {}
  /\ BackendInit
-----------------------------------------------------------------------------
\* Fault: terminate stops only sessions that have been marked as started.
StoppedWith_Started(S) == S \cap DOMAIN run

\* The backend sessions terminate stops for the sessions of S.
StoppedWith(S) == S

\* Fault: terminate leaves the goal of a Move in the monitor.
EndRuns_KeepGoals(S) ==
  /\ run' = Without(run, S)
  /\ trail' = Without(trail, S)
  /\ evidence' = Without(evidence, S)
  /\ arrived' = arrived \ S
  /\ StopSessions(StoppedWith(S))
  /\ UNCHANGED goals

\* terminate for each session of S, but for sessions_.
EndRuns(S) ==
  /\ run' = Without(run, S)
  /\ goals' = Without(goals, S)
  /\ trail' = Without(trail, S)
  /\ evidence' = Without(evidence, S)
  /\ arrived' = arrived \ S
  /\ StopSessions(StoppedWith(S))

EndSessions(S) == live' = Without(live, S) /\ EndRuns(S)

\* The calls between cycles.

\* A Move that is admitted preempts the group's other Move.  Nothing is left of
\* a session that ended, so its id stands for the next Move too.
SubmitMove(m) ==
  /\ tick.phase = "idle"
  /\ m \in Move \ DOMAIN live
  /\ LET others == DOMAIN live \cap Move
     IN  /\ live' = With(Without(live, others), m, clock)
         /\ EndRuns(others)
  /\ UNCHANGED <<clock, feedback, retry_after, last_tick_time, tick, rtc>>

\* A Servo target that does not preempt the group's Move waits behind it.
UpdateServo(s, preempts) ==
  /\ tick.phase = "idle"
  /\ s \in Servo
  /\ LET others == IF preempts THEN DOMAIN live \cap Move ELSE {}
     IN  /\ live' = With(Without(live, others), s, clock)
         /\ EndRuns(others)
  /\ UNCHANGED <<clock, feedback, retry_after, last_tick_time, tick, rtc>>

\* cancel, a preemption by another group, or a revocation.
Cancel(s) ==
  /\ tick.phase = "idle"
  /\ s \in DOMAIN live
  /\ EndSessions({s})
  /\ UNCHANGED <<clock, feedback, retry_after, last_tick_time, tick, rtc>>

\* Of several messages in one moment the cycle sees the last.
Measure(r) ==
  /\ tick.phase = "idle" /\ feedback.received_at < clock
  /\ feedback' = [q |-> r.q, v |-> r.v, received_at |-> clock]
  /\ UNCHANGED <<clock, live, run, goals, retry_after, last_tick_time, tick,
                 history, backend>>
-----------------------------------------------------------------------------
\* The control cycle.

Earliest(times) == CHOOSE t \in times : \A u \in times : t <= u

\* deadline in tick.
Deadline(s) ==
  Earliest({feedback.received_at + FeedbackMaxAge, clock + MaxPeriod}
           \cup IF s \in Servo THEN {live[s] + Lease} ELSE {})

\* What a scheduling gap does to the backend sessions: those of Moves end.
EndedByGap(gap) == IF gap THEN DOMAIN run \cap Move ELSE {}

\* The head of tick: expired Servos and Moves that were running before a
\* scheduling gap end; the backend is stopped for whoever does not go on.
BeginTick ==
  LET expired == {s \in DOMAIN live \cap Servo : clock - live[s] >= Lease}
      unexpired == DOMAIN live \ expired
      gap == last_tick_time # Never /\ clock - last_tick_time > MaxPeriod
      ended == expired \cup EndedByGap(gap)
      Winner(w) == IF unexpired \cap Move # {} THEN w \in unexpired \cap Move
                                               ELSE w \in unexpired
      Drives(winners) ==
        LET goes_on == IF gap THEN {} ELSE (DOMAIN run \cap winners) \ ended
        IN  /\ live' = Without(live, ended)
            /\ goals' = Without(goals, ended)
            /\ evidence' = Without(evidence, ended)
            /\ arrived' = arrived \cap goes_on
            /\ run' = Restrict(run, goes_on)
            /\ trail' = Restrict(trail, DOMAIN trail \cap goes_on)
            /\ StopSessions(StoppedWith(ended) \cup (DOMAIN run \ goes_on))
  IN
  /\ tick.phase = "idle"
  /\ last_tick_time' = clock
  /\ \/ \E w \in unexpired :
          /\ Winner(w)
          /\ Drives({w})
          /\ tick' = IF w \in ended THEN Idle
                     ELSE [Idle EXCEPT !.phase = "select", !.session = w,
                                       !.deadline = Deadline(w)]
     \/ /\ unexpired \cap Move = {}
        /\ Drives({})
        /\ tick' = Idle
  /\ UNCHANGED <<clock, feedback, retry_after, rtc>>

InTime == clock < tick.deadline
\* The computation is over, with a command or without.
Done(appended) ==
  tick' = [Idle EXCEPT !.phase = "done", !.session = tick.session,
                       !.deadline = tick.deadline, !.appended = appended]
Called(phase, result) == tick' = [tick EXCEPT !.phase = phase, !.result = result]
Returned(phase) == tick.phase = phase /\ tick.result = "ok" /\ InTime

\* Nothing that only the end of a computation changes.
Calling ==
  UNCHANGED <<clock, feedback, live, retry_after, last_tick_time>>

\* Every backend call that returns after the deadline ends the session, and
\* so does a measurement that is too old or beyond recovery.
Abandon ==
  /\ \/ tick.phase \in {"select", "start", "reset", "target", "shaped"} /\ ~InTime
     \/ tick.phase = "select" /\ ~Recoverable(feedback.q)
  /\ EndSessions({tick.session})
  /\ Done(FALSE)
  /\ UNCHANGED <<clock, feedback, retry_after, last_tick_time, rtc>>

Selected == tick.phase = "select" /\ InTime /\ Recoverable(feedback.q)
Started == tick.session \in DOMAIN run

MustWait ==
  /\ tick.session \in Servo /\ ~Started
  /\ clock < retry_after[tick.session]

TimedOut ==
  tick.session \in Move /\ last_tick_time - live[tick.session] > MoveTimeout

WaitForRetry ==
  /\ Selected /\ MustWait
  /\ Done(FALSE)
  /\ Calling /\ UNCHANGED <<run, goals, history, backend>>

Start ==
  /\ Selected /\ ~MustWait /\ ~TimedOut /\ ~Started
  /\ \/ StartSession(tick.session) /\ Called("start", "ok")
     \/ UNCHANGED backend /\ Called("start", "error")
  /\ Calling /\ UNCHANGED <<run, goals, history>>

\* The smoother of the group is set to where the joints are.
Reset ==
  /\ Returned("start")
  /\ \/ ResetFinal([q |-> feedback.q, v |-> feedback.v]) /\ Called("reset", "ok")
     \/ ResetFinal(Unknown) /\ Called("reset", "error")
  /\ Calling /\ UNCHANGED <<run, goals, history, sdk_sessions, sdk_tasks>>

\* The session counts as started; a MoveJ is watched from now on.
Run ==
  LET s == tick.session IN
  /\ Returned("reset")
  /\ run' = With(run, s, [last |-> [q |-> feedback.q, v |-> feedback.v],
                          recovering |-> Outside(feedback.q) # {}])
  /\ goals' = IF Kind[s] = "MOVE_J" THEN With(goals, s, BeginGoal(MoveTarget, live[s]))
                                    ELSE goals
  /\ tick' = [tick EXCEPT !.phase = "compute"]
  /\ Calling /\ UNCHANGED <<history, backend>>

\* tickSession and validateCandidate; a ServoJ's candidate is its target.
Propose ==
  LET s == tick.session IN
  /\ \/ tick.phase = "compute"
     \/ Selected /\ Started /\ ~TimedOut
  /\ \/ \E reached \in BOOLEAN, q \in Candidate :
          /\ HasTask(s) \/ WithinLimits(q)
          /\ TickSession(s, reached)
          /\ arrived' = IF IsCartesian(s) /\ reached /\ IsLastWaypoint(s)
                          THEN arrived \cup {s} ELSE arrived
          /\ tick' = [tick EXCEPT !.phase = "target", !.candidate = q,
                        !.path_reached = PathReached(s, reached),
                        !.result = IF WithinLimits(q) THEN "ok" ELSE "error"]
     \/ HasTask(s) /\ UNCHANGED <<backend, arrived>> /\ Called("target", "error")
  /\ Calling /\ UNCHANGED <<run, goals, trail, evidence>>

Shape ==
  /\ Returned("target")
  /\ \/ \E out \in Shaped : UpdateFinal(out) /\ Called("shaped", "ok")
     \/ UpdateFinal(Unknown) /\ Called("shaped", "error")
  /\ Calling /\ UNCHANGED <<run, goals, history, sdk_sessions, sdk_tasks>>

Last == run[tick.session].last
IsValid == ValidOutput(rtc, Last, feedback)
MayRetry ==
  /\ run[tick.session].recovering
  /\ HasSeed(rtc, Last, feedback)

\* Exactly one retry: the smoother is set to the seed and moved again, with no
\* look at the clock in between.
Retry ==
  /\ Returned("shaped") /\ ~IsValid /\ MayRetry
  /\ LET seed == Seed(rtc, Last, feedback)
     IN  \/ \E out \in Shaped :
              /\ UpdateFinal(out)
              /\ tick' = [tick EXCEPT !.phase = IF ValidOutput(out, seed, feedback)
                                                  THEN "retried" ELSE "rejected"]
         \/ UpdateFinal(Unknown) /\ tick' = [tick EXCEPT !.phase = "rejected"]
  /\ Calling /\ UNCHANGED <<run, goals, history, sdk_sessions, sdk_tasks>>

\* controlledStop: the smoother holds the measured joints, within the limits,
\* or there is no output and where the smoother is does not matter.
Stop ==
  \/ \E out \in Shaped :
       WithinLimits(out.q) /\ UpdateFinal(out) /\ Done(TRUE)
  \/ UpdateFinal(Unknown) /\ Done(FALSE)

TimeOutMove ==
  /\ Selected /\ TimedOut
  /\ EndSessions({tick.session}) /\ Stop
  /\ UNCHANGED <<clock, feedback, retry_after, last_tick_time>>

\* fail_backend; no look at the clock after a retry.
FailBackend ==
  LET s == tick.session IN
  /\ \/ /\ tick.phase \in {"start", "reset", "target", "shaped"}
        /\ tick.result = "error" /\ InTime
     \/ Returned("shaped") /\ ~IsValid /\ ~MayRetry
     \/ tick.phase = "rejected"
  /\ EndSessions({s}) /\ Stop
  /\ retry_after' = IF s \in Servo THEN [retry_after EXCEPT ![s] = clock + RetryInterval]
                                   ELSE retry_after
  /\ UNCHANGED <<clock, feedback, last_tick_time>>

Accepted == (Returned("shaped") /\ IsValid) \/ tick.phase = "retried"

\* Fault: the output is not remembered as the last one.
AppendOutput_KeepsLast(s) ==
  /\ run' = [run EXCEPT ![s].recovering = @ /\ ~WithinLimits(rtc.q)]
  /\ trail' = With(trail, s, rtc.q)
  /\ Done(TRUE)

\* append_command for the smoother's output: the next one starts from it, and
\* recovery is over once all joints are within their limits.
AppendOutput(s) ==
  /\ run' = [run EXCEPT ![s] = [last |-> rtc,
                                recovering |-> @.recovering /\ ~WithinLimits(rtc.q)]]
  /\ trail' = With(trail, s, rtc.q)
  /\ Done(TRUE)

DriveServo ==
  LET s == tick.session IN
  /\ Accepted /\ s \in Servo
  /\ AppendOutput(s)
  /\ retry_after' = [retry_after EXCEPT ![s] = 0]
  /\ UNCHANGED <<clock, feedback, live, goals, last_tick_time,
                 evidence, arrived, backend>>

\* Nobody watches a Cartesian Move before the SDK has reached its last target.
IsWatched(m) == m \in DOMAIN goals \/ tick.path_reached

DriveMove ==
  LET m == tick.session IN
  /\ Accepted /\ m \in Move /\ ~IsWatched(m)
  /\ AppendOutput(m)
  /\ UNCHANGED <<clock, feedback, live, goals, retry_after, last_tick_time,
                 evidence, arrived, backend>>

\* The goal of a Cartesian Move is the candidate its path ends with.
GoalOf(m) ==
  IF m \in DOMAIN goals THEN goals[m] ELSE BeginGoal(tick.candidate, live[m])

Poses(m) == IF IsCartesian(m) THEN Pose ELSE {"near"}

\* History: a measurement that is not at the goal ends the evidence for it.
EvidenceAfter(m, pose) ==
  IF ~WithinTolerance(GoalOf(m), feedback, pose) THEN Without(evidence, {m})
  ELSE IF m \in DOMAIN evidence THEN evidence
  ELSE With(evidence, m, [since |-> last_tick_time, sample |-> feedback.received_at])

ApproachGoal ==
  LET m == tick.session IN
  /\ Accepted /\ m \in Move /\ IsWatched(m)
  /\ \E pose \in Poses(m) :
       LET seen == Observe(GoalOf(m), feedback, pose, last_tick_time)
       IN  /\ seen.observation = "RUNNING"
           /\ goals' = With(goals, m, seen.goal)
           /\ evidence' = EvidenceAfter(m, pose)
  /\ AppendOutput(m)
  /\ UNCHANGED <<clock, feedback, live, retry_after, last_tick_time, arrived, backend>>

ReachGoal ==
  LET m == tick.session IN
  /\ Accepted /\ m \in Move /\ IsWatched(m)
  /\ \E pose \in Poses(m) :
       Observe(GoalOf(m), feedback, pose, last_tick_time).observation = "REACHED"
  /\ EndSessions({m}) /\ Done(TRUE)
  /\ UNCHANGED <<clock, feedback, retry_after, last_tick_time, rtc>>

\* The output is popped; a hold takes its place or nothing.
MissGoal ==
  LET m == tick.session IN
  /\ Accepted /\ m \in Move /\ IsWatched(m)
  /\ \E pose \in Poses(m) :
       Observe(GoalOf(m), feedback, pose, last_tick_time).observation
         \in {"TIMED_OUT", "INVALID_FEEDBACK"}
  /\ EndSessions({m}) /\ Stop
  /\ UNCHANGED <<clock, feedback, retry_after, last_tick_time>>

\* The tail of tick: a command that is late ends its session.
FinishTick ==
  /\ tick.phase = "done"
  /\ EndSessions(IF tick.appended /\ ~InTime THEN {tick.session} ELSE {})
  /\ tick' = Idle
  /\ UNCHANGED <<clock, feedback, retry_after, last_tick_time, rtc>>
-----------------------------------------------------------------------------
AdvanceClock ==
  /\ clock < MaxTime
  /\ clock' = clock + 1
  /\ UNCHANGED <<feedback, live, run, goals, retry_after, last_tick_time, tick,
                 history, backend>>

Others ==
  \/ \E m \in Move : SubmitMove(m)
  \/ \E s \in Servo, preempts \in BOOLEAN : UpdateServo(s, preempts)
  \/ \E s \in DOMAIN live : Cancel(s)
  \/ \E r \in Reading : Measure(r)

Cycle ==
  \/ BeginTick \/ Abandon \/ WaitForRetry \/ TimeOutMove
  \/ Start \/ Reset \/ Run \/ Propose \/ Shape \/ Retry \/ FailBackend
  \/ DriveServo \/ DriveMove \/ ApproachGoal \/ ReachGoal \/ MissGoal
  \/ FinishTick

Next == Others \/ Cycle \/ AdvanceClock

Spec == Init /\ [][Next]_vars
-----------------------------------------------------------------------------
(* Type invariant. *)
TypeOK ==
  /\ clock \in Time
  /\ feedback \in [q : [Joint -> Int], v : [Joint -> Int], received_at : Int]
  /\ DOMAIN live \subseteq Session /\ live \in [DOMAIN live -> Time]
  /\ DOMAIN run \subseteq DOMAIN live
  /\ run \in [DOMAIN run -> [last : Target, recovering : BOOLEAN]]
  /\ DOMAIN goals \subseteq DOMAIN live \cap Move
  /\ retry_after \in [Servo -> Nat]
  /\ last_tick_time \in Time \cup {Never}
  /\ tick.phase \in {"idle", "select", "start", "reset", "compute", "target",
                     "shaped", "retried", "rejected", "done"}
  /\ rtc \in Target \cup {Unknown}

(* Between cycles the SDK runs a realtime task for exactly the sessions    *)
(* that have been started, at most one for the group; a start that fails,  *)
(* comes too late or is undone by a failed reset leaves none behind.       *)
TasksEndWithSessions ==
  tick.phase = "idle" =>
    /\ DOMAIN sdk_sessions = DOMAIN run
    /\ sdk_tasks = {s \in DOMAIN run : HasTask(s)}
    /\ Cardinality(DOMAIN run) <= 1

(* Between cycles the group's smoother, which its sessions share, is at    *)
(* the output the started session put out last: its next output goes on    *)
(* from there and not from lagging feedback or another session's target,   *)
(* and it is the position the limit checks compare with.                   *)
SmootherContinuesOutput ==
  tick.phase = "idle" => \A s \in DOMAIN run : rtc = run[s].last

(* An output is within the limits, or the joint is measured outside and    *)
(* the output is not further out; as long as a backend session goes on,    *)
(* no joint that its outputs had within the limits leaves them, and one    *)
(* outside only moves inward (command_pipeline.cpp:572-576).               *)
OutputsMoveInward ==
  [][~tick.appended /\ tick'.appended =>
       \A j \in Joint :
         LET q == rtc'.q[j] IN
         /\ q < Lower[j] => feedback.q[j] <= q
         /\ q > Upper[j] => feedback.q[j] >= q
         /\ tick.session \in DOMAIN trail =>
              /\ q < Lower[j] => trail[tick.session][j] <= q
              /\ q > Upper[j] => trail[tick.session][j] >= q]_vars

(* A Move succeeds at the end of its path, and if it must stand there for  *)
(* a while, then only after all measurements judged over that duration     *)
(* were at its goal, and more than one of them was: one sample that keeps  *)
(* being read does not prove that it stands.                               *)
SuccessIsEarned ==
  [][ReachGoal =>
       LET m == tick.session IN
       /\ IsCartesian(m) => m \in arrived
       /\ StableDuration > 0 =>
            /\ m \in DOMAIN evidence
            /\ last_tick_time - evidence[m].since >= StableDuration
            /\ StableDuration >= FeedbackMaxAge =>
                 feedback.received_at > evidence[m].sample]_vars
=============================================================================
