--------------------------- MODULE CommandPipeline ---------------------------
(***************************************************************************)
(* CommandPipeline (src/motion/command_pipeline.cpp): the sessions, their  *)
(* claims on joints, the control cycle that computes one output for each   *)
(* winning session, and the permits under which that output is published.  *)
(*                                                                         *)
(* Every public call holds mutex_, so submitMove, updateServo, cancel,     *)
(* setOutputPermit and publishCommands are one action each.  tick holds    *)
(* the mutex through a computation that takes time, and its deadlines are  *)
(* compared with the clock again and again, so it is a sequence of actions *)
(* between which only the clock moves.  The control thread is the only     *)
(* caller of updateServo, tick and publishCommands and calls them in that  *)
(* order (control_tick in humanoid_motion_control_node.cpp); between tick  *)
(* and publishCommands the mutex is free, and Move workers and the permit  *)
(* callback may change anything.                                           *)
(*                                                                         *)
(* The session fields that a claim also has (endpoint, joints) are read    *)
(* through the endpoint.  What the solver computes is abstract: a step of  *)
(* the backend succeeds or fails, with or without a controlled stop, and   *)
(* the goal monitor reports any of its observations.  Servo events feed    *)
(* only the log and are left out; Move events are kept.                    *)
(***************************************************************************)
EXTENDS Arbitration, FiniteSets

CONSTANTS
  FeedbackMaxAge,  \* config_.feedback_max_age
  MaxPeriod,       \* config_.max_control_period
  RetryInterval,   \* config_.servo_retry_interval
  MoveTimeout,     \* config_.goal_monitor.move_timeout
  MaxTime,         \* bound: the clock stops here
  MaxSequence,     \* bound: calls that store a claim
  MaxToken,        \* bound: outputs computed
  MaxGeneration,   \* bound: changes of the execution permission
  MaxSkew          \* bound: age of a caller's clock reading at the call

ASSUME PipelineAssumption ==
  /\ FeedbackMaxAge \in Nat \ {0} /\ MaxPeriod \in Nat \ {0}
  /\ RetryInterval \in Nat \ {0} /\ MoveTimeout \in Nat \ {0}
  /\ MaxTime \in Nat /\ MaxSequence \in Nat /\ MaxToken \in Nat
  /\ MaxGeneration \in Nat /\ MaxSkew \in Nat

VARIABLES
  clock,                    \* the steady clock
  output_enabled,           \* may sessions exist and outputs be published
  output_generation,        \* counts grants and revocations of that
  claims,                   \* arbiter_.claims_
  next_sequence,            \* arbiter_.next_sequence_
  sessions,                 \* sessions_: id -> endpoint, submitted_at, backend_started
  active_backend_sessions,  \* ids the backend runs
  publication_permits,      \* joint -> the session and token that may be published
  next_publication_token,
  servo_retry_after,        \* Servo endpoint -> no backend start before this time
  pending_events,           \* ends of Moves the next tick reports
  last_tick_time,           \* now of the last tick, or Never
  tick,                     \* the control thread's locals
  admitted,                 \* history: the Moves admitted so far
  delivered,                \* history: the Move events handed to the node
  output                    \* history: joint -> the last output published on it

arbiter == <<claims, next_sequence>>
permission == <<output_enabled, output_generation>>
history == <<admitted, delivered, output>>
vars == <<clock, permission, arbiter, sessions, active_backend_sessions,
          publication_permits, next_publication_token, servo_retry_after,
          pending_events, last_tick_time, tick, history>>

Time == 0 .. MaxTime
Now == {t \in Time : clock - MaxSkew <= t /\ t <= clock}
Never == -1
NoSession == "no session"

MoveEnd == {"SUCCEEDED", "ABORTED", "PREEMPTED", "CANCELED"}
Permit == [session : Session, token : Nat]
NoOutput == [session |-> NoSession, token |-> 0]

\* Between cycles the control thread has no locals worth a distinction.
Idle == [phase |-> "idle", now |-> 0, started_at |-> 0, feedback |-> 0,
         sequence |-> 0, todo |-> {}, commands |-> {}, events |-> {}]

Init ==
  /\ clock = 0
  /\ output_enabled = TRUE /\ output_generation = 0
  /\ claims = <<>> /\ next_sequence = 1
  /\ sessions = <<>> /\ active_backend_sessions = {}
  /\ publication_permits = <<>> /\ next_publication_token = 1
  /\ servo_retry_after = <<>>
  /\ pending_events = {} /\ last_tick_time = Never
  /\ tick = Idle
  /\ admitted = {} /\ delivered = {} /\ output = [j \in Joint |-> NoOutput]

LockFree == tick.phase \in {"idle", "publish"}
-----------------------------------------------------------------------------
\* What terminate does, for a set S of sessions.

\* Faults for the runs to find: permits outlive their session; Servo ends are
\* reported to waiting goals; a Move the backend never ran ends in silence; the
\* arbiter is not told.
PermitsNotOf_Kept(S) == publication_permits
Ends_OfServosToo(S, state) == {<<s, state>> : s \in S \cap DOMAIN sessions}
Ends_OfRunning(S, state) ==
  {<<m, state>> : m \in S \cap active_backend_sessions \cap MoveId}
EndSessions_KeepClaims(S) ==
  /\ sessions' = Without(sessions, S)
  /\ active_backend_sessions' = active_backend_sessions \ S
  /\ claims' = claims

PermitsNotOf(S) ==
  Restrict(publication_permits,
           {j \in DOMAIN publication_permits : publication_permits[j].session \notin S})

Ends(S, state) == {<<m, state>> : m \in S \cap DOMAIN sessions \cap MoveId}

\* sessions_, active_backend_sessions_ and the arbiter forget S.
EndSessions(S) ==
  /\ sessions' = Without(sessions, S)
  /\ active_backend_sessions' = active_backend_sessions \ S
  /\ claims' = Without(claims, S)

NewSession(e, submitted_at) ==
  [endpoint |-> e, submitted_at |-> submitted_at, backend_started |-> FALSE]
-----------------------------------------------------------------------------
\* The calls of Move workers and of the permit callback.

\* generation is the permission the worker started under; a worker whose
\* permission was revoked since is turned away and changes nothing.
SubmitMove(m, e, now) ==
  LET result == submitMove(claims, next_sequence, m, e, now)
      ended  == result.preempted \cup result.expired
  IN
  /\ LockFree /\ output_enabled
  /\ m \notin admitted
  /\ next_sequence <= MaxSequence
  /\ claims' = result.claims
  /\ next_sequence' = next_sequence + 1
  /\ pending_events' = pending_events \cup Ends(result.preempted, "PREEMPTED")
  /\ active_backend_sessions' = active_backend_sessions \ ended
  /\ IF result.admitted
       THEN /\ sessions' = With(Without(sessions, ended), m, NewSession(e, now))
            /\ publication_permits' = Without(PermitsNotOf(ended), Joints[e])
            /\ admitted' = admitted \cup {m}
       ELSE /\ sessions' = Without(sessions, ended)
            /\ publication_permits' = PermitsNotOf(ended)
            /\ UNCHANGED admitted
  /\ UNCHANGED <<clock, permission, next_publication_token, servo_retry_after,
                 last_tick_time, tick, delivered, output>>

Cancel(s) ==
  /\ LockFree
  /\ EndSessions({s})
  /\ publication_permits' = PermitsNotOf({s})
  /\ pending_events' = pending_events \cup Ends({s}, "CANCELED")
  /\ UNCHANGED <<clock, permission, next_sequence, next_publication_token,
                 servo_retry_after, last_tick_time, tick, history>>

\* Fault: a revocation that keeps the generation ends nothing.
Confirms_ByGeneration(enabled, generation) == generation = output_generation

Confirms(enabled, generation) == enabled /\ generation = output_generation

SetOutputPermit(enabled, generation) ==
  /\ LockFree
  /\ output_enabled' = enabled /\ output_generation' = generation
  /\ IF Confirms(enabled, generation)
       THEN UNCHANGED <<sessions, active_backend_sessions, claims,
                        publication_permits, pending_events>>
       ELSE /\ EndSessions(DOMAIN sessions)
            /\ publication_permits' = <<>>
            /\ pending_events' =
                 pending_events \cup Ends(DOMAIN sessions, "CANCELED")
  /\ UNCHANGED <<clock, next_sequence, next_publication_token,
                 servo_retry_after, last_tick_time, tick, history>>
-----------------------------------------------------------------------------
\* The control thread.

UpdateServo(s, received_at, now) ==
  LET result  == updateServo(claims, next_sequence, s, received_at, now)
      ended   == result.preempted \cup result.expired
      renewed == s \in DOMAIN sessions \ result.expired
  IN
  /\ tick.phase = "idle" /\ output_enabled
  /\ AcceptsServo(claims, s, received_at, now)
  /\ next_sequence <= MaxSequence
  /\ claims' = result.claims
  /\ next_sequence' = next_sequence + 1
  /\ sessions' =
       With(Without(sessions, ended), s,
            IF renewed THEN [sessions[s] EXCEPT !.submitted_at = received_at]
                       ELSE NewSession(s, received_at))
  /\ active_backend_sessions' = active_backend_sessions \ ended
  /\ pending_events' = pending_events \cup Ends(result.preempted, "PREEMPTED")
  /\ publication_permits' =
       Without(PermitsNotOf(ended), IF result.admitted THEN Joints[s] ELSE {})
  /\ UNCHANGED <<clock, permission, next_publication_token, servo_retry_after,
                 last_tick_time, tick, history>>

\* Faults: the backend of a session that lost is left running; a Move is
\* stopped over a scheduling gap like a Servo, to be started again.
GoesOn_Losers(running, winners, gap) == IF gap THEN {} ELSE running
EndedByGap_None(running, gap) == {}

\* What the backend still runs after the head of tick, and the Moves that a
\* scheduling gap ends; a Servo starts again from measured joints.
GoesOn(running, winners, gap) == IF gap THEN {} ELSE running \cap winners
EndedByGap(running, gap) == IF gap THEN running \cap MoveId ELSE {}

\* The head of tick: evaluate the arbiter, drop expired Servos, end or stop
\* what ran before a scheduling gap, stop the backend of sessions that lost.
BeginTick(now, feedback) ==
  LET live    == Unexpired(claims, clock)
      winners == computeWinners(claims, clock)
      expired == DOMAIN claims \ DOMAIN live
      gap     == last_tick_time # Never /\ now - last_tick_time > MaxPeriod
      running == active_backend_sessions \ expired
      aborted == EndedByGap(running, gap)
      goes_on == GoesOn(running, winners, gap)
      ended   == expired \cup aborted
  IN
  /\ tick.phase = "idle"
  /\ last_tick_time' = now
  /\ claims' = Without(claims, ended)
  /\ active_backend_sessions' = goes_on
  /\ sessions' = [s \in DOMAIN sessions \ ended |->
                    [sessions[s] EXCEPT !.backend_started = s \in goes_on]]
  /\ publication_permits' = PermitsNotOf(ended)
  /\ pending_events' = {}
  /\ tick' = [phase |-> "select", now |-> now, started_at |-> clock,
              feedback |-> feedback, sequence |-> next_sequence,
              todo |-> winners \ ended, commands |-> {},
              events |-> pending_events \cup Ends(aborted, "ABORTED")]
  /\ UNCHANGED <<clock, permission, next_sequence, next_publication_token,
                 servo_retry_after, history>>

Earliest(times) == CHOOSE t \in times : \A u \in times : t <= u

\* Fault: how long the cycle itself takes is not counted.
Deadline_OfInputs(s) ==
  Earliest({tick.feedback + FeedbackMaxAge}
           \cup IF s \in ServoEndpoint
                  THEN {sessions[s].submitted_at + Lease[s]} ELSE {})

\* deadline in tick: an output is good until its feedback, its cycle or its
\* Servo target is too old.
Deadline(s) ==
  Earliest({tick.feedback + FeedbackMaxAge, tick.started_at + MaxPeriod}
           \cup IF s \in ServoEndpoint
                  THEN {sessions[s].submitted_at + Lease[s]} ELSE {})

\* Winners are computed in the order they outrank each other.
IsNext(s) ==
  /\ s \in tick.todo
  /\ \A t \in tick.todo \ {s} : Outranks(claims[s], claims[t])

Done(s, phase) == [tick EXCEPT !.phase = phase, !.todo = @ \ {s}]

\* append_command: a new token for the joints of s.
Permitted(s, token) ==
  [j \in DOMAIN publication_permits \cup Joints[sessions[s].endpoint] |->
     IF j \in Joints[sessions[s].endpoint]
       THEN [session |-> s, token |-> token] ELSE publication_permits[j]]
Command(s, token) ==
  [session |-> s, token |-> token, joints |-> Joints[sessions[s].endpoint],
   valid_until |-> Deadline(s)]

\* The computation for s is over and appends nothing.
AppendNothing(s) ==
  /\ tick' = Done(s, "select")
  /\ UNCHANGED next_publication_token

\* It appends the last of count commands it has made; an earlier one, popped
\* again, has used a token.
AppendLast(s, count) ==
  LET token == next_publication_token + count - 1
  IN  /\ next_publication_token' = next_publication_token + count
      /\ next_publication_token' <= MaxToken + 1
      /\ publication_permits' = Permitted(s, token)
      /\ tick' = [Done(s, "select") EXCEPT !.commands = @ \cup {Command(s, token)}]

\* terminate(s) in the winner loop; the caller says what becomes of permits.
EndInTick(s, state) ==
  /\ EndSessions({s})
  /\ pending_events' = pending_events \cup Ends({s}, state)
  /\ UNCHANGED <<clock, permission, next_sequence, last_tick_time, history>>

\* Unusable or stale feedback, a missed deadline, a goal the monitor refuses:
\* the session ends at once and its permits with it.
Abandon(s) ==
  /\ IsNext(s)
  /\ \/ tick.phase = "select"
     \/ tick.phase = "compute" /\ (clock >= Deadline(s) \/ s \in MoveId)
  /\ EndInTick(s, "ABORTED")
  /\ publication_permits' = PermitsNotOf({s})
  /\ AppendNothing(s)
  /\ UNCHANGED servo_retry_after

MustWait(s) ==
  /\ s \in ServoEndpoint /\ ~sessions[s].backend_started
  /\ s \in DOMAIN servo_retry_after /\ clock < servo_retry_after[s]

TimedOut(s) ==
  s \in MoveId /\ tick.now - sessions[s].submitted_at > MoveTimeout

\* After a failure a Servo is not retried for a while: until then the winner
\* has no output.
WaitForRetry(s) ==
  /\ tick.phase = "select" /\ IsNext(s)
  /\ clock < Deadline(s) /\ MustWait(s)
  /\ AppendNothing(s)
  /\ UNCHANGED <<clock, permission, arbiter, sessions, active_backend_sessions,
                 publication_permits, servo_retry_after, pending_events,
                 last_tick_time, history>>

\* The session ends with a hold output if controlledStop gives one.
StopControlled(s) ==
  /\ EndInTick(s, "ABORTED")
  /\ \/ AppendLast(s, 1)
     \/ AppendNothing(s) /\ UNCHANGED publication_permits

TimeOutMove(s) ==
  /\ tick.phase = "select" /\ IsNext(s)
  /\ clock < Deadline(s) /\ TimedOut(s)
  /\ StopControlled(s)
  /\ UNCHANGED servo_retry_after

\* The backend starts to work for s, if it has to starting its session.
Compute(s) ==
  /\ tick.phase = "select" /\ IsNext(s)
  /\ clock < Deadline(s) /\ ~MustWait(s) /\ ~TimedOut(s)
  /\ tick' = [tick EXCEPT !.phase = "compute"]
  /\ UNCHANGED <<clock, permission, arbiter, sessions, active_backend_sessions,
                 publication_permits, next_publication_token, servo_retry_after,
                 pending_events, last_tick_time, history>>

\* fail_backend: a start, a step or a check of the result failed.
FailBackend(s) ==
  /\ tick.phase = "compute" /\ IsNext(s) /\ clock < Deadline(s)
  /\ StopControlled(s)
  /\ servo_retry_after' =
       IF s \in ServoEndpoint THEN With(servo_retry_after, s, clock + RetryInterval)
                              ELSE servo_retry_after

Drive(s) ==
  /\ tick.phase = "compute" /\ IsNext(s) /\ clock < Deadline(s)
  /\ AppendLast(s, 1)
  /\ sessions' = [sessions EXCEPT ![s].backend_started = TRUE]
  /\ active_backend_sessions' = active_backend_sessions \cup {s}
  /\ servo_retry_after' = Without(servo_retry_after, {s})
  /\ UNCHANGED <<clock, permission, arbiter, pending_events, last_tick_time, history>>

\* The goal monitor sees the goal of Move m reached: the output just computed
\* is the last.
ReachGoal(m) ==
  /\ m \in MoveId
  /\ tick.phase = "compute" /\ IsNext(m) /\ clock < Deadline(m)
  /\ AppendLast(m, 1)
  /\ EndInTick(m, "SUCCEEDED")
  /\ UNCHANGED servo_retry_after

\* The goal monitor times out or cannot judge: the output is popped and a
\* hold put in its place, if there is one; the popped output's permit stays.
MissGoal(m) ==
  /\ m \in MoveId
  /\ tick.phase = "compute" /\ IsNext(m) /\ clock < Deadline(m)
  /\ EndInTick(m, "ABORTED")
  /\ \/ AppendLast(m, 2)
     \/ /\ next_publication_token <= MaxToken
        /\ next_publication_token' = next_publication_token + 1
        /\ publication_permits' = Permitted(m, next_publication_token)
        /\ tick' = Done(m, "select")
  /\ UNCHANGED servo_retry_after

\* The tail of tick: an output that went stale while others were computed is
\* dropped and its session ended.
FinishTick ==
  LET stale == {c \in tick.commands : clock >= c.valid_until}
      ended == {c.session : c \in stale}
  IN
  /\ tick.phase = "select" /\ tick.todo = {}
  /\ EndSessions(ended)
  /\ publication_permits' = PermitsNotOf(ended)
  /\ pending_events' = {}
  /\ tick' = [tick EXCEPT !.phase = "publish", !.commands = @ \ stale,
                !.events = @ \cup pending_events \cup Ends(ended, "ABORTED")]
  /\ UNCHANGED <<clock, permission, next_sequence, next_publication_token,
                 servo_retry_after, last_tick_time, history>>

\* Faults: permission is looked at, the joints' permits are not; one joint's
\* permit is enough.
IsPermitted_IfEnabled(c) == output_enabled
IsPermitted_OnSomeJoint(c) ==
  /\ output_enabled
  /\ \E j \in c.joints \cap DOMAIN publication_permits :
       publication_permits[j] = [session |-> c.session, token |-> c.token]

\* A command whose token is still on all of its joints.
HoldsPermits(c) ==
  \A j \in c.joints :
    /\ j \in DOMAIN publication_permits
    /\ publication_permits[j] = [session |-> c.session, token |-> c.token]

\* validatePublicationLocked, up to the comparison with valid_until.
IsPermitted(c) == output_enabled /\ HoldsPermits(c)

\* publishCommands, and the node's delivery of the tick's events.  The sink
\* may still refuse the batch: it looks at the node's own permission, which
\* changes before setOutputPermit tells the pipeline.
PublishCommands ==
  LET permitted == {c \in tick.commands : IsPermitted(c)}
      approved  == {c \in permitted : clock < c.valid_until}
      ended     == {c.session : c \in permitted \ approved}
      consumed  == UNION {c.joints : c \in approved}
  IN
  /\ tick.phase = "publish"
  /\ EndSessions(ended)
  /\ publication_permits' = Without(PermitsNotOf(ended), consumed)
  /\ pending_events' = pending_events \cup Ends(ended, "ABORTED")
  /\ \/ output' = [j \in Joint |->
                     IF \E c \in approved : j \in c.joints
                       THEN LET c == CHOOSE c \in approved : j \in c.joints
                            IN  [session |-> c.session, token |-> c.token]
                       ELSE output[j]]
     \/ UNCHANGED output
  /\ delivered' = delivered \cup tick.events
  /\ tick' = Idle
  /\ UNCHANGED <<clock, permission, next_sequence, next_publication_token,
                 servo_retry_after, last_tick_time, admitted>>
-----------------------------------------------------------------------------
AdvanceClock ==
  /\ clock < MaxTime
  /\ clock' = clock + 1
  /\ UNCHANGED <<permission, arbiter, sessions, active_backend_sessions,
                 publication_permits, next_publication_token, servo_retry_after,
                 pending_events, last_tick_time, tick, history>>

Others ==
  \/ \E m \in MoveId, e \in MoveEndpoint, now \in Now : SubmitMove(m, e, now)
  \/ \E s \in Session : Cancel(s)
  \/ \E enabled \in BOOLEAN, generation \in output_generation .. MaxGeneration :
        SetOutputPermit(enabled, generation)

ComputeWinner(s) ==
  \/ Abandon(s) \/ WaitForRetry(s) \/ TimeOutMove(s) \/ Compute(s)
  \/ FailBackend(s) \/ Drive(s) \/ ReachGoal(s) \/ MissGoal(s)

Control ==
  \/ \E s \in ServoEndpoint, received_at \in Time, now \in Now :
        UpdateServo(s, received_at, now)
  \/ \E now \in Now, feedback \in Time :
        feedback <= now /\ now - feedback <= FeedbackMaxAge /\ BeginTick(now, feedback)
  \/ \E s \in tick.todo : ComputeWinner(s)
  \/ FinishTick
  \/ PublishCommands

Next == Others \/ Control \/ AdvanceClock

Spec == Init /\ [][Next]_vars
-----------------------------------------------------------------------------
(* Type invariant. *)
TypeOK ==
  /\ clock \in Time /\ output_enabled \in BOOLEAN /\ output_generation \in Nat
  /\ DOMAIN claims \subseteq Session /\ claims \in [DOMAIN claims -> Claim]
  /\ next_sequence \in Nat /\ next_publication_token \in Nat
  /\ DOMAIN sessions \subseteq Session
  /\ sessions \in [DOMAIN sessions ->
       [endpoint : Endpoint, submitted_at : Time, backend_started : BOOLEAN]]
  /\ DOMAIN publication_permits \subseteq Joint
  /\ publication_permits \in [DOMAIN publication_permits -> Permit]
  /\ DOMAIN servo_retry_after \subseteq ServoEndpoint
  /\ pending_events \subseteq MoveId \X MoveEnd
  /\ last_tick_time \in Time \cup {Never}
  /\ tick.phase \in {"idle", "select", "compute", "publish"}
  /\ tick.todo \subseteq Session /\ tick.events \subseteq MoveId \X MoveEnd
  /\ admitted \subseteq MoveId /\ delivered \subseteq MoveId \X MoveEnd

(* The arbiter holds a claim for exactly the live sessions, under the same *)
(* endpoint and time: a claim without a session would keep its joints from *)
(* everyone with nobody to drive them, a session without a claim would     *)
(* never be driven and never end.                                          *)
SessionsHoldClaims ==
  /\ DOMAIN claims = DOMAIN sessions
  /\ \A s \in DOMAIN sessions :
       /\ sessions[s].endpoint = claims[s].endpoint
       /\ sessions[s].submitted_at = claims[s].received_at

(* The backend sessions are the live sessions that are marked as started,  *)
(* and no two of them drive a joint in common: a session that loses is     *)
(* stopped before the one that took its joints is started.                 *)
BackendSessionsDisjoint ==
  /\ active_backend_sessions = {s \in DOMAIN sessions : sessions[s].backend_started}
  /\ \A s, t \in active_backend_sessions :
       s # t => ~Overlap(sessions[s].endpoint, sessions[t].endpoint)

(* An admitted Move is live or has ended with exactly one event, which     *)
(* waits for the next tick, is in the tick's result or was handed over:    *)
(* the Action server gets one result for a Move, whoever ended it.         *)
MoveEndsOnce ==
  \A m \in MoveId :
    LET Count(events) == Cardinality({st \in MoveEnd : <<m, st>> \in events})
    IN  Count(pending_events) + Count(tick.events) + Count(delivered)
          = IF m \in admitted \ DOMAIN sessions THEN 1 ELSE 0

(* Without permission there are no sessions and nothing can be published.  *)
RevokedMeansSilent ==
  ~output_enabled => DOMAIN sessions = {} /\ publication_permits = <<>>

(* No output is published after another session has been given control of  *)
(* its joints: whoever else wins a published joint was already known when  *)
(* the output was computed (README.md:179, one-shot permits revoked by *)
(* new control).                                                           *)
OutputIsCurrent ==
  [][\A j \in Joint : output'[j] # output[j] =>
       /\ output_enabled
       /\ \A s \in computeWinners(claims, clock) :
            /\ s # output'[j].session
            /\ j \in Joints[claims[s].endpoint]
            => claims[s].receive_sequence < tick.sequence]_vars

(* A published output is of a live session or is the last output of one    *)
(* its own tick ended; a Move that was canceled or preempted publishes     *)
(* nothing, not even the output computed before.                           *)
StoppedMoveIsSilent ==
  [][\A j \in Joint : output'[j] # output[j] =>
       \A st \in {"CANCELED", "PREEMPTED"} :
         <<output'[j].session, st>>
           \notin pending_events \cup tick.events \cup delivered]_vars

(* When an output is published, the feedback it was computed from, its     *)
(* cycle and, for a Servo, its target are still fresh, however long the    *)
(* solvers and the wait for the mutex took.                                *)
OutputIsFresh ==
  [][\A j \in Joint : output'[j] # output[j] =>
       LET s == output'[j].session
       IN  /\ clock - tick.feedback < FeedbackMaxAge
           /\ clock - tick.started_at < MaxPeriod
           /\ s \in DOMAIN sessions \cap ServoEndpoint =>
                clock - sessions[s].submitted_at < Lease[s]]_vars

(* The backend session of a Move is not stopped to be started again: once  *)
(* it runs, it runs until the Move ends.  It is so only where the groups   *)
(* nest (NestedGroups, as the shipped channels do): otherwise a Move may   *)
(* lose its joints without being preempted, and resume.                    *)
RunningMoveRunsToItsEnd ==
  [][\A m \in active_backend_sessions \cap MoveId :
       m \in DOMAIN sessions' => m \in active_backend_sessions']_vars

\* The commands of this cycle that hold all their permits are what the
\* pipeline offers.
Offers ==
  {[session |-> c.session, token |-> c.token, joints |-> c.joints] :
     c \in {d \in tick.commands : HoldsPermits(d)}}

Abstract == INSTANCE JointOutput WITH
  enabled <- output_enabled, offers <- Offers, next_token <- next_publication_token

(* The permits of single joints and the list of commands amount to outputs *)
(* that are offered once and published whole or not at all, though another *)
(* session may take one of the joints between tick and publishCommands,    *)
(* when the session that computed the output may have ended.               *)
OffersAreWhole == Abstract!Spec
=============================================================================
