# Formal models of humanoid_motion_server

TLA+ modules of the motion server's control logic, TLC runs that check them on
small instances, and TLAPS proofs of what matters most for every instance.
Paths are relative to the repository; `node` is
`src/humanoid_motion_control_node.cpp`, `pipeline` is
`src/motion/command_pipeline.cpp` and `arbiter` is
`src/arbitration/control_arbiter.cpp`.

## 1. The system

Clients command the joints of a robot through *endpoints*. A Move (MoveJ, MoveL,
MoveP) is a ROS Action with an end; a Servo (ServoJ, ServoP) is a stream of
targets, each good for a *lease*. Endpoints have priorities and command groups
of joints that may overlap. The server decides who drives which joint, runs the
SDK's solvers at about 100 Hz, and publishes joint commands only while it is
permitted to.

| Component | State | Operations | Hard behaviour | Correct when |
| --- | --- | --- | --- | --- |
| ControlArbiter (`arbiter`) | policies, claims, sequence counter | registerEndpoint, submitMove, updateServo, evaluate, release | ties, expiry, claims in any order with old clock readings | winners share no joint; Moves never wait; a rejection changes nothing |
| CommandPipeline (`pipeline`) | sessions, backend sessions, publication permits, events, retry times, permission | submitMove, updateServo, cancel, setOutputPermit, tick, publishCommands | the control cycle is interrupted between compute and publish; solvers take time; scheduling gaps | only the current owner's fresh output is published; each Move ends once |
| Move reservation and Servo queue (`node`) | latest_servos_, move_owners_, servo_cutoffs_ | queue_servo, reserve_move, release_move, control_tick | three kinds of threads, two locks | a Move in control owns its joints; no target from before a Move outlives it |
| Execution permits (`node`) | permit_* atomics, ownership key and phase | permit callback, receive_ownership_permit, expiry in control_tick | lock-free flags against a timer | the node's permission and the pipeline's agree |
| Move Actions (`node`) | workers, waiting_move_sessions_, terminal_events_ | launch_action, execute_move, finish_move | cancel, timeout, revocation and end race | each goal gets its one result, eventually |
| InputTimestamp (`input_timestamp.hpp`) | last stamp, last clock of a topic | accept | replay, reordering, clock resets | no packet renews a lease twice |
| GoalMonitor | goals, stable_since | begin, observe, erase | noise around the tolerance, timeout | a goal is reached only when stable |
| Limit recovery (`pipeline`) | last target, recovering_limits | validateFinalCommand, limitRecoverySeed | a joint measured outside its limits | outputs only move inward |
| SdkMotionBackend (`sdk_motion_backend.cpp`) | SDK sessions, a smoother per group | start, tick, stop, reset, rebase, update | closed-source solver; the smoother is shared by a group's sessions | no task outlives its session; the smoother goes on from the last output |
| Pose execution (`python/.../pose_execution.py`, `pose_runtime.py`) | requests, accepted goals, teleop ownership | request, stop, execute, acquire, release, resume | late acceptance, unknown outcomes, pauses at any point | teleop stays off while motion may be active; each pose is answered |
| Simulation plant (`python/.../simulation/plant.py`) | targets, stamps, deadlines | command, step, hold | watchdog, clock reset | an old target never moves a joint |
| Kinematics, TF, configuration, display, tools, vendor SDK | - | numerical, start-up or I/O | - | not for a model checker |

Interactions. The ROS executor thread runs subscriptions, the permit callback
and Action acceptance; each accepted Move gets a worker thread; the control
timer has a thread of its own and is the only caller of `updateServo`, `tick`
and `publishCommands`. The pipeline's mutex makes each of its public calls
atomic and is held through a whole `tick`, but not between `tick` and
`publishCommands`. Locks are taken in the order `servo_input_mutex_`,
`pipeline.mutex_`, `ownership_mutex_`.

## 2. Modules

| Module | Models | Composes |
| --- | --- | --- |
| `Arbitration` | the arbitration rule as operators on claim maps | - |
| `ControlArbiter` | the arbiter as a state machine | Arbitration |
| `Arbitration_proofs` | lemmas about the arbitration rule | Arbitration |
| `CommandPipeline` | sessions, permits, events and the control cycle of all groups | Arbitration |
| `JointOutput` | abstract: what the pipeline promises of the outputs it lets out | implemented by CommandPipeline |
| `InputTimestamp` | order and age of the messages of a topic, as operators | - |
| `MoveReservation` | how joints go from Servos to a Move and back, and what is queued | Arbitration, InputTimestamp |
| `PermitProtocol` | permits, the ownership handshake, expiry and the sink's check | - |
| `MoveAction` | goals, their workers, terminal events and results | - |
| `LimitRecovery` | which outputs pass the limit checks, as operators on integers | - |
| `GoalMonitor` | when a Move is at its goal, as operators | - |
| `SdkMotionBackend` | the backend's sessions, tasks and shared smoother | - |
| `MotionSession` | what the sessions of one group do in the control cycle | LimitRecovery, GoalMonitor, SdkMotionBackend |
| `PoseExecution` | pose runtime, its worker, MoveJ servers and teleop receiver | - |
| `MC*` | instances for TLC | the module of that name |
| `*_proofs` | theorems about the module of that name (section 4) | that module, some of them Arbitration_proofs |

Three components share the arbitration rule, so the rule is a module of
operators and each component calls it as the code calls the arbiter: a call
takes a claim map and gives the new one with who was preempted and who expired.
That the pipeline calls it only in ways the arbiter's own module allows is a theorem
about an instance of that module (`Arbiter` in `CommandPipeline_proofs`).

**Claims.** The code copies priority, lease, group and joints of the endpoint
into each claim. These are constants of the endpoint here, and a claim keeps the
endpoint, the receipt time and the sequence number. `Winners` is characterised
by the set it returns; `GreedyWinners` sorts the claims and goes down the order
as the code does, and `WinnersAreGreedy` compares the two.

**Time.** The steady clock is an integer. Callers read it *before* they take the
pipeline's mutex, so a call's `now` may be up to `MaxSkew` behind the clock.

**The control cycle.** `tick` is a sequence of actions while the mutex is held:
`BeginTick`, then for each winner `Compute` and one of its ends (`Drive`,
`FailBackend`, `Abandon`, `ReachGoal`, `MissGoal`, or without computing
`WaitForRetry`, `TimeOutMove`), then `FinishTick`. Only the clock moves in
between, which is how a slow solver looks to the deadlines. In phases `idle` and
`publish` the mutex is free and any other call may come. The computed joint
values are left to `MotionSession`; a computation succeeds or fails here, and a
controlled stop may give an output or none.

**Outputs.** `JointOutput` says what a robot may rely on: an output is offered
once, for all its joints; a later one takes the place of those it meets, any may
be withdrawn, and publishing takes it away. The code keeps a permit for each
joint and a batch of commands, changed by different threads at different times.
Under the mapping, the offers are the commands of the batch that hold all their
permits (`Offers`), and `OffersAreWhole` is the refinement
(`INSTANCE JointOutput WITH offers <- Offers`): no dual-arm output ever moves
one arm only, and none comes back.

**One group's session.** `CommandPipeline` treats a computation as one step with
three outcomes; `MotionSession` takes it apart for one group, backend call by
backend call, with positions as integers and velocities as signs. A call is an
action since time passes in it, and the deadline is looked at after it, before
its result. The SDK may accept or refuse, report a waypoint reached or not, and
give any candidate and any smoothed output; a smoother that failed half-way is
`Unknown`. One session of a group can win: its live Move, as Moves never wait
when Servo groups nest (`NestedMovesNeverWait`), or a Servo. Other groups are
any preemption or suspension. Nothing is left in the pipeline of a session that ended
(`TypeOK` and `TasksEndWithSessions` check it for goals, runs and tasks), so an
id stands for the next Move too. A measurement counts from its reception.
`trail`, `evidence` and `arrived` are history: the outputs of a session, since
when and from which sample on everything measured was at the goal, and whether
the path's end was reported.

**The node around it.** The sink given to `publishCommands` looks at the node's
own permission, which changes before the pipeline hears of it, so a published
batch may come to nothing in the model. `admitted`, `delivered` and `output` are
history: the Moves admitted, the Move events given to the node, the last output
published on each joint.

**Reservation.** `reserve_move` marks the joints and then silences Servo
channels one by one; each is an action because the control thread, which has
taken targets out of the queue before, goes on meanwhile, and so do the workers of
other Moves, which submit without the Servo mutex. A worker's own Move is submitted
after `reserve_move` has returned (`StartWorker`, `node`:996). Of the pipeline only
the arbiter's claims are kept. Without the public joint mapping `reserve_move`
does nothing, and that configuration has nothing to check here. Whoever sends
Servo targets reads the ROS clock (`readings` is what it has shown, and when);
a target may be delivered at any later time, in any order and any number of
times, and the clock may be set back in between (`SetRosClock`). Unstamped
targets never pass with the mapping (their stamp, 0, is not above any cutoff).
A ROS clock that jumps forward and clients with clocks of their own are left
out: they change which targets are too old, not which came first.

**Permits.** The permit callback, `receive_ownership_permit` and `control_tick`
share atomics without a lock, so `PermitProtocol` has one action for each access
that the other thread can observe: `callback` and `cycle` hold the program
counter and the locals of the executor thread (its callback group is mutually
exclusive) and of the control thread. Reading a renewal's `rearm` and storing
`permit_enabled_`, finding a permit stale and exchanging the flag, incrementing
the generation and passing it to the pipeline are separate steps. What
`ownership_mutex_` or the pipeline's mutex covers is one step; the sink runs
under both, and no callback gets past `CloseOutput` while it does. A session
remembers the epoch or key it was accepted under, which is what the properties
are about. The supervisor is not in the repository: any message may come at any
time.

**Move Actions.** `worker` is the program counter of each goal's thread; each
access to the handle, the pipeline or the event maps is an action, since all
other threads go on in between. The pipeline is reduced to its sessions and the
events it has not given to a cycle; what ends a session (arrival, failure,
preemption by a Servo or a Move, cancellation, revocation) is any of what
`CommandPipeline` shows. Goal handles are rclcpp_action's (external): only a
canceling goal may become canceled, anything else throws into the worker's
`catch`. Status codes are left out but for the handle's terminal state.

**Poses.** `PoseExecution` has the runtime's callbacks (one thread), the worker
that executes a pose, and its peers. A future is an entry of `acceptance` or
`result` that the worker hears of only while it spins. Every wait has a
deadline, which may pass at any time: the steps that end a wait are enabled
whether or not what is waited for has come. The worker's looks at `cancel_event`
and what it does after them are different steps, as the runtime's thread sets the
event at any moment: it looks (`Begin`, `Prepare`, `Release`), then sends a request
(`SendRequest`, after a node was made and the service waited for) or goals one by
one (`SendGoal`, any of which may throw). `barred` is history: what a stop must keep
the pose from, by what the worker has yet to look for when the stop comes. The receiver is not in the
repository; it does what the mock in `test_pose_runtime_ros.py` does, also after
the caller has given up (`late`). MoveJ servers may refuse, fail, be late, or
die. A request that was stamped before the last stop is `old`. Left out: jogs,
`reset_reference`, the receiver's `enabled` flag, a runtime without a receiver
and the worker's shutdown.

## 3. Runs

| Run | Properties | Instance and bounds |
| --- | --- | --- |
| `arbiter` | `TypeOK`, `WinnersDisjoint`, `WinnersAreGreedy`, `MovesNeverWait`, `InputOrderIrrelevant`, `RejectedMoveIsHarmless` | two arms, Moves of one arm and of both, two Servos of one arm, one with a higher priority, and one of both arms, registered in any order or not at all; 3 stored claims, time 0..3, skew 1 |
| `arbiter_resume` | `LostMoveNeverResumes` violated | a Servo of both arms below a Servo of one, one Move |
| `pipeline_authority` | `TypeOK`, `SessionsHoldClaims`, `BackendSessionsDisjoint`, `MoveEndsOnce`, `RevokedMeansSilent`, `OutputIsCurrent`, `StoppedMoveIsSilent` | two arms, two symmetric Moves of the left arm or of both, a Servo of the right arm level with them; 3 stored claims, 2 outputs, 1 new permission, time 0..2 |
| `pipeline_timing` | `OutputIsFresh`, `RunningMoveRunsToItsEnd`, `OffersAreWhole` | two arms, two symmetric Moves of one arm or of both, a Servo above them; time 0..4, skew 1, 2 claims, 2 outputs |
| `reservation_handover` | `TypeOK`, `MovesAreReserved`, `QueuedTargetsFollowMoves`, `QueuedTargetsKeepTheirAge` | two arms, a Servo of both, two symmetric Moves of either arm or both; targets at most 2 old or 1 ahead, time 0..3, the ROS clock set back once, 3 stored claims |
| `reservation_exposed` | `EarlierLeaseNotExposed` violated | one arm, a Servo, two Moves; the ROS clock is not set |
| `permit` | `TypeOK`, `PublishedUnderItsPermit`, `PermissionFailsSafe`, `AcknowledgedRevokeIsComplete`, `StalePermitEndsOutput` | two epochs and two keys, one of each source; permits are received up to generation 3, a permit lasts until the clock moves, time 0..1, one Move between acceptance and submission |
| `permit_restored` | `FreshPermitRestoresOutput` violated | one epoch, one key, same bounds |
| `actions` | `TypeOK`, `NoMotionAfterResult`, `NeverAnsweredTwice`, `NothingLeftBehind`, `EveryGoalGetsItsResult`, `WorkersFinishAtShutdown` | two goals for one arm, with mapping |
| `action_occupied` | `SequentialMovesAreTaken` violated | the same |
| `session` | `TypeOK`, `TasksEndWithSessions`, `SmootherContinuesOutput`, `OutputsMoveInward`, `SuccessIsEarned` | two joints; a MoveJ, a MoveP of two waypoints, a Servo; six measurements, six outputs, two candidates; feedback lasts 2, a goal must be held 2, time 0..3 |
| `pose` | `TypeOK`, `MovingGoalsAreOwned`, `StoppedPosesStayStopped`, `PosesAreAnswered` | two goals, no bounds |

Why the bounds are enough. The arbiter's decision depends on pairs of claims and
on chains of two conflicts (a loser frees a third); three claims on two joints
are such a chain, and a lease of 2 in four moments lets a Servo expire
and return. In `pipeline_authority` three claims are a Servo, a Move that loses
to another claimant, and that claimant; two outputs let one be computed before
and one after the change, or two for different arms in one cycle. `pipeline_timing` needs longer time, not more
sessions: a gap longer than `MaxPeriod`, a retry that is still waiting, a lease
that ends inside a cycle. `reservation_handover` needs a target, its replay and
an older one, before and after one reset, which three moments and the packets
they give contain. In `session` the elbow can be measured two steps below, one
above and beyond recovery, and outputs exist on either side of every comparison
of the limit checks: inside, outside and moving either way, ahead of and behind
the measurement; a goal held for 2 in four moments can be left and reached again. Three generations let a permit be followed by a
revocation and a grant, or by another permit and a revocation; expiry is not
bounded and adds its own generations. One move of the clock makes any permit
stale. `MoveAction` needs no bounds: a goal passes once through its states, and
two goals contain every meeting of a goal with another; the limit of 64 workers
is refused like a missing permission. Every action of every module fires in these runs.

Fairness. `permit` needs it for its last property: `WF_vars(Callback)`, a callback that has
begun runs to its end (it blocks only on mutexes that are held for finite
times), and `WF_vars(ControlTick)`, the wall timer in a callback group of its
own keeps firing (`node`:488). `actions` assumes the same of the control
timer, as long as the node is not shut down, and weak fairness of each worker
thread. A worker's timeout is among its fair steps, as every Move has one
(`default_move_timeout_s` is positive). Nothing is assumed of the supervisor or
of clients. `pose` assumes that the worker's next step comes (`WF_vars(Work)`:
every wait in it has a deadline, after which it goes on whatever has happened)
and that the runtime's timer keeps firing (`WF_vars(AnswerPose)`,
`pose_runtime.py`:61); of the MoveJ servers, the receiver and messages it
assumes nothing. All other properties are of safety.

Four runs show where the code departs from what it says of itself.

* `arbiter_resume`: "Move was preempted and will not resume" (`pipeline`:746).
  Only a new claim preempts; the expiry of a Servo does not. With a Servo group
  that overlaps two otherwise disjoint groups, a Move can lose its joints to a
  Servo that starts to win because a third session ended, keep its claim, and
  resume later. The shipped channels have no such group, and
  `NestedMovesNeverWait` proves that without one this never happens.
* `reservation_exposed`: "a short or canceled Move cannot expose an earlier
  still-live Servo lease" (`node`:1023). `control_tick` holds targets in a local
  between taking them (`node`:1617) and consuming them; a reservation made in
  between does not see them, and after a Move shorter than the lease the earlier
  target has the joints again.
* `permit_restored`: after an expiry, new permits let targets through
  (`test_servo_freshness_ros.py`:202-208). A renewal that arrives as its permit
  runs out decides that nothing is to be re-armed (`node`:440), `control_tick`
  then clears the flag and closes the pipeline (`node`:1607), and the renewal
  sets the flag again (`node`:452). The node accepts what its pipeline rejects,
  and later renewals change nothing until the permit lapses or its epoch
  changes. The race fails safe (`PermissionFailsSafe`).
* `action_occupied`: a new command of the same arm may preempt
  (`docs/motion_control_api_zh.md`:49). With the public joint mapping a goal is
  refused while its joints are owned, and the worker releases them after the
  result is sent (`node`:1009), so a client's next goal may be refused though
  its last one has its result.

More observations. `StoppedPosesStayStopped` claims only what the code keeps: what
is heard before a look at `cancel_event`. Between the last look
(`pose_execution.py`:48) and the request to resume (line 216) the worker makes a
node and waits up to 2 s for the receiver's service. The model has the behaviour
`Release`, `PauseTeleop`, `SendRequest`, `ServeCall`: all goals are reached and teleop is
released, the pause is heard, and the request that follows enables teleop. So a
pause may be acknowledged and undone, and `docs/simulation_zh.md`:104
("暂停和紧急停止可取消回位；取消或失败后保持遥操关闭", teleop stays off after a
cancel or a failure) is not kept to the letter. In the same way goals are sent after a
stop that comes between line 100 and 103; teleop stays inhibited, and the worker
cancels them at its next look (`MovingGoalsAreOwned`). A resume after a pose goes by the receiver's last published
flag, which may be out of date. An acquire that times out but is served leaves
teleop inhibited with no owner. Servo cutoffs are ROS times that survive a
reset of the ROS clock (`node`:1580), so released joints stay silent until it
has passed them. Of two things no document speaks. A repeated `off` message
stores the source of its key (`node`:1110) though a plain permit of the other
source may be in force; where outputs go then is not checked. And a Move that a revocation ends gets a `CANCELED` event, but
its handle is not canceling, so `handle->canceled` throws and the goal is aborted
with `INTERNAL_ERROR`; `EveryGoalGetsItsResult` and `NeverAnsweredTwice` hold all the same.

## 4. Proofs

TLAPS proves the theorems below for all values of the constants that satisfy the
named assumptions of the modules. The bounds (`MaxTime`, `MaxSequence` and the
like) are arbitrary numbers in them, and no proof uses that they are small. Each
type invariant, safety property and refinement that a passing run
checks is a theorem. TLC checked the inductive invariants (`IInv`) of the permit,
reservation, session and pose modules on the instances of section 3 before they
were proved.

| Module | Theorem | Property |
| --- | --- | --- |
| `ControlArbiter_proofs` | `TypeCorrect` | `TypeOK` |
| | `WinnersShareNoJoint` | `WinnersDisjoint` |
| | `RejectedMovesAreHarmless` | `RejectedMoveIsHarmless` |
| | `NestedMovesNeverWait` | `MovesNeverWait` |
| | `InputOrderDoesNotMatter` | `InputOrderIrrelevant` |
| | `WinnersAreWhatTheLoopSelects` | `WinnersAreGreedy` |
| | `NestedMovesNeverResume` | `LostMoveNeverResumes`, if `NestedGroups(Endpoint)` |
| | `StoredClaimsSuspendNoMove` | (a call leaves no Move suspended that was in control) |
| `Arbitration_proofs` | `LoopComputesWinners` | (going down any sorted enumeration ends with `Winners`) |
| | `WinnersAreComputed` | (`Winners` is `GreedyWinners`: the sort exists and its loop selects it) |
| `CommandPipeline_proofs` | `TypeCorrect` | `TypeOK` |
| | `SessionsAlwaysHoldClaims` | `SessionsHoldClaims` |
| | `MovesEndOnce` | `MoveEndsOnce` |
| | `RevokedIsSilent` | `RevokedMeansSilent` |
| | `BackendsDisjoint` | `BackendSessionsDisjoint` |
| | `StoppedMovesAreSilent` | `StoppedMoveIsSilent` |
| | `OutputsAreCurrent` | `OutputIsCurrent` |
| | `OutputsAreFresh` | `OutputIsFresh` |
| | `ImplementsJointOutput` | `OffersAreWhole` (the refinement of `JointOutput`) |
| | `RunningMovesRunToTheirEnd` | `RunningMoveRunsToItsEnd`, if `NestedGroups(Endpoint)` |
| | `PipelineOnlyCallsTheArbiter` | (its steps are calls of `ControlArbiter`) |
| | `ArbiterPromisesHold` | (`WinnersDisjoint`, `MovesNeverWait`, `InputOrderIrrelevant` of its claims) |
| `MoveAction_proofs` | `TypeCorrect` | `TypeOK` |
| | `ResultsEndMotion` | `NoMotionAfterResult` |
| | `GoalsAreAnsweredOnce` | `NeverAnsweredTwice` |
| | `WorkersCleanUp` | `NothingLeftBehind` |
| | `EndsReachTheirWorkers` | (no end is lost, replaced or in two places while its worker waits) |
| | `WorkersAreBounded` | (at most `MaxTasks` workers, whose joints are apart) |
| `PermitProtocol_proofs` | `TypeCorrect` | `TypeOK` |
| | `PublishedIsPermitted` | `PublishedUnderItsPermit` |
| | `PermissionIsSafeAtRest` | `PermissionFailsSafe` |
| | `AcknowledgedRevokeIsFinal` | `AcknowledgedRevokeIsComplete` |
| `MoveReservation_proofs` | `TypeCorrect` | `TypeOK` |
| | `ClaimedMovesAreReserved` | `MovesAreReserved` |
| | `TargetsFollowMoves` | `QueuedTargetsFollowMoves` |
| | `TargetsKeepTheirAge` | `QueuedTargetsKeepTheirAge` |
| | `ClaimedMovesAreApart` | (Moves with claims share no joint) |
| | `ReservedMovesAreInControl` | (such a Move wins), if `NestedGroups(Endpoint)` |
| | `ReservedMovesPreemptNone` | (a submission ends no other Move), if `NestedGroups(Endpoint)` |
| `MotionSession_proofs` | `TypeCorrect` | `TypeOK` |
| | `NoTaskIsLeftBehind` | `TasksEndWithSessions` |
| | `SmootherGoesOn` | `SmootherContinuesOutput` |
| | `OutputsGoInward` | `OutputsMoveInward` |
| | `SuccessNeedsEvidence` | `SuccessIsEarned` |
| | `RetryGoesInward` | (a retry that passes the limit checks goes inward from the last output) |
| `PoseExecution_proofs` | `TypeCorrect` | `TypeOK` |
| | `MovingIsOwned` | `MovingGoalsAreOwned` |
| | `StoppedStaysStopped` | `StoppedPosesStayStopped` |

**Assumptions.** Joint sets are non-empty, Move ids are no endpoints, leases,
timeouts and ages are positive (`ArbitrationAssumption`, `PipelineAssumption`,
...); the parameter checks at start-up (`node`:531-549) see to that. Epochs are not ownership keys, and neither
is the node's empty string: `PermitAssumption` says so as a key begins with
`hc1:` (`node`:1092) and an epoch with `vr:` or `motion:` (`node`:438). The
theorems that assume `NestedGroups(Endpoint)` and, through their own hypothesis
`NestedServoGroups`, `MovesNeverWait` and `InputOrderIrrelevant` speak of
channels whose groups nest, like those of `config/channels.yaml`. Without it a
Move may be suspended and resume, as `arbiter_resume` shows; `NestedMovesNeverResume`
says that such configurations are the only ones on which that promise is broken. The code accepts a
`stable_duration` of zero (`goal_monitor.cpp`:68), for which a goal is reached
the first time it is observed; `SuccessIsEarned` demands evidence over a duration only
where there is one.

**The arbiter.** `Winners(C)` is a choice, so the first lemmas show that a
selection exists (by removing the claim that everything else outranks, a finite
descent over the set of claims), that it is unique and that its members do not
conflict. All three need the claims to be finitely many and totally ordered by
`Outranks`. `TypeOK` does not say that: the inductive invariant adds that the
claims are finitely many, and that every claim has a sequence number of its own,
below `next_sequence`, which is what breaks ties of priority and receipt time.
That the code computes this set is `WinnersAreComputed`. A sorting exists by induction
on the number of claims, as the one that everything else outranks goes last; the
turns of the loop are a recursive function on `0..n`, unfolded by the same
induction; and selecting in turn what conflicts with none selected before ends
with `Winners` (`LoopComputesWinners`). The library's induction theorems cannot be
instantiated here, so each induction is a descent to a least element in a finite set
(`FiniteMinimal`, `CountingUp`). `std::sort` is taken to sort.
Calls preserve it because they store a claim under `next_sequence` and only
remove others. `RejectedMovesAreHarmless` rests on one fact about selections: removing a claim
that is not selected leaves the others' selection as it was. A rejected Move
that preempted someone would win. The same fact gives `StoredClaimsSuspendNoMove`,
what is left without nested groups: a call preempts the Moves it takes joints from,
so that none is suspended by it. A suspended Move is the work of an expiry or a
release, after which a session that had been beaten wins.

`NestedMovesNeverWait` strengthens `MovesNeverWait` to *leading* Moves
(`MovesLead`): no other claim outranks a Move it shares joints with. With nested
groups a session that beats a Move also conflicts with whatever could have beaten
that session, so a claim that takes a Move's joints wins at once and preempts the
Move in the same call; no suspended rival remains whose turn could come later.
`InputOrderDoesNotMatter` goes on from there: where Moves lead, a Servo's update
ends the Moves that its claim beats and no others, whoever else has claims
(`UpdateEndsTheBeaten`), and what it beats depends on priorities and receipt
times alone. So either order of two updates leaves the same claims up to sequence numbers,
and these decide nothing between claims of different receipt times
(`UpdatesCommute`).

**The pipeline.** `Core` relates claims, sessions and the cycle: the arbiter
holds a claim for exactly the live sessions, made through an endpoint of the
right kind, and the cycle has only live sessions to do. It is proved action by
action. Everything else is proved over six kinds of steps
(`StepIsOfAKind`): `QuietStep` (cancel, permission, clock), `StoreStep`
(submissions), `LoopStep` (the cycle's sessions), `HeadStep` and `TailStep` (the
cycle's ends) and `PublishStep`, so that an invariant is argued once for the
eleven actions that end sessions. The layers of `IInv` are
`EventsOK` (an event is in one of three places, and a Move has one exactly if it
was admitted and is not live), `SilentOK`, `BackendOK` (the winners still to be
computed share no joint with what runs either, so starting one is safe), `FreshOK`
(a command's `valid_until` is no later than each of its deadlines), `TokensOK` (a token is
used once), `StoppedOK` (who was stopped has no permit) and `CurrentOK` (a claim newer than the
cycle has taken the permits it needs). The refinement maps a step of the loop that appends a
command to `Abstract!Offer`, a publication to `Abstract!Publish`, and all
others to a withdrawal or a stutter; `TokensOK` is what makes a withdrawn offer
stay withdrawn.

That the pipeline uses the arbiter as `ControlArbiter` says is proved about
`Arbiter`, an instance of that module over the pipeline's claims, sequence
numbers and clock, with all endpoints registered. The operators an instance brings are symbols of
their own, so the lemmas `Same...` first show that they are those of `Arbitration`. A
step of the pipeline is then one call with a clock reading no older than `MaxSkew`,
or a release of all the sessions it ends (`terminate` releases them one by one
under the mutex), and three of the arbiter's promises are proved of the pipeline's
claims from `Core`, which contains the arbiter's inductive invariant.

**Move Actions.** What a worker has done tells what may be left of its Move: only a
worker that polls, or has just failed, has a session; only one that has
submitted has events; only one that has not answered may answer.
`EndsReachTheirWorkers` adds that an end is in one of three places (`OnePlace`),
which is what `EventsOK` says of the same ends on the pipeline's side: the pipeline
gives a Move one event, and the node hands that one on. `HandOver`, which may discard an end,
discards it only if no worker waits.

**Permits.** The pipeline's generation may lag behind the node's and may even go back,
so the invariant is not that the two agree. It is that nothing live was requested under a
generation that a callback still has to bring into force (`EpochsOK`, `ClosedOK`), nor
under the pipeline's if that is not the node's (`GenerationsOK`); the rest places
the two threads' program counters.

**Reservation.** `QueuedTargetsFollowMoves` and `QueuedTargetsKeepTheirAge` are inductive
with what they rest on: workers own their joints and claims belong to workers that
have submitted (`OwnersOK`, `ClaimsOK`); what was sent since the ROS clock was
last set back was stamped with the same distance between both clocks
(`ReadingsOK`); and a tracker has seen a stamp as late as the newest target's
unless that was sent before the clock was set back (`TrackersOK`). With nested groups
`LeadOK` adds the arbiter's leading Moves: what `reserve_move` turns away would have
been the only Move to compete with one that runs (`ReservedMovesPreemptNone`).
Targets the control thread took before the reservation still reach the arbiter and may
preempt the Move; `ReservedMovesAreInControl` says that it then is gone, not waiting.

**One group's session.** How far the cycle has got tells what the backend runs
(`BackendOK`), where the smoother is (`SmootherOK`) and that the measurement
precedes the cycle (`TimesOK`). `OutputsGoInward` rests on a fact about the
limit checks, `RetryGoesInward`: an output of the smoother after its rebase to the
seed, which sets joints to their measurement, and which is checked against that seed, goes inward
from the last output as well.

**Poses.** Whether teleop is the worker's to release follows from where it is; the
layer that matters is that a runtime not sure of its goals is blocked for good
(`StillOK`, `LateOK`), so that a release served late cannot meet a goal that
moves. A stop is heeded because the event it sets stays set while the pose is under
way, and the worker is never beyond what the stop bars it from (`StoppedOK`).

**Only model-checked.** Liveness under fairness, which is beyond the prover:
`StalePermitEndsOutput`, `EveryGoalGetsItsResult`, `WorkersFinishAtShutdown`,
`PosesAreAnswered`. The four violations are counterexamples and need no proof. Of the
helpers only what the proofs need is proved: `GoalMonitor`, `InputTimestamp`,
`LimitRecovery` and `SdkMotionBackend` have no theorem module of their own, and
are expanded where their callers' proofs use them.

## 5. Not modelled, and the plan

Not modelled:

* Numbers: kinematics, unit conversion, orientation distances, machine roundoff
  at limits, accelerations, what the closed SDK computes. No model checker
  reaches them.
* Wiring and I/O: parameters, channel configuration (its result is the
  constants), message conversion, frame transforms, TF, publishers, status
  texts, `ServoStateLog` (text only), displays, tools, launch files.
* `stopped_sessions` of the backend, which gets an id with every Move and is
  read by nothing: it grows while the server runs, but no behaviour depends on it.
* `KinematicPlant`, the simulated robot: sequential and on one thread, outside
  the server.
* In `PoseExecution` and `MoveReservation`, what section 2 names.

What is left, for whoever goes on:

1. The other seams between components, which are argued in section 2: `MoveReservation`
   and `MoveAction` each keep an excerpt of the pipeline (its claims; its sessions and
   events) and `PermitProtocol` its generation. A refinement of `CommandPipeline` to these excerpts would
   make theorems of them, as `PipelineOnlyCallsTheArbiter` is for the arbiter.
2. The hazards without a property that `PROJECT.json` lists, with the reason for each.
