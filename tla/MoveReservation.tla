--------------------------- MODULE MoveReservation ---------------------------
(***************************************************************************)
(* How HumanoidMotionControlNode (src/humanoid_motion_control_node.cpp)    *)
(* hands joints from Servos to a Move and back when the public joint       *)
(* mapping is on.  The executor thread runs the Servo subscriptions        *)
(* (queue_servo) and accepts Moves (reserve_move); a worker thread per     *)
(* Move submits it and releases its joints (release_move); the control     *)
(* thread takes the queued targets and gives them to the pipeline          *)
(* (control_tick).  They share latest_servos_, move_owners_ and            *)
(* servo_cutoffs_ under servo_input_mutex_, and the pipeline under its own *)
(* mutex; of the pipeline, the claims of its arbiter are kept.             *)
(*                                                                         *)
(* Whoever sends Servo targets stamps them with the ROS clock, which may   *)
(* be set back; on the way they may be delayed, overtaken and repeated.    *)
(***************************************************************************)
EXTENDS Arbitration, InputTimestamp, FiniteSets

CONSTANTS
  InputMaxAge,      \* input_stamp_max_age_s_
  FutureTolerance,  \* input_stamp_future_tolerance_s_
  MaxSetBacks,      \* bound: times that the ROS clock is set back
  MaxTime,          \* bound: the clock stops here
  MaxSequence       \* bound: calls that store a claim

ASSUME ReservationBounds ==
  /\ InputMaxAge \in Nat \ {0} /\ FutureTolerance \in Nat
  /\ MaxSetBacks \in Nat /\ MaxTime \in Nat /\ MaxSequence \in Nat

VARIABLES
  clock,             \* the steady clock
  ros_now,           \* the ROS clock
  latest_servos,     \* Servo endpoint -> its queued target: the packet it came
                     \* in, and fresh_at
  servo_timestamps,  \* Servo endpoint -> its tracker
  move_owners,       \* joint -> the Move that has reserved it
  servo_cutoffs,     \* joint -> Servo targets stamped later only
  reserving,         \* Servo endpoints reserve_move has still to silence
  pending,           \* control_tick's local: the targets it has taken
  claims,            \* the pipeline's arbiter
  next_sequence,
  workers,           \* Move -> its endpoint, and how far its worker is:
                     \* "reserved" joints, "running" or has "submitted"
  readings,          \* history: what both clocks have shown together
  set_backs,         \* history: steady times at which ros_now was set back
  newest             \* history: Servo endpoint -> when the newest target
                     \* accepted since the last of set_backs was sent

history == <<readings, set_backs, newest>>
queue == <<latest_servos, servo_timestamps>>
arbiter == <<claims, next_sequence>>
clocks == <<clock, ros_now>>
vars == <<clocks, queue, move_owners, servo_cutoffs, reserving, pending, arbiter,
          workers, history>>

Time == 0 .. MaxTime

\* A target that was sent, for any Servo: when, and its stamp.
Packet == [sent_at : Time, stamp : Time]
Unheard == -1

Init ==
  /\ clock = 0 /\ ros_now = 0
  /\ latest_servos = <<>> /\ servo_timestamps = [s \in ServoEndpoint |-> FreshTracker]
  /\ move_owners = <<>> /\ servo_cutoffs = [j \in Joint |-> 0]
  /\ reserving = {} /\ pending = <<>>
  /\ claims = <<>> /\ next_sequence = 1
  /\ workers = <<>>
  /\ readings = {[sent_at |-> 0, stamp |-> 0]} /\ set_backs = {}
  /\ newest = [s \in ServoEndpoint |-> Unheard]

\* reserve_move holds servo_input_mutex_ while it silences Servos.
InputMutexFree == reserving = {}

Owned(e) == Joints[e] \cap DOMAIN move_owners # {}

\* Fault: targets are queued for reserved joints.
MayQueue_WhenOwned(s, stamp) == \A j \in Joints[s] : stamp > servo_cutoffs[j]

MayQueue(s, stamp) == ~Owned(s) /\ \A j \in Joints[s] : stamp > servo_cutoffs[j]

\* validate_stamp, which both Servo handlers call first.
ValidateStamp(stamp) ==
  ros_now - stamp <= InputMaxAge /\ stamp - ros_now <= FutureTolerance

MaxAge(s) == IF InputMaxAge < Lease[s] THEN InputMaxAge ELSE Lease[s]

\* handle_servo_j or handle_servo_p and queue_servo: the tracker is asked only
\* about targets that may be queued, and each one that it accepts replaces the
\* one in the queue.
QueueServo(s, packet) ==
  LET tracker  == servo_timestamps[s]
      accepted == Accepts(tracker, packet.stamp, ros_now, MaxAge(s),
                          FutureTolerance, FALSE)
      target   == [packet   |-> packet,
                   fresh_at |-> FreshAt(packet.stamp, ros_now, clock)]
  IN
  /\ InputMutexFree
  /\ ValidateStamp(packet.stamp)
  /\ MayQueue(s, packet.stamp)
  /\ servo_timestamps' = [servo_timestamps EXCEPT
                             ![s] = After(tracker, packet.stamp, ros_now, accepted)]
  /\ IF accepted
       THEN /\ latest_servos' = With(latest_servos, s, target)
            /\ newest' = [newest EXCEPT
                 ![s] = IF packet.sent_at > @ THEN packet.sent_at ELSE @]
       ELSE UNCHANGED <<latest_servos, newest>>
  /\ UNCHANGED <<clocks, move_owners, servo_cutoffs, reserving, pending, arbiter,
                 workers, readings, set_backs>>

\* Fault: a Move takes joints another Move has reserved.
MayReserve_Any(e) == TRUE

MayReserve(e) == ~Owned(e)

\* reserve_move, to the point where the joints are marked.  One callback accepts
\* goals at a time, and launches a goal before it takes the next.
ReserveMove(m, e) ==
  /\ InputMutexFree /\ \A n \in DOMAIN workers : workers[n].stage # "reserved"
  /\ m \notin DOMAIN workers /\ MayReserve(e)
  /\ workers' = With(workers, m, [endpoint |-> e, stage |-> "reserved"])
  /\ move_owners' = [j \in DOMAIN move_owners \cup Joints[e] |->
                       IF j \in Joints[e] THEN m ELSE move_owners[j]]
  /\ reserving' = {s \in ServoEndpoint : Joints[s] \cap DOMAIN move_owners' # {}}
  /\ UNCHANGED <<clocks, history, queue, servo_cutoffs, pending, arbiter>>

\* Its loop over the Servo channels of reserved joints: forget the queued
\* target, cancel the session.
SilenceServo(s) ==
  /\ s \in reserving
  /\ reserving' = reserving \ {s}
  /\ latest_servos' = Without(latest_servos, {s})
  /\ claims' = Without(claims, {s})
  /\ UNCHANGED <<clocks, history, servo_timestamps, move_owners, servo_cutoffs, pending,
                 next_sequence, workers>>

\* The worker is launched when reserve_move has returned.
StartWorker(m) ==
  /\ InputMutexFree
  /\ m \in DOMAIN workers /\ workers[m].stage = "reserved"
  /\ workers' = [workers EXCEPT ![m].stage = "running"]
  /\ UNCHANGED <<clocks, history, queue, move_owners, servo_cutoffs, reserving, pending,
                 arbiter>>

\* It submits its Move once, and does not need the mutex for it.
SubmitMove(m) ==
  LET result == submitMove(claims, next_sequence, m, workers[m].endpoint, clock)
  IN
  /\ m \in DOMAIN workers /\ workers[m].stage = "running"
  /\ next_sequence <= MaxSequence
  /\ claims' = result.claims /\ next_sequence' = next_sequence + 1
  /\ workers' = [workers EXCEPT ![m].stage = "submitted"]
  /\ UNCHANGED <<clocks, history, queue, move_owners, servo_cutoffs, reserving, pending>>

\* The Move's session ends: it succeeds, fails or is canceled.
EndMove(m) ==
  /\ m \in DOMAIN claims \cap MoveId
  /\ claims' = Without(claims, {m})
  /\ UNCHANGED <<clocks, history, queue, move_owners, servo_cutoffs, reserving, pending,
                 next_sequence, workers>>

\* Fault: targets of the same moment are cut off too late to be told apart.
CutoffsAfter_Next(m) == [j \in Joint |->
  IF j \in DOMAIN move_owners /\ move_owners[j] = m THEN ros_now + 1 ELSE servo_cutoffs[j]]

CutoffsAfter(m) == [j \in Joint |->
  IF j \in DOMAIN move_owners /\ move_owners[j] = m THEN ros_now ELSE servo_cutoffs[j]]

\* release_move, the last thing a worker does.
ReleaseMove(m) ==
  /\ InputMutexFree
  /\ m \in DOMAIN workers \ DOMAIN claims /\ workers[m].stage # "reserved"
  /\ servo_cutoffs' = CutoffsAfter(m)
  /\ move_owners' = Restrict(move_owners, {j \in DOMAIN move_owners : move_owners[j] # m})
  /\ workers' = Without(workers, {m})
  /\ UNCHANGED <<clocks, history, queue, reserving, pending, arbiter>>

\* control_tick swaps the queue into its local.
TakePending ==
  /\ InputMutexFree /\ pending = <<>>
  /\ pending' = latest_servos
  /\ latest_servos' = <<>>
  /\ UNCHANGED <<clocks, history, servo_timestamps, move_owners, servo_cutoffs, reserving,
                 arbiter, workers>>

\* It hands a target to updateServo, which turns it away if it is too old.
ConsumePending(s) ==
  /\ s \in DOMAIN pending
  /\ pending' = Without(pending, {s})
  /\ IF AcceptsServo(claims, s, pending[s].fresh_at, clock)
       THEN /\ next_sequence <= MaxSequence
            /\ claims' = updateServo(claims, next_sequence, s, pending[s].fresh_at, clock).claims
            /\ next_sequence' = next_sequence + 1
       ELSE UNCHANGED arbiter
  /\ UNCHANGED <<clocks, history, queue, move_owners, servo_cutoffs, reserving, workers>>

\* tick lets go of expired Servos.
EvaluateClaims ==
  /\ pending = <<>>
  /\ claims' = Unexpired(claims, clock)
  /\ UNCHANGED <<clocks, history, queue, move_owners, servo_cutoffs, reserving, pending,
                 next_sequence, workers>>

Reads(t, stamp) == readings' = readings \cup {[sent_at |-> t, stamp |-> stamp]}

AdvanceClock ==
  /\ clock < MaxTime
  /\ clock' = clock + 1 /\ ros_now' = ros_now + 1
  /\ Reads(clock + 1, ros_now + 1)
  /\ UNCHANGED <<queue, move_owners, servo_cutoffs, reserving, pending, arbiter,
                 workers, set_backs, newest>>

\* The ROS clock is set back, or simulation time starts over.
SetRosClock(t) ==
  /\ t < ros_now /\ Cardinality(set_backs) < MaxSetBacks
  /\ ros_now' = t
  /\ Reads(clock, t)
  /\ set_backs' = set_backs \cup {clock}
  /\ newest' = [s \in ServoEndpoint |-> Unheard]
  /\ UNCHANGED <<clock, queue, move_owners, servo_cutoffs, reserving, pending,
                 arbiter, workers>>

Next ==
  \/ \E s \in ServoEndpoint, packet \in readings : QueueServo(s, packet)
  \/ \E m \in MoveId, e \in MoveEndpoint : ReserveMove(m, e)
  \/ \E s \in ServoEndpoint : SilenceServo(s) \/ ConsumePending(s)
  \/ \E m \in MoveId : StartWorker(m) \/ SubmitMove(m) \/ EndMove(m) \/ ReleaseMove(m)
  \/ TakePending
  \/ EvaluateClaims
  \/ AdvanceClock
  \/ \E t \in Time : SetRosClock(t)

Spec == Init /\ [][Next]_vars
-----------------------------------------------------------------------------
(* Type invariant. *)
TypeOK ==
  /\ clock \in Time /\ ros_now \in Time
  /\ DOMAIN latest_servos \subseteq ServoEndpoint
  /\ latest_servos \in [DOMAIN latest_servos -> [packet : Packet, fresh_at : Time]]
  /\ servo_timestamps \in [ServoEndpoint -> Tracker]
  /\ DOMAIN move_owners \subseteq Joint
  /\ move_owners \in [DOMAIN move_owners -> MoveId]
  /\ servo_cutoffs \in [Joint -> Time]
  /\ reserving \subseteq ServoEndpoint
  /\ DOMAIN pending \subseteq ServoEndpoint
  /\ pending \in [DOMAIN pending -> [packet : Packet, fresh_at : Time]]
  /\ DOMAIN claims \subseteq Session /\ claims \in [DOMAIN claims -> Claim]
  /\ DOMAIN workers \subseteq MoveId
  /\ workers \in [DOMAIN workers -> [endpoint : MoveEndpoint,
                                     stage : {"reserved", "running", "submitted"}]]

(* A Move that holds a claim has reserved every joint it commands, so no   *)
(* two Moves ever compete in the arbiter.                                  *)
MovesAreReserved ==
  \A m \in DOMAIN claims \cap MoveId : \A j \in Joints[claims[m].endpoint] :
    j \in DOMAIN move_owners /\ move_owners[j] = m

(* A queued Servo target is for joints that no Move has reserved and was   *)
(* stamped after the last Move on them ended (queue_servo; the one being   *)
(* silenced by a reserve_move in progress excepted).                       *)
QueuedTargetsFollowMoves ==
  \A s \in DOMAIN latest_servos \ reserving :
    ~Owned(s) /\ \A j \in Joints[s] : latest_servos[s].packet.stamp > servo_cutoffs[j]

(* Unless the ROS clock was set back after it was sent, a queued target is *)
(* the newest that its topic has let through, whatever was repeated or     *)
(* overtaken on the way, and its lease runs from when it was sent          *)
(* ("Replayed packets cannot renew a lease", input_timestamp.hpp:15).      *)
QueuedTargetsKeepTheirAge ==
  \A s \in DOMAIN latest_servos :
    LET target == latest_servos[s] IN
    \/ \E t \in set_backs : target.packet.sent_at <= t
    \/ /\ target.packet.sent_at >= newest[s]
       /\ target.fresh_at <= target.packet.sent_at

(* Nothing a Servo was told before a Move took its joints moves them after *)
(* that Move has released them ("a short or canceled Move cannot expose an *)
(* earlier still-live Servo lease", humanoid_motion_control_node.cpp:1023).*)
(* Where the ROS clock is never set, it is the steady clock.               *)
EarlierLeaseNotExposed ==
  set_backs = {} => \A s \in computeWinners(claims, clock) \cap ServoEndpoint :
    \A j \in Joints[s] : claims[s].received_at > servo_cutoffs[j]
=============================================================================
