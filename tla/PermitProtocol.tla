--------------------------- MODULE PermitProtocol ---------------------------
(***************************************************************************)
(* The execution permission of HumanoidMotionControlNode (src/             *)
(* humanoid_motion_control_node.cpp) when output_permit_topic is set.  A   *)
(* supervisor sends permits, which run out unless they are renewed: plain  *)
(* ones for an epoch, or, while an intervention is on, revoke, grant and   *)
(* off for an ownership key.  The executor thread receives them, and also  *)
(* accepts Moves and Servo targets; the control thread ends a permission   *)
(* that ran out and publishes.                                             *)
(*                                                                         *)
(* The node keeps the permission in atomics and tells the pipeline, which  *)
(* has its own copy under its mutex.  The two threads share the atomics    *)
(* without a lock, so each step below is one access to what they share     *)
(* (or several that no step of the other thread can tell apart).           *)
(*                                                                         *)
(* Left out: the stamps of permits, which only make the node ignore        *)
(* reordered and old ones (what is received here is what passed), and the  *)
(* cutoff of Servo stamps in queue_servo, which only drops more targets.   *)
(* A request is for a channel of the permitted source.                     *)
(***************************************************************************)
EXTENDS Integers, FiniteSets

CONSTANTS
  Epoch,          \* frame ids of plain permits
  Key,            \* ownership keys
  MotionSource,   \* the epochs and keys that permit source "motion", not "vr"
  PermitAge,      \* how long a permit lasts
  MaxTime,        \* bound: the clock stops here
  MaxGeneration,  \* bound: no permit is received beyond this generation
  MaxMoves        \* bound: Moves accepted and not yet submitted

None == "none"

ASSUME PermitAssumption ==
  /\ MotionSource \subseteq Epoch \cup Key
  /\ Epoch \cap Key = {} /\ None \notin Epoch \cup Key
  /\ PermitAge \in Nat /\ MaxTime \in Nat /\ MaxGeneration \in Nat /\ MaxMoves \in Nat

VARIABLES
  clock,
  permit_enabled, permit_generation, permit_received, permit_normal,
  permit_epoch,                           \* of the last plain permit
  ownership_key, ownership_phase, intervention_active,
  ownership_ack,                          \* the key and phase acknowledged
  output_enabled, output_generation,      \* the pipeline's permission
  sessions,                               \* the pipeline's sessions
  requests,                               \* accepted and not yet submitted
  callback,                               \* locals of the executor thread
  cycle                                   \* locals of the control thread

permit == <<permit_enabled, permit_generation, permit_received, permit_normal, permit_epoch>>
ownership == <<ownership_key, ownership_phase, intervention_active, ownership_ack>>
pipeline == <<output_enabled, output_generation, sessions>>
vars == <<clock, permit, ownership, pipeline, requests, callback, cycle>>

Never == -1 - PermitAge
Phase == {"revoke", "grant", "off"}

\* A session, and the request for it: the generation it was accepted under,
\* and the epoch or key that was then in force.
Request == [kind : {"move", "servo"}, generation : Nat, epoch : Epoch \cup Key]

NoCallback == [step |-> "idle", epoch |-> None, what |-> None, generation |-> 0]
NoCycle == [step |-> "idle", generation |-> 0, ownership |-> None, pending |-> {}, batch |-> {}]

Init ==
  /\ clock = 0
  /\ permit_enabled = FALSE /\ permit_generation = 0
  /\ permit_received = Never /\ permit_normal = TRUE /\ permit_epoch = None
  /\ ownership_key = None /\ ownership_phase = None /\ intervention_active = FALSE
  /\ ownership_ack = [key |-> None, phase |-> None]
  /\ output_enabled = FALSE /\ output_generation = 0 /\ sessions = {}
  /\ requests = {} /\ callback = NoCallback /\ cycle = NoCycle

\* Fault: the plain permit's epoch counts during an intervention too.
CurrentEpoch_OfPermits == permit_epoch

\* Whose permission is in force.
CurrentEpoch == IF intervention_active THEN ownership_key ELSE permit_epoch

Stale == clock - permit_received > PermitAge
-----------------------------------------------------------------------------
\* The pipeline (setOutputPermit, and submitMove and updateServo up to their
\* check of the permission).

\* Fault: revoking leaves the sessions as they are.
SetOutputPermit_KeepsSessions(enabled, generation) ==
  /\ output_enabled' = enabled /\ output_generation' = generation
  /\ sessions' = IF generation = output_generation \/ ~enabled THEN sessions ELSE {}

SetOutputPermit(enabled, generation) ==
  /\ output_enabled' = enabled /\ output_generation' = generation
  /\ sessions' = IF enabled /\ generation = output_generation THEN sessions ELSE {}

Admits(r) == output_enabled /\ r.generation = output_generation

Submitted(r) == sessions' = IF Admits(r) THEN sessions \cup {r} ELSE sessions

\* A worker submits its Move at any time after its acceptance.
SubmitMove(r) ==
  /\ r.kind = "move"
  /\ requests' = requests \ {r}
  /\ Submitted(r)
  /\ UNCHANGED <<clock, permit, ownership, output_enabled, output_generation,
                 callback, cycle>>

EndSession(r) ==
  /\ sessions' = sessions \ {r}
  /\ UNCHANGED <<clock, permit, ownership, output_enabled, output_generation,
                 requests, callback, cycle>>
-----------------------------------------------------------------------------
\* The executor thread: acceptance of requests.

SourcePermitted == permit_enabled /\ ~Stale

\* source_permitted for a channel of the permitted source, and the generation
\* that handle_servo takes with it.
CheckSource(kind) ==
  /\ callback.step = "idle" /\ SourcePermitted
  /\ kind = "move" => Cardinality({r \in requests : r.kind = "move"}) < MaxMoves
  /\ callback' = [step |-> "accept", epoch |-> CurrentEpoch, what |-> kind,
                   generation |-> permit_generation]
  /\ UNCHANGED <<clock, permit, ownership, pipeline, requests, cycle>>

\* launch_action takes the generation of now, for the worker.
AcceptMove ==
  /\ callback.step = "accept" /\ callback.what = "move"
  /\ requests' = requests \cup {[kind |-> "move", generation |-> permit_generation,
                                  epoch |-> callback.epoch]}
  /\ callback' = NoCallback
  /\ UNCHANGED <<clock, permit, ownership, pipeline, cycle>>

\* queue_servo asks again; the newest target overwrites the one in the slot.
QueueServo ==
  /\ callback.step = "accept" /\ callback.what = "servo"
  /\ requests' =
       IF SourcePermitted /\ callback.generation = permit_generation
         THEN {r \in requests : r.kind # "servo"} \cup
                {[kind |-> "servo", generation |-> callback.generation, epoch |-> callback.epoch]}
         ELSE requests
  /\ callback' = NoCallback
  /\ UNCHANGED <<clock, permit, ownership, pipeline, cycle>>
-----------------------------------------------------------------------------
\* The executor thread: the callback of the permit topic.

Step(step) == callback' = [callback EXCEPT !.step = step, !.generation = 0]

\* A plain permit; it is ignored while an intervention is on.  A new epoch,
\* or a permit after one that ran out, begins a new permission.
ReceivePermit(e) ==
  LET rearm == permit_epoch # e \/ ~permit_enabled
  IN
  /\ callback.step = "idle" /\ ~intervention_active
  /\ IF rearm
       THEN /\ permit_generation < MaxGeneration
            /\ permit_enabled' = FALSE
            /\ permit_generation' = permit_generation + 1
            /\ callback' = [step |-> "close", epoch |-> e, what |-> "rearm",
                            generation |-> permit_generation']
       ELSE /\ callback' = [NoCallback EXCEPT !.step = "renew", !.epoch = e, !.what = "renew"]
            /\ UNCHANGED <<permit_enabled, permit_generation>>
  /\ UNCHANGED <<clock, permit_received, permit_normal, permit_epoch, ownership,
                 pipeline, requests, cycle>>

\* receive_ownership_permit, under ownership_mutex_.  A grant counts only for
\* the key that was revoked before it.
ReceiveOwnership(k, phase) ==
  LET changed == k # ownership_key \/ phase # ownership_phase
  IN
  /\ callback.step = "idle"
  /\ phase = "grant" => k = ownership_key /\ ownership_phase # "off"
  /\ IF changed
       THEN /\ permit_generation < MaxGeneration
            /\ permit_enabled' = FALSE
            /\ permit_generation' = permit_generation + 1
            /\ ownership_key' = k /\ ownership_phase' = phase
            /\ ownership_ack' = [ownership_ack EXCEPT !.key = None]   \* ownership_ack_key_.clear()
            /\ callback' = [NoCallback EXCEPT !.step = "load_close", !.epoch = k, !.what = phase]
       ELSE UNCHANGED <<permit_enabled, permit_generation, ownership_key,
                        ownership_phase, ownership_ack, callback>>
  /\ intervention_active' = (phase # "off")
  /\ permit_normal' = (k \in MotionSource)
  /\ permit_received' = clock
  /\ UNCHANGED <<clock, permit_epoch, pipeline, requests, cycle>>

LoadGeneration ==
  /\ callback.step \in {"load_close", "load_open"}
  /\ callback' = [callback EXCEPT !.generation = permit_generation,
                    !.step = IF callback.step = "load_close" THEN "close" ELSE "open"]
  /\ UNCHANGED <<clock, permit, ownership, pipeline, requests, cycle>>

CloseOutput ==
  /\ callback.step = "close"
  /\ SetOutputPermit(FALSE, callback.generation)
  /\ Step(IF callback.what = "rearm" THEN "renew" ELSE "clear")
  /\ UNCHANGED <<clock, permit, ownership, requests, cycle>>

\* The rest of a plain permit's atomics.
Renew ==
  /\ callback.step = "renew"
  /\ permit_epoch' = callback.epoch
  /\ permit_normal' = (callback.epoch \in MotionSource)
  /\ permit_received' = clock
  /\ Step(IF callback.what = "rearm" THEN "load_open" ELSE "enable")
  /\ UNCHANGED <<clock, permit_enabled, permit_generation, ownership, pipeline,
                 requests, cycle>>

ClearServos ==
  /\ callback.step = "clear"
  /\ requests' = {r \in requests : r.kind # "servo"}
  /\ Step(IF callback.what = "grant" THEN "load_open" ELSE "ack")
  /\ UNCHANGED <<clock, permit, ownership, pipeline, cycle>>

OpenOutput ==
  /\ callback.step = "open"
  /\ SetOutputPermit(TRUE, callback.generation)
  /\ Step("enable")
  /\ UNCHANGED <<clock, permit, ownership, requests, cycle>>

Enable ==
  /\ callback.step = "enable"
  /\ permit_enabled' = TRUE
  /\ IF callback.what = "grant" THEN Step("ack") ELSE callback' = NoCallback
  /\ UNCHANGED <<clock, permit_generation, permit_received, permit_normal,
                 permit_epoch, ownership, pipeline, requests, cycle>>

Acknowledge ==
  /\ callback.step = "ack"
  /\ ownership_ack' = [key |-> callback.epoch, phase |-> callback.what]
  /\ callback' = NoCallback
  /\ UNCHANGED <<clock, permit, ownership_key, ownership_phase, intervention_active,
                 pipeline, requests, cycle>>
-----------------------------------------------------------------------------
\* The control thread: control_tick.

GoTo(step) == cycle' = [cycle EXCEPT !.step = step]

\* Fault: a permission never runs out.
RunsOut_Never == FALSE

RunsOut == Stale

BeginCycle ==
  /\ cycle.step = "idle"
  /\ GoTo(IF RunsOut THEN "exchange" ELSE "capture")
  /\ UNCHANGED <<clock, permit, ownership, pipeline, requests, callback>>

\* Fault: the node's flag is cleared and the pipeline is not told.
Exchange_TellsNobody ==
  /\ cycle.step = "exchange"
  /\ permit_enabled' = FALSE
  /\ GoTo("capture")
  /\ UNCHANGED <<clock, permit_generation, permit_received, permit_normal,
                 permit_epoch, ownership, pipeline, requests, callback>>

\* permit_enabled_.exchange(false)
Exchange ==
  /\ cycle.step = "exchange"
  /\ permit_enabled' = FALSE
  /\ GoTo(IF permit_enabled THEN "count" ELSE "capture")
  /\ UNCHANGED <<clock, permit_generation, permit_received, permit_normal,
                 permit_epoch, ownership, pipeline, requests, callback>>

CountExpiry ==
  /\ cycle.step = "count"
  /\ permit_generation' = permit_generation + 1
  /\ cycle' = [cycle EXCEPT !.step = "expire", !.generation = permit_generation']
  /\ UNCHANGED <<clock, permit_enabled, permit_received, permit_normal, permit_epoch,
                 ownership, pipeline, requests, callback>>

Expire ==
  /\ cycle.step = "expire"
  /\ SetOutputPermit(FALSE, cycle.generation)
  /\ cycle' = [cycle EXCEPT !.step = "capture", !.generation = 0]
  /\ UNCHANGED <<clock, permit, ownership, requests, callback>>

\* The permission the cycle computes under, taken under ownership_mutex_.
Capture ==
  /\ cycle.step = "capture"
  /\ cycle' = [cycle EXCEPT !.step = "swap", !.generation = permit_generation,
                 !.ownership = ownership_key]
  /\ UNCHANGED <<clock, permit, ownership, pipeline, requests, callback>>

\* pending.swap(latest_servos_)
SwapServos ==
  /\ cycle.step = "swap"
  /\ cycle' = [cycle EXCEPT !.step = "tick", !.pending = {r \in requests : r.kind = "servo"}]
  /\ requests' = requests \ cycle'.pending
  /\ UNCHANGED <<clock, permit, ownership, pipeline, callback>>

UpdateServo(r) ==
  /\ cycle.step = "tick"
  /\ cycle' = [cycle EXCEPT !.pending = @ \ {r}]
  /\ Submitted(r)
  /\ UNCHANGED <<clock, permit, ownership, output_enabled, output_generation,
                 requests, callback>>

\* tick computes an output for each session.
ComputeOutputs ==
  /\ cycle.step = "tick" /\ cycle.pending = {}
  /\ cycle' = [cycle EXCEPT !.step = "publish", !.batch = sessions]
  /\ UNCHANGED <<clock, permit, ownership, pipeline, requests, callback>>

\* Fault: the sink looks at the permission of now, not of the cycle.
MayPublish_Now == permit_enabled /\ ~Stale

\* The sink's own check, under the pipeline's mutex and ownership_mutex_.
MayPublish == permit_enabled /\ cycle.generation = permit_generation /\ ~Stale

\* Outputs of sessions that are gone have lost their permits.
Published == IF cycle.step = "publish" /\ MayPublish THEN cycle.batch \cap sessions ELSE {}

PublishOutputs ==
  /\ cycle.step = "publish"
  /\ cycle' = NoCycle
  /\ UNCHANGED <<clock, permit, ownership, pipeline, requests, callback>>
-----------------------------------------------------------------------------
AdvanceClock ==
  /\ clock < MaxTime
  /\ clock' = clock + 1
  /\ UNCHANGED <<permit, ownership, pipeline, requests, callback, cycle>>

Receive ==
  \/ \E kind \in {"move", "servo"} : CheckSource(kind)
  \/ \E e \in Epoch : ReceivePermit(e)
  \/ \E k \in Key, phase \in Phase : ReceiveOwnership(k, phase)

Callback ==
  \/ AcceptMove \/ QueueServo \/ LoadGeneration \/ CloseOutput \/ Renew \/ ClearServos
  \/ OpenOutput \/ Enable \/ Acknowledge

ControlTick ==
  \/ BeginCycle \/ Exchange \/ CountExpiry \/ Expire \/ Capture \/ SwapServos
  \/ (\E r \in cycle.pending : UpdateServo(r)) \/ ComputeOutputs \/ PublishOutputs

Next ==
  \/ Receive \/ Callback \/ ControlTick
  \/ \E r \in requests : SubmitMove(r)
  \/ \E r \in sessions : EndSession(r)
  \/ AdvanceClock

\* A callback that has begun goes on, and the control timer keeps firing.
Fairness == WF_vars(Callback) /\ WF_vars(ControlTick)

Spec == Init /\ [][Next]_vars /\ Fairness
-----------------------------------------------------------------------------
(* Type invariant. *)
TypeOK ==
  /\ clock \in 0 .. MaxTime
  /\ permit_enabled \in BOOLEAN /\ permit_generation \in Nat
  /\ permit_received \in {Never} \cup 0 .. clock /\ permit_normal \in BOOLEAN
  /\ permit_epoch \in Epoch \cup {None}
  /\ ownership_key \in Key \cup {None} /\ ownership_phase \in Phase \cup {None}
  /\ intervention_active \in BOOLEAN
  /\ ownership_ack \in [key : Key \cup {None}, phase : Phase \cup {None}]
  /\ output_enabled \in BOOLEAN /\ output_generation \in 0 .. permit_generation
  /\ sessions \subseteq Request /\ requests \subseteq Request
  /\ cycle.pending \subseteq Request /\ cycle.batch \subseteq Request

(* What is published was asked for under the epoch or ownership key that   *)
(* is in force when it is published, and is tagged with that key: neither  *)
(* a Move accepted before a change of control nor an output computed       *)
(* before it gets through ("Identity was captured before IK; never re-tag  *)
(* an old result", humanoid_motion_control_node.cpp:1739).                 *)
PublishedUnderItsPermit ==
  \A r \in Published :
    /\ r.epoch = CurrentEpoch
    /\ intervention_active => cycle.ownership = ownership_key

AtRest == callback.step = "idle" /\ cycle.step \notin {"exchange", "count", "expire"}

(* When neither thread is changing the permission, the pipeline runs       *)
(* sessions only if the node has the permission too: however expiry and a  *)
(* new permit interleave, they fail safe.                                  *)
PermissionFailsSafe ==
  AtRest /\ output_enabled => permit_enabled

(* Once a revocation is acknowledged (the supervisor may then drive the    *)
(* robot itself) nothing is left that could move it: no session, no        *)
(* computed output that would pass the sink, and the pipeline is closed;   *)
(* whatever the control thread and the workers were in the middle of.      *)
AcknowledgedRevokeIsComplete ==
  ownership_ack = [key |-> ownership_key, phase |-> "revoke"] =>
    ~output_enabled /\ sessions = {} /\ Published = {}

(* After an expiry a fresh permit lets targets through again (asserted by  *)
(* test_servo_freshness_ros.py:202-208): a node that accepts requests has  *)
(* a pipeline that admits them.                                            *)
FreshPermitRestoresOutput ==
  AtRest /\ SourcePermitted => output_enabled /\ output_generation = permit_generation

(* When permits stop coming, the pipeline is told: within a cycle of the   *)
(* control timer no session is left that could move a joint.               *)
StalePermitEndsOutput ==
  Stale ~> ~output_enabled \/ ~Stale
=============================================================================
