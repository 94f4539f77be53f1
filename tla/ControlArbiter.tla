--------------------------- MODULE ControlArbiter ---------------------------
(***************************************************************************)
(* ControlArbiter as a component: the policies and claims it holds and the *)
(* five calls that change them.  Every call is atomic (the arbiter has no  *)
(* lock; its owner, CommandPipeline, calls it under its mutex).            *)
(*                                                                         *)
(* A caller reads the steady clock before it takes that mutex, so calls    *)
(* reach the arbiter with times up to MaxSkew old, in any order.           *)
(***************************************************************************)
EXTENDS Arbitration

CONSTANTS
  MaxTime,      \* bound: the clock stops here
  MaxSequence,  \* bound: calls that store a claim
  MaxSkew       \* bound: how old a caller's reading of the clock may be

ASSUME BoundAssumption ==
  MaxTime \in Nat /\ MaxSequence \in Nat /\ MaxSkew \in Nat

VARIABLES
  policies,       \* the endpoints registered so far
  claims,         \* the claim map
  next_sequence,  \* the sequence number of the next stored claim
  clock           \* the steady clock

vars == <<policies, claims, next_sequence, clock>>

Time == 0 .. MaxTime
Now == {t \in Time : clock - MaxSkew <= t /\ t <= clock}

Init ==
  /\ policies = {}
  /\ claims = <<>>
  /\ next_sequence = 1
  /\ clock = 0

RegisterEndpoint(e) ==
  /\ e \notin policies
  /\ policies' = policies \cup {e}
  /\ UNCHANGED <<claims, next_sequence, clock>>

StoreClaim(result) ==
  /\ claims' = result.claims
  /\ next_sequence' = next_sequence + 1
  /\ UNCHANGED <<policies, clock>>

SubmitMove(m, e, now) ==
  /\ e \in policies \cap MoveEndpoint
  /\ m \notin DOMAIN claims
  /\ next_sequence <= MaxSequence
  /\ StoreClaim(submitMove(claims, next_sequence, m, e, now))

UpdateServo(s, received_at, now) ==
  /\ s \in policies \cap ServoEndpoint
  /\ AcceptsServo(claims, s, received_at, now)
  /\ next_sequence <= MaxSequence
  /\ StoreClaim(updateServo(claims, next_sequence, s, received_at, now))

\* evaluate drops the expired Servos and reports the winners; it preempts
\* nothing.
Evaluate(now) ==
  /\ claims' = Unexpired(claims, now)
  /\ UNCHANGED <<policies, next_sequence, clock>>

Release(s) ==
  /\ claims' = Without(claims, {s})
  /\ UNCHANGED <<policies, next_sequence, clock>>

Tick ==
  /\ clock < MaxTime
  /\ clock' = clock + 1
  /\ UNCHANGED <<policies, claims, next_sequence>>

Next ==
  \/ \E e \in Endpoint : RegisterEndpoint(e)
  \/ \E m \in MoveId, e \in MoveEndpoint, now \in Now : SubmitMove(m, e, now)
  \/ \E s \in ServoEndpoint, received_at \in Time, now \in Now :
        UpdateServo(s, received_at, now)
  \/ \E now \in Now : Evaluate(now)
  \/ \E s \in DOMAIN claims : Release(s)
  \/ Tick

Spec == Init /\ [][Next]_vars
-----------------------------------------------------------------------------
(* Type invariant. *)
TypeOK ==
  /\ policies \subseteq Endpoint
  /\ DOMAIN claims \subseteq Session
  /\ claims \in [DOMAIN claims -> Claim]
  /\ \A s \in DOMAIN claims :
       IF s \in MoveId THEN claims[s].endpoint \notin ServoEndpoint
                       ELSE claims[s].endpoint = s
  /\ next_sequence \in Nat
  /\ clock \in Nat

(* Two sessions that win together never share a joint, at whatever time    *)
(* computeWinners is asked.  This is what lets CommandPipeline::tick drive *)
(* all winners in one cycle; it rests on receive_sequence breaking every   *)
(* tie of priority and receipt time.                                       *)
WinnersDisjoint ==
  \A now \in Time : \A s, t \in computeWinners(claims, now) :
    s # t => ~Conflict(claims[s], claims[t])

(* Winners, characterised by the set it returns, is what the sort and the  *)
(* loop of computeWinners compute.                                         *)
WinnersAreGreedy ==
  \A now \in Time :
    computeWinners(claims, now) = GreedyWinners(Unexpired(claims, now))

(* The registered endpoints are nested.                                    *)
NestedServoGroups == NestedGroups(policies)

(* While the registered groups are nested, a Move that holds a claim is in *)
(* control of its joints: Moves are never queued behind another session.   *)
(* A Move is admitted only if it wins, and one that stops winning is to be *)
(* preempted, never to resume (test_control_arbiter.cpp,                   *)
(* HighPriorityPreemptsMoveAndMoveNeverReturns and                         *)
(* LowPriorityMoveIsRejectedWithoutQueueing).                              *)
MovesNeverWait ==
  NestedServoGroups =>
    \A now \in Time : \A m \in DOMAIN claims \cap MoveId :
      m \in computeWinners(claims, now)

(* A Move that has lost control of its joints does not get it back while   *)
(* it holds its claim ("Move was preempted and will not resume",           *)
(* command_pipeline.cpp:746; docs/hc-baseline-audit.md:14).                *)
LostMoveNeverResumes ==
  [][\A m \in DOMAIN claims \cap DOMAIN claims' \cap MoveId :
       /\ claims'[m] = claims[m]
       /\ m \notin computeWinners(claims, clock)
       => m \notin computeWinners(claims', clock')]_vars

(* A submitMove that is rejected leaves every other session as it was: it  *)
(* preempts no Move and disturbs no live Servo.                            *)
RejectedMoveIsHarmless ==
  [][\A m \in MoveId, e \in MoveEndpoint, now \in Now :
       SubmitMove(m, e, now) /\ m \notin DOMAIN claims'
         => claims' = Unexpired(claims, now)]_vars

(* While the registered groups are nested, the targets that one control    *)
(* cycle consumes together give the same control whatever order the cycle  *)
(* takes them in: only their receipt times and priorities count (the       *)
(* pending targets are a map ordered by endpoint name, control_tick).      *)
InputOrderIrrelevant ==
  NestedServoGroups =>
    \A now \in Now, s, t \in policies \cap ServoEndpoint, p, q \in Time :
      /\ s # t /\ p # q
      /\ AcceptsServo(claims, s, p, now) /\ AcceptsServo(claims, t, q, now)
      => LET Update(C, n, u, at) == updateServo(C, n, u, at, now).claims
             n  == next_sequence
             st == Update(Update(claims, n, s, p), n + 1, t, q)
             ts == Update(Update(claims, n, t, q), n + 1, s, p)
         IN  computeWinners(st, now) = computeWinners(ts, now)
=============================================================================
