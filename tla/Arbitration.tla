----------------------------- MODULE Arbitration -----------------------------
(***************************************************************************)
(* The arbitration rule of ControlArbiter (src/arbitration/                *)
(* control_arbiter.cpp): which sessions control their joints, given the    *)
(* claims the arbiter holds, and what one submitMove or updateServo call   *)
(* does to those claims.                                                   *)
(*                                                                         *)
(* A claim map C is the arbiter's claims_: a function from the ids of the  *)
(* sessions that hold a claim to their claims.  The id of a Servo session  *)
(* is its endpoint ("servo:" + endpoint in the code, one session for each  *)
(* Servo endpoint); Move ids come from the goals.  The priority, the lease *)
(* and the joints that the code copies into a claim are functions of its   *)
(* endpoint, so a claim keeps the endpoint alone.                          *)
(***************************************************************************)
EXTENDS Integers, FiniteSets, Functions

CONSTANTS
  Endpoint,       \* names of the configured command endpoints
  ServoEndpoint,  \* those of kind ServoJ/ServoP; the others are Move endpoints
  MoveId,         \* ids of Move sessions
  Joint,          \* joints of the robot
  Joints,         \* Joints[e]: the joints of the group endpoint e commands
  Priority,       \* Priority[e]: the configured priority of endpoint e
  Lease           \* Lease[s]: how long a target of Servo endpoint s is good for

ASSUME ArbitrationAssumption ==
  /\ ServoEndpoint \subseteq Endpoint
  /\ MoveId \cap Endpoint = {}
  /\ Joints \in [Endpoint -> (SUBSET Joint) \ {{}}]
  /\ Priority \in [Endpoint -> Int]
  /\ Lease \in [ServoEndpoint -> Nat \ {0}]

\* Fault: the kind of a claim's endpoint is not checked.
MoveEndpoint_AnyKind == Endpoint

MoveEndpoint == Endpoint \ ServoEndpoint
Session == MoveId \cup ServoEndpoint

\* ClaimState without the fields its endpoint determines.
Claim == [endpoint : Endpoint, receive_sequence : Nat, received_at : Int]

IsServo(c) == c.endpoint \in ServoEndpoint

\* overlaps: two endpoints command a joint in common.
Overlap(e, f) == Joints[e] \cap Joints[f] # {}
Conflict(c, d) == Overlap(c.endpoint, d.endpoint)

\* Faults: claims that tie are not ordered; the processing order goes first.
Outranks_NoTieBreak(c, d) ==
  \/ Priority[c.endpoint] > Priority[d.endpoint]
  \/ /\ Priority[c.endpoint] = Priority[d.endpoint]
     /\ c.received_at > d.received_at
Outranks_ByArrival(c, d) ==
  \/ Priority[c.endpoint] > Priority[d.endpoint]
  \/ /\ Priority[c.endpoint] = Priority[d.endpoint]
     /\ c.receive_sequence > d.receive_sequence

\* The sort order of computeWinners: higher priority, then newer receipt,
\* then later processing.
Outranks(c, d) ==
  \/ Priority[c.endpoint] > Priority[d.endpoint]
  \/ /\ Priority[c.endpoint] = Priority[d.endpoint]
     /\ c.received_at > d.received_at
  \/ /\ Priority[c.endpoint] = Priority[d.endpoint]
     /\ c.received_at = d.received_at
     /\ c.receive_sequence > d.receive_sequence

Expired(c, now) == IsServo(c) /\ now - c.received_at >= Lease[c.endpoint]

Without(C, S) == Restrict(C, DOMAIN C \ S)
With(C, s, c) == [t \in DOMAIN C \cup {s} |-> IF t = s THEN c ELSE C[t]]

\* removeExpiredServos, and the filter at the head of computeWinners.
Unexpired(C, now) == Without(C, {s \in DOMAIN C : Expired(C[s], now)})

\* The endpoints of P a Servo endpoint of P overlaps overlap each other.  The
\* channels shipped in config/channels.yaml are of this kind: each Servo
\* commands one arm, and a group has all of an arm or none.
NestedGroups(P) ==
  \A s \in P \cap ServoEndpoint, e, f \in P :
    Overlap(s, e) /\ Overlap(s, f) => Overlap(e, f)

\* Fault: a claim loses to one that is not selected itself.
IsSelection_AnyRival(W, C) ==
  W = {s \in DOMAIN C :
         \A t \in DOMAIN C : ~(Conflict(C[t], C[s]) /\ Outranks(C[t], C[s]))}

\* Going down the sort order, the code selects a claim exactly when no claim
\* selected before it conflicts with it.
IsSelection(W, C) ==
  \A s \in DOMAIN C :
    s \in W <=> \A w \in W : ~(Conflict(C[w], C[s]) /\ Outranks(C[w], C[s]))

Winners(C) == CHOOSE W \in SUBSET DOMAIN C : IsSelection(W, C)

computeWinners(C, now) == Winners(Unexpired(C, now))

\* The same as the code computes it: sort the claims, then go down the order
\* and select each that conflicts with none selected before.
SortedClaims(C) ==
  CHOOSE order \in Surjection(1 .. Cardinality(DOMAIN C), DOMAIN C) :
    \A i, k \in DOMAIN order : i < k => Outranks(C[order[i]], C[order[k]])

GreedyWinners(C) ==
  LET n     == Cardinality(DOMAIN C)
      order == SortedClaims(C)
      selected[i \in 0 .. n] ==
        IF i = 0 THEN {}
        ELSE IF \E w \in selected[i - 1] : Conflict(C[w], C[order[i]])
             THEN selected[i - 1]
             ELSE selected[i - 1] \cup {order[i]}
  IN  selected[n]

\* Fault: a Move that loses keeps its claim.
PreemptedMoves_None(C, old_winners, new_winners) == {}

\* removePreemptedMoves: a Move that stops winning is removed for good.
PreemptedMoves(C, old_winners, new_winners) ==
  {s \in old_winners \ new_winners : s \in DOMAIN C /\ ~IsServo(C[s])}

\* Put claim c of session s into C and drop the Moves that lose by it.
PutClaim(C, s, c, now) ==
  LET claimed   == With(C, s, c)
      preempted == PreemptedMoves(claimed, computeWinners(C, now),
                                  computeWinners(claimed, now))
  IN  [claims |-> Without(claimed, preempted), preempted |-> preempted]

\* Fault: rival Moves are cleared away before the new one is admitted.
submitMove_ClearsRivals(C, sequence, m, e, now) ==
  LET unexpired == Unexpired(C, now)
      rivals    == {s \in DOMAIN unexpired : /\ ~IsServo(unexpired[s])
                                             /\ Overlap(unexpired[s].endpoint, e)}
      cleared   == Without(unexpired, rivals)
      claimed   == With(cleared, m, [endpoint |-> e, receive_sequence |-> sequence,
                                     received_at |-> now])
      admitted  == m \in computeWinners(claimed, now)
  IN  [claims    |-> IF admitted THEN claimed ELSE cleared,
       admitted  |-> admitted,
       preempted |-> rivals,
       expired   |-> DOMAIN C \ DOMAIN unexpired]

\* submitMove of session m through endpoint e: a Move that does not win at
\* once is rejected and keeps no claim.
submitMove(C, sequence, m, e, now) ==
  LET unexpired == Unexpired(C, now)
      put       == PutClaim(unexpired, m,
                     [endpoint |-> e, receive_sequence |-> sequence,
                      received_at |-> now], now)
      admitted  == m \in computeWinners(put.claims, now)
  IN  [claims    |-> IF admitted THEN put.claims ELSE Without(put.claims, {m}),
       admitted  |-> admitted,
       preempted |-> put.preempted,
       expired   |-> DOMAIN C \ DOMAIN unexpired]

\* updateServo accepts a target of Servo endpoint s that was received at
\* received_at unless it is future-dated, expired or older than the last one.
AcceptsServo(C, s, received_at, now) ==
  /\ received_at <= now
  /\ now - received_at < Lease[s]
  /\ s \in DOMAIN C => received_at >= C[s].received_at

\* updateServo of an accepted target: a Servo that does not win keeps its
\* claim and may win later.
updateServo(C, sequence, s, received_at, now) ==
  LET unexpired == Unexpired(C, now)
      put       == PutClaim(unexpired, s,
                     [endpoint |-> s, receive_sequence |-> sequence,
                      received_at |-> received_at], now)
  IN  [claims    |-> put.claims,
       admitted  |-> s \in computeWinners(put.claims, now),
       preempted |-> put.preempted,
       expired   |-> DOMAIN C \ DOMAIN unexpired]
=============================================================================
