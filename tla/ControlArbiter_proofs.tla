------------------------ MODULE ControlArbiter_proofs ------------------------
EXTENDS ControlArbiter, Arbitration_proofs

-----------------------------------------------------------------------------
(* The inductive invariant: every claim is older, in processing order,     *)
(* than the next one, so no two claims can tie.                            *)
IInv ==
  /\ TypeOK
  /\ ClaimMap(claims)
  /\ \A s \in DOMAIN claims : claims[s].receive_sequence < next_sequence

(* The claim SubmitMove and UpdateServo store.                             *)
NewClaim(e, received_at) ==
  [endpoint |-> e, receive_sequence |-> next_sequence, received_at |-> received_at]

LEMMA NewClaimIsNew ==
  ASSUME IInv, NEW e \in Endpoint, NEW received_at \in Int
  PROVE  /\ NewClaim(e, received_at) \in Claim
         /\ \A s \in DOMAIN claims :
              claims[s].receive_sequence # NewClaim(e, received_at).receive_sequence
  BY DEF IInv, TypeOK, NewClaim, Claim, ClaimMap

(* A call that stores a claim keeps the inductive invariant, whatever      *)
(* claims it removes.                                                      *)
LEMMA StoringKeepsInvariant ==
  ASSUME IInv, NEW s \in Session, NEW e \in Endpoint, NEW received_at \in Int,
         IF s \in MoveId THEN e \in MoveEndpoint ELSE e = s,
         ClaimMap(claims'), DOMAIN claims' \subseteq DOMAIN claims \cup {s},
         \A t \in DOMAIN claims' :
           claims'[t] = IF t = s THEN NewClaim(e, received_at) ELSE claims[t],
         next_sequence' = next_sequence + 1, UNCHANGED <<policies, clock>>
  PROVE  IInv'
<1>1. NewClaim(e, received_at) \in Claim
  BY NewClaimIsNew
<1>2. \A t \in DOMAIN claims' : claims'[t] \in Claim
  BY DEF ClaimMap
<1>3. \A t \in DOMAIN claims' :
        IF t \in MoveId THEN claims'[t].endpoint \notin ServoEndpoint
                        ELSE claims'[t].endpoint = t
  BY DEF IInv, TypeOK, NewClaim, MoveEndpoint
<1>4. \A t \in DOMAIN claims' : claims'[t].receive_sequence < next_sequence + 1
  BY DEF IInv, TypeOK, NewClaim, ClaimMap, Claim
<1>5. DOMAIN claims' \subseteq Session /\ next_sequence' \in Nat
  BY DEF IInv, TypeOK
<1>6. QED BY <1>2, <1>3, <1>4, <1>5 DEF IInv, TypeOK, ClaimMap

LEMMA RemovingKeepsInvariant ==
  ASSUME IInv, NEW S \in SUBSET DOMAIN claims, claims' = Restrict(claims, S),
         UNCHANGED <<policies, next_sequence, clock>>
  PROVE  IInv'
<1>1. ClaimMap(claims)
  BY DEF IInv
<1>2. /\ ClaimMap(claims') /\ DOMAIN claims' = S
      /\ \A s \in S : claims'[s] = claims[s]
  BY <1>1, RestrictClaimMap
<1>3. QED BY <1>2 DEF IInv, TypeOK, ClaimMap

(* What the claims are after SubmitMove and UpdateServo.                   *)
LEMMA SubmitMoveClaims ==
  ASSUME IInv, NEW m \in MoveId, NEW e \in MoveEndpoint, NEW now \in Int,
         SubmitMove(m, e, now)
  PROVE  LET U   == Unexpired(claims, now)
             put == PutClaim(U, m, NewClaim(e, now), now)
         IN  /\ ClaimMap(U) /\ m \notin DOMAIN U
             /\ PutOK(U, m, NewClaim(e, now), put)
             /\ claims' = IF m \in computeWinners(put.claims, now)
                            THEN put.claims ELSE Without(put.claims, {m})
             /\ \A t \in DOMAIN U : U[t].receive_sequence # next_sequence
<1> DEFINE U == Unexpired(claims, now)
<1>1. ClaimMap(U) /\ DOMAIN U \subseteq DOMAIN claims
      /\ \A t \in DOMAIN U : U[t] = claims[t]
  BY UnexpiredClaimMap DEF IInv
<1>2. NewClaim(e, now) \in Claim
  BY NewClaimIsNew DEF MoveEndpoint
<1>3. \A t \in DOMAIN U : U[t].receive_sequence # next_sequence
  BY <1>1, NewClaimIsNew DEF IInv, TypeOK, ClaimMap, Claim
<1>4. PutOK(U, m, NewClaim(e, now), PutClaim(U, m, NewClaim(e, now), now))
  <2> DEFINE c == NewClaim(e, now)
  <2>1. \A t \in DOMAIN U : U[t].receive_sequence # c.receive_sequence
    BY <1>3 DEF NewClaim
  <2> HIDE DEF U, c
  <2>2. PutOK(U, m, c, PutClaim(U, m, c, now))
    BY <1>1, <1>2, <2>1, PutClaimMap DEF c
  <2>3. QED BY <2>2 DEF c
<1>5. QED BY <1>1, <1>3, <1>4 DEF SubmitMove, StoreClaim, submitMove, NewClaim

LEMMA UpdateServoClaims ==
  ASSUME IInv, NEW s \in ServoEndpoint, NEW received_at \in Int, NEW now \in Int,
         UpdateServo(s, received_at, now)
  PROVE  LET U   == Unexpired(claims, now)
             put == PutClaim(U, s, NewClaim(s, received_at), now)
         IN  /\ ClaimMap(U)
             /\ PutOK(U, s, NewClaim(s, received_at), put)
             /\ claims' = put.claims
             /\ \A t \in DOMAIN U : U[t].receive_sequence # next_sequence
<1> DEFINE U == Unexpired(claims, now)
<1>1. ClaimMap(U) /\ DOMAIN U \subseteq DOMAIN claims
      /\ \A t \in DOMAIN U : U[t] = claims[t]
  BY UnexpiredClaimMap DEF IInv
<1>2. NewClaim(s, received_at) \in Claim
  BY NewClaimIsNew, ArbitrationAssumption
<1>3. \A t \in DOMAIN U : U[t].receive_sequence # next_sequence
  BY <1>1 DEF IInv, TypeOK, ClaimMap, Claim
<1>4. PutOK(U, s, NewClaim(s, received_at),
             PutClaim(U, s, NewClaim(s, received_at), now))
  <2> DEFINE c == NewClaim(s, received_at)
  <2>1. \A t \in DOMAIN U : U[t].receive_sequence # c.receive_sequence
    BY <1>3 DEF NewClaim
  <2> HIDE DEF U, c
  <2>2. PutOK(U, s, c, PutClaim(U, s, c, now))
    BY <1>1, <1>2, <2>1, PutClaimMap DEF c
  <2>3. QED BY <2>2 DEF c
<1>5. QED BY <1>1, <1>3, <1>4 DEF UpdateServo, StoreClaim, updateServo, NewClaim

-----------------------------------------------------------------------------
(* Every reachable state satisfies the inductive invariant.                *)
LEMMA InductiveInvariant == Spec => []IInv
<1>1. Init => IInv
  BY FS_EmptySet DEF Init, IInv, TypeOK, ClaimMap
<1>2. IInv /\ [Next]_vars => IInv'
  <2> SUFFICES ASSUME IInv, [Next]_vars PROVE IInv'
    OBVIOUS
  <2>1. CASE \E e \in Endpoint : RegisterEndpoint(e)
    BY <2>1 DEF RegisterEndpoint, IInv, TypeOK, ClaimMap
  <2>2. ASSUME NEW m \in MoveId, NEW e \in MoveEndpoint, NEW now \in Now,
               SubmitMove(m, e, now)
        PROVE  IInv'
    <3>1. now \in Int
      BY DEF Now, Time
    <3> DEFINE U == Unexpired(claims, now)
               put == PutClaim(U, m, NewClaim(e, now), now)
    <3>2. /\ ClaimMap(U) /\ DOMAIN U \subseteq DOMAIN claims
          /\ \A t \in DOMAIN U : U[t] = claims[t]
      BY UnexpiredClaimMap DEF IInv
    <3>3. /\ PutOK(U, m, NewClaim(e, now), put)
          /\ claims' = put.claims \/ claims' = Without(put.claims, {m})
      BY <2>2, <3>1, SubmitMoveClaims
    <3>5. /\ ClaimMap(put.claims)
          /\ DOMAIN put.claims \subseteq DOMAIN U \cup {m}
          /\ m \in DOMAIN put.claims => put.claims[m] = NewClaim(e, now)
          /\ \A t \in DOMAIN put.claims \ {m} : put.claims[t] = U[t]
      <4> HIDE DEF U, put
      <4>1. QED BY <3>3 DEF PutOK
    <3> HIDE DEF U, put
    <3>6. /\ ClaimMap(claims')
          /\ DOMAIN claims' \subseteq DOMAIN put.claims
          /\ \A t \in DOMAIN claims' : claims'[t] = put.claims[t]
      BY <3>3, <3>5, RestrictClaimMap DEF Without
    <3>7. \A t \in DOMAIN claims' :
            claims'[t] = IF t = m THEN NewClaim(e, now) ELSE claims[t]
      BY <3>2, <3>5, <3>6
    <3>8. DOMAIN claims' \subseteq DOMAIN claims \cup {m}
      BY <3>2, <3>5, <3>6
    <3>9. next_sequence' = next_sequence + 1 /\ UNCHANGED <<policies, clock>>
      BY <2>2 DEF SubmitMove, StoreClaim
    <3>10. m \in Session /\ e \in Endpoint
      BY DEF Session, MoveEndpoint
    <3>11. QED BY <3>1, <3>6, <3>7, <3>8, <3>9, <3>10, StoringKeepsInvariant
  <2>3. ASSUME NEW s \in ServoEndpoint, NEW received_at \in Time, NEW now \in Now,
               UpdateServo(s, received_at, now)
        PROVE  IInv'
    <3>1. now \in Int /\ received_at \in Int /\ s \in Endpoint
      BY ArbitrationAssumption DEF Now, Time
    <3> DEFINE U == Unexpired(claims, now)
               c == NewClaim(s, received_at)
               put == PutClaim(U, s, c, now)
    <3>2. /\ ClaimMap(U) /\ DOMAIN U \subseteq DOMAIN claims
          /\ \A t \in DOMAIN U : U[t] = claims[t]
      BY UnexpiredClaimMap DEF IInv
    <3>3. PutOK(U, s, c, put) /\ claims' = put.claims
      BY <2>3, <3>1, UpdateServoClaims
    <3>5. /\ ClaimMap(claims')
          /\ DOMAIN claims' \subseteq DOMAIN U \cup {s}
          /\ s \in DOMAIN claims' => claims'[s] = c
          /\ \A t \in DOMAIN claims' \ {s} : claims'[t] = U[t]
      <4> HIDE DEF U, c, put
      <4>1. QED BY <3>3 DEF PutOK
    <3> HIDE DEF U
    <3>6. \A t \in DOMAIN claims' :
            claims'[t] = IF t = s THEN NewClaim(s, received_at) ELSE claims[t]
      BY <3>2, <3>5
    <3>7. DOMAIN claims' \subseteq DOMAIN claims \cup {s}
      BY <3>2, <3>5
    <3>8. next_sequence' = next_sequence + 1 /\ UNCHANGED <<policies, clock>>
      BY <2>3 DEF UpdateServo, StoreClaim
    <3>9. s \in Session /\ s \notin MoveId
      BY <3>1, ArbitrationAssumption DEF Session
    <3> HIDE DEF c, put
    <3>10. QED BY <3>1, <3>5, <3>6, <3>7, <3>8, <3>9, StoringKeepsInvariant
  <2>4. CASE \E now \in Now : Evaluate(now)
    BY <2>4, RemovingKeepsInvariant DEF Evaluate, Unexpired, Without
  <2>5. CASE \E s \in DOMAIN claims : Release(s)
    BY <2>5, RemovingKeepsInvariant DEF Release, Without
  <2>6. CASE Tick
    BY <2>6 DEF Tick, IInv, TypeOK, ClaimMap
  <2>7. CASE UNCHANGED vars
    BY <2>7 DEF vars, IInv, TypeOK, ClaimMap
  <2>8. QED BY <2>1, <2>2, <2>3, <2>4, <2>5, <2>6, <2>7 DEF Next
<1>3. QED BY <1>1, <1>2, PTL DEF Spec

(* The claim map, the policies and the counters keep their types.          *)
THEOREM TypeCorrect == Spec => []TypeOK
<1>1. IInv => TypeOK
  BY DEF IInv
<1>2. QED BY <1>1, InductiveInvariant, PTL

(* For any endpoints, priorities and leases, sessions that win together    *)
(* have no joint in common, at whatever time the winners are computed.     *)
THEOREM WinnersShareNoJoint == Spec => []WinnersDisjoint
<1>1. IInv => WinnersDisjoint
  <2> SUFFICES ASSUME IInv, NEW now \in Time,
                      NEW s \in computeWinners(claims, now),
                      NEW t \in computeWinners(claims, now), s # t
               PROVE  ~Conflict(claims[s], claims[t])
    BY DEF WinnersDisjoint
  <2> DEFINE U == Unexpired(claims, now)
  <2>1. ClaimMap(U) /\ \A u \in DOMAIN U : U[u] = claims[u]
    BY UnexpiredClaimMap DEF IInv
  <2>2. Winners(U) \subseteq DOMAIN U /\ IsSelection(Winners(U), U)
    BY <2>1, WinnersAreSelected
  <2>3. s \in Winners(U) /\ t \in Winners(U)
    BY DEF computeWinners
  <2> HIDE DEF U
  <2>4. ~Conflict(U[s], U[t])
    BY <2>1, <2>2, <2>3, SelectionDisjoint
  <2>5. QED BY <2>1, <2>2, <2>3, <2>4
<1>2. QED BY <1>1, InductiveInvariant, PTL

(* A Move that is rejected leaves what has not expired.                    *)
LEMMA RejectedMoveClaims ==
  ASSUME IInv, NEW m \in MoveId, NEW e \in MoveEndpoint, NEW now \in Now,
         SubmitMove(m, e, now), m \notin DOMAIN claims'
  PROVE  claims' = Unexpired(claims, now)
<1> DEFINE U == Unexpired(claims, now)
           c == NewClaim(e, now)
           put == PutClaim(U, m, c, now)
           claimed == With(U, m, c)
<1>1. now \in Int /\ e \in Endpoint
  BY DEF Now, Time, MoveEndpoint
<1>2. /\ ClaimMap(U) /\ m \notin DOMAIN U
      /\ claims' = IF m \in computeWinners(put.claims, now)
                     THEN put.claims ELSE Without(put.claims, {m})
      /\ \A t \in DOMAIN U : U[t].receive_sequence # next_sequence
  BY <1>1, SubmitMoveClaims
<1>3. c \in Claim /\ c.receive_sequence = next_sequence /\ ~Expired(c, now)
  BY <1>1, NewClaimIsNew DEF NewClaim, Expired, IsServo, MoveEndpoint
<1>4. NoneExpired(U, now)
  BY <1>1, UnexpiredHasNoneExpired DEF IInv
<1>5. /\ DOMAIN claimed = DOMAIN U \cup {m}
      /\ claimed[m] = c /\ \A t \in DOMAIN U : t # m => claimed[t] = U[t]
  BY DEF With
<1>6. Without(claimed, {m}) = U
  BY <1>2, <1>5 DEF Without, Restrict, ClaimMap
<1> HIDE DEF U, c
<1>7. put = PutClaim(U, m, c, now) /\ claimed = With(U, m, c)
  OBVIOUS
<1> HIDE DEF put, claimed
<1>8. /\ ClaimMap(claimed)
      /\ put.claims = Without(claimed, put.preempted)
      /\ put.preempted = PreemptedMoves(claimed, Winners(U), Winners(claimed))
      /\ computeWinners(put.claims, now) = Winners(claimed)
  <2>1. \A t \in DOMAIN U : U[t].receive_sequence # c.receive_sequence
    BY <1>2, <1>3
  <2>2. QED BY <1>2, <1>3, <1>4, <1>7, <2>1, PutClaimWinners
<1>9. CASE m \in Winners(claimed)
  <2>1. m \in DOMAIN put.claims
    BY <1>5, <1>8, <1>9 DEF Without, Restrict, PreemptedMoves
  <2>2. QED BY <1>1, <1>2, <1>8, <1>9, <2>1
<1>10. CASE m \notin Winners(claimed)
  <2>1. Winners(claimed) \subseteq DOMAIN U
    BY <1>5, <1>8, <1>10, WinnersAreSelected
  <2>2. Winners(Restrict(claimed, DOMAIN U)) = Winners(claimed)
    BY <1>5, <1>8, <2>1, LosersDoNotMatter
  <2>3. Restrict(claimed, DOMAIN U) = U
    BY <1>2, <1>5 DEF Restrict, ClaimMap
  <2>4. put.preempted = {}
    BY <1>8, <2>2, <2>3 DEF PreemptedMoves
  <2>5. put.claims = claimed
    BY <1>8, <2>4 DEF Without, Restrict, ClaimMap
  <2>6. QED BY <1>2, <1>6, <1>8, <1>10, <2>5 DEF U
<1>11. QED BY <1>9, <1>10

(* For any groups and priorities, a Move that is not admitted leaves the   *)
(* claims of all other sessions alone.                                     *)
THEOREM RejectedMovesAreHarmless == Spec => RejectedMoveIsHarmless
<1>1. ASSUME IInv, NEW m \in MoveId, NEW e \in MoveEndpoint, NEW now \in Now,
             SubmitMove(m, e, now), m \notin DOMAIN claims'
      PROVE  claims' = Unexpired(claims, now)
  BY <1>1, RejectedMoveClaims
<1>2. IInv /\ [Next]_vars =>
        [\A m \in MoveId, e \in MoveEndpoint, now \in Now :
           SubmitMove(m, e, now) /\ m \notin DOMAIN claims'
             => claims' = Unexpired(claims, now)]_vars
  BY <1>1
<1>3. QED BY <1>2, InductiveInvariant, PTL DEF Spec, RejectedMoveIsHarmless

-----------------------------------------------------------------------------
(* With nested Servo groups a Move that holds a claim is in control.       *)

(* Claims are held through registered endpoints only.                      *)
Registered(C, P) == \A s \in DOMAIN C : C[s].endpoint \in P

(* The strengthening, for the claims and policies of one state.            *)
Lead == Registered(claims, policies) /\ (NestedServoGroups => MovesLead(claims))

LEMMA ClaimsAreWellKinded ==
  ASSUME IInv, Registered(claims, policies)
  PROVE  WellKinded(claims, policies) /\ ClaimedBefore(claims, next_sequence)
  BY ArbitrationAssumption
     DEF IInv, TypeOK, ClaimMap, Claim, IsServo, MoveEndpoint, Session, Registered,
         WellKinded, ClaimedBefore

LEMMA UnexpiredMovesLead ==
  ASSUME IInv, MovesLead(claims), NEW now
  PROVE  LET U == Unexpired(claims, now)
         IN  /\ ClaimMap(U) /\ MovesLead(U) /\ NoneExpired(U, now)
             /\ DOMAIN U \subseteq DOMAIN claims
             /\ \A t \in DOMAIN U : U[t] = claims[t]
             /\ DOMAIN claims \cap MoveId \subseteq DOMAIN U
<1>1. ClaimMap(claims)
  BY DEF IInv
<1>2. \A t \in DOMAIN claims \cap MoveId : ~IsServo(claims[t])
  BY ArbitrationAssumption DEF IInv, TypeOK, IsServo, MoveEndpoint
<1>3. MovesLead(Unexpired(claims, now))
  BY FewerClaimsStillLead DEF Unexpired, Without
<1>4. DOMAIN claims \cap MoveId \subseteq DOMAIN Unexpired(claims, now)
  BY <1>2 DEF Unexpired, Without, Restrict, Expired
<1>5. /\ ClaimMap(Unexpired(claims, now))
      /\ DOMAIN Unexpired(claims, now) \subseteq DOMAIN claims
      /\ \A t \in DOMAIN Unexpired(claims, now) : Unexpired(claims, now)[t] = claims[t]
  BY <1>1, UnexpiredClaimMap
<1>6. NoneExpired(Unexpired(claims, now), now)
  BY <1>1, UnexpiredHasNoneExpired
<1>7. QED
  BY <1>3, <1>4, <1>5, <1>6

(* No call stores a claim through an endpoint that is not registered.      *)
LEMMA ClaimsStayRegistered ==
  ASSUME IInv, Registered(claims, policies), [Next]_vars
  PROVE  Registered(claims', policies')
<1>1. ASSUME NEW m \in MoveId, NEW e \in MoveEndpoint, NEW now \in Now,
             SubmitMove(m, e, now)
      PROVE  Registered(claims', policies')
  <2>1. /\ e \in policies /\ policies' = policies
        /\ claims' = submitMove(claims, next_sequence, m, e, now).claims
    BY <1>1 DEF SubmitMove, StoreClaim
  <2>2. QED
    BY <2>1 DEF submitMove, PutClaim, Unexpired, With, Without, Restrict, Registered
<1>2. ASSUME NEW s \in ServoEndpoint, NEW received_at \in Time, NEW now \in Now,
             UpdateServo(s, received_at, now)
      PROVE  Registered(claims', policies')
  <2>1. /\ s \in policies /\ policies' = policies
        /\ claims' = updateServo(claims, next_sequence, s, received_at, now).claims
    BY <1>2 DEF UpdateServo, StoreClaim
  <2>2. QED
    BY <2>1 DEF updateServo, PutClaim, Unexpired, With, Without, Restrict, Registered
<1>3. CASE \E now \in Now : Evaluate(now)
  BY <1>3 DEF Evaluate, Unexpired, Without, Restrict, Registered
<1>4. CASE \E s \in DOMAIN claims : Release(s)
  BY <1>4 DEF Release, Without, Restrict, Registered
<1>5. CASE \E e \in Endpoint : RegisterEndpoint(e)
  BY <1>5 DEF RegisterEndpoint, Registered
<1>6. QED
  BY <1>1, <1>2, <1>3, <1>4, <1>5 DEF Next, Tick, vars, Registered

LEMMA LeadHolds == Spec => [](IInv /\ Lead)
<1>1. Init => Lead
  BY DEF Init, MovesLead, Lead, Registered
<1>2. IInv /\ Lead /\ [Next]_vars => Lead'
  <2> SUFFICES ASSUME IInv, Lead, [Next]_vars, NestedServoGroups'
               PROVE  MovesLead(claims')
    BY ClaimsStayRegistered DEF Lead
  <2>a. NestedServoGroups /\ NestedGroups(policies)
    BY DEF NestedServoGroups, NestedGroups, Next, RegisterEndpoint, SubmitMove,
           UpdateServo, StoreClaim, Evaluate, Release, Tick, vars
  <2>b. MovesLead(claims) /\ Registered(claims, policies)
    BY <2>a DEF Lead
  <2>c. WellKinded(claims, policies) /\ ClaimedBefore(claims, next_sequence)
        /\ next_sequence \in Nat
    BY <2>b, ClaimsAreWellKinded DEF IInv, TypeOK
  <2>1. ASSUME NEW m \in MoveId, NEW e \in MoveEndpoint, NEW now \in Now,
               SubmitMove(m, e, now)
        PROVE  MovesLead(claims')
    <3>1. /\ now \in Int /\ e \in policies \cap MoveEndpoint /\ m \notin DOMAIN claims
          /\ claims' = submitMove(claims, next_sequence, m, e, now).claims
      BY <2>1 DEF Now, Time, SubmitMove, StoreClaim
    <3>2. QED BY <2>a, <2>b, <2>c, <3>1, SubmitKeepsMovesLeading
  <2>2. ASSUME NEW s \in ServoEndpoint, NEW received_at \in Time, NEW now \in Now,
               UpdateServo(s, received_at, now)
        PROVE  MovesLead(claims')
    <3>1. /\ now \in Int /\ received_at \in Int /\ s \in ServoEndpoint \cap policies
          /\ now - received_at < Lease[s]
          /\ claims' = updateServo(claims, next_sequence, s, received_at, now).claims
      BY <2>2 DEF Now, Time, UpdateServo, AcceptsServo, StoreClaim
    <3>2. QED BY <2>a, <2>b, <2>c, <3>1, UpdateKeepsMovesLeading
  <2>3. CASE \E now \in Now : Evaluate(now)
    BY <2>b, <2>3, FewerClaimsStillLead DEF Evaluate, Unexpired, Without
  <2>4. CASE \E s \in DOMAIN claims : Release(s)
    BY <2>b, <2>4, FewerClaimsStillLead DEF Release, Without
  <2>5. CASE UNCHANGED claims
    BY <2>b, <2>5
  <2>6. QED
    BY <2>1, <2>2, <2>3, <2>4, <2>5 DEF Next, RegisterEndpoint, Tick, vars
<1>3. QED BY <1>1, <1>2, InductiveInvariant, PTL DEF Spec

(* While the registered Servo endpoints' groups are nested as in the       *)
(* shipped channel configuration, a Move that holds a claim is in control  *)
(* of its joints.                                                          *)
THEOREM NestedMovesNeverWait == Spec => []MovesNeverWait
<1>1. IInv /\ Lead => MovesNeverWait
  <2> SUFFICES ASSUME IInv, MovesLead(claims), NEW now \in Time,
                      NEW m \in DOMAIN claims \cap MoveId
               PROVE  m \in computeWinners(claims, now)
    BY DEF MovesNeverWait, Lead
  <2>1. /\ ClaimMap(Unexpired(claims, now)) /\ MovesLead(Unexpired(claims, now))
        /\ m \in DOMAIN Unexpired(claims, now)
    BY UnexpiredMovesLead
  <2>2. QED BY <2>1, LeadingMovesWin DEF computeWinners
<1>2. QED BY <1>1, LeadHolds, PTL

(* While the registered groups are nested, it does not matter in which     *)
(* order control_tick hands the arbiter the targets of one cycle: the      *)
(* winners are the same.                                                   *)
THEOREM InputOrderDoesNotMatter == Spec => []InputOrderIrrelevant
<1>1. IInv /\ Lead => InputOrderIrrelevant
  <2> SUFFICES ASSUME IInv, Lead, NestedServoGroups,
                      NEW now \in Now, NEW s \in policies \cap ServoEndpoint,
                      NEW t \in policies \cap ServoEndpoint,
                      NEW p \in Time, NEW q \in Time, s # t, p # q,
                      AcceptsServo(claims, s, p, now), AcceptsServo(claims, t, q, now)
               PROVE  computeWinners(
                        updateServo(updateServo(claims, next_sequence, s, p, now).claims,
                                    next_sequence + 1, t, q, now).claims, now)
                      = computeWinners(
                        updateServo(updateServo(claims, next_sequence, t, q, now).claims,
                                    next_sequence + 1, s, p, now).claims, now)
    BY DEF InputOrderIrrelevant
  <2>1. Nested(claims, next_sequence, policies)
    BY ClaimsAreWellKinded DEF Lead, NestedServoGroups, Nested, IInv, TypeOK
  <2>2. InLease(s, p, now, policies) /\ InLease(t, q, now, policies)
    BY DEF InLease, AcceptsServo, Now, Time
  <2>3. QED BY <2>1, <2>2, UpdatesCommute
<1>2. QED BY <1>1, LeadHolds, PTL

(* For any number of claims, what the sort and the loop of computeWinners  *)
(* select is what the other theorems say of the winners.                   *)
THEOREM WinnersAreWhatTheLoopSelects == Spec => []WinnersAreGreedy
<1>1. IInv => WinnersAreGreedy
  <2> SUFFICES ASSUME IInv, NEW now \in Time
               PROVE  computeWinners(claims, now) = GreedyWinners(Unexpired(claims, now))
    BY DEF WinnersAreGreedy
  <2>1. ClaimMap(Unexpired(claims, now))
    BY UnexpiredClaimMap DEF IInv
  <2>2. QED
    BY <2>1, WinnersAreComputed DEF computeWinners
<1>2. QED
  BY <1>1, InductiveInvariant, PTL

(* What the documentation promises, that a Move which has lost control of  *)
(* its joints never resumes, holds of every configuration whose groups are *)
(* nested, as those of the shipped channels are: there no Move loses them  *)
(* and keeps its claim.  The configurations that break the promise, as the *)
(* one of the run does that TLC finds it violated on, are not nested.      *)
THEOREM NestedMovesNeverResume ==
  ASSUME NestedGroups(Endpoint)
  PROVE  Spec => LostMoveNeverResumes
<1>1. IInv /\ Lead => \A m \in DOMAIN claims \cap MoveId : m \in computeWinners(claims, clock)
  <2> SUFFICES ASSUME IInv, Lead, NEW m \in DOMAIN claims \cap MoveId
               PROVE  m \in computeWinners(claims, clock)
    OBVIOUS
  <2>1. policies \subseteq Endpoint
    BY DEF IInv, TypeOK
  <2>2. NestedServoGroups
    BY <2>1 DEF NestedServoGroups, NestedGroups
  <2>3. /\ ClaimMap(Unexpired(claims, clock)) /\ MovesLead(Unexpired(claims, clock))
        /\ m \in DOMAIN Unexpired(claims, clock)
    BY <2>2, UnexpiredMovesLead DEF Lead
  <2>4. QED
    BY <2>3, LeadingMovesWin DEF computeWinners
<1>2. IInv /\ Lead =>
        [\A m \in DOMAIN claims \cap DOMAIN claims' \cap MoveId :
           /\ claims'[m] = claims[m]
           /\ m \notin computeWinners(claims, clock)
           => m \notin computeWinners(claims', clock')]_vars
  BY <1>1
<1>3. QED
  BY <1>2, LeadHolds, PTL DEF LostMoveNeverResumes

-----------------------------------------------------------------------------
(* What holds for all groups, nested or not.                               *)

LEMMA StoringSuspendsNone ==
  ASSUME IInv, NEW now, NEW U, U = Unexpired(claims, now),
         NEW s, NEW c \in Claim, c.receive_sequence = next_sequence, ~Expired(c, now),
         \A t \in DOMAIN U : U[t].receive_sequence # next_sequence,
         NEW put, put = PutClaim(U, s, c, now),
         NEW m \in MoveId \cap DOMAIN put.claims, m # s, m \in computeWinners(claims, now)
  PROVE  m \in computeWinners(put.claims, now)
<1> DEFINE claimed == With(U, s, c)
<1>1. ClaimMap(U) /\ NoneExpired(U, now) /\ \A t \in DOMAIN U : U[t] = claims[t]
  BY UnexpiredClaimMap, UnexpiredHasNoneExpired DEF IInv
<1>2. m \in Winners(U) /\ m \in DOMAIN U
  BY <1>1, WinnersAreSelected DEF computeWinners
<1>3. claimed = With(U, s, c) /\ m \in DOMAIN claimed /\ claimed[m] = U[m]
  BY <1>2 DEF With
<1> HIDE DEF claimed
<1>4. /\ put.claims = Without(claimed, put.preempted)
      /\ put.preempted = PreemptedMoves(claimed, Winners(U), Winners(claimed))
      /\ computeWinners(put.claims, now) = Winners(claimed)
  BY <1>1, <1>3, PutClaimWinners
<1>5. ~IsServo(claimed[m])
  <2>1. DOMAIN U \subseteq DOMAIN claims
    BY DEF Unexpired, Without, Restrict
  <2>2. QED
    BY <1>1, <1>2, <1>3, <2>1 DEF IInv, TypeOK, IsServo
<1>6. m \notin put.preempted
  BY <1>4 DEF Without, Restrict
<1>7. m \in Winners(claimed)
  BY <1>2, <1>3, <1>4, <1>5, <1>6 DEF PreemptedMoves
<1>8. QED
  BY <1>4, <1>7

(* No call that stores a claim suspends a Move: one that was in control    *)
(* when the call began is afterwards in control or gone, and a new one is  *)
(* in control.  What makes a Move wait, where the groups are not nested,   *)
(* is that a Servo expires or a session is released.                       *)
CallsSuspendNoMove ==
  [][\A now \in Now :
       \/ \E m \in MoveId, e \in MoveEndpoint : SubmitMove(m, e, now)
       \/ \E s \in ServoEndpoint, received_at \in Time : UpdateServo(s, received_at, now)
       => \A k \in DOMAIN claims' \cap MoveId :
            k \in computeWinners(claims, now) \/ k \notin DOMAIN claims
              => k \in computeWinners(claims', now)]_vars

THEOREM StoredClaimsSuspendNoMove == Spec => CallsSuspendNoMove
<1>1. ASSUME IInv, NEW now \in Now, NEW m \in MoveId, NEW e \in MoveEndpoint,
             SubmitMove(m, e, now), NEW k \in DOMAIN claims' \cap MoveId,
             k \in computeWinners(claims, now) \/ k \notin DOMAIN claims
      PROVE  k \in computeWinners(claims', now)
  <2> DEFINE U == Unexpired(claims, now)
             c == NewClaim(e, now)
             put == PutClaim(U, m, c, now)
  <2>1. now \in Int /\ e \in Endpoint
    BY DEF Now, Time, MoveEndpoint
  <2>2. /\ ClaimMap(U) /\ m \notin DOMAIN U
        /\ PutOK(U, m, c, put)
        /\ claims' = IF m \in computeWinners(put.claims, now)
                       THEN put.claims ELSE Without(put.claims, {m})
        /\ \A t \in DOMAIN U : U[t].receive_sequence # next_sequence
    BY <1>1, <2>1, SubmitMoveClaims
  <2>3. c \in Claim /\ c.receive_sequence = next_sequence /\ ~Expired(c, now)
    BY <1>1, <2>1, NewClaimIsNew DEF NewClaim, Expired, IsServo, MoveEndpoint
  <2>4. m \notin DOMAIN claims
    BY <1>1 DEF SubmitMove
  <2>5. /\ NoneExpired(U, now) /\ computeWinners(claims, now) = Winners(U)
        /\ DOMAIN U \subseteq DOMAIN claims
    BY <1>1, UnexpiredHasNoneExpired, UnexpiredClaimMap DEF IInv, computeWinners
  <2>6. U = Unexpired(claims, now) /\ put = PutClaim(U, m, c, now)
    OBVIOUS
  <2> HIDE DEF U, c, put
  <2>7. CASE m \notin DOMAIN claims'
    <3>1. claims' = U
      BY <1>1, <2>6, <2>7, RejectedMoveClaims
    <3>2. k \in Winners(U)
      BY <1>1, <2>5, <3>1
    <3>3. QED
      BY <2>2, <2>5, <3>1, <3>2, NoneExpiredUnchanged DEF computeWinners
  <2>8. CASE m \in DOMAIN claims'
    <3>1. claims' = put.claims /\ m \in computeWinners(put.claims, now)
      BY <2>2, <2>8 DEF Without, Restrict
    <3>2. CASE k = m
      BY <3>1, <3>2
    <3>3. CASE k # m
      <4>1. k \in DOMAIN U
        BY <2>2, <3>1, <3>3 DEF PutOK
      <4>2. k \in computeWinners(claims, now)
        BY <1>1, <2>5, <4>1
      <4>3. QED
        BY <1>1, <2>2, <2>3, <2>6, <3>1, <3>3, <4>2, StoringSuspendsNone
    <3>4. QED
      BY <3>2, <3>3
  <2>9. QED
    BY <2>7, <2>8
<1>2. ASSUME IInv, NEW now \in Now, NEW s \in ServoEndpoint, NEW received_at \in Time,
             UpdateServo(s, received_at, now), NEW k \in DOMAIN claims' \cap MoveId,
             k \in computeWinners(claims, now) \/ k \notin DOMAIN claims
      PROVE  k \in computeWinners(claims', now)
  <2> DEFINE U == Unexpired(claims, now)
             c == NewClaim(s, received_at)
             put == PutClaim(U, s, c, now)
  <2>1. /\ now \in Int /\ received_at \in Int /\ s \in Endpoint /\ s \notin MoveId
        /\ now - received_at < Lease[s] /\ Lease[s] \in Int
    BY <1>2, ArbitrationAssumption DEF Now, Time, UpdateServo, AcceptsServo
  <2>2. /\ PutOK(U, s, c, put) /\ claims' = put.claims
        /\ \A t \in DOMAIN U : U[t].receive_sequence # next_sequence
    BY <1>2, <2>1, UpdateServoClaims
  <2>3. c \in Claim /\ c.receive_sequence = next_sequence
    BY <1>2, <2>1, NewClaimIsNew DEF NewClaim
  <2>4. ~Expired(c, now)
    BY <2>1 DEF NewClaim, Expired
  <2>5. DOMAIN U \subseteq DOMAIN claims
    BY <1>2, UnexpiredClaimMap DEF IInv
  <2>6. U = Unexpired(claims, now) /\ put = PutClaim(U, s, c, now)
    OBVIOUS
  <2> HIDE DEF U, c, put
  <2>7. k # s /\ k \in computeWinners(claims, now)
    BY <1>2, <2>1, <2>2, <2>5 DEF PutOK
  <2>8. QED
    BY <1>2, <2>2, <2>3, <2>4, <2>6, <2>7, StoringSuspendsNone
<1>3. IInv /\ [Next]_vars =>
        [\A now \in Now :
           \/ \E m \in MoveId, e \in MoveEndpoint : SubmitMove(m, e, now)
           \/ \E s \in ServoEndpoint, received_at \in Time : UpdateServo(s, received_at, now)
           => \A k \in DOMAIN claims' \cap MoveId :
                k \in computeWinners(claims, now) \/ k \notin DOMAIN claims
                  => k \in computeWinners(claims', now)]_vars
  BY <1>1, <1>2
<1>4. QED
  BY <1>3, InductiveInvariant, PTL DEF CallsSuspendNoMove, Spec
=============================================================================
