----------------------- MODULE CommandPipeline_proofs -----------------------
(***************************************************************************)
(* Proofs about CommandPipeline, in layers: types, claims and sessions;    *)
(* what the backend runs; events; permits; and the implementation of       *)
(* JointOutput.  Each layer is an inductive invariant that uses the ones   *)
(* before it.                                                              *)
(***************************************************************************)
EXTENDS CommandPipeline, Arbitration_proofs

-----------------------------------------------------------------------------
(* Types, claims and sessions.                                             *)

SessionRecord ==
  [endpoint : Endpoint, submitted_at : Time, backend_started : BOOLEAN]
CommandRecord ==
  [session : Session, token : Nat, joints : SUBSET Joint, valid_until : Int]
TickRecord ==
  [phase : {"idle", "select", "compute", "publish"},
   now : Time, started_at : Time, feedback : Time, sequence : Nat,
   todo : SUBSET Session, commands : SUBSET CommandRecord,
   events : SUBSET (MoveId \X MoveEnd)]

(* A Move's claim is made through a Move endpoint, a Servo's through its   *)
(* own.                                                                    *)
RightEndpoint(s, e) == IF s \in MoveId THEN e \in MoveEndpoint ELSE e = s

ClaimsOK ==
  /\ next_sequence \in Nat
  /\ ClaimedBefore(claims, next_sequence)
  /\ DOMAIN claims \subseteq Session
  /\ \A s \in DOMAIN claims : RightEndpoint(s, claims[s].endpoint)

SessionsOK ==
  /\ SessionsHoldClaims
  /\ sessions \in [DOMAIN sessions -> SessionRecord]
  /\ DOMAIN sessions \cap MoveId \subseteq admitted

TickOK ==
  /\ tick \in TickRecord
  /\ tick.todo \subseteq DOMAIN sessions
  /\ LockFree => tick.todo = {}
  /\ tick.phase = "idle" => tick = Idle

PermitsOK ==
  /\ DOMAIN publication_permits \subseteq Joint
  /\ publication_permits \in [DOMAIN publication_permits -> Permit]
  /\ next_publication_token \in Nat

RestOK ==
  /\ clock \in Time /\ output_enabled \in BOOLEAN /\ output_generation \in Nat
  /\ DOMAIN servo_retry_after \subseteq ServoEndpoint
  /\ pending_events \subseteq MoveId \X MoveEnd
  /\ last_tick_time \in Time \cup {Never}
  /\ admitted \subseteq MoveId /\ delivered \subseteq MoveId \X MoveEnd

Core == ClaimsOK /\ SessionsOK /\ TickOK /\ PermitsOK /\ RestOK

LEMMA CoreHasTypes == Core => TypeOK
<1> SUFFICES ASSUME Core PROVE TypeOK
  OBVIOUS
<1>1. claims \in [DOMAIN claims -> Claim] /\ DOMAIN claims \subseteq Session
  BY DEF Core, ClaimsOK, ClaimedBefore, ClaimMap
<1>2. DOMAIN sessions \subseteq Session
  BY <1>1 DEF Core, SessionsOK, SessionsHoldClaims
<1>3. /\ tick.phase \in {"idle", "select", "compute", "publish"}
      /\ tick.todo \subseteq Session /\ tick.events \subseteq MoveId \X MoveEnd
  BY DEF Core, TickOK, TickRecord
<1>4. QED
  BY <1>1, <1>2, <1>3
     DEF TypeOK, Core, ClaimsOK, SessionsOK, PermitsOK, RestOK, SessionRecord

(* Now is a set of times.                                                  *)
LEMMA TimesAreIntegers ==
  /\ Time \subseteq Int /\ Time \subseteq Nat /\ Now \subseteq Time /\ Never \in Int
  /\ Never \notin Time
  BY PipelineAssumption DEF Time, Now, Never

LEMMA EndpointsOfSessions ==
  ASSUME NEW s \in Session, NEW e, RightEndpoint(s, e)
  PROVE  e \in Endpoint /\ (e \in ServoEndpoint <=> s \notin MoveId)
  BY ArbitrationAssumption DEF Session, RightEndpoint, MoveEndpoint

LEMMA ServosHaveServoClaims ==
  ASSUME ClaimsOK, NEW s \in DOMAIN claims
  PROVE  IsServo(claims[s]) <=> s \notin MoveId
  BY EndpointsOfSessions DEF ClaimsOK, IsServo

(* Claims and sessions are given up together.                              *)
LEMMA EndingKeepsClaims ==
  ASSUME ClaimsOK, NEW S, claims' = Without(claims, S), next_sequence' = next_sequence
  PROVE  /\ ClaimsOK'
         /\ DOMAIN claims' = DOMAIN claims \ S
         /\ \A s \in DOMAIN claims' : claims'[s] = claims[s]
<1>1. claims' = Restrict(claims, DOMAIN claims \ S)
  BY DEF Without
<1>2. /\ ClaimMap(claims') /\ DOMAIN claims' = DOMAIN claims \ S
      /\ \A s \in DOMAIN claims' : claims'[s] = claims[s]
  BY <1>1, RestrictClaimMap DEF ClaimsOK, ClaimedBefore
<1>3. QED BY <1>2 DEF ClaimsOK, ClaimedBefore, ClaimMap

LEMMA EndingKeepsSessions ==
  ASSUME ClaimsOK, SessionsOK, NEW S, EndSessions(S), next_sequence' = next_sequence,
         admitted' = admitted
  PROVE  /\ ClaimsOK' /\ SessionsOK'
         /\ DOMAIN sessions' = DOMAIN sessions \ S
         /\ \A s \in DOMAIN sessions' : sessions'[s] = sessions[s]
         /\ active_backend_sessions' = active_backend_sessions \ S
<1>1. /\ ClaimsOK' /\ DOMAIN claims' = DOMAIN claims \ S
      /\ \A s \in DOMAIN claims' : claims'[s] = claims[s]
  BY EndingKeepsClaims DEF EndSessions
<1>2. /\ DOMAIN sessions' = DOMAIN sessions \ S
      /\ \A s \in DOMAIN sessions' : sessions'[s] = sessions[s]
      /\ sessions' \in [DOMAIN sessions' -> SessionRecord]
  BY DEF EndSessions, Without, Restrict, SessionsOK
<1>3. active_backend_sessions' = active_backend_sessions \ S
  BY DEF EndSessions
<1>4. QED BY <1>1, <1>2, <1>3 DEF SessionsOK, SessionsHoldClaims

(* A call stores the claim of one session and ends those it preempts and   *)
(* those that have expired.                                                *)
LEMMA StoringKeepsClaims ==
  ASSUME ClaimsOK, NEW s \in Session, NEW c \in Claim, RightEndpoint(s, c.endpoint),
         c.receive_sequence = next_sequence, NEW now, NEW result, NEW stored \in SUBSET {s},
         ResultOK(claims, s, c, now, result, stored),
         claims' = result.claims, next_sequence' = next_sequence + 1
  PROVE  ClaimsOK'
<1>1. DOMAIN claims' \subseteq DOMAIN claims \cup {s}
  BY DEF ResultOK
<1>2. \A t \in DOMAIN claims' : claims'[t] = IF t = s THEN c ELSE claims[t]
  BY DEF ResultOK
<1>3. ClaimMap(claims')
  BY DEF ResultOK
<1>4. \A t \in DOMAIN claims' : claims'[t].receive_sequence < next_sequence + 1
  BY <1>1, <1>2, <1>3 DEF ClaimsOK, ClaimedBefore, ClaimMap, Claim
<1>5. QED BY <1>1, <1>2, <1>3, <1>4 DEF ClaimsOK, ClaimedBefore

StoresSession(s, e, received_at, now, result, stored, record, ended) ==
  /\ s \in Session /\ e \in Endpoint /\ received_at \in Time /\ stored \subseteq {s}
  /\ ResultOK(claims, s, StoredClaim(e, next_sequence, received_at), now, result, stored)
  /\ claims' = result.claims
  /\ record \in SessionRecord
  /\ record.endpoint = e /\ record.submitted_at = received_at
  /\ ended = result.preempted \cup result.expired
  /\ s \in DOMAIN sessions => s \in stored
  /\ sessions' = [t \in (DOMAIN sessions \ ended) \cup stored |->
                    IF t = s THEN record ELSE sessions[t]]
  /\ admitted' = admitted \cup (stored \cap MoveId)

LEMMA StoringKeepsSessions ==
  ASSUME ClaimsOK, SessionsOK,
         NEW s, NEW e, NEW received_at, NEW now, NEW result, NEW stored, NEW record,
         NEW ended, StoresSession(s, e, received_at, now, result, stored, record, ended)
  PROVE  SessionsOK'
<1> USE DEF StoresSession
<1>1. DOMAIN sessions = DOMAIN claims
  BY DEF SessionsOK, SessionsHoldClaims
<1>2. /\ DOMAIN sessions' = (DOMAIN sessions \ ended) \cup stored
      /\ \A t \in DOMAIN sessions' :
           sessions'[t] = IF t = s THEN record ELSE sessions[t]
  BY DEF With, Without, Restrict
<1>3. sessions' \in [DOMAIN sessions' -> SessionRecord]
  <2>1. \A t \in DOMAIN sessions' : sessions'[t] \in SessionRecord
    BY <1>2 DEF SessionsOK
  <2>2. sessions' = [t \in DOMAIN sessions' |-> sessions'[t]]
    BY DEF With, Without, Restrict
  <2>3. QED BY <2>1, <2>2
<1>4. DOMAIN claims' = DOMAIN sessions'
  BY <1>1, <1>2 DEF ResultOK
<1>5. \A t \in DOMAIN claims' :
        /\ sessions'[t].endpoint = claims'[t].endpoint
        /\ sessions'[t].submitted_at = claims'[t].received_at
  BY <1>1, <1>2, <1>4 DEF ResultOK, StoredClaim, SessionsOK, SessionsHoldClaims
<1>6. DOMAIN sessions' \cap MoveId \subseteq admitted'
  BY <1>2 DEF SessionsOK
<1>7. QED BY <1>2, <1>3, <1>4, <1>5, <1>6 DEF SessionsOK, SessionsHoldClaims

(* What a SubmitMove step has done.                                        *)
MoveSubmitted(m, e, now, result, ended, stored) ==
  /\ ClaimsOK' /\ SessionsOK'
  /\ ResultOK(claims, m, StoredClaim(e, next_sequence, now), now, result, stored)
  /\ m \notin DOMAIN sessions /\ m \notin ended
  /\ DOMAIN sessions' = (DOMAIN sessions \ ended) \cup stored
  /\ \A t \in DOMAIN sessions' :
       sessions'[t] = IF t = m THEN NewSession(e, now) ELSE sessions[t]
  /\ result.preempted \subseteq MoveId \cap DOMAIN sessions
  /\ result.expired \cap MoveId = {}

LEMMA SubmitMoveStores ==
  ASSUME ClaimsOK, SessionsOK, NEW m \in MoveId, NEW e \in MoveEndpoint, NEW now \in Time,
         SubmitMove(m, e, now),
         NEW result, result = submitMove(claims, next_sequence, m, e, now),
         NEW ended, ended = result.preempted \cup result.expired,
         NEW stored, stored = {t \in {m} : result.admitted}
  PROVE  MoveSubmitted(m, e, now, result, ended, stored)
<1>1. m \notin DOMAIN sessions /\ DOMAIN sessions = DOMAIN claims
  BY DEF SubmitMove, SessionsOK, SessionsHoldClaims
<1>2. now \in Int /\ e \in Endpoint /\ m \in Session /\ RightEndpoint(m, e)
  BY TimesAreIntegers DEF MoveEndpoint, Session, RightEndpoint
<1>3. ResultOK(claims, m, StoredClaim(e, next_sequence, now), now, result, stored)
  BY <1>1, <1>2, SubmitResult DEF ClaimsOK
<1>4. result.admitted \in BOOLEAN
  BY DEF submitMove
<1>5. StoredClaim(e, next_sequence, now) \in Claim
  BY <1>2 DEF StoredClaim, Claim, ClaimsOK
<1>6. claims' = result.claims /\ next_sequence' = next_sequence + 1
  BY DEF SubmitMove
<1>7. ClaimsOK'
  <2>1. RightEndpoint(m, StoredClaim(e, next_sequence, now).endpoint)
        /\ StoredClaim(e, next_sequence, now).receive_sequence = next_sequence
    BY <1>2 DEF StoredClaim
  <2>2. stored \in SUBSET {m}
    OBVIOUS
  <2>3. QED BY <1>2, <1>3, <1>5, <1>6, <2>1, <2>2, StoringKeepsClaims
<1> DEFINE record == NewSession(e, now)
<1>8. \A t \in DOMAIN claims : IsServo(claims[t]) <=> t \notin MoveId
  BY ServosHaveServoClaims
<1>9. /\ result.preempted \subseteq MoveId \cap DOMAIN sessions
      /\ result.expired \cap MoveId = {} /\ m \notin ended
  BY <1>1, <1>3, <1>8 DEF ResultOK, Expired
<1>10. /\ sessions' = [t \in (DOMAIN sessions \ ended) \cup stored |->
                         IF t = m THEN record ELSE sessions[t]]
       /\ admitted' = admitted \cup (stored \cap MoveId)
  <2>1. CASE result.admitted
    <3>1. /\ sessions' = With(Without(sessions, ended), m, record)
          /\ admitted' = admitted \cup {m} /\ stored = {m}
      BY <2>1 DEF SubmitMove
    <3>2. QED BY <3>1 DEF With, Without, Restrict
  <2>2. CASE ~result.admitted
    <3>1. /\ sessions' = Without(sessions, ended)
          /\ admitted' = admitted /\ stored = {}
      BY <2>2 DEF SubmitMove
    <3>2. QED BY <1>1, <3>1 DEF Without, Restrict
  <2>3. QED BY <1>4, <2>1, <2>2
<1>11. /\ record \in SessionRecord
       /\ record.endpoint = e /\ record.submitted_at = now
  BY <1>2 DEF NewSession, SessionRecord
<1>12. StoresSession(m, e, now, now, result, stored, record, ended)
  <2> HIDE DEF record
  <2>1. QED BY <1>1, <1>2, <1>3, <1>6, <1>10, <1>11 DEF StoresSession
<1>13. /\ SessionsOK'
       /\ DOMAIN sessions' = (DOMAIN sessions \ ended) \cup stored
       /\ \A t \in DOMAIN sessions' :
            sessions'[t] = IF t = m THEN record ELSE sessions[t]
  <2> HIDE DEF record
  <2>1. SessionsOK'
    BY ONLY ClaimsOK, SessionsOK, <1>12, StoringKeepsSessions
  <2>2. DOMAIN sessions' = (DOMAIN sessions \ ended) \cup stored
    BY ONLY <1>10
  <2>3. \A t \in DOMAIN sessions' :
          sessions'[t] = IF t = m THEN record ELSE sessions[t]
    BY ONLY <1>10
  <2>4. QED BY <2>1, <2>2, <2>3
<1>14. QED BY <1>1, <1>3, <1>7, <1>9, <1>13 DEF MoveSubmitted

ServoRecord(s, received_at, expired) ==
  IF s \in DOMAIN sessions \ expired
    THEN [sessions[s] EXCEPT !.submitted_at = received_at]
    ELSE NewSession(s, received_at)

(* What an UpdateServo step has done.                                      *)
ServoUpdated(s, received_at, now, result, ended) ==
  /\ ClaimsOK' /\ SessionsOK'
  /\ ResultOK(claims, s, StoredClaim(s, next_sequence, received_at), now, result, {s})
  /\ DOMAIN sessions' = (DOMAIN sessions \ ended) \cup {s}
  /\ \A t \in DOMAIN sessions' :
       sessions'[t] = IF t = s THEN ServoRecord(s, received_at, result.expired)
                               ELSE sessions[t]
  /\ result.preempted \subseteq MoveId \cap DOMAIN sessions
  /\ result.expired \cap MoveId = {}

LEMMA UpdateServoStores ==
  ASSUME ClaimsOK, SessionsOK,
         NEW s \in ServoEndpoint, NEW received_at \in Time, NEW now \in Time,
         UpdateServo(s, received_at, now),
         NEW result, result = updateServo(claims, next_sequence, s, received_at, now),
         NEW ended, ended = result.preempted \cup result.expired
  PROVE  ServoUpdated(s, received_at, now, result, ended)
<1>1. DOMAIN sessions = DOMAIN claims /\ s \notin MoveId
  BY ArbitrationAssumption DEF SessionsOK, SessionsHoldClaims
<1>2. /\ now \in Int /\ received_at \in Int /\ s \in Endpoint /\ s \in Session
      /\ RightEndpoint(s, s)
  BY <1>1, TimesAreIntegers, ArbitrationAssumption DEF Session, RightEndpoint
<1>3. ResultOK(claims, s, StoredClaim(s, next_sequence, received_at), now, result, {s})
  BY <1>1, <1>2, UpdateResult DEF ClaimsOK
<1>5. StoredClaim(s, next_sequence, received_at) \in Claim
  BY <1>2 DEF StoredClaim, Claim, ClaimsOK
<1>6. claims' = result.claims /\ next_sequence' = next_sequence + 1
  BY DEF UpdateServo
<1>7. ClaimsOK'
  <2>1. RightEndpoint(s, StoredClaim(s, next_sequence, received_at).endpoint)
        /\ StoredClaim(s, next_sequence, received_at).receive_sequence = next_sequence
    BY <1>2 DEF StoredClaim
  <2>2. QED BY <1>2, <1>3, <1>5, <1>6, <2>1, StoringKeepsClaims
<1> DEFINE record == ServoRecord(s, received_at, result.expired)
<1>8. \A t \in DOMAIN claims : IsServo(claims[t]) <=> t \notin MoveId
  BY ServosHaveServoClaims
<1>9. /\ result.preempted \subseteq MoveId \cap DOMAIN sessions
      /\ result.expired \cap MoveId = {}
  BY <1>1, <1>3, <1>8 DEF ResultOK, Expired
<1>10. /\ sessions' = [t \in (DOMAIN sessions \ ended) \cup {s} |->
                         IF t = s THEN record ELSE sessions[t]]
       /\ admitted' = admitted \cup ({s} \cap MoveId)
  <2>1. sessions' = With(Without(sessions, ended), s, record)
    BY DEF UpdateServo, ServoRecord
  <2>2. admitted' = admitted
    BY DEF UpdateServo, history
  <2> HIDE DEF record
  <2>3. QED BY <1>1, <2>1, <2>2 DEF With, Without, Restrict
<1>11. /\ record \in SessionRecord
       /\ record.endpoint = s /\ record.submitted_at = received_at
  <2>1. CASE s \in DOMAIN sessions \ result.expired
    <3>1. sessions[s] \in SessionRecord /\ sessions[s].endpoint = s
      BY <1>1, <2>1 DEF SessionsOK, SessionsHoldClaims, ClaimsOK, RightEndpoint
    <3>2. record = [sessions[s] EXCEPT !.submitted_at = received_at]
      BY <2>1 DEF ServoRecord
    <3>3. QED BY <3>1, <3>2 DEF SessionRecord
  <2>2. CASE s \notin DOMAIN sessions \ result.expired
    BY <1>2, <2>2 DEF ServoRecord, NewSession, SessionRecord
  <2>3. QED BY <2>1, <2>2
<1>12. StoresSession(s, s, received_at, now, result, {s}, record, ended)
  <2> HIDE DEF record
  <2>1. QED BY <1>1, <1>2, <1>3, <1>6, <1>10, <1>11 DEF StoresSession
<1>13. /\ SessionsOK'
       /\ DOMAIN sessions' = (DOMAIN sessions \ ended) \cup {s}
       /\ \A t \in DOMAIN sessions' :
            sessions'[t] = IF t = s THEN record ELSE sessions[t]
  <2> HIDE DEF record
  <2>1. SessionsOK'
    BY ONLY ClaimsOK, SessionsOK, <1>12, StoringKeepsSessions
  <2>2. DOMAIN sessions' = (DOMAIN sessions \ ended) \cup {s}
    BY ONLY <1>10
  <2>3. \A t \in DOMAIN sessions' :
          sessions'[t] = IF t = s THEN record ELSE sessions[t]
    BY ONLY <1>10
  <2>4. QED BY <2>1, <2>2, <2>3
<1>14. QED BY <1>1, <1>3, <1>7, <1>9, <1>13 DEF ServoUpdated

-----------------------------------------------------------------------------
(* The operators of the winner loop.                                       *)

LEMMA EarliestOfTimes ==
  ASSUME NEW a \in Int, NEW b \in Int, NEW c \in Int, NEW S, S = {a, b} \/ S = {a, b, c}
  PROVE  Earliest(S) \in S /\ \A t \in S : Earliest(S) <= t
<1>1. \E t \in S : \A u \in S : t <= u
  <2>1. CASE a <= b /\ a <= c
    BY <2>1
  <2>2. CASE b <= a /\ b <= c
    BY <2>2
  <2>3. CASE c <= a /\ c <= b
    BY <2>3
  <2>4. QED BY <2>1, <2>2, <2>3
<1>2. QED BY <1>1 DEF Earliest

(* An output is good no longer than its feedback, its cycle and its target.*)
LEMMA DeadlineBounds ==
  ASSUME SessionsOK, tick \in TickRecord, NEW s \in DOMAIN sessions
  PROVE  /\ Deadline(s) \in Int
         /\ Deadline(s) <= tick.feedback + FeedbackMaxAge
         /\ Deadline(s) <= tick.started_at + MaxPeriod
         /\ s \in ServoEndpoint => Deadline(s) <= sessions[s].submitted_at + Lease[s]
<1> DEFINE a == tick.feedback + FeedbackMaxAge
           b == tick.started_at + MaxPeriod
           c == IF s \in ServoEndpoint THEN sessions[s].submitted_at + Lease[s] ELSE a
           S == {a, b} \cup IF s \in ServoEndpoint
                              THEN {sessions[s].submitted_at + Lease[s]} ELSE {}
<1>1. a \in Int /\ b \in Int
  <2>1. tick.feedback \in Time /\ tick.started_at \in Time
    BY DEF TickRecord
  <2>2. tick.feedback \in Int /\ tick.started_at \in Int
    BY <2>1, TimesAreIntegers
  <2>3. FeedbackMaxAge \in Int /\ MaxPeriod \in Int
    BY PipelineAssumption
  <2>4. QED BY <2>2, <2>3
<1>2. c \in Int
  BY <1>1, ArbitrationAssumption, TimesAreIntegers DEF SessionsOK, SessionRecord
<1>3. S = {a, b} \/ S = {a, b, c}
  OBVIOUS
<1>4. S \subseteq Int /\ a \in S /\ b \in S /\ (s \in ServoEndpoint => c \in S)
  BY <1>1, <1>2
<1>5. Deadline(s) = Earliest(S)
  BY DEF Deadline
<1>6. s \in ServoEndpoint => c = sessions[s].submitted_at + Lease[s]
  OBVIOUS
<1> HIDE DEF S, a, b, c
<1>7. Earliest(S) \in S /\ \A t \in S : Earliest(S) <= t
  BY <1>1, <1>2, <1>3, EarliestOfTimes
<1>8. QED BY <1>4, <1>5, <1>6, <1>7 DEF a, b

(* What the helpers do to the permits, the events and the tick's locals.   *)
LEMMA PermitsNotOfFacts ==
  ASSUME NEW S
  PROVE  /\ DOMAIN PermitsNotOf(S) =
              {j \in DOMAIN publication_permits : publication_permits[j].session \notin S}
         /\ \A j \in DOMAIN PermitsNotOf(S) :
              PermitsNotOf(S)[j] = publication_permits[j]
  BY DEF PermitsNotOf, Restrict

LEMMA WithoutFacts ==
  ASSUME NEW C, NEW S
  PROVE  /\ DOMAIN Without(C, S) = DOMAIN C \ S
         /\ \A t \in DOMAIN Without(C, S) : Without(C, S)[t] = C[t]
  BY DEF Without, Restrict

LEMMA EndsFacts ==
  ASSUME NEW S, NEW state
  PROVE  /\ \A m, st : <<m, st>> \in Ends(S, state) <=>
                         st = state /\ m \in S \cap DOMAIN sessions \cap MoveId
         /\ state \in MoveEnd => Ends(S, state) \subseteq MoveId \X MoveEnd
<1>1. \A m, st : <<m, st>> \in Ends(S, state) <=>
                   st = state /\ m \in S \cap DOMAIN sessions \cap MoveId
  BY DEF Ends
<1>2. state \in MoveEnd => Ends(S, state) \subseteq MoveId \X MoveEnd
  BY DEF Ends
<1>3. QED BY <1>1, <1>2

LEMMA RemovedPermitsAreOK ==
  ASSUME PermitsOK, NEW S, NEW J,
         \/ publication_permits' = PermitsNotOf(S)
         \/ publication_permits' = Without(PermitsNotOf(S), J),
         next_publication_token' \in Nat
  PROVE  PermitsOK'
<1>1. CASE publication_permits' = PermitsNotOf(S)
  BY <1>1 DEF PermitsNotOf, Restrict, PermitsOK
<1>2. CASE publication_permits' = Without(PermitsNotOf(S), J)
  BY <1>2 DEF PermitsNotOf, Without, Restrict, PermitsOK
<1>3. QED BY <1>1, <1>2

LEMMA SessionJoints ==
  ASSUME SessionsOK, NEW s \in DOMAIN sessions
  PROVE  Joints[sessions[s].endpoint] \in SUBSET Joint
  BY ArbitrationAssumption DEF SessionsOK, SessionRecord

LEMMA PermittedFacts ==
  ASSUME PermitsOK, SessionsOK, NEW s \in DOMAIN sessions, s \in Session, NEW token \in Nat
  PROVE  /\ DOMAIN Permitted(s, token) =
              DOMAIN publication_permits \cup Joints[sessions[s].endpoint]
         /\ DOMAIN Permitted(s, token) \subseteq Joint
         /\ Permitted(s, token) \in [DOMAIN Permitted(s, token) -> Permit]
         /\ \A j \in DOMAIN Permitted(s, token) : Permitted(s, token)[j] =
              IF j \in Joints[sessions[s].endpoint]
                THEN [session |-> s, token |-> token] ELSE publication_permits[j]
<1>1. Joints[sessions[s].endpoint] \subseteq Joint
  BY SessionJoints
<1>2. [session |-> s, token |-> token] \in Permit
  BY DEF Permit
<1>3. QED BY <1>1, <1>2 DEF Permitted, PermitsOK

LEMMA AppendNothingFacts ==
  ASSUME TickOK, NEW s, AppendNothing(s)
  PROVE  /\ tick' \in TickRecord /\ tick' = Done(s, "select")
         /\ tick'.todo = tick.todo \ {s} /\ tick'.phase = "select"
         /\ next_publication_token' = next_publication_token
  BY DEF TickOK, TickRecord, AppendNothing, Done

LEMMA AppendLastFacts ==
  ASSUME TickOK, SessionsOK, PermitsOK, NEW s \in DOMAIN sessions, s \in Session,
         NEW count \in Nat \ {0}, AppendLast(s, count),
         NEW token, token = next_publication_token + count - 1
  PROVE  /\ token \in Nat /\ token >= next_publication_token
         /\ next_publication_token' = token + 1
         /\ publication_permits' = Permitted(s, token)
         /\ tick' = [Done(s, "select") EXCEPT !.commands = @ \cup {Command(s, token)}]
         /\ tick' \in TickRecord
         /\ tick'.todo = tick.todo \ {s} /\ tick'.phase = "select"
         /\ tick'.commands = tick.commands \cup {Command(s, token)}
         /\ PermitsOK'
<1>1. /\ token \in Nat /\ token >= next_publication_token
      /\ next_publication_token' = token + 1
      /\ publication_permits' = Permitted(s, token)
      /\ tick' = [Done(s, "select") EXCEPT !.commands = @ \cup {Command(s, token)}]
  BY DEF AppendLast, PermitsOK
<1>2. Command(s, token) \in CommandRecord
  <2>1. Deadline(s) \in Int
    BY DeadlineBounds DEF TickOK
  <2>2. QED BY <1>1, <2>1, SessionJoints DEF Command, CommandRecord
<1>3. /\ tick' \in TickRecord
      /\ tick'.todo = tick.todo \ {s} /\ tick'.phase = "select"
      /\ tick'.commands = tick.commands \cup {Command(s, token)}
  BY <1>1, <1>2 DEF TickOK, TickRecord, Done
<1>4. PermitsOK'
  <2> DEFINE P == Permitted(s, token)
  <2>1. DOMAIN P \subseteq Joint /\ P \in [DOMAIN P -> Permit]
    BY <1>1, PermittedFacts
  <2>2. publication_permits' = P /\ next_publication_token' \in Nat
    BY <1>1
  <2> HIDE DEF P
  <2>3. QED BY <2>1, <2>2 DEF PermitsOK
<1>5. QED BY <1>1, <1>3, <1>4

LEMMA EndInTickFacts ==
  ASSUME Core, NEW s, NEW state \in MoveEnd, EndInTick(s, state)
  PROVE  /\ ClaimsOK' /\ SessionsOK'
         /\ DOMAIN sessions' = DOMAIN sessions \ {s}
         /\ \A t \in DOMAIN sessions' : sessions'[t] = sessions[t]
         /\ active_backend_sessions' = active_backend_sessions \ {s}
         /\ pending_events' = pending_events \cup Ends({s}, state)
         /\ pending_events' \subseteq MoveId \X MoveEnd
         /\ UNCHANGED <<clock, output_enabled, output_generation, next_sequence,
                        last_tick_time, admitted, delivered, output>>
<1>1. /\ EndSessions({s}) /\ pending_events' = pending_events \cup Ends({s}, state)
      /\ UNCHANGED <<clock, output_enabled, output_generation, next_sequence,
                     last_tick_time, admitted, delivered, output>>
  BY DEF EndInTick, permission, history
<1>2. pending_events' \subseteq MoveId \X MoveEnd
  BY <1>1, EndsFacts DEF Core, RestOK
<1>3. /\ ClaimsOK' /\ SessionsOK'
      /\ DOMAIN sessions' = DOMAIN sessions \ {s}
      /\ \A t \in DOMAIN sessions' : sessions'[t] = sessions[t]
      /\ active_backend_sessions' = active_backend_sessions \ {s}
  BY <1>1, EndingKeepsSessions DEF Core
<1>4. QED BY <1>1, <1>2, <1>3

(* The end of a winner's computation, whether it appended or not.          *)
LEMMA WinnerDoneKeepsCore ==
  ASSUME Core, NEW s, ClaimsOK', SessionsOK', PermitsOK',
         DOMAIN sessions \ {s} \subseteq DOMAIN sessions',
         tick' \in TickRecord, tick'.todo = tick.todo \ {s}, tick'.phase = "select",
         DOMAIN servo_retry_after' \subseteq ServoEndpoint,
         pending_events' \subseteq MoveId \X MoveEnd,
         UNCHANGED <<clock, output_enabled, output_generation, last_tick_time,
                     admitted, delivered>>
  PROVE  Core'
<1>1. TickOK'
  BY DEF Core, TickOK, LockFree
<1>2. RestOK'
  BY DEF Core, RestOK
<1>3. QED BY <1>1, <1>2 DEF Core

(* Who a step of the winner loop is about.                                 *)
LEMMA NextWinner ==
  ASSUME Core, NEW s, IsNext(s)
  PROVE  /\ s \in tick.todo /\ s \in DOMAIN sessions /\ s \in Session
         /\ tick.phase \in {"select", "compute"}
<1>1. s \in tick.todo /\ tick.todo \subseteq DOMAIN sessions /\ tick \in TickRecord
  BY DEF IsNext, Core, TickOK
<1>2. tick.todo \subseteq Session
  BY <1>1 DEF TickRecord
<1>3. tick.phase \in {"select", "compute"}
  BY <1>1 DEF Core, TickOK, TickRecord, LockFree
<1>4. QED BY <1>1, <1>2, <1>3

(* A session that ends in the winner loop, with a hold output or without.  *)
LEMMA StopControlledKeepsCore ==
  ASSUME Core, NEW s, IsNext(s), StopControlled(s),
         DOMAIN servo_retry_after' \subseteq ServoEndpoint
  PROVE  Core'
<1>1. s \in DOMAIN sessions /\ s \in Session
  BY NextWinner
<1>2. EndInTick(s, "ABORTED") /\ "ABORTED" \in MoveEnd
  BY DEF StopControlled, MoveEnd
<1>3. /\ ClaimsOK' /\ SessionsOK'
      /\ DOMAIN sessions \ {s} \subseteq DOMAIN sessions'
      /\ pending_events' \subseteq MoveId \X MoveEnd
      /\ UNCHANGED <<clock, output_enabled, output_generation, last_tick_time,
                     admitted, delivered>>
  BY <1>2, EndInTickFacts
<1>4. /\ tick' \in TickRecord /\ tick'.todo = tick.todo \ {s} /\ tick'.phase = "select"
      /\ PermitsOK'
  <2>1. CASE AppendLast(s, 1)
    BY <1>1, <2>1, AppendLastFacts DEF Core
  <2>2. CASE AppendNothing(s) /\ UNCHANGED publication_permits
    <3>1. PermitsOK'
      BY <2>2, AppendNothingFacts DEF Core, PermitsOK
    <3>2. QED BY <2>2, <3>1, AppendNothingFacts DEF Core
  <2>3. QED BY <2>1, <2>2 DEF StopControlled
<1>5. QED BY <1>3, <1>4, WinnerDoneKeepsCore

LEMMA SubmitMoveKeepsCore ==
  ASSUME Core, NEW m \in MoveId, NEW e \in MoveEndpoint, NEW now \in Now,
         SubmitMove(m, e, now)
  PROVE  Core'
<1> DEFINE result == submitMove(claims, next_sequence, m, e, now)
           ended == result.preempted \cup result.expired
           stored == {t \in {m} : result.admitted}
<1>1. now \in Time
  BY TimesAreIntegers
<1>2. ClaimsOK' /\ SessionsOK'
  <2> HIDE DEF result
  <2>1. result = submitMove(claims, next_sequence, m, e, now)
    BY DEF result
  <2>2. ended = result.preempted \cup result.expired /\ stored = {t \in {m} : result.admitted}
    OBVIOUS
  <2> HIDE DEF ended, stored
  <2>3. QED BY <1>1, <2>1, <2>2, SubmitMoveStores DEF Core, MoveSubmitted
<1>3. PermitsOK'
  <2>1. \/ publication_permits' = PermitsNotOf(ended)
        \/ publication_permits' = Without(PermitsNotOf(ended), Joints[e])
    BY DEF SubmitMove
  <2>2. next_publication_token' \in Nat
    BY DEF SubmitMove, Core, PermitsOK
  <2> HIDE DEF ended
  <2>3. QED BY <2>1, <2>2, RemovedPermitsAreOK DEF Core
<1>4. TickOK'
  BY DEF SubmitMove, Core, TickOK, LockFree
<1>5. RestOK'
  <2>1. /\ pending_events' = pending_events \cup Ends(result.preempted, "PREEMPTED")
        /\ admitted' = admitted \/ admitted' = admitted \cup {m}
        /\ UNCHANGED <<clock, output_enabled, output_generation, servo_retry_after,
                       last_tick_time, delivered>>
    BY DEF SubmitMove, permission
  <2>2. Ends(result.preempted, "PREEMPTED") \subseteq MoveId \X MoveEnd
    BY EndsFacts DEF MoveEnd
  <2> HIDE DEF result
  <2>3. QED BY <2>1, <2>2 DEF Core, RestOK
<1>6. QED BY <1>2, <1>3, <1>4, <1>5 DEF Core

LEMMA UpdateServoKeepsCore ==
  ASSUME Core, NEW s \in ServoEndpoint, NEW received_at \in Time, NEW now \in Now,
         UpdateServo(s, received_at, now)
  PROVE  Core'
<1> DEFINE result == updateServo(claims, next_sequence, s, received_at, now)
           ended == result.preempted \cup result.expired
<1>1. now \in Time
  BY TimesAreIntegers
<1>2. ClaimsOK' /\ SessionsOK'
  <2> HIDE DEF result
  <2>1. result = updateServo(claims, next_sequence, s, received_at, now)
    BY DEF result
  <2>2. ended = result.preempted \cup result.expired
    OBVIOUS
  <2> HIDE DEF ended
  <2>3. QED BY <1>1, <2>1, <2>2, UpdateServoStores DEF Core, ServoUpdated
<1>3. PermitsOK'
  <2>1. \E J : publication_permits' = Without(PermitsNotOf(ended), J)
    BY DEF UpdateServo
  <2>2. next_publication_token' \in Nat
    BY DEF UpdateServo, Core, PermitsOK
  <2> HIDE DEF ended
  <2>3. QED BY <2>1, <2>2, RemovedPermitsAreOK DEF Core
<1>4. TickOK'
  BY DEF UpdateServo, Core, TickOK, LockFree
<1>5. RestOK'
  <2>1. /\ pending_events' = pending_events \cup Ends(result.preempted, "PREEMPTED")
        /\ UNCHANGED <<clock, output_enabled, output_generation, servo_retry_after,
                       last_tick_time, admitted, delivered>>
    BY DEF UpdateServo, permission, history
  <2>2. Ends(result.preempted, "PREEMPTED") \subseteq MoveId \X MoveEnd
    BY EndsFacts DEF MoveEnd
  <2> HIDE DEF result
  <2>3. QED BY <2>1, <2>2 DEF Core, RestOK
<1>6. QED BY <1>2, <1>3, <1>4, <1>5 DEF Core

LEMMA CancelKeepsCore ==
  ASSUME Core, NEW s \in Session, Cancel(s)
  PROVE  Core'
<1>1. ClaimsOK' /\ SessionsOK'
  BY EndingKeepsSessions DEF Cancel, history, Core
<1>2. PermitsOK'
  BY RemovedPermitsAreOK DEF Cancel, Core, PermitsOK
<1>3. TickOK'
  BY DEF Cancel, Core, TickOK, LockFree
<1>4. RestOK'
  <2>1. Ends({s}, "CANCELED") \subseteq MoveId \X MoveEnd
    BY EndsFacts DEF MoveEnd
  <2>2. QED BY <2>1 DEF Cancel, Core, RestOK, permission, history
<1>5. QED BY <1>1, <1>2, <1>3, <1>4 DEF Core

LEMMA SetOutputPermitKeepsCore ==
  ASSUME Core, NEW enabled \in BOOLEAN, NEW generation \in output_generation .. MaxGeneration,
         SetOutputPermit(enabled, generation)
  PROVE  Core'
<1>1. TickOK'
  BY DEF SetOutputPermit, Core, TickOK, LockFree
<1>2. RestOK'
  <2>1. Ends(DOMAIN sessions, "CANCELED") \subseteq MoveId \X MoveEnd
    BY EndsFacts DEF MoveEnd
  <2>2. pending_events' \subseteq MoveId \X MoveEnd
    BY <2>1 DEF SetOutputPermit, Core, RestOK
  <2>3. output_enabled' \in BOOLEAN /\ output_generation' \in Nat
    BY PipelineAssumption DEF SetOutputPermit, Core, RestOK
  <2>4. QED BY <2>2, <2>3 DEF SetOutputPermit, Core, RestOK, history
<1>3. CASE Confirms(enabled, generation)
  <2>1. ClaimsOK' /\ SessionsOK' /\ PermitsOK'
    BY <1>3 DEF SetOutputPermit, history, Core, ClaimsOK, SessionsOK, SessionsHoldClaims,
                PermitsOK
  <2>2. QED BY <1>1, <1>2, <2>1 DEF Core
<1>4. CASE ~Confirms(enabled, generation)
  <2>1. ClaimsOK' /\ SessionsOK'
    BY <1>4, EndingKeepsSessions DEF SetOutputPermit, history, Core
  <2>2. PermitsOK'
    BY <1>4 DEF SetOutputPermit, Core, PermitsOK
  <2>3. QED BY <1>1, <1>2, <2>1, <2>2 DEF Core
<1>5. QED BY <1>3, <1>4

(* What the arbiter tells the head of tick.                                *)
LEMMA EvaluationFacts ==
  ASSUME ClaimsOK, NEW now
  PROVE  /\ computeWinners(claims, now) \subseteq DOMAIN Unexpired(claims, now)
         /\ DOMAIN Unexpired(claims, now) \subseteq DOMAIN claims
         /\ (DOMAIN claims \ DOMAIN Unexpired(claims, now)) \cap MoveId = {}
         /\ \A s, t \in computeWinners(claims, now) :
              s # t => ~Overlap(claims[s].endpoint, claims[t].endpoint)
<1> DEFINE U == Unexpired(claims, now)
<1>1. ClaimMap(claims)
  BY DEF ClaimsOK, ClaimedBefore
<1>2. /\ ClaimMap(U) /\ DOMAIN U = {s \in DOMAIN claims : ~Expired(claims[s], now)}
      /\ \A s \in DOMAIN U : U[s] = claims[s]
  BY <1>1, UnexpiredClaimMap
<1>3. (DOMAIN claims \ DOMAIN U) \cap MoveId = {}
  BY <1>2, ServosHaveServoClaims DEF Expired
<1> HIDE DEF U
<1>4. Winners(U) \subseteq DOMAIN U /\ IsSelection(Winners(U), U)
  BY <1>2, WinnersAreSelected
<1>5. \A s, t \in Winners(U) : s # t => ~Overlap(claims[s].endpoint, claims[t].endpoint)
  BY <1>2, <1>4, SelectionDisjoint DEF Conflict
<1>6. QED BY <1>2, <1>3, <1>4, <1>5 DEF U, computeWinners

LEMMA BeginTickKeepsCore ==
  ASSUME Core, NEW now \in Now, NEW feedback \in Time, BeginTick(now, feedback)
  PROVE  Core'
<1> DEFINE winners == computeWinners(claims, clock)
           expired == DOMAIN claims \ DOMAIN Unexpired(claims, clock)
           gap     == last_tick_time # Never /\ now - last_tick_time > MaxPeriod
           aborted == EndedByGap(active_backend_sessions \ expired, gap)
           ended   == expired \cup aborted
<1>1. now \in Time
  BY TimesAreIntegers
<1>2. /\ claims' = Without(claims, ended)
      /\ sessions' = [s \in DOMAIN sessions \ ended |->
                        [sessions[s] EXCEPT !.backend_started = s \in active_backend_sessions']]
      /\ publication_permits' = PermitsNotOf(ended)
      /\ tick' = [phase |-> "select", now |-> now, started_at |-> clock,
                  feedback |-> feedback, sequence |-> next_sequence,
                  todo |-> winners \ ended, commands |-> {},
                  events |-> pending_events \cup Ends(aborted, "ABORTED")]
      /\ pending_events' = {} /\ last_tick_time' = now
      /\ UNCHANGED <<clock, output_enabled, output_generation, next_sequence,
                     next_publication_token, servo_retry_after, admitted, delivered>>
  BY DEF BeginTick, permission, history
<1>3. winners \subseteq DOMAIN claims
  BY EvaluationFacts DEF Core
<1> HIDE DEF winners, expired, gap, aborted, ended
<1>4. ClaimsOK' /\ DOMAIN claims' = DOMAIN claims \ ended
      /\ \A s \in DOMAIN claims' : claims'[s] = claims[s]
  BY <1>2, EndingKeepsClaims DEF Core
<1>5. SessionsOK'
  <2>1. DOMAIN sessions' = DOMAIN sessions \ ended
    BY <1>2
  <2>2. \A s \in DOMAIN sessions' :
          /\ sessions'[s] \in SessionRecord
          /\ sessions'[s].endpoint = sessions[s].endpoint
          /\ sessions'[s].submitted_at = sessions[s].submitted_at
    <3> SUFFICES ASSUME NEW s \in DOMAIN sessions \ ended
                 PROVE  /\ sessions'[s] \in SessionRecord
                        /\ sessions'[s].endpoint = sessions[s].endpoint
                        /\ sessions'[s].submitted_at = sessions[s].submitted_at
      BY <2>1
    <3>1. sessions[s] \in SessionRecord
      BY DEF Core, SessionsOK
    <3> DEFINE started == s \in active_backend_sessions'
    <3>2. sessions'[s] = [sessions[s] EXCEPT !.backend_started = started]
      BY <1>2
    <3>3. started \in BOOLEAN
      OBVIOUS
    <3> HIDE DEF started
    <3>4. QED BY <3>1, <3>2, <3>3 DEF SessionRecord
  <2>3. sessions' \in [DOMAIN sessions' -> SessionRecord]
    <3>1. sessions' = [s \in DOMAIN sessions' |-> sessions'[s]]
      BY <1>2
    <3>2. QED BY <2>2, <3>1
  <2>4. SessionsHoldClaims'
    BY <1>4, <2>1, <2>2 DEF Core, SessionsOK, SessionsHoldClaims
  <2>5. DOMAIN sessions' \cap MoveId \subseteq admitted'
    BY <1>2, <2>1 DEF Core, SessionsOK
  <2>6. QED BY <2>3, <2>4, <2>5 DEF SessionsOK
<1>6. PermitsOK'
  BY <1>2, RemovedPermitsAreOK DEF Core, PermitsOK
<1>7. TickOK'
  <2>1. winners \ ended \subseteq DOMAIN sessions' /\ winners \ ended \subseteq Session
    BY <1>2, <1>3 DEF Core, SessionsOK, SessionsHoldClaims, ClaimsOK
  <2>2. pending_events \cup Ends(aborted, "ABORTED") \subseteq MoveId \X MoveEnd
    BY EndsFacts DEF Core, RestOK, MoveEnd
  <2>3. clock \in Time /\ next_sequence \in Nat
    BY DEF Core, RestOK, ClaimsOK
  <2>4. tick' \in TickRecord
    BY <1>1, <1>2, <2>1, <2>2, <2>3 DEF TickRecord
  <2>5. tick'.todo \subseteq DOMAIN sessions' /\ tick'.phase = "select"
    BY <1>2, <2>1
  <2>6. QED BY <2>4, <2>5 DEF TickOK, LockFree
<1>8. RestOK'
  BY <1>1, <1>2 DEF Core, RestOK
<1>9. QED BY <1>4, <1>5, <1>6, <1>7, <1>8 DEF Core

LEMMA AbandonKeepsCore ==
  ASSUME Core, NEW s, Abandon(s)
  PROVE  Core'
<1>1. /\ EndInTick(s, "ABORTED") /\ "ABORTED" \in MoveEnd
      /\ publication_permits' = PermitsNotOf({s})
      /\ AppendNothing(s) /\ UNCHANGED servo_retry_after
  BY DEF Abandon, MoveEnd
<1>2. /\ ClaimsOK' /\ SessionsOK'
      /\ DOMAIN sessions \ {s} \subseteq DOMAIN sessions'
      /\ pending_events' \subseteq MoveId \X MoveEnd
      /\ UNCHANGED <<clock, output_enabled, output_generation, last_tick_time,
                     admitted, delivered>>
  BY <1>1, EndInTickFacts
<1>3. tick' \in TickRecord /\ tick'.todo = tick.todo \ {s} /\ tick'.phase = "select"
      /\ next_publication_token' = next_publication_token
  BY <1>1, AppendNothingFacts DEF Core
<1>4. PermitsOK'
  BY <1>1, <1>3, RemovedPermitsAreOK DEF Core, PermitsOK
<1>5. DOMAIN servo_retry_after' \subseteq ServoEndpoint
  BY <1>1 DEF Core, RestOK
<1>6. QED BY <1>2, <1>3, <1>4, <1>5, WinnerDoneKeepsCore

LEMMA WaitForRetryKeepsCore ==
  ASSUME Core, NEW s, WaitForRetry(s)
  PROVE  Core'
<1>1. /\ tick' \in TickRecord /\ tick'.todo = tick.todo \ {s} /\ tick'.phase = "select"
      /\ next_publication_token' = next_publication_token
  BY AppendNothingFacts DEF WaitForRetry, Core
<1>2. UNCHANGED <<clock, output_enabled, output_generation, claims, next_sequence, sessions,
                  active_backend_sessions, publication_permits, servo_retry_after,
                  pending_events, last_tick_time, admitted, delivered>>
  BY DEF WaitForRetry, permission, arbiter, history
<1>3. ClaimsOK' /\ SessionsOK' /\ PermitsOK'
  BY <1>1, <1>2 DEF Core, ClaimsOK, SessionsOK, SessionsHoldClaims, PermitsOK
<1>4. DOMAIN servo_retry_after' \subseteq ServoEndpoint
      /\ pending_events' \subseteq MoveId \X MoveEnd
  BY <1>2 DEF Core, RestOK
<1>5. QED BY <1>1, <1>2, <1>3, <1>4, WinnerDoneKeepsCore

LEMMA ComputeKeepsCore ==
  ASSUME Core, NEW s, Compute(s)
  PROVE  Core'
<1>1. /\ tick' = [tick EXCEPT !.phase = "compute"]
      /\ UNCHANGED <<clock, output_enabled, output_generation, claims, next_sequence, sessions,
                     active_backend_sessions, publication_permits, next_publication_token,
                     servo_retry_after, pending_events, last_tick_time, admitted, delivered>>
  BY DEF Compute, permission, arbiter, history
<1>2. ClaimsOK' /\ SessionsOK' /\ PermitsOK' /\ RestOK'
  BY <1>1 DEF Core, ClaimsOK, SessionsOK, SessionsHoldClaims, PermitsOK, RestOK
<1>3. TickOK'
  BY <1>1 DEF Core, TickOK, TickRecord, LockFree
<1>4. QED BY <1>2, <1>3 DEF Core

LEMMA FailBackendKeepsCore ==
  ASSUME Core, NEW s, FailBackend(s)
  PROVE  Core'
<1>1. IsNext(s) /\ StopControlled(s)
  BY DEF FailBackend
<1>2. DOMAIN servo_retry_after' \subseteq ServoEndpoint
  BY DEF FailBackend, With, Core, RestOK
<1>3. QED BY <1>1, <1>2, StopControlledKeepsCore

LEMMA TimeOutMoveKeepsCore ==
  ASSUME Core, NEW s, TimeOutMove(s)
  PROVE  Core'
<1>1. IsNext(s) /\ StopControlled(s) /\ UNCHANGED servo_retry_after
  BY DEF TimeOutMove
<1>2. DOMAIN servo_retry_after' \subseteq ServoEndpoint
  BY <1>1 DEF Core, RestOK
<1>3. QED BY <1>1, <1>2, StopControlledKeepsCore

LEMMA DriveKeepsCore ==
  ASSUME Core, NEW s, Drive(s)
  PROVE  Core'
<1>1. s \in DOMAIN sessions /\ s \in Session
  BY NextWinner DEF Drive
<1>2. /\ AppendLast(s, 1)
      /\ sessions' = [sessions EXCEPT ![s].backend_started = TRUE]
      /\ servo_retry_after' = Without(servo_retry_after, {s})
      /\ UNCHANGED <<clock, output_enabled, output_generation, claims, next_sequence,
                     pending_events, last_tick_time, admitted, delivered>>
  BY DEF Drive, permission, arbiter, history
<1>3. /\ tick' \in TickRecord /\ tick'.todo = tick.todo \ {s} /\ tick'.phase = "select"
      /\ PermitsOK'
  BY <1>1, <1>2, AppendLastFacts DEF Core
<1>4. /\ DOMAIN sessions' = DOMAIN sessions
      /\ sessions' \in [DOMAIN sessions' -> SessionRecord]
      /\ \A t \in DOMAIN sessions : /\ sessions'[t].endpoint = sessions[t].endpoint
                                    /\ sessions'[t].submitted_at = sessions[t].submitted_at
  BY <1>1, <1>2 DEF Core, SessionsOK, SessionRecord
<1>5. SessionsOK'
  BY <1>2, <1>4 DEF Core, SessionsOK, SessionsHoldClaims
<1>6. ClaimsOK'
  BY <1>2 DEF Core, ClaimsOK
<1>7. DOMAIN servo_retry_after' \subseteq ServoEndpoint
      /\ pending_events' \subseteq MoveId \X MoveEnd
  BY <1>2, WithoutFacts DEF Core, RestOK
<1>8. QED BY <1>2, <1>3, <1>4, <1>5, <1>6, <1>7, WinnerDoneKeepsCore

LEMMA ReachGoalKeepsCore ==
  ASSUME Core, NEW m, ReachGoal(m)
  PROVE  Core'
<1>1. m \in DOMAIN sessions /\ m \in Session
  BY NextWinner DEF ReachGoal
<1>2. /\ AppendLast(m, 1) /\ EndInTick(m, "SUCCEEDED") /\ "SUCCEEDED" \in MoveEnd
      /\ UNCHANGED servo_retry_after
  BY DEF ReachGoal, MoveEnd
<1>3. /\ ClaimsOK' /\ SessionsOK'
      /\ DOMAIN sessions \ {m} \subseteq DOMAIN sessions'
      /\ pending_events' \subseteq MoveId \X MoveEnd
      /\ UNCHANGED <<clock, output_enabled, output_generation, last_tick_time,
                     admitted, delivered>>
  BY <1>2, EndInTickFacts
<1>4. /\ tick' \in TickRecord /\ tick'.todo = tick.todo \ {m} /\ tick'.phase = "select"
      /\ PermitsOK'
  BY <1>1, <1>2, AppendLastFacts DEF Core
<1>5. DOMAIN servo_retry_after' \subseteq ServoEndpoint
  BY <1>2 DEF Core, RestOK
<1>6. QED BY <1>3, <1>4, <1>5, WinnerDoneKeepsCore

LEMMA MissGoalKeepsCore ==
  ASSUME Core, NEW m, MissGoal(m)
  PROVE  Core'
<1>1. m \in DOMAIN sessions /\ m \in Session
  BY NextWinner DEF MissGoal
<1>2. EndInTick(m, "ABORTED") /\ "ABORTED" \in MoveEnd /\ UNCHANGED servo_retry_after
  BY DEF MissGoal, MoveEnd
<1>3. /\ ClaimsOK' /\ SessionsOK'
      /\ DOMAIN sessions \ {m} \subseteq DOMAIN sessions'
      /\ pending_events' \subseteq MoveId \X MoveEnd
      /\ UNCHANGED <<clock, output_enabled, output_generation, last_tick_time,
                     admitted, delivered>>
  BY <1>2, EndInTickFacts
<1>4. /\ tick' \in TickRecord /\ tick'.todo = tick.todo \ {m} /\ tick'.phase = "select"
      /\ PermitsOK'
  <2>1. CASE AppendLast(m, 2)
    BY <1>1, <2>1, AppendLastFacts DEF Core
  <2>2. CASE /\ next_publication_token' = next_publication_token + 1
             /\ publication_permits' = Permitted(m, next_publication_token)
             /\ tick' = Done(m, "select")
    <3>1. tick' \in TickRecord /\ tick'.todo = tick.todo \ {m} /\ tick'.phase = "select"
      BY <2>2 DEF Core, TickOK, TickRecord, Done
    <3> DEFINE P == Permitted(m, next_publication_token)
    <3>2. DOMAIN P \subseteq Joint /\ P \in [DOMAIN P -> Permit]
      BY <1>1, PermittedFacts DEF Core, PermitsOK
    <3>3. publication_permits' = P /\ next_publication_token' \in Nat
      BY <2>2 DEF Core, PermitsOK
    <3> HIDE DEF P
    <3>4. QED BY <3>1, <3>2, <3>3 DEF PermitsOK
  <2>3. QED BY <2>1, <2>2 DEF MissGoal
<1>5. DOMAIN servo_retry_after' \subseteq ServoEndpoint
  BY <1>2 DEF Core, RestOK
<1>6. QED BY <1>3, <1>4, <1>5, WinnerDoneKeepsCore

LEMMA FinishTickKeepsCore ==
  ASSUME Core, FinishTick
  PROVE  Core'
<1> DEFINE stale == {c \in tick.commands : clock >= c.valid_until}
           ended == {c.session : c \in stale}
<1>1. /\ EndSessions(ended)
      /\ publication_permits' = PermitsNotOf(ended)
      /\ pending_events' = {}
      /\ tick' = [tick EXCEPT !.phase = "publish", !.commands = @ \ stale,
                    !.events = @ \cup pending_events \cup Ends(ended, "ABORTED")]
      /\ tick.todo = {}
      /\ UNCHANGED <<clock, output_enabled, output_generation, next_sequence,
                     next_publication_token, servo_retry_after, last_tick_time,
                     admitted, delivered>>
  BY DEF FinishTick, permission, history
<1> HIDE DEF stale, ended
<1>2. ClaimsOK' /\ SessionsOK'
  BY <1>1, EndingKeepsSessions DEF Core
<1>3. PermitsOK'
  BY <1>1, RemovedPermitsAreOK DEF Core, PermitsOK
<1>4. RestOK'
  BY <1>1 DEF Core, RestOK
<1>5. TickOK'
  <2>1. Ends(ended, "ABORTED") \subseteq MoveId \X MoveEnd
        /\ pending_events \subseteq MoveId \X MoveEnd
    BY EndsFacts DEF MoveEnd, Core, RestOK
  <2>2. tick \in TickRecord
    BY DEF Core, TickOK
  <2>3. tick' \in TickRecord
    BY <1>1, <2>1, <2>2 DEF TickRecord
  <2>4. tick'.todo = {} /\ tick'.phase = "publish"
    BY <1>1, <2>2 DEF TickRecord
  <2>5. QED BY <2>3, <2>4 DEF TickOK
<1>6. QED BY <1>2, <1>3, <1>4, <1>5 DEF Core

LEMMA PublishCommandsKeepsCore ==
  ASSUME Core, PublishCommands
  PROVE  Core'
<1>1. /\ tick.phase = "publish" /\ tick' = Idle
      /\ delivered' = delivered \cup tick.events
      /\ UNCHANGED <<clock, output_enabled, output_generation, next_sequence,
                     next_publication_token, servo_retry_after, last_tick_time, admitted>>
  BY DEF PublishCommands, permission
<1>2. PICK ended, consumed :
        /\ EndSessions(ended)
        /\ publication_permits' = Without(PermitsNotOf(ended), consumed)
        /\ pending_events' = pending_events \cup Ends(ended, "ABORTED")
  BY DEF PublishCommands
<1>3. ClaimsOK' /\ SessionsOK'
  BY <1>1, <1>2, EndingKeepsSessions DEF Core
<1>4. PermitsOK'
  BY <1>1, <1>2, RemovedPermitsAreOK DEF Core, PermitsOK
<1>5. RestOK'
  <2>1. Ends(ended, "ABORTED") \subseteq MoveId \X MoveEnd
    BY EndsFacts DEF MoveEnd
  <2>2. tick.events \subseteq MoveId \X MoveEnd
    BY DEF Core, TickOK, TickRecord
  <2>3. QED BY <1>1, <1>2, <2>1, <2>2 DEF Core, RestOK
<1>6. TickOK'
  <2>1. Idle \in TickRecord /\ Idle.todo = {}
    BY PipelineAssumption DEF Idle, TickRecord, Time
  <2>2. tick' \in TickRecord /\ tick'.todo = {}
    BY <1>1, <2>1
  <2>3. (tick = Idle)'
    BY <1>1 DEF Idle
  <2>4. QED BY <2>2, <2>3 DEF TickOK
<1>7. QED BY <1>3, <1>4, <1>5, <1>6 DEF Core

LEMMA AdvanceClockKeepsCore ==
  ASSUME Core, AdvanceClock
  PROVE  Core'
<1>1. clock' \in Time
  BY PipelineAssumption DEF AdvanceClock, Core, RestOK, Time
<1>2. UNCHANGED <<output_enabled, output_generation, claims, next_sequence, sessions,
                  active_backend_sessions, publication_permits, next_publication_token,
                  servo_retry_after, pending_events, last_tick_time, tick, admitted, delivered>>
  BY DEF AdvanceClock, permission, arbiter, history
<1>3. QED
  BY <1>1, <1>2 DEF Core, ClaimsOK, SessionsOK, SessionsHoldClaims, PermitsOK, RestOK,
                    TickOK, LockFree

LEMMA StutterKeepsCore ==
  ASSUME Core, UNCHANGED vars
  PROVE  Core'
  BY DEF vars, permission, arbiter, history, Core, ClaimsOK, SessionsOK, SessionsHoldClaims,
         PermitsOK, RestOK, TickOK, LockFree

LEMMA CoreStep ==
  ASSUME Core, [Next]_vars
  PROVE  Core'
<1>1. CASE Others
  BY <1>1, SubmitMoveKeepsCore, CancelKeepsCore, SetOutputPermitKeepsCore DEF Others
<1>2. CASE Control
  <2>1. ASSUME NEW s \in tick.todo, ComputeWinner(s) PROVE Core'
    BY <2>1, AbandonKeepsCore, WaitForRetryKeepsCore, TimeOutMoveKeepsCore,
       ComputeKeepsCore, FailBackendKeepsCore, DriveKeepsCore, ReachGoalKeepsCore,
       MissGoalKeepsCore DEF ComputeWinner
  <2>2. QED
    BY <1>2, <2>1, UpdateServoKeepsCore, BeginTickKeepsCore, FinishTickKeepsCore,
       PublishCommandsKeepsCore DEF Control
<1>3. CASE AdvanceClock
  BY <1>3, AdvanceClockKeepsCore
<1>4. CASE UNCHANGED vars
  BY <1>4, StutterKeepsCore
<1>5. QED BY <1>1, <1>2, <1>3, <1>4 DEF Next

LEMMA CoreInit ==
  ASSUME Init
  PROVE  Core
<1>1. ClaimsOK /\ SessionsOK
  BY FS_EmptySet DEF Init, ClaimsOK, ClaimedBefore, ClaimMap, SessionsOK, SessionsHoldClaims
<1>2. TickOK
  BY PipelineAssumption DEF Init, Idle, TickOK, TickRecord, Time
<1>3. PermitsOK /\ RestOK
  BY PipelineAssumption DEF Init, PermitsOK, RestOK, Time
<1>4. QED BY <1>1, <1>2, <1>3 DEF Core

LEMMA CoreIsInvariant == Spec => []Core
<1>1. Init => Core
  BY CoreInit
<1>2. Core /\ [Next]_vars => Core'
  BY CoreStep
<1>3. QED BY <1>1, <1>2, PTL DEF Spec

(* Every variable keeps its type.                                          *)
THEOREM TypeCorrect == Spec => []TypeOK
  BY CoreIsInvariant, CoreHasTypes, PTL

(* For any endpoints, priorities and leases, the arbiter holds a claim for *)
(* exactly the live sessions.                                              *)
THEOREM SessionsAlwaysHoldClaims == Spec => []SessionsHoldClaims
<1>1. Core => SessionsHoldClaims
  BY DEF Core, SessionsOK
<1>2. QED BY <1>1, CoreIsInvariant, PTL

-----------------------------------------------------------------------------
(* The steps, in four kinds.  What follows is about the kinds, so that an  *)
(* invariant is argued once for the eleven actions that end sessions.      *)

FewerPermits ==
  /\ DOMAIN publication_permits' \subseteq DOMAIN publication_permits
  /\ \A j \in DOMAIN publication_permits' :
       publication_permits'[j] = publication_permits[j]

FewerClaims ==
  /\ DOMAIN claims' \subseteq DOMAIN claims
  /\ \A s \in DOMAIN claims' : claims'[s] = claims[s]

FewerSessions(S) ==
  /\ DOMAIN sessions' = DOMAIN sessions \ S
  /\ \A t \in DOMAIN sessions' : sessions'[t] = sessions[t]
  /\ active_backend_sessions' = active_backend_sessions \ S

(* Cancel, SetOutputPermit, the clock and stuttering: S is canceled.       *)
QuietStep(S) ==
  /\ FewerSessions(S) /\ FewerClaims /\ FewerPermits
  /\ \A j \in DOMAIN publication_permits' : publication_permits'[j].session \notin S
  /\ pending_events' = pending_events \cup Ends(S, "CANCELED")
  /\ UNCHANGED <<tick, next_sequence, next_publication_token, admitted, delivered, output>>
  /\ \/ output_enabled' = output_enabled
     \/ output_enabled' = TRUE
     \/ DOMAIN sessions' = {} /\ publication_permits' = <<>>

(* SubmitMove and UpdateServo: s is stored if stored is {s}.               *)
StoreStep(s, stored, ended, preempted) ==
  /\ LockFree /\ output_enabled /\ output_enabled' = output_enabled
  /\ stored \in SUBSET {s}
  /\ preempted = ended \cap MoveId /\ preempted \subseteq DOMAIN sessions
  /\ DOMAIN sessions' = (DOMAIN sessions \ ended) \cup stored
  /\ \A t \in DOMAIN sessions' \ {s} : /\ sessions'[t] = sessions[t]
                                       /\ claims'[t] = claims[t]
  /\ s \in DOMAIN sessions' =>
       /\ s \in DOMAIN sessions \ ended =>
            /\ sessions'[s].endpoint = sessions[s].endpoint
            /\ sessions'[s].backend_started = sessions[s].backend_started
       /\ s \notin DOMAIN sessions \ ended => sessions'[s].backend_started = FALSE
  /\ active_backend_sessions' = active_backend_sessions \ ended
  /\ FewerPermits
  /\ \A j \in DOMAIN publication_permits' : publication_permits'[j].session \notin ended
  /\ pending_events' = pending_events \cup Ends(preempted, "PREEMPTED")
  /\ stored \cap admitted = {} /\ admitted' = admitted \cup (stored \cap MoveId)
  /\ UNCHANGED <<tick, next_publication_token, delivered, output>>
  /\ \/ tick.phase = "idle"
     \/ /\ s \in MoveId
        /\ s \in DOMAIN sessions' =>
             Joints[claims'[s].endpoint] \cap DOMAIN publication_permits' = {}

(* The winner loop: s may end and may have an output appended, under token.*)
LoopStep(s, ended, state, token) ==
  /\ s \in tick.todo /\ tick.phase \in {"select", "compute"}
  /\ ended \in SUBSET {s} /\ state \in {"SUCCEEDED", "ABORTED"}
  /\ \/ FewerSessions(ended)
     \/ /\ ended = {} /\ sessions' = [sessions EXCEPT ![s].backend_started = TRUE]
        /\ active_backend_sessions' = active_backend_sessions \cup {s}
  /\ FewerClaims
  /\ pending_events' = pending_events \cup Ends(ended, state)
  /\ UNCHANGED <<clock, output_enabled, next_sequence, admitted, delivered, output>>
  /\ tick'.todo \subseteq tick.todo /\ tick'.phase \in {"select", "compute"}
  /\ tick'.events = tick.events /\ tick'.started_at = tick.started_at
  /\ tick'.feedback = tick.feedback /\ tick'.sequence = tick.sequence
  /\ token \in Nat /\ next_publication_token <= token
  /\ \/ /\ FewerPermits /\ tick'.commands = tick.commands
        /\ next_publication_token' = next_publication_token
     \/ /\ publication_permits' = Permitted(s, token)
        /\ next_publication_token' = token + 1
        /\ \/ tick'.commands = tick.commands
           \/ tick'.commands = tick.commands \cup {Command(s, token)}

LEMMA EndingStep ==
  ASSUME NEW S, EndSessions(S)
  PROVE  FewerSessions(S) /\ FewerClaims
  BY DEF EndSessions, FewerSessions, FewerClaims, Without, Restrict

LEMMA RemovingPermits ==
  ASSUME NEW S, NEW J,
         \/ publication_permits' = PermitsNotOf(S)
         \/ publication_permits' = Without(PermitsNotOf(S), J)
  PROVE  /\ FewerPermits
         /\ \A j \in DOMAIN publication_permits' : publication_permits'[j].session \notin S
         /\ publication_permits' = Without(PermitsNotOf(S), J) =>
              J \cap DOMAIN publication_permits' = {}
  BY DEF FewerPermits, PermitsNotOf, Without, Restrict

LEMMA NothingChanged ==
  ASSUME SessionsOK, UNCHANGED <<claims, sessions, active_backend_sessions, publication_permits>>
  PROVE  FewerSessions({}) /\ FewerClaims /\ FewerPermits
  BY DEF FewerSessions, FewerClaims, FewerPermits

LEMMA NothingEnds ==
  ASSUME NEW state
  PROVE  Ends({}, state) = {}
  BY DEF Ends

LEMMA OthersAreQuiet ==
  ASSUME Core,
         \/ \E s \in Session : Cancel(s)
         \/ \E enabled \in BOOLEAN : \E generation : SetOutputPermit(enabled, generation)
         \/ AdvanceClock
         \/ UNCHANGED vars
  PROVE  \E S : QuietStep(S)
<1>1. ASSUME NEW s \in Session, Cancel(s) PROVE QuietStep({s})
  BY <1>1, EndingStep, RemovingPermits DEF Cancel, QuietStep, permission, history
<1>2. ASSUME NEW enabled \in BOOLEAN, NEW generation, SetOutputPermit(enabled, generation),
             ~Confirms(enabled, generation)
      PROVE  QuietStep(DOMAIN sessions)
  <2>1. /\ EndSessions(DOMAIN sessions) /\ publication_permits' = <<>>
        /\ pending_events' = pending_events \cup Ends(DOMAIN sessions, "CANCELED")
        /\ UNCHANGED <<tick, next_sequence, next_publication_token, admitted, delivered, output>>
    BY <1>2 DEF SetOutputPermit, history
  <2>2. DOMAIN publication_permits' = {}
    BY <2>1
  <2>3. FewerSessions(DOMAIN sessions) /\ FewerClaims /\ FewerPermits
    BY <2>1, <2>2, EndingStep DEF FewerPermits
  <2>4. DOMAIN sessions' = {}
    BY <2>3 DEF FewerSessions
  <2>5. QED BY <2>1, <2>2, <2>3, <2>4 DEF QuietStep
<1>3. ASSUME NEW enabled \in BOOLEAN, NEW generation, SetOutputPermit(enabled, generation),
             Confirms(enabled, generation)
      PROVE  QuietStep({})
  <2>1. /\ output_enabled' = TRUE
        /\ UNCHANGED <<sessions, active_backend_sessions, claims, publication_permits,
                       pending_events, tick, next_sequence, next_publication_token,
                       admitted, delivered, output>>
    BY <1>3 DEF SetOutputPermit, Confirms, history
  <2>2. QED BY <2>1, NothingChanged, NothingEnds DEF QuietStep, Core
<1>4. ASSUME AdvanceClock \/ UNCHANGED vars PROVE QuietStep({})
  <2>1. UNCHANGED <<sessions, active_backend_sessions, claims, publication_permits,
                    pending_events, tick, next_sequence, next_publication_token,
                    admitted, delivered, output, output_enabled>>
    BY <1>4 DEF AdvanceClock, vars, permission, arbiter, history
  <2>2. QED BY <2>1, NothingChanged, NothingEnds DEF QuietStep, Core
<1>5. QED BY <1>1, <1>2, <1>3, <1>4

LEMMA SubmitMoveIsStore ==
  ASSUME Core, NEW m \in MoveId, NEW e \in MoveEndpoint, NEW now \in Now,
         SubmitMove(m, e, now)
  PROVE  \E stored, ended, preempted : StoreStep(m, stored, ended, preempted)
<1> DEFINE result == submitMove(claims, next_sequence, m, e, now)
           ended == result.preempted \cup result.expired
           stored == {t \in {m} : result.admitted}
           claim == StoredClaim(e, next_sequence, now)
<1>1. now \in Time
  BY TimesAreIntegers
<1>2. /\ LockFree /\ output_enabled /\ m \notin admitted
      /\ active_backend_sessions' = active_backend_sessions \ ended
      /\ pending_events' = pending_events \cup Ends(result.preempted, "PREEMPTED")
      /\ claims' = result.claims
      /\ UNCHANGED <<tick, next_publication_token, delivered, output, output_enabled>>
  BY DEF SubmitMove, permission
<1>3. result.admitted \in BOOLEAN
  BY DEF submitMove
<1>4. /\ admitted' = admitted \cup stored
      /\ \E J : \/ publication_permits' = PermitsNotOf(ended)
                \/ publication_permits' = Without(PermitsNotOf(ended), J)
      /\ m \in stored => publication_permits' = Without(PermitsNotOf(ended), Joints[e])
  <2>1. CASE result.admitted
    BY <2>1 DEF SubmitMove
  <2>2. CASE ~result.admitted
    BY <2>2 DEF SubmitMove
  <2>3. QED BY <1>3, <2>1, <2>2
<1>5. result = submitMove(claims, next_sequence, m, e, now)
  OBVIOUS
<1>6. ended = result.preempted \cup result.expired /\ stored = {t \in {m} : result.admitted}
  OBVIOUS
<1>7. stored \in SUBSET {m}
  OBVIOUS
<1> HIDE DEF result, ended, stored
<1>8. /\ ResultOK(claims, m, claim, now, result, stored)
      /\ m \notin DOMAIN sessions /\ m \notin ended
      /\ DOMAIN sessions' = (DOMAIN sessions \ ended) \cup stored
      /\ \A t \in DOMAIN sessions' :
           sessions'[t] = IF t = m THEN NewSession(e, now) ELSE sessions[t]
      /\ result.preempted \subseteq MoveId \cap DOMAIN sessions
      /\ result.expired \cap MoveId = {}
  <2>1. ClaimsOK /\ SessionsOK
    BY DEF Core
  <2>2. MoveSubmitted(m, e, now, result, ended, stored)
    BY <2>1, <1>1, <1>5, <1>6, SubmitMoveStores
  <2>3. QED BY <2>2 DEF MoveSubmitted
<1>9. /\ \A t \in DOMAIN claims' : claims'[t] = IF t = m THEN claim ELSE claims[t]
      /\ DOMAIN claims' = ((DOMAIN claims \ ended) \ {m}) \cup stored
  BY <1>2, <1>6, <1>8 DEF ResultOK
<1>10. DOMAIN claims = DOMAIN sessions
  BY DEF Core, SessionsOK, SessionsHoldClaims
<1>11. \A t \in DOMAIN sessions' \ {m} : sessions'[t] = sessions[t] /\ claims'[t] = claims[t]
  BY <1>8, <1>9, <1>10
<1>12. m \in DOMAIN sessions' => sessions'[m].backend_started = FALSE
  BY <1>8 DEF NewSession
<1>13. /\ FewerPermits
       /\ \A j \in DOMAIN publication_permits' : publication_permits'[j].session \notin ended
  BY <1>4, RemovingPermits
<1>14. m \in DOMAIN sessions' => Joints[claims'[m].endpoint] \cap DOMAIN publication_permits' = {}
  <2> SUFFICES ASSUME m \in DOMAIN sessions'
               PROVE  Joints[claims'[m].endpoint] \cap DOMAIN publication_permits' = {}
    OBVIOUS
  <2>1. m \in stored
    BY <1>8
  <2>2. claims'[m].endpoint = e
    BY <1>9, <2>1 DEF StoredClaim
  <2>3. QED BY <1>4, <2>1, <2>2, RemovingPermits
<1>15. /\ result.preempted = ended \cap MoveId /\ result.preempted \subseteq DOMAIN sessions
       /\ stored \cap admitted = {} /\ admitted' = admitted \cup (stored \cap MoveId)
  BY <1>2, <1>4, <1>6, <1>7, <1>8
<1>16. StoreStep(m, stored, ended, result.preempted)
  BY <1>2, <1>7, <1>8, <1>11, <1>12, <1>13, <1>14, <1>15 DEF StoreStep
<1>17. QED BY <1>16

LEMMA UpdateServoIsStore ==
  ASSUME Core, NEW s \in ServoEndpoint, NEW received_at \in Time, NEW now \in Now,
         UpdateServo(s, received_at, now)
  PROVE  \E stored, ended, preempted : StoreStep(s, stored, ended, preempted)
<1> DEFINE result == updateServo(claims, next_sequence, s, received_at, now)
           ended == result.preempted \cup result.expired
           claim == StoredClaim(s, next_sequence, received_at)
           J == IF result.admitted THEN Joints[s] ELSE {}
<1>1. now \in Time /\ s \notin MoveId
  BY TimesAreIntegers, ArbitrationAssumption
<1>2. /\ tick.phase = "idle" /\ LockFree /\ output_enabled
      /\ active_backend_sessions' = active_backend_sessions \ ended
      /\ pending_events' = pending_events \cup Ends(result.preempted, "PREEMPTED")
      /\ claims' = result.claims
      /\ publication_permits' = Without(PermitsNotOf(ended), J)
      /\ UNCHANGED <<tick, next_publication_token, delivered, output, output_enabled, admitted>>
  BY DEF UpdateServo, permission, history, LockFree
<1>3. result = updateServo(claims, next_sequence, s, received_at, now)
  OBVIOUS
<1>4. ended = result.preempted \cup result.expired
  OBVIOUS
<1> HIDE DEF result, ended, J
<1>5. /\ ResultOK(claims, s, claim, now, result, {s})
      /\ DOMAIN sessions' = (DOMAIN sessions \ ended) \cup {s}
      /\ \A t \in DOMAIN sessions' :
           sessions'[t] = IF t = s THEN ServoRecord(s, received_at, result.expired)
                                   ELSE sessions[t]
      /\ result.preempted \subseteq MoveId \cap DOMAIN sessions
      /\ result.expired \cap MoveId = {}
  <2>1. ClaimsOK /\ SessionsOK
    BY DEF Core
  <2>2. ServoUpdated(s, received_at, now, result, ended)
    BY <2>1, <1>1, <1>3, <1>4, UpdateServoStores
  <2>3. QED BY <2>2 DEF ServoUpdated
<1>6. /\ \A t \in DOMAIN claims' : claims'[t] = IF t = s THEN claim ELSE claims[t]
      /\ DOMAIN claims' = ((DOMAIN claims \ ended) \ {s}) \cup {s}
  BY <1>2, <1>4, <1>5 DEF ResultOK
<1>7. DOMAIN claims = DOMAIN sessions /\ admitted \subseteq MoveId
  BY DEF Core, SessionsOK, SessionsHoldClaims, RestOK
<1>8. \A t \in DOMAIN sessions' \ {s} : sessions'[t] = sessions[t] /\ claims'[t] = claims[t]
  BY <1>5, <1>6, <1>7
<1>9. DOMAIN sessions \ ended = DOMAIN sessions \ ended /\ (s \in ended <=> s \in result.expired)
  BY <1>1, <1>4, <1>5
<1>10. s \in DOMAIN sessions \ ended =>
         /\ sessions'[s].endpoint = sessions[s].endpoint
         /\ sessions'[s].backend_started = sessions[s].backend_started
  <2> SUFFICES ASSUME s \in DOMAIN sessions \ ended
               PROVE  /\ sessions'[s].endpoint = sessions[s].endpoint
                      /\ sessions'[s].backend_started = sessions[s].backend_started
    OBVIOUS
  <2>1. sessions'[s] = [sessions[s] EXCEPT !.submitted_at = received_at]
    BY <1>5, <1>9 DEF ServoRecord
  <2>2. sessions[s] \in SessionRecord
    BY DEF Core, SessionsOK
  <2>3. QED BY <2>1, <2>2 DEF SessionRecord
<1>11. s \notin DOMAIN sessions \ ended => sessions'[s].backend_started = FALSE
  BY <1>5, <1>9 DEF ServoRecord, NewSession
<1>12. /\ FewerPermits
       /\ \A j \in DOMAIN publication_permits' : publication_permits'[j].session \notin ended
  BY <1>2, RemovingPermits
<1>13. /\ result.preempted = ended \cap MoveId /\ result.preempted \subseteq DOMAIN sessions
       /\ {s} \cap admitted = {} /\ admitted' = admitted \cup ({s} \cap MoveId)
  BY <1>1, <1>2, <1>4, <1>5, <1>7
<1>14. StoreStep(s, {s}, ended, result.preempted)
  BY <1>2, <1>5, <1>8, <1>10, <1>11, <1>12, <1>13 DEF StoreStep
<1>15. QED BY <1>14

(* What the parts of a winner's computation contribute.                    *)
LEMMA EndInTickIsLoop ==
  ASSUME NEW s, NEW state, EndInTick(s, state)
  PROVE  /\ FewerSessions({s}) /\ FewerClaims
         /\ pending_events' = pending_events \cup Ends({s}, state)
         /\ UNCHANGED <<clock, output_enabled, next_sequence, admitted, delivered, output>>
  BY EndingStep DEF EndInTick, permission, history

TickGoesOn ==
  /\ tick'.todo \subseteq tick.todo /\ tick'.phase \in {"select", "compute"}
  /\ tick'.events = tick.events /\ tick'.started_at = tick.started_at
  /\ tick'.feedback = tick.feedback /\ tick'.sequence = tick.sequence

LEMMA DoneGoesOn ==
  ASSUME TickOK, NEW s
  PROVE  /\ tick' = Done(s, "select") => TickGoesOn /\ tick'.commands = tick.commands
         /\ \A c : tick' = [Done(s, "select") EXCEPT !.commands = @ \cup {c}] =>
              TickGoesOn /\ tick'.commands = tick.commands \cup {c}
<1>1. tick \in TickRecord
  BY DEF TickOK
<1>2. ASSUME tick' = Done(s, "select")
      PROVE  TickGoesOn /\ tick'.commands = tick.commands
  BY <1>1, <1>2 DEF TickRecord, Done, TickGoesOn
<1>3. ASSUME NEW c, tick' = [Done(s, "select") EXCEPT !.commands = @ \cup {c}]
      PROVE  TickGoesOn /\ tick'.commands = tick.commands \cup {c}
  BY <1>1, <1>3 DEF TickRecord, Done, TickGoesOn
<1>4. QED BY <1>2, <1>3

LEMMA AppendLastGoesOn ==
  ASSUME Core, NEW s, NEW count \in {1, 2}, AppendLast(s, count),
         NEW token, token = next_publication_token + count - 1
  PROVE  /\ TickGoesOn /\ tick'.commands = tick.commands \cup {Command(s, token)}
         /\ publication_permits' = Permitted(s, token)
         /\ next_publication_token' = token + 1
<1>1. next_publication_token \in Nat
  BY DEF Core, PermitsOK
<1>2. /\ tick' = [Done(s, "select") EXCEPT !.commands = @ \cup {Command(s, token)}]
      /\ publication_permits' = Permitted(s, token)
      /\ next_publication_token' = next_publication_token + count
  BY DEF AppendLast
<1>3. next_publication_token' = token + 1
  BY <1>1, <1>2
<1> DEFINE c == Command(s, token)
<1>4. tick' = [Done(s, "select") EXCEPT !.commands = @ \cup {c}]
  BY <1>2
<1> HIDE DEF c
<1>5. TickGoesOn /\ tick'.commands = tick.commands \cup {c}
  BY <1>4, DoneGoesOn DEF Core
<1>6. QED BY <1>2, <1>3, <1>5 DEF c

LEMMA StopControlledIsLoop ==
  ASSUME Core, NEW s, IsNext(s), StopControlled(s)
  PROVE  \E ended, state, token : LoopStep(s, ended, state, token)
<1>1. /\ s \in tick.todo /\ s \in DOMAIN sessions /\ s \in Session
      /\ tick.phase \in {"select", "compute"} /\ next_publication_token \in Nat
  BY NextWinner DEF Core, PermitsOK
<1>2. /\ FewerSessions({s}) /\ FewerClaims
      /\ pending_events' = pending_events \cup Ends({s}, "ABORTED")
      /\ UNCHANGED <<clock, output_enabled, next_sequence, admitted, delivered, output>>
  BY EndInTickIsLoop DEF StopControlled
<1>3. /\ TickGoesOn
      /\ \/ /\ FewerPermits /\ tick'.commands = tick.commands
            /\ next_publication_token' = next_publication_token
         \/ /\ publication_permits' = Permitted(s, next_publication_token)
            /\ next_publication_token' = next_publication_token + 1
            /\ tick'.commands = tick.commands \cup {Command(s, next_publication_token)}
  <2>1. CASE AppendLast(s, 1)
    BY <1>1, <2>1, AppendLastGoesOn
  <2>2. CASE AppendNothing(s) /\ UNCHANGED publication_permits
    BY <2>2, DoneGoesOn DEF AppendNothing, Core, FewerPermits
  <2>3. QED BY <2>1, <2>2 DEF StopControlled
<1>4. LoopStep(s, {s}, "ABORTED", next_publication_token)
  BY <1>1, <1>2, <1>3 DEF LoopStep, TickGoesOn
<1>5. QED BY <1>4

LEMMA ComputeWinnerIsLoop ==
  ASSUME Core, NEW s, ComputeWinner(s)
  PROVE  \E ended, state, token : LoopStep(s, ended, state, token)
<1> DEFINE n == next_publication_token
<1>1. IsNext(s)
  BY DEF ComputeWinner, Abandon, WaitForRetry, TimeOutMove, Compute, FailBackend, Drive,
         ReachGoal, MissGoal
<1>2. /\ s \in tick.todo /\ s \in DOMAIN sessions /\ s \in Session
      /\ tick.phase \in {"select", "compute"} /\ n \in Nat
  BY <1>1, NextWinner DEF Core, PermitsOK
<1>3. ASSUME Abandon(s) PROVE LoopStep(s, {s}, "ABORTED", n)
  <2>1. /\ FewerSessions({s}) /\ FewerClaims
        /\ pending_events' = pending_events \cup Ends({s}, "ABORTED")
        /\ UNCHANGED <<clock, output_enabled, next_sequence, admitted, delivered, output>>
    BY <1>3, EndInTickIsLoop DEF Abandon
  <2>2. FewerPermits
    BY <1>3, RemovingPermits DEF Abandon
  <2>3. TickGoesOn /\ tick'.commands = tick.commands /\ n' = n
    BY <1>3, DoneGoesOn DEF Abandon, AppendNothing, Core
  <2>4. QED BY <1>2, <2>1, <2>2, <2>3 DEF LoopStep, TickGoesOn
<1>4. ASSUME WaitForRetry(s) PROVE LoopStep(s, {}, "ABORTED", n)
  <2>1. UNCHANGED <<clock, output_enabled, next_sequence, claims, sessions,
                    active_backend_sessions, publication_permits, pending_events,
                    admitted, delivered, output>>
    BY <1>4 DEF WaitForRetry, permission, arbiter, history
  <2>2. TickGoesOn /\ tick'.commands = tick.commands /\ n' = n
    BY <1>4, DoneGoesOn DEF WaitForRetry, AppendNothing, Core
  <2>3. QED BY <1>2, <2>1, <2>2, NothingChanged, NothingEnds DEF LoopStep, TickGoesOn, Core
<1>5. ASSUME Compute(s) PROVE LoopStep(s, {}, "ABORTED", n)
  <2>1. UNCHANGED <<clock, output_enabled, next_sequence, claims, sessions,
                    active_backend_sessions, publication_permits, pending_events,
                    next_publication_token, admitted, delivered, output>>
    BY <1>5 DEF Compute, permission, arbiter, history
  <2>2. TickGoesOn /\ tick'.commands = tick.commands
    BY <1>5 DEF Compute, TickGoesOn, Core, TickOK, TickRecord
  <2>3. QED BY <1>2, <2>1, <2>2, NothingChanged, NothingEnds DEF LoopStep, TickGoesOn, Core
<1>6. ASSUME Drive(s) PROVE LoopStep(s, {}, "ABORTED", n)
  <2>1. /\ AppendLast(s, 1)
        /\ sessions' = [sessions EXCEPT ![s].backend_started = TRUE]
        /\ active_backend_sessions' = active_backend_sessions \cup {s}
        /\ UNCHANGED <<clock, output_enabled, next_sequence, claims, pending_events,
                       admitted, delivered, output>>
    BY <1>6 DEF Drive, permission, arbiter, history
  <2>2. /\ TickGoesOn /\ tick'.commands = tick.commands \cup {Command(s, n)}
        /\ publication_permits' = Permitted(s, n) /\ n' = n + 1
    BY <1>2, <2>1, AppendLastGoesOn
  <2>3. FewerClaims
    BY <2>1 DEF FewerClaims
  <2>4. QED BY <1>2, <2>1, <2>2, <2>3, NothingEnds DEF LoopStep, TickGoesOn
<1>7. ASSUME ReachGoal(s) PROVE LoopStep(s, {s}, "SUCCEEDED", n)
  <2>1. /\ FewerSessions({s}) /\ FewerClaims
        /\ pending_events' = pending_events \cup Ends({s}, "SUCCEEDED")
        /\ UNCHANGED <<clock, output_enabled, next_sequence, admitted, delivered, output>>
    BY <1>7, EndInTickIsLoop DEF ReachGoal
  <2>2. /\ TickGoesOn /\ tick'.commands = tick.commands \cup {Command(s, n)}
        /\ publication_permits' = Permitted(s, n) /\ n' = n + 1
    BY <1>2, <1>7, AppendLastGoesOn DEF ReachGoal
  <2>3. QED BY <1>2, <2>1, <2>2 DEF LoopStep, TickGoesOn
<1>8. ASSUME MissGoal(s) PROVE \E token : LoopStep(s, {s}, "ABORTED", token)
  <2>1. /\ FewerSessions({s}) /\ FewerClaims
        /\ pending_events' = pending_events \cup Ends({s}, "ABORTED")
        /\ UNCHANGED <<clock, output_enabled, next_sequence, admitted, delivered, output>>
    BY <1>8, EndInTickIsLoop DEF MissGoal
  <2>2. CASE AppendLast(s, 2)
    <3>1. /\ TickGoesOn /\ tick'.commands = tick.commands \cup {Command(s, n + 1)}
          /\ publication_permits' = Permitted(s, n + 1) /\ n' = (n + 1) + 1
          /\ n + 1 \in Nat /\ n <= n + 1
      BY <1>2, <2>2, AppendLastGoesOn
    <3>2. LoopStep(s, {s}, "ABORTED", n + 1)
      BY <1>2, <2>1, <3>1 DEF LoopStep, TickGoesOn
    <3>3. QED BY <3>2
  <2>3. CASE n' = n + 1 /\ publication_permits' = Permitted(s, n) /\ tick' = Done(s, "select")
    <3>1. TickGoesOn /\ tick'.commands = tick.commands
      BY <2>3, DoneGoesOn DEF Core
    <3>2. LoopStep(s, {s}, "ABORTED", n)
      BY <1>2, <2>1, <2>3, <3>1 DEF LoopStep, TickGoesOn
    <3>3. QED BY <3>2
  <2>4. QED BY <1>8, <2>2, <2>3 DEF MissGoal
<1>9. ASSUME TimeOutMove(s) \/ FailBackend(s)
      PROVE  \E ended, state, token : LoopStep(s, ended, state, token)
  BY <1>1, <1>9, StopControlledIsLoop DEF TimeOutMove, FailBackend
<1>10. QED BY <1>3, <1>4, <1>5, <1>6, <1>7, <1>8, <1>9 DEF ComputeWinner

\* RunningMoveRunsToItsEnd of one step.
MovesRunOn ==
  \A m \in active_backend_sessions \cap MoveId :
    m \in DOMAIN sessions' => m \in active_backend_sessions'

(* The head of tick: ended sessions are gone, the others compete anew.     *)
HeadStep(ended) ==
  /\ tick.phase = "idle"
  /\ DOMAIN sessions' = DOMAIN sessions \ ended
  /\ \A t \in DOMAIN sessions' :
       /\ sessions'[t].endpoint = sessions[t].endpoint
       /\ sessions'[t].backend_started <=> t \in active_backend_sessions'
  /\ active_backend_sessions' \subseteq active_backend_sessions \ ended
  /\ \A s, t \in active_backend_sessions' \cup tick'.todo :
       s # t => ~Overlap(claims[s].endpoint, claims[t].endpoint)
  /\ MovesLead(claims) => MovesRunOn
  /\ FewerClaims /\ FewerPermits
  /\ \A j \in DOMAIN publication_permits' : publication_permits'[j].session \notin ended
  /\ pending_events' = {}
  /\ tick'.events = pending_events \cup Ends(ended, "ABORTED")
  /\ tick'.commands = {} /\ tick'.phase = "select" /\ tick'.sequence = next_sequence
  /\ UNCHANGED <<output_enabled, next_sequence, next_publication_token,
                 admitted, delivered, output>>

(* The tail of tick.                                                       *)
TailStep(ended) ==
  /\ tick.phase = "select" /\ tick'.phase = "publish" /\ tick'.todo = {}
  /\ FewerSessions(ended) /\ FewerClaims /\ FewerPermits
  /\ \A j \in DOMAIN publication_permits' : publication_permits'[j].session \notin ended
  /\ pending_events' = {}
  /\ tick'.events = tick.events \cup pending_events \cup Ends(ended, "ABORTED")
  /\ tick'.commands \subseteq tick.commands /\ tick'.started_at = tick.started_at
  /\ tick'.feedback = tick.feedback /\ tick'.sequence = tick.sequence
  /\ UNCHANGED <<clock, output_enabled, next_sequence, next_publication_token,
                 admitted, delivered, output>>

PublishStep(ended) ==
  /\ tick.phase = "publish" /\ tick' = Idle
  /\ FewerSessions(ended) /\ FewerClaims /\ FewerPermits
  /\ \A j \in DOMAIN publication_permits' : publication_permits'[j].session \notin ended
  /\ pending_events' = pending_events \cup Ends(ended, "ABORTED")
  /\ delivered' = delivered \cup tick.events
  /\ output' = output \/ output' = [j \in Joint |-> output'[j]]
  /\ UNCHANGED <<clock, output_enabled, next_sequence, next_publication_token, admitted>>

LEMMA BeginTickIsHead ==
  ASSUME Core, NEW now, NEW feedback, BeginTick(now, feedback)
  PROVE  \E ended : HeadStep(ended)
<1> DEFINE winners == computeWinners(claims, clock)
           expired == DOMAIN claims \ DOMAIN Unexpired(claims, clock)
           gap     == last_tick_time # Never /\ now - last_tick_time > MaxPeriod
           running == active_backend_sessions \ expired
           aborted == EndedByGap(running, gap)
           goes_on == GoesOn(running, winners, gap)
           ended   == expired \cup aborted
<1>1. /\ tick.phase = "idle"
      /\ claims' = Without(claims, ended)
      /\ active_backend_sessions' = goes_on
      /\ sessions' = [s \in DOMAIN sessions \ ended |->
                        [sessions[s] EXCEPT !.backend_started = s \in active_backend_sessions']]
      /\ publication_permits' = PermitsNotOf(ended)
      /\ pending_events' = {}
      /\ tick'.todo = winners \ ended /\ tick'.commands = {}
      /\ tick'.phase = "select" /\ tick'.sequence = next_sequence
      /\ tick'.events = pending_events \cup Ends(aborted, "ABORTED")
      /\ UNCHANGED <<output_enabled, next_sequence, next_publication_token,
                     admitted, delivered, output>>
  BY DEF BeginTick, permission, history
<1>2. /\ expired \cap MoveId = {}
      /\ \A s, t \in winners : s # t => ~Overlap(claims[s].endpoint, claims[t].endpoint)
  BY EvaluationFacts DEF Core
<1>3. Ends(aborted, "ABORTED") = Ends(ended, "ABORTED")
  BY <1>2 DEF Ends
<1>4. goes_on \subseteq active_backend_sessions \ ended /\ goes_on \subseteq winners
  BY DEF GoesOn, EndedByGap
<1> HIDE DEF winners, expired, gap, running, aborted, goes_on, ended
<1>5. FewerPermits /\ \A j \in DOMAIN publication_permits' :
                        publication_permits'[j].session \notin ended
  BY <1>1, RemovingPermits
<1>6. FewerClaims
  <2>1. claims' = Without(claims, ended)
    BY <1>1
  <2>2. QED BY ONLY <2>1 DEF FewerClaims, Without, Restrict
<1>7. \A s, t \in active_backend_sessions' \cup tick'.todo :
        s # t => ~Overlap(claims[s].endpoint, claims[t].endpoint)
  BY <1>1, <1>2, <1>4
<1>8. DOMAIN sessions' = DOMAIN sessions \ ended
  BY <1>1
<1>9. \A t \in DOMAIN sessions' :
        /\ sessions'[t].endpoint = sessions[t].endpoint
        /\ sessions'[t].backend_started <=> t \in active_backend_sessions'
  <2> SUFFICES ASSUME NEW t \in DOMAIN sessions \ ended
               PROVE  /\ sessions'[t].endpoint = sessions[t].endpoint
                      /\ sessions'[t].backend_started <=> t \in active_backend_sessions'
    BY <1>8
  <2> DEFINE started == t \in active_backend_sessions'
  <2>1. sessions[t] \in SessionRecord
    BY DEF Core, SessionsOK
  <2>2. sessions'[t] = [sessions[t] EXCEPT !.backend_started = started]
    BY <1>1
  <2>3. started \in BOOLEAN
    OBVIOUS
  <2> HIDE DEF started
  <2>4. sessions'[t].endpoint = sessions[t].endpoint /\ sessions'[t].backend_started = started
    BY <2>1, <2>2, <2>3 DEF SessionRecord
  <2>5. QED BY <2>4 DEF started
<1>10. MovesLead(claims) => MovesRunOn
  <2> SUFFICES ASSUME MovesLead(claims), NEW m \in active_backend_sessions \cap MoveId,
                      m \in DOMAIN sessions \ ended
               PROVE  m \in goes_on
    BY <1>1, <1>8 DEF MovesRunOn
  <2>1. m \in running
    BY <1>2 DEF running
  <2>2. ~gap
    BY <2>1 DEF ended, aborted, EndedByGap
  <2>3. m \in winners
    <3>1. m \in DOMAIN claims /\ ClaimMap(claims)
      BY DEF Core, SessionsOK, SessionsHoldClaims, ClaimsOK, ClaimedBefore
    <3>2. m \in DOMAIN Unexpired(claims, clock)
      BY <1>2, <3>1 DEF expired
    <3>3. ClaimMap(Unexpired(claims, clock)) /\ MovesLead(Unexpired(claims, clock))
      BY <3>1, UnexpiredClaimMap, FewerClaimsStillLead DEF Unexpired, Without
    <3>4. QED BY <3>2, <3>3, LeadingMovesWin DEF winners, computeWinners
  <2>4. QED BY <2>1, <2>2, <2>3 DEF goes_on, GoesOn
<1>11. HeadStep(ended)
  BY <1>1, <1>3, <1>4, <1>5, <1>6, <1>7, <1>8, <1>9, <1>10 DEF HeadStep
<1>12. QED BY <1>11

LEMMA FinishTickIsTail ==
  ASSUME Core, FinishTick
  PROVE  \E ended : TailStep(ended)
<1> DEFINE stale == {c \in tick.commands : clock >= c.valid_until}
           ended == {c.session : c \in stale}
<1>1. /\ tick.phase = "select" /\ tick.todo = {}
      /\ EndSessions(ended)
      /\ publication_permits' = PermitsNotOf(ended)
      /\ pending_events' = {}
      /\ tick' = [tick EXCEPT !.phase = "publish", !.commands = @ \ stale,
                    !.events = @ \cup pending_events \cup Ends(ended, "ABORTED")]
      /\ UNCHANGED <<clock, output_enabled, next_sequence, next_publication_token,
                     admitted, delivered, output>>
  BY DEF FinishTick, permission, history
<1> HIDE DEF stale, ended
<1>2. tick \in TickRecord
  BY DEF Core, TickOK
<1>3. /\ tick'.phase = "publish" /\ tick'.todo = {}
      /\ tick'.events = tick.events \cup pending_events \cup Ends(ended, "ABORTED")
      /\ tick'.commands \subseteq tick.commands /\ tick'.started_at = tick.started_at
      /\ tick'.feedback = tick.feedback /\ tick'.sequence = tick.sequence
  BY <1>1, <1>2 DEF TickRecord
<1>4. TailStep(ended)
  BY <1>1, <1>3, EndingStep, RemovingPermits DEF TailStep
<1>5. QED BY <1>4

LEMMA PublishIsPublish ==
  ASSUME Core, PublishCommands
  PROVE  \E ended : PublishStep(ended)
<1>1. PICK ended, consumed :
        /\ EndSessions(ended)
        /\ publication_permits' = Without(PermitsNotOf(ended), consumed)
        /\ pending_events' = pending_events \cup Ends(ended, "ABORTED")
  BY DEF PublishCommands
<1>2. /\ tick.phase = "publish" /\ tick' = Idle /\ delivered' = delivered \cup tick.events
      /\ UNCHANGED <<clock, output_enabled, next_sequence, next_publication_token, admitted>>
  BY DEF PublishCommands, permission
<1>3. output' = output \/ output' = [j \in Joint |-> output'[j]]
  BY DEF PublishCommands
<1>4. PublishStep(ended)
  BY <1>1, <1>2, <1>3, EndingStep, RemovingPermits DEF PublishStep
<1>5. QED BY <1>4

StepIsOfAKind ==
  \/ \E S : QuietStep(S)
  \/ \E s \in Session : \E stored, ended, preempted : StoreStep(s, stored, ended, preempted)
  \/ \E s, ended, state, token : LoopStep(s, ended, state, token)
  \/ \E ended : HeadStep(ended)
  \/ \E ended : TailStep(ended)
  \/ \E ended : PublishStep(ended)

LEMMA StepKinds ==
  ASSUME Core, [Next]_vars
  PROVE  StepIsOfAKind /\ Core'
<1>1. Core'
  BY CoreStep
<1>2. CASE Others
  <2>1. ASSUME NEW m \in MoveId, NEW e \in MoveEndpoint, NEW now \in Now, SubmitMove(m, e, now)
        PROVE  StepIsOfAKind
    BY <2>1, SubmitMoveIsStore DEF StepIsOfAKind, Session
  <2>2. ASSUME \/ \E s \in Session : Cancel(s)
               \/ \E enabled \in BOOLEAN : \E generation : SetOutputPermit(enabled, generation)
        PROVE  StepIsOfAKind
    BY <2>2, OthersAreQuiet DEF StepIsOfAKind
  <2>3. QED BY <1>1, <1>2, <2>1, <2>2 DEF Others
<1>3. CASE Control
  <2>1. ASSUME NEW s \in ServoEndpoint, NEW received_at \in Time, NEW now \in Now,
               UpdateServo(s, received_at, now)
        PROVE  StepIsOfAKind
    BY <2>1, UpdateServoIsStore DEF StepIsOfAKind, Session
  <2>2. ASSUME NEW now, NEW feedback, BeginTick(now, feedback) PROVE StepIsOfAKind
    BY <2>2, BeginTickIsHead DEF StepIsOfAKind
  <2>3. ASSUME NEW s, ComputeWinner(s) PROVE StepIsOfAKind
    BY <2>3, ComputeWinnerIsLoop DEF StepIsOfAKind
  <2>4. FinishTick \/ PublishCommands => StepIsOfAKind
    BY FinishTickIsTail, PublishIsPublish DEF StepIsOfAKind
  <2>5. QED BY <1>1, <1>3, <2>1, <2>2, <2>3, <2>4 DEF Control
<1>4. CASE AdvanceClock \/ UNCHANGED vars
  BY <1>1, <1>4, OthersAreQuiet DEF StepIsOfAKind
<1>5. QED BY <1>2, <1>3, <1>4 DEF Next

-----------------------------------------------------------------------------
(* Events.  A Move has one event at most, in one of the three places, and  *)
(* it has one exactly when it was admitted and is no longer live.          *)

Events == pending_events \cup tick.events \cup delivered

EventsOK ==
  /\ \A m \in MoveId, st, su \in MoveEnd :
       <<m, st>> \in Events /\ <<m, su>> \in Events => st = su
  /\ pending_events \cap tick.events = {} /\ pending_events \cap delivered = {}
  /\ tick.events \cap delivered = {}
  /\ \A m \in MoveId :
       (\E st \in MoveEnd : <<m, st>> \in Events) <=> m \in admitted \ DOMAIN sessions

(* new is reported: it waits, or is taken over with what waits, or the     *)
(* tick's events are handed over.                                          *)
EventsFlow(new) ==
  \/ /\ pending_events' = pending_events \cup new
     /\ tick'.events = tick.events /\ delivered' = delivered
  \/ /\ pending_events' = {} /\ delivered' = delivered
     /\ tick'.events = tick.events \cup pending_events \cup new
  \/ /\ pending_events' = pending_events \cup new
     /\ tick'.events = {} /\ delivered' = delivered \cup tick.events

MovesFlow(S, stored) ==
  /\ DOMAIN sessions' = (DOMAIN sessions \ S) \cup stored
  /\ stored \cap admitted = {} /\ admitted' = admitted \cup (stored \cap MoveId)

LEMMA EventsStep ==
  ASSUME Core, EventsOK, NEW S, NEW stored, NEW R, NEW state \in MoveEnd,
         MovesFlow(S, stored), R \cap MoveId = S \cap MoveId, EventsFlow(Ends(R, state))
  PROVE  EventsOK'
<1> DEFINE new == Ends(R, state)
<1>1. \A m, st : <<m, st>> \in new <=> st = state /\ m \in S \cap DOMAIN sessions \cap MoveId
  BY EndsFacts
<1>2. EventsFlow(new)
  OBVIOUS
<1>3. pending_events \subseteq MoveId \X MoveEnd /\ delivered \subseteq MoveId \X MoveEnd
      /\ tick.events \subseteq MoveId \X MoveEnd /\ new \subseteq MoveId \X MoveEnd
  BY EndsFacts DEF Core, RestOK, TickOK, TickRecord
<1>4. DOMAIN sessions \cap MoveId \subseteq admitted
  BY DEF Core, SessionsOK
<1> HIDE DEF new
<1>5. Events' = Events \cup new
  BY <1>2 DEF EventsFlow, Events
<1>6. \A m \in MoveId, st, su \in MoveEnd : <<m, st>> \in new => <<m, su>> \notin Events
  BY <1>1 DEF EventsOK
<1>7. new \cap Events = {}
  BY <1>3, <1>6
<1>8. /\ pending_events' \cap tick'.events = {} /\ pending_events' \cap delivered' = {}
      /\ tick'.events \cap delivered' = {}
  BY <1>2, <1>7 DEF EventsFlow, EventsOK, Events
<1>9. \A m \in MoveId, st, su \in MoveEnd :
        <<m, st>> \in Events' /\ <<m, su>> \in Events' => st = su
  BY <1>1, <1>5, <1>6 DEF EventsOK
<1>10. ASSUME NEW m \in MoveId
       PROVE  (\E st \in MoveEnd : <<m, st>> \in Events')
                <=> m \in admitted' \ DOMAIN sessions'
  <2>1. (\E st \in MoveEnd : <<m, st>> \in Events') <=>
          (\E st \in MoveEnd : <<m, st>> \in Events) \/ m \in S \cap DOMAIN sessions
    BY <1>1, <1>5
  <2>2. (\E st \in MoveEnd : <<m, st>> \in Events) <=> m \in admitted \ DOMAIN sessions
    BY DEF EventsOK
  <2>3. QED BY <1>4, <2>1, <2>2 DEF MovesFlow
<1>11. QED BY <1>8, <1>9, <1>10 DEF EventsOK

LEMMA KindsKeepEvents ==
  ASSUME Core, EventsOK, StepIsOfAKind
  PROVE  EventsOK'
<1>1. {"CANCELED", "PREEMPTED", "ABORTED", "SUCCEEDED"} \subseteq MoveEnd
  BY DEF MoveEnd
<1>2. ASSUME NEW S, QuietStep(S) PROVE EventsOK'
  <2>1. MovesFlow(S, {}) /\ EventsFlow(Ends(S, "CANCELED"))
    BY <1>2 DEF QuietStep, FewerSessions, MovesFlow, EventsFlow
  <2>2. QED BY <1>1, <2>1, EventsStep
<1>3. ASSUME NEW s, NEW stored, NEW ended, NEW preempted, StoreStep(s, stored, ended, preempted)
      PROVE  EventsOK'
  <2>1. MovesFlow(ended, stored) /\ EventsFlow(Ends(preempted, "PREEMPTED"))
        /\ preempted \cap MoveId = ended \cap MoveId
    BY <1>3 DEF StoreStep, MovesFlow, EventsFlow
  <2>2. QED BY <1>1, <2>1, EventsStep
<1>4. ASSUME NEW s, NEW ended, NEW state, NEW token, LoopStep(s, ended, state, token)
      PROVE  EventsOK'
  <2>1. state \in MoveEnd /\ EventsFlow(Ends(ended, state))
    BY <1>1, <1>4 DEF LoopStep, EventsFlow
  <2>2. MovesFlow(ended, {})
    BY <1>4 DEF LoopStep, FewerSessions, MovesFlow
  <2>3. QED BY <2>1, <2>2, EventsStep
<1>5. ASSUME NEW ended, HeadStep(ended) PROVE EventsOK'
  <2>1. tick.events = {}
    BY <1>5 DEF HeadStep, Core, TickOK, Idle
  <2>2. MovesFlow(ended, {}) /\ EventsFlow(Ends(ended, "ABORTED"))
    BY <1>5, <2>1 DEF HeadStep, MovesFlow, EventsFlow
  <2>3. QED BY <1>1, <2>2, EventsStep
<1>6. ASSUME NEW ended, TailStep(ended) PROVE EventsOK'
  <2>1. MovesFlow(ended, {}) /\ EventsFlow(Ends(ended, "ABORTED"))
    BY <1>6 DEF TailStep, FewerSessions, MovesFlow, EventsFlow
  <2>2. QED BY <1>1, <2>1, EventsStep
<1>7. ASSUME NEW ended, PublishStep(ended) PROVE EventsOK'
  <2>1. MovesFlow(ended, {}) /\ EventsFlow(Ends(ended, "ABORTED"))
    BY <1>7 DEF PublishStep, FewerSessions, MovesFlow, EventsFlow, Idle
  <2>2. QED BY <1>1, <2>1, EventsStep
<1>8. QED BY <1>2, <1>3, <1>4, <1>5, <1>6, <1>7 DEF StepIsOfAKind

LEMMA EventsCount ==
  ASSUME Core, EventsOK
  PROVE  MoveEndsOnce
<1> DEFINE Of(m, events) == {st \in MoveEnd : <<m, st>> \in events}
<1> SUFFICES ASSUME NEW m \in MoveId
             PROVE  Cardinality(Of(m, pending_events)) + Cardinality(Of(m, tick.events))
                      + Cardinality(Of(m, delivered))
                      = IF m \in admitted \ DOMAIN sessions THEN 1 ELSE 0
  BY DEF MoveEndsOnce
<1>1. CASE m \notin admitted \ DOMAIN sessions
  <2>1. Of(m, pending_events) = {} /\ Of(m, tick.events) = {} /\ Of(m, delivered) = {}
    BY <1>1 DEF EventsOK, Events
  <2> HIDE DEF Of
  <2>2. Cardinality({}) = 0
    BY FS_EmptySet
  <2>3. Cardinality(Of(m, pending_events)) + Cardinality(Of(m, tick.events))
          + Cardinality(Of(m, delivered)) = 0
    BY <2>1, <2>2
  <2>4. QED BY <1>1, <2>3
<1>2. CASE m \in admitted \ DOMAIN sessions
  <2>1. PICK st \in MoveEnd : <<m, st>> \in Events
    BY <1>2 DEF EventsOK
  <2>2. \A su \in MoveEnd : <<m, su>> \in Events => su = st
    BY <2>1 DEF EventsOK
  <2>3. \/ Of(m, pending_events) = {st} /\ Of(m, tick.events) = {} /\ Of(m, delivered) = {}
        \/ Of(m, pending_events) = {} /\ Of(m, tick.events) = {st} /\ Of(m, delivered) = {}
        \/ Of(m, pending_events) = {} /\ Of(m, tick.events) = {} /\ Of(m, delivered) = {st}
    <3>1. CASE <<m, st>> \in pending_events
      BY <2>2, <3>1 DEF EventsOK, Events
    <3>2. CASE <<m, st>> \in tick.events
      BY <2>2, <3>2 DEF EventsOK, Events
    <3>3. CASE <<m, st>> \in delivered
      BY <2>2, <3>3 DEF EventsOK, Events
    <3>4. QED BY <2>1, <3>1, <3>2, <3>3 DEF Events
  <2>4. Cardinality({st}) = 1 /\ Cardinality({}) = 0
    BY FS_Singleton, FS_EmptySet
  <2>5. Cardinality(Of(m, pending_events)) + Cardinality(Of(m, tick.events))
          + Cardinality(Of(m, delivered)) = 1
    <3> DEFINE P == Of(m, pending_events)
               T == Of(m, tick.events)
               D == Of(m, delivered)
    <3>1. \/ P = {st} /\ T = {} /\ D = {}
          \/ P = {} /\ T = {st} /\ D = {}
          \/ P = {} /\ T = {} /\ D = {st}
      BY <2>3
    <3> HIDE DEF P, T, D
    <3>2. Cardinality(P) + Cardinality(T) + Cardinality(D) = 1
      BY ONLY <2>4, <3>1
    <3>3. QED BY <3>2 DEF P, T, D
  <2>6. QED BY <1>2, <2>5
<1>3. QED BY <1>1, <1>2

-----------------------------------------------------------------------------
(* The permission, what the backend runs, and the permits.                 *)

SilentOK == ~output_enabled => DOMAIN sessions = {} /\ DOMAIN publication_permits = {}

LEMMA KindsKeepSilence ==
  ASSUME Core, SilentOK, StepIsOfAKind
  PROVE  SilentOK'
<1> USE DEF SilentOK, FewerSessions, FewerPermits
<1>1. ASSUME NEW S, QuietStep(S) PROVE SilentOK'
  <2>1. CASE output_enabled' = output_enabled
    BY <1>1, <2>1 DEF QuietStep
  <2>2. CASE output_enabled' = TRUE
    BY <2>2
  <2>3. CASE DOMAIN sessions' = {} /\ publication_permits' = <<>>
    BY <2>3
  <2>4. QED BY <1>1, <2>1, <2>2, <2>3 DEF QuietStep
<1>2. ASSUME NEW s, NEW stored, NEW ended, NEW preempted, StoreStep(s, stored, ended, preempted)
      PROVE  SilentOK'
  BY <1>2 DEF StoreStep
<1>3. ASSUME NEW s, NEW ended, NEW state, NEW token, LoopStep(s, ended, state, token)
      PROVE  SilentOK'
  <2>1. s \in DOMAIN sessions
    BY <1>3 DEF LoopStep, Core, TickOK
  <2>2. QED BY <1>3, <2>1 DEF LoopStep
<1>4. ASSUME NEW ended, HeadStep(ended) PROVE SilentOK'
  BY <1>4 DEF HeadStep
<1>5. ASSUME NEW ended, TailStep(ended) PROVE SilentOK'
  BY <1>5 DEF TailStep
<1>6. ASSUME NEW ended, PublishStep(ended) PROVE SilentOK'
  BY <1>6 DEF PublishStep
<1>7. QED BY <1>1, <1>2, <1>3, <1>4, <1>5, <1>6 DEF StepIsOfAKind

LEMMA NoPermits ==
  ASSUME PermitsOK, DOMAIN publication_permits = {}
  PROVE  publication_permits = <<>>
  BY DEF PermitsOK

(* The strengthening of BackendSessionsDisjoint: the winners still to be   *)
(* computed share no joint with what runs either, so starting one is safe. *)
BackendOK ==
  /\ active_backend_sessions = {s \in DOMAIN sessions : sessions[s].backend_started}
  /\ \A s, t \in active_backend_sessions \cup tick.todo :
       s # t => ~Overlap(sessions[s].endpoint, sessions[t].endpoint)

LEMMA FewerKeepBackend ==
  ASSUME Core, BackendOK, NEW S, FewerSessions(S),
         tick'.todo \subseteq tick.todo, tick'.todo \subseteq DOMAIN sessions'
  PROVE  BackendOK'
<1>1. active_backend_sessions' = {s \in DOMAIN sessions' : sessions'[s].backend_started}
  BY DEF BackendOK, FewerSessions
<1>2. active_backend_sessions' \cup tick'.todo \subseteq
        (active_backend_sessions \cup tick.todo) \cap DOMAIN sessions'
  BY <1>1 DEF FewerSessions
<1>3. \A s \in DOMAIN sessions' : sessions'[s].endpoint = sessions[s].endpoint
  BY DEF FewerSessions
<1>4. QED BY <1>1, <1>2, <1>3 DEF BackendOK

LEMMA StoresKeepBackend ==
  ASSUME Core, Core', BackendOK, NEW s, NEW stored, NEW ended, NEW preempted,
         StoreStep(s, stored, ended, preempted)
  PROVE  BackendOK'
<1>1. tick'.todo = {} /\ tick.todo = {}
  BY DEF StoreStep, Core, TickOK
<1>2. \A t \in DOMAIN sessions' : t \in active_backend_sessions' <=> sessions'[t].backend_started
  <2> SUFFICES ASSUME NEW t \in DOMAIN sessions'
               PROVE  t \in active_backend_sessions' <=> sessions'[t].backend_started
    OBVIOUS
  <2>1. t \in active_backend_sessions' <=> /\ t \in DOMAIN sessions \ ended
                                           /\ sessions[t].backend_started
    BY DEF StoreStep, BackendOK
  <2>2. CASE t # s
    BY <2>1, <2>2 DEF StoreStep
  <2>3. CASE t = s
    BY <2>1, <2>3 DEF StoreStep
  <2>4. QED BY <2>2, <2>3
<1>3. active_backend_sessions' \subseteq DOMAIN sessions' \cap active_backend_sessions
  BY DEF StoreStep, BackendOK
<1>4. \A t \in active_backend_sessions' : sessions'[t].endpoint = sessions[t].endpoint
  <2> SUFFICES ASSUME NEW t \in active_backend_sessions'
               PROVE  sessions'[t].endpoint = sessions[t].endpoint
    OBVIOUS
  <2>1. t \in DOMAIN sessions \ ended /\ t \in DOMAIN sessions'
    BY <1>3 DEF StoreStep, BackendOK
  <2>2. QED BY <2>1 DEF StoreStep
<1>5. active_backend_sessions' = {t \in DOMAIN sessions' : sessions'[t].backend_started}
  BY <1>2, <1>3
<1>6. QED BY <1>1, <1>3, <1>4, <1>5 DEF BackendOK

LEMMA KindsKeepBackend ==
  ASSUME Core, Core', BackendOK, StepIsOfAKind
  PROVE  BackendOK'
<1>1. tick'.todo \subseteq DOMAIN sessions'
  BY DEF Core, TickOK
<1>2. ASSUME NEW S, QuietStep(S) PROVE BackendOK'
  BY <1>1, <1>2, FewerKeepBackend DEF QuietStep
<1>3. ASSUME NEW s, NEW ended, NEW state, NEW token, LoopStep(s, ended, state, token)
      PROVE  BackendOK'
  <2>1. CASE FewerSessions(ended)
    BY <1>1, <1>3, <2>1, FewerKeepBackend DEF LoopStep
  <2>2. CASE /\ sessions' = [sessions EXCEPT ![s].backend_started = TRUE]
             /\ active_backend_sessions' = active_backend_sessions \cup {s}
    <3>1. s \in tick.todo /\ s \in DOMAIN sessions /\ tick'.todo \subseteq tick.todo
      BY <1>3 DEF LoopStep, Core, TickOK
    <3>2. \A t \in DOMAIN sessions : sessions[t] \in SessionRecord
      BY DEF Core, SessionsOK
    <3>3. /\ DOMAIN sessions' = DOMAIN sessions
          /\ \A t \in DOMAIN sessions :
               /\ sessions'[t].endpoint = sessions[t].endpoint
               /\ t # s => sessions'[t] = sessions[t]
               /\ t = s => sessions'[t].backend_started = TRUE
      BY <2>2, <3>1, <3>2 DEF SessionRecord
    <3>4. active_backend_sessions' = {t \in DOMAIN sessions' : sessions'[t].backend_started}
      <4>1. \A t \in DOMAIN sessions : t \in active_backend_sessions \cup {s} <=>
                                         sessions'[t].backend_started
        BY <3>3 DEF BackendOK
      <4>2. active_backend_sessions \cup {s} \subseteq DOMAIN sessions
        BY <3>1 DEF BackendOK
      <4>3. QED BY <2>2, <3>3, <4>1, <4>2
    <3>5. active_backend_sessions' \cup tick'.todo
            \subseteq (active_backend_sessions \cup tick.todo) \cap DOMAIN sessions
      BY <1>1, <2>2, <3>1, <3>3 DEF BackendOK
    <3>6. QED BY <3>3, <3>4, <3>5 DEF BackendOK
  <2>3. QED BY <1>3, <2>1, <2>2 DEF LoopStep
<1>4. ASSUME NEW ended, HeadStep(ended) PROVE BackendOK'
  <2>1. active_backend_sessions' \subseteq DOMAIN sessions'
    BY <1>4 DEF HeadStep, BackendOK
  <2>2. \A t \in DOMAIN sessions' : sessions'[t].endpoint = claims[t].endpoint
    BY <1>4 DEF HeadStep, Core, SessionsOK, SessionsHoldClaims
  <2>3. \A s, t \in active_backend_sessions' \cup tick'.todo :
          s # t => ~Overlap(claims[s].endpoint, claims[t].endpoint)
    BY <1>4 DEF HeadStep
  <2>4. \A s, t \in active_backend_sessions' \cup tick'.todo :
          s # t => ~Overlap(sessions'[s].endpoint, sessions'[t].endpoint)
    BY <1>1, <2>1, <2>2, <2>3
  <2>5. active_backend_sessions' = {t \in DOMAIN sessions' : sessions'[t].backend_started}
    BY <1>4, <2>1 DEF HeadStep
  <2>6. QED BY <2>4, <2>5 DEF BackendOK
<1>5. ASSUME NEW ended, TailStep(ended) \/ PublishStep(ended) PROVE BackendOK'
  <2>1. FewerSessions(ended) /\ tick'.todo = {}
    BY <1>5 DEF TailStep, PublishStep, Idle
  <2>2. QED BY <1>1, <2>1, FewerKeepBackend
<1>6. QED BY <1>2, <1>3, <1>4, <1>5, StoresKeepBackend DEF StepIsOfAKind

(* What an output is good for is known while it waits.                     *)
FreshOK ==
  \A c \in tick.commands :
    /\ c.valid_until <= tick.feedback + FeedbackMaxAge
    /\ c.valid_until <= tick.started_at + MaxPeriod
    /\ c.session \in DOMAIN sessions \cap ServoEndpoint =>
         c.valid_until <= sessions[c.session].submitted_at + Lease[c.session]

(* Commands may be lost or kept, with the tick and the targets of the      *)
(* Servos they are of; only the winner loop adds one.                      *)
KeepsCommands ==
  /\ tick'.commands \subseteq tick.commands
  /\ tick'.feedback = tick.feedback /\ tick'.started_at = tick.started_at
  /\ \A t \in DOMAIN sessions' \cap ServoEndpoint :
       t \in DOMAIN sessions /\ sessions'[t].submitted_at = sessions[t].submitted_at

LEMMA KeptCommandsAreFresh ==
  ASSUME FreshOK, KeepsCommands \/ tick'.commands = {}
  PROVE  FreshOK'
<1>1. CASE tick'.commands = {}
  BY <1>1 DEF FreshOK
<1>2. CASE KeepsCommands
  BY <1>2 DEF FreshOK, KeepsCommands
<1>3. QED BY <1>1, <1>2

LEMMA ServosAreNotMoves ==
  ServoEndpoint \cap MoveId = {}
  BY ArbitrationAssumption

LEMMA KindsKeepCommands ==
  ASSUME Core, StepIsOfAKind
  PROVE  \/ KeepsCommands \/ tick'.commands = {}
         \/ \E s, ended, state, token : LoopStep(s, ended, state, token)
<1>1. tick.phase = "idle" => tick.commands = {}
  BY DEF Core, TickOK, Idle
<1>2. ASSUME NEW S, QuietStep(S) PROVE KeepsCommands
  BY <1>2 DEF QuietStep, FewerSessions, KeepsCommands
<1>3. ASSUME NEW s, NEW stored, NEW ended, NEW preempted, StoreStep(s, stored, ended, preempted)
      PROVE  KeepsCommands \/ tick'.commands = {}
  <2>1. CASE tick.phase = "idle"
    BY <1>1, <1>3, <2>1 DEF StoreStep
  <2>2. CASE s \in MoveId
    BY <1>3, <2>2, ServosAreNotMoves DEF StoreStep, KeepsCommands
  <2>3. QED BY <1>3, <2>1, <2>2 DEF StoreStep
<1>4. ASSUME NEW ended, HeadStep(ended) \/ PublishStep(ended) PROVE tick'.commands = {}
  BY <1>4 DEF HeadStep, PublishStep, Idle
<1>5. ASSUME NEW ended, TailStep(ended) PROVE KeepsCommands
  BY <1>5 DEF TailStep, FewerSessions, KeepsCommands
<1>6. QED BY <1>2, <1>3, <1>4, <1>5 DEF StepIsOfAKind

LEMMA LoopKeepsTargets ==
  ASSUME Core, NEW s, NEW ended, NEW state, NEW token, LoopStep(s, ended, state, token)
  PROVE  /\ DOMAIN sessions' \subseteq DOMAIN sessions
         /\ \A t \in DOMAIN sessions' :
              /\ sessions'[t].endpoint = sessions[t].endpoint
              /\ sessions'[t].submitted_at = sessions[t].submitted_at
<1>1. CASE FewerSessions(ended)
  BY <1>1 DEF FewerSessions
<1>2. CASE sessions' = [sessions EXCEPT ![s].backend_started = TRUE]
  BY <1>2 DEF Core, SessionsOK, SessionRecord
<1>3. QED BY <1>1, <1>2 DEF LoopStep

LEMMA KindsKeepFresh ==
  ASSUME Core, FreshOK, StepIsOfAKind
  PROVE  FreshOK'
<1>1. ASSUME NEW s, NEW ended, NEW state, NEW token, LoopStep(s, ended, state, token)
      PROVE  FreshOK'
  <2>1. /\ s \in DOMAIN sessions /\ tick \in TickRecord /\ SessionsOK
        /\ tick'.feedback = tick.feedback /\ tick'.started_at = tick.started_at
        /\ \/ tick'.commands = tick.commands
           \/ tick'.commands = tick.commands \cup {Command(s, token)}
    BY <1>1 DEF LoopStep, Core, TickOK
  <2>2. /\ DOMAIN sessions' \subseteq DOMAIN sessions
        /\ \A t \in DOMAIN sessions' : sessions'[t].submitted_at = sessions[t].submitted_at
    BY <1>1, LoopKeepsTargets
  <2> DEFINE c == Command(s, token)
  <2>3. /\ c.session = s
        /\ c.valid_until <= tick.feedback + FeedbackMaxAge
        /\ c.valid_until <= tick.started_at + MaxPeriod
        /\ s \in ServoEndpoint => c.valid_until <= sessions[s].submitted_at + Lease[s]
    BY <2>1, DeadlineBounds DEF Command
  <2> HIDE DEF c
  <2>4. \A d \in tick'.commands : d \in tick.commands \/ d = c
    BY <2>1 DEF c
  <2>5. QED BY <2>1, <2>2, <2>3, <2>4 DEF FreshOK
<1>2. QED BY <1>1, KindsKeepCommands, KeptCommandsAreFresh

(* Tokens are used once.                                                   *)
TokensOK ==
  /\ \A c \in tick.commands : c.token < next_publication_token /\ c.joints # {}
  /\ \A j \in DOMAIN publication_permits :
       publication_permits[j].token < next_publication_token

LEMMA KindsKeepPermits ==
  ASSUME Core, StepIsOfAKind
  PROVE  \/ FewerPermits /\ next_publication_token' = next_publication_token
         \/ \E s, ended, state, token : LoopStep(s, ended, state, token)
<1> DEFINE Kept == FewerPermits /\ next_publication_token' = next_publication_token
<1>1. \A S : QuietStep(S) => Kept
  BY DEF QuietStep
<1>2. \A s, stored, ended, preempted : StoreStep(s, stored, ended, preempted) => Kept
  BY DEF StoreStep
<1>3. \A ended : HeadStep(ended) => Kept
  BY DEF HeadStep
<1>4. \A ended : TailStep(ended) => Kept
  BY DEF TailStep
<1>5. \A ended : PublishStep(ended) => Kept
  BY DEF PublishStep
<1>6. QED BY <1>1, <1>2, <1>3, <1>4, <1>5 DEF StepIsOfAKind

(* The winner loop adds permits of a live session, under a new token.      *)
LEMMA LoopPermits ==
  ASSUME Core, NEW s, NEW ended, NEW state, NEW token, LoopStep(s, ended, state, token)
  PROVE  /\ s \in DOMAIN sessions
         /\ \/ FewerPermits /\ next_publication_token' = next_publication_token
            \/ /\ next_publication_token' = token + 1
               /\ publication_permits' = Permitted(s, token)
         /\ \A j \in DOMAIN publication_permits' :
              \/ /\ j \in DOMAIN publication_permits
                 /\ publication_permits'[j] = publication_permits[j]
              \/ /\ publication_permits'[j] = [session |-> s, token |-> token]
                 /\ next_publication_token' = token + 1
<1>1. s \in DOMAIN sessions
  BY DEF LoopStep, Core, TickOK
<1>2. CASE FewerPermits /\ next_publication_token' = next_publication_token
  BY <1>1, <1>2 DEF FewerPermits
<1>3. CASE /\ next_publication_token' = token + 1
           /\ publication_permits' = Permitted(s, token)
  BY <1>1, <1>3 DEF Permitted
<1>4. QED BY <1>2, <1>3 DEF LoopStep

LEMMA KindsKeepTokens ==
  ASSUME Core, TokensOK, StepIsOfAKind
  PROVE  TokensOK'
<1>1. next_publication_token \in Nat /\ tick.commands \subseteq CommandRecord
  BY DEF Core, PermitsOK, TickOK, TickRecord
<1>2. \A j \in DOMAIN publication_permits : publication_permits[j].token \in Nat
  BY DEF Core, PermitsOK, Permit
<1>3. CASE FewerPermits /\ next_publication_token' = next_publication_token
           /\ tick'.commands \subseteq tick.commands
  BY <1>3 DEF TokensOK, FewerPermits
<1>4. ASSUME NEW s, NEW ended, NEW state, NEW token, LoopStep(s, ended, state, token)
      PROVE  TokensOK'
  <2>1. /\ token \in Nat /\ next_publication_token <= token
        /\ \/ tick'.commands = tick.commands
           \/ /\ tick'.commands = tick.commands \cup {Command(s, token)}
              /\ next_publication_token' = token + 1
        /\ \/ next_publication_token' = next_publication_token
           \/ next_publication_token' = token + 1
    BY <1>4 DEF LoopStep
  <2>2. s \in DOMAIN sessions
    BY <1>4, LoopPermits
  <2> DEFINE c == Command(s, token)
  <2>3. c.token = token /\ c.joints # {}
    BY <2>2, ArbitrationAssumption DEF Command, Core, SessionsOK, SessionRecord
  <2>4. \A d \in tick'.commands : \/ d \in tick.commands
                                  \/ d = c /\ next_publication_token' = token + 1
    BY <2>1
  <2> HIDE DEF c
  <2>5. \A d \in tick'.commands : d.token < next_publication_token' /\ d.joints # {}
    <3> SUFFICES ASSUME NEW d \in tick'.commands
                 PROVE  d.token < next_publication_token' /\ d.joints # {}
      OBVIOUS
    <3>1. CASE d \in tick.commands
      <4>1. d.token \in Nat
        BY <1>1, <3>1 DEF CommandRecord
      <4>2. QED BY <1>1, <2>1, <3>1, <4>1 DEF TokensOK
    <3>2. CASE d = c /\ next_publication_token' = token + 1
      BY <2>1, <2>3, <3>2
    <3>3. QED BY <2>4, <3>1, <3>2
  <2>6. \A j \in DOMAIN publication_permits' :
          publication_permits'[j].token < next_publication_token'
    <3> SUFFICES ASSUME NEW j \in DOMAIN publication_permits'
                 PROVE  publication_permits'[j].token < next_publication_token'
      OBVIOUS
    <3>1. CASE /\ j \in DOMAIN publication_permits
               /\ publication_permits'[j] = publication_permits[j]
      BY <1>1, <1>2, <2>1, <3>1 DEF TokensOK
    <3>2. CASE /\ publication_permits'[j] = [session |-> s, token |-> token]
               /\ next_publication_token' = token + 1
      BY <2>1, <3>2
    <3>3. QED BY <1>4, <3>1, <3>2, LoopPermits
  <2>7. QED BY <2>5, <2>6 DEF TokensOK
<1>5. QED BY <1>3, <1>4, KindsKeepPermits, KindsKeepCommands DEF KeepsCommands

(* Who has been stopped has no permit.                                     *)
Stops == {"CANCELED", "PREEMPTED"}

StoppedOK ==
  \A j \in DOMAIN publication_permits, st \in Stops :
    <<publication_permits[j].session, st>> \notin Events

(* A step may report ends of S and keep some permits, but none of S if the *)
(* end is a stop.                                                          *)
LEMMA StopsTakePermits ==
  ASSUME StoppedOK, FewerPermits, NEW S, NEW state, EventsFlow(Ends(S, state)),
         \/ state \notin Stops
         \/ \A j \in DOMAIN publication_permits' : publication_permits'[j].session \notin S
  PROVE  StoppedOK'
<1>1. \A m, st : <<m, st>> \in Ends(S, state) => st = state /\ m \in S
  BY EndsFacts
<1> DEFINE new == Ends(S, state)
<1>2. Events' = Events \cup new
  BY DEF EventsFlow, Events
<1> HIDE DEF new
<1>3. SUFFICES ASSUME NEW j \in DOMAIN publication_permits', NEW st \in Stops
               PROVE  <<publication_permits'[j].session, st>> \notin Events'
  BY DEF StoppedOK
<1>4. <<publication_permits'[j].session, st>> \notin Events
  BY DEF StoppedOK, FewerPermits
<1>5. <<publication_permits'[j].session, st>> \notin new
  BY <1>1 DEF new
<1>6. QED BY <1>2, <1>4, <1>5

LEMMA LiveSessionsHaveNoEvents ==
  ASSUME Core, EventsOK, NEW s \in DOMAIN sessions, NEW st
  PROVE  <<s, st>> \notin Events
<1>1. Events \subseteq MoveId \X MoveEnd
  BY DEF Events, Core, RestOK, TickOK, TickRecord
<1>2. QED BY <1>1 DEF EventsOK

LEMMA KindsKeepStopped ==
  ASSUME Core, EventsOK, StoppedOK, StepIsOfAKind
  PROVE  StoppedOK'
<1>1. ASSUME NEW S, QuietStep(S) PROVE StoppedOK'
  <2>1. /\ FewerPermits /\ EventsFlow(Ends(S, "CANCELED"))
        /\ \A j \in DOMAIN publication_permits' : publication_permits'[j].session \notin S
    BY <1>1 DEF QuietStep, EventsFlow
  <2>2. QED BY <2>1, StopsTakePermits
<1>2. ASSUME NEW s, NEW stored, NEW ended, NEW preempted, StoreStep(s, stored, ended, preempted)
      PROVE  StoppedOK'
  <2>1. /\ FewerPermits /\ EventsFlow(Ends(preempted, "PREEMPTED"))
        /\ \A j \in DOMAIN publication_permits' :
             publication_permits'[j].session \notin preempted
    BY <1>2 DEF StoreStep, EventsFlow
  <2>2. QED BY <2>1, StopsTakePermits
<1>3. ASSUME NEW s, NEW ended, NEW state, NEW token, LoopStep(s, ended, state, token)
      PROVE  StoppedOK'
  <2>1. state \notin Stops /\ EventsFlow(Ends(ended, state))
    BY <1>3 DEF LoopStep, EventsFlow, Stops
  <2>2. Events' = Events \cup Ends(ended, state)
    BY <2>1 DEF EventsFlow, Events
  <2>3. \A m, st : <<m, st>> \in Ends(ended, state) => st = state
    BY EndsFacts
  <2>4. SUFFICES ASSUME NEW j \in DOMAIN publication_permits', NEW st \in Stops
                 PROVE  <<publication_permits'[j].session, st>> \notin Events
    BY <2>1, <2>2, <2>3 DEF StoppedOK
  <2>5. CASE j \in DOMAIN publication_permits /\ publication_permits'[j] = publication_permits[j]
    BY <2>5 DEF StoppedOK
  <2>6. CASE publication_permits'[j] = [session |-> s, token |-> token]
    BY <1>3, <2>6, LoopPermits, LiveSessionsHaveNoEvents
  <2>7. QED BY <1>3, <2>5, <2>6, LoopPermits
<1>4. ASSUME NEW ended, HeadStep(ended) PROVE StoppedOK'
  <2>1. tick.events = {}
    BY <1>4 DEF HeadStep, Core, TickOK, Idle
  <2>2. FewerPermits /\ EventsFlow(Ends(ended, "ABORTED"))
    BY <1>4, <2>1 DEF HeadStep, EventsFlow
  <2>3. QED BY <2>2, StopsTakePermits DEF Stops
<1>5. ASSUME NEW ended, TailStep(ended) \/ PublishStep(ended) PROVE StoppedOK'
  <2>1. FewerPermits /\ EventsFlow(Ends(ended, "ABORTED"))
    BY <1>5 DEF TailStep, PublishStep, EventsFlow, Idle
  <2>2. QED BY <2>1, StopsTakePermits DEF Stops
<1>6. QED BY <1>1, <1>2, <1>3, <1>4, <1>5 DEF StepIsOfAKind

(* Claims that are newer than the tick have taken the permits they need.   *)
CurrentOK ==
  /\ tick.phase \in {"select", "compute"} => tick.sequence = next_sequence
  /\ tick.phase # "idle" =>
       \A s \in DOMAIN claims :
         claims[s].receive_sequence >= tick.sequence =>
           Joints[claims[s].endpoint] \cap DOMAIN publication_permits = {}

LEMMA NoNewerClaims ==
  ASSUME Core', tick'.sequence = next_sequence'
  PROVE  CurrentOK'
<1>1. next_sequence' \in Nat
  BY DEF Core, ClaimsOK
<1>2. \A s \in DOMAIN claims' : /\ claims'[s].receive_sequence \in Nat
                                /\ claims'[s].receive_sequence < next_sequence'
  BY DEF Core, ClaimsOK, ClaimedBefore, ClaimMap, Claim
<1>3. QED BY <1>1, <1>2 DEF CurrentOK

LEMMA FewerKeepCurrent ==
  ASSUME CurrentOK, FewerClaims, FewerPermits, tick'.sequence = tick.sequence,
         tick'.phase = tick.phase, next_sequence' = next_sequence
  PROVE  CurrentOK'
  BY DEF CurrentOK, FewerClaims, FewerPermits

LEMMA KindsKeepCurrent ==
  ASSUME Core, Core', CurrentOK, StepIsOfAKind
  PROVE  CurrentOK'
<1>1. ASSUME NEW S, QuietStep(S) PROVE CurrentOK'
  BY <1>1, FewerKeepCurrent DEF QuietStep
<1>2. ASSUME NEW s, NEW stored, NEW ended, NEW preempted, StoreStep(s, stored, ended, preempted)
      PROVE  CurrentOK'
  <2>1. CASE tick.phase = "idle"
    BY <1>2, <2>1 DEF StoreStep, CurrentOK
  <2>2. CASE /\ tick.phase # "idle"
             /\ s \in DOMAIN sessions' =>
                  Joints[claims'[s].endpoint] \cap DOMAIN publication_permits' = {}
    <3>1. tick' = tick /\ tick.phase = "publish" /\ FewerPermits
      BY <1>2, <2>2 DEF StoreStep, LockFree
    <3>2. DOMAIN claims = DOMAIN sessions /\ DOMAIN claims' = DOMAIN sessions'
      BY DEF Core, SessionsOK, SessionsHoldClaims
    <3>3. \A t \in DOMAIN claims' \ {s} : t \in DOMAIN claims /\ claims'[t] = claims[t]
      BY <1>2, <3>2 DEF StoreStep
    <3>4. \A t \in DOMAIN claims' : claims'[t].receive_sequence >= tick.sequence =>
            Joints[claims'[t].endpoint] \cap DOMAIN publication_permits' = {}
      BY <2>2, <3>1, <3>2, <3>3 DEF CurrentOK, FewerPermits
    <3>5. QED BY <3>1, <3>4 DEF CurrentOK
  <2>3. QED BY <1>2, <2>1, <2>2 DEF StoreStep
<1>3. ASSUME NEW s, NEW ended, NEW state, NEW token, LoopStep(s, ended, state, token)
      PROVE  CurrentOK'
  <2>1. tick'.sequence = next_sequence'
    BY <1>3 DEF LoopStep, CurrentOK
  <2>2. QED BY <2>1, NoNewerClaims
<1>4. ASSUME NEW ended, HeadStep(ended) \/ TailStep(ended) PROVE CurrentOK'
  <2>1. tick'.sequence = next_sequence'
    BY <1>4 DEF HeadStep, TailStep, CurrentOK
  <2>2. QED BY <2>1, NoNewerClaims
<1>5. ASSUME NEW ended, PublishStep(ended) PROVE CurrentOK'
  BY <1>5 DEF PublishStep, Idle, CurrentOK
<1>6. QED BY <1>1, <1>2, <1>3, <1>4, <1>5 DEF StepIsOfAKind

(* output is a function on the joints.                                     *)
OutputOK == output = [j \in Joint |-> output[j]]

LEMMA KindsKeepOutput ==
  ASSUME OutputOK, StepIsOfAKind
  PROVE  OutputOK'
<1>1. \A S : QuietStep(S) => output' = output
  BY DEF QuietStep
<1>2. \A s, stored, ended, preempted : StoreStep(s, stored, ended, preempted) => output' = output
  BY DEF StoreStep
<1>3. \A s, ended, state, token : LoopStep(s, ended, state, token) => output' = output
  BY DEF LoopStep
<1>4. \A ended : HeadStep(ended) \/ TailStep(ended) => output' = output
  BY DEF HeadStep, TailStep
<1>5. \A ended : PublishStep(ended) =>
                   output' = output \/ output' = [j \in Joint |-> output'[j]]
  BY DEF PublishStep
<1>6. output' = output \/ output' = [j \in Joint |-> output'[j]]
  BY <1>1, <1>2, <1>3, <1>4, <1>5 DEF StepIsOfAKind
<1>7. QED BY <1>6 DEF OutputOK

-----------------------------------------------------------------------------
(* The inductive invariant, and the safety invariants it implies.          *)

IInv ==
  /\ Core /\ EventsOK /\ SilentOK /\ BackendOK
  /\ FreshOK /\ TokensOK /\ StoppedOK /\ CurrentOK /\ OutputOK

LEMMA InvariantHolds == Spec => []IInv
<1>1. Init => IInv
  <2> SUFFICES ASSUME Init PROVE IInv
    OBVIOUS
  <2>1. Core
    BY CoreInit
  <2>2. EventsOK /\ SilentOK /\ BackendOK
    BY DEF Init, Idle, EventsOK, Events, SilentOK, BackendOK
  <2>3. FreshOK /\ TokensOK /\ StoppedOK /\ CurrentOK /\ OutputOK
    BY DEF Init, Idle, FreshOK, TokensOK, StoppedOK, CurrentOK, OutputOK
  <2>4. QED BY <2>1, <2>2, <2>3 DEF IInv
<1>2. IInv /\ [Next]_vars => IInv'
  <2> SUFFICES ASSUME IInv, [Next]_vars PROVE IInv'
    OBVIOUS
  <2>1. Core' /\ StepIsOfAKind
    BY StepKinds DEF IInv
  <2>2. EventsOK' /\ SilentOK' /\ BackendOK'
    BY <2>1, KindsKeepEvents, KindsKeepSilence, KindsKeepBackend DEF IInv
  <2>3. FreshOK' /\ TokensOK' /\ StoppedOK' /\ CurrentOK' /\ OutputOK'
    BY <2>1, KindsKeepFresh, KindsKeepTokens, KindsKeepStopped, KindsKeepCurrent,
       KindsKeepOutput DEF IInv
  <2>4. QED BY <2>1, <2>2, <2>3 DEF IInv
<1>3. QED BY <1>1, <1>2, PTL DEF Spec

(* However ends and admissions interleave with the control cycle, an       *)
(* admitted Move is live or has ended with exactly one event.              *)
THEOREM MovesEndOnce == Spec => []MoveEndsOnce
<1>1. IInv => MoveEndsOnce
  BY EventsCount DEF IInv
<1>2. QED BY <1>1, InvariantHolds, PTL

(* Without permission there are no sessions and nothing can be published.  *)
THEOREM RevokedIsSilent == Spec => []RevokedMeansSilent
<1>1. IInv => RevokedMeansSilent
  BY NoPermits DEF IInv, Core, SilentOK, RevokedMeansSilent
<1>2. QED BY <1>1, InvariantHolds, PTL

(* For any endpoints, joints and priorities, no two sessions the backend   *)
(* runs drive a joint in common.                                           *)
THEOREM BackendsDisjoint == Spec => []BackendSessionsDisjoint
<1>1. IInv => BackendSessionsDisjoint
  BY DEF IInv, BackendOK, BackendSessionsDisjoint
<1>2. QED BY <1>1, InvariantHolds, PTL

-----------------------------------------------------------------------------
(* Publishing.                                                             *)

(* An output changes only when publishCommands lets a command out that     *)
(* holds its permits and is still good.                                    *)
Publishes(c, j) ==
  /\ tick.phase = "publish" /\ output_enabled
  /\ c \in tick.commands /\ j \in c.joints /\ HoldsPermits(c) /\ clock < c.valid_until
  /\ output'[j] = [session |-> c.session, token |-> c.token]

LEMMA PublishedByACommand ==
  ASSUME Core, PublishCommands, NEW j \in Joint, output'[j] # output[j]
  PROVE  \E c : Publishes(c, j)
<1> DEFINE permitted == {c \in tick.commands : IsPermitted(c)}
           approved  == {c \in permitted : clock < c.valid_until}
<1>1. output' = [i \in Joint |->
                   IF \E c \in approved : i \in c.joints
                     THEN LET c == CHOOSE c \in approved : i \in c.joints
                          IN  [session |-> c.session, token |-> c.token]
                     ELSE output[i]]
  BY DEF PublishCommands
<1>2. \E c \in approved : j \in c.joints
  BY <1>1
<1> DEFINE c == CHOOSE c \in approved : j \in c.joints
<1>3. c \in approved /\ j \in c.joints
  BY <1>2
<1>4. output'[j] = [session |-> c.session, token |-> c.token]
  BY <1>1, <1>2
<1>5. tick.phase = "publish"
  BY DEF PublishCommands
<1> HIDE DEF c
<1>6. Publishes(c, j)
  BY <1>3, <1>4, <1>5 DEF Publishes, IsPermitted
<1>7. QED BY <1>6

LEMMA OnlyPublishChangesOutput ==
  ASSUME Core, [Next]_vars, NEW j \in Joint, output'[j] # output[j]
  PROVE  PublishCommands
<1>1. \A m, e, now : SubmitMove(m, e, now) => output' = output
  BY DEF SubmitMove
<1>2. \A s : Cancel(s) => output' = output
  BY DEF Cancel, history
<1>3. \A enabled, generation : SetOutputPermit(enabled, generation) => output' = output
  BY DEF SetOutputPermit, history
<1>4. \A s, received_at, now : UpdateServo(s, received_at, now) => output' = output
  BY DEF UpdateServo, history
<1>5. \A now, feedback : BeginTick(now, feedback) => output' = output
  BY DEF BeginTick, history
<1>6. \A s : ComputeWinner(s) => output' = output
  BY ComputeWinnerIsLoop DEF LoopStep
<1>7. FinishTick => output' = output
  BY DEF FinishTick, history
<1>8. AdvanceClock \/ UNCHANGED vars => output' = output
  BY DEF AdvanceClock, vars, history
<1>9. CASE Others
  BY <1>1, <1>2, <1>3, <1>9 DEF Others
<1>10. CASE Control
  BY <1>4, <1>5, <1>6, <1>7, <1>10 DEF Control
<1>11. QED BY <1>8, <1>9, <1>10 DEF Next

LEMMA OutputChanges ==
  ASSUME Core, [Next]_vars, NEW j \in Joint, output'[j] # output[j]
  PROVE  \E c : Publishes(c, j)
  BY OnlyPublishChangesOutput, PublishedByACommand

(* Whoever may interleave with the control thread, and whenever: a Move    *)
(* that was canceled or preempted publishes nothing any more.              *)
THEOREM StoppedMovesAreSilent == Spec => StoppedMoveIsSilent
<1> DEFINE A == \A j \in Joint : output'[j] # output[j] =>
                  \A st \in {"CANCELED", "PREEMPTED"} :
                    <<output'[j].session, st>>
                      \notin pending_events \cup tick.events \cup delivered
<1>1. IInv /\ [Next]_vars => [A]_vars
  <2> SUFFICES ASSUME IInv, [Next]_vars, NEW j \in Joint, output'[j] # output[j],
                      NEW st \in {"CANCELED", "PREEMPTED"}
               PROVE  <<output'[j].session, st>> \notin Events
    BY DEF Events
  <2>1. PICK c : Publishes(c, j)
    BY OutputChanges DEF IInv
  <2>2. /\ j \in DOMAIN publication_permits
        /\ publication_permits[j].session = output'[j].session
    BY <2>1 DEF Publishes, HoldsPermits
  <2>3. QED BY <2>2 DEF IInv, StoppedOK, Stops
<1>2. QED BY <1>1, InvariantHolds, PTL DEF Spec, StoppedMoveIsSilent

(* Nobody who is given control of a joint between tick and publishCommands *)
(* finds an older output published on it.                                  *)
THEOREM OutputsAreCurrent == Spec => OutputIsCurrent
<1> DEFINE A == \A j \in Joint : output'[j] # output[j] =>
                  /\ output_enabled
                  /\ \A s \in computeWinners(claims, clock) :
                       /\ s # output'[j].session
                       /\ j \in Joints[claims[s].endpoint]
                       => claims[s].receive_sequence < tick.sequence
<1>1. IInv /\ [Next]_vars => [A]_vars
  <2> SUFFICES ASSUME IInv, [Next]_vars, NEW j \in Joint, output'[j] # output[j]
               PROVE  /\ output_enabled
                      /\ \A s \in computeWinners(claims, clock) :
                           j \in Joints[claims[s].endpoint]
                             => claims[s].receive_sequence < tick.sequence
    OBVIOUS
  <2>1. PICK c : Publishes(c, j)
    BY OutputChanges DEF IInv
  <2>2. output_enabled /\ tick.phase = "publish" /\ j \in DOMAIN publication_permits
    BY <2>1 DEF Publishes, HoldsPermits
  <2>3. computeWinners(claims, clock) \subseteq DOMAIN claims
    BY EvaluationFacts DEF IInv, Core
  <2>4. tick.sequence \in Nat
    BY DEF IInv, Core, TickOK, TickRecord
  <2>5. ASSUME NEW s \in DOMAIN claims, j \in Joints[claims[s].endpoint]
        PROVE  claims[s].receive_sequence < tick.sequence
    <3>1. ~(claims[s].receive_sequence >= tick.sequence)
      BY <2>2, <2>5 DEF IInv, CurrentOK
    <3>2. claims[s].receive_sequence \in Nat
      BY DEF IInv, Core, ClaimsOK, ClaimedBefore, ClaimMap, Claim
    <3>3. QED BY <2>4, <3>1, <3>2
  <2>6. QED BY <2>2, <2>3, <2>5
<1>2. QED BY <1>1, InvariantHolds, PTL DEF Spec, OutputIsCurrent

(* However long computations and waits for the mutex take, what is         *)
(* published rests on feedback, a cycle and a target that are fresh.       *)
THEOREM OutputsAreFresh == Spec => OutputIsFresh
<1> DEFINE A == \A j \in Joint : output'[j] # output[j] =>
                  LET s == output'[j].session
                  IN  /\ clock - tick.feedback < FeedbackMaxAge
                      /\ clock - tick.started_at < MaxPeriod
                      /\ s \in DOMAIN sessions \cap ServoEndpoint =>
                           clock - sessions[s].submitted_at < Lease[s]
<1>1. IInv /\ [Next]_vars => [A]_vars
  <2> SUFFICES ASSUME IInv, [Next]_vars, NEW j \in Joint, output'[j] # output[j],
                      NEW s, s = output'[j].session
               PROVE  /\ clock - tick.feedback < FeedbackMaxAge
                      /\ clock - tick.started_at < MaxPeriod
                      /\ s \in DOMAIN sessions \cap ServoEndpoint =>
                           clock - sessions[s].submitted_at < Lease[s]
    OBVIOUS
  <2>1. PICK c : Publishes(c, j)
    BY OutputChanges DEF IInv
  <2>2. /\ c \in tick.commands /\ clock < c.valid_until /\ s = c.session
    BY <2>1 DEF Publishes
  <2>3. /\ c.valid_until <= tick.feedback + FeedbackMaxAge
        /\ c.valid_until <= tick.started_at + MaxPeriod
        /\ s \in DOMAIN sessions \cap ServoEndpoint =>
             c.valid_until <= sessions[s].submitted_at + Lease[s]
    BY <2>2 DEF IInv, FreshOK
  <2>4. c.valid_until \in Int
    BY <2>2 DEF IInv, Core, TickOK, TickRecord, CommandRecord
  <2>5. clock \in Time /\ tick.feedback \in Time /\ tick.started_at \in Time
    BY DEF IInv, Core, TickOK, TickRecord, RestOK
  <2>6. clock \in Int /\ tick.feedback \in Int /\ tick.started_at \in Int
        /\ FeedbackMaxAge \in Int /\ MaxPeriod \in Int
    <3>1. clock \in Int /\ tick.feedback \in Int /\ tick.started_at \in Int
      BY <2>5, TimesAreIntegers
    <3>2. FeedbackMaxAge \in Int /\ MaxPeriod \in Int
      BY PipelineAssumption
    <3>3. QED BY <3>1, <3>2
  <2>7. clock - tick.feedback < FeedbackMaxAge /\ clock - tick.started_at < MaxPeriod
    BY <2>2, <2>3, <2>4, <2>6
  <2>8. ASSUME s \in DOMAIN sessions \cap ServoEndpoint
        PROVE  clock - sessions[s].submitted_at < Lease[s]
    <3>1. sessions[s].submitted_at \in Int
      BY <2>8, TimesAreIntegers DEF IInv, Core, SessionsOK, SessionRecord
    <3>2. Lease[s] \in Int
      BY <2>8, ArbitrationAssumption
    <3>3. QED BY <2>2, <2>3, <2>4, <2>6, <2>8, <3>1, <3>2
  <2>9. QED BY <2>7, <2>8
<1>2. QED BY <1>1, InvariantHolds, PTL DEF Spec, OutputIsFresh

-----------------------------------------------------------------------------
(* The implementation of JointOutput.  Only the winner loop makes offers   *)
(* and only publishCommands uses them up; every other step withdraws some. *)

OfferOf(c) == [session |-> c.session, token |-> c.token, joints |-> c.joints]

LEMMA OffersAre ==
  Offers = {OfferOf(c) : c \in {d \in tick.commands : HoldsPermits(d)}}
  BY DEF Offers, OfferOf

LEMMA WithdrawnOffers ==
  ASSUME tick'.commands \subseteq tick.commands, FewerPermits
  PROVE  Offers' \subseteq Offers
<1>1. \A c : HoldsPermits(c)' => HoldsPermits(c)
  BY DEF HoldsPermits, FewerPermits
<1>2. QED BY <1>1 DEF Offers

LEMMA NoOffersInSilence ==
  ASSUME SilentOK, TokensOK, ~output_enabled
  PROVE  Offers = {}
<1>1. \A c \in tick.commands : ~HoldsPermits(c)
  BY DEF SilentOK, TokensOK, HoldsPermits
<1>2. QED BY <1>1 DEF Offers

(* Steps that neither compute nor publish.                                 *)
LEMMA OtherStepsWithdraw ==
  ASSUME IInv, IInv', FewerPermits, tick'.commands \subseteq tick.commands,
         output' = output, next_publication_token' = next_publication_token
  PROVE  Abstract!Permit
<1>1. Offers' \subseteq Offers
  BY WithdrawnOffers
<1>2. (~output_enabled)' => Offers' = {}
  <2> SUFFICES ASSUME ~output_enabled' PROVE Offers' = {}
    OBVIOUS
  <2>1. \A c \in tick'.commands : ~HoldsPermits(c)'
    BY DEF IInv, SilentOK, TokensOK, HoldsPermits
  <2>2. QED BY <2>1 DEF Offers
<1>3. output_enabled' \in BOOLEAN
  BY DEF IInv, Core, RestOK
<1>4. QED BY <1>1, <1>2, <1>3 DEF Abstract!Permit

(* A new permit takes the place of the older ones on its joints.           *)
LEMMA LoopOffers ==
  ASSUME IInv, NEW s, NEW ended, NEW state, NEW token, LoopStep(s, ended, state, token),
         publication_permits' = Permitted(s, token),
         NEW c \in tick.commands
  PROVE  HoldsPermits(c)' <=>
           HoldsPermits(c) /\ c.joints \cap Joints[sessions[s].endpoint] = {}
<1>1. /\ c.token \in Nat /\ next_publication_token \in Nat /\ token \in Nat
      /\ c.token < next_publication_token /\ next_publication_token <= token
  BY DEF IInv, TokensOK, Core, PermitsOK, TickOK, TickRecord, CommandRecord, LoopStep
<1>2. c.token # token
  BY <1>1
<1>3. /\ DOMAIN publication_permits' =
           DOMAIN publication_permits \cup Joints[sessions[s].endpoint]
      /\ \A j \in DOMAIN publication_permits' : publication_permits'[j] =
           IF j \in Joints[sessions[s].endpoint]
             THEN [session |-> s, token |-> token] ELSE publication_permits[j]
  BY DEF Permitted
<1>4. ASSUME HoldsPermits(c)'
      PROVE  c.joints \cap Joints[sessions[s].endpoint] = {}
  <2> SUFFICES ASSUME NEW j \in c.joints \cap Joints[sessions[s].endpoint] PROVE FALSE
    OBVIOUS
  <2>1. publication_permits'[j] = [session |-> c.session, token |-> c.token]
    BY <1>4 DEF HoldsPermits
  <2>2. publication_permits'[j] = [session |-> s, token |-> token]
    BY <1>3
  <2>3. QED BY <1>2, <2>1, <2>2
<1>5. ASSUME c.joints \cap Joints[sessions[s].endpoint] = {}
      PROVE  HoldsPermits(c)' <=> HoldsPermits(c)
  BY <1>3, <1>5 DEF HoldsPermits
<1>6. QED BY <1>4, <1>5

LEMMA LoopImplements ==
  ASSUME IInv, IInv', NEW s, NEW ended, NEW state, NEW token,
         LoopStep(s, ended, state, token)
  PROVE  Abstract!Next
<1>1. /\ output' = output /\ output_enabled' = output_enabled
      /\ token \in Nat /\ next_publication_token \in Nat /\ next_publication_token <= token
      /\ s \in DOMAIN sessions
  BY LoopPermits DEF LoopStep, IInv, Core, PermitsOK
<1>2. output_enabled
  BY <1>1 DEF IInv, SilentOK
<1>3. CASE /\ FewerPermits /\ tick'.commands = tick.commands
           /\ next_publication_token' = next_publication_token
  BY <1>1, <1>3, OtherStepsWithdraw DEF Abstract!Next
<1>4. CASE /\ publication_permits' = Permitted(s, token)
           /\ next_publication_token' = token + 1
           /\ tick'.commands = tick.commands
  <2>1. \A c \in tick'.commands : HoldsPermits(c)' => HoldsPermits(c)
    BY <1>4, LoopOffers
  <2>2. Offers' \subseteq Offers
    BY <1>4, <2>1 DEF Offers
  <2>3. next_publication_token' >= next_publication_token
    BY <1>1, <1>4
  <2>4. Abstract!Withdraw
    BY <1>1, <2>2, <2>3 DEF Abstract!Withdraw
  <2>5. QED BY <2>4 DEF Abstract!Next
<1>5. CASE /\ publication_permits' = Permitted(s, token)
           /\ next_publication_token' = token + 1
           /\ tick'.commands = tick.commands \cup {Command(s, token)}
  <2> SUFFICES ASSUME NEW c, c = Command(s, token), NEW o, o = OfferOf(c)
               PROVE  Abstract!Next
    OBVIOUS
  <2>1. c.session = s /\ c.token = token /\ c.joints = Joints[sessions[s].endpoint]
    BY DEF Command
  <2>2. o.token = token /\ o.joints = Joints[sessions[s].endpoint]
    BY <2>1 DEF OfferOf
  <2>3. HoldsPermits(c)'
    BY <1>5, <2>1 DEF HoldsPermits, Permitted
  <2>4. \A d \in tick.commands : HoldsPermits(d)' <=>
          HoldsPermits(d) /\ d.joints \cap o.joints = {}
    BY <1>5, <2>2, LoopOffers
  <2>5. tick'.commands = tick.commands \cup {c}
    BY <1>5
  <2>6. \A p : p \in Offers' <=> \E d \in tick'.commands : HoldsPermits(d)' /\ p = OfferOf(d)
    BY DEF Offers, OfferOf
  <2>7. \A p : p \in Offers <=> \E d \in tick.commands : HoldsPermits(d) /\ p = OfferOf(d)
    BY DEF Offers, OfferOf
  <2>8. \A d : OfferOf(d).joints = d.joints
    BY DEF OfferOf
  <2>9. \A p : p \in Offers' <=> p = o \/ (p \in Offers /\ p.joints \cap o.joints = {})
    BY <2>3, <2>4, <2>5, <2>6, <2>7, <2>8
  <2>10. Offers' = {p \in Offers : p.joints \cap o.joints = {}} \cup {o}
    <3> DEFINE A == Offers'
               B == Offers
    <3>1. \A p : p \in A <=> p = o \/ (p \in B /\ p.joints \cap o.joints = {})
      BY <2>9
    <3> HIDE DEF A, B
    <3>2. A = {p \in B : p.joints \cap o.joints = {}} \cup {o}
      BY ONLY <3>1
    <3>3. QED BY <3>2 DEF A, B
  <2>11. o \in Offers' /\ Abstract!Offer(o)
    BY <1>1, <1>2, <1>5, <2>2, <2>10 DEF Abstract!Offer
  <2>12. QED BY <2>11 DEF Abstract!Next
<1>6. QED BY <1>3, <1>4, <1>5 DEF LoopStep

LEMMA PublishImplements ==
  ASSUME IInv, IInv', PublishCommands
  PROVE  Abstract!Next \/ UNCHANGED Abstract!vars
<1> DEFINE permitted == {c \in tick.commands : IsPermitted(c)}
           approved  == {c \in permitted : clock < c.valid_until}
           Written   == [j \in Joint |->
                           IF \E c \in approved : j \in c.joints
                             THEN LET d == CHOOSE d \in approved : j \in d.joints
                                  IN  [session |-> d.session, token |-> d.token]
                             ELSE output[j]]
           P == {OfferOf(c) : c \in approved}
<1>1. output' = Written \/ output' = output
  BY DEF PublishCommands
<1>2. /\ FewerPermits /\ tick'.commands = {}
      /\ UNCHANGED <<output_enabled, next_publication_token>>
  BY PublishIsPublish DEF IInv, PublishStep, Idle
<1>3. Offers' = {}
  BY <1>2 DEF Offers
<1>4. CASE output' = output
  BY <1>2, <1>4, OtherStepsWithdraw DEF Abstract!Next
<1>5. CASE output' = Written /\ ~output_enabled
  <2>1. approved = {}
    BY <1>5 DEF IsPermitted
  <2>2. Written = [j \in Joint |-> output[j]]
    BY <2>1
  <2>3. output' = output
    BY <1>5, <2>2 DEF IInv, OutputOK
  <2>4. QED BY <1>4, <2>3
<1>6. CASE output' = Written /\ output_enabled
  <2>1. P \subseteq Offers
    BY DEF Offers, OfferOf, IsPermitted
  <2>2. \A c \in approved : \A j \in c.joints :
          publication_permits[j] = [session |-> c.session, token |-> c.token]
    BY DEF IsPermitted, HoldsPermits
  <2>3. \A o \in P : \E c \in approved : o.joints = c.joints /\ o.session = c.session
                                         /\ o.token = c.token
    BY DEF OfferOf
  <2>4. \A c \in approved : \E o \in P : o.joints = c.joints
    <3> SUFFICES ASSUME NEW c \in approved PROVE \E o \in P : o.joints = c.joints
      OBVIOUS
    <3>1. OfferOf(c) \in P
      OBVIOUS
    <3>2. OfferOf(c).joints = c.joints
      BY DEF OfferOf
    <3>3. QED BY <3>1, <3>2
  <2> HIDE DEF approved, P
  <2>5. ASSUME NEW j \in Joint
        PROVE  Written[j] = IF \E o \in P : j \in o.joints
                              THEN LET p == CHOOSE p \in P : j \in p.joints
                                   IN  [session |-> p.session, token |-> p.token]
                              ELSE output[j]
    <3>1. CASE \E c \in approved : j \in c.joints
      <4> DEFINE c == CHOOSE d \in approved : j \in d.joints
                 o == CHOOSE p \in P : j \in p.joints
      <4>1. c \in approved /\ j \in c.joints
        BY <3>1
      <4>2. \E p \in P : j \in p.joints
        BY <2>4, <3>1
      <4>3. o \in P /\ j \in o.joints
        BY <4>2
      <4>4. Written[j] = [session |-> c.session, token |-> c.token]
        BY <3>1
      <4> HIDE DEF c, o
      <4>5. [session |-> c.session, token |-> c.token] = publication_permits[j]
        BY <2>2, <4>1
      <4>6. [session |-> o.session, token |-> o.token] = publication_permits[j]
        BY <2>2, <2>3, <4>3
      <4>7. QED BY <4>2, <4>4, <4>5, <4>6 DEF o
    <3>2. CASE ~\E c \in approved : j \in c.joints
      BY <2>3, <3>2
    <3>3. QED BY <3>1, <3>2
  <2>6. output' = [j \in Joint |-> IF \E o \in P : j \in o.joints
                                     THEN LET p == CHOOSE p \in P : j \in p.joints
                                          IN  [session |-> p.session, token |-> p.token]
                                     ELSE output[j]]
    BY <1>6, <2>5
  <2>7. Abstract!Publish(P)
    BY <1>2, <1>3, <1>6, <2>6 DEF Abstract!Publish
  <2>8. QED BY <2>1, <2>7 DEF Abstract!Next
<1>7. QED BY <1>1, <1>4, <1>5, <1>6

(* Permits of single joints and a list of commands, changed by different   *)
(* threads at different times, amount to outputs that are offered once and *)
(* published whole or not at all.                                          *)
THEOREM ImplementsJointOutput == Spec => OffersAreWhole
<1>1. Init => Abstract!Init
  BY DEF Init, Idle, Abstract!Init, Offers
<1>2. IInv /\ IInv' /\ [Next]_vars => [Abstract!Next]_Abstract!vars
  <2> SUFFICES ASSUME IInv, IInv', [Next]_vars
               PROVE  Abstract!Next \/ UNCHANGED Abstract!vars
    OBVIOUS
  <2>1. CASE PublishCommands
    BY <2>1, PublishImplements
  <2>2. ASSUME NEW s, NEW ended, NEW state, NEW token, LoopStep(s, ended, state, token)
        PROVE  Abstract!Next
    BY <2>2, LoopImplements
  <2>3. CASE /\ ~PublishCommands
             /\ ~\E s, ended, state, token : LoopStep(s, ended, state, token)
    <3>1. StepIsOfAKind
      BY StepKinds DEF IInv
    <3>2. FewerPermits /\ next_publication_token' = next_publication_token
      BY <2>3, <3>1, KindsKeepPermits DEF IInv
    <3>3. tick'.commands \subseteq tick.commands
      BY <2>3, <3>1, KindsKeepCommands DEF IInv, KeepsCommands
    <3>4. \A j \in Joint : output'[j] = output[j]
      BY <2>3, OnlyPublishChangesOutput DEF IInv
    <3>5. output' = output
      BY <3>4 DEF IInv, OutputOK
    <3>6. QED BY <3>2, <3>3, <3>5, OtherStepsWithdraw DEF Abstract!Next
  <2>4. QED BY <2>1, <2>2, <2>3
<1>3. QED BY <1>1, <1>2, InvariantHolds, PTL DEF Spec, OffersAreWhole, Abstract!Spec

-----------------------------------------------------------------------------
(* Moves run to their end.  A running Move could only lose its joints and  *)
(* keep its claim if it could wait behind another session, which nested    *)
(* groups exclude: the invariant is the arbiter's.                         *)

LEMMA ClaimsAreWellKinded ==
  ASSUME ClaimsOK
  PROVE  WellKinded(claims, Endpoint)
<1>1. \A s \in DOMAIN claims : claims[s].endpoint \in Endpoint
  BY DEF ClaimsOK, ClaimedBefore, ClaimMap, Claim
<1>2. QED BY <1>1, ServosHaveServoClaims DEF WellKinded

LEMMA FewerClaimsLead ==
  ASSUME MovesLead(claims), FewerClaims
  PROVE  MovesLead(claims')
  BY DEF MovesLead, FewerClaims

LEMMA MovesKeepLeading ==
  ASSUME NestedGroups(Endpoint), Core, MovesLead(claims), [Next]_vars
  PROVE  MovesLead(claims')
<1>1. /\ ClaimedBefore(claims, next_sequence) /\ next_sequence \in Nat
      /\ WellKinded(claims, Endpoint)
  BY ClaimsAreWellKinded DEF Core, ClaimsOK
<1>2. ASSUME NEW m \in MoveId, NEW e \in MoveEndpoint, NEW now \in Now,
             SubmitMove(m, e, now)
      PROVE  MovesLead(claims')
  <2>1. now \in Int /\ e \in Endpoint \cap MoveEndpoint
    BY TimesAreIntegers DEF MoveEndpoint
  <2>2. m \notin DOMAIN claims
    BY <1>2 DEF SubmitMove, Core, SessionsOK, SessionsHoldClaims
  <2>3. claims' = submitMove(claims, next_sequence, m, e, now).claims
    BY <1>2 DEF SubmitMove
  <2>4. QED BY <1>1, <2>1, <2>2, <2>3, SubmitKeepsMovesLeading
<1>3. ASSUME NEW s \in ServoEndpoint, NEW received_at \in Time, NEW now \in Now,
             UpdateServo(s, received_at, now)
      PROVE  MovesLead(claims')
  <2>1. now \in Int /\ received_at \in Int /\ s \in ServoEndpoint \cap Endpoint
    BY TimesAreIntegers, ArbitrationAssumption
  <2>2. /\ now - received_at < Lease[s]
        /\ claims' = updateServo(claims, next_sequence, s, received_at, now).claims
    BY <1>3 DEF UpdateServo, AcceptsServo
  <2>3. QED BY <1>1, <2>1, <2>2, UpdateKeepsMovesLeading
<1>4. ASSUME \/ \E s \in Session : Cancel(s)
             \/ \E enabled \in BOOLEAN : \E generation : SetOutputPermit(enabled, generation)
             \/ AdvanceClock
             \/ UNCHANGED vars
      PROVE  FewerClaims
  BY <1>4, OthersAreQuiet DEF QuietStep
<1>5. \A now, feedback : BeginTick(now, feedback) => FewerClaims
  BY BeginTickIsHead DEF HeadStep
<1>6. \A s : ComputeWinner(s) => FewerClaims
  BY ComputeWinnerIsLoop DEF LoopStep
<1>7. FinishTick \/ PublishCommands => FewerClaims
  BY FinishTickIsTail, PublishIsPublish DEF TailStep, PublishStep
<1>8. CASE Others
  BY <1>2, <1>4, <1>8, FewerClaimsLead DEF Others
<1>9. CASE Control
  BY <1>3, <1>5, <1>6, <1>7, <1>9, FewerClaimsLead DEF Control
<1>10. CASE AdvanceClock \/ UNCHANGED vars
  BY <1>4, <1>10, FewerClaimsLead
<1>11. QED BY <1>8, <1>9, <1>10 DEF Next

LEMMA RunningMovesRunOn ==
  ASSUME Core, BackendOK, MovesLead(claims), StepIsOfAKind
  PROVE  MovesRunOn
<1>1. ASSUME NEW S, FewerSessions(S) PROVE MovesRunOn
  BY <1>1 DEF FewerSessions, MovesRunOn
<1>2. ASSUME NEW s, NEW stored, NEW ended, NEW preempted,
             StoreStep(s, stored, ended, preempted)
      PROVE  MovesRunOn
  <2> SUFFICES ASSUME NEW m \in active_backend_sessions \cap MoveId, m \in DOMAIN sessions'
               PROVE  m \in active_backend_sessions'
    BY DEF MovesRunOn
  <2>1. m \in admitted
    BY DEF BackendOK, Core, SessionsOK
  <2>2. m \notin ended /\ active_backend_sessions' = active_backend_sessions \ ended
    BY <1>2, <2>1 DEF StoreStep
  <2>3. QED BY <2>2
<1>3. ASSUME NEW s, NEW ended, NEW state, NEW token, LoopStep(s, ended, state, token)
      PROVE  MovesRunOn
  BY <1>1, <1>3 DEF LoopStep, MovesRunOn
<1>4. QED
  BY <1>1, <1>2, <1>3
     DEF StepIsOfAKind, QuietStep, HeadStep, TailStep, PublishStep

(* Where the groups are nested, as in the shipped channel configuration,   *)
(* the backend session of a Move is never stopped to be started again:     *)
(* once it runs, it runs until the Move ends, through scheduling gaps,     *)
(* rival claims and expiring leases.                                       *)
THEOREM RunningMovesRunToTheirEnd ==
  ASSUME NestedGroups(Endpoint)
  PROVE  Spec => RunningMoveRunsToItsEnd
<1>1. Init => MovesLead(claims)
  BY DEF Init, MovesLead
<1>2. IInv /\ MovesLead(claims) /\ [Next]_vars => MovesLead(claims)'
  BY MovesKeepLeading DEF IInv
<1>3. IInv /\ MovesLead(claims) /\ [Next]_vars => [MovesRunOn]_vars
  BY StepKinds, RunningMovesRunOn DEF IInv
<1>4. QED
  BY <1>1, <1>2, <1>3, InvariantHolds, PTL DEF Spec, RunningMoveRunsToItsEnd, MovesRunOn

-----------------------------------------------------------------------------
(* The pipeline and its arbiter.  All endpoints are registered when the    *)
(* pipeline is made, before anything is claimed.                           *)

Arbiter == INSTANCE ControlArbiter WITH policies <- Endpoint

(* One step of the pipeline may release many sessions: terminate releases  *)
(* each that it ends.  What evaluate does, dropping the expired Servos, is *)
(* to release those.                                                       *)
ReleasesMany ==
  /\ \E S \in SUBSET DOMAIN claims : claims' = Arbiter!Without(claims, S)
  /\ UNCHANGED <<next_sequence, clock>>

ArbiterCalls ==
  \/ \E m \in MoveId, e \in MoveEndpoint, now \in Arbiter!Now : Arbiter!SubmitMove(m, e, now)
  \/ \E s \in ServoEndpoint, received_at \in Time, now \in Arbiter!Now :
        Arbiter!UpdateServo(s, received_at, now)
  \/ ReleasesMany
  \/ Arbiter!Tick

(* The operators the instance brings along are those of Arbitration.       *)
LEMMA SameClaims ==
  /\ \A C, S : Arbiter!Without(C, S) = Without(C, S)
  /\ \A C, s, c : Arbiter!With(C, s, c) = With(C, s, c)
  /\ \A C, now : Arbiter!Unexpired(C, now) = Unexpired(C, now)
<1>1. \A f, S : Arbiter!Restrict(f, S) = Restrict(f, S)
  BY DEF Arbiter!Restrict, Restrict
<1>2. \A C, S : Arbiter!Without(C, S) = Without(C, S)
  BY <1>1 DEF Arbiter!Without, Without
<1>3. \A c, now : Arbiter!Expired(c, now) <=> Expired(c, now)
  BY DEF Arbiter!Expired, Expired, Arbiter!IsServo, IsServo
<1>4. QED
  BY <1>2, <1>3 DEF Arbiter!Unexpired, Unexpired, Arbiter!With, With

LEMMA SameConflicts == \A c, d : Arbiter!Conflict(c, d) <=> Conflict(c, d)
  BY DEF Arbiter!Conflict, Conflict, Arbiter!Overlap, Overlap

LEMMA SameWinners == \A C, now : Arbiter!computeWinners(C, now) = computeWinners(C, now)
<1>1. \A c, d : Arbiter!Outranks(c, d) <=> Outranks(c, d)
  BY DEF Arbiter!Outranks, Outranks
<1>2. \A C, W : Arbiter!IsSelection(W, C) <=> IsSelection(W, C)
  BY <1>1, SameConflicts DEF Arbiter!IsSelection, IsSelection
<1>3. \A C : Arbiter!Winners(C) = Winners(C)
  BY <1>2 DEF Arbiter!Winners, Winners
<1>4. QED
  BY <1>3, SameClaims DEF Arbiter!computeWinners, computeWinners

LEMMA SameCalls ==
  /\ \A C, n, m, e, now : Arbiter!submitMove(C, n, m, e, now) = submitMove(C, n, m, e, now)
  /\ \A C, n, s, at, now :
       Arbiter!updateServo(C, n, s, at, now) = updateServo(C, n, s, at, now)
  /\ \A C, s, at, now : Arbiter!AcceptsServo(C, s, at, now) <=> AcceptsServo(C, s, at, now)
<1>1. \A C, V, W : Arbiter!PreemptedMoves(C, V, W) = PreemptedMoves(C, V, W)
  BY DEF Arbiter!PreemptedMoves, PreemptedMoves, Arbiter!IsServo, IsServo
<1>2. \A C, s, c, now : Arbiter!PutClaim(C, s, c, now) = PutClaim(C, s, c, now)
  BY <1>1, SameClaims, SameWinners DEF Arbiter!PutClaim, PutClaim
<1>3. \A C, n, m, e, now : Arbiter!submitMove(C, n, m, e, now) = submitMove(C, n, m, e, now)
  BY <1>2, SameClaims, SameWinners DEF Arbiter!submitMove, submitMove
<1>4. \A C, n, s, at, now :
        Arbiter!updateServo(C, n, s, at, now) = updateServo(C, n, s, at, now)
  BY <1>2, SameClaims, SameWinners DEF Arbiter!updateServo, updateServo
<1>5. \A C, s, at, now : Arbiter!AcceptsServo(C, s, at, now) <=> AcceptsServo(C, s, at, now)
  BY DEF Arbiter!AcceptsServo, AcceptsServo
<1>6. QED
  BY <1>3, <1>4, <1>5

LEMMA SameTimes == Arbiter!Time = Time /\ Arbiter!Now = Now
  BY DEF Arbiter!Time, Time, Arbiter!Now, Now

LEMMA ReleasingCalls ==
  ASSUME NEW S, claims' = Without(claims, S), UNCHANGED <<next_sequence, clock>>
  PROVE  ArbiterCalls
<1> DEFINE released == S \cap DOMAIN claims
<1>1. DOMAIN claims \ S = DOMAIN claims \ released
  OBVIOUS
<1>2. Without(claims, S) = Without(claims, released)
  BY <1>1 DEF Without
<1>3. released \in SUBSET DOMAIN claims
  OBVIOUS
<1> HIDE DEF released
<1>4. ReleasesMany
  BY <1>2, <1>3, SameClaims DEF ReleasesMany
<1>5. QED
  BY <1>4 DEF ArbiterCalls

LEMMA StepsCallTheArbiter ==
  ASSUME Core, Next
  PROVE  ArbiterCalls \/ UNCHANGED <<arbiter, clock>>
<1>1. ASSUME NEW m \in MoveId, NEW e \in MoveEndpoint, NEW now \in Now,
             SubmitMove(m, e, now)
      PROVE  ArbiterCalls
  <2>1. m \notin DOMAIN claims
    BY <1>1 DEF SubmitMove, Core, SessionsOK, SessionsHoldClaims
  <2>2. e \in Endpoint \cap Arbiter!MoveEndpoint /\ now \in Arbiter!Now
    BY SameTimes DEF MoveEndpoint, Arbiter!MoveEndpoint
  <2>3. /\ next_sequence <= MaxSequence /\ next_sequence' = next_sequence + 1
        /\ claims' = submitMove(claims, next_sequence, m, e, now).claims
        /\ clock' = clock
    BY <1>1 DEF SubmitMove
  <2>4. Arbiter!SubmitMove(m, e, now)
    BY <2>1, <2>2, <2>3, SameCalls DEF Arbiter!SubmitMove, Arbiter!StoreClaim
  <2>5. QED
    BY <2>2, <2>4 DEF ArbiterCalls
<1>2. ASSUME NEW s \in ServoEndpoint, NEW received_at \in Time, NEW now \in Now,
             UpdateServo(s, received_at, now)
      PROVE  ArbiterCalls
  <2>1. s \in Endpoint \cap ServoEndpoint /\ now \in Arbiter!Now
    BY SameTimes, ArbitrationAssumption
  <2>2. /\ AcceptsServo(claims, s, received_at, now)
        /\ next_sequence <= MaxSequence /\ next_sequence' = next_sequence + 1
        /\ claims' = updateServo(claims, next_sequence, s, received_at, now).claims
        /\ clock' = clock
    BY <1>2 DEF UpdateServo
  <2>3. Arbiter!UpdateServo(s, received_at, now)
    BY <2>1, <2>2, SameCalls DEF Arbiter!UpdateServo, Arbiter!StoreClaim
  <2>4. QED
    BY <2>1, <2>3 DEF ArbiterCalls
<1>3. ASSUME NEW s \in Session, Cancel(s)
      PROVE  ArbiterCalls
  BY <1>3, ReleasingCalls DEF Cancel, EndSessions
<1>4. ASSUME NEW enabled \in BOOLEAN, NEW generation, SetOutputPermit(enabled, generation)
      PROVE  ArbiterCalls \/ UNCHANGED <<arbiter, clock>>
  BY <1>4, ReleasingCalls DEF SetOutputPermit, EndSessions, arbiter
<1>5. ASSUME NEW now \in Now, NEW feedback \in Time, BeginTick(now, feedback)
      PROVE  ArbiterCalls
  <2> DEFINE live == Unexpired(claims, clock)
             expired == DOMAIN claims \ DOMAIN live
             gap == last_tick_time # Never /\ now - last_tick_time > MaxPeriod
             aborted == EndedByGap(active_backend_sessions \ expired, gap)
  <2>1. claims' = Without(claims, expired \cup aborted) /\ UNCHANGED <<next_sequence, clock>>
    BY <1>5 DEF BeginTick
  <2>2. QED
    BY <2>1, ReleasingCalls
<1>6. ASSUME NEW s, ComputeWinner(s)
      PROVE  ArbiterCalls \/ UNCHANGED <<arbiter, clock>>
  <2>1. ASSUME NEW state, EndInTick(s, state) PROVE ArbiterCalls
    BY <2>1, ReleasingCalls DEF EndInTick, EndSessions
  <2>2. QED
    BY <1>6, <2>1 DEF ComputeWinner, Abandon, WaitForRetry, TimeOutMove, Compute, FailBackend,
       Drive, ReachGoal, MissGoal, StopControlled, arbiter
<1>7. ASSUME FinishTick \/ PublishCommands
      PROVE  ArbiterCalls
  BY <1>7, ReleasingCalls DEF FinishTick, PublishCommands, EndSessions
<1>8. ASSUME AdvanceClock
      PROVE  ArbiterCalls
  BY <1>8 DEF AdvanceClock, arbiter, ArbiterCalls, Arbiter!Tick
<1>9. QED
  BY <1>1, <1>2, <1>3, <1>4, <1>5, <1>6, <1>7, <1>8 DEF Next, Others, Control

(* The pipeline does nothing to the arbiter's claims, sequence numbers and *)
(* time but what ControlArbiter has as actions: it submits a Move that     *)
(* holds no claim, updates a Servo with a target that is accepted, or      *)
(* releases sessions (terminate, and evaluate's expired Servos).           *)
THEOREM PipelineOnlyCallsTheArbiter ==
  Spec => []Arbiter!TypeOK /\ [][ArbiterCalls]_<<claims, next_sequence, clock>>
<1>1. Core /\ [Next]_vars => [ArbiterCalls]_<<claims, next_sequence, clock>>
  BY StepsCallTheArbiter DEF vars, arbiter
<1>2. Core => Arbiter!TypeOK
  BY TimesAreIntegers
     DEF Core, ClaimsOK, ClaimedBefore, ClaimMap, RestOK, RightEndpoint, MoveEndpoint,
         Arbiter!TypeOK, Arbiter!Session, Session, Arbiter!Claim, Claim
<1>3. QED
  BY <1>1, <1>2, CoreIsInvariant, PTL DEF Spec

LEMMA SameNesting == Arbiter!NestedServoGroups <=> NestedGroups(Endpoint)
  BY DEF Arbiter!NestedServoGroups, Arbiter!NestedGroups, NestedGroups, Arbiter!Overlap, Overlap

LEMMA ArbiterWinnersDisjoint ==
  ASSUME Core
  PROVE  Arbiter!WinnersDisjoint
<1> SUFFICES ASSUME NEW now \in Time,
                    NEW s \in computeWinners(claims, now),
                    NEW t \in computeWinners(claims, now), s # t
             PROVE  ~Conflict(claims[s], claims[t])
  BY SameTimes, SameWinners, SameConflicts DEF Arbiter!WinnersDisjoint
<1> DEFINE U == Unexpired(claims, now)
<1>1. ClaimMap(U) /\ \A u \in DOMAIN U : U[u] = claims[u]
  BY UnexpiredClaimMap DEF Core, ClaimsOK, ClaimedBefore
<1>2. s \in Winners(U) /\ t \in Winners(U)
  BY DEF computeWinners
<1> HIDE DEF U
<1>3. Winners(U) \subseteq DOMAIN U /\ IsSelection(Winners(U), U)
  BY <1>1, WinnersAreSelected
<1>4. ~Conflict(U[s], U[t])
  BY <1>1, <1>2, <1>3, SelectionDisjoint
<1>5. QED
  BY <1>1, <1>2, <1>3, <1>4

LEMMA ArbiterMovesNeverWait ==
  ASSUME Core, MovesLead(claims)
  PROVE  Arbiter!MovesNeverWait
<1> SUFFICES ASSUME NEW now \in Time, NEW m \in DOMAIN claims \cap MoveId
             PROVE  m \in computeWinners(claims, now)
  BY SameTimes, SameWinners DEF Arbiter!MovesNeverWait
<1> DEFINE U == Unexpired(claims, now)
<1>1. ClaimMap(U) /\ MovesLead(U)
  <2>1. ClaimMap(claims)
    BY DEF Core, ClaimsOK, ClaimedBefore
  <2>2. MovesLead(U)
    BY FewerClaimsStillLead DEF Unexpired, Without
  <2>3. QED
    BY <2>1, <2>2, UnexpiredClaimMap
<1>2. m \in DOMAIN U
  <2>1. ~IsServo(claims[m])
    BY ServosHaveServoClaims DEF Core
  <2>2. QED
    BY <2>1, UnexpiredClaimMap DEF Core, ClaimsOK, ClaimedBefore, Expired
<1> HIDE DEF U
<1>3. m \in Winners(U)
  BY <1>1, <1>2, LeadingMovesWin
<1>4. QED
  BY <1>3 DEF U, computeWinners

LEMMA ArbiterInputOrder ==
  ASSUME Core, NestedGroups(Endpoint), MovesLead(claims)
  PROVE  Arbiter!InputOrderIrrelevant
<1> SUFFICES ASSUME NEW now \in Now, NEW s \in Endpoint \cap ServoEndpoint,
                    NEW t \in Endpoint \cap ServoEndpoint,
                    NEW p \in Time, NEW q \in Time, s # t, p # q,
                    AcceptsServo(claims, s, p, now), AcceptsServo(claims, t, q, now)
             PROVE  computeWinners(
                      updateServo(updateServo(claims, next_sequence, s, p, now).claims,
                                  next_sequence + 1, t, q, now).claims, now)
                    = computeWinners(
                      updateServo(updateServo(claims, next_sequence, t, q, now).claims,
                                  next_sequence + 1, s, p, now).claims, now)
  BY SameTimes, SameWinners, SameCalls DEF Arbiter!InputOrderIrrelevant
<1>1. Nested(claims, next_sequence, Endpoint)
  BY ClaimsAreWellKinded DEF Nested, Core, ClaimsOK
<1>2. InLease(s, p, now, Endpoint) /\ InLease(t, q, now, Endpoint)
  BY TimesAreIntegers DEF InLease, AcceptsServo
<1>3. QED
  BY <1>1, <1>2, UpdatesCommute

(* Whatever the pipeline does between its calls, and however its threads   *)
(* interleave, what the arbiter promises holds of the claims it acts upon: *)
(* the winners of a cycle share no joint, and if groups nest, an admitted  *)
(* Move is among them until it ends, and the order in which the targets of *)
(* a cycle are consumed does not matter.                                   *)
THEOREM ArbiterPromisesHold ==
  Spec => [](Arbiter!WinnersDisjoint /\ Arbiter!MovesNeverWait /\ Arbiter!InputOrderIrrelevant)
<1>1. CASE NestedGroups(Endpoint)
  <2>1. Init => MovesLead(claims)
    BY DEF Init, MovesLead
  <2>2. IInv /\ MovesLead(claims) /\ [Next]_vars => MovesLead(claims)'
    BY <1>1, MovesKeepLeading DEF IInv
  <2>3. IInv /\ MovesLead(claims) => /\ Arbiter!WinnersDisjoint /\ Arbiter!MovesNeverWait
                                    /\ Arbiter!InputOrderIrrelevant
    BY <1>1, ArbiterWinnersDisjoint, ArbiterMovesNeverWait, ArbiterInputOrder DEF IInv
  <2>4. QED
    BY <2>1, <2>2, <2>3, InvariantHolds, PTL DEF Spec
<1>2. CASE ~NestedGroups(Endpoint)
  <2>1. IInv => /\ Arbiter!WinnersDisjoint /\ Arbiter!MovesNeverWait
                /\ Arbiter!InputOrderIrrelevant
    BY <1>2, SameNesting, ArbiterWinnersDisjoint
       DEF IInv, Arbiter!MovesNeverWait, Arbiter!InputOrderIrrelevant
  <2>2. QED
    BY <2>1, InvariantHolds, PTL
<1>3. QED
  BY <1>1, <1>2
=============================================================================
