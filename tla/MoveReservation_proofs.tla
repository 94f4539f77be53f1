------------------------ MODULE MoveReservation_proofs ------------------------
(***************************************************************************)
(* The safety of handing joints from Servos to a Move and back.  The       *)
(* invariant has a layer for each piece of state and one for each property *)
(* that a run checks; the tracker of a topic is related to what has been   *)
(* sent since the ROS clock was last set back, the claims to the workers   *)
(* that have submitted them, and the workers to the joints they reserved.  *)
(***************************************************************************)
EXTENDS MoveReservation, Arbitration_proofs

Targets == [packet : Packet, fresh_at : Time]

ClocksOK ==
  /\ clock \in Time /\ ros_now \in Time /\ ros_now <= clock
  /\ servo_cutoffs \in [Joint -> Time]
  /\ servo_timestamps \in [ServoEndpoint -> Tracker]
  /\ readings \subseteq Packet
  /\ newest \in [ServoEndpoint -> Time \cup {Unheard}]

QueuesOK ==
  /\ DOMAIN latest_servos \subseteq ServoEndpoint
  /\ latest_servos \in [DOMAIN latest_servos -> Targets]
  /\ DOMAIN pending \subseteq ServoEndpoint /\ pending \in [DOMAIN pending -> Targets]
  /\ reserving \subseteq ServoEndpoint

WorkerRecord == [endpoint : MoveEndpoint, stage : {"reserved", "running", "submitted"}]

(* A worker owns the joints of its endpoint until it ends.         *)
OwnersOK ==
  /\ DOMAIN move_owners \subseteq Joint /\ move_owners \in [DOMAIN move_owners -> MoveId]
  /\ DOMAIN workers \subseteq MoveId
  /\ workers \in [DOMAIN workers -> WorkerRecord]
  /\ \A m \in DOMAIN workers : \A j \in Joints[workers[m].endpoint] :
       j \in DOMAIN move_owners /\ move_owners[j] = m

(* The claim of a Move is that of its worker, which has submitted it.      *)
ClaimsOK ==
  /\ next_sequence \in Nat /\ ClaimedBefore(claims, next_sequence)
  /\ DOMAIN claims \subseteq Session
  /\ \A m \in DOMAIN claims \cap MoveId :
       /\ m \in DOMAIN workers
       /\ workers[m].stage = "submitted" /\ claims[m].endpoint = workers[m].endpoint

(* Sent since the ROS clock was last set back.                             *)
Current(sent_at) == \A t \in set_backs : sent_at > t

(* Since then both clocks have been advancing together.                    *)
ReadingsOK ==
  /\ set_backs \subseteq 0 .. clock
  /\ \A p \in readings :
       /\ p.sent_at <= clock
       /\ Current(p.sent_at) => p.sent_at - p.stamp = clock - ros_now

(* A tracker has seen a stamp as late as the newest target's, unless that  *)
(* was sent before the clock was set back.                                 *)
TrackersOK ==
  \A s \in ServoEndpoint :
    \/ newest[s] = Unheard \/ ~Current(newest[s])
    \/ /\ servo_timestamps[s].last_ros_now <= ros_now
       /\ newest[s] - servo_timestamps[s].last_stamp <= clock - ros_now

IInv ==
  /\ ClocksOK /\ QueuesOK /\ OwnersOK /\ ClaimsOK /\ ReadingsOK /\ TrackersOK
  /\ QueuedTargetsFollowMoves /\ QueuedTargetsKeepTheirAge


-----------------------------------------------------------------------------
(* What a step does to the clocks, the trackers and the history.           *)

LEMMA AcceptedStamp ==
  ASSUME ClocksOK, NEW s \in ServoEndpoint, NEW stamp \in Time, MayQueue(s, stamp)
  PROVE  stamp # NoStamp
<1>1. PICK j \in Joints[s] : j \in Joint
  BY ArbitrationAssumption
<1>2. servo_cutoffs[j] \in Nat /\ stamp > servo_cutoffs[j]
  BY <1>1, ReservationBounds DEF ClocksOK, Time, MayQueue
<1>3. QED
  BY <1>2 DEF NoStamp

LEMMA StepKeepsClocks ==
  ASSUME IInv, [Next]_vars
  PROVE  ClocksOK'
<1>1. ClocksOK
  BY DEF IInv
<1> USE ReservationBounds
    DEF ClocksOK, Time, Packet, Tracker, Unheard, history, queue, arbiter, clocks
<1>2. ASSUME NEW s \in ServoEndpoint, NEW packet \in readings, QueueServo(s, packet)
      PROVE  ClocksOK'
  <2>1. packet.sent_at \in 0 .. MaxTime /\ packet.stamp \in Nat
    BY <1>1
  <2>2. \A accepted : After(servo_timestamps[s], packet.stamp, ros_now, accepted) \in Tracker
    BY <1>1, <2>1 DEF After, LastStamp, NoStamp
  <2>3. servo_timestamps' \in [ServoEndpoint -> Tracker]
    BY <1>1, <1>2, <2>2 DEF QueueServo
  <2>4. newest' \in [ServoEndpoint -> Time \cup {Unheard}]
    BY <1>1, <1>2, <2>1 DEF QueueServo
  <2>5. QED
    BY <1>1, <1>2, <2>3, <2>4 DEF QueueServo
<1>3. ASSUME NEW m \in MoveId, ReleaseMove(m)
      PROVE  ClocksOK'
  BY <1>1, <1>3 DEF ReleaseMove, CutoffsAfter
<1>4. ASSUME AdvanceClock
      PROVE  ClocksOK'
  BY <1>1, <1>4 DEF AdvanceClock, Reads
<1>5. ASSUME NEW t \in Time, SetRosClock(t)
      PROVE  ClocksOK'
  BY <1>1, <1>5 DEF SetRosClock, Reads
<1>6. CASE UNCHANGED <<clocks, servo_cutoffs, servo_timestamps, history>>
  BY <1>1, <1>6
<1>7. ASSUME NEW m \in MoveId, NEW e \in MoveEndpoint, ReserveMove(m, e)
      PROVE  ClocksOK'
  BY <1>6, <1>7 DEF ReserveMove
<1>8. ASSUME NEW s \in ServoEndpoint, SilenceServo(s) \/ ConsumePending(s)
      PROVE  ClocksOK'
  BY <1>6, <1>8 DEF SilenceServo, ConsumePending
<1>9. ASSUME NEW m \in MoveId, StartWorker(m) \/ SubmitMove(m) \/ EndMove(m)
      PROVE  ClocksOK'
  BY <1>6, <1>9 DEF StartWorker, SubmitMove, EndMove
<1>10. CASE TakePending \/ EvaluateClaims \/ UNCHANGED vars
  BY <1>6, <1>10 DEF TakePending, EvaluateClaims, vars
<1> HIDE DEF ClocksOK
<1>11. QED
  BY <1>2, <1>3, <1>4, <1>5, <1>7, <1>8, <1>9, <1>10 DEF Next

LEMMA StepKeepsReadings ==
  ASSUME IInv, [Next]_vars
  PROVE  ReadingsOK'
<1>1. ReadingsOK /\ ClocksOK
  BY DEF IInv
<1> USE ReservationBounds
    DEF ReadingsOK, ClocksOK, Current, Time, Packet, history, queue, arbiter, clocks
<1>2. CASE UNCHANGED <<clocks, readings, set_backs>>
  BY <1>1, <1>2
<1>3. ASSUME AdvanceClock
      PROVE  ReadingsOK'
  BY <1>1, <1>3 DEF AdvanceClock, Reads
<1>4. ASSUME NEW t \in Time, SetRosClock(t)
      PROVE  ReadingsOK'
  BY <1>1, <1>4 DEF SetRosClock, Reads
<1>5. ASSUME NEW s \in ServoEndpoint, NEW packet \in readings, QueueServo(s, packet)
      PROVE  ReadingsOK'
  BY <1>2, <1>5 DEF QueueServo
<1>6. ASSUME NEW m \in MoveId, NEW e \in MoveEndpoint, ReserveMove(m, e)
      PROVE  ReadingsOK'
  BY <1>2, <1>6 DEF ReserveMove
<1>7. ASSUME NEW s \in ServoEndpoint, SilenceServo(s) \/ ConsumePending(s)
      PROVE  ReadingsOK'
  BY <1>2, <1>7 DEF SilenceServo, ConsumePending
<1>8. ASSUME NEW m \in MoveId, StartWorker(m) \/ SubmitMove(m) \/ EndMove(m) \/ ReleaseMove(m)
      PROVE  ReadingsOK'
  BY <1>2, <1>8 DEF StartWorker, SubmitMove, EndMove, ReleaseMove
<1>9. CASE TakePending \/ EvaluateClaims \/ UNCHANGED vars
  BY <1>2, <1>9 DEF TakePending, EvaluateClaims, vars
<1> HIDE DEF ReadingsOK
<1>10. QED
  BY <1>3, <1>4, <1>5, <1>6, <1>7, <1>8, <1>9 DEF Next

(* An accepted target sent since the clock was last set back is as old as  *)
(* its stamp says, and no older than any target accepted before it.        *)
LEMMA AcceptedIsNewest ==
  ASSUME IInv, NEW s \in ServoEndpoint, NEW packet \in readings, QueueServo(s, packet),
         NEW accepted, accepted = Accepts(servo_timestamps[s], packet.stamp, ros_now,
                                          MaxAge(s), FutureTolerance, FALSE),
         accepted, Current(packet.sent_at)
  PROVE  /\ packet.sent_at >= newest[s]
         /\ FreshAt(packet.stamp, ros_now, clock) = packet.sent_at
<1>1. ClocksOK /\ ReadingsOK /\ TrackersOK
  BY DEF IInv
<1>2. packet.sent_at \in Time /\ packet.stamp \in Time
  BY <1>1 DEF ClocksOK, Packet
<1>3. packet.stamp # NoStamp
  BY <1>1, <1>2, AcceptedStamp DEF QueueServo
<1>4. packet.sent_at - packet.stamp = clock - ros_now /\ packet.sent_at <= clock
  BY <1>1 DEF ReadingsOK
<1>5. packet.stamp > LastStamp(servo_timestamps[s], ros_now)
  BY <1>3 DEF Accepts
<1> DEFINE last == servo_timestamps[s].last_stamp
           seen == servo_timestamps[s].last_ros_now
<1>6. /\ clock \in Nat /\ ros_now \in Nat /\ packet.sent_at \in Nat /\ packet.stamp \in Nat
      /\ last \in Nat /\ seen \in Nat /\ newest[s] \in Nat \cup {Unheard}
  BY <1>1, <1>2, ReservationBounds DEF ClocksOK, Time, Tracker
<1>7. packet.sent_at >= newest[s]
  <2>1. CASE newest[s] = Unheard
    BY <1>6, <2>1 DEF Unheard
  <2>2. CASE ~Current(newest[s])
    <3>1. PICK t \in set_backs : ~(newest[s] > t)
      BY <2>2 DEF Current
    <3>2. packet.sent_at > t /\ t \in Int
      BY <1>1, <3>1 DEF Current, ReadingsOK
    <3>3. QED
      BY <1>6, <3>1, <3>2 DEF Unheard
  <2>3. CASE seen <= ros_now /\ newest[s] - last <= clock - ros_now
    <3>1. packet.stamp > last
      BY <1>5, <1>6, <2>3 DEF LastStamp, Reset
    <3>2. QED
      BY <1>4, <1>6, <2>3, <3>1 DEF Unheard
  <2>4. QED
    BY <1>1, <2>1, <2>2, <2>3 DEF TrackersOK
<1>8. FreshAt(packet.stamp, ros_now, clock) = packet.sent_at
  BY <1>3, <1>4, <1>6 DEF FreshAt
<1>9. QED
  BY <1>7, <1>8

LEMMA StepKeepsTrackers ==
  ASSUME IInv, [Next]_vars
  PROVE  TrackersOK'
<1>1. TrackersOK /\ ClocksOK /\ ReadingsOK
  BY DEF IInv
<1> USE DEF TrackersOK, Current, history, queue, arbiter, clocks
<1>2. ASSUME NEW s \in ServoEndpoint, NEW packet \in readings, QueueServo(s, packet)
      PROVE  TrackersOK'
  <2> DEFINE tracker == servo_timestamps[s]
             accepted == Accepts(tracker, packet.stamp, ros_now, MaxAge(s),
                                 FutureTolerance, FALSE)
             after == servo_timestamps'[s]
  <2>1. after = After(tracker, packet.stamp, ros_now, accepted)
    BY <1>1, <1>2 DEF QueueServo, ClocksOK
  <2>2. UNCHANGED <<clocks, readings, set_backs>>
    BY <1>2 DEF QueueServo
  <2>3. \A r \in ServoEndpoint \ {s} :
          newest'[r] = newest[r] /\ servo_timestamps'[r] = servo_timestamps[r]
    BY <1>1, <1>2 DEF QueueServo, ClocksOK
  <2>4. newest'[s] = IF accepted /\ packet.sent_at > newest[s] THEN packet.sent_at ELSE newest[s]
    BY <1>1, <1>2 DEF QueueServo, ClocksOK
  <2>5. packet.sent_at \in Nat /\ packet.stamp \in Nat /\ clock \in Nat /\ ros_now \in Nat
        /\ newest[s] \in Nat \cup {Unheard} /\ tracker \in Tracker
    BY <1>1, ReservationBounds DEF ClocksOK, Packet, Time
  <2>6. after.last_ros_now = ros_now
    BY <2>1 DEF After
  <2>7. CASE ~accepted
    <3>1. after.last_stamp = LastStamp(tracker, ros_now)
      BY <2>1, <2>7 DEF After
    <3>2. tracker.last_ros_now <= ros_now => after.last_stamp = tracker.last_stamp
      BY <2>5, <3>1 DEF LastStamp, Reset, Tracker
    <3>3. newest'[s] = newest[s]
      BY <2>4, <2>7
    <3>4. QED
      BY <1>1, <2>2, <2>3, <2>5, <2>6, <3>2, <3>3
  <2>8. CASE accepted
    <3>1. packet.stamp # NoStamp
      BY <1>1, <1>2, AcceptedStamp DEF QueueServo, ClocksOK, Packet
    <3>2. after.last_stamp = packet.stamp /\ packet.stamp > LastStamp(tracker, ros_now)
      BY <2>1, <2>8, <3>1 DEF After, Accepts
    <3>3. CASE newest'[s] = packet.sent_at
      <4>1. Current(packet.sent_at) => packet.sent_at - packet.stamp = clock - ros_now
        BY <1>1 DEF ReadingsOK
      <4>2. QED
        BY <2>2, <2>3, <2>5, <2>6, <1>1, <3>2, <3>3, <4>1
    <3>4. CASE newest'[s] = newest[s]
      <4>1. tracker.last_ros_now <= ros_now => packet.stamp > tracker.last_stamp
        BY <2>5, <3>2 DEF LastStamp, Reset, Tracker
      <4>2. ASSUME newest[s] # Unheard, Current(newest[s])
            PROVE  newest[s] - packet.stamp <= clock - ros_now
        <5>1. /\ tracker.last_ros_now <= ros_now
              /\ newest[s] - tracker.last_stamp <= clock - ros_now
          BY <1>1, <4>2
        <5>2. QED
          BY <2>5, <4>1, <4>2, <5>1 DEF Tracker
      <4>3. QED
        BY <2>2, <2>3, <2>5, <2>6, <1>1, <3>2, <3>4, <4>2
    <3>5. QED
      BY <2>4, <3>3, <3>4
  <2>9. QED
    BY <2>7, <2>8
<1>3. ASSUME AdvanceClock
      PROVE  TrackersOK'
  BY <1>1, <1>3, ReservationBounds DEF AdvanceClock, ClocksOK, Tracker, Time, Unheard
<1>4. ASSUME NEW t \in Time, SetRosClock(t)
      PROVE  TrackersOK'
  BY <1>4 DEF SetRosClock
<1>5. CASE UNCHANGED <<clocks, servo_timestamps, set_backs, newest>>
  BY <1>1, <1>5
<1>6. ASSUME NEW m \in MoveId, NEW e \in MoveEndpoint, ReserveMove(m, e)
      PROVE  TrackersOK'
  BY <1>5, <1>6 DEF ReserveMove
<1>7. ASSUME NEW s \in ServoEndpoint, SilenceServo(s) \/ ConsumePending(s)
      PROVE  TrackersOK'
  BY <1>5, <1>7 DEF SilenceServo, ConsumePending
<1>8. ASSUME NEW m \in MoveId, StartWorker(m) \/ SubmitMove(m) \/ EndMove(m) \/ ReleaseMove(m)
      PROVE  TrackersOK'
  BY <1>5, <1>8 DEF StartWorker, SubmitMove, EndMove, ReleaseMove
<1>9. CASE TakePending \/ EvaluateClaims \/ UNCHANGED vars
  BY <1>5, <1>9 DEF TakePending, EvaluateClaims, vars
<1> HIDE DEF TrackersOK
<1>10. QED
  BY <1>2, <1>3, <1>4, <1>6, <1>7, <1>8, <1>9 DEF Next

-----------------------------------------------------------------------------
(* What a step does to the queue and to the targets taken from it.         *)

LEMMA StepKeepsQueues ==
  ASSUME IInv, [Next]_vars
  PROVE  QueuesOK'
<1>1. QueuesOK /\ ClocksOK
  BY DEF IInv
<1> USE DEF QueuesOK, history, queue, arbiter, clocks
<1>2. ASSUME NEW s \in ServoEndpoint, NEW packet \in readings, QueueServo(s, packet)
      PROVE  QueuesOK'
  <2> DEFINE target == [packet   |-> packet,
                        fresh_at |-> FreshAt(packet.stamp, ros_now, clock)]
  <2>1. packet \in Packet
    BY <1>1 DEF ClocksOK
  <2>2. FreshAt(packet.stamp, ros_now, clock) \in Time
    BY <1>1, <2>1, ReservationBounds DEF ClocksOK, Packet, Time, FreshAt
  <2>3. target \in Targets
    BY <2>1, <2>2 DEF Targets
  <2>4. latest_servos' = With(latest_servos, s, target) \/ latest_servos' = latest_servos
    BY <1>2 DEF QueueServo
  <2> HIDE DEF target
  <2>5. /\ DOMAIN latest_servos' \subseteq ServoEndpoint
        /\ latest_servos' \in [DOMAIN latest_servos' -> Targets]
    BY <1>1, <2>3, <2>4 DEF With
  <2>6. QED
    BY <1>1, <1>2, <2>5 DEF QueueServo
<1>3. ASSUME NEW m \in MoveId, NEW e \in MoveEndpoint, ReserveMove(m, e)
      PROVE  QueuesOK'
  BY <1>1, <1>3 DEF ReserveMove
<1>4. ASSUME NEW s \in ServoEndpoint, SilenceServo(s)
      PROVE  QueuesOK'
  BY <1>1, <1>4 DEF SilenceServo, Without, Restrict
<1>5. ASSUME NEW s \in ServoEndpoint, ConsumePending(s)
      PROVE  QueuesOK'
  BY <1>1, <1>5 DEF ConsumePending, Without, Restrict
<1>6. CASE TakePending
  BY <1>1, <1>6 DEF TakePending
<1>7. CASE UNCHANGED <<latest_servos, pending, reserving>>
  BY <1>1, <1>7
<1>8. ASSUME NEW m \in MoveId, StartWorker(m) \/ SubmitMove(m) \/ EndMove(m) \/ ReleaseMove(m)
      PROVE  QueuesOK'
  BY <1>7, <1>8 DEF StartWorker, SubmitMove, EndMove, ReleaseMove
<1>9. ASSUME NEW t \in Time, SetRosClock(t)
      PROVE  QueuesOK'
  BY <1>7, <1>9 DEF SetRosClock
<1>10. CASE EvaluateClaims \/ AdvanceClock \/ UNCHANGED vars
  BY <1>7, <1>10 DEF EvaluateClaims, AdvanceClock, vars
<1> HIDE DEF QueuesOK
<1>11. QED
  BY <1>2, <1>3, <1>4, <1>5, <1>6, <1>8, <1>9, <1>10 DEF Next

LEMMA StepKeepsTargetsAge ==
  ASSUME IInv, [Next]_vars
  PROVE  QueuedTargetsKeepTheirAge'
<1>1. QueuedTargetsKeepTheirAge /\ QueuesOK /\ ClocksOK /\ ReadingsOK
  BY DEF IInv
<1> DEFINE Aged(s, target) ==
      Current(target.packet.sent_at) =>
        target.packet.sent_at >= newest[s] /\ target.fresh_at <= target.packet.sent_at
<1>2. \A s \in DOMAIN latest_servos : Aged(s, latest_servos[s])
  BY <1>1, ReservationBounds
     DEF QueuedTargetsKeepTheirAge, Current, QueuesOK, ReadingsOK, Targets, Packet, Time
<1>3. SUFFICES ASSUME NEW s \in DOMAIN latest_servos'
               PROVE  Aged(s, latest_servos[s])'
  <2>1. \A s \in DOMAIN latest_servos' : Aged(s, latest_servos[s])'
    BY <1>3
  <2>2. QueuesOK' /\ ReadingsOK'
    BY StepKeepsQueues, StepKeepsReadings
  <2>3. QED
    BY <2>1, <2>2, ReservationBounds
       DEF QueuedTargetsKeepTheirAge, Current, QueuesOK, ReadingsOK, Targets, Packet, Time
<1> USE DEF Current, history, queue, arbiter, clocks
<1>4. ASSUME NEW r \in ServoEndpoint, NEW packet \in readings, QueueServo(r, packet)
      PROVE  Aged(s, latest_servos[s])'
  <2> DEFINE target == [packet   |-> packet,
                        fresh_at |-> FreshAt(packet.stamp, ros_now, clock)]
             accepted == Accepts(servo_timestamps[r], packet.stamp, ros_now, MaxAge(r),
                                 FutureTolerance, FALSE)
  <2>1. UNCHANGED set_backs
    BY <1>4 DEF QueueServo
  <2>2. CASE ~accepted
    BY <1>2, <1>4, <2>1, <2>2 DEF QueueServo
  <2>3. CASE accepted /\ s # r
    <3>1. latest_servos' = With(latest_servos, r, target)
      BY <1>4, <2>3 DEF QueueServo
    <3>2. s \in DOMAIN latest_servos /\ latest_servos'[s] = latest_servos[s]
      BY <2>3, <3>1 DEF With
    <3>3. newest'[s] = newest[s]
      BY <1>1, <1>4, <2>3, <3>2 DEF QueueServo, ClocksOK, QueuesOK
    <3>4. QED
      BY <1>2, <2>1, <3>2, <3>3
  <2>4. CASE accepted /\ s = r
    <3>1. latest_servos'[s] = target
      BY <1>4, <2>4 DEF QueueServo, With
    <3>2. newest'[s] = IF packet.sent_at > newest[s] THEN packet.sent_at ELSE newest[s]
      BY <1>1, <1>4, <2>4 DEF QueueServo, ClocksOK
    <3>3. packet.sent_at \in Nat /\ newest[s] \in Int
      BY <1>1, <2>4, ReservationBounds DEF ClocksOK, Packet, Time, Unheard
    <3>4. ASSUME Current(packet.sent_at)
          PROVE  /\ packet.sent_at >= newest[s]
                 /\ FreshAt(packet.stamp, ros_now, clock) = packet.sent_at
      BY <1>4, <2>4, <3>4, AcceptedIsNewest
    <3>5. QED
      BY <2>1, <3>1, <3>2, <3>3, <3>4
  <2>5. QED
    BY <2>2, <2>3, <2>4
<1>5. ASSUME NEW t \in Time, SetRosClock(t)
      PROVE  Aged(s, latest_servos[s])'
  <2>1. latest_servos' = latest_servos /\ set_backs \subseteq set_backs'
    BY <1>5 DEF SetRosClock
  <2>2. s \in ServoEndpoint /\ latest_servos[s].packet.sent_at \in Nat
    BY <1>1, <2>1, ReservationBounds DEF QueuesOK, Targets, Packet, Time
  <2>3. newest'[s] = Unheard
    BY <1>5, <2>2 DEF SetRosClock
  <2>4. QED
    BY <1>2, <2>1, <2>2, <2>3 DEF Unheard
<1>6. ASSUME NEW r \in ServoEndpoint, SilenceServo(r)
      PROVE  Aged(s, latest_servos[s])'
  BY <1>2, <1>6 DEF SilenceServo, Without, Restrict
<1>7. CASE TakePending
  BY <1>7 DEF TakePending
<1>8. CASE UNCHANGED <<latest_servos, set_backs, newest>>
  BY <1>2, <1>8
<1>9. ASSUME NEW m \in MoveId, NEW e \in MoveEndpoint, ReserveMove(m, e)
      PROVE  Aged(s, latest_servos[s])'
  BY <1>8, <1>9 DEF ReserveMove
<1>10. ASSUME NEW r \in ServoEndpoint, ConsumePending(r)
       PROVE  Aged(s, latest_servos[s])'
  BY <1>8, <1>10 DEF ConsumePending
<1>11. ASSUME NEW m \in MoveId, StartWorker(m) \/ SubmitMove(m) \/ EndMove(m) \/ ReleaseMove(m)
       PROVE  Aged(s, latest_servos[s])'
  BY <1>8, <1>11 DEF StartWorker, SubmitMove, EndMove, ReleaseMove
<1>12. CASE EvaluateClaims \/ AdvanceClock \/ UNCHANGED vars
  BY <1>8, <1>12 DEF EvaluateClaims, AdvanceClock, vars
<1>13. QED
  <2> HIDE DEF Aged
  <2>1. QED
    BY <1>4, <1>5, <1>6, <1>7, <1>9, <1>10, <1>11, <1>12 DEF Next

-----------------------------------------------------------------------------
(* What a step does to the reservations.                                   *)

LEMMA StepKeepsOwners ==
  ASSUME IInv, [Next]_vars
  PROVE  OwnersOK'
<1>1. OwnersOK
  BY DEF IInv
<1>2. Joints \in [Endpoint -> SUBSET Joint] /\ MoveEndpoint \subseteq Endpoint
  BY ArbitrationAssumption DEF MoveEndpoint
<1> USE DEF OwnersOK, history, queue, arbiter, clocks
<1>3. ASSUME NEW m \in MoveId, NEW e \in MoveEndpoint, ReserveMove(m, e)
      PROVE  OwnersOK'
  <2>1. /\ m \notin DOMAIN workers /\ Joints[e] \cap DOMAIN move_owners = {}
        /\ workers' = With(workers, m, [endpoint |-> e, stage |-> "reserved"])
        /\ move_owners' = [j \in DOMAIN move_owners \cup Joints[e] |->
                             IF j \in Joints[e] THEN m ELSE move_owners[j]]
    BY <1>3 DEF ReserveMove, MayReserve, Owned
  <2>2. /\ DOMAIN move_owners' \subseteq Joint
        /\ move_owners' \in [DOMAIN move_owners' -> MoveId]
    BY <1>1, <1>2, <2>1
  <2>3. /\ DOMAIN workers' = DOMAIN workers \cup {m}
        /\ workers'[m] = [endpoint |-> e, stage |-> "reserved"]
        /\ \A n \in DOMAIN workers : workers'[n] = workers[n]
        /\ workers' \in [DOMAIN workers' -> WorkerRecord]
    BY <1>1, <2>1 DEF With, WorkerRecord
  <2>4. ASSUME NEW n \in DOMAIN workers', NEW j \in Joints[workers'[n].endpoint]
        PROVE  j \in DOMAIN move_owners' /\ move_owners'[j] = n
    <3>1. CASE n = m
      BY <2>1, <2>3, <2>4, <3>1
    <3>2. CASE n # m
      <4>1. n \in DOMAIN workers /\ j \in Joints[workers[n].endpoint]
        BY <2>3, <2>4, <3>2
      <4>2. j \in DOMAIN move_owners /\ move_owners[j] = n /\ j \notin Joints[e]
        BY <1>1, <2>1, <4>1
      <4>3. QED
        BY <2>1, <4>2
    <3>3. QED
      BY <3>1, <3>2
  <2>5. QED
    BY <1>1, <2>2, <2>3, <2>4
<1>4. ASSUME NEW m \in MoveId, StartWorker(m) \/ SubmitMove(m)
      PROVE  OwnersOK'
  <2>1. PICK stage \in {"running", "submitted"} :
          /\ UNCHANGED move_owners
          /\ workers' = [workers EXCEPT ![m].stage = stage] /\ m \in DOMAIN workers
    BY <1>4 DEF StartWorker, SubmitMove
  <2>2. /\ workers' \in [DOMAIN workers -> WorkerRecord]
        /\ \A n \in DOMAIN workers : workers'[n].endpoint = workers[n].endpoint
    <3> DEFINE W == WorkerRecord
               w == [workers[m] EXCEPT !.stage = stage]
    <3>1. workers[m] \in W
      BY <1>1, <2>1
    <3>2. w \in W /\ w.endpoint = workers[m].endpoint
      BY <3>1 DEF WorkerRecord
    <3>3. workers' = [n \in DOMAIN workers |-> IF n = m THEN w ELSE workers[n]]
      BY <2>1
    <3>4. workers \in [DOMAIN workers -> W]
      BY <1>1
    <3> HIDE DEF w, W
    <3>5. workers' \in [DOMAIN workers -> W]
      BY <3>2, <3>3, <3>4
    <3>6. \A n \in DOMAIN workers : workers'[n].endpoint = workers[n].endpoint
      BY <3>2, <3>3
    <3>7. QED
      BY <3>5, <3>6 DEF W
  <2>3. DOMAIN workers' = DOMAIN workers
    BY <2>1
  <2>4. QED
    BY <1>1, <2>1, <2>2, <2>3
<1>5. ASSUME NEW m \in MoveId, ReleaseMove(m)
      PROVE  OwnersOK'
  BY <1>1, <1>5 DEF ReleaseMove, Without, Restrict
<1>6. CASE UNCHANGED <<move_owners, workers>>
  BY <1>1, <1>6
<1>7. ASSUME NEW s \in ServoEndpoint, NEW packet \in readings, QueueServo(s, packet)
      PROVE  OwnersOK'
  BY <1>6, <1>7 DEF QueueServo
<1>8. ASSUME NEW s \in ServoEndpoint, SilenceServo(s) \/ ConsumePending(s)
      PROVE  OwnersOK'
  BY <1>6, <1>8 DEF SilenceServo, ConsumePending
<1>9. ASSUME NEW m \in MoveId, EndMove(m)
      PROVE  OwnersOK'
  BY <1>6, <1>9 DEF EndMove
<1>10. ASSUME NEW t \in Time, SetRosClock(t)
       PROVE  OwnersOK'
  BY <1>6, <1>10 DEF SetRosClock
<1>11. CASE TakePending \/ EvaluateClaims \/ AdvanceClock \/ UNCHANGED vars
  BY <1>6, <1>11 DEF TakePending, EvaluateClaims, AdvanceClock, vars
<1> HIDE DEF OwnersOK
<1>12. QED
  BY <1>3, <1>4, <1>5, <1>7, <1>8, <1>9, <1>10, <1>11 DEF Next

LEMMA StepKeepsQueueFree ==
  ASSUME IInv, [Next]_vars
  PROVE  QueuedTargetsFollowMoves'
<1>1. QueuedTargetsFollowMoves /\ QueuesOK /\ ClocksOK /\ OwnersOK
  BY DEF IInv
<1>2. Joints \in [Endpoint -> SUBSET Joint] /\ ServoEndpoint \subseteq Endpoint
  BY ArbitrationAssumption
<1> USE DEF QueuedTargetsFollowMoves, Owned, history, queue, arbiter, clocks
<1>3. ASSUME NEW s \in ServoEndpoint, NEW packet \in readings, QueueServo(s, packet)
      PROVE  QueuedTargetsFollowMoves'
  <2> DEFINE target == [packet   |-> packet,
                        fresh_at |-> FreshAt(packet.stamp, ros_now, clock)]
  <2>1. /\ UNCHANGED <<move_owners, servo_cutoffs, reserving>>
        /\ ~Owned(s) /\ \A j \in Joints[s] : packet.stamp > servo_cutoffs[j]
    BY <1>3 DEF QueueServo, MayQueue
  <2>2. latest_servos' = With(latest_servos, s, target) \/ latest_servos' = latest_servos
    BY <1>3 DEF QueueServo
  <2>3. QED
    BY <1>1, <2>1, <2>2 DEF With
<1>4. ASSUME NEW m \in MoveId, NEW e \in MoveEndpoint, ReserveMove(m, e)
      PROVE  QueuedTargetsFollowMoves'
  BY <1>1, <1>4 DEF ReserveMove, InputMutexFree, QueuesOK
<1>5. ASSUME NEW s \in ServoEndpoint, SilenceServo(s)
      PROVE  QueuedTargetsFollowMoves'
  BY <1>1, <1>5 DEF SilenceServo, Without, Restrict
<1>6. ASSUME NEW m \in MoveId, ReleaseMove(m)
      PROVE  QueuedTargetsFollowMoves'
  <2>1. /\ UNCHANGED <<latest_servos, reserving>> /\ reserving = {}
        /\ DOMAIN move_owners' \subseteq DOMAIN move_owners
    BY <1>6 DEF ReleaseMove, InputMutexFree, Restrict
  <2>2. \A j \in Joint \ DOMAIN move_owners : servo_cutoffs'[j] = servo_cutoffs[j]
    BY <1>6 DEF ReleaseMove, CutoffsAfter
  <2>3. QED
    BY <1>1, <1>2, <2>1, <2>2 DEF QueuesOK
<1>7. CASE TakePending
  BY <1>7 DEF TakePending
<1>8. CASE UNCHANGED <<latest_servos, reserving, move_owners, servo_cutoffs>>
  BY <1>1, <1>8
<1>9. ASSUME NEW s \in ServoEndpoint, ConsumePending(s)
      PROVE  QueuedTargetsFollowMoves'
  BY <1>8, <1>9 DEF ConsumePending
<1>10. ASSUME NEW m \in MoveId, StartWorker(m) \/ SubmitMove(m) \/ EndMove(m)
       PROVE  QueuedTargetsFollowMoves'
  BY <1>8, <1>10 DEF StartWorker, SubmitMove, EndMove
<1>11. ASSUME NEW t \in Time, SetRosClock(t)
       PROVE  QueuedTargetsFollowMoves'
  BY <1>8, <1>11 DEF SetRosClock
<1>12. CASE EvaluateClaims \/ AdvanceClock \/ UNCHANGED vars
  BY <1>8, <1>12 DEF EvaluateClaims, AdvanceClock, vars
<1> HIDE DEF QueuedTargetsFollowMoves
<1>13. QED
  BY <1>3, <1>4, <1>5, <1>6, <1>7, <1>9, <1>10, <1>11, <1>12 DEF Next

-----------------------------------------------------------------------------
(* What a step does to the claims.                                         *)

LEMMA FewerClaims ==
  ASSUME ClaimsOK, NEW S \in SUBSET DOMAIN claims, claims' = Restrict(claims, S),
         next_sequence' = next_sequence,
         \A m \in S \cap MoveId : m \in DOMAIN workers' /\ workers'[m] = workers[m]
  PROVE  ClaimsOK'
<1>1. /\ ClaimMap(claims') /\ DOMAIN claims' = S
      /\ \A s \in S : claims'[s] = claims[s]
  BY RestrictClaimMap DEF ClaimsOK, ClaimedBefore
<1>2. QED
  BY <1>1 DEF ClaimsOK, ClaimedBefore

LEMMA StepKeepsClaims ==
  ASSUME IInv, [Next]_vars
  PROVE  ClaimsOK'
<1>1. ClaimsOK /\ OwnersOK /\ QueuesOK /\ ClocksOK
  BY DEF IInv
<1>2. /\ clock \in Nat /\ next_sequence \in Nat /\ ClaimedBefore(claims, next_sequence)
      /\ ClaimMap(claims)
  BY <1>1, ReservationBounds DEF ClocksOK, ClaimsOK, ClaimedBefore, Time
<1>3. MoveId \cap ServoEndpoint = {} /\ MoveEndpoint \subseteq Endpoint
      /\ ServoEndpoint \subseteq Endpoint
  BY ArbitrationAssumption DEF MoveEndpoint
<1> USE DEF history, queue, arbiter, clocks
<1>4. ASSUME NEW m \in MoveId, SubmitMove(m)
      PROVE  ClaimsOK'
  <2> DEFINE e == workers[m].endpoint
             result == submitMove(claims, next_sequence, m, e, clock)
             stored == {t \in {m} : result.admitted}
  <2>1. /\ m \in DOMAIN workers /\ workers[m].stage = "running"
        /\ claims' = result.claims /\ next_sequence' = next_sequence + 1
        /\ workers' = [workers EXCEPT ![m].stage = "submitted"]
    BY <1>4 DEF SubmitMove
  <2>2. m \notin DOMAIN claims /\ e \in Endpoint
    BY <1>1, <1>3, <2>1 DEF ClaimsOK, OwnersOK, WorkerRecord
  <2>3. result = submitMove(claims, next_sequence, m, e, clock)
        /\ stored = {t \in {m} : result.admitted} /\ stored \subseteq {m}
    OBVIOUS
  <2>4. /\ m \in DOMAIN workers' /\ workers'[m].stage = "submitted" /\ workers'[m].endpoint = e
        /\ \A n \in DOMAIN workers \ {m} : n \in DOMAIN workers' /\ workers'[n] = workers[n]
    BY <1>1, <2>1 DEF OwnersOK, WorkerRecord
  <2> HIDE DEF result, stored, e
  <2>5. ResultOK(claims, m, StoredClaim(e, next_sequence, clock), clock, result, stored)
    BY <1>2, <2>2, <2>3, SubmitResult
  <2>6. /\ ClaimMap(claims') /\ DOMAIN claims' \subseteq DOMAIN claims \cup {m}
        /\ \A t \in DOMAIN claims' : claims'[t] =
             IF t = m THEN StoredClaim(e, next_sequence, clock) ELSE claims[t]
    BY <2>1, <2>3, <2>5 DEF ResultOK
  <2>7. ClaimedBefore(claims', next_sequence')
    <3>1. /\ StoredClaim(e, next_sequence, clock).receive_sequence = next_sequence
          /\ StoredClaim(e, next_sequence, clock).endpoint = e
      BY DEF StoredClaim
    <3>2. \A t \in DOMAIN claims' : claims'[t].receive_sequence < next_sequence + 1
      BY <1>2, <2>6, <3>1 DEF ClaimedBefore, ClaimMap, Claim
    <3>3. QED
      BY <2>1, <2>6, <3>2 DEF ClaimedBefore
  <2>8. ASSUME NEW n \in DOMAIN claims' \cap MoveId
        PROVE  /\ n \in DOMAIN workers'
               /\ workers'[n].stage = "submitted" /\ claims'[n].endpoint = workers'[n].endpoint
    <3>1. CASE n = m
      BY <2>4, <2>6, <3>1 DEF StoredClaim
    <3>2. CASE n # m
      BY <1>1, <2>4, <2>6, <3>2 DEF ClaimsOK
    <3>3. QED
      BY <3>1, <3>2
  <2>9. QED
    BY <1>1, <1>2, <2>1, <2>6, <2>7, <2>8 DEF ClaimsOK, Session
<1>5. ASSUME NEW s \in ServoEndpoint, ConsumePending(s)
      PROVE  ClaimsOK'
  <2> DEFINE at == pending[s].fresh_at
             result == updateServo(claims, next_sequence, s, at, clock)
  <2>1. s \notin MoveId /\ UNCHANGED workers /\ s \in DOMAIN pending
    BY <1>3, <1>5 DEF ConsumePending
  <2>2. at \in Int
    BY <1>1, <2>1, ReservationBounds DEF QueuesOK, Targets, Time
  <2>3. CASE claims' = result.claims /\ next_sequence' = next_sequence + 1
    <3>1. result = updateServo(claims, next_sequence, s, at, clock)
      OBVIOUS
    <3> HIDE DEF result, at
    <3>2. ResultOK(claims, s, StoredClaim(s, next_sequence, at), clock, result, {s})
      BY <1>2, <2>2, <3>1, UpdateResult
    <3>3. /\ ClaimMap(claims') /\ DOMAIN claims' \subseteq DOMAIN claims \cup {s}
          /\ \A t \in DOMAIN claims' : claims'[t] =
               IF t = s THEN StoredClaim(s, next_sequence, at) ELSE claims[t]
      BY <2>3, <3>2 DEF ResultOK
    <3>4. ClaimedBefore(claims', next_sequence')
      <4>1. StoredClaim(s, next_sequence, at).receive_sequence = next_sequence
        BY DEF StoredClaim
      <4>2. \A t \in DOMAIN claims' : claims'[t].receive_sequence < next_sequence + 1
        BY <1>2, <3>3, <4>1 DEF ClaimedBefore, ClaimMap, Claim
      <4>3. QED
        BY <2>3, <3>3, <4>2 DEF ClaimedBefore
    <3>5. QED
      BY <1>1, <1>2, <2>1, <2>3, <3>3, <3>4 DEF ClaimsOK, Session
  <2>4. CASE UNCHANGED arbiter
    BY <1>1, <2>1, <2>4 DEF ClaimsOK
  <2>5. QED
    BY <1>5, <2>3, <2>4 DEF ConsumePending
<1>6. ASSUME NEW m \in MoveId, NEW e \in MoveEndpoint, ReserveMove(m, e)
      PROVE  ClaimsOK'
  <2>1. UNCHANGED arbiter /\ m \notin DOMAIN workers
        /\ DOMAIN workers' = DOMAIN workers \cup {m}
        /\ \A n \in DOMAIN workers : workers'[n] = workers[n]
    BY <1>6 DEF ReserveMove, With
  <2>2. QED
    BY <1>1, <2>1 DEF ClaimsOK
<1>7. ASSUME NEW m \in MoveId, ReleaseMove(m)
      PROVE  ClaimsOK'
  BY <1>1, <1>7 DEF ReleaseMove, ClaimsOK, Without, Restrict
<1>8. ASSUME NEW s \in ServoEndpoint, SilenceServo(s)
      PROVE  ClaimsOK'
  <2>1. claims' = Restrict(claims, DOMAIN claims \ {s}) /\ UNCHANGED <<next_sequence, workers>>
    BY <1>8 DEF SilenceServo, Without
  <2>2. QED
    BY <1>1, <2>1, FewerClaims DEF ClaimsOK
<1>9. ASSUME NEW m \in MoveId, EndMove(m)
      PROVE  ClaimsOK'
  <2>1. claims' = Restrict(claims, DOMAIN claims \ {m}) /\ UNCHANGED <<next_sequence, workers>>
    BY <1>9 DEF EndMove, Without
  <2>2. QED
    BY <1>1, <2>1, FewerClaims DEF ClaimsOK
<1>10. CASE EvaluateClaims
  <2>1. UNCHANGED <<next_sequence, workers>>
    BY <1>10 DEF EvaluateClaims
  <2>2. PICK S \in SUBSET DOMAIN claims : claims' = Restrict(claims, S)
    BY <1>10 DEF EvaluateClaims, Unexpired, Without
  <2>3. QED
    BY <1>1, <2>1, <2>2, FewerClaims DEF ClaimsOK
<1>11. CASE UNCHANGED <<claims, next_sequence, workers>>
  BY <1>1, <1>11 DEF ClaimsOK
<1>12. ASSUME NEW s \in ServoEndpoint, NEW packet \in readings, QueueServo(s, packet)
       PROVE  ClaimsOK'
  BY <1>11, <1>12 DEF QueueServo
<1>13. ASSUME NEW t \in Time, SetRosClock(t)
       PROVE  ClaimsOK'
  BY <1>11, <1>13 DEF SetRosClock
<1>14. CASE TakePending \/ AdvanceClock \/ UNCHANGED vars
  BY <1>11, <1>14 DEF TakePending, AdvanceClock, vars
<1>15. ASSUME NEW m \in MoveId, StartWorker(m)
       PROVE  ClaimsOK'
  <2>1. /\ UNCHANGED <<claims, next_sequence>> /\ m \in DOMAIN workers
        /\ DOMAIN workers' = DOMAIN workers /\ workers[m].stage = "reserved"
        /\ \A n \in DOMAIN workers \ {m} : workers'[n] = workers[n]
    BY <1>1, <1>15 DEF StartWorker, OwnersOK
  <2>2. m \notin DOMAIN claims
    BY <1>1, <2>1 DEF ClaimsOK
  <2>3. QED
    BY <1>1, <2>1, <2>2 DEF ClaimsOK
<1>16. QED
  BY <1>4, <1>5, <1>6, <1>7, <1>8, <1>9, <1>10, <1>12, <1>13, <1>14, <1>15 DEF Next

-----------------------------------------------------------------------------
LEMMA InvariantHolds == Spec => []IInv
<1>1. Init => IInv
  <2>1. SUFFICES ASSUME Init
                 PROVE  IInv
    OBVIOUS
  <2>2. ClocksOK
    BY <2>1, ReservationBounds
       DEF Init, ClocksOK, Time, Packet, Tracker, FreshTracker, NoStamp, Unheard
  <2>3. QueuesOK /\ OwnersOK
    BY <2>1 DEF Init, QueuesOK, OwnersOK
  <2>4. ClaimsOK
    BY <2>1, FS_EmptySet DEF Init, ClaimsOK, ClaimedBefore, ClaimMap
  <2>5. ReadingsOK /\ TrackersOK
    BY <2>1 DEF Init, ReadingsOK, TrackersOK
  <2>6. QueuedTargetsFollowMoves /\ QueuedTargetsKeepTheirAge
    BY <2>1 DEF Init, QueuedTargetsFollowMoves, QueuedTargetsKeepTheirAge
  <2>7. QED
    BY <2>2, <2>3, <2>4, <2>5, <2>6 DEF IInv
<1>2. IInv /\ [Next]_vars => IInv'
  BY StepKeepsClocks, StepKeepsReadings, StepKeepsTrackers, StepKeepsQueues, StepKeepsTargetsAge,
     StepKeepsOwners, StepKeepsQueueFree, StepKeepsClaims DEF IInv
<1>3. QED
  BY <1>1, <1>2, PTL DEF Spec

-----------------------------------------------------------------------------
(* Type correctness: among others a queued target's lease never begins     *)
(* before time zero, since the ROS clock is never ahead of the steady one. *)
THEOREM TypeCorrect == Spec => []TypeOK
<1>1. IInv => TypeOK
  BY DEF IInv, TypeOK, ClocksOK, QueuesOK, OwnersOK, WorkerRecord, ClaimsOK, ClaimedBefore,
         ClaimMap, Targets
<1>2. QED
  BY <1>1, InvariantHolds, PTL

(* A Move holds a claim only while its worker has reserved every joint it  *)
(* commands, and a joint is reserved by one Move.                          *)
THEOREM ClaimedMovesAreReserved == Spec => []MovesAreReserved
<1>1. IInv => MovesAreReserved
  BY DEF IInv, MovesAreReserved, ClaimsOK, OwnersOK
<1>2. QED
  BY <1>1, InvariantHolds, PTL

(* Outside reserve_move's own loop no queued target is for a reserved      *)
(* joint, or stamped before the last Move on its joints ended.             *)
THEOREM TargetsFollowMoves == Spec => []QueuedTargetsFollowMoves
<1>1. IInv => QueuedTargetsFollowMoves
  BY DEF IInv
<1>2. QED
  BY <1>1, InvariantHolds, PTL

(* Whatever is delayed, overtaken or repeated, a queued target sent since  *)
(* the ROS clock was last set back is the newest that was let through, and *)
(* its lease is counted from when it was sent.                             *)
THEOREM TargetsKeepTheirAge == Spec => []QueuedTargetsKeepTheirAge
<1>1. IInv => QueuedTargetsKeepTheirAge
  BY DEF IInv
<1>2. QED
  BY <1>1, InvariantHolds, PTL

-----------------------------------------------------------------------------
(* What the reservations are for: among the Moves the arbiter has nothing  *)
(* to decide.                                                              *)

MovesShareNoJoint ==
  \A m, n \in DOMAIN claims \cap MoveId : m # n => ~Conflict(claims[m], claims[n])

(* Two Moves that hold claims share no joint: each has reserved its own.   *)
THEOREM ClaimedMovesAreApart == Spec => []MovesShareNoJoint
<1>1. ASSUME MovesAreReserved PROVE MovesShareNoJoint
  BY <1>1 DEF MovesAreReserved, MovesShareNoJoint, Conflict, Overlap
<1>2. QED
  BY <1>1, ClaimedMovesAreReserved, PTL

(* The strengthening: every claim is of its session's kind, and a Move     *)
(* outranks all it shares a joint with.                                    *)
LeadOK == WellKinded(claims, Endpoint) /\ MovesLead(claims)

(* What the two calls that store a claim do to it.                         *)
LEMMA SubmittingKeepsLead ==
  ASSUME NestedGroups(Endpoint), IInv, LeadOK, NEW m \in MoveId, SubmitMove(m)
  PROVE  LeadOK'
<1> DEFINE e == workers[m].endpoint
           result == submitMove(claims, next_sequence, m, e, clock)
           stored == {t \in {m} : result.admitted}
<1>1. m \in DOMAIN workers /\ workers[m].stage = "running" /\ claims' = result.claims
  BY DEF SubmitMove, arbiter
<1>2. /\ clock \in Nat /\ next_sequence \in Nat /\ ClaimedBefore(claims, next_sequence)
      /\ m \notin DOMAIN claims
  BY <1>1, ReservationBounds DEF IInv, ClocksOK, ClaimsOK, Time
<1>3. e \in MoveEndpoint /\ e \in Endpoint /\ ~(e \in ServoEndpoint)
  BY <1>1 DEF IInv, OwnersOK, WorkerRecord, MoveEndpoint
<1>4. result = submitMove(claims, next_sequence, m, e, clock)
      /\ stored = {t \in {m} : result.admitted} /\ stored \subseteq {m}
  OBVIOUS
<1> HIDE DEF result, stored, e
<1>5. ResultOK(claims, m, StoredClaim(e, next_sequence, clock), clock, result, stored)
  BY <1>2, <1>3, <1>4, SubmitResult
<1>6. WellKinded(claims', Endpoint)
  BY <1>1, <1>3, <1>4, <1>5 DEF LeadOK, WellKinded, ResultOK, StoredClaim, IsServo
<1>7. MovesLead(claims')
  BY <1>1, <1>2, <1>3, <1>4, SubmitKeepsMovesLeading DEF LeadOK
<1>8. QED
  BY <1>6, <1>7 DEF LeadOK

LEMMA ConsumingKeepsLead ==
  ASSUME NestedGroups(Endpoint), IInv, LeadOK, NEW s \in ServoEndpoint, ConsumePending(s)
  PROVE  LeadOK'
<1> DEFINE at == pending[s].fresh_at
           result == updateServo(claims, next_sequence, s, at, clock)
<1>1. CASE UNCHANGED claims
  BY <1>1 DEF LeadOK
<1>2. CASE AcceptsServo(claims, s, at, clock) /\ claims' = result.claims
  <2>1. /\ clock \in Nat /\ next_sequence \in Nat /\ ClaimedBefore(claims, next_sequence)
        /\ at \in Int /\ s \in Endpoint /\ s \notin MoveId
    BY ReservationBounds, ArbitrationAssumption
       DEF IInv, ClocksOK, ClaimsOK, QueuesOK, Targets, Time, ConsumePending
  <2>2. result = updateServo(claims, next_sequence, s, at, clock)
        /\ clock - at < Lease[s]
    BY <1>2 DEF AcceptsServo
  <2> HIDE DEF result, at
  <2>3. ResultOK(claims, s, StoredClaim(s, next_sequence, at), clock, result, {s})
    BY <2>1, <2>2, UpdateResult
  <2>4. WellKinded(claims', Endpoint)
    BY <1>2, <2>1, <2>3 DEF LeadOK, WellKinded, ResultOK, StoredClaim, IsServo
  <2>5. MovesLead(claims')
    <3>1. s \in ServoEndpoint \cap Endpoint /\ MovesLead(claims)
          /\ WellKinded(claims, Endpoint) /\ clock \in Int
      BY <2>1 DEF LeadOK
    <3>2. MovesLead(updateServo(claims, next_sequence, s, at, clock).claims)
      BY <2>1, <2>2, <3>1, UpdateKeepsMovesLeading
    <3>3. QED
      BY <1>2, <2>2, <3>2
  <2>6. QED
    BY <2>4, <2>5 DEF LeadOK
<1>3. QED
  BY <1>1, <1>2 DEF ConsumePending, arbiter

LEMMA LeadHolds ==
  ASSUME NestedGroups(Endpoint)
  PROVE  Spec => [](IInv /\ LeadOK)
<1>1. Init => LeadOK
  BY DEF Init, LeadOK, WellKinded, MovesLead
<1>2. ASSUME IInv, LeadOK, [Next]_vars PROVE LeadOK'
  <2> USE DEF history, queue, arbiter, clocks
  <2>1. ASSUME NEW S \in SUBSET DOMAIN claims, claims' = Restrict(claims, S)
        PROVE  LeadOK'
    BY <1>2, <2>1, FewerClaimsStillLead DEF LeadOK, WellKinded, Restrict
  <2>2. ASSUME NEW s \in ServoEndpoint, SilenceServo(s) PROVE LeadOK'
    BY <2>1, <2>2 DEF SilenceServo, Without
  <2>3. ASSUME NEW m \in MoveId, EndMove(m) PROVE LeadOK'
    BY <2>1, <2>3 DEF EndMove, Without
  <2>4. CASE EvaluateClaims
    BY <2>1, <2>4 DEF EvaluateClaims, Unexpired, Without
  <2>5. CASE UNCHANGED claims
    BY <1>2, <2>5 DEF LeadOK
  <2>6. ASSUME NEW m \in MoveId, StartWorker(m) \/ ReleaseMove(m) PROVE LeadOK'
    BY <2>5, <2>6 DEF StartWorker, ReleaseMove
  <2>7. ASSUME NEW m \in MoveId, NEW e \in MoveEndpoint, ReserveMove(m, e) PROVE LeadOK'
    BY <2>5, <2>7 DEF ReserveMove
  <2>8. ASSUME NEW s \in ServoEndpoint, NEW packet \in readings, QueueServo(s, packet)
        PROVE  LeadOK'
    BY <2>5, <2>8 DEF QueueServo
  <2>9. ASSUME NEW t \in Time, SetRosClock(t) PROVE LeadOK'
    BY <2>5, <2>9 DEF SetRosClock
  <2>10. CASE TakePending \/ AdvanceClock \/ UNCHANGED vars
    BY <2>5, <2>10 DEF TakePending, AdvanceClock, vars
  <2>11. QED
    BY <1>2, <2>2, <2>3, <2>4, <2>6, <2>7, <2>8, <2>9, <2>10, SubmittingKeepsLead,
       ConsumingKeepsLead DEF Next
<1>3. QED
  BY <1>1, <1>2, InvariantHolds, PTL DEF Spec

MovesControlTheirJoints ==
  \A now \in Time : \A m \in DOMAIN claims \cap MoveId : m \in computeWinners(claims, now)

(* While the groups are nested, a Move that holds a claim is in control of *)
(* the joints it has reserved.                                             *)
THEOREM ReservedMovesAreInControl ==
  ASSUME NestedGroups(Endpoint)
  PROVE  Spec => []MovesControlTheirJoints
<1>1. IInv /\ LeadOK => MovesControlTheirJoints
  <2> SUFFICES ASSUME IInv, LeadOK, NEW now \in Time, NEW m \in DOMAIN claims \cap MoveId
               PROVE  m \in computeWinners(claims, now)
    BY DEF MovesControlTheirJoints
  <2> DEFINE U == Unexpired(claims, now)
  <2>1. ClaimMap(U)
    BY UnexpiredClaimMap DEF IInv, ClaimsOK, ClaimedBefore
  <2>2. MovesLead(U)
    BY FewerClaimsStillLead DEF LeadOK, Unexpired, Without
  <2>3. m \in DOMAIN U
    BY DEF LeadOK, WellKinded, Unexpired, Without, Restrict, Expired
  <2> HIDE DEF U
  <2>4. m \in Winners(U)
    BY <2>1, <2>2, <2>3, LeadingMovesWin
  <2>5. QED
    BY <2>4 DEF computeWinners, U
<1>2. QED
  BY <1>1, LeadHolds, PTL

(* A Move that shares no joint with a claim that is stored, and leads the  *)
(* others, still leads them all.                                           *)
LEMMA LeaderStaysAhead ==
  ASSUME NEW C, ClaimMap(C), MovesLead(C), NEW s, NEW c \in Claim, ClaimMap(With(C, s, c)),
         NEW m \in DOMAIN C \cap MoveId, m # s, ~Conflict(C[m], c)
  PROVE  m \in Winners(With(C, s, c))
<1> DEFINE claimed == With(C, s, c)
<1>1. /\ ClaimMap(claimed) /\ DOMAIN claimed = DOMAIN C \cup {s} /\ claimed[s] = c
      /\ \A t \in DOMAIN C : t # s => claimed[t] = C[t]
  BY DEF With
<1> HIDE DEF claimed
<1>2. Winners(claimed) \subseteq DOMAIN claimed /\ IsSelection(Winners(claimed), claimed)
  BY <1>1, WinnersAreSelected
<1>3. ASSUME NEW w \in Winners(claimed), Conflict(claimed[w], claimed[m]),
             Outranks(claimed[w], claimed[m])
      PROVE  FALSE
  <2>1. claimed[w] \in Claim /\ claimed[m] \in Claim
    BY <1>1, <1>2 DEF ClaimMap
  <2>2. ~Outranks(claimed[m], claimed[w])
    BY <1>3, <2>1, OutranksIsAsymmetric
  <2>3. m # w
    BY <1>3, <2>2
  <2>4. Conflict(claimed[m], claimed[w])
    BY <1>3, <2>1, ConflictIsSymmetric
  <2>5. w # s
    BY <1>1, <2>4
  <2>6. w \in DOMAIN C /\ claimed[w] = C[w] /\ claimed[m] = C[m]
    BY <1>1, <1>2, <2>5
  <2>7. QED
    BY <2>2, <2>3, <2>4, <2>6 DEF MovesLead
<1>4. m \in Winners(claimed)
  BY <1>1, <1>2, <1>3 DEF IsSelection
<1>5. QED
  BY <1>4 DEF claimed

(* Submitting a Move ends no other Move, admitted or not: reserve_move has *)
(* turned away whoever would have competed with one that runs.             *)
MovesPreemptNoMove ==
  [][\A m, n \in MoveId : SubmitMove(n) /\ m \in DOMAIN claims => m \in DOMAIN claims']_vars

THEOREM ReservedMovesPreemptNone ==
  ASSUME NestedGroups(Endpoint)
  PROVE  Spec => MovesPreemptNoMove
<1>1. ASSUME IInv, LeadOK, NEW m \in MoveId, NEW n \in MoveId, SubmitMove(n),
             m \in DOMAIN claims
      PROVE  m \in DOMAIN claims'
  <2> DEFINE e == workers[n].endpoint
             c == StoredClaim(e, next_sequence, clock)
             U == Unexpired(claims, clock)
             put == PutClaim(U, n, c, clock)
  <2>1. /\ n \in DOMAIN workers /\ workers[n].stage = "running"
        /\ claims' = submitMove(claims, next_sequence, n, e, clock).claims
    BY <1>1 DEF SubmitMove, arbiter
  <2>2. /\ clock \in Nat /\ next_sequence \in Nat /\ ClaimedBefore(claims, next_sequence)
        /\ n \notin DOMAIN claims /\ MovesLead(claims)
    BY <1>1, <2>1, ReservationBounds DEF IInv, ClocksOK, ClaimsOK, LeadOK, Time
  <2>3. e \in Endpoint /\ ~(e \in ServoEndpoint)
    BY <1>1, <2>1 DEF IInv, OwnersOK, WorkerRecord, MoveEndpoint
  <2>4. n # m /\ ~Overlap(claims[m].endpoint, e)
    <3>1. /\ m \in DOMAIN workers /\ workers[m].stage = "submitted"
          /\ claims[m].endpoint = workers[m].endpoint
      BY <1>1 DEF IInv, ClaimsOK
    <3>2. n # m
      BY <2>1, <3>1
    <3>3. QED
      BY <1>1, <2>1, <3>1, <3>2 DEF IInv, OwnersOK, Overlap
  <2>5. claims' = put.claims \/ claims' = Without(put.claims, {n})
    BY <2>1 DEF submitMove, StoredClaim
  <2>6. /\ c \in Claim /\ c.receive_sequence = next_sequence /\ c.endpoint = e
        /\ ~Expired(c, clock)
    BY <2>2, <2>3 DEF StoredClaim, Claim, Expired, IsServo
  <2>7. U = Unexpired(claims, clock) /\ put = PutClaim(U, n, c, clock)
    OBVIOUS
  <2>8. m \in DOMAIN U
    BY <1>1 DEF LeadOK, WellKinded, Unexpired, Without, Restrict, Expired
  <2> HIDE DEF U, put, c, e
  <2>9. /\ ClaimMap(U) /\ MovesLead(U) /\ NoneExpired(U, clock) /\ U[m] = claims[m]
        /\ \A t \in DOMAIN U : U[t].receive_sequence # c.receive_sequence
    BY <2>2, <2>6, <2>7, <2>8, UnexpiredStillLead
  <2> DEFINE claimed == With(U, n, c)
  <2>10. claimed = With(U, n, c)
    OBVIOUS
  <2> HIDE DEF claimed
  <2>11. /\ ClaimMap(claimed) /\ put.claims = Without(claimed, put.preempted)
         /\ put.preempted = PreemptedMoves(claimed, Winners(U), Winners(claimed))
    BY <2>6, <2>7, <2>9, <2>10, PutClaimWinners
  <2>12. m \in Winners(claimed)
    <3>1. ~Conflict(U[m], c)
      BY <2>4, <2>6, <2>9 DEF Conflict
    <3>2. QED
      BY <2>4, <2>6, <2>8, <2>9, <2>10, <2>11, <3>1, LeaderStaysAhead
  <2>13. m \in DOMAIN put.claims
    BY <2>8, <2>10, <2>11, <2>12 DEF PreemptedMoves, Without, Restrict, With
  <2>14. QED
    BY <2>4, <2>5, <2>13 DEF Without, Restrict
<1>2. IInv /\ LeadOK /\ [Next]_vars =>
        [\A m, n \in MoveId : SubmitMove(n) /\ m \in DOMAIN claims => m \in DOMAIN claims']_vars
  BY <1>1
<1>3. QED
  BY <1>2, LeadHolds, PTL DEF MovesPreemptNoMove, Spec
=============================================================================
