------------------------ MODULE PermitProtocol_proofs ------------------------
(***************************************************************************)
(* The safety of the permission protocol.  The two threads increment the   *)
(* generation, close the pipeline and open it in any order, so the         *)
(* pipeline's generation may lag behind the node's, or even go back.  What *)
(* holds is that nothing was asked for under a generation that a callback  *)
(* still has to bring into force.                                          *)
(***************************************************************************)
EXTENDS PermitProtocol, TLAPS

\* What may come to be published.
Live == requests \cup sessions \cup cycle.pending

CallbackRecord ==
  [step : {"idle", "accept", "load_close", "close", "clear", "renew", "load_open", "open",
           "enable", "ack"},
   epoch : Epoch \cup Key \cup {None},
   what : {None, "move", "servo", "rearm", "renew"} \cup Phase,
   generation : Nat]
CycleRecord ==
  [step : {"idle", "exchange", "count", "expire", "capture", "swap", "tick", "publish"},
   generation : Nat, ownership : Key \cup {None},
   pending : SUBSET Request, batch : SUBSET Request]

Records == callback \in CallbackRecord /\ cycle \in CycleRecord

Bounds ==
  /\ callback.generation <= permit_generation /\ cycle.generation <= permit_generation
  /\ \A r \in Live : r.generation <= permit_generation

Types == TypeOK /\ Records /\ Bounds

\* Where a callback is once it has counted a new generation.
Steps(what) ==
  CASE what = "rearm"           -> {"close", "renew", "load_open", "open", "enable"}
    [] what = "renew"           -> {"renew", "enable"}
    [] what = "grant"           -> {"load_close", "close", "clear", "load_open", "open",
                                    "enable", "ack"}
    [] what \in {"revoke", "off"} -> {"load_close", "close", "clear", "ack"}
    [] what \in {"move", "servo"} -> {"accept"}
    [] what = None              -> {"idle"}

(* What the executor thread is about to do fits what it has received.      *)
CallbackOK ==
  /\ callback.step \in Steps(callback.what)
  /\ callback.what \in {"move", "servo"} => callback.epoch = CurrentEpoch /\ CurrentEpoch # None
  /\ callback.what \in {"rearm", "renew"} => callback.epoch \in Epoch /\ ~intervention_active
  /\ callback.what = "renew" => permit_epoch = callback.epoch
  /\ callback.what = "rearm" /\ callback.step \notin {"close", "renew"} =>
       permit_epoch = callback.epoch
  /\ callback.what \in Phase =>
       ownership_key = callback.epoch /\ ownership_phase = callback.what

OwnershipOK ==
  /\ intervention_active <=> ownership_phase \in {"revoke", "grant"}
  /\ ownership_key = None <=> ownership_phase = None
  /\ permit_enabled => CurrentEpoch # None

(* While a callback changes the permission, nothing has been asked for     *)
(* under the new generation.                                               *)
EpochsOK ==
  \A r \in Live : r.generation = permit_generation =>
    /\ r.epoch = CurrentEpoch
    /\ callback.what \in {None, "move", "servo", "renew"}

(* Between closing the pipeline and opening it a callback finds it closed; *)
(* what it will open it with was counted after all that is asked for.      *)
ClosedOK ==
  /\ \/ callback.step \in {"clear", "load_open", "open"}
     \/ callback.step = "renew" /\ callback.what = "rearm"
     \/ callback.step = "ack" /\ callback.what # "grant"
     => ~output_enabled
  /\ callback.step = "open" => \A r \in Live : r.generation # callback.generation

(* The pipeline is open only if the node is permitted, or one of the two   *)
(* threads is about to make it so.                                         *)
OpenOK ==
  output_enabled =>
    \/ permit_enabled
    \/ callback.step \in {"load_close", "close", "enable"}
    \/ cycle.step \in {"count", "expire"}

(* Where the pipeline is open under another generation than the node's,    *)
(* nothing was asked for under that.                                       *)
GenerationsOK ==
  /\ permit_enabled \/ callback.step \in {"renew", "enable"}
  /\ output_enabled /\ output_generation # permit_generation
  /\ cycle.step \notin {"count", "expire"}
  => \A r \in Live : r.generation # output_generation

SessionsOK ==
  \A r \in sessions : output_enabled /\ r.generation = output_generation

CycleOK ==
  cycle.step \in {"swap", "tick", "publish"} /\ cycle.generation = permit_generation =>
    cycle.ownership = ownership_key

(* An acknowledged revocation is final until the next message.             *)
AckOK ==
  /\ ownership_ack.phase # None => ownership_key # None
  /\ ownership_ack.key # None =>
       /\ ownership_ack.phase = ownership_phase
       /\ ownership_phase = "revoke" => ~output_enabled /\ callback.step \in {"idle", "accept"}

Protocol ==
  /\ CallbackOK /\ OwnershipOK /\ EpochsOK /\ ClosedOK /\ OpenOK
  /\ GenerationsOK /\ SessionsOK /\ CycleOK /\ AckOK

IInv == Types /\ Protocol

-----------------------------------------------------------------------------
LEMMA GenerationsGrow ==
  ASSUME TypeOK, [Next]_vars
  PROVE  permit_generation' \in Nat /\ permit_generation <= permit_generation'
<1> USE DEF TypeOK, permit, ownership, pipeline
<1>1. ASSUME NEW r \in requests, SubmitMove(r)
      PROVE  permit_generation' \in Nat /\ permit_generation <= permit_generation'
  BY TypeOK, <1>1 DEF SubmitMove, Submitted, Never
<1>2. ASSUME NEW r \in sessions, EndSession(r)
      PROVE  permit_generation' \in Nat /\ permit_generation <= permit_generation'
  BY TypeOK, <1>2 DEF EndSession, Never
<1>3. ASSUME NEW kind \in {"move", "servo"}, CheckSource(kind)
      PROVE  permit_generation' \in Nat /\ permit_generation <= permit_generation'
  BY TypeOK, <1>3 DEF CheckSource, Never
<1>4. ASSUME AcceptMove
      PROVE  permit_generation' \in Nat /\ permit_generation <= permit_generation'
  BY TypeOK, <1>4 DEF AcceptMove, Never
<1>5. ASSUME QueueServo
      PROVE  permit_generation' \in Nat /\ permit_generation <= permit_generation'
  BY TypeOK, <1>5 DEF QueueServo, Never
<1>6. ASSUME NEW e \in Epoch, ReceivePermit(e)
      PROVE  permit_generation' \in Nat /\ permit_generation <= permit_generation'
  BY TypeOK, <1>6 DEF ReceivePermit, Never
<1>7. ASSUME NEW k \in Key, NEW phase \in Phase,
              ReceiveOwnership(k, phase)
       PROVE  permit_generation' \in Nat /\ permit_generation <= permit_generation'
  BY TypeOK, <1>7 DEF ReceiveOwnership, Never
<1>8. ASSUME LoadGeneration
      PROVE  permit_generation' \in Nat /\ permit_generation <= permit_generation'
  BY TypeOK, <1>8 DEF LoadGeneration, Never
<1>9. ASSUME CloseOutput
      PROVE  permit_generation' \in Nat /\ permit_generation <= permit_generation'
  BY TypeOK, <1>9 DEF CloseOutput, SetOutputPermit, Never
<1>10. ASSUME Renew
       PROVE  permit_generation' \in Nat /\ permit_generation <= permit_generation'
  BY TypeOK, <1>10 DEF Renew, Never
<1>11. ASSUME ClearServos
       PROVE  permit_generation' \in Nat /\ permit_generation <= permit_generation'
  BY TypeOK, <1>11 DEF ClearServos, Never
<1>12. ASSUME OpenOutput
       PROVE  permit_generation' \in Nat /\ permit_generation <= permit_generation'
  BY TypeOK, <1>12 DEF OpenOutput, SetOutputPermit, Never
<1>13. ASSUME Enable
       PROVE  permit_generation' \in Nat /\ permit_generation <= permit_generation'
  BY TypeOK, <1>13 DEF Enable, Never
<1>14. ASSUME Acknowledge
       PROVE  permit_generation' \in Nat /\ permit_generation <= permit_generation'
  BY TypeOK, <1>14 DEF Acknowledge, Never
<1>15. ASSUME BeginCycle
       PROVE  permit_generation' \in Nat /\ permit_generation <= permit_generation'
  BY TypeOK, <1>15 DEF BeginCycle, GoTo, Never
<1>16. ASSUME Exchange
       PROVE  permit_generation' \in Nat /\ permit_generation <= permit_generation'
  BY TypeOK, <1>16 DEF Exchange, GoTo, Never
<1>17. ASSUME CountExpiry
       PROVE  permit_generation' \in Nat /\ permit_generation <= permit_generation'
  BY TypeOK, <1>17 DEF CountExpiry, Never
<1>18. ASSUME Expire
       PROVE  permit_generation' \in Nat /\ permit_generation <= permit_generation'
  BY TypeOK, <1>18 DEF Expire, SetOutputPermit, Never
<1>19. ASSUME Capture
       PROVE  permit_generation' \in Nat /\ permit_generation <= permit_generation'
  BY TypeOK, <1>19 DEF Capture, Never
<1>20. ASSUME SwapServos
       PROVE  permit_generation' \in Nat /\ permit_generation <= permit_generation'
  BY TypeOK, <1>20 DEF SwapServos, Never
<1>21. ASSUME NEW r \in cycle.pending, UpdateServo(r)
       PROVE  permit_generation' \in Nat /\ permit_generation <= permit_generation'
  BY TypeOK, <1>21 DEF UpdateServo, Submitted, Never
<1>22. ASSUME ComputeOutputs
       PROVE  permit_generation' \in Nat /\ permit_generation <= permit_generation'
  BY TypeOK, <1>22 DEF ComputeOutputs, Never
<1>23. ASSUME PublishOutputs
       PROVE  permit_generation' \in Nat /\ permit_generation <= permit_generation'
  BY TypeOK, <1>23 DEF PublishOutputs, NoCycle, Never
<1>24. ASSUME AdvanceClock
       PROVE  permit_generation' \in Nat /\ permit_generation <= permit_generation'
  BY TypeOK, <1>24 DEF AdvanceClock, Never
<1>25. ASSUME UNCHANGED vars
       PROVE  permit_generation' \in Nat /\ permit_generation <= permit_generation'
  BY TypeOK, <1>25 DEF vars, Never
<1>26. QED
  BY <1>1, <1>2, <1>3, <1>4, <1>5, <1>6, <1>7, <1>8, <1>9, <1>10, <1>11, <1>12, <1>13, <1>14,
     <1>15, <1>16, <1>17, <1>18, <1>19, <1>20, <1>21, <1>22, <1>23, <1>24, <1>25
     DEF Next, Receive, Callback, ControlTick

LEMMA StepKeepsTypeOK ==
  ASSUME IInv, [Next]_vars
  PROVE  TypeOK'
<1>1. TypeOK /\ Records
  BY DEF IInv, Types
<1>2. /\ callback.generation \in 0 .. permit_generation
      /\ cycle.generation \in 0 .. permit_generation
  BY <1>1 DEF IInv, Types, Records, Bounds, CallbackRecord, CycleRecord, TypeOK
<1>3. permit_generation' \in Nat /\ permit_generation <= permit_generation'
  BY <1>1, GenerationsGrow
<1>4. /\ callback.what \in {"move", "servo"} => callback.epoch \in Epoch \cup Key
      /\ callback.step = "renew" => callback.epoch \in Epoch
      /\ callback.step = "ack" => callback.epoch \in Key /\ callback.what \in Phase
  <2>1. /\ CallbackOK /\ OwnershipOK
        /\ callback.what \in {None, "move", "servo", "rearm", "renew"} \cup Phase
    BY <1>1 DEF IInv, Protocol, Records, CallbackRecord
  <2>2. CurrentEpoch \in Epoch \cup Key \cup {None}
    BY <1>1 DEF TypeOK, CurrentEpoch
  <2>3. callback.what \in {"move", "servo"} => callback.epoch \in Epoch \cup Key
    BY <2>1, <2>2 DEF CallbackOK
  <2>4. callback.step = "renew" => callback.what \in {"rearm", "renew"}
    BY <2>1 DEF CallbackOK, Steps, Phase, None
  <2>5. callback.step = "ack" => callback.what \in Phase
    BY <2>1 DEF CallbackOK, Steps, Phase, None
  <2>6. callback.what \in Phase => callback.epoch \in Key
    BY <2>1, <1>1 DEF CallbackOK, OwnershipOK, TypeOK, Phase, None
  <2>7. QED
    BY <2>1, <2>3, <2>4, <2>5, <2>6 DEF CallbackOK
<1>5. cycle.pending \subseteq Request /\ cycle.batch \subseteq Request
  BY <1>1 DEF TypeOK
<1> USE DEF TypeOK, permit, ownership, pipeline
<1>6. ASSUME NEW r \in requests, SubmitMove(r)
      PROVE  TypeOK'
  BY <1>1, <1>2, <1>3, <1>5, <1>6 DEF SubmitMove, Submitted, Request
<1>7. ASSUME NEW r \in sessions, EndSession(r)
      PROVE  TypeOK'
  BY <1>1, <1>2, <1>3, <1>5, <1>7 DEF EndSession, Request
<1>8. ASSUME NEW kind \in {"move", "servo"}, CheckSource(kind)
      PROVE  TypeOK'
  BY <1>1, <1>2, <1>3, <1>5, <1>8 DEF CheckSource, Request
<1>9. ASSUME AcceptMove
      PROVE  TypeOK'
  <2>1. [kind |-> "move", generation |-> permit_generation, epoch |-> callback.epoch]
          \in Request
    BY <1>1, <1>2, <1>4, <1>9 DEF AcceptMove, Request
  <2>2. requests' \subseteq Request
    BY <1>1, <2>1, <1>9 DEF AcceptMove
  <2>3. QED
    BY <1>1, <2>2, <1>9 DEF AcceptMove, NoCallback
<1>10. ASSUME QueueServo
       PROVE  TypeOK'
  <2>1. [kind |-> "servo", generation |-> callback.generation, epoch |-> callback.epoch]
          \in Request
    BY <1>1, <1>2, <1>4, <1>10 DEF QueueServo, Request
  <2>2. requests' \subseteq Request
    BY <1>1, <2>1, <1>10 DEF QueueServo
  <2>3. QED
    BY <1>1, <2>2, <1>10 DEF QueueServo, NoCallback
<1>11. ASSUME NEW e \in Epoch, ReceivePermit(e)
       PROVE  TypeOK'
  <2>1. permit_enabled' \in BOOLEAN
    BY <1>1, <1>11 DEF ReceivePermit
  <2>2. output_generation \in 0 .. permit_generation'
    BY <1>1, <1>3
  <2>3. QED
    BY <1>1, <1>3, <2>1, <2>2, <1>11 DEF ReceivePermit
<1>12. ASSUME NEW k \in Key, NEW phase \in Phase,
              ReceiveOwnership(k, phase)
       PROVE  TypeOK'
  <2>1. /\ permit_enabled' \in BOOLEAN /\ intervention_active' \in BOOLEAN
        /\ permit_normal' \in BOOLEAN
    <3>1. permit_enabled' = FALSE \/ permit_enabled' = permit_enabled
      BY <1>12, Zenon DEF ReceiveOwnership
    <3>2. intervention_active' = (phase # "off") /\ permit_normal' = (k \in MotionSource)
      BY <1>12, Zenon DEF ReceiveOwnership
    <3>3. (phase # "off") \in BOOLEAN /\ (k \in MotionSource) \in BOOLEAN
      OBVIOUS
    <3>4. intervention_active' \in BOOLEAN /\ permit_normal' \in BOOLEAN
      BY ONLY <3>2, <3>3, Zenon
    <3>5. permit_enabled' \in BOOLEAN
      BY <1>1, <3>1
    <3>6. QED
      BY ONLY <3>4, <3>5, Zenon
  <2>2. output_generation \in 0 .. permit_generation'
    BY <1>1, <1>3
  <2>3. ownership_key' \in Key \cup {None} /\ ownership_phase' \in Phase \cup {None}
    BY <1>1, <1>12 DEF ReceiveOwnership
  <2>4. ownership_ack' \in [key : Key \cup {None}, phase : Phase \cup {None}]
    BY <1>1, <1>12 DEF ReceiveOwnership
  <2>5. permit_received' \in {Never} \cup 0 .. clock'
    BY <1>1, <1>12 DEF ReceiveOwnership
  <2>6. QED
    BY <1>1, <1>3, <2>1, <2>2, <2>3, <2>4, <2>5, <1>12 DEF ReceiveOwnership
<1>13. ASSUME LoadGeneration
       PROVE  TypeOK'
  BY <1>1, <1>2, <1>3, <1>5, <1>13 DEF LoadGeneration, Request
<1>14. ASSUME CloseOutput
       PROVE  TypeOK'
  BY <1>1, <1>2, <1>3, <1>5, <1>14 DEF CloseOutput, SetOutputPermit, Request
<1>15. ASSUME Renew
       PROVE  TypeOK'
  <2>1. permit_normal' \in BOOLEAN /\ permit_epoch' \in Epoch \cup {None}
    BY <1>1, <1>4, <1>15 DEF Renew
  <2>2. permit_received' \in {Never} \cup 0 .. clock'
    BY <1>1, <1>15 DEF Renew
  <2>3. QED
    BY <1>1, <2>1, <2>2, <1>15 DEF Renew
<1>16. ASSUME ClearServos
       PROVE  TypeOK'
  BY <1>1, <1>2, <1>3, <1>5, <1>16 DEF ClearServos, Request
<1>17. ASSUME OpenOutput
       PROVE  TypeOK'
  BY <1>1, <1>2, <1>3, <1>5, <1>17 DEF OpenOutput, SetOutputPermit, Request
<1>18. ASSUME Enable
       PROVE  TypeOK'
  BY <1>1, <1>2, <1>3, <1>5, <1>18 DEF Enable, Request
<1>19. ASSUME Acknowledge
       PROVE  TypeOK'
  <2>1. ownership_ack' \in [key : Key \cup {None}, phase : Phase \cup {None}]
    BY <1>4, <1>19 DEF Acknowledge
  <2>2. QED
    BY <1>1, <2>1, <1>19 DEF Acknowledge
<1>20. ASSUME BeginCycle
       PROVE  TypeOK'
  BY <1>1, <1>2, <1>3, <1>5, <1>20 DEF BeginCycle, GoTo, Request
<1>21. ASSUME Exchange
       PROVE  TypeOK'
  <2>1. cycle'.pending = cycle.pending /\ cycle'.batch = cycle.batch
    BY <1>1, <1>21 DEF Exchange, GoTo, Records, CycleRecord
  <2>2. QED
    BY <1>1, <2>1, <1>21 DEF Exchange
<1>22. ASSUME CountExpiry
       PROVE  TypeOK'
  BY <1>1, <1>2, <1>3, <1>5, <1>22 DEF CountExpiry, Request
<1>23. ASSUME Expire
       PROVE  TypeOK'
  <2>1. cycle'.pending = cycle.pending /\ cycle'.batch = cycle.batch
    BY <1>1, <1>23 DEF Expire, Records, CycleRecord
  <2>2. sessions' = {}
    BY <1>23 DEF Expire, SetOutputPermit
  <2>3. output_generation' \in 0 .. permit_generation'
    BY <1>1, <1>2, <1>23 DEF Expire, SetOutputPermit
  <2>4. QED
    BY <1>1, <2>1, <2>2, <2>3, <1>23 DEF Expire, SetOutputPermit
<1>24. ASSUME Capture
       PROVE  TypeOK'
  BY <1>1, <1>2, <1>3, <1>5, <1>24 DEF Capture, Request
<1>25. ASSUME SwapServos
       PROVE  TypeOK'
  BY <1>1, <1>2, <1>3, <1>5, <1>25 DEF SwapServos, Request
<1>26. ASSUME NEW r \in cycle.pending, UpdateServo(r)
       PROVE  TypeOK'
  BY <1>1, <1>2, <1>3, <1>5, <1>26 DEF UpdateServo, Submitted, Request
<1>27. ASSUME ComputeOutputs
       PROVE  TypeOK'
  BY <1>1, <1>2, <1>3, <1>5, <1>27 DEF ComputeOutputs, Request
<1>28. ASSUME PublishOutputs
       PROVE  TypeOK'
  BY <1>1, <1>2, <1>3, <1>5, <1>28 DEF PublishOutputs, NoCycle, Request
<1>29. ASSUME AdvanceClock
       PROVE  TypeOK'
  <2>1. clock' \in 0 .. MaxTime /\ permit_received' \in {Never} \cup 0 .. clock'
    BY <1>1, PermitAssumption, <1>29 DEF AdvanceClock
  <2>2. QED
    BY <1>1, <2>1, <1>29 DEF AdvanceClock
<1>30. ASSUME UNCHANGED vars
       PROVE  TypeOK'
  BY <1>1, <1>2, <1>3, <1>5, <1>30 DEF vars, Request
<1>31. QED
  BY <1>6, <1>7, <1>8, <1>9, <1>10, <1>11, <1>12, <1>13, <1>14, <1>15, <1>16, <1>17, <1>18,
     <1>19, <1>20, <1>21, <1>22, <1>23, <1>24, <1>25, <1>26, <1>27, <1>28, <1>29, <1>30
     DEF Next, Receive, Callback, ControlTick

LEMMA StepKeepsRecords ==
  ASSUME IInv, [Next]_vars
  PROVE  Records'
<1>1. TypeOK /\ Records
  BY DEF IInv, Types
<1>2. permit_generation' \in Nat
  BY <1>1, GenerationsGrow
<1> USE DEF Records, CallbackRecord, CycleRecord, Phase, TypeOK, CurrentEpoch, Step, NoCallback,
            NoCycle, permit, ownership, pipeline
<1>3. ASSUME NEW r \in requests, SubmitMove(r)
      PROVE  Records'
  BY <1>1, <1>2, <1>3 DEF SubmitMove, Submitted
<1>4. ASSUME NEW r \in sessions, EndSession(r)
      PROVE  Records'
  BY <1>1, <1>2, <1>4 DEF EndSession
<1>5. ASSUME NEW kind \in {"move", "servo"}, CheckSource(kind)
      PROVE  Records'
  BY <1>1, <1>2, <1>5 DEF CheckSource
<1>6. ASSUME AcceptMove
      PROVE  Records'
  BY <1>1, <1>2, <1>6 DEF AcceptMove
<1>7. ASSUME QueueServo
      PROVE  Records'
  BY <1>1, <1>2, <1>7 DEF QueueServo
<1>8. ASSUME NEW e \in Epoch, ReceivePermit(e)
      PROVE  Records'
  <2>1. CASE callback' = [step |-> "close", epoch |-> e, what |-> "rearm",
                          generation |-> permit_generation']
    BY <1>1, <1>2, <2>1, <1>8 DEF ReceivePermit
  <2>2. CASE callback' = [NoCallback EXCEPT !.step = "renew", !.epoch = e, !.what = "renew"]
    BY <1>1, <2>2, <1>8 DEF ReceivePermit, NoCallback
  <2>3. QED
    BY <2>1, <2>2, <1>8 DEF ReceivePermit
<1>9. ASSUME NEW k \in Key, NEW phase \in Phase,
              ReceiveOwnership(k, phase)
       PROVE  Records'
  <2>1. CASE callback' = [NoCallback EXCEPT !.step = "load_close", !.epoch = k, !.what = phase]
    BY <1>1, <2>1, <1>9 DEF ReceiveOwnership, NoCallback
  <2>2. CASE callback' = callback
    BY <1>1, <2>2, <1>9 DEF ReceiveOwnership
  <2>3. QED
    BY <2>1, <2>2, <1>9 DEF ReceiveOwnership
<1>10. ASSUME LoadGeneration
       PROVE  Records'
  BY <1>1, <1>2, <1>10 DEF LoadGeneration
<1>11. ASSUME CloseOutput
       PROVE  Records'
  BY <1>1, <1>2, <1>11 DEF CloseOutput, SetOutputPermit
<1>12. ASSUME Renew
       PROVE  Records'
  BY <1>1, <1>2, <1>12 DEF Renew
<1>13. ASSUME ClearServos
       PROVE  Records'
  BY <1>1, <1>2, <1>13 DEF ClearServos
<1>14. ASSUME OpenOutput
       PROVE  Records'
  BY <1>1, <1>2, <1>14 DEF OpenOutput, SetOutputPermit
<1>15. ASSUME Enable
       PROVE  Records'
  <2>1. CASE Step("ack")
    BY <1>1, <2>1, <1>15 DEF Enable, Step
  <2>2. CASE callback' = NoCallback
    BY <1>1, <2>2, <1>15 DEF Enable, NoCallback
  <2>3. QED
    BY <2>1, <2>2, <1>15 DEF Enable
<1>16. ASSUME Acknowledge
       PROVE  Records'
  BY <1>1, <1>2, <1>16 DEF Acknowledge
<1>17. ASSUME BeginCycle
       PROVE  Records'
  BY <1>1, <1>2, <1>17 DEF BeginCycle, GoTo
<1>18. ASSUME Exchange
       PROVE  Records'
  BY <1>1, <1>2, <1>18 DEF Exchange, GoTo
<1>19. ASSUME CountExpiry
       PROVE  Records'
  BY <1>1, <1>2, <1>19 DEF CountExpiry
<1>20. ASSUME Expire
       PROVE  Records'
  BY <1>1, <1>2, <1>20 DEF Expire, SetOutputPermit
<1>21. ASSUME Capture
       PROVE  Records'
  BY <1>1, <1>2, <1>21 DEF Capture
<1>22. ASSUME SwapServos
       PROVE  Records'
  BY <1>1, <1>2, <1>22 DEF SwapServos
<1>23. ASSUME NEW r \in cycle.pending, UpdateServo(r)
       PROVE  Records'
  BY <1>1, <1>2, <1>23 DEF UpdateServo, Submitted
<1>24. ASSUME ComputeOutputs
       PROVE  Records'
  BY <1>1, <1>2, <1>24 DEF ComputeOutputs
<1>25. ASSUME PublishOutputs
       PROVE  Records'
  BY <1>1, <1>2, <1>25 DEF PublishOutputs
<1>26. ASSUME AdvanceClock
       PROVE  Records'
  BY <1>1, <1>2, <1>26 DEF AdvanceClock
<1>27. ASSUME UNCHANGED vars
       PROVE  Records'
  BY <1>1, <1>2, <1>27 DEF vars
<1>28. QED
  BY <1>3, <1>4, <1>5, <1>6, <1>7, <1>8, <1>9, <1>10, <1>11, <1>12, <1>13, <1>14, <1>15, <1>16,
     <1>17, <1>18, <1>19, <1>20, <1>21, <1>22, <1>23, <1>24, <1>25, <1>26, <1>27
     DEF Next, Receive, Callback, ControlTick

LEMMA StepKeepsBounds ==
  ASSUME IInv, [Next]_vars
  PROVE  Bounds'
<1>1. TypeOK /\ Records /\ Bounds
  BY DEF IInv, Types
<1>2. permit_generation' \in Nat /\ permit_generation <= permit_generation'
  BY <1>1, GenerationsGrow
<1> USE DEF Bounds, Live, TypeOK, Request, Records, CallbackRecord, CycleRecord, Step,
            NoCallback, NoCycle, permit, ownership, pipeline
<1>3. ASSUME NEW r \in requests, SubmitMove(r)
      PROVE  Bounds'
  BY <1>1, <1>2, <1>3 DEF SubmitMove, Submitted
<1>4. ASSUME NEW r \in sessions, EndSession(r)
      PROVE  Bounds'
  BY <1>1, <1>2, <1>4 DEF EndSession
<1>5. ASSUME NEW kind \in {"move", "servo"}, CheckSource(kind)
      PROVE  Bounds'
  BY <1>1, <1>2, <1>5 DEF CheckSource
<1>6. ASSUME AcceptMove
      PROVE  Bounds'
  BY <1>1, <1>2, <1>6 DEF AcceptMove
<1>7. ASSUME QueueServo
      PROVE  Bounds'
  BY <1>1, <1>2, <1>7 DEF QueueServo
<1>8. ASSUME NEW e \in Epoch, ReceivePermit(e)
      PROVE  Bounds'
  <2>1. callback'.generation \in {0, permit_generation', callback.generation}
    <3>1. CASE callback' = [step |-> "close", epoch |-> e, what |-> "rearm",
                            generation |-> permit_generation']
      BY <1>1, <3>1 DEF ReceivePermit
    <3>2. CASE callback' = [NoCallback EXCEPT !.step = "renew", !.epoch = e, !.what = "renew"]
      BY <1>1, <3>2 DEF NoCallback, ReceivePermit
    <3>3. QED
      BY <3>1, <3>2, <1>8 DEF ReceivePermit
  <2>2. UNCHANGED <<requests, sessions, cycle>>
    BY <1>8 DEF ReceivePermit
  <2>3. callback'.generation <= permit_generation'
    BY <1>1, <1>2, <2>1 DEF TypeOK, Records, CallbackRecord
  <2>4. cycle.generation <= permit_generation'
    BY <1>1, <1>2 DEF TypeOK, Records, CycleRecord
  <2>5. \A r \in Live : r.generation <= permit_generation'
    BY <1>1, <1>2 DEF TypeOK, Request
  <2>6. QED
    BY <2>2, <2>3, <2>4, <2>5
<1>9. ASSUME NEW k \in Key, NEW phase \in Phase,
              ReceiveOwnership(k, phase)
       PROVE  Bounds'
  <2>1. callback'.generation \in {0, permit_generation', callback.generation}
    BY <1>1, <1>9 DEF ReceiveOwnership, NoCallback
  <2>2. UNCHANGED <<requests, sessions, cycle>>
    BY <1>9 DEF ReceiveOwnership
  <2>3. callback'.generation <= permit_generation'
    BY <1>1, <1>2, <2>1 DEF TypeOK, Records, CallbackRecord
  <2>4. cycle.generation <= permit_generation'
    BY <1>1, <1>2 DEF TypeOK, Records, CycleRecord
  <2>5. \A r \in Live : r.generation <= permit_generation'
    BY <1>1, <1>2 DEF TypeOK, Request
  <2>6. QED
    BY <2>2, <2>3, <2>4, <2>5
<1>10. ASSUME LoadGeneration
       PROVE  Bounds'
  BY <1>1, <1>2, <1>10 DEF LoadGeneration
<1>11. ASSUME CloseOutput
       PROVE  Bounds'
  BY <1>1, <1>2, <1>11 DEF CloseOutput, SetOutputPermit
<1>12. ASSUME Renew
       PROVE  Bounds'
  BY <1>1, <1>2, <1>12 DEF Renew
<1>13. ASSUME ClearServos
       PROVE  Bounds'
  BY <1>1, <1>2, <1>13 DEF ClearServos
<1>14. ASSUME OpenOutput
       PROVE  Bounds'
  BY <1>1, <1>2, <1>14 DEF OpenOutput, SetOutputPermit
<1>15. ASSUME Enable
       PROVE  Bounds'
  <2>1. callback'.generation \in {0, permit_generation', callback.generation}
    <3>1. CASE Step("ack")
      BY <1>1, <3>1 DEF Step, Records, CallbackRecord, Enable
    <3>2. CASE callback' = NoCallback
      BY <1>1, <3>2 DEF NoCallback, Enable
    <3>3. QED
      BY <3>1, <3>2, <1>15 DEF Enable
  <2>2. UNCHANGED <<requests, sessions, cycle>>
    BY <1>15 DEF Enable
  <2>3. callback'.generation <= permit_generation'
    BY <1>1, <1>2, <2>1 DEF TypeOK, Records, CallbackRecord
  <2>4. cycle.generation <= permit_generation'
    BY <1>1, <1>2 DEF TypeOK, Records, CycleRecord
  <2>5. \A r \in Live : r.generation <= permit_generation'
    BY <1>1, <1>2 DEF TypeOK, Request
  <2>6. QED
    BY <2>2, <2>3, <2>4, <2>5
<1>16. ASSUME Acknowledge
       PROVE  Bounds'
  BY <1>1, <1>2, <1>16 DEF Acknowledge
<1>17. ASSUME BeginCycle
       PROVE  Bounds'
  BY <1>1, <1>2, <1>17 DEF BeginCycle, GoTo
<1>18. ASSUME Exchange
       PROVE  Bounds'
  BY <1>1, <1>2, <1>18 DEF Exchange, GoTo
<1>19. ASSUME CountExpiry
       PROVE  Bounds'
  BY <1>1, <1>2, <1>19 DEF CountExpiry
<1>20. ASSUME Expire
       PROVE  Bounds'
  BY <1>1, <1>2, <1>20 DEF Expire, SetOutputPermit
<1>21. ASSUME Capture
       PROVE  Bounds'
  BY <1>1, <1>2, <1>21 DEF Capture
<1>22. ASSUME SwapServos
       PROVE  Bounds'
  BY <1>1, <1>2, <1>22 DEF SwapServos
<1>23. ASSUME NEW r \in cycle.pending, UpdateServo(r)
       PROVE  Bounds'
  BY <1>1, <1>2, <1>23 DEF UpdateServo, Submitted
<1>24. ASSUME ComputeOutputs
       PROVE  Bounds'
  BY <1>1, <1>2, <1>24 DEF ComputeOutputs
<1>25. ASSUME PublishOutputs
       PROVE  Bounds'
  BY <1>1, <1>2, <1>25 DEF PublishOutputs
<1>26. ASSUME AdvanceClock
       PROVE  Bounds'
  BY <1>1, <1>2, <1>26 DEF AdvanceClock
<1>27. ASSUME UNCHANGED vars
       PROVE  Bounds'
  BY <1>1, <1>2, <1>27 DEF vars
<1>28. QED
  BY <1>3, <1>4, <1>5, <1>6, <1>7, <1>8, <1>9, <1>10, <1>11, <1>12, <1>13, <1>14, <1>15, <1>16,
     <1>17, <1>18, <1>19, <1>20, <1>21, <1>22, <1>23, <1>24, <1>25, <1>26, <1>27
     DEF Next, Receive, Callback, ControlTick

LEMMA StepKeepsProtocol ==
  ASSUME IInv, [Next]_vars
  PROVE  Protocol'
<1>1. Types /\ Protocol
  BY DEF IInv
<1>2. permit_generation' \in Nat /\ permit_generation <= permit_generation'
  BY <1>1, GenerationsGrow DEF Types
<1>3. Records' /\ Bounds'
  BY StepKeepsRecords, StepKeepsBounds
<1> USE PermitAssumption
    DEF Types, TypeOK, Records, Bounds, Protocol, CallbackOK, OwnershipOK, EpochsOK, ClosedOK,
        OpenOK, GenerationsOK, SessionsOK, CycleOK, AckOK, Live, CallbackRecord, CycleRecord,
        Request, Steps, Phase, CurrentEpoch, NoCallback, NoCycle, None, permit, ownership,
        pipeline
<1>4. ASSUME NEW r \in requests, SubmitMove(r)
      PROVE  Protocol'
  BY <1>1, <1>4 DEF SubmitMove, Submitted, Admits
<1>5. ASSUME NEW r \in sessions, EndSession(r)
      PROVE  Protocol'
  BY <1>1, <1>5 DEF EndSession
<1>6. ASSUME NEW kind \in {"move", "servo"}, CheckSource(kind)
      PROVE  Protocol'
  BY <1>1, <1>6 DEF CheckSource, SourcePermitted
<1>7. ASSUME AcceptMove
      PROVE  Protocol'
  BY <1>1, <1>7 DEF AcceptMove
<1>8. ASSUME QueueServo
      PROVE  Protocol'
  BY <1>1, <1>8 DEF QueueServo, SourcePermitted
<1>9. ASSUME NEW e \in Epoch, ReceivePermit(e)
      PROVE  Protocol'
  <2>1. /\ UNCHANGED <<permit_epoch, ownership, pipeline, requests, cycle>>
        /\ ~intervention_active /\ callback.what = None
    BY <1>1, <1>9 DEF ReceivePermit
  <2>2. CASE permit_epoch # e \/ ~permit_enabled
    <3>1. /\ callback'.step = "close" /\ callback'.what = "rearm"
          /\ callback'.epoch = e /\ callback'.generation = permit_generation'
          /\ permit_generation' > permit_generation /\ permit_enabled' = FALSE
      BY <1>1, <1>9, <2>2 DEF ReceivePermit
    <3>2. QED
      BY <1>1, <2>1, <3>1
  <2>3. CASE ~(permit_epoch # e \/ ~permit_enabled)
    <3>1. /\ callback'.step = "renew" /\ callback'.what = "renew" /\ callback'.epoch = e
          /\ UNCHANGED <<permit_generation, permit_enabled>>
          /\ permit_epoch = e
      BY <1>1, <1>9, <2>3 DEF ReceivePermit
    <3>2. QED
      BY <1>1, <2>1, <3>1
  <2>4. QED
    BY <2>2, <2>3
<1>10. ASSUME NEW k \in Key, NEW phase \in Phase,
              ReceiveOwnership(k, phase)
       PROVE  Protocol'
  <2>1. ClosedOK'
    <3>1. callback'.step \in {"idle", "load_close"}
      BY <1>10 DEF ReceiveOwnership
    <3>2. QED
      BY <3>1
  <2>2. CallbackOK' /\ OwnershipOK'
    BY <1>1, <1>10 DEF ReceiveOwnership
  <2>3. EpochsOK'
    BY <1>1, <1>10 DEF ReceiveOwnership
  <2>4. OpenOK'
    BY <1>1, <1>10 DEF ReceiveOwnership
  <2>5. GenerationsOK'
    BY <1>1, <1>10 DEF ReceiveOwnership
  <2>6. SessionsOK' /\ CycleOK'
    BY <1>1, <1>10 DEF ReceiveOwnership
  <2>7. AckOK'
    BY <1>1, <1>10 DEF ReceiveOwnership
  <2>8. QED
    BY <2>1, <2>2, <2>3, <2>4, <2>5, <2>6, <2>7
<1>11. ASSUME LoadGeneration
       PROVE  Protocol'
  BY <1>1, <1>11 DEF LoadGeneration
<1>12. ASSUME CloseOutput
       PROVE  Protocol'
  BY <1>1, <1>12 DEF CloseOutput, SetOutputPermit, Step
<1>13. ASSUME Renew
       PROVE  Protocol'
  BY <1>1, <1>13 DEF Renew, Step
<1>14. ASSUME ClearServos
       PROVE  Protocol'
  BY <1>1, <1>14 DEF ClearServos, Step
<1>15. ASSUME OpenOutput
       PROVE  Protocol'
  BY <1>1, <1>15 DEF OpenOutput, SetOutputPermit, Step
<1>16. ASSUME Enable
       PROVE  Protocol'
  <2>1. CASE callback.what = "grant" /\ Step("ack")
    BY <1>1, <1>16, <2>1 DEF Enable, Step
  <2>2. CASE callback.what # "grant" /\ callback' = NoCallback
    BY <1>1, <1>16, <2>2 DEF Enable
  <2>3. QED
    BY <1>16, <2>1, <2>2 DEF Enable
<1>17. ASSUME Acknowledge
       PROVE  Protocol'
  BY <1>1, <1>17 DEF Acknowledge
<1>18. ASSUME BeginCycle
       PROVE  Protocol'
  BY <1>1, <1>18 DEF BeginCycle, GoTo
<1>19. ASSUME Exchange
       PROVE  Protocol'
  BY <1>1, <1>19 DEF Exchange, GoTo
<1>20. ASSUME CountExpiry
       PROVE  Protocol'
  BY <1>1, <1>20 DEF CountExpiry
<1>21. ASSUME Expire
       PROVE  Protocol'
  BY <1>1, <1>21 DEF Expire, SetOutputPermit
<1>22. ASSUME Capture
       PROVE  Protocol'
  BY <1>1, <1>22 DEF Capture
<1>23. ASSUME SwapServos
       PROVE  Protocol'
  BY <1>1, <1>23 DEF SwapServos
<1>24. ASSUME NEW r \in cycle.pending, UpdateServo(r)
       PROVE  Protocol'
  BY <1>1, <1>24 DEF UpdateServo, Submitted, Admits
<1>25. ASSUME ComputeOutputs
       PROVE  Protocol'
  BY <1>1, <1>25 DEF ComputeOutputs
<1>26. ASSUME PublishOutputs
       PROVE  Protocol'
  BY <1>1, <1>26 DEF PublishOutputs, NoCycle
<1>27. ASSUME AdvanceClock
       PROVE  Protocol'
  BY <1>1, <1>27 DEF AdvanceClock
<1>28. ASSUME UNCHANGED vars
       PROVE  Protocol'
  BY <1>1, <1>28 DEF vars
<1> HIDE DEF Protocol
<1>29. QED
  BY <1>4, <1>5, <1>6, <1>7, <1>8, <1>9, <1>10, <1>11, <1>12, <1>13, <1>14, <1>15, <1>16, <1>17,
     <1>18, <1>19, <1>20, <1>21, <1>22, <1>23, <1>24, <1>25, <1>26, <1>27, <1>28
     DEF Next, Receive, Callback, ControlTick

LEMMA InvariantHolds == Spec => []IInv
<1>1. Init => IInv
  <2>1. SUFFICES ASSUME Init
                 PROVE  IInv
    OBVIOUS
  <2>2. TypeOK
    <3>1. clock \in 0 .. MaxTime /\ output_generation \in 0 .. permit_generation
          /\ permit_generation \in Nat
      BY <2>1, PermitAssumption DEF Init
    <3>2. /\ permit_enabled \in BOOLEAN /\ permit_normal \in BOOLEAN
          /\ intervention_active \in BOOLEAN /\ output_enabled \in BOOLEAN
      BY <2>1 DEF Init
    <3>3. ownership_ack \in [key : Key \cup {None}, phase : Phase \cup {None}]
      BY <2>1 DEF Init
    <3>4. cycle.pending = {} /\ cycle.batch = {} /\ sessions = {} /\ requests = {}
      BY <2>1 DEF Init, NoCycle
    <3>5. /\ permit_received = Never /\ permit_epoch = None
          /\ ownership_key = None /\ ownership_phase = None
      BY <2>1 DEF Init
    <3>6. QED
      BY <3>1, <3>2, <3>3, <3>4, <3>5 DEF TypeOK
  <2>3. Records
    BY <2>1 DEF Init, Records, CallbackRecord, CycleRecord, NoCallback, NoCycle
  <2>4. Live = {}
    BY <2>1 DEF Init, Live, NoCycle
  <2>5. callback.step = "idle" /\ callback.what = None /\ callback.generation = 0
        /\ cycle.step = "idle" /\ cycle.generation = 0
    BY <2>1 DEF Init, NoCallback, NoCycle
  <2>6. Bounds
    BY <2>1, <2>4, <2>5 DEF Init, Bounds
  <2>7. CallbackOK
    BY <2>5 DEF CallbackOK, Steps, Phase, None
  <2>8. OwnershipOK
    BY <2>1, Zenon DEF Init, OwnershipOK, None
  <2>9. AckOK
    BY <2>1 DEF Init, AckOK, None
  <2>10. EpochsOK /\ ClosedOK /\ OpenOK /\ GenerationsOK /\ SessionsOK /\ CycleOK
    BY <2>1, <2>4, <2>5 DEF Init, EpochsOK, ClosedOK, OpenOK, GenerationsOK, SessionsOK, CycleOK
  <2>11. QED
    BY <2>2, <2>3, <2>6, <2>7, <2>8, <2>9, <2>10 DEF IInv, Types, Protocol
<1>2. IInv /\ [Next]_vars => IInv'
  BY StepKeepsTypeOK, StepKeepsRecords, StepKeepsBounds, StepKeepsProtocol DEF IInv, Types
<1>3. QED
  BY <1>1, <1>2, PTL DEF Spec

-----------------------------------------------------------------------------
(* Type correctness, with the pipeline's generation never ahead of the     *)
(* node's: setOutputPermit is always called with a counted generation.     *)
THEOREM TypeCorrect == Spec => []TypeOK
<1>1. IInv => TypeOK
  BY DEF IInv, Types
<1>2. QED
  BY <1>1, InvariantHolds, PTL

(* An output that the sink publishes belongs to a session of the           *)
(* generation in force, so to a request made under the epoch or ownership  *)
(* key in force; and the cycle that computed it captured that key.         *)
THEOREM PublishedIsPermitted == Spec => []PublishedUnderItsPermit
<1>1. IInv => PublishedUnderItsPermit
  <2>1. SUFFICES ASSUME IInv, NEW r \in Published
                 PROVE  /\ r.epoch = CurrentEpoch
                        /\ intervention_active => cycle.ownership = ownership_key
    BY DEF PublishedUnderItsPermit
  <2>2. /\ r \in sessions /\ r \in Live /\ cycle.step = "publish"
        /\ permit_enabled /\ cycle.generation = permit_generation
    BY <2>1 DEF Published, MayPublish, Live
  <2>3. output_enabled /\ r.generation = output_generation
    BY <2>1, <2>2 DEF IInv, Protocol, SessionsOK
  <2>4. output_generation = permit_generation
    BY <2>1, <2>2, <2>3 DEF IInv, Protocol, GenerationsOK
  <2>5. r.epoch = CurrentEpoch
    BY <2>1, <2>2, <2>3, <2>4 DEF IInv, Protocol, EpochsOK
  <2>6. cycle.ownership = ownership_key
    BY <2>1, <2>2 DEF IInv, Protocol, CycleOK
  <2>7. QED
    BY <2>5, <2>6
<1>2. QED
  BY <1>1, InvariantHolds, PTL

(* Whenever neither thread is in the middle of changing the permission,    *)
(* the pipeline is open only if the node is permitted: expiry and renewal  *)
(* fail safe in every order.                                               *)
THEOREM PermissionIsSafeAtRest == Spec => []PermissionFailsSafe
<1>1. IInv => PermissionFailsSafe
  BY DEF IInv, Protocol, OpenOK, PermissionFailsSafe, AtRest
<1>2. QED
  BY <1>1, InvariantHolds, PTL

(* An acknowledged revocation has ended everything: the acknowledgement is *)
(* sent after the pipeline is closed, and nothing reopens it under the     *)
(* same key but the next message.                                          *)
THEOREM AcknowledgedRevokeIsFinal == Spec => []AcknowledgedRevokeIsComplete
<1>1. IInv => AcknowledgedRevokeIsComplete
  <2>1. SUFFICES ASSUME IInv, ownership_ack = [key |-> ownership_key, phase |-> "revoke"]
                 PROVE  ~output_enabled /\ sessions = {} /\ Published = {}
    BY DEF AcknowledgedRevokeIsComplete
  <2>2. ownership_ack.key = ownership_key /\ ownership_ack.phase = "revoke"
    BY <2>1
  <2>3. ownership_key # None
    BY <2>1, <2>2 DEF IInv, Protocol, AckOK, None
  <2>4. ~output_enabled
    BY <2>1, <2>2, <2>3 DEF IInv, Protocol, AckOK
  <2>5. sessions = {}
    BY <2>1, <2>4 DEF IInv, Protocol, SessionsOK
  <2>6. QED
    BY <2>4, <2>5 DEF Published
<1>2. QED
  BY <1>1, InvariantHolds, PTL
=============================================================================
