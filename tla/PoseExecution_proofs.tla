------------------------- MODULE PoseExecution_proofs -------------------------
(***************************************************************************)
(* The safety of executing a pose.  What a worker knows of its goals, and  *)
(* whether teleop is its own to release, follows from where it is; that a  *)
(* runtime which is not sure of its goals is blocked for good keeps a late *)
(* release from meeting a goal that moves.                                 *)
(***************************************************************************)
EXTENDS PoseExecution, TLAPS

Sending == {"begin", "acquire", "prepare"}
Moving == {"send", "accept", "follow", "stop"}
Ending == {"release", "releasing", "resuming", "done"}

WorkerRecord ==
  [pc : {"idle"} \cup Sending \cup Moving \cup Ending,
   acquired : BOOLEAN, completed : BOOLEAN, unsure : BOOLEAN, resume_after : BOOLEAN]

Records == worker \in WorkerRecord

AllStill == \A g \in Goal : ~MayMove(g)

(* The one request to the receiver is the worker's that waits for it, and  *)
(* none has a reply before it is sent.                                     *)
CallOK ==
  /\ call.action = "none" => call.reply = "none"
  /\ call.action = "acquire" => worker.pc = "acquire"
  /\ call.action = "release" => worker.pc = "releasing"
  /\ call.action = "resume" => worker.pc = "resuming"

(* A worker that has acquired teleop and not yet asked to release it finds *)
(* it inhibited, and so does one that does not know what its goals do.     *)
InhibitedOK ==
  /\ worker.pc = "acquire" /\ call.reply = "ok" => inhibited
  /\ worker.pc = "prepare" => inhibited /\ worker.acquired
  /\ worker.pc \in Moving => inhibited /\ worker.acquired
  /\ worker.pc \in Sending \cup Moving => ~worker.unsure
  /\ worker.pc \in {"releasing", "resuming"} => worker.acquired
  /\ ~AllStill => inhibited

(* Nothing moves but what this worker has sent or a blocked runtime has    *)
(* lost sight of.                                                          *)
StillOK ==
  /\ worker.pc = "idle" /\ ~blocked => AllStill
  /\ worker.pc \in Sending => AllStill
  /\ worker.pc \in Moving => \A g \in Goal : acceptance[g] = "unsent" => ~MayMove(g)
  /\ worker.pc \in Ending /\ (worker.acquired \/ ~worker.unsure) => AllStill
  /\ running => ~blocked

(* Only a runtime that is blocked, or about to be, has let go of a request *)
(* to release teleop.                                                      *)
LateOK ==
  "release" \in late =>
    /\ AllStill
    /\ blocked \/ (worker.pc = "done" /\ worker.unsure)

(* Futures tell what the servers have done, and are done with.             *)
FuturesOK ==
  /\ worker.pc = "send" => result = Nothing
  /\ \A g \in Goal :
       /\ acceptance[g] = "rejected" => server[g] = "refused"
       /\ result[g] \in {"ok", "failed"} => server[g] = result[g]

(* A worker that is through with its goals has canceled what it was        *)
(* waiting for.                                                            *)
CanceledOK ==
  worker.pc \in {"idle"} \cup Ending =>
    \A g \in Goal : MayMove(g) /\ acceptance[g] = "accepted" /\ result[g] = "none"
                      => g \in canceled

(* The event that bars a pose from anything stays set while it is under    *)
(* way, and the worker is not beyond what it is barred from.               *)
StoppedOK ==
  running =>
    /\ barred # {} => cancel
    /\ "move" \in barred => AllStill /\ worker.pc \notin Moving
    /\ "resume" \in barred => worker.pc # "resuming"

IInv ==
  /\ TypeOK /\ Records /\ CallOK /\ InhibitedOK /\ StillOK /\ LateOK
  /\ FuturesOK /\ CanceledOK /\ StoppedOK

LEMMA StepKeepsInvariant ==
  ASSUME IInv, [Next]_vars
  PROVE  IInv'
<1> USE DEF IInv, TypeOK, Records, CallOK, InhibitedOK, StillOK, LateOK, FuturesOK, CanceledOK,
            StoppedOK, WorkerRecord, Sending, Moving, Ending, AllStill, MayMove, At, Goto,
            Working, KeepCalls, external, runtime, futures, Nothing
<1>1. ASSUME ServeCall
      PROVE  IInv'
  <2>1. TypeOK' /\ Records'
    BY <1>1 DEF ServeCall, Grants, InhibitedAfter
  <2>2. CallOK' /\ InhibitedOK' /\ StillOK' /\ LateOK' /\ FuturesOK' /\ CanceledOK' /\ StoppedOK'
    BY <1>1 DEF ServeCall, Grants, InhibitedAfter
  <2>3. QED
    BY <2>1, <2>2
<1>2. ASSUME NEW action \in {"acquire", "release"}, ServeLate(action)
      PROVE  IInv'
  BY <1>2 DEF ServeLate, InhibitedAfter
<1>3. ASSUME NEW g \in Goal, NEW from \in {"sent", "running"},
             NEW to \in {"running", "refused", "ok", "failed"}, Serving(g, from, to)
      PROVE  IInv'
  BY <1>3 DEF Serving
<1>4. ASSUME AskForPose
      PROVE  IInv'
  BY <1>4 DEF AskForPose
<1>5. ASSUME StartPose
      PROVE  IInv'
  <2>1. CASE /\ ~Busy /\ cancel' = FALSE /\ running' = TRUE
             /\ barred' = IF request = "old" THEN {"move", "resume"} ELSE {}
             /\ \E resume_after \in BOOLEAN :
                  worker' = [Idle EXCEPT !.pc = "begin", !.resume_after = resume_after]
    <3>1. PICK resume_after \in BOOLEAN :
            worker' = [pc |-> "begin", acquired |-> FALSE, completed |-> FALSE,
                       unsure |-> FALSE, resume_after |-> resume_after]
      BY <2>1 DEF Idle
    <3>2. Records' /\ worker'.pc = "begin" /\ ~worker'.acquired /\ ~worker'.unsure
      BY <3>1
    <3>3. QED
      BY <1>5, <2>1, <3>2 DEF StartPose, Busy, IsCurrent
  <2>2. CASE UNCHANGED <<running, cancel, worker, barred>>
    BY <1>5, <2>2 DEF StartPose
  <2>3. QED
    BY <1>5, <2>1, <2>2 DEF StartPose
<1>6. ASSUME StopMotion
      PROVE  IInv'
  BY <1>6 DEF StopMotion, Stop, Ahead
<1>7. ASSUME PauseTeleop
      PROVE  IInv'
  <2>1. TypeOK'
    BY <1>7 DEF PauseTeleop, Stop, Ahead
  <2>2. /\ Records' /\ CallOK' /\ InhibitedOK' /\ StillOK' /\ LateOK' /\ FuturesOK'
        /\ CanceledOK' /\ StoppedOK'
    BY <1>7 DEF PauseTeleop, Stop, Ahead
  <2>3. QED
    BY <2>1, <2>2
<1>8. ASSUME ResumeTeleop
      PROVE  IInv'
  BY <1>8 DEF ResumeTeleop
<1>9. ASSUME AnswerUser
      PROVE  IInv'
  <2>1. TypeOK'
    BY <1>9 DEF AnswerUser
  <2>2. /\ Records' /\ CallOK' /\ InhibitedOK' /\ StillOK' /\ LateOK' /\ FuturesOK'
        /\ CanceledOK' /\ StoppedOK'
    BY <1>9 DEF AnswerUser
  <2>3. QED
    BY <2>1, <2>2
<1>10. ASSUME CancelMotion
      PROVE  IInv'
  <2>1. TypeOK'
    BY <1>10 DEF CancelMotion, Ahead
  <2>2. /\ Records' /\ CallOK' /\ InhibitedOK' /\ StillOK' /\ LateOK' /\ FuturesOK'
        /\ CanceledOK' /\ StoppedOK'
    BY <1>10 DEF CancelMotion, Ahead
  <2>3. QED
    BY <2>1, <2>2
<1>11. ASSUME AnswerPose
      PROVE  IInv'
  BY <1>11 DEF AnswerPose, Idle
<1>12. ASSUME NEW g \in Goal, HearAcceptance(g)
      PROVE  IInv'
  BY <1>12 DEF HearAcceptance
<1>13. ASSUME NEW g \in Goal, HearResult(g)
      PROVE  IInv'
  BY <1>13 DEF HearResult
<1>14. ASSUME Begin
      PROVE  IInv'
  BY <1>14 DEF Begin
<1>15. ASSUME SendRequest
      PROVE  IInv'
  <2>1. /\ worker.pc \in {"acquire", "releasing", "resuming"}
        /\ call' = [action |-> Wanted[worker.pc], reply |-> "none"]
        /\ UNCHANGED <<late, server, worker, acceptance, result, canceled, inhibited, request,
                       running, controlling, blocked, barred, cancel>>
    BY <1>15 DEF SendRequest, Wanted
  <2>2. /\ call'.reply = "none"
        /\ \/ worker.pc = "acquire" /\ call'.action = "acquire"
           \/ worker.pc = "releasing" /\ call'.action = "release"
           \/ worker.pc = "resuming" /\ call'.action = "resume"
    BY <2>1 DEF Wanted
  <2>3. TypeOK'
    BY <2>1, <2>2 DEF Wanted
  <2>4. QED
    BY <2>1, <2>2, <2>3
<1>16. ASSUME Acquire
      PROVE  IInv'
  <2>1. CASE Granted /\ worker' = [worker EXCEPT !.pc = "prepare", !.acquired = TRUE]
    <3>1. Records' /\ worker'.pc = "prepare" /\ worker'.acquired
      BY <2>1
    <3>2. QED
      BY <1>16, <2>1, <3>1 DEF Acquire, Granted, NoCall
  <2>2. CASE Failed /\ Goto("done")
    <3>1. Records' /\ worker'.pc = "done"
      BY <2>2
    <3>2. QED
      BY <1>16, <2>2, <3>1 DEF Acquire, Failed, NoCall
  <2>3. QED
    BY <1>16, <2>1, <2>2 DEF Acquire
<1>17. ASSUME Prepare
      PROVE  IInv'
  <2>1. CASE ~cancel /\ NewFutures /\ Goto("send")
    <3>1. /\ Records' /\ worker'.pc = "send"
          /\ worker'.acquired = worker.acquired /\ worker'.unsure = worker.unsure
      BY <2>1
    <3>2. result' = Nothing /\ acceptance' = Unsent /\ canceled' = {}
      BY <2>1 DEF NewFutures
    <3>3. worker.pc = "prepare" /\ UNCHANGED <<call, late, inhibited, runtime, cancel, server>>
      BY <1>17 DEF Prepare
    <3>4. /\ inhibited /\ worker.acquired /\ ~worker.unsure /\ running /\ ~blocked
          /\ AllStill /\ barred = {}
      BY <2>1, <3>3
    <3>5. QED
      BY <3>1, <3>2, <3>3, <3>4 DEF Unsent
  <2>2. CASE UNCHANGED futures /\ Goto("release")
    BY <1>17, <2>2 DEF Prepare
  <2>3. QED
    BY <1>17, <2>1, <2>2 DEF Prepare
<1>18. ASSUME NEW g \in Goal, SendGoal(g)
      PROVE  IInv'
  <2>1. /\ worker.pc = "send" /\ acceptance[g] = "unsent"
        /\ UNCHANGED <<call, late, inhibited, runtime, cancel, result, canceled>>
        /\ inhibited /\ worker.acquired /\ ~worker.unsure /\ running /\ ~blocked
        /\ "move" \notin barred
    BY <1>18 DEF SendGoal
  <2>2. CASE /\ server' = [server EXCEPT ![g] = "sent"]
             /\ acceptance' = [acceptance EXCEPT ![g] = "none"]
             /\ UNCHANGED worker
    <3>1. /\ server'[g] = "sent" /\ acceptance'[g] = "none"
          /\ \A h \in Goal \ {g} : server'[h] = server[h] /\ acceptance'[h] = acceptance[h]
      BY <2>2
    <3>2. TypeOK'
      BY <2>1, <2>2
    <3>3. Records' /\ CallOK' /\ InhibitedOK' /\ LateOK' /\ CanceledOK' /\ StoppedOK'
      BY <2>1, <2>2
    <3>4. FuturesOK' /\ StillOK'
      BY <2>1, <2>2, <3>1
    <3>5. QED
      BY <3>2, <3>3, <3>4
  <2>3. CASE Goto("stop") /\ UNCHANGED <<server, acceptance>>
    BY <2>1, <2>3
  <2>4. QED
    BY <1>18, <2>2, <2>3 DEF SendGoal
<1>19. ASSUME EndSending
      PROVE  IInv'
  BY <1>19 DEF EndSending
<1>20. ASSUME AwaitAcceptance
      PROVE  IInv'
  BY <1>20 DEF AwaitAcceptance
<1>21. ASSUME AwaitResults
      PROVE  IInv'
  <2>1. CASE /\ \A g \in Goal : result[g] = "ok"
             /\ worker' = [worker EXCEPT !.pc = "release", !.completed = TRUE]
    <3>1. /\ Records' /\ worker'.pc = "release"
          /\ worker'.acquired = worker.acquired /\ worker'.unsure = worker.unsure
      BY <2>1
    <3>2. QED
      BY <1>21, <2>1, <3>1 DEF AwaitResults
  <2>2. CASE Goto("stop")
    BY <1>21, <2>2 DEF AwaitResults
  <2>3. QED
    BY <1>21, <2>1, <2>2 DEF AwaitResults
<1>22. ASSUME CancelGoals
      PROVE  IInv'
  BY <1>22 DEF CancelGoals, ToCancel
<1>23. ASSUME EndHandler
      PROVE  IInv'
  <2>1. CASE ~Uncertain /\ Goto("release")
    BY <1>23, <2>1 DEF EndHandler, Uncertain, ToCancel
  <2>2. CASE worker' = [worker EXCEPT !.pc = "release", !.unsure = TRUE, !.acquired = FALSE]
    <3>1. Records' /\ worker'.pc = "release" /\ worker'.unsure /\ ~worker'.acquired
      BY <2>2
    <3>2. QED
      BY <1>23, <2>2, <3>1 DEF EndHandler, ToCancel
  <2>3. QED
    BY <1>23, <2>1, <2>2 DEF EndHandler
<1>24. ASSUME BeginRelease
      PROVE  IInv'
  BY <1>24 DEF BeginRelease
<1>25. ASSUME Release
      PROVE  IInv'
  <2>1. /\ worker.pc = "releasing" /\ Goto(worker'.pc)
        /\ worker'.pc \in {"resuming", "done"} /\ (worker'.pc = "resuming" => ~cancel)
        /\ call' = [action |-> "none", reply |-> "none"]
        /\ UNCHANGED <<late, server, futures, inhibited, runtime, cancel>>
    BY <1>25 DEF Release, Granted, NoCall
  <2>2. /\ Records' /\ worker'.acquired = worker.acquired /\ worker'.unsure = worker.unsure
    BY <2>1
  <2>3. QED
    BY <2>1, <2>2
<1>26. ASSUME FailRelease
      PROVE  IInv'
  BY <1>26 DEF FailRelease, Failed, NoCall
<1>27. ASSUME Resume
      PROVE  IInv'
  BY <1>27 DEF Resume, Granted, Failed, NoCall
<1>28. ASSUME UNCHANGED vars
      PROVE  IInv'
  BY <1>28 DEF vars
<1> HIDE DEF IInv
<1>29. QED
  BY <1>1, <1>2, <1>3, <1>4, <1>5, <1>6, <1>7, <1>8, <1>9, <1>10, <1>11,
     <1>12, <1>13, <1>14, <1>15, <1>16, <1>17, <1>18, <1>19, <1>20, <1>21, <1>22, <1>23,
     <1>24, <1>25, <1>26, <1>27, <1>28
     DEF Next, Peers, Callbacks, Hear, Work

LEMMA InvariantHolds == Spec => []IInv
<1>1. Init => IInv
  <2>1. SUFFICES ASSUME Init
                 PROVE  IInv
    OBVIOUS
  <2>2. /\ Records /\ worker.pc = "idle" /\ running = FALSE
        /\ call.action = "none" /\ call.reply = "none" /\ AllStill
    BY <2>1 DEF Init, Records, WorkerRecord, Idle, NoCall, Nothing, AllStill, MayMove
  <2>3. TypeOK
    BY <2>1, <2>2 DEF Init, TypeOK, NoCall, Nothing, Unsent
  <2>4. FuturesOK /\ CanceledOK
    BY <2>1, <2>2 DEF Init, FuturesOK, CanceledOK, Nothing, Unsent, AllStill
  <2>5. CallOK /\ InhibitedOK /\ StillOK /\ LateOK /\ StoppedOK
    BY <2>1, <2>2
       DEF Init, CallOK, InhibitedOK, StillOK, LateOK, StoppedOK, Sending, Moving, Ending
  <2>6. QED
    BY <2>2, <2>3, <2>4, <2>5 DEF IInv
<1>2. QED
  BY <1>1, StepKeepsInvariant, PTL DEF Spec

(* Type correctness: a pose is running exactly as long as its worker is,   *)
(* and no result is heard before all goals have been accepted.             *)
THEOREM TypeCorrect == Spec => []TypeOK
<1>1. IInv => TypeOK
  BY DEF IInv
<1>2. QED
  BY <1>1, InvariantHolds, PTL

(* For any number of joint groups, and whatever the servers and the        *)
(* receiver do with their messages: while a goal may move the robot,       *)
(* teleop is inhibited, and a worker is at it or the runtime is blocked    *)
(* and has canceled the goals it was waiting for.                          *)
THEOREM MovingIsOwned == Spec => []MovingGoalsAreOwned
<1>1. IInv => MovingGoalsAreOwned
  <2>1. SUFFICES ASSUME IInv, NEW g \in Goal, MayMove(g)
                 PROVE  /\ inhibited
                        /\ running \/ blocked
                        /\ ~running /\ acceptance[g] = "accepted" /\ result[g] = "none"
                             => g \in canceled
    BY DEF MovingGoalsAreOwned
  <2>2. ~AllStill
    BY <2>1 DEF AllStill
  <2>3. inhibited
    BY <2>1, <2>2 DEF IInv, InhibitedOK
  <2>4. ~running => worker.pc = "idle"
    BY <2>1 DEF IInv, TypeOK
  <2>5. running \/ blocked
    BY <2>1, <2>2, <2>4 DEF IInv, StillOK
  <2>6. QED
    BY <2>1, <2>3, <2>4, <2>5 DEF IInv, CanceledOK
<1>2. QED
  BY <1>1, InvariantHolds, PTL

(* A stop, a pause or lost feedback is seen where it counts: the worker    *)
(* sends no goals and enables no teleop if it came before the worker's     *)
(* last look at cancel_event ahead of that.                                *)
THEOREM StoppedStaysStopped == Spec => []StoppedPosesStayStopped
<1>1. IInv => StoppedPosesStayStopped
  BY DEF IInv, StoppedOK, CallOK, AllStill, StoppedPosesStayStopped
<1>2. QED
  BY <1>1, InvariantHolds, PTL
=============================================================================
