-------------------------- MODULE MoveAction_proofs --------------------------
(***************************************************************************)
(* What a goal's worker has done tells what may be left of its Move, and   *)
(* it never goes back: that is the inductive invariant.                    *)
(***************************************************************************)
EXTENDS MoveAction, FiniteSetTheorems, TLAPS

\* Steps of a worker by what it has done.
NotSubmitted == {None, "launch", "check", "submit"}
Unanswered == {"launch", "check", "submit", "poll", "discard", "abort"} \cup SessionEnd
MayWait == {"submit", "poll", "discard", "drop", "catch", "caught"}

(* A session belongs to a worker that polls it, or has failed and is about *)
(* to cancel it; it has no event yet and its goal no result.               *)
SessionsOK ==
  \A g \in sessions : /\ worker[g] \in {"poll", "catch"} /\ goal[g] \in Active
                      /\ events[g] = None /\ tick_events[g] = None
                      /\ terminal_events[g] = None

(* Only what was submitted has an event.                                   *)
EventsOK ==
  \A g \in Goal :
    worker[g] \in NotSubmitted =>
      events[g] = None /\ tick_events[g] = None /\ terminal_events[g] = None

(* A worker runs for an accepted goal, and answers it as its last act but  *)
(* one.                                                                    *)
AnswersOK ==
  \A g \in Goal : /\ goal[g] = None => worker[g] = None
                  /\ worker[g] \in Unanswered => goal[g] \in Active

RegistrationsOK ==
  /\ \A g \in Goal : terminal_events[g] # None => g \in waiting_move_sessions
  /\ \A g \in waiting_move_sessions : worker[g] \in MayWait
  /\ \A g \in move_owners : worker[g] \notin {None, "launch", "done"}

IInv == TypeOK /\ SessionsOK /\ EventsOK /\ AnswersOK /\ RegistrationsOK

-----------------------------------------------------------------------------
LEMMA InvariantHolds == Spec => []IInv
<1> USE DEF IInv, TypeOK, SessionsOK, EventsOK, AnswersOK, RegistrationsOK,
            WorkerStep, NotSubmitted, Unanswered, MayWait, Active, Result, SessionEnd, None,
            NoEvents, node, control, GoTo
<1>1. Init => IInv
  BY DEF Init
<1>2. ASSUME IInv, [Next]_vars PROVE IInv'
  <2>1. ASSUME NEW g \in Goal, AcceptGoal(g) PROVE IInv'
    BY <1>2, <2>1 DEF AcceptGoal
  <2>2. ASSUME NEW g \in Goal, CancelGoal(g) PROVE IInv'
    BY <1>2, <2>2 DEF CancelGoal
  <2>3. ASSUME NEW g \in Goal, LaunchAction(g) PROVE IInv'
    BY <1>2, <2>3 DEF LaunchAction
  <2>4. ASSUME NEW g \in Goal, AwaitEvent(g) PROVE IInv'
    BY <1>2, <2>4 DEF AwaitEvent
  <2>5. ASSUME NEW g \in Goal, SubmitMove(g) PROVE IInv'
    BY <1>2, <2>5 DEF SubmitMove, EventsAfter
  <2>6. ASSUME NEW g \in Goal, RequestCancel(g) \/ TimeOut(g) \/ StopWorker(g) \/ Catch(g)
        PROVE  IInv'
    BY <1>2, <2>6
       DEF RequestCancel, TimeOut, StopWorker, Catch, Polls, CancelSession, EndSessions,
           EventsAfter
  <2>7. ASSUME NEW g \in Goal, TakeTerminalEvent(g) PROVE IInv'
    BY <1>2, <2>7 DEF TakeTerminalEvent, Polls
  <2>8. ASSUME NEW g \in Goal, FinishMove(g) PROVE IInv'
    BY <1>2, <2>8 DEF FinishMove, FinishAs
  <2>9. ASSUME NEW g \in Goal, Throw(g) PROVE IInv'
    BY <1>2, <2>9 DEF Throw
  <2>10. ASSUME NEW g \in Goal, DiscardTerminalEvent(g) PROVE IInv'
    BY <1>2, <2>10 DEF DiscardTerminalEvent, MayAbort
  <2>11. ASSUME NEW g \in Goal, Abort(g) PROVE IInv'
    BY <1>2, <2>11 DEF Abort
  <2>12. ASSUME NEW g \in Goal, ReleaseMove(g) PROVE IInv'
    BY <1>2, <2>12 DEF ReleaseMove
  <2>13. CASE Revoke
    <3>1. /\ sessions' = {} /\ permitted' = FALSE /\ current' = {}
          /\ events' = [g \in Goal |-> IF g \in sessions THEN "canceled" ELSE events[g]]
          /\ UNCHANGED <<goal, worker, cancel_requested, move_owners, tick_events,
                         handing_over, waiting_move_sessions, terminal_events, stopping>>
      BY <2>13 DEF Revoke, EndSessions, EventsAfter
    <3>a. events' \in [Goal -> {None} \cup SessionEnd]
      BY <1>2, <3>1
    <3>b. {events, tick_events, terminal_events}' \subseteq [Goal -> {None} \cup SessionEnd]
      BY <1>2, <3>1, <3>a
    <3>2. TypeOK'
      BY <1>2, <3>1, <3>b
    <3>3. EventsOK' /\ SessionsOK'
      BY <1>2, <3>1
    <3>4. QED BY <1>2, <3>1, <3>2, <3>3
  <2>14. CASE RunTick
    BY <1>2, <2>14 DEF RunTick, EventsAfter
  <2>15. CASE HandOver
    <3>1. /\ terminal_events' = [g \in Goal |->
                                   IF tick_events[g] # None /\ Awaited(g) THEN tick_events[g]
                                   ELSE terminal_events[g]]
          /\ tick_events' = NoEvents /\ handing_over' = FALSE
          /\ UNCHANGED <<goal, worker, cancel_requested, move_owners, permitted, current,
                         sessions, events, waiting_move_sessions, stopping>>
      BY <2>15 DEF HandOver
    <3>a. terminal_events' \in [Goal -> {None} \cup SessionEnd]
      BY <1>2, <3>1
    <3>b. {events, tick_events, terminal_events}' \subseteq [Goal -> {None} \cup SessionEnd]
      BY <1>2, <3>1, <3>a
    <3>2. TypeOK'
      BY <1>2, <3>1, <3>b
    <3>3. RegistrationsOK'
      BY <1>2, <3>1 DEF Awaited
    <3>4. SessionsOK' /\ EventsOK' /\ AnswersOK'
      BY <1>2, <3>1
    <3>5. QED BY <3>2, <3>3, <3>4
  <2>16. CASE Grant
    BY <1>2, <2>16 DEF Grant
  <2>17. CASE Shutdown
    BY <1>2, <2>17 DEF Shutdown
  <2>18. CASE UNCHANGED vars
    BY <1>2, <2>18 DEF vars
  <2> HIDE DEF IInv
  <2>19. QED
    BY <1>2, <2>1, <2>2, <2>3, <2>4, <2>5, <2>6, <2>7, <2>8, <2>9, <2>10, <2>11, <2>12, <2>13,
       <2>14, <2>15, <2>16, <2>17, <2>18
       DEF Next, Client, Worker, Control
<1>3. QED BY <1>1, <1>2, PTL DEF Spec

(* The variables keep their types, for any goals and joints.               *)
THEOREM TypeCorrect == Spec => []TypeOK
<1>1. IInv => TypeOK
  BY DEF IInv
<1>2. QED BY <1>1, InvariantHolds, PTL

(* However cancel, timeout, revocation, preemption, an exception in the    *)
(* worker and the session's own end interleave, a goal that has a result   *)
(* has no session any more.                                                *)
THEOREM ResultsEndMotion == Spec => []NoMotionAfterResult
<1>1. IInv => NoMotionAfterResult
  BY DEF IInv, SessionsOK, NoMotionAfterResult, Active, Result
<1>2. QED BY <1>1, InvariantHolds, PTL

(* A worker is about to abort only a goal that has no result yet.          *)
THEOREM GoalsAreAnsweredOnce == Spec => []NeverAnsweredTwice
<1>1. IInv => NeverAnsweredTwice
  BY DEF IInv, AnswersOK, Unanswered, NeverAnsweredTwice
<1>2. QED BY <1>1, InvariantHolds, PTL

(* A worker that is done has left no session, registration, event or       *)
(* reserved joint.                                                         *)
THEOREM WorkersCleanUp == Spec => []NothingLeftBehind
<1>1. IInv => NothingLeftBehind
  BY DEF IInv, TypeOK, SessionsOK, RegistrationsOK, MayWait, NothingLeftBehind
<1>2. QED BY <1>1, InvariantHolds, PTL

-----------------------------------------------------------------------------
(* How a session ended travels from the pipeline through the cycle to      *)
(* terminal_events, and is never in two of these places.                   *)

OnePlace ==
  /\ \A g \in Goal :
       /\ events[g] # None => tick_events[g] = None /\ terminal_events[g] = None
       /\ tick_events[g] # None => terminal_events[g] = None
  /\ ~handing_over => tick_events = NoEvents

\* The end of g's session that its worker has not taken yet.
PendingEnd(g) ==
  IF events[g] # None THEN events[g]
  ELSE IF tick_events[g] # None THEN tick_events[g] ELSE terminal_events[g]

\* Sessions end in the pipeline only, those in S, each with an event there.
EndsIn(S, end) ==
  /\ events' = EventsAfter(S, end)
  /\ UNCHANGED <<tick_events, terminal_events, handing_over>>

\* A worker takes an event, discards it or does something else.
Takes(g) ==
  /\ UNCHANGED <<events, tick_events, handing_over>>
  /\ terminal_events' = [terminal_events EXCEPT ![g] = None]
  /\ waiting_move_sessions' = waiting_move_sessions \ {g}

LEMMA StepsOfEnds ==
  ASSUME [Next]_vars
  PROVE  \/ UNCHANGED <<events, tick_events, terminal_events, handing_over>>
         \/ /\ \E S \in SUBSET sessions, end \in SessionEnd : EndsIn(S, end)
            /\ UNCHANGED waiting_move_sessions
         \/ \E g \in Goal : Takes(g)
         \/ RunTick
         \/ HandOver
<1> USE DEF node, control
<1>1. ASSUME NEW g \in Goal,
             AcceptGoal(g) \/ CancelGoal(g) \/ LaunchAction(g) \/ AwaitEvent(g)
             \/ FinishMove(g) \/ Throw(g) \/ Abort(g) \/ ReleaseMove(g)
      PROVE  UNCHANGED <<events, tick_events, terminal_events, handing_over>>
  BY <1>1 DEF AcceptGoal, CancelGoal, LaunchAction, AwaitEvent, FinishMove, Throw, Abort,
              ReleaseMove
<1>2. ASSUME NEW g \in Goal, SubmitMove(g)
      PROVE  \/ UNCHANGED <<events, tick_events, terminal_events, handing_over>>
             \/ /\ \E S \in SUBSET sessions, end \in SessionEnd : EndsIn(S, end)
                /\ UNCHANGED waiting_move_sessions
  <2> DEFINE S == {h \in sessions : Overlap(g, h)}
  <2>1. CASE UNCHANGED <<sessions, events>>
    BY <1>2, <2>1 DEF SubmitMove
  <2>2. CASE /\ sessions' = (sessions \ S) \cup {g}
             /\ events' = EventsAfter(S, "preempted")
    <3>1. EndsIn(S, "preempted") /\ UNCHANGED waiting_move_sessions
      BY <1>2, <2>2 DEF SubmitMove, EndsIn
    <3>2. "preempted" \in SessionEnd /\ S \in SUBSET sessions
      BY DEF SessionEnd
    <3> HIDE DEF S
    <3>3. QED
      BY <3>1, <3>2
  <2>3. QED
    BY <1>2, <2>1, <2>2 DEF SubmitMove
<1>3. ASSUME NEW g \in Goal, RequestCancel(g) \/ TimeOut(g) \/ StopWorker(g) \/ Catch(g)
      PROVE  /\ \E S \in SUBSET sessions, end \in SessionEnd : EndsIn(S, end)
             /\ UNCHANGED waiting_move_sessions
  <2>1. EndsIn({g} \cap sessions, "canceled") /\ UNCHANGED waiting_move_sessions
    BY <1>3 DEF RequestCancel, TimeOut, StopWorker, Catch, CancelSession, EndSessions, EndsIn
  <2>2. "canceled" \in SessionEnd /\ {g} \cap sessions \in SUBSET sessions
    BY DEF SessionEnd
  <2>3. QED
    BY <2>1, <2>2
<1>4. ASSUME NEW g \in Goal, TakeTerminalEvent(g) \/ DiscardTerminalEvent(g)
      PROVE  Takes(g)
  BY <1>4 DEF TakeTerminalEvent, DiscardTerminalEvent, Takes
<1>5. CASE Revoke
  <2>1. EndsIn(sessions, "canceled") /\ UNCHANGED waiting_move_sessions
    BY <1>5 DEF Revoke, EndSessions, EndsIn
  <2>2. "canceled" \in SessionEnd /\ sessions \in SUBSET sessions
    BY DEF SessionEnd
  <2>3. QED
    BY <2>1, <2>2
<1>6. CASE Grant \/ Shutdown \/ UNCHANGED vars
  BY <1>6 DEF Grant, Shutdown, vars
<1>7. QED
  BY <1>1, <1>2, <1>3, <1>4, <1>5, <1>6 DEF Next, Client, Worker, Control

(* What IInv says of the ends.                                             *)
EndsTyped ==
  /\ sessions \subseteq Goal /\ waiting_move_sessions \subseteq Goal
  /\ events \in [Goal -> {None} \cup SessionEnd]
  /\ tick_events \in [Goal -> {None} \cup SessionEnd]
  /\ terminal_events \in [Goal -> {None} \cup SessionEnd]
  /\ \A g \in sessions :
       events[g] = None /\ tick_events[g] = None /\ terminal_events[g] = None

LEMMA EndsAreTyped ==
  ASSUME IInv
  PROVE  EndsTyped
  BY DEF IInv, TypeOK, SessionsOK, EndsTyped

LEMMA OnePlaceHolds == Spec => [](IInv /\ OnePlace)
<1>1. Init => OnePlace
  BY DEF Init, OnePlace, NoEvents
<1>2. ASSUME IInv, OnePlace, [Next]_vars PROVE OnePlace'
  <2>1. EndsTyped
    BY <1>2, EndsAreTyped
  <2> USE DEF OnePlace, EndsTyped, NoEvents
  <2>2. ASSUME NEW S \in SUBSET sessions, NEW end \in SessionEnd, EndsIn(S, end)
        PROVE  OnePlace'
    BY <1>2, <2>1, <2>2 DEF EndsIn, EventsAfter
  <2>3. ASSUME NEW g \in Goal, Takes(g) PROVE OnePlace'
    BY <1>2, <2>1, <2>3 DEF Takes
  <2>4. CASE RunTick
    <3>1. PICK S \in SUBSET sessions, end \in SessionEnd : tick_events' = EventsAfter(S, end)
      BY <2>4 DEF RunTick
    <3>2. /\ tick_events = NoEvents /\ events' = NoEvents /\ handing_over'
          /\ terminal_events' = terminal_events
      BY <1>2, <2>4 DEF RunTick, control
    <3>3. QED
      BY <1>2, <2>1, <3>1, <3>2 DEF EventsAfter
  <2>5. CASE HandOver
    BY <1>2, <2>1, <2>5 DEF HandOver
  <2>6. CASE UNCHANGED <<events, tick_events, terminal_events, handing_over>>
    BY <1>2, <2>6
  <2> HIDE DEF OnePlace
  <2>7. QED
    BY <1>2, <2>2, <2>3, <2>4, <2>5, <2>6, StepsOfEnds
<1>3. QED
  BY <1>1, <1>2, InvariantHolds, PTL DEF Spec

(* How a session ended is not lost while its worker waits for it: it goes  *)
(* from the pipeline through the cycle that takes it to terminal_events,   *)
(* is in one of these places at a time, and is not replaced by another     *)
(* end, until the worker takes or discards it and so waits no more.        *)
EndsAreKept ==
  [][\A g \in Goal : PendingEnd(g) # None /\ g \in waiting_move_sessions'
       => PendingEnd(g)' = PendingEnd(g)]_vars

THEOREM EndsReachTheirWorkers == Spec => []OnePlace /\ EndsAreKept
<1>1. ASSUME IInv, OnePlace, [Next]_vars, NEW g \in Goal, PendingEnd(g) # None,
             g \in waiting_move_sessions'
      PROVE  PendingEnd(g)' = PendingEnd(g)
  <2>1. EndsTyped
    BY <1>1, EndsAreTyped
  <2> USE DEF PendingEnd
  <2>2. ASSUME NEW S \in SUBSET sessions, NEW end \in SessionEnd, EndsIn(S, end)
        PROVE  PendingEnd(g)' = PendingEnd(g)
    BY <1>1, <2>1, <2>2 DEF EndsIn, EventsAfter, EndsTyped
  <2>3. ASSUME NEW h \in Goal, Takes(h) PROVE PendingEnd(g)' = PendingEnd(g)
    BY <1>1, <2>1, <2>3 DEF Takes, EndsTyped
  <2>4. CASE RunTick
    <3>1. PICK S \in SUBSET sessions, end \in SessionEnd : tick_events' = EventsAfter(S, end)
      BY <2>4 DEF RunTick
    <3>2. /\ tick_events = NoEvents /\ events' = NoEvents
          /\ terminal_events' = terminal_events
      BY <1>1, <2>4 DEF RunTick, OnePlace
    <3>3. QED
      BY <1>1, <2>1, <3>1, <3>2 DEF EventsAfter, EndsTyped, NoEvents
  <2>5. CASE HandOver
    BY <1>1, <2>1, <2>5 DEF HandOver, Awaited, OnePlace, NoEvents, EndsTyped
  <2>6. CASE UNCHANGED <<events, tick_events, terminal_events, handing_over>>
    BY <2>6
  <2> HIDE DEF PendingEnd
  <2>7. QED
    BY <1>1, <2>2, <2>3, <2>4, <2>5, <2>6, StepsOfEnds
<1>2. IInv /\ OnePlace /\ [Next]_vars =>
        [\A g \in Goal : PendingEnd(g) # None /\ g \in waiting_move_sessions'
           => PendingEnd(g)' = PendingEnd(g)]_vars
  BY <1>1
<1>3. QED
  BY <1>2, OnePlaceHolds, PTL DEF EndsAreKept, Spec

-----------------------------------------------------------------------------
(* How many workers there are, and what they hold together.                *)

WithinCapacity == IsFiniteSet(Tasks) /\ Cardinality(Tasks) <= MaxTasks

OwnersAreApart ==
  \A g, h \in move_owners : g # h => ~Overlap(g, h)

\* Only launch_action adds a worker.
LEMMA TasksOnlyLaunched ==
  ASSUME TypeOK, [Next]_vars
  PROVE  \/ Tasks' \subseteq Tasks
         \/ \E g \in Goal : HasCapacity /\ Tasks' \subseteq Tasks \cup {g}
<1> USE DEF TypeOK, Tasks, GoTo
<1>1. ASSUME NEW g \in Goal, LaunchAction(g)
      PROVE  \/ Tasks' \subseteq Tasks
             \/ \E h \in Goal : HasCapacity /\ Tasks' \subseteq Tasks \cup {h}
  BY <1>1 DEF LaunchAction
<1>2. ASSUME NEW g \in Goal,
             AcceptGoal(g) \/ CancelGoal(g) \/ AwaitEvent(g) \/ SubmitMove(g)
             \/ RequestCancel(g) \/ TimeOut(g) \/ TakeTerminalEvent(g) \/ StopWorker(g)
      PROVE  Tasks' \subseteq Tasks
  BY <1>2 DEF AcceptGoal, CancelGoal, AwaitEvent, SubmitMove, RequestCancel, TimeOut,
              TakeTerminalEvent, StopWorker, Polls, None
<1>3. ASSUME NEW g \in Goal,
             FinishMove(g) \/ Catch(g) \/ DiscardTerminalEvent(g) \/ Abort(g)
             \/ ReleaseMove(g) \/ Throw(g)
      PROVE  Tasks' \subseteq Tasks
  BY <1>3 DEF FinishMove, Catch, DiscardTerminalEvent, Abort, ReleaseMove, Throw, None,
              SessionEnd
<1>4. CASE RunTick \/ HandOver \/ Revoke \/ Grant \/ Shutdown \/ UNCHANGED vars
  BY <1>4 DEF RunTick, HandOver, Revoke, Grant, Shutdown, vars
<1>5. QED
  BY <1>1, <1>2, <1>3, <1>4 DEF Next, Client, Worker, Control

(* Where Moves reserve their joints, no two workers own one in common, and *)
(* there are never more workers than launch_action allows, whatever they   *)
(* do and however they end.                                                *)
THEOREM WorkersAreBounded == Spec => [](WithinCapacity /\ OwnersAreApart)
<1>1. Init => WithinCapacity /\ OwnersAreApart
  <2> SUFFICES ASSUME Init PROVE WithinCapacity /\ OwnersAreApart
    OBVIOUS
  <2>1. Tasks = {} /\ move_owners = {}
    BY DEF Init, Tasks
  <2>2. QED
    BY <2>1, FS_EmptySet, ActionAssumption DEF WithinCapacity, OwnersAreApart
<1>2. ASSUME TypeOK, WithinCapacity, [Next]_vars
      PROVE  WithinCapacity'
  <2>1. CASE Tasks' \subseteq Tasks
    <3>1. IsFiniteSet(Tasks') /\ Cardinality(Tasks') <= Cardinality(Tasks)
      BY <1>2, <2>1, FS_Subset DEF WithinCapacity
    <3>2. Cardinality(Tasks') \in Nat /\ Cardinality(Tasks) \in Nat
      BY <1>2, <3>1, FS_CardinalityType DEF WithinCapacity
    <3> DEFINE n == Cardinality(Tasks)
               k == Cardinality(Tasks')
    <3>3. k <= n /\ n <= MaxTasks /\ k \in Nat /\ n \in Nat
      BY <1>2, <3>1, <3>2 DEF WithinCapacity
    <3> HIDE DEF n, k
    <3>4. k <= MaxTasks
      BY <3>3, ActionAssumption
    <3>5. QED
      BY <3>1, <3>4 DEF WithinCapacity, k
  <2>2. ASSUME NEW g \in Goal, HasCapacity, Tasks' \subseteq Tasks \cup {g}
        PROVE  WithinCapacity'
    <3> DEFINE n == Cardinality(Tasks)
               m == Cardinality(Tasks \cup {g})
               k == Cardinality(Tasks')
    <3>1. IsFiniteSet(Tasks \cup {g}) /\ (m = n \/ m = n + 1)
      BY <1>2, FS_AddElement DEF WithinCapacity
    <3>2. IsFiniteSet(Tasks') /\ k <= m
      BY <2>2, <3>1, FS_Subset
    <3>3. k \in Nat /\ m \in Nat /\ n \in Nat
      BY <1>2, <3>1, <3>2, FS_CardinalityType DEF WithinCapacity
    <3>4. n < MaxTasks
      BY <2>2 DEF HasCapacity
    <3> HIDE DEF n, m, k
    <3>5. k <= MaxTasks
      BY <3>1, <3>2, <3>3, <3>4, ActionAssumption
    <3>6. QED
      BY <3>2, <3>5 DEF WithinCapacity, k
  <2>3. QED
    BY <1>2, <2>1, <2>2, TasksOnlyLaunched
<1>3. ASSUME TypeOK, OwnersAreApart, [Next]_vars
      PROVE  OwnersAreApart'
  <2> USE DEF OwnersAreApart
  <2>1. ASSUME NEW g \in Goal, LaunchAction(g) PROVE OwnersAreApart'
    <3>1. \/ move_owners' = move_owners
          \/ /\ move_owners' = move_owners \cup {g}
             /\ \A h \in move_owners : ~Overlap(g, h) /\ ~Overlap(h, g)
      BY <2>1 DEF LaunchAction, MayReserve, Overlap
    <3>2. QED
      BY <1>3, <3>1
  <2>2. ASSUME NEW g \in Goal, ReleaseMove(g) PROVE OwnersAreApart'
    BY <1>3, <2>2 DEF ReleaseMove
  <2>3. CASE UNCHANGED move_owners
    BY <1>3, <2>3
  <2> HIDE DEF OwnersAreApart
  <2>4. ASSUME NEW g \in Goal,
               AcceptGoal(g) \/ CancelGoal(g) \/ AwaitEvent(g) \/ SubmitMove(g)
               \/ RequestCancel(g) \/ TimeOut(g) \/ TakeTerminalEvent(g) \/ StopWorker(g)
               \/ FinishMove(g) \/ Catch(g) \/ DiscardTerminalEvent(g) \/ Abort(g) \/ Throw(g)
        PROVE  OwnersAreApart'
    BY <2>3, <2>4
       DEF AcceptGoal, CancelGoal, AwaitEvent, SubmitMove, RequestCancel, TimeOut,
           TakeTerminalEvent, StopWorker, FinishMove, Catch, DiscardTerminalEvent, Abort,
           Throw, node
  <2>5. CASE RunTick \/ HandOver \/ Revoke \/ Grant \/ Shutdown \/ UNCHANGED vars
    BY <2>3, <2>5 DEF RunTick, HandOver, Revoke, Grant, Shutdown, vars, node
  <2>6. QED
    BY <1>3, <2>1, <2>2, <2>4, <2>5 DEF Next, Client, Worker, Control
<1>4. QED
  BY <1>1, <1>2, <1>3, TypeCorrect, PTL DEF Spec
=============================================================================
