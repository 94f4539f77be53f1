------------------------- MODULE MotionSession_proofs -------------------------
(***************************************************************************)
(* The safety of driving the sessions of a joint group through a cycle.    *)
(* What the backend runs, where the smoother is and which session may be   *)
(* started follow from how far the cycle has got; what a Move's success    *)
(* rests on follows from the moments at which its feedback was looked at.  *)
(***************************************************************************)
EXTENDS MotionSession, FiniteSetTheorems, TLAPS

Calls == {"start", "reset", "target", "shaped"}
Working == {"select", "compute", "retried", "rejected"} \cup Calls

TickRecord ==
  [phase : {"idle", "done"} \cup Working, session : Session \cup {"none"},
   result : {"ok", "error"}, deadline : Int, candidate : Candidate \cup {<<>>},
   path_reached : BOOLEAN, appended : BOOLEAN]

GoalRecord == [q : [Joint -> Int], started_at : Time, stable_since : Time \cup {NotStable}]

Records ==
  /\ tick \in TickRecord
  /\ goals \in [DOMAIN goals -> GoalRecord]
  /\ DOMAIN trail \subseteq DOMAIN run
  /\ DOMAIN evidence \subseteq DOMAIN goals
  /\ evidence \in [DOMAIN evidence -> [since : Time, sample : Int]]
  /\ arrived \subseteq Session

(* A group has one Move at a time and one started session, which in a      *)
(* cycle is the one the cycle drives; only a started Move has a goal.      *)
SessionsOK ==
  /\ \A m, n \in DOMAIN live \cap Move : m = n
  /\ \A s, t \in DOMAIN run : s = t
  /\ DOMAIN goals \subseteq DOMAIN run
  /\ tick.phase \in Working => tick.session \in DOMAIN live
  /\ tick.phase # "idle" => DOMAIN run \subseteq {tick.session}
  /\ tick.phase \in {"start", "reset"} => DOMAIN run = {}
  /\ tick.phase \in {"compute", "target", "shaped", "retried", "rejected"}
       => tick.session \in DOMAIN run

(* A session has been started in the backend from the call that accepts it *)
(* to the end of its run, and has its task as long.                        *)
InBackend ==
  IF tick.phase = "reset" \/ (tick.phase = "start" /\ tick.result = "ok")
    THEN {tick.session} ELSE {}

BackendOK ==
  /\ DOMAIN sdk_sessions = DOMAIN run \cup InBackend
  /\ sdk_tasks = {s \in DOMAIN sdk_sessions : HasTask(s)}

(* Between an output and the next call that moves it the smoother stays    *)
(* where it was; a new session's output starts where the joints are.       *)
SmootherOK ==
  /\ tick.phase \notin {"shaped", "retried", "rejected"}
       => \A s \in DOMAIN run : rtc = run[s].last
  /\ tick.phase = "reset" /\ tick.result = "ok"
       => rtc = [q |-> feedback.q, v |-> feedback.v]
  /\ tick.phase = "shaped" /\ tick.result = "ok" => rtc \in Target
  /\ tick.phase = "retried" => rtc \in Target

(* The output q follows previous without going further out, and is not     *)
(* further out than the joints are measured.                               *)
GoesInward(q, previous, measured) ==
  \A j \in Joint :
    /\ q[j] < Lower[j] => measured[j] <= q[j] /\ previous[j] <= q[j]
    /\ q[j] > Upper[j] => measured[j] >= q[j] /\ previous[j] >= q[j]

(* The output after the retry is as good as one that needed none.          *)
OutputsOK ==
  /\ \A s \in DOMAIN trail : trail[s] = run[s].last.q
  /\ tick.phase = "retried" => GoesInward(rtc.q, Last.q, feedback.q)

(* A measurement precedes the cycle that uses it, and is not too old there.*)
TimesOK ==
  /\ feedback.received_at <= clock /\ last_tick_time <= clock
  /\ tick.phase # "idle" => feedback.received_at <= last_tick_time /\ last_tick_time \in Time
  /\ tick.phase \in Working => tick.deadline <= feedback.received_at + FeedbackMaxAge
  /\ tick.phase \in Working \ {"select"}
       => last_tick_time < feedback.received_at + FeedbackMaxAge

(* What is known of a Move's goal: that its path has come to its end, and  *)
(* since which measurement it stands there.                                *)
GoalsOK ==
  /\ \A m \in DOMAIN goals : IsCartesian(m) => m \in arrived
  /\ tick.phase \in Working /\ tick.path_reached /\ IsCartesian(tick.session)
       => tick.session \in arrived
  /\ tick.path_reached => tick.candidate \in Candidate
  /\ \A m \in DOMAIN goals :
       IF goals[m].stable_since = NotStable THEN m \notin DOMAIN evidence
       ELSE m \in DOMAIN evidence /\ evidence[m].since = goals[m].stable_since
  /\ \A m \in DOMAIN evidence : evidence[m].sample <= evidence[m].since

IInv ==
  /\ TypeOK /\ Records
  /\ SessionsOK /\ BackendOK /\ SmootherOK /\ OutputsOK /\ TimesOK /\ GoalsOK

-----------------------------------------------------------------------------
(* Lemmas about the operators of the model. *)

(* A function without some of its arguments, and with one more.            *)
LEMMA WithoutFacts ==
  ASSUME NEW f, NEW S
  PROVE  /\ DOMAIN Without(f, S) = DOMAIN f \ S
         /\ \A x \in DOMAIN f \ S : Without(f, S)[x] = f[x]
  BY DEF Without, Restrict

LEMMA WithoutKeepsType ==
  ASSUME NEW f, NEW S, NEW T, f \in [DOMAIN f -> T]
  PROVE  Without(f, S) \in [DOMAIN Without(f, S) -> T]
  BY DEF Without, Restrict

LEMMA RestrictFacts ==
  ASSUME NEW f, NEW S, S \subseteq DOMAIN f
  PROVE  /\ DOMAIN Restrict(f, S) = S
         /\ \A x \in S : Restrict(f, S)[x] = f[x]
  BY DEF Restrict

LEMMA RestrictKeepsType ==
  ASSUME NEW f, NEW S, S \subseteq DOMAIN f, NEW T, f \in [DOMAIN f -> T]
  PROVE  Restrict(f, S) \in [DOMAIN Restrict(f, S) -> T]
  BY DEF Restrict

LEMMA WithFacts ==
  ASSUME NEW f, NEW x, NEW y
  PROVE  /\ DOMAIN With(f, x, y) = DOMAIN f \cup {x}
         /\ With(f, x, y)[x] = y
         /\ \A z \in DOMAIN f \ {x} : With(f, x, y)[z] = f[z]
  BY DEF With

LEMMA WithKeepsType ==
  ASSUME NEW f, NEW x, NEW T, f \in [DOMAIN f -> T], NEW y \in T
  PROVE  With(f, x, y) \in [DOMAIN With(f, x, y) -> T]
  BY DEF With

(* Earliest is the least of times of which one is.                         *)
LEMMA EarliestIsLeast ==
  ASSUME NEW times, NEW t \in times, \A u \in times : t <= u
  PROVE  /\ Earliest(times) \in times
         /\ \A u \in times : Earliest(times) <= u
  BY DEF Earliest

(* No cycle outlives the measurement it begins with.                       *)
LEMMA DeadlineInBounds ==
  ASSUME TypeOK, NEW s \in DOMAIN live
  PROVE  /\ Deadline(s) \in Int
         /\ Deadline(s) <= feedback.received_at + FeedbackMaxAge
<1> DEFINE fresh == feedback.received_at + FeedbackMaxAge
           period == clock + MaxPeriod
           lease == live[s] + Lease
           times == {fresh, period} \cup IF s \in Servo THEN {lease} ELSE {}
<1>1. fresh \in Int /\ period \in Int /\ lease \in Int
  BY SessionAssumption DEF TypeOK, Time
<1>2. PICK t \in times : \A u \in times : t <= u
  <2> HIDE DEF fresh, period, lease
  <2>1. CASE fresh <= period /\ (s \in Servo => fresh <= lease)
    BY <1>1, <2>1
  <2>2. CASE period <= fresh /\ (s \in Servo => period <= lease)
    BY <1>1, <2>2
  <2>3. CASE s \in Servo /\ lease <= fresh /\ lease <= period
    BY <1>1, <2>3
  <2>4. QED
    BY <1>1, <2>1, <2>2, <2>3
<1>3. Earliest(times) \in times /\ \A u \in times : Earliest(times) <= u
  <2> HIDE DEF times
  <2>1. QED
    BY <1>2, EarliestIsLeast
<1>4. Deadline(s) = Earliest(times)
  BY DEF Deadline
<1>5. times \subseteq Int /\ fresh \in times
  BY <1>1
<1>6. QED
  BY <1>3, <1>4, <1>5

(* An output that is accepted without a retry goes inward.                 *)
LEMMA ValidOutputGoesInward ==
  ASSUME NEW output \in Target, NEW previous \in Target,
         NEW measured, measured.q \in [Joint -> Int],
         ValidOutput(output, previous, measured)
  PROVE  GoesInward(output.q, previous.q, measured.q)
<1>1. SUFFICES ASSUME NEW j \in Joint
               PROVE  /\ output.q[j] < Lower[j] =>
                           measured.q[j] <= output.q[j] /\ previous.q[j] <= output.q[j]
                      /\ output.q[j] > Upper[j] =>
                           measured.q[j] >= output.q[j] /\ previous.q[j] >= output.q[j]
  BY DEF GoesInward
<1>2. /\ output.q[j] \in Int /\ previous.q[j] \in Int /\ measured.q[j] \in Int
      /\ Lower[j] \in Int /\ Upper[j] \in Int /\ Lower[j] <= Upper[j]
  BY LimitAssumption DEF Target
<1>3. j \in Outside(output.q) => MovesInward(output, previous, measured, j)
  BY DEF ValidOutput
<1>4. QED
  BY <1>2, <1>3 DEF Outside, Below, Above, MovesInward

(* The one retry starts from the recovery seed, where some joints have     *)
(* been set to the measurement, and it is checked against that seed only.  *)
(* Whatever the smoother makes of it, its output, if it is valid, goes     *)
(* inward from the output before all the same.                             *)
THEOREM RetryGoesInward ==
  ASSUME NEW output \in Target, NEW previous \in Target, NEW retried \in Target,
         NEW measured, measured.q \in [Joint -> Int],
         HasSeed(output, previous, measured),
         ValidOutput(retried, Seed(output, previous, measured), measured)
  PROVE  GoesInward(retried.q, previous.q, measured.q)
<1> DEFINE seed == Seed(output, previous, measured)
<1>1. SUFFICES ASSUME NEW j \in Joint
               PROVE  /\ retried.q[j] < Lower[j] =>
                           measured.q[j] <= retried.q[j] /\ previous.q[j] <= retried.q[j]
                      /\ retried.q[j] > Upper[j] =>
                           measured.q[j] >= retried.q[j] /\ previous.q[j] >= retried.q[j]
  BY DEF GoesInward
<1>2. /\ output.q[j] \in Int /\ previous.q[j] \in Int /\ retried.q[j] \in Int
      /\ measured.q[j] \in Int
      /\ Lower[j] \in Int /\ Upper[j] \in Int /\ Lower[j] <= Upper[j]
  BY LimitAssumption DEF Target
<1>3. j \in Outside(retried.q) => MovesInward(retried, seed, measured, j)
  BY DEF ValidOutput
<1>4. seed.q[j] = IF j \in Ahead(output, measured) THEN measured.q[j] ELSE previous.q[j]
  BY DEF Seed
<1>5. j \in Ahead(output, measured) =>
        /\ j \in Outside(output.q) /\ IsAhead(measured, output, j)
        /\ Returns(output, previous, j) /\ MaySynchronize(output, previous, measured, j)
  BY DEF HasSeed, Ahead
<1>6. CASE j \in Ahead(output, measured)
  <2>1. CASE Below(output.q, j)
    BY <1>2, <1>3, <1>4, <1>5, <1>6, <2>1
       DEF Outside, Below, Above, MovesInward, IsAhead, Returns, MaySynchronize
  <2>2. CASE Above(output.q, j)
    BY <1>2, <1>3, <1>4, <1>5, <1>6, <2>2
       DEF Outside, Below, Above, MovesInward, IsAhead, Returns, MaySynchronize
  <2>3. QED
    BY <1>5, <1>6, <2>1, <2>2 DEF Outside
<1>7. CASE j \notin Ahead(output, measured)
  <2>1. seed.q[j] = previous.q[j]
    BY <1>4, <1>7
  <2> HIDE DEF seed
  <2>2. QED
    BY <1>2, <1>3, <2>1 DEF Outside, Below, Above, MovesInward
<1>8. QED
  BY <1>6, <1>7

(* A goal whose observation goes on keeps all but the start of its stable  *)
(* stretch; a goal that is reached has been stable for long enough.        *)
LEMMA ObserveFacts ==
  ASSUME NEW goal \in GoalRecord, NEW measured, NEW pose, NEW now \in Time
  PROVE  LET seen == Observe(goal, measured, pose, now)
             within == WithinTolerance(goal, measured, pose)
             since == StableSince(goal, within, now)
         IN  /\ since \in Time \cup {NotStable}
             /\ seen.observation = "RUNNING" =>
                  seen.goal = [goal EXCEPT !.stable_since = since]
             /\ seen.observation = "REACHED" =>
                  within /\ now - since >= StableDuration
<1> DEFINE within == WithinTolerance(goal, measured, pose)
           since == StableSince(goal, within, now)
<1>1. since \in Time \cup {NotStable}
  BY DEF StableSince, GoalRecord
<1> HIDE DEF within, since
<1>2. QED
  BY <1>1 DEF Observe, within, since

-----------------------------------------------------------------------------
(* Each kind of step preserves the invariant. *)

(* What is left when the runs of some sessions end.                        *)
RunsEnd(S) ==
  /\ DOMAIN run' = DOMAIN run \ S /\ \A s \in DOMAIN run' : run'[s] = run[s]
  /\ run' \in [DOMAIN run' -> [last : Target, recovering : BOOLEAN]]
  /\ DOMAIN goals' = DOMAIN goals \ S /\ \A m \in DOMAIN goals' : goals'[m] = goals[m]
  /\ goals' \in [DOMAIN goals' -> GoalRecord]
  /\ DOMAIN trail' = DOMAIN trail \ S /\ \A s \in DOMAIN trail' : trail'[s] = trail[s]
  /\ DOMAIN evidence' = DOMAIN evidence \ S
  /\ \A m \in DOMAIN evidence' : evidence'[m] = evidence[m]
  /\ evidence' \in [DOMAIN evidence' -> [since : Time, sample : Int]]
  /\ arrived' = arrived \ S
  /\ DOMAIN sdk_sessions' = DOMAIN sdk_sessions \ S
  /\ sdk_tasks' = {s \in DOMAIN sdk_sessions' : HasTask(s)}

LEMMA EndedRuns ==
  ASSUME IInv, NEW S, EndRuns(S)
  PROVE  RunsEnd(S)
<1>1. /\ run' = Without(run, S) /\ goals' = Without(goals, S)
      /\ trail' = Without(trail, S) /\ evidence' = Without(evidence, S)
      /\ arrived' = arrived \ S
      /\ sdk_sessions' = Without(sdk_sessions, S)
      /\ sdk_tasks' = sdk_tasks \ (S \cap DOMAIN sdk_sessions)
  BY DEF EndRuns, StopSessions, StoppedWith, Without
<1>2. run \in [DOMAIN run -> [last : Target, recovering : BOOLEAN]]
  BY DEF IInv, TypeOK
<1>3. /\ goals \in [DOMAIN goals -> GoalRecord]
      /\ evidence \in [DOMAIN evidence -> [since : Time, sample : Int]]
  BY DEF IInv, Records
<1>4. DOMAIN sdk_sessions' = DOMAIN sdk_sessions \ S
  BY <1>1, WithoutFacts
<1>5. sdk_tasks' = {s \in DOMAIN sdk_sessions' : HasTask(s)}
  BY <1>1, <1>4 DEF IInv, BackendOK
<1>6. /\ run' \in [DOMAIN run' -> [last : Target, recovering : BOOLEAN]]
      /\ goals' \in [DOMAIN goals' -> GoalRecord]
      /\ evidence' \in [DOMAIN evidence' -> [since : Time, sample : Int]]
  BY <1>1, <1>2, <1>3, WithoutKeepsType
<1>7. DOMAIN run' = DOMAIN run \ S /\ \A s \in DOMAIN run' : run'[s] = run[s]
  BY <1>1 DEF Without, Restrict
<1>8. DOMAIN goals' = DOMAIN goals \ S /\ \A m \in DOMAIN goals' : goals'[m] = goals[m]
  BY <1>1 DEF Without, Restrict
<1>9. DOMAIN trail' = DOMAIN trail \ S /\ \A s \in DOMAIN trail' : trail'[s] = trail[s]
  BY <1>1 DEF Without, Restrict
<1>10. /\ DOMAIN evidence' = DOMAIN evidence \ S
       /\ \A m \in DOMAIN evidence' : evidence'[m] = evidence[m]
  BY <1>1 DEF Without, Restrict
<1>11. QED
  BY <1>1, <1>4, <1>5, <1>6, <1>7, <1>8, <1>9, <1>10 DEF RunsEnd

(* The cycle ends the session that it drives.                              *)
Ending ==
  /\ tick.phase \in Working
  /\ EndSessions({tick.session})
  /\ Done(TRUE) \/ Done(FALSE)
  /\ rtc' \in Target \cup {Unknown}
  /\ retry_after' \in [Servo -> Nat]
  /\ UNCHANGED <<clock, feedback, last_tick_time>>

LEMMA TickAfterDone ==
  ASSUME IInv, NEW appended \in BOOLEAN, Done(appended)
  PROVE  /\ tick' \in TickRecord /\ tick'.phase = "done" /\ tick'.session = tick.session
         /\ tick'.appended = appended /\ ~tick'.path_reached
  BY DEF IInv, Records, Done, Idle, TickRecord

LEMMA EndingKeepsIInv ==
  ASSUME IInv, Ending
  PROVE  IInv'
<1>1. /\ live' = Without(live, {tick.session}) /\ EndRuns({tick.session})
      /\ rtc' \in Target \cup {Unknown} /\ retry_after' \in [Servo -> Nat]
      /\ clock' = clock /\ feedback' = feedback /\ last_tick_time' = last_tick_time
      /\ tick.phase \in Working
  BY DEF Ending, EndSessions
<1>2. /\ tick' \in TickRecord /\ tick'.phase = "done" /\ tick'.session = tick.session
      /\ ~tick'.path_reached
  BY TickAfterDone DEF Ending
<1>3. RunsEnd({tick.session})
  BY <1>1, EndedRuns
<1>4. DOMAIN live' = DOMAIN live \ {tick.session}
  BY <1>1 DEF Without, Restrict
<1>5. live' \in [DOMAIN live' -> Time]
  BY <1>1, WithoutKeepsType DEF IInv, TypeOK
<1>6. DOMAIN run' = {} /\ DOMAIN goals' = {} /\ DOMAIN evidence' = {} /\ DOMAIN trail' = {}
  BY <1>1, <1>3 DEF RunsEnd, IInv, Records, SessionsOK, Working, Calls
<1>7. TypeOK'
  BY <1>1, <1>2, <1>3, <1>4, <1>5, <1>6 DEF RunsEnd, IInv, TypeOK
<1>8. Records'
  BY <1>2, <1>3, <1>6 DEF RunsEnd, IInv, Records
<1>9. SessionsOK'
  BY <1>2, <1>4, <1>6 DEF IInv, SessionsOK, Working, Calls
<1>10. BackendOK'
  <2>1. DOMAIN sdk_sessions \subseteq {tick.session}
    BY <1>1 DEF IInv, BackendOK, InBackend, SessionsOK, Working, Calls
  <2>2. QED
    BY <1>2, <1>3, <1>6, <2>1 DEF RunsEnd, BackendOK, InBackend
<1>11. SmootherOK'
  BY <1>2, <1>6 DEF SmootherOK
<1>12. OutputsOK'
  BY <1>2, <1>6 DEF OutputsOK
<1>13. TimesOK'
  BY <1>1, <1>2 DEF IInv, TimesOK, Working, Calls
<1>14. GoalsOK'
  BY <1>2, <1>6 DEF GoalsOK, Working, Calls
<1>15. QED
  BY <1>7, <1>8, <1>9, <1>10, <1>11, <1>12, <1>13, <1>14 DEF IInv

(* Between cycles sessions come and go: some end, and one may be live from *)
(* now on that is no second Move.                                          *)
Admitting(S) ==
  /\ tick.phase = "idle" /\ EndRuns(S)
  /\ \/ live' = Without(live, S)
     \/ \E s \in Session : /\ s \in Move => DOMAIN live \cap Move \subseteq S
                           /\ live' = With(Without(live, S), s, clock)
  /\ UNCHANGED <<clock, feedback, retry_after, last_tick_time, tick, rtc>>

LEMMA AdmittingKeepsIInv ==
  ASSUME IInv, NEW S, Admitting(S)
  PROVE  IInv'
<1>1. /\ EndRuns(S) /\ tick.phase = "idle"
      /\ clock' = clock /\ feedback' = feedback /\ last_tick_time' = last_tick_time
      /\ tick' = tick /\ rtc' = rtc /\ retry_after' = retry_after
  BY DEF Admitting
<1>2. RunsEnd(S)
  BY <1>1, EndedRuns
<1>3. /\ live \in [DOMAIN live -> Time] /\ clock \in Time /\ DOMAIN live \subseteq Session
      /\ \A m, n \in DOMAIN live \cap Move : m = n
  BY DEF IInv, TypeOK, SessionsOK
<1>4. /\ DOMAIN live \ S \subseteq DOMAIN live' /\ DOMAIN live' \subseteq Session
      /\ live' \in [DOMAIN live' -> Time]
      /\ \A m, n \in DOMAIN live' \cap Move : m = n
  <2> DEFINE left == Without(live, S)
  <2>1. DOMAIN left = DOMAIN live \ S
    BY DEF Without, Restrict
  <2>2. left \in [DOMAIN left -> Time]
    BY <1>3, WithoutKeepsType
  <2> HIDE DEF left
  <2>3. CASE live' = left
    BY <1>3, <2>1, <2>2, <2>3
  <2>4. CASE \E s \in Session : /\ s \in Move => DOMAIN live \cap Move \subseteq S
                                /\ live' = With(left, s, clock)
    <3>1. PICK s \in Session : /\ s \in Move => DOMAIN live \cap Move \subseteq S
                               /\ live' = With(left, s, clock)
      BY <2>4
    <3>2. DOMAIN live' = DOMAIN left \cup {s}
      BY <3>1, WithFacts
    <3>3. live' \in [DOMAIN live' -> Time]
      BY <1>3, <2>2, <3>1, WithKeepsType
    <3>4. QED
      BY <1>3, <2>1, <3>1, <3>2, <3>3
  <2>5. QED
    BY <2>3, <2>4 DEF Admitting, left
<1> USE DEF RunsEnd
<1>5. TypeOK'
  BY <1>1, <1>2, <1>4 DEF IInv, TypeOK
<1>6. Records'
  BY <1>1, <1>2 DEF IInv, Records
<1>7. SessionsOK'
  BY <1>1, <1>2, <1>4 DEF IInv, SessionsOK, Working, Calls
<1>8. BackendOK'
  BY <1>1, <1>2 DEF IInv, BackendOK, InBackend
<1>9. SmootherOK'
  BY <1>1, <1>2 DEF IInv, SmootherOK
<1>10. OutputsOK'
  BY <1>1, <1>2 DEF IInv, Records, OutputsOK
<1>11. TimesOK'
  BY <1>1 DEF IInv, TimesOK, Working, Calls
<1>12. GoalsOK'
  BY <1>1, <1>2 DEF IInv, Records, GoalsOK, Working, Calls
<1>13. QED
  BY <1>5, <1>6, <1>7, <1>8, <1>9, <1>10, <1>11, <1>12 DEF IInv

(* Steps that move neither the sessions nor what is known of them.         *)
LEMMA WaitingKeepsIInv ==
  ASSUME IInv, WaitForRetry \/ AdvanceClock \/ (\E r \in Reading : Measure(r))
  PROVE  IInv'
<1>1. CASE WaitForRetry
  <2>1. /\ tick' \in TickRecord /\ tick'.phase = "done" /\ tick'.session = tick.session
        /\ ~tick'.path_reached
    BY <1>1, TickAfterDone DEF WaitForRetry
  <2>2. UNCHANGED <<clock, feedback, live, run, goals, retry_after, last_tick_time,
                    trail, evidence, arrived, sdk_sessions, sdk_tasks, rtc>>
    BY <1>1 DEF WaitForRetry, Calling, history, backend
  <2>3. tick.phase = "select" /\ DOMAIN run = {}
    BY <1>1 DEF WaitForRetry, Selected, MustWait, Started, IInv, SessionsOK
  <2>4. TypeOK' /\ Records'
    BY <2>1, <2>2 DEF IInv, TypeOK, Records
  <2>5. SessionsOK' /\ BackendOK'
    BY <2>1, <2>2, <2>3
       DEF IInv, SessionsOK, BackendOK, InBackend, Working, Calls
  <2>6. SmootherOK' /\ OutputsOK'
    BY <2>1, <2>2, <2>3 DEF IInv, Records, SmootherOK, OutputsOK
  <2>7. TimesOK' /\ GoalsOK'
    BY <2>1, <2>2, <2>3 DEF IInv, TimesOK, GoalsOK, Working, Calls
  <2>8. QED
    BY <2>4, <2>5, <2>6, <2>7 DEF IInv
<1>2. CASE AdvanceClock
  <2>1. /\ clock' = clock + 1 /\ clock' \in Time
        /\ UNCHANGED <<feedback, live, run, goals, retry_after, last_tick_time, tick,
                       trail, evidence, arrived, sdk_sessions, sdk_tasks, rtc>>
    BY <1>2, SessionAssumption DEF AdvanceClock, history, backend, IInv, TypeOK, Time
  <2>2. TypeOK' /\ Records'
    BY <2>1 DEF IInv, TypeOK, Records
  <2>3. SessionsOK' /\ BackendOK' /\ SmootherOK'
    BY <2>1 DEF IInv, SessionsOK, BackendOK, InBackend, SmootherOK
  <2>4. OutputsOK' /\ GoalsOK'
    BY <2>1 DEF IInv, OutputsOK, GoalsOK, Last
  <2>5. TimesOK'
    <3>1. clock \in Int /\ feedback.received_at \in Int /\ last_tick_time \in Int
      BY DEF IInv, TypeOK, Time, Never
    <3>2. QED
      BY <2>1, <3>1 DEF IInv, TimesOK
  <2>6. QED
    BY <2>2, <2>3, <2>4, <2>5 DEF IInv
<1>3. ASSUME NEW r \in Reading, Measure(r)
      PROVE  IInv'
  <2>1. /\ tick.phase = "idle"
        /\ feedback' = [q |-> r.q, v |-> r.v, received_at |-> clock]
        /\ UNCHANGED <<clock, live, run, goals, retry_after, last_tick_time, tick,
                       trail, evidence, arrived, sdk_sessions, sdk_tasks, rtc>>
    BY <1>3 DEF Measure, history, backend
  <2>2. r.q \in [Joint -> Int] /\ r.v \in [Joint -> Int] /\ clock \in Int
    BY SessionAssumption DEF Target, IInv, TypeOK, Time
  <2>3. TypeOK' /\ Records'
    BY <2>1, <2>2 DEF IInv, TypeOK, Records
  <2>4. SessionsOK' /\ BackendOK' /\ SmootherOK'
    BY <2>1 DEF IInv, SessionsOK, BackendOK, InBackend, SmootherOK, Working, Calls
  <2>5. OutputsOK' /\ GoalsOK'
    BY <2>1 DEF IInv, OutputsOK, GoalsOK
  <2>6. TimesOK'
    BY <2>1, <2>2 DEF IInv, TimesOK, Working, Calls
  <2>7. QED
    BY <2>3, <2>4, <2>5, <2>6 DEF IInv
<1>4. QED
  BY <1>1, <1>2, <1>3

(* A backend call: what it returned is for the next step to look at.       *)
LEMMA CallsKeepIInv ==
  ASSUME IInv, Start \/ Reset \/ Shape
  PROVE  IInv'
<1> DEFINE Kept == UNCHANGED <<clock, feedback, live, run, goals, retry_after,
                               last_tick_time, trail, evidence, arrived>>
<1>1. Kept
  BY DEF Start, Reset, Shape, Calling, history
<1>2. PICK phase \in {"start", "reset", "shaped"}, result \in {"ok", "error"} :
        Called(phase, result)
  BY DEF Start, Reset, Shape
<1>3. /\ tick' \in TickRecord /\ tick'.phase = phase /\ tick'.result = result
      /\ tick'.session = tick.session /\ tick'.deadline = tick.deadline
      /\ tick'.path_reached = tick.path_reached /\ tick'.candidate = tick.candidate
  BY <1>2 DEF Called, IInv, Records, TickRecord, Working, Calls
<1> USE DEF Working, Calls
<1>4. CASE Start
  <2>1. /\ phase = "start" /\ tick.phase = "select" /\ DOMAIN run = {} /\ InTime
        /\ rtc' = rtc
    <3>1. tick.phase = "select" /\ InTime /\ tick.session \notin DOMAIN run
      BY <1>4 DEF Start, Selected, Started
    <3>2. DOMAIN run = {}
      BY <3>1 DEF IInv, SessionsOK
    <3>3. rtc' = rtc
      BY <1>4 DEF Start, StartSession, backend
    <3>4. tick'.phase = "start"
      BY <1>4 DEF Start, Called, IInv, Records, TickRecord
    <3>5. QED
      BY <1>3, <3>1, <3>2, <3>3, <3>4
  <2>2. TypeOK' /\ Records'
    BY <1>1, <1>3, <2>1 DEF IInv, TypeOK, Records
  <2>3. SessionsOK'
    BY <1>1, <1>3, <2>1 DEF IInv, SessionsOK
  <2>4. BackendOK'
    <3>1. DOMAIN sdk_sessions = {} /\ sdk_tasks = {}
      BY <2>1 DEF IInv, BackendOK, InBackend
    <3>2. CASE StartSession(tick.session) /\ Called("start", "ok")
      <4>1. tick'.result = "ok" /\ tick'.phase = "start"
        BY <1>3, <3>2, <2>1 DEF Called, IInv, Records, TickRecord
      <4>2. DOMAIN sdk_sessions' = {tick.session}
        BY <3>1, <3>2 DEF StartSession
      <4>3. sdk_tasks' = IF HasTask(tick.session) THEN {tick.session} ELSE {}
        BY <3>1, <3>2 DEF StartSession
      <4>4. QED
        BY <1>1, <1>3, <2>1, <4>1, <4>2, <4>3 DEF BackendOK, InBackend
    <3>3. CASE UNCHANGED backend /\ Called("start", "error")
      <4>1. tick'.result = "error" /\ tick'.phase = "start"
        BY <1>3, <3>3, <2>1 DEF Called, IInv, Records, TickRecord
      <4>2. QED
        BY <1>1, <2>1, <3>1, <3>3, <4>1 DEF BackendOK, InBackend, backend
    <3>4. QED
      BY <1>4, <3>2, <3>3 DEF Start
  <2>5. SmootherOK' /\ OutputsOK'
    BY <1>1, <1>3, <2>1 DEF IInv, Records, SmootherOK, OutputsOK
  <2>6. TimesOK'
    <3>1. /\ clock \in Int /\ feedback.received_at \in Int /\ last_tick_time \in Int
          /\ tick.deadline \in Int /\ FeedbackMaxAge \in Int
      BY SessionAssumption DEF IInv, TypeOK, Time, Never, Records, TickRecord
    <3>2. QED
      BY <1>1, <1>3, <2>1, <3>1 DEF IInv, TimesOK, InTime
  <2>7. GoalsOK'
    BY <1>1, <1>3, <2>1 DEF IInv, GoalsOK
  <2>8. QED
    BY <2>2, <2>3, <2>4, <2>5, <2>6, <2>7 DEF IInv
<1>5. CASE Reset \/ Shape
  <2>1. /\ UNCHANGED <<sdk_sessions, sdk_tasks>>
        /\ rtc' = Unknown \/ rtc' \in Target
        /\ tick.result = "ok"
    BY <1>5, SessionAssumption
       DEF Reset, Shape, ResetFinal, UpdateFinal, Returned, IInv, TypeOK, Target
  <2>2. TypeOK' /\ Records'
    BY <1>1, <1>3, <2>1 DEF IInv, TypeOK, Records
  <2>3. \/ tick.phase = "start" /\ phase = "reset"
        \/ tick.phase = "target" /\ phase = "shaped"
    BY <1>2, <1>3, <1>5 DEF Reset, Shape, Returned, Called, IInv, Records, TickRecord
  <2>4. SessionsOK' /\ BackendOK'
    BY <1>1, <1>3, <2>1, <2>3 DEF IInv, SessionsOK, BackendOK, InBackend
  <2>5. SmootherOK'
    <3>1. CASE Reset
      <4>1. DOMAIN run' = {} /\ phase = "reset"
        BY <1>1, <1>3, <2>3, <3>1 DEF Reset, Returned, IInv, SessionsOK
      <4>2. result = "ok" => rtc' = [q |-> feedback.q, v |-> feedback.v]
        BY <1>3, <3>1 DEF Reset, ResetFinal, Called, IInv, Records, TickRecord
      <4>3. QED
        BY <1>1, <1>3, <4>1, <4>2 DEF SmootherOK
    <3>2. CASE Shape
      <4>1. phase = "shaped"
        BY <2>3, <3>2 DEF Shape, Returned
      <4>2. result = "ok" => rtc' \in Target
        BY <1>3, <3>2, SessionAssumption DEF Shape, UpdateFinal, Called, IInv, Records, TickRecord
      <4>3. QED
        BY <1>3, <4>1, <4>2 DEF SmootherOK
    <3>3. QED
      BY <1>5, <3>1, <3>2
  <2>6. OutputsOK'
    BY <1>1, <1>3, <2>3 DEF IInv, OutputsOK
  <2>7. TimesOK' /\ GoalsOK'
    BY <1>1, <1>3, <2>3 DEF IInv, TimesOK, GoalsOK
  <2>8. QED
    BY <2>2, <2>4, <2>5, <2>6, <2>7 DEF IInv
<1>6. QED
  BY <1>4, <1>5

(* A session that the backend has accepted runs from now on.               *)
LEMMA RunKeepsIInv ==
  ASSUME IInv, Run
  PROVE  IInv'
<1> DEFINE s == tick.session
           first == [last |-> [q |-> feedback.q, v |-> feedback.v],
                     recovering |-> Outside(feedback.q) # {}]
<1> USE DEF Working, Calls
<1>1. /\ tick.phase = "reset" /\ tick.result = "ok" /\ InTime
      /\ run' = With(run, s, first)
      /\ goals' = IF Kind[s] = "MOVE_J" THEN With(goals, s, BeginGoal(MoveTarget, live[s]))
                                        ELSE goals
      /\ tick' = [tick EXCEPT !.phase = "compute"]
      /\ UNCHANGED <<clock, feedback, live, retry_after, last_tick_time, trail, evidence,
                     arrived, sdk_sessions, sdk_tasks, rtc>>
  BY DEF Run, Returned, Calling, history, backend
<1>2. /\ tick' \in TickRecord /\ tick'.phase = "compute" /\ tick'.session = s
      /\ tick'.deadline = tick.deadline /\ tick'.path_reached = tick.path_reached
      /\ tick'.candidate = tick.candidate
  BY <1>1 DEF IInv, Records, TickRecord
<1>3. /\ DOMAIN run = {} /\ DOMAIN goals = {} /\ DOMAIN trail = {} /\ DOMAIN evidence = {}
      /\ s \in DOMAIN live /\ s \in Session
  BY <1>1 DEF IInv, SessionsOK, Records, TypeOK
<1>4. rtc = first.last /\ first \in [last : Target, recovering : BOOLEAN]
  <2>1. (Outside(feedback.q) # {}) \in BOOLEAN
    OBVIOUS
  <2>2. rtc = [q |-> feedback.q, v |-> feedback.v]
    BY <1>1 DEF IInv, SmootherOK
  <2>3. [q |-> feedback.q, v |-> feedback.v] \in Target
    BY DEF IInv, TypeOK, Target
  <2>4. QED
    BY <2>1, <2>2, <2>3
<1> HIDE DEF first
<1>5. DOMAIN run' = {s} /\ run'[s] = first
  BY <1>1, <1>3 DEF With
<1>6. run' \in [DOMAIN run' -> [last : Target, recovering : BOOLEAN]]
  BY <1>1, <1>4, WithKeepsType DEF IInv, TypeOK
<1>7. live[s] \in Time
  BY <1>3 DEF IInv, TypeOK
<1>8. /\ DOMAIN goals' \subseteq {s} \cap Move
      /\ goals' \in [DOMAIN goals' -> GoalRecord]
      /\ \A m \in DOMAIN goals' : ~IsCartesian(m) /\ goals'[m].stable_since = NotStable
  <2>1. CASE Kind[s] = "MOVE_J"
    <3> DEFINE goal == BeginGoal(MoveTarget, live[s])
    <3>1. goal \in GoalRecord /\ goal.stable_since = NotStable
      BY <1>7, SessionAssumption DEF BeginGoal, GoalRecord
    <3> HIDE DEF goal
    <3>2. goals' = With(goals, s, goal)
      BY <1>1, <2>1 DEF goal
    <3>3. DOMAIN goals' = {s} /\ goals'[s] = goal
      BY <1>3, <3>2 DEF With
    <3>4. goals' \in [DOMAIN goals' -> GoalRecord]
      BY <3>1, <3>2, WithKeepsType DEF IInv, Records
    <3>5. s \in Move /\ ~IsCartesian(s)
      BY <1>3, <2>1 DEF Move, Servo, IsCartesian
    <3>6. QED
      BY <3>1, <3>3, <3>4, <3>5
  <2>2. CASE Kind[s] # "MOVE_J"
    <3>1. goals' = goals
      BY <1>1, <2>2
    <3>2. QED
      BY <1>3, <3>1 DEF IInv, Records
  <2>3. QED
    BY <2>1, <2>2
<1>9. TypeOK'
  BY <1>1, <1>2, <1>3, <1>5, <1>6, <1>8 DEF IInv, TypeOK
<1>10. Records'
  BY <1>1, <1>2, <1>3, <1>8 DEF IInv, Records
<1>11. SessionsOK'
  BY <1>1, <1>2, <1>3, <1>5, <1>8 DEF IInv, SessionsOK
<1>12. BackendOK'
  BY <1>1, <1>2, <1>3, <1>5 DEF IInv, BackendOK, InBackend
<1>13. SmootherOK'
  BY <1>1, <1>2, <1>4, <1>5 DEF SmootherOK
<1>14. OutputsOK'
  BY <1>1, <1>2, <1>3 DEF OutputsOK
<1>15. TimesOK'
  BY <1>1, <1>2 DEF IInv, TimesOK
<1>16. GoalsOK'
  BY <1>1, <1>2, <1>3, <1>8 DEF IInv, GoalsOK
<1>17. QED
  BY <1>9, <1>10, <1>11, <1>12, <1>13, <1>14, <1>15, <1>16 DEF IInv

(* The backend proposes where to go next, and whether the path ends there. *)
LEMMA ProposeKeepsIInv ==
  ASSUME IInv, Propose
  PROVE  IInv'
<1> DEFINE s == tick.session
<1> USE DEF Working, Calls
<1>1. /\ UNCHANGED <<clock, feedback, live, run, goals, retry_after, last_tick_time,
                     trail, evidence, sdk_tasks, rtc>>
      /\ DOMAIN sdk_sessions' = DOMAIN sdk_sessions
  BY DEF Propose, Calling, TickSession, backend
<1>2. /\ tick.phase \in {"select", "compute"} /\ s \in DOMAIN run
      /\ tick.phase = "select" => InTime
  BY DEF Propose, Selected, Started, IInv, SessionsOK
<1>3. /\ tick' \in TickRecord /\ tick'.phase = "target" /\ tick'.session = s
      /\ tick'.deadline = tick.deadline
      /\ arrived \subseteq arrived' /\ arrived' \subseteq arrived \cup {s}
      /\ tick'.path_reached => tick'.candidate \in Candidate
      /\ tick'.path_reached /\ IsCartesian(s) => s \in arrived'
  <2>1. tick \in TickRecord
    BY DEF IInv, Records
  <2>2. CASE \E reached \in BOOLEAN, q \in Candidate :
               /\ arrived' = IF IsCartesian(s) /\ reached /\ IsLastWaypoint(s)
                               THEN arrived \cup {s} ELSE arrived
               /\ tick' = [tick EXCEPT !.phase = "target", !.candidate = q,
                             !.path_reached = PathReached(s, reached),
                             !.result = IF WithinLimits(q) THEN "ok" ELSE "error"]
    <3>1. PICK reached \in BOOLEAN, q \in Candidate :
               /\ arrived' = IF IsCartesian(s) /\ reached /\ IsLastWaypoint(s)
                               THEN arrived \cup {s} ELSE arrived
               /\ tick' = [tick EXCEPT !.phase = "target", !.candidate = q,
                             !.path_reached = PathReached(s, reached),
                             !.result = IF WithinLimits(q) THEN "ok" ELSE "error"]
      BY <2>2
    <3>2. PathReached(s, reached) \in BOOLEAN
      BY DEF PathReached, IsLastWaypoint
    <3>3. (IF WithinLimits(q) THEN "ok" ELSE "error") \in {"ok", "error"}
      OBVIOUS
    <3>4. tick' \in TickRecord
      BY <2>1, <3>1, <3>2, <3>3 DEF TickRecord
    <3>5. /\ tick'.phase = "target" /\ tick'.session = s /\ tick'.deadline = tick.deadline
          /\ tick'.candidate = q /\ tick'.path_reached = PathReached(s, reached)
      BY <2>1, <3>1 DEF TickRecord
    <3>6. tick'.path_reached => reached /\ IsLastWaypoint(s)
      BY <3>5 DEF PathReached
    <3>7. QED
      BY <3>1, <3>4, <3>5, <3>6
  <2>3. CASE arrived' = arrived /\ Called("target", "error")
    BY <1>2, <2>1, <2>3 DEF Called, TickRecord, IInv, GoalsOK
  <2>4. QED
    BY <2>2, <2>3 DEF Propose
<1>4. s \in Session
  BY <1>2 DEF IInv, TypeOK
<1>5. TypeOK' /\ Records'
  BY <1>1, <1>3, <1>4 DEF IInv, TypeOK, Records
<1>6. SessionsOK'
  BY <1>1, <1>2, <1>3 DEF IInv, SessionsOK
<1>7. BackendOK'
  BY <1>1, <1>2, <1>3 DEF IInv, BackendOK, InBackend
<1>8. SmootherOK'
  BY <1>1, <1>2, <1>3 DEF IInv, SmootherOK
<1>9. OutputsOK'
  BY <1>1, <1>3 DEF IInv, OutputsOK
<1>10. TimesOK'
  <2>1. /\ clock \in Int /\ feedback.received_at \in Int /\ last_tick_time \in Int
        /\ tick.deadline \in Int /\ FeedbackMaxAge \in Int
    BY SessionAssumption DEF IInv, TypeOK, Time, Never, Records, TickRecord
  <2>2. QED
    BY <1>1, <1>2, <1>3, <2>1 DEF IInv, TimesOK, InTime
<1>11. GoalsOK'
  BY <1>1, <1>3 DEF IInv, GoalsOK
<1>12. QED
  BY <1>5, <1>6, <1>7, <1>8, <1>9, <1>10, <1>11 DEF IInv

(* The smoother is set to the seed and moved again.                        *)
LEMMA RetryKeepsIInv ==
  ASSUME IInv, Retry
  PROVE  IInv'
<1> USE DEF Working, Calls
<1>1. /\ UNCHANGED <<clock, feedback, live, run, goals, retry_after, last_tick_time,
                     trail, evidence, arrived, sdk_sessions, sdk_tasks>>
      /\ tick.phase = "shaped" /\ tick.result = "ok" /\ MayRetry
  BY DEF Retry, Returned, Calling, history
<1>2. rtc \in Target /\ tick.session \in DOMAIN run /\ Last \in Target
  BY <1>1 DEF IInv, SmootherOK, SessionsOK, TypeOK, Last
<1>3. PICK phase \in {"retried", "rejected"} : tick' = [tick EXCEPT !.phase = phase]
  BY DEF Retry
<1>4. /\ tick' \in TickRecord /\ tick'.phase = phase /\ tick'.session = tick.session
      /\ tick'.deadline = tick.deadline /\ tick'.path_reached = tick.path_reached
      /\ tick'.candidate = tick.candidate
  BY <1>3 DEF IInv, Records, TickRecord
<1>5. /\ rtc' \in Target \cup {Unknown}
      /\ phase = "retried" =>
           rtc' \in Target /\ ValidOutput(rtc', Seed(rtc, Last, feedback), feedback)
  <2>1. CASE \E out \in Shaped :
               /\ UpdateFinal(out)
               /\ tick' = [tick EXCEPT !.phase =
                            IF ValidOutput(out, Seed(rtc, Last, feedback), feedback)
                              THEN "retried" ELSE "rejected"]
    BY <1>4, <2>1, SessionAssumption DEF UpdateFinal, IInv, Records, TickRecord
  <2>2. CASE UpdateFinal(Unknown) /\ tick' = [tick EXCEPT !.phase = "rejected"]
    BY <1>4, <2>2 DEF UpdateFinal, IInv, Records, TickRecord
  <2>3. QED
    BY <2>1, <2>2 DEF Retry
<1>6. phase = "retried" => GoesInward(rtc'.q, Last.q, feedback.q)
  <2>1. HasSeed(rtc, Last, feedback) /\ feedback.q \in [Joint -> Int]
    BY <1>1 DEF MayRetry, IInv, TypeOK
  <2>2. QED
    BY <1>2, <1>5, <2>1, RetryGoesInward
<1>7. Last' = Last
  BY <1>1, <1>4 DEF Last
<1>8. TypeOK' /\ Records'
  BY <1>1, <1>4, <1>5 DEF IInv, TypeOK, Records
<1>9. SessionsOK'
  BY <1>1, <1>4 DEF IInv, SessionsOK
<1>10. BackendOK'
  BY <1>1, <1>4 DEF IInv, BackendOK, InBackend
<1>11. SmootherOK'
  BY <1>4, <1>5 DEF SmootherOK
<1>12. OutputsOK'
  BY <1>1, <1>4, <1>6, <1>7 DEF IInv, OutputsOK
<1>13. TimesOK' /\ GoalsOK'
  BY <1>1, <1>4 DEF IInv, TimesOK, GoalsOK
<1>14. QED
  BY <1>8, <1>9, <1>10, <1>11, <1>12, <1>13 DEF IInv

(* An output that is accepted.                                             *)
LEMMA AcceptedOutputs ==
  ASSUME IInv, Accepted
  PROVE  /\ rtc \in Target /\ tick.session \in DOMAIN run /\ Last \in Target
         /\ GoesInward(rtc.q, Last.q, feedback.q)
         /\ tick.phase \in {"shaped", "retried"}
<1>1. tick.phase \in {"shaped", "retried"} /\ rtc \in Target
  BY DEF Accepted, Returned, IInv, SmootherOK
<1>2. tick.session \in DOMAIN run
  BY <1>1 DEF IInv, SessionsOK
<1>3. Last \in Target /\ feedback.q \in [Joint -> Int]
  BY <1>2 DEF IInv, TypeOK, Last
<1>4. GoesInward(rtc.q, Last.q, feedback.q)
  BY <1>1, <1>3, ValidOutputGoesInward DEF Accepted, IsValid, IInv, OutputsOK
<1>5. QED
  BY <1>1, <1>2, <1>3, <1>4

(* The session appends its output and goes on.                             *)
Outputs ==
  /\ Accepted /\ AppendOutput(tick.session)
  /\ retry_after' \in [Servo -> Nat]
  /\ UNCHANGED <<clock, feedback, live, last_tick_time, arrived, backend>>

LEMMA OutputsKeepSessions ==
  ASSUME IInv, Outputs
  PROVE  /\ DOMAIN run' = DOMAIN run
         /\ run' \in [DOMAIN run' -> [last : Target, recovering : BOOLEAN]]
         /\ tick' \in TickRecord /\ tick'.phase = "done" /\ tick'.session = tick.session
         /\ ~tick'.path_reached
         /\ DOMAIN trail' \subseteq DOMAIN run'
         /\ BackendOK' /\ SmootherOK' /\ OutputsOK' /\ TimesOK'
<1> DEFINE s == tick.session
           next == [last |-> rtc, recovering |-> run[s].recovering /\ ~WithinLimits(rtc.q)]
<1>1. /\ rtc \in Target /\ s \in DOMAIN run /\ tick.phase \in {"shaped", "retried"}
  BY AcceptedOutputs DEF Outputs
<1>2. /\ tick' \in TickRecord /\ tick'.phase = "done" /\ tick'.session = s
      /\ ~tick'.path_reached
  BY TickAfterDone DEF Outputs, AppendOutput
<1>3. /\ run' = [run EXCEPT ![s] = next] /\ trail' = With(trail, s, rtc.q)
      /\ UNCHANGED <<clock, feedback, live, last_tick_time, arrived, sdk_sessions,
                     sdk_tasks, rtc>>
  BY DEF Outputs, AppendOutput, backend
<1>4. next \in [last : Target, recovering : BOOLEAN] /\ next.last = rtc
  <2>1. run[s].recovering \in BOOLEAN
    BY <1>1 DEF IInv, TypeOK
  <2>2. (run[s].recovering /\ ~WithinLimits(rtc.q)) \in BOOLEAN
    BY <2>1
  <2>3. QED
    BY <1>1, <2>2
<1> HIDE DEF next
<1>5. DOMAIN run' = DOMAIN run /\ run'[s] = next /\ DOMAIN run = {s}
  BY <1>1, <1>3 DEF IInv, SessionsOK
<1>6. run' \in [DOMAIN run' -> [last : Target, recovering : BOOLEAN]]
  BY <1>3, <1>4, <1>5 DEF IInv, TypeOK
<1>7. DOMAIN trail' = {s} /\ trail'[s] = rtc.q
  BY <1>3, <1>5 DEF IInv, Records, With
<1>8. BackendOK'
  BY <1>1, <1>2, <1>3, <1>5 DEF IInv, BackendOK, InBackend
<1>9. SmootherOK'
  BY <1>2, <1>3, <1>4, <1>5 DEF SmootherOK
<1>10. OutputsOK'
  BY <1>2, <1>4, <1>5, <1>7 DEF OutputsOK
<1>11. TimesOK'
  BY <1>1, <1>2, <1>3 DEF IInv, TimesOK, Working, Calls
<1>12. QED
  BY <1>2, <1>5, <1>6, <1>7, <1>8, <1>9, <1>10, <1>11

LEMMA OutputsKeepIInv ==
  ASSUME IInv, Outputs, UNCHANGED <<goals, evidence>>
  PROVE  IInv'
<1> USE OutputsKeepSessions
<1> USE DEF Working, Calls
<1>1. UNCHANGED <<clock, feedback, live, last_tick_time, arrived, rtc>>
  BY DEF Outputs, backend
<1>2. TypeOK'
  BY <1>1 DEF Outputs, IInv, TypeOK
<1>3. Records'
  BY <1>1 DEF IInv, Records
<1>4. SessionsOK'
  BY <1>1, AcceptedOutputs DEF Outputs, IInv, SessionsOK
<1>5. GoalsOK'
  BY <1>1 DEF IInv, GoalsOK
<1>6. QED
  BY <1>2, <1>3, <1>4, <1>5 DEF IInv

(* The Move puts out and its goal is watched: what is known of the goal    *)
(* starts again with a measurement that is not there.                      *)
LEMMA ApproachGoalKeepsIInv ==
  ASSUME IInv, ApproachGoal
  PROVE  IInv'
<1> DEFINE m == tick.session
           goal == GoalOf(m)
           now == last_tick_time
           mark == [since |-> now, sample |-> feedback.received_at]
<1> USE DEF Working, Calls
<1>1. Outputs /\ m \in Move /\ IsWatched(m)
  BY DEF Outputs, ApproachGoal, IInv, TypeOK
<1>2. PICK pose \in Poses(m) :
        /\ Observe(goal, feedback, pose, now).observation = "RUNNING"
        /\ goals' = With(goals, m, Observe(goal, feedback, pose, now).goal)
        /\ evidence' = EvidenceAfter(m, pose)
  BY DEF ApproachGoal
<1> DEFINE within == WithinTolerance(goal, feedback, pose)
           since == StableSince(goal, within, now)
           next == [goal EXCEPT !.stable_since = since]
<1>3. /\ tick.phase \in {"shaped", "retried"} /\ m \in DOMAIN run /\ DOMAIN run = {m}
      /\ m \in DOMAIN live /\ live[m] \in Time
  <2>1. tick.phase \in {"shaped", "retried"} /\ m \in DOMAIN run
    BY <1>1, AcceptedOutputs DEF Outputs
  <2>2. DOMAIN run = {m}
    BY <2>1 DEF IInv, SessionsOK
  <2>3. m \in DOMAIN live /\ live[m] \in Time
    BY <2>1 DEF IInv, TypeOK
  <2>4. QED
    BY <2>1, <2>2, <2>3
<1>4. now \in Time /\ feedback.received_at \in Int /\ feedback.received_at <= now
  BY <1>3 DEF IInv, TimesOK, TypeOK
<1>5. /\ goal \in GoalRecord
      /\ IsCartesian(m) => m \in arrived
      /\ m \notin DOMAIN evidence => goal.stable_since = NotStable
      /\ m \in DOMAIN evidence => goal.stable_since = evidence[m].since
  <2>1. CASE m \in DOMAIN goals
    <3>1. goal = goals[m]
      BY <2>1 DEF GoalOf
    <3>2. QED
      BY <2>1, <3>1 DEF IInv, Records, GoalsOK
  <2>2. CASE m \notin DOMAIN goals
    <3>1. tick.path_reached /\ tick.candidate \in Candidate
      BY <1>1, <2>2 DEF IsWatched, IInv, GoalsOK
    <3>2. goal = [q |-> tick.candidate, started_at |-> live[m], stable_since |-> NotStable]
      BY <2>2 DEF GoalOf, BeginGoal
    <3>3. tick.candidate \in [Joint -> Int]
      BY <3>1, SessionAssumption
    <3>4. goal \in GoalRecord /\ goal.stable_since = NotStable
      BY <1>3, <3>2, <3>3 DEF GoalRecord
    <3>5. IsCartesian(m) => m \in arrived
      BY <1>3, <3>1 DEF IInv, GoalsOK
    <3>6. QED
      BY <2>2, <3>4, <3>5 DEF IInv, Records
  <2>3. QED
    BY <2>1, <2>2
<1> HIDE DEF goal, now
<1>6. /\ since \in Time \cup {NotStable}
      /\ goals' = With(goals, m, next)
  BY <1>2, <1>4, <1>5, ObserveFacts
<1>7. next \in GoalRecord /\ next.stable_since = since
  BY <1>5, <1>6 DEF GoalRecord
<1>8. evidence' = IF ~within THEN Without(evidence, {m})
                  ELSE IF m \in DOMAIN evidence THEN evidence ELSE With(evidence, m, mark)
  BY <1>2 DEF EvidenceAfter, goal, now
<1>9. since = IF ~within THEN NotStable
              ELSE IF goal.stable_since = NotStable THEN now ELSE goal.stable_since
  BY DEF StableSince
<1> HIDE DEF within, since, next
<1>10. DOMAIN goals' = {m} /\ goals'[m] = next
  BY <1>3, <1>6 DEF With, IInv, SessionsOK
<1>11. goals' \in [DOMAIN goals' -> GoalRecord]
  BY <1>6, <1>7, WithKeepsType DEF IInv, Records
<1>12. NotStable \notin Time
  BY DEF NotStable, Time
<1>13. DOMAIN evidence \subseteq {m}
  BY <1>3 DEF IInv, Records, SessionsOK
<1>14. /\ DOMAIN evidence' \subseteq {m}
       /\ evidence' \in [DOMAIN evidence' -> [since : Time, sample : Int]]
       /\ since = NotStable => m \notin DOMAIN evidence'
       /\ since # NotStable => m \in DOMAIN evidence' /\ evidence'[m].since = since
       /\ m \in DOMAIN evidence' => evidence'[m].sample <= evidence'[m].since
  <2>1. /\ evidence \in [DOMAIN evidence -> [since : Time, sample : Int]]
        /\ m \in DOMAIN evidence => evidence[m].since \in Time
        /\ m \in DOMAIN evidence => evidence[m].sample <= evidence[m].since
    BY DEF IInv, Records, GoalsOK
  <2>2. CASE ~within
    <3>1. evidence' = Without(evidence, {m}) /\ since = NotStable
      BY <1>8, <1>9, <2>2
    <3>2. DOMAIN evidence' = {}
      BY <1>13, <3>1 DEF Without, Restrict
    <3>3. evidence' \in [DOMAIN evidence' -> [since : Time, sample : Int]]
      BY <2>1, <3>1, WithoutKeepsType
    <3>4. QED
      BY <3>1, <3>2, <3>3
  <2>3. CASE within /\ m \in DOMAIN evidence
    <3>1. evidence' = evidence
      BY <1>8, <2>3
    <3>2. goal.stable_since = evidence[m].since /\ since = evidence[m].since
      BY <1>5, <1>9, <1>12, <2>1, <2>3
    <3>3. QED
      BY <1>12, <1>13, <2>1, <2>3, <3>1, <3>2
  <2>4. CASE within /\ m \notin DOMAIN evidence
    <3>1. evidence' = With(evidence, m, mark) /\ since = now
      BY <1>5, <1>8, <1>9, <2>4
    <3>2. mark \in [since : Time, sample : Int] /\ mark.since = now
      BY <1>4 DEF now
    <3>3. mark.sample <= mark.since
      BY <1>4 DEF now
    <3> HIDE DEF mark
    <3>4. DOMAIN evidence' = {m} /\ evidence'[m] = mark
      BY <1>13, <3>1 DEF With
    <3>5. evidence' \in [DOMAIN evidence' -> [since : Time, sample : Int]]
      BY <2>1, <3>1, <3>2, WithKeepsType
    <3>6. QED
      BY <1>4, <1>12, <3>1, <3>2, <3>3, <3>4, <3>5
  <2>5. QED
    BY <2>2, <2>3, <2>4
<1>15. /\ DOMAIN run' = DOMAIN run /\ tick' \in TickRecord
       /\ run' \in [DOMAIN run' -> [last : Target, recovering : BOOLEAN]]
       /\ tick'.phase = "done" /\ tick'.session = m /\ ~tick'.path_reached
       /\ DOMAIN trail' \subseteq DOMAIN run'
       /\ BackendOK' /\ SmootherOK' /\ OutputsOK' /\ TimesOK'
  BY <1>1, OutputsKeepSessions
<1>16. /\ UNCHANGED <<clock, feedback, live, last_tick_time, arrived, rtc>>
       /\ retry_after' \in [Servo -> Nat]
  BY <1>1 DEF Outputs, backend
<1>17. TypeOK'
  BY <1>1, <1>3, <1>10, <1>15, <1>16 DEF IInv, TypeOK
<1>18. Records'
  BY <1>10, <1>11, <1>14, <1>15, <1>16 DEF IInv, Records
<1>19. SessionsOK'
  BY <1>3, <1>10, <1>15, <1>16 DEF IInv, SessionsOK
<1>20. GoalsOK'
  BY <1>5, <1>7, <1>10, <1>14, <1>15, <1>16 DEF GoalsOK
<1>21. QED
  BY <1>15, <1>17, <1>18, <1>19, <1>20 DEF IInv

(* The tail of a cycle.                                                    *)
LEMMA FinishTickKeepsIInv ==
  ASSUME IInv, FinishTick
  PROVE  IInv'
<1> USE DEF Working, Calls
<1>1. PICK S \in {{tick.session}, {}} : EndSessions(S)
  BY DEF FinishTick
<1>2. /\ RunsEnd(S) /\ live' = Without(live, S)
      /\ tick.phase = "done"
      /\ UNCHANGED <<clock, feedback, retry_after, last_tick_time, rtc>>
  BY <1>1, EndedRuns DEF FinishTick, EndSessions
<1>3. tick' \in TickRecord /\ tick'.phase = "idle" /\ ~tick'.path_reached
  BY DEF FinishTick, Idle, TickRecord
<1>4. DOMAIN live' = DOMAIN live \ S
  BY <1>2 DEF Without, Restrict
<1>5. live' \in [DOMAIN live' -> Time]
  BY <1>2, WithoutKeepsType DEF IInv, TypeOK
<1> USE DEF RunsEnd
<1>6. TypeOK'
  BY <1>2, <1>3, <1>4, <1>5 DEF IInv, TypeOK
<1>7. Records'
  BY <1>2, <1>3 DEF IInv, Records
<1>8. SessionsOK'
  BY <1>2, <1>3, <1>4 DEF IInv, SessionsOK
<1>9. BackendOK'
  BY <1>2, <1>3 DEF IInv, BackendOK, InBackend
<1>10. SmootherOK'
  BY <1>2, <1>3 DEF IInv, SmootherOK
<1>11. OutputsOK'
  BY <1>2, <1>3 DEF IInv, Records, OutputsOK
<1>12. TimesOK'
  BY <1>2, <1>3 DEF IInv, TimesOK
<1>13. GoalsOK'
  BY <1>2, <1>3 DEF IInv, Records, GoalsOK
<1>14. QED
  BY <1>6, <1>7, <1>8, <1>9, <1>10, <1>11, <1>12, <1>13 DEF IInv

(* The head of a cycle.  A Move that has a goal, and does not end with the *)
(* gap, is the only one that can win, and so its run goes on.              *)
LEMMA BeginTickKeepsIInv ==
  ASSUME IInv, BeginTick
  PROVE  IInv'
<1> DEFINE expired == {s \in DOMAIN live \cap Servo : clock - live[s] >= Lease}
           unexpired == DOMAIN live \ expired
           gap == last_tick_time # Never /\ clock - last_tick_time > MaxPeriod
           ended == expired \cup EndedByGap(gap)
           GoesOn(winners) == IF gap THEN {} ELSE (DOMAIN run \cap winners) \ ended
           Selects(w) == tick' = [Idle EXCEPT !.phase = "select", !.session = w,
                                              !.deadline = Deadline(w)]
<1> USE DEF Working, Calls
<1>1. /\ tick.phase = "idle" /\ last_tick_time' = clock
      /\ UNCHANGED <<clock, feedback, retry_after, rtc>>
  BY DEF BeginTick
<1>2. PICK winners :
        /\ live' = Without(live, ended)
        /\ goals' = Without(goals, ended)
        /\ evidence' = Without(evidence, ended)
        /\ arrived' = arrived \cap GoesOn(winners)
        /\ run' = Restrict(run, GoesOn(winners))
        /\ trail' = Restrict(trail, DOMAIN trail \cap GoesOn(winners))
        /\ StopSessions(StoppedWith(ended) \cup (DOMAIN run \ GoesOn(winners)))
        /\ \/ /\ winners = {} /\ unexpired \cap Move = {} /\ tick' = Idle
           \/ \E w \in unexpired :
                /\ winners = {w}
                /\ unexpired \cap Move # {} => w \in Move
                /\ tick' = Idle \/ (w \notin ended /\ Selects(w))
  BY DEF BeginTick
<1> DEFINE goes_on == GoesOn(winners)
<1>3. goes_on \subseteq DOMAIN run \cap winners /\ goes_on \cap ended = {}
  OBVIOUS
<1>4. /\ tick' \in TickRecord /\ ~tick'.path_reached
      /\ \/ tick'.phase = "idle"
         \/ /\ tick'.phase = "select" /\ tick'.session \in DOMAIN live \ ended
            /\ winners = {tick'.session}
            /\ tick'.deadline <= feedback.received_at + FeedbackMaxAge
  <2>1. CASE tick' = Idle
    BY <2>1 DEF Idle, TickRecord
  <2>2. CASE \E w \in unexpired : winners = {w} /\ w \notin ended /\ Selects(w)
    <3>1. PICK w \in unexpired : winners = {w} /\ w \notin ended /\ Selects(w)
      BY <2>2
    <3>2. w \in DOMAIN live /\ w \in Session
      BY <3>1 DEF IInv, TypeOK
    <3>3. Deadline(w) \in Int /\ Deadline(w) <= feedback.received_at + FeedbackMaxAge
      BY <3>2, DeadlineInBounds DEF IInv
    <3>4. /\ tick' \in TickRecord /\ ~tick'.path_reached /\ tick'.phase = "select"
          /\ tick'.session = w /\ tick'.deadline = Deadline(w)
      BY <3>1, <3>2, <3>3 DEF Idle, TickRecord
    <3>5. QED
      BY <3>1, <3>2, <3>3, <3>4
  <2>3. QED
    BY <1>2, <2>1, <2>2
<1>5. DOMAIN goals \ ended \subseteq goes_on
  <2>1. SUFFICES ASSUME NEW m \in DOMAIN goals \ ended
                 PROVE  m \in goes_on
    OBVIOUS
  <2>2. m \in DOMAIN run /\ m \in DOMAIN live /\ m \in Move
    BY DEF IInv, SessionsOK, TypeOK
  <2>3. ~gap
    BY <2>2 DEF EndedByGap
  <2>4. m \in unexpired \cap Move
    BY <2>2
  <2>5. winners = {m}
    BY <1>2, <2>2, <2>4 DEF IInv, SessionsOK
  <2>6. QED
    BY <2>2, <2>3, <2>5
<1> HIDE DEF expired, unexpired, gap, ended, goes_on
<1>6. /\ live' = Without(live, ended) /\ goals' = Without(goals, ended)
      /\ evidence' = Without(evidence, ended) /\ arrived' = arrived \cap goes_on
      /\ run' = Restrict(run, goes_on)
      /\ trail' = Restrict(trail, DOMAIN trail \cap goes_on)
      /\ StopSessions(ended \cup (DOMAIN run \ goes_on))
  BY <1>2 DEF goes_on, StoppedWith
<1>7. DOMAIN live' = DOMAIN live \ ended /\ live' \in [DOMAIN live' -> Time]
  <2>1. DOMAIN live' = DOMAIN live \ ended
    BY <1>6 DEF Without, Restrict
  <2>2. QED
    BY <1>6, <2>1, WithoutKeepsType DEF IInv, TypeOK
<1>8. DOMAIN run' = goes_on /\ \A s \in DOMAIN run' : run'[s] = run[s]
  BY <1>3, <1>6 DEF Restrict
<1>9. run' \in [DOMAIN run' -> [last : Target, recovering : BOOLEAN]]
  BY <1>3, <1>6, RestrictKeepsType DEF IInv, TypeOK
<1>10. /\ DOMAIN goals' = DOMAIN goals \ ended
       /\ \A m \in DOMAIN goals' : goals'[m] = goals[m]
  BY <1>6 DEF Without, Restrict
<1>11. goals' \in [DOMAIN goals' -> GoalRecord]
  BY <1>6, WithoutKeepsType DEF IInv, Records
<1>12. /\ DOMAIN evidence' = DOMAIN evidence \ ended
       /\ \A m \in DOMAIN evidence' : evidence'[m] = evidence[m]
  BY <1>6 DEF Without, Restrict
<1>13. evidence' \in [DOMAIN evidence' -> [since : Time, sample : Int]]
  BY <1>6, WithoutKeepsType DEF IInv, Records
<1>14. /\ DOMAIN trail' = DOMAIN trail \cap goes_on
       /\ \A s \in DOMAIN trail' : trail'[s] = trail[s]
  BY <1>6 DEF Restrict
<1>15. DOMAIN sdk_sessions' = goes_on
  <2>1. DOMAIN sdk_sessions = DOMAIN run
    BY <1>1 DEF IInv, BackendOK, InBackend
  <2>2. DOMAIN sdk_sessions' = DOMAIN sdk_sessions \ (ended \cup (DOMAIN run \ goes_on))
    BY <1>6 DEF StopSessions, Restrict
  <2>3. QED
    BY <1>3, <2>1, <2>2
<1>16. sdk_tasks' = {s \in DOMAIN sdk_sessions' : HasTask(s)}
  <2>1. /\ sdk_tasks = {s \in DOMAIN sdk_sessions : HasTask(s)}
        /\ DOMAIN sdk_sessions = DOMAIN run
    BY <1>1 DEF IInv, BackendOK, InBackend
  <2>2. sdk_tasks' = sdk_tasks \ ((ended \cup (DOMAIN run \ goes_on)) \cap DOMAIN sdk_sessions)
    BY <1>6 DEF StopSessions
  <2>3. QED
    BY <1>3, <1>15, <2>1, <2>2
<1>17. TypeOK'
  BY <1>1, <1>3, <1>4, <1>5, <1>7, <1>8, <1>9, <1>10 DEF IInv, TypeOK, SessionsOK
<1>18. Records'
  BY <1>4, <1>6, <1>8, <1>10, <1>11, <1>12, <1>13, <1>14 DEF IInv, Records
<1>19. SessionsOK'
  <2>1. winners = {} \/ \E w : winners = {w}
    BY <1>2
  <2>2. \A s, t \in DOMAIN run' : s = t
    BY <1>3, <1>8, <2>1
  <2>3. QED
    BY <1>3, <1>4, <1>5, <1>7, <1>8, <1>10, <2>2 DEF IInv, SessionsOK
<1>20. BackendOK'
  BY <1>4, <1>8, <1>15, <1>16 DEF BackendOK, InBackend
<1>21. SmootherOK'
  BY <1>1, <1>3, <1>4, <1>8 DEF IInv, SmootherOK
<1>22. OutputsOK'
  BY <1>4, <1>8, <1>14 DEF IInv, Records, OutputsOK
<1>23. TimesOK'
  <2>1. clock \in Time /\ clock <= clock
    BY DEF IInv, TypeOK, Time
  <2>2. QED
    BY <1>1, <1>4, <2>1 DEF IInv, TimesOK
<1>24. GoalsOK'
  BY <1>4, <1>5, <1>6, <1>10, <1>12 DEF IInv, Records, GoalsOK
<1>25. QED
  BY <1>17, <1>18, <1>19, <1>20, <1>21, <1>22, <1>23, <1>24 DEF IInv

-----------------------------------------------------------------------------
(* The invariant. *)

LEMMA InitEstablishesIInv == Init => IInv
<1> SUFFICES ASSUME Init
             PROVE  IInv
  OBVIOUS
<1>1. PICK r \in Reading : feedback = [q |-> r.q, v |-> r.v, received_at |-> -FeedbackMaxAge]
  BY SessionAssumption DEF Init
<1>2. r.q \in [Joint -> Int] /\ r.v \in [Joint -> Int] /\ -FeedbackMaxAge \in Int
      /\ -FeedbackMaxAge <= 0
  BY SessionAssumption DEF Target
<1>3. /\ clock = 0 /\ last_tick_time = Never /\ arrived = {}
      /\ DOMAIN live = {} /\ DOMAIN run = {} /\ DOMAIN goals = {}
      /\ DOMAIN trail = {} /\ DOMAIN evidence = {} /\ DOMAIN sdk_sessions = {}
      /\ live = <<>> /\ run = <<>> /\ goals = <<>> /\ evidence = <<>>
      /\ sdk_tasks = {} /\ rtc = Unknown
  BY DEF Init, BackendInit
<1>4. tick \in TickRecord /\ tick.phase = "idle" /\ ~tick.path_reached
  BY DEF Init, Idle, TickRecord
<1>5. TypeOK
  <2>1. 0 \in Time /\ retry_after \in [Servo -> Nat]
    BY SessionAssumption DEF Time, Init
  <2>2. /\ live \in [DOMAIN live -> Time]
        /\ run \in [DOMAIN run -> [last : Target, recovering : BOOLEAN]]
    BY <1>3
  <2>3. QED
    BY <1>1, <1>2, <1>3, <1>4, <2>1, <2>2 DEF TypeOK
<1>6. Records
  BY <1>3, <1>4 DEF Records
<1>7. SessionsOK /\ BackendOK /\ SmootherOK
  BY <1>3, <1>4 DEF SessionsOK, BackendOK, InBackend, SmootherOK, Working, Calls
<1>8. OutputsOK /\ GoalsOK
  BY <1>3, <1>4 DEF OutputsOK, GoalsOK
<1>9. TimesOK
  BY <1>1, <1>2, <1>3, <1>4 DEF TimesOK, Working, Calls, Never
<1>10. QED
  BY <1>5, <1>6, <1>7, <1>8, <1>9 DEF IInv

LEMMA StopSetsSmoother ==
  ASSUME Stop
  PROVE  rtc' \in Target \cup {Unknown} /\ (Done(TRUE) \/ Done(FALSE))
  BY SessionAssumption DEF Stop, UpdateFinal

LEMMA EndingSteps ==
  ASSUME IInv, Abandon \/ TimeOutMove \/ FailBackend \/ ReachGoal \/ MissGoal
  PROVE  Ending
<1> USE DEF Working, Calls
<1>1. rtc \in Target \cup {Unknown} /\ retry_after \in [Servo -> Nat]
  BY DEF IInv, TypeOK
<1>2. CASE Abandon
  BY <1>1, <1>2 DEF Abandon, Ending
<1>3. CASE TimeOutMove
  BY <1>1, <1>3, StopSetsSmoother DEF TimeOutMove, Selected, Ending
<1>4. CASE FailBackend
  <2>1. clock + RetryInterval \in Nat
    BY SessionAssumption DEF IInv, TypeOK, Time
  <2>2. retry_after' \in [Servo -> Nat]
    BY <1>1, <1>4, <2>1 DEF FailBackend
  <2>3. QED
    BY <1>4, <2>2, StopSetsSmoother DEF FailBackend, Returned, Ending
<1>5. CASE ReachGoal
  BY <1>1, <1>5, AcceptedOutputs DEF ReachGoal, Ending
<1>6. CASE MissGoal
  BY <1>1, <1>6, AcceptedOutputs, StopSetsSmoother DEF MissGoal, Ending
<1>7. QED
  BY <1>2, <1>3, <1>4, <1>5, <1>6

LEMMA NextKeepsIInv == IInv /\ [Next]_vars => IInv'
<1> SUFFICES ASSUME IInv, [Next]_vars
             PROVE  IInv'
  OBVIOUS
<1>1. ASSUME NEW m \in Move, SubmitMove(m)
      PROVE  IInv'
  <2>1. Admitting(DOMAIN live \cap Move) /\ m \in Session
    BY <1>1 DEF SubmitMove, Admitting, Move
  <2>2. QED
    BY <2>1, AdmittingKeepsIInv
<1>2. ASSUME NEW s \in Servo, NEW preempts \in BOOLEAN, UpdateServo(s, preempts)
      PROVE  IInv'
  <2>1. s \in Session /\ s \notin Move
    BY DEF Servo, Move
  <2>2. Admitting(IF preempts THEN DOMAIN live \cap Move ELSE {})
    BY <1>2, <2>1 DEF UpdateServo, Admitting
  <2>3. QED
    BY <2>2, AdmittingKeepsIInv
<1>3. ASSUME NEW s \in DOMAIN live, Cancel(s)
      PROVE  IInv'
  <2>1. Admitting({s})
    BY <1>3 DEF Cancel, EndSessions, Admitting
  <2>2. QED
    BY <2>1, AdmittingKeepsIInv
<1>4. CASE WaitForRetry \/ AdvanceClock \/ (\E r \in Reading : Measure(r))
  BY <1>4, WaitingKeepsIInv
<1>5. CASE BeginTick
  BY <1>5, BeginTickKeepsIInv
<1>6. CASE Abandon \/ TimeOutMove \/ FailBackend \/ ReachGoal \/ MissGoal
  BY <1>6, EndingSteps, EndingKeepsIInv
<1>7. CASE Start \/ Reset \/ Shape
  BY <1>7, CallsKeepIInv
<1>8. CASE Run
  BY <1>8, RunKeepsIInv
<1>9. CASE Propose
  BY <1>9, ProposeKeepsIInv
<1>10. CASE Retry
  BY <1>10, RetryKeepsIInv
<1>11. CASE DriveServo
  <2>1. retry_after' \in [Servo -> Nat]
    BY <1>11 DEF DriveServo, IInv, TypeOK
  <2>2. Outputs /\ UNCHANGED <<goals, evidence>>
    BY <1>11, <2>1 DEF DriveServo, Outputs
  <2>3. QED
    BY <2>2, OutputsKeepIInv
<1>12. CASE DriveMove
  <2>1. Outputs /\ UNCHANGED <<goals, evidence>>
    BY <1>12 DEF DriveMove, Outputs, IInv, TypeOK
  <2>2. QED
    BY <2>1, OutputsKeepIInv
<1>13. CASE ApproachGoal
  BY <1>13, ApproachGoalKeepsIInv
<1>14. CASE FinishTick
  BY <1>14, FinishTickKeepsIInv
<1>15. CASE UNCHANGED vars
  BY <1>15 DEF vars, history, backend, IInv, TypeOK, Records, SessionsOK, BackendOK,
               InBackend, SmootherOK, OutputsOK, Last, TimesOK, GoalsOK
<1>16. QED
  BY <1>1, <1>2, <1>3, <1>4, <1>5, <1>6, <1>7, <1>8, <1>9, <1>10, <1>11, <1>12, <1>13,
     <1>14, <1>15 DEF Next, Others, Cycle

LEMMA InvariantHolds == Spec => []IInv
<1>1. QED
  BY InitEstablishesIInv, NextKeepsIInv, PTL DEF Spec
-----------------------------------------------------------------------------
(* The variables of a group's sessions keep their types.                   *)
THEOREM TypeCorrect == Spec => []TypeOK
<1>1. IInv => TypeOK
  BY DEF IInv
<1>2. QED
  BY <1>1, InvariantHolds, PTL

(* Whatever the SDK refuses, fails or answers too late, it runs a task     *)
(* between cycles for exactly the sessions that have been started, and for *)
(* one at most.                                                            *)
THEOREM NoTaskIsLeftBehind == Spec => []TasksEndWithSessions
<1>1. IInv => TasksEndWithSessions
  <2>1. SUFFICES ASSUME IInv, tick.phase = "idle"
                 PROVE  /\ DOMAIN sdk_sessions = DOMAIN run
                        /\ sdk_tasks = {s \in DOMAIN run : HasTask(s)}
                        /\ Cardinality(DOMAIN run) <= 1
    BY DEF TasksEndWithSessions
  <2>2. DOMAIN sdk_sessions = DOMAIN run /\ sdk_tasks = {s \in DOMAIN run : HasTask(s)}
    BY <2>1 DEF IInv, BackendOK, InBackend
  <2>3. ASSUME NEW s \in DOMAIN run
        PROVE  DOMAIN run = {s}
    BY <2>1 DEF IInv, SessionsOK
  <2>4. Cardinality(DOMAIN run) \in {0, 1}
    <3>1. CASE DOMAIN run = {}
      BY <3>1, FS_EmptySet
    <3>2. ASSUME NEW s \in DOMAIN run
          PROVE  Cardinality(DOMAIN run) = 1
      BY <2>3, FS_Singleton
    <3>3. QED
      BY <3>1, <3>2
  <2>5. QED
    BY <2>2, <2>4
<1>2. QED
  BY <1>1, InvariantHolds, PTL

(* The smoother that the sessions of a group share is, between cycles,     *)
(* where the started session has put it.                                   *)
THEOREM SmootherGoesOn == Spec => []SmootherContinuesOutput
<1>1. IInv => SmootherContinuesOutput
  BY DEF IInv, SmootherOK, SmootherContinuesOutput
<1>2. QED
  BY <1>1, InvariantHolds, PTL

(* Where an output is appended, it is one that has been accepted or a hold *)
(* within the limits.                                                      *)
LEMMA AppendingSteps ==
  ASSUME IInv, Next, ~tick.appended, tick'.appended
  PROVE  \/ Accepted /\ rtc' = rtc
         \/ WithinLimits(rtc'.q)
<1>1. tick \in TickRecord
  BY DEF IInv, Records
<1>2. CASE DriveServo \/ DriveMove \/ ApproachGoal \/ ReachGoal
  BY <1>2 DEF DriveServo, DriveMove, ApproachGoal, ReachGoal, backend
<1>3. CASE TimeOutMove \/ FailBackend \/ MissGoal
  <2>1. Stop
    BY <1>3 DEF TimeOutMove, FailBackend, MissGoal
  <2>2. CASE UpdateFinal(Unknown) /\ Done(FALSE)
    BY <1>1, <2>2 DEF Done, Idle
  <2>3. CASE \E out \in Shaped : WithinLimits(out.q) /\ UpdateFinal(out) /\ Done(TRUE)
    BY <2>3 DEF UpdateFinal
  <2>4. QED
    BY <2>1, <2>2, <2>3 DEF Stop
<1>4. CASE Abandon \/ WaitForRetry
  BY <1>1, <1>4 DEF Abandon, WaitForRetry, Done, Idle
<1>5. CASE BeginTick
  <2>1. tick' = Idle \/ \E w : tick' = [Idle EXCEPT !.phase = "select", !.session = w,
                                                   !.deadline = Deadline(w)]
    BY <1>5 DEF BeginTick
  <2>2. tick'.appended = FALSE
    <3>1. CASE tick' = Idle
      BY <3>1 DEF Idle
    <3>2. ASSUME NEW w, tick' = [Idle EXCEPT !.phase = "select", !.session = w,
                                             !.deadline = Deadline(w)]
          PROVE  tick'.appended = FALSE
      BY <3>2 DEF Idle
    <3>3. QED
      BY <2>1, <3>1, <3>2
  <2>3. QED
    BY <2>2
<1>6. CASE Start \/ Reset \/ Run \/ Propose \/ Shape \/ Retry
  BY <1>1, <1>6 DEF Start, Reset, Run, Propose, Shape, Retry, Called, TickRecord
<1>7. CASE FinishTick
  BY <1>7 DEF FinishTick, Idle
<1>8. CASE Others \/ AdvanceClock
  BY <1>8 DEF Others, SubmitMove, UpdateServo, Cancel, Measure, AdvanceClock
<1>9. QED
  BY <1>2, <1>3, <1>4, <1>5, <1>6, <1>7, <1>8 DEF Next, Cycle

(* No output of a session is further outside a limit than its joint is     *)
(* measured, nor than the session's output before, the one retry from the  *)
(* seed included.                                                          *)
THEOREM OutputsGoInward == Spec => OutputsMoveInward
<1> DEFINE Inward ==
      ~tick.appended /\ tick'.appended =>
        \A j \in Joint :
          LET q == rtc'.q[j] IN
          /\ q < Lower[j] => feedback.q[j] <= q
          /\ q > Upper[j] => feedback.q[j] >= q
          /\ tick.session \in DOMAIN trail =>
               /\ q < Lower[j] => trail[tick.session][j] <= q
               /\ q > Upper[j] => trail[tick.session][j] >= q
<1>1. IInv /\ [Next]_vars => [Inward]_vars
  <2>1. SUFFICES ASSUME IInv, Next, ~tick.appended, tick'.appended,
                        NEW j \in Joint
                 PROVE  LET q == rtc'.q[j] IN
                        /\ q < Lower[j] => feedback.q[j] <= q
                        /\ q > Upper[j] => feedback.q[j] >= q
                        /\ tick.session \in DOMAIN trail =>
                             /\ q < Lower[j] => trail[tick.session][j] <= q
                             /\ q > Upper[j] => trail[tick.session][j] >= q
    OBVIOUS
  <2>2. CASE WithinLimits(rtc'.q)
    <3>1. ~(rtc'.q[j] < Lower[j]) /\ ~(rtc'.q[j] > Upper[j])
      BY <2>2 DEF WithinLimits, Outside, Below, Above
    <3>2. QED
      BY <3>1
  <2>3. CASE Accepted /\ rtc' = rtc
    <3>1. GoesInward(rtc.q, Last.q, feedback.q)
      BY <2>1, <2>3, AcceptedOutputs
    <3>2. tick.session \in DOMAIN trail => trail[tick.session] = Last.q
      BY <2>1 DEF IInv, OutputsOK, Last
    <3>3. QED
      BY <2>3, <3>1, <3>2 DEF GoesInward
  <2>4. QED
    BY <2>1, <2>2, <2>3, AppendingSteps
<1>2. QED
  BY <1>1, InvariantHolds, PTL DEF Spec, OutputsMoveInward

(* A Move that succeeds has come to the end of its path and, if it must    *)
(* stand there for a while, been measured at its goal ever since it was    *)
(* first found there, by more than one sample.                             *)
THEOREM SuccessNeedsEvidence == Spec => SuccessIsEarned
<1> DEFINE m == tick.session
           Earned ==
             ReachGoal =>
               /\ IsCartesian(m) => m \in arrived
               /\ StableDuration > 0 =>
                    /\ m \in DOMAIN evidence
                    /\ last_tick_time - evidence[m].since >= StableDuration
                    /\ StableDuration >= FeedbackMaxAge =>
                         feedback.received_at > evidence[m].sample
<1>1. IInv /\ [Next]_vars => [Earned]_vars
  <2>1. SUFFICES ASSUME IInv, ReachGoal
                 PROVE  /\ IsCartesian(m) => m \in arrived
                        /\ StableDuration > 0 =>
                             /\ m \in DOMAIN evidence
                             /\ last_tick_time - evidence[m].since >= StableDuration
                             /\ StableDuration >= FeedbackMaxAge =>
                                  feedback.received_at > evidence[m].sample
    OBVIOUS
  <2>2. /\ tick.phase \in {"shaped", "retried"} /\ m \in DOMAIN live /\ live[m] \in Time
        /\ IsWatched(m)
    BY <2>1, AcceptedOutputs DEF ReachGoal, IInv, TypeOK
  <2>3. /\ last_tick_time \in Time /\ feedback.received_at <= last_tick_time
        /\ last_tick_time < feedback.received_at + FeedbackMaxAge
        /\ feedback.received_at \in Int
    BY <2>1, <2>2 DEF IInv, TimesOK, TypeOK, Working, Calls
  <2>4. IsCartesian(m) => m \in arrived
    BY <2>1, <2>2 DEF IsWatched, IInv, GoalsOK, Working, Calls
  <2> DEFINE goal == GoalOf(m)
  <2>5. goal \in GoalRecord
    <3>1. CASE m \in DOMAIN goals
      BY <2>1, <3>1 DEF GoalOf, IInv, Records
    <3>2. CASE m \notin DOMAIN goals
      <4>1. tick.candidate \in [Joint -> Int]
        BY <2>1, <2>2, <3>2, SessionAssumption DEF IsWatched, IInv, GoalsOK
      <4>2. QED
        BY <2>2, <3>2, <4>1 DEF GoalOf, BeginGoal, GoalRecord
    <3>3. QED
      BY <3>1, <3>2
  <2>6. PICK pose \in Poses(m) :
          Observe(goal, feedback, pose, last_tick_time).observation = "REACHED"
    BY <2>1 DEF ReachGoal
  <2> DEFINE within == WithinTolerance(goal, feedback, pose)
             since == StableSince(goal, within, last_tick_time)
  <2> HIDE DEF goal
  <2>7. within /\ last_tick_time - since >= StableDuration
    BY <2>3, <2>5, <2>6, ObserveFacts
  <2>8. ASSUME StableDuration > 0
        PROVE  /\ m \in DOMAIN evidence
               /\ last_tick_time - evidence[m].since >= StableDuration
    <3>1. goal.stable_since # NotStable
      <4>1. SUFFICES ASSUME goal.stable_since = NotStable
                     PROVE  FALSE
        OBVIOUS
      <4>2. since = last_tick_time
        BY <2>7, <4>1 DEF StableSince
      <4>3. last_tick_time - since = 0
        BY <2>3, <4>2 DEF Time
      <4> HIDE DEF since
      <4>4. QED
        BY <2>7, <2>8, <4>3, MonitorAssumption
    <3>2. since = goal.stable_since
      BY <2>7, <3>1 DEF StableSince
    <3>3. m \in DOMAIN goals /\ goal = goals[m]
      BY <3>1 DEF goal, GoalOf, BeginGoal
    <3>4. m \in DOMAIN evidence /\ evidence[m].since = goal.stable_since
      BY <2>1, <3>1, <3>3 DEF IInv, GoalsOK
    <3>5. QED
      BY <2>7, <3>2, <3>4
  <2>9. ASSUME StableDuration > 0, StableDuration >= FeedbackMaxAge
        PROVE  feedback.received_at > evidence[m].sample
    <3>1. /\ evidence[m].sample <= evidence[m].since
          /\ evidence[m].sample \in Int /\ evidence[m].since \in Int
      BY <2>1, <2>8, <2>9 DEF IInv, GoalsOK, Records, Time
    <3>2. /\ last_tick_time \in Int /\ StableDuration \in Int /\ FeedbackMaxAge \in Int
      BY <2>3, MonitorAssumption, SessionAssumption DEF Time
    <3>3. last_tick_time - evidence[m].since >= StableDuration
      BY <2>8, <2>9
    <3>4. QED
      BY <2>3, <2>9, <3>1, <3>2, <3>3
  <2>10. QED
    BY <2>4, <2>8, <2>9
<1>2. QED
  BY <1>1, InvariantHolds, PTL DEF Spec, SuccessIsEarned
=============================================================================
