--------------------------- MODULE LimitRecovery ---------------------------
(***************************************************************************)
(* The limit checks of CommandPipeline (src/motion/command_pipeline.cpp):  *)
(* which smoothed outputs may be published when a joint is measured        *)
(* outside its limits, and when the smoother is set to the measurement to  *)
(* try once more.                                                          *)
(*                                                                         *)
(* Positions are integers and a velocity is a sign.  A target, an output   *)
(* or a measurement m has m.q[j] and m.v[j] for each joint j; the machine  *)
(* roundoff that the code allows at a limit, accelerations (kept or set to *)
(* zero, never compared) and the shapes of the vectors are left out.       *)
(***************************************************************************)
EXTENDS Integers

CONSTANTS
  Joint,           \* the joints of the group
  Lower, Upper,    \* Lower[j], Upper[j]: the model limits
  RecoveryMargin,  \* feedback_limit_recovery_margin_rad
  MaxStep          \* feedback_rebase_tolerance_rad and one period's motion

ASSUME LimitAssumption ==
  /\ Lower \in [Joint -> Int] /\ Upper \in [Joint -> Int]
  /\ \A j \in Joint : Lower[j] <= Upper[j]
  /\ RecoveryMargin \in Nat /\ MaxStep \in Nat

Target == [q : [Joint -> Int], v : [Joint -> Int]]

Below(q, j) == q[j] < Lower[j]
Above(q, j) == q[j] > Upper[j]
Outside(q) == {j \in Joint : Below(q, j) \/ Above(q, j)}

\* validateFeedback, the part about positions.
Recoverable(q) ==
  \A j \in Joint : /\ q[j] >= Lower[j] - RecoveryMargin
                   /\ q[j] <= Upper[j] + RecoveryMargin

\* Fault: the output need not follow the one before.
MovesInward_FromMeasured(output, previous, measured, j) ==
  \/ /\ Below(output.q, j) /\ Below(measured.q, j)
     /\ output.q[j] >= measured.q[j] /\ output.v[j] >= 0
  \/ /\ Above(output.q, j) /\ Above(measured.q, j)
     /\ output.q[j] <= measured.q[j] /\ output.v[j] <= 0

\* The exception of validateFinalCommand: the joint and the output before were
\* outside the same limit, and this output goes back towards it.
MovesInward(output, previous, measured, j) ==
  \/ /\ Below(output.q, j) /\ Below(previous.q, j) /\ Below(measured.q, j)
     /\ output.q[j] >= previous.q[j] /\ output.q[j] >= measured.q[j]
     /\ output.v[j] >= 0
  \/ /\ Above(output.q, j) /\ Above(previous.q, j) /\ Above(measured.q, j)
     /\ output.q[j] <= previous.q[j] /\ output.q[j] <= measured.q[j]
     /\ output.v[j] <= 0

\* validateFinalCommand without previous positions: strict, for candidates and
\* holds.
WithinLimits(q) == Outside(q) = {}

\* validateFinalCommand of an output of the final smoother.
ValidOutput(output, previous, measured) ==
  \A j \in Outside(output.q) : MovesInward(output, previous, measured, j)

\* limitRecoverySeed, joint by joint: the output goes back from where the one
\* before was, but the joint itself is further back already.
Returns(output, previous, j) ==
  \/ /\ Below(output.q, j) /\ Below(previous.q, j)
     /\ output.q[j] >= previous.q[j] /\ output.v[j] >= 0
  \/ /\ Above(output.q, j) /\ Above(previous.q, j)
     /\ output.q[j] <= previous.q[j] /\ output.v[j] <= 0

IsAhead(measured, output, j) ==
  IF Below(output.q, j) THEN measured.q[j] > output.q[j]
                        ELSE measured.q[j] < output.q[j]

Ahead(output, measured) ==
  {j \in Outside(output.q) : IsAhead(measured, output, j)}

MaySynchronize(output, previous, measured, j) ==
  /\ measured.q[j] - previous.q[j] <= MaxStep
  /\ previous.q[j] - measured.q[j] <= MaxStep
  /\ measured.q[j] >= Lower[j] - RecoveryMargin
  /\ measured.q[j] <= Upper[j] + RecoveryMargin
  /\ ~(Below(output.q, j) /\ Above(measured.q, j))
  /\ ~(Above(output.q, j) /\ Below(measured.q, j))

HasSeed(output, previous, measured) ==
  /\ \A j \in Outside(output.q) : Returns(output, previous, j)
  /\ Ahead(output, measured) # {}
  /\ \A j \in Ahead(output, measured) : MaySynchronize(output, previous, measured, j)

\* Only the joints that are ahead are set to the measurement.
Seed(output, previous, measured) ==
  LET Merge(old, new) ==
        [j \in Joint |-> IF j \in Ahead(output, measured) THEN new[j] ELSE old[j]]
  IN  [q |-> Merge(previous.q, measured.q), v |-> Merge(previous.v, measured.v)]
=============================================================================
