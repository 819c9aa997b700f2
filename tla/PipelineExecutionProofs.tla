----------------------- MODULE PipelineExecutionProofs -----------------------
(***************************************************************************)
(* Theorems of PipelineExecution, for every set of runs, processes and     *)
(* faults and every plan length and attempt ceiling: the types first, then *)
(* the inductive invariant and the safety properties it implies.  The      *)
(* invariant is a conjunction over runs: NextByRun says how one step of    *)
(* the system looks from one run, and one lemma per action then shows that *)
(* it keeps that run's conjunct.                                           *)
(***************************************************************************)
EXTENDS PipelineExecution, WellFoundedInduction, FiniteSetTheorems, TLAPS

-----------------------------------------------------------------------------
(* Arithmetic *)

\* Every nonempty set of naturals has a least element.
LEMMA LeastNatural ==
    ASSUME NEW T, T \subseteq Nat, T # {}
    PROVE  \E m \in T : \A k \in T : m <= k
<1>1. \A x, y \in Nat : y < x => <<y, x>> \in OpToRel(<, Nat)
  BY DEF OpToRel
<1>2. PICK R : /\ IsWellFoundedOn(R, Nat)
               /\ \A x, y \in Nat : y < x => <<y, x>> \in R
  BY <1>1, NatLessThanWellFounded, Zenon
<1>3. PICK m \in T : \A k \in T : ~ (<<k, m>> \in R)
  BY <1>2, WFMin
<1>4. ASSUME NEW k \in T PROVE m <= k
  <2>1. m \in Nat /\ k \in Nat
    OBVIOUS
  <2>2. ~ (k < m)
    BY <1>2, <1>3, <2>1, Zenon
  <2>3. QED
    BY <2>1, <2>2
<1>5. QED
  BY <1>4

\* A plan that is not finished has a first pending step, and FirstPending
\* finds it.
LEMMA FirstPendingIsFirst ==
    ASSUME NEW r \in Runs, ~AllSucceeded(r)
    PROVE  /\ FirstPending(r) \in Steps
           /\ step[r][FirstPending(r)].status # "succeeded"
           /\ \A j \in 1..(FirstPending(r)-1) : step[r][j].status = "succeeded"
<1> DEFINE T == {i \in Steps : step[r][i].status # "succeeded"}
<1>1. T \subseteq Nat /\ T # {}
  BY NumStepsAssumption DEF Steps, AllSucceeded
<1>2. PICK m \in T : \A k \in T : m <= k
  BY <1>1, LeastNatural
<1>3. \A j \in 1..(m-1) : j \in Steps /\ j \notin T
  BY <1>1, <1>2, NumStepsAssumption DEF Steps
<1>4. \A j \in 1..(m-1) : step[r][j].status = "succeeded"
  BY <1>3
<1>5. QED
  BY <1>2, <1>4 DEF FirstPending

-----------------------------------------------------------------------------
(* Type correctness *)

LEMMA TypeInit == Init => TypeOK
BY NumStepsAssumption
   DEF Init, TypeOK, InitialRow, RunRow, StepRow, Execution, Idle, Pass, NoPass, RunStatuses,
       StepStatuses, ProcStates, ExecPhases, Outcomes, Steps

\* The row operators keep a row a row.
LEMMA RowTypes ==
    ASSUME NEW row \in RunRow
    PROVE  /\ \A w \in Workers : ToRunning(row, w) \in RunRow
           /\ ToQueued(row) \in RunRow
           /\ ToCancelling(row) \in RunRow
           /\ \A t \in RunStatuses : ToTerminal(row, t) \in RunRow
           /\ \A p \in 0..NumSteps : [row EXCEPT !.progress = p] \in RunRow
           /\ \A h \in {"fresh", "stale"} : [row EXCEPT !.heartbeat = h] \in RunRow
           /\ [row EXCEPT !.due = TRUE] \in RunRow
           /\ [row EXCEPT !.status = "queued"] \in RunRow
<1>1. ASSUME NEW w \in Workers PROVE ToRunning(row, w) \in RunRow
  <2>1. row.attempt + 1 \in Nat
    BY DEF RunRow
  <2>2. \A n \in Nat : [row EXCEPT !.status = "running", !.attempt = n, !.worker = w,
                                    !.heartbeat = "fresh", !.due = TRUE] \in RunRow
    BY DEF RunRow, RunStatuses
  <2>3. QED
    BY <2>1, <2>2, Zenon DEF ToRunning
<1>2. ToQueued(row) \in RunRow /\ ToCancelling(row) \in RunRow
  BY DEF RunRow, RunStatuses, ToQueued, ToCancelling
<1>3. ASSUME NEW t \in RunStatuses PROVE ToTerminal(row, t) \in RunRow
  BY DEF RunRow, ToTerminal
<1>4. ASSUME NEW p \in 0..NumSteps PROVE [row EXCEPT !.progress = p] \in RunRow
  BY DEF RunRow
<1>5. ASSUME NEW h \in {"fresh", "stale"} PROVE [row EXCEPT !.heartbeat = h] \in RunRow
  BY DEF RunRow
<1>6. [row EXCEPT !.due = TRUE] \in RunRow
  BY DEF RunRow
<1>7. [row EXCEPT !.status = "queued"] \in RunRow
  BY DEF RunRow, RunStatuses
<1>8. QED
  BY <1>1, <1>2, <1>3, <1>4, <1>5, <1>6, <1>7

LEMMA StepRowTypes ==
    ASSUME NEW s \in StepRow
    PROVE  /\ \A t \in StepStatuses : [s EXCEPT !.status = t] \in StepRow
           /\ [status |-> "running", attempt |-> s.attempt + 1] \in StepRow
BY DEF StepRow, StepStatuses

\* An execution that ends, raises or moves on is still an execution.
LEMMA ExecutionTypes ==
    ASSUME NEW e \in Execution
    PROVE  /\ Idle \in Execution
           /\ [Idle EXCEPT !.pc = "raised"] \in Execution
           /\ \A w \in Workers :
                 [Idle EXCEPT !.pc = "prepare", !.worker = w] \in Execution
           /\ \A i \in Steps : [e EXCEPT !.pc = "checkpoint", !.at = i] \in Execution
           /\ \A n \in Nat : [e EXCEPT !.pc = "execute", !.stepAttempt = n] \in Execution
           /\ \A o \in Outcomes : /\ [e EXCEPT !.pc = "persist", !.outcome = o] \in Execution
                                  /\ [e EXCEPT !.outcome = o] \in Execution
           /\ \A i \in Steps : [e EXCEPT !.pc = "checkpoint", !.at = i, !.stepAttempt = 0,
                                         !.outcome = "none"] \in Execution
<1>1. 1 \in Steps
  BY NumStepsAssumption DEF Steps
<1>2. /\ Idle \in Execution
      /\ [Idle EXCEPT !.pc = "raised"] \in Execution
  BY <1>1 DEF Idle, Execution, ExecPhases, Outcomes
<1>3. ASSUME NEW w \in Workers
      PROVE  [Idle EXCEPT !.pc = "prepare", !.worker = w] \in Execution
  BY <1>1 DEF Idle, Execution, ExecPhases, Outcomes
<1>4. ASSUME NEW i \in Steps PROVE [e EXCEPT !.pc = "checkpoint", !.at = i] \in Execution
  BY DEF Execution, ExecPhases
<1>5. ASSUME NEW n \in Nat PROVE [e EXCEPT !.pc = "execute", !.stepAttempt = n] \in Execution
  BY DEF Execution, ExecPhases
<1>6. ASSUME NEW o \in Outcomes
      PROVE  /\ [e EXCEPT !.pc = "persist", !.outcome = o] \in Execution
             /\ [e EXCEPT !.outcome = o] \in Execution
  BY DEF Execution, ExecPhases
<1>7. ASSUME NEW i \in Steps
      PROVE  [e EXCEPT !.pc = "checkpoint", !.at = i, !.stepAttempt = 0,
                       !.outcome = "none"] \in Execution
  BY DEF Execution, ExecPhases, Outcomes
<1>8. QED
  BY <1>2, <1>3, <1>4, <1>5, <1>6, <1>7

\* Writing one row or one execution keeps the whole table typed.
LEMMA TableTypes ==
    ASSUME TypeOK, NEW r \in Runs
    PROVE  /\ \A row \in RunRow : [run EXCEPT ![r] = row] \in [Runs -> RunRow]
           /\ \A f \in [Steps -> StepRow] :
                 [step EXCEPT ![r] = f] \in [Runs -> [Steps -> StepRow]]
           /\ \A a \in Attempts, e \in Execution :
                 [exec EXCEPT ![r][a] = e] \in [Runs -> [Attempts -> Execution]]
BY DEF TypeOK

LEMMA MoveTypes ==
    ASSUME TypeOK, NEW r \in Runs, NEW from, NEW to \in StepStatuses
    PROVE  MoveSteps(r, from, to) \in [Steps -> StepRow]
<1>1. \A i \in Steps : step[r][i] \in StepRow
  BY DEF TypeOK
<1>2. QED BY <1>1 DEF MoveSteps, StepRow

\* A process that reads the candidates of its recovery pass, passes one over or
\* begins again.
Surveys(w) == Ask(w) \/ PassFails(w) \/ \E r \in Runs : PassOver(w, r)

LEMMA PassTypes ==
    ASSUME TypeOK, NEW w \in Workers
    PROVE  /\ \A p \in Pass : [pass EXCEPT ![w] = p] \in [Workers -> Pass]
           /\ NoPass \in Pass
<1>1. \A p \in Pass : [pass EXCEPT ![w] = p] \in [Workers -> Pass]
  BY DEF TypeOK
<1>2. NoPass \in Pass
  BY DEF NoPass, Pass
<1>3. QED BY <1>1, <1>2

LEMMA SurveyTypes ==
    ASSUME TypeOK, NEW w \in Workers, Surveys(w)
    PROVE  pass' \in [Workers -> Pass]
<1>1. CASE PassFails(w)
  BY <1>1, PassTypes DEF PassFails
<1>2. CASE Ask(w)
  <2>1. PICK S \in SUBSET Runs :
           pass' = [pass EXCEPT ![w] = [asked |-> TRUE, todo |-> S, recovered |-> FALSE,
                                        over |-> StaleRuns \ S]]
    BY <1>2 DEF Ask
  <2>2. [asked |-> TRUE, todo |-> S, recovered |-> FALSE, over |-> StaleRuns \ S] \in Pass
    BY DEF Pass, StaleRuns
  <2>3. QED BY <2>1, <2>2, PassTypes
<1>3. ASSUME NEW r \in Runs, PassOver(w, r) PROVE pass' \in [Workers -> Pass]
  <2> DEFINE p == [pass[w] EXCEPT !.todo = @ \ {r}, !.over = @ \cup ({r} \cap StaleRuns)]
  <2>1. p \in Pass
    BY DEF TypeOK, Pass, StaleRuns
  <2>2. pass' = [pass EXCEPT ![w] = p]
    BY <1>3 DEF PassOver, TypeOK, Pass
  <2>3. QED BY <2>1, <2>2, PassTypes
<1>4. QED BY <1>1, <1>2, <1>3 DEF Surveys

LEMMA RecoversTypes ==
    ASSUME TypeOK, NEW w \in Workers, NEW r \in Runs, Recovers(w, r)
    PROVE  pass' \in [Workers -> Pass]
<1> DEFINE p == [pass[w] EXCEPT !.todo = @ \ {r}, !.recovered = TRUE]
<1>1. p \in Pass
  BY DEF TypeOK, Pass
<1>2. pass' = [pass EXCEPT ![w] = p]
  BY DEF Recovers, TypeOK, Pass
<1>3. QED BY <1>1, <1>2, PassTypes

LEMMA TypeNext == TypeOK /\ [Next]_vars => TypeOK'
<1> SUFFICES ASSUME TypeOK, [Next]_vars PROVE TypeOK'
  OBVIOUS
<1> USE NumStepsAssumption DEF TypeOK
<1>e. \A r \in Runs, a \in Attempts : exec[r][a] \in Execution
  OBVIOUS
<1>r. \A r \in Runs : run[r] \in RunRow
  OBVIOUS
<1>s. \A r \in Runs, i \in Steps : step[r][i] \in StepRow
  OBVIOUS
<1>1. ASSUME NEW r \in Runs, Submit(r) PROVE TypeOK'
  <2>1. [run[r] EXCEPT !.status = "queued"] \in RunRow
    BY <1>r, RowTypes
  <2>2. [i \in Steps |-> [status |-> "queued", attempt |-> 0]] \in [Steps -> StepRow]
    BY DEF StepRow, StepStatuses
  <2>3. QED
    BY <1>1, <2>1, <2>2 DEF Submit
<1>2. ASSUME NEW r \in Runs, CancelQueued(r) PROVE TypeOK'
  BY <1>2, RowTypes, MoveTypes DEF CancelQueued, RunStatuses, StepStatuses
<1>3. ASSUME NEW r \in Runs, CancelRunning(r) PROVE TypeOK'
  BY <1>3, RowTypes DEF CancelRunning
<1>4. ASSUME NEW w \in Workers, Boot(w) PROVE TypeOK'
  BY <1>4 DEF Boot, ProcStates
<1>5. ASSUME NEW w \in Workers, NEW r \in Runs, RecoverRunning(w, r) PROVE TypeOK'
  <2>1. step' \in [Runs -> [Steps -> StepRow]]
    <3>1. \A h \in BOOLEAN : ReleasedSteps(r, h) \in [Steps -> StepRow]
      BY MoveTypes DEF ReleasedSteps, StepStatuses
    <3>2. \E h \in BOOLEAN : step' = [step EXCEPT ![r] = ReleasedSteps(r, h)]
      BY <1>5 DEF RecoverRunning
    <3>3. QED
      BY <3>1, <3>2, TableTypes
  <2>2. run' \in [Runs -> RunRow]
    <3>1. \/ run' = [run EXCEPT ![r] = ToTerminal(@, "failed")]
          \/ run' = [run EXCEPT ![r] = ToQueued(@)]
      BY <1>5 DEF RecoverRunning
    <3>2. ToTerminal(run[r], "failed") \in RunRow /\ ToQueued(run[r]) \in RunRow
      BY <1>r, RowTypes DEF RunStatuses
    <3>3. QED
      BY <3>1, <3>2, TableTypes
  <2>3. pass' \in [Workers -> Pass]
    BY <1>5, RecoversTypes DEF RecoverRunning
  <2>4. QED
    BY <1>5, <2>1, <2>2, <2>3 DEF RecoverRunning
<1>6. ASSUME NEW w \in Workers, NEW r \in Runs, RecoverCancelling(w, r) PROVE TypeOK'
  <2>1. step' \in [Runs -> [Steps -> StepRow]]
    <3>1. [i \in Steps |-> IF step[r][i].status \in {"queued", "running"}
                           THEN [step[r][i] EXCEPT !.status = "cancelled"]
                           ELSE step[r][i]] \in [Steps -> StepRow]
      BY StepRowTypes DEF StepStatuses
    <3>2. ReleasedSteps(r, TRUE) \in [Steps -> StepRow]
      BY MoveTypes DEF ReleasedSteps, StepStatuses
    <3>3. PICK f \in [Steps -> StepRow] : step' = [step EXCEPT ![r] = f]
      BY <1>6, <3>1, <3>2 DEF RecoverCancelling
    <3>4. QED
      BY <3>3, TableTypes
  <2>2. run' \in [Runs -> RunRow]
    <3> DEFINE c == ToTerminal(run[r], "cancelled")
    <3>1. ToTerminal(run[r], "failed") \in RunRow /\ c \in RunRow
      BY <1>r, RowTypes DEF RunStatuses
    <3>2. run[r].progress \in 0..NumSteps /\ NumSteps \in 0..NumSteps
      BY DEF RunRow
    <3>3. \/ run' = [run EXCEPT ![r] = ToTerminal(run[r], "failed")]
          \/ run' = [run EXCEPT ![r] = [c EXCEPT !.progress = NumSteps]]
          \/ run' = [run EXCEPT ![r] = [c EXCEPT !.progress = run[r].progress]]
      <4> DEFINE done == /\ StepsIn(r, "running") = {}
                         /\ \A i \in Steps : step'[r][i].status \in {"succeeded", "cancelled"}
      <4>1. CASE done
        BY <1>6, <4>1 DEF RecoverCancelling
      <4>2. CASE ~done
        BY <1>6, <4>2 DEF RecoverCancelling
      <4>3. QED
        BY <4>1, <4>2
    <3>4. /\ [c EXCEPT !.progress = NumSteps] \in RunRow
          /\ [c EXCEPT !.progress = run[r].progress] \in RunRow
      BY <3>1, <3>2, RowTypes
    <3>5. QED
      BY <3>1, <3>3, <3>4, TableTypes
  <2>3. pass' \in [Workers -> Pass]
    BY <1>6, RecoversTypes DEF RecoverCancelling
  <2>4. QED
    BY <1>6, <2>1, <2>2, <2>3 DEF RecoverCancelling
<1>7. ASSUME NEW w \in Workers, StartPolling(w) PROVE TypeOK'
  BY <1>7, PassTypes DEF StartPolling, ProcStates
<1>8. ASSUME NEW w \in Workers, NEW r \in Runs, Claim(w, r) PROVE TypeOK'
  <2>1. run' \in [Runs -> RunRow]
    BY <1>8, RowTypes DEF Claim
  <2>2. exec' \in [Runs -> [Attempts -> Execution]]
    BY <1>8, ExecutionTypes DEF Claim
  <2>3. proc' \in [Workers -> ProcStates]
    BY <1>8 DEF Claim, ProcStates
  <2>4. QED
    BY <1>8, <2>1, <2>2, <2>3 DEF Claim
<1>9. ASSUME NEW w \in Workers, Stop(w) PROVE TypeOK'
  BY <1>9 DEF Stop, ProcStates
<1>10. ASSUME NEW w \in Workers, PollEnds(w) PROVE TypeOK'
  BY <1>10 DEF PollEnds, ProcStates
<1>11. ASSUME NEW w \in Workers, Exit(w) PROVE TypeOK'
  <2>1. run' \in [Runs -> RunRow]
    <3>1. \A s \in Runs : [run[s] EXCEPT !.heartbeat = "fresh"] \in RunRow
      BY <1>r, RowTypes
    <3>2. QED
      BY <1>11, <3>1 DEF Exit, Beat
  <2>2. exec' \in [Runs -> [Attempts -> Execution]]
    BY <1>11, ExecutionTypes DEF Exit, Vanish
  <2>3. QED
    BY <1>11, <2>1, <2>2 DEF Exit, ProcStates
<1>12. ASSUME NEW w \in Workers, Crash(w) PROVE TypeOK'
  <2>1. exec' \in [Runs -> [Attempts -> Execution]]
    BY <1>12, ExecutionTypes DEF Crash, Vanish
  <2>2. pass' \in [Workers -> Pass]
    BY <1>12, PassTypes DEF Crash
  <2>3. QED
    BY <1>12, <2>1, <2>2 DEF Crash, ProcStates
<1>13. ASSUME NEW r \in Runs, NEW a \in Attempts, Heartbeat(r, a) PROVE TypeOK'
  <2>1. [run[r] EXCEPT !.heartbeat = "fresh"] \in RunRow
    BY <1>r, RowTypes
  <2>2. QED
    BY <1>13, <2>1 DEF Heartbeat, Beat
<1>14. ASSUME NEW r \in Runs, HeartbeatAges(r) PROVE TypeOK'
  <2>1. [run[r] EXCEPT !.heartbeat = "stale"] \in RunRow
    BY <1>r, RowTypes
  <2>2. QED
    BY <1>14, <2>1 DEF HeartbeatAges
<1>15. ASSUME NEW r \in Runs, BackoffElapses(r) PROVE TypeOK'
  <2>1. [run[r] EXCEPT !.due = TRUE] \in RunRow
    BY <1>r, RowTypes
  <2>2. QED
    BY <1>15, <2>1 DEF BackoffElapses
<1>16. ASSUME NEW r \in Runs, NEW a \in Attempts, EngineAborts(r, a) PROVE TypeOK'
  BY <1>16, ExecutionTypes DEF EngineAborts, Ends
<1>17. ASSUME NEW r \in Runs, NEW a \in Attempts, Prepare(r, a) PROVE TypeOK'
  <2>1. step' \in [Runs -> [Steps -> StepRow]]
    <3>1. MoveSteps(r, "queued", "cancelled") \in [Steps -> StepRow]
      BY MoveTypes DEF StepStatuses
    <3>2. \/ step' = step
          \/ step' = [step EXCEPT ![r] = MoveSteps(r, "queued", "cancelled")]
      BY <1>17 DEF Prepare
    <3>3. CASE step' = step
      BY <3>3
    <3>4. CASE step' = [step EXCEPT ![r] = MoveSteps(r, "queued", "cancelled")]
      BY <3>1, <3>4, TableTypes
    <3>5. QED
      BY <3>2, <3>3, <3>4
  <2>2. run' \in [Runs -> RunRow]
    <3> DEFINE c == ToTerminal(run[r], "cancelled")
               s == ToTerminal(run[r], "succeeded")
    <3>1. ToTerminal(run[r], "failed") \in RunRow /\ c \in RunRow /\ s \in RunRow
      BY <1>r, RowTypes DEF RunStatuses
    <3>2. run[r].progress \in 0..NumSteps /\ NumSteps \in 0..NumSteps
      BY DEF RunRow
    <3>3. \/ run' = run
          \/ run' = [run EXCEPT ![r] = ToTerminal(run[r], "failed")]
          \/ run' = [run EXCEPT ![r] = [c EXCEPT !.progress = NumSteps]]
          \/ run' = [run EXCEPT ![r] = [c EXCEPT !.progress = run[r].progress]]
          \/ run' = [run EXCEPT ![r] = [s EXCEPT !.progress = NumSteps]]
      <4>1. CASE AllSucceeded(r)
        BY <1>17, <4>1 DEF Prepare, Fails
      <4>2. CASE ~AllSucceeded(r)
        BY <1>17, <4>2 DEF Prepare, Fails
      <4>3. QED
        BY <4>1, <4>2
    <3>4. /\ [c EXCEPT !.progress = NumSteps] \in RunRow
          /\ [c EXCEPT !.progress = run[r].progress] \in RunRow
          /\ [s EXCEPT !.progress = NumSteps] \in RunRow
      BY <3>1, <3>2, RowTypes
    <3>5. QED
      BY <3>1, <3>3, <3>4, TableTypes
  <2>3. exec' \in [Runs -> [Attempts -> Execution]]
    <3>1. ~AllSucceeded(r) =>
             [exec[r][a] EXCEPT !.pc = "checkpoint", !.at = FirstPending(r)] \in Execution
      BY <1>e, FirstPendingIsFirst, ExecutionTypes
    <3>2. \/ exec' = [exec EXCEPT ![r][a] = Idle]
          \/ exec' = [exec EXCEPT ![r][a] = [Idle EXCEPT !.pc = "raised"]]
          \/ /\ ~AllSucceeded(r)
             /\ exec' = [exec EXCEPT ![r][a] = [exec[r][a] EXCEPT !.pc = "checkpoint",
                                                !.at = FirstPending(r)]]
      BY <1>17 DEF Prepare, Ends, Raises
    <3>3. \E e \in Execution : exec' = [exec EXCEPT ![r][a] = e]
      BY <1>e, <3>1, <3>2, ExecutionTypes
    <3>4. QED
      BY <3>3, TableTypes
  <2>4. QED
    BY <1>17, <2>1, <2>2, <2>3 DEF Prepare
<1>18. ASSUME NEW r \in Runs, NEW a \in Attempts, Checkpoint(r, a) PROVE TypeOK'
  <2> DEFINE i == exec[r][a].at
  <2>1. i \in Steps
    BY DEF Execution
  <2>2. step' \in [Runs -> [Steps -> StepRow]]
    <3>1. MoveSteps(r, "queued", "cancelled") \in [Steps -> StepRow]
      BY MoveTypes DEF StepStatuses
    <3>2. [status |-> "running", attempt |-> step[r][i].attempt + 1] \in StepRow
      BY <2>1, StepRowTypes
    <3>3. \/ step' = step
          \/ step' = [step EXCEPT ![r] = MoveSteps(r, "queued", "cancelled")]
          \/ step' = [step EXCEPT ![r][i] =
                         [status |-> "running", attempt |-> step[r][i].attempt + 1]]
      BY <1>18 DEF Checkpoint
    <3>4. [step[r] EXCEPT ![i] = [status |-> "running", attempt |-> step[r][i].attempt + 1]]
             \in [Steps -> StepRow]
      BY <2>1, <3>2
    <3>5. CASE step' = step
      BY <3>5
    <3>6. CASE step' = [step EXCEPT ![r] = MoveSteps(r, "queued", "cancelled")]
      BY <3>1, <3>6, TableTypes
    <3>7. CASE step' = [step EXCEPT ![r][i] =
                         [status |-> "running", attempt |-> step[r][i].attempt + 1]]
      BY <3>4, <3>7, TableTypes
    <3>8. QED
      BY <3>3, <3>5, <3>6, <3>7
  <2>3. run' \in [Runs -> RunRow]
    <3>1. /\ ToTerminal(run[r], "failed") \in RunRow
          /\ ToTerminal(run[r], "cancelled") \in RunRow
      BY <1>r, RowTypes DEF RunStatuses
    <3>2. \/ run' = run
          \/ run' = [run EXCEPT ![r] = ToTerminal(run[r], "failed")]
          \/ run' = [run EXCEPT ![r] = ToTerminal(run[r], "cancelled")]
      BY <1>18 DEF Checkpoint, Fails
    <3>3. QED
      BY <3>1, <3>2, TableTypes
  <2>4. exec' \in [Runs -> [Attempts -> Execution]]
    <3>1. step[r][i].attempt + 1 \in Nat
      BY <2>1 DEF StepRow
    <3>2. \/ exec' = [exec EXCEPT ![r][a] = Idle]
          \/ exec' = [exec EXCEPT ![r][a] = [Idle EXCEPT !.pc = "raised"]]
          \/ exec' = [exec EXCEPT ![r][a] = [exec[r][a] EXCEPT !.pc = "execute",
                                             !.stepAttempt = step[r][i].attempt + 1]]
      <4>1. CASE Ends(r, a) \/ Raises(r, a)
        BY <4>1 DEF Ends, Raises
      <4>2. CASE exec' = [exec EXCEPT ![r][a].pc = "execute",
                                      ![r][a].stepAttempt = step[r][i].attempt + 1]
        BY <4>2
      <4>3. QED
        BY <1>18, <4>1, <4>2 DEF Checkpoint
    <3>3. \E e \in Execution : exec' = [exec EXCEPT ![r][a] = e]
      BY <1>e, <3>1, <3>2, ExecutionTypes
    <3>4. QED
      BY <3>3, TableTypes
  <2>5. QED
    BY <1>18, <2>2, <2>3, <2>4 DEF Checkpoint
<1>19. ASSUME NEW r \in Runs, NEW a \in Attempts, StepReturns(r, a) PROVE TypeOK'
  <2>1. PICK o \in Outcomes :
          exec' = [exec EXCEPT ![r][a].pc = "persist", ![r][a].outcome = o]
    BY <1>19 DEF StepReturns
  <2>2. [exec[r][a] EXCEPT !.pc = "persist", !.outcome = o] \in Execution
    BY <1>e, ExecutionTypes
  <2>3. exec' = [exec EXCEPT ![r][a] = [exec[r][a] EXCEPT !.pc = "persist", !.outcome = o]]
    BY <2>1
  <2>4. QED
    BY <1>19, <2>2, <2>3, TableTypes DEF StepReturns
<1>20. ASSUME NEW r \in Runs, NEW a \in Attempts, Discard(r, a) PROVE TypeOK'
  BY <1>20, ExecutionTypes DEF Discard, Ends
<1>21. ASSUME NEW r \in Runs, NEW a \in Attempts, CommitSuccess(r, a) PROVE TypeOK'
  <2> DEFINE i == exec[r][a].at
  <2>1. i \in Steps
    BY DEF Execution
  <2>2. step' \in [Runs -> [Steps -> StepRow]]
    <3>1. MoveSteps(r, "queued", "cancelled") \in [Steps -> StepRow]
      BY MoveTypes DEF StepStatuses
    <3>2. [step[r][i] EXCEPT !.status = "succeeded"] \in StepRow
      BY <1>s, <2>1, StepRowTypes DEF StepStatuses
    <3>3. [j \in Steps |->
                 IF j = i THEN [step[r][i] EXCEPT !.status = "succeeded"]
                 ELSE IF EndOf(r, i) = "cancelled"
                      THEN MoveSteps(r, "queued", "cancelled")[j]
                      ELSE step[r][j]] \in [Steps -> StepRow]
      BY <3>1, <3>2
    <3>4. QED
      BY <1>21, <3>3, TableTypes DEF CommitSuccess
  <2>3. run' \in [Runs -> RunRow]
    <3>1. [run[r] EXCEPT !.progress = SucceededCount(i)] \in RunRow
      <4>1. SucceededCount(i) \in 0..NumSteps
        BY <2>1 DEF SucceededCount, Steps
      <4>2. QED
        BY <1>r, <4>1, RowTypes
    <3>2. EndOf(r, i) # "running" =>
             ToTerminal([run[r] EXCEPT !.progress = SucceededCount(i)], EndOf(r, i)) \in RunRow
      BY <3>1, RowTypes DEF EndOf, RunStatuses
    <3>3. \E row \in RunRow : run' = [run EXCEPT ![r] = row]
      BY <1>21, <3>1, <3>2 DEF CommitSuccess
    <3>4. QED
      BY <3>3, TableTypes
  <2>4. exec' \in [Runs -> [Attempts -> Execution]]
    <3>1. EndOf(r, i) = "running" => i + 1 \in Steps
      BY <2>1 DEF EndOf, Steps
    <3>2. \A j \in Steps : [exec[r][a] EXCEPT !.pc = "checkpoint", !.at = j, !.stepAttempt = 0,
                                              !.outcome = "none"] \in Execution
      BY <1>e, ExecutionTypes
    <3>3. \E e \in Execution : exec' = [exec EXCEPT ![r][a] = e]
      <4>1. CASE EndOf(r, i) = "running"
        BY <1>21, <3>1, <3>2, <4>1 DEF CommitSuccess
      <4>2. CASE EndOf(r, i) # "running"
        <5>1. Idle \in Execution /\ exec' = [exec EXCEPT ![r][a] = Idle]
          BY <1>e, <1>21, <4>2, ExecutionTypes DEF CommitSuccess, Ends
        <5>2. QED
          BY <5>1
      <4>3. QED
        BY <4>1, <4>2
    <3>4. QED
      BY <3>3, TableTypes
  <2>5. effects' \in [Runs -> [Steps -> Nat]]
    BY <1>21, <2>1 DEF CommitSuccess
  <2>6. QED
    BY <1>21, <2>2, <2>3, <2>4, <2>5 DEF CommitSuccess
<1>22. ASSUME NEW r \in Runs, NEW a \in Attempts, PersistFails(r, a) PROVE TypeOK'
  <2>1. PICK o \in Outcomes : exec' = [exec EXCEPT ![r][a].outcome = o]
    BY <1>22 DEF PersistFails, Outcomes
  <2>2. [exec[r][a] EXCEPT !.outcome = o] \in Execution
    BY <1>e, ExecutionTypes
  <2>3. QED
    BY <1>22, <2>1, <2>2 DEF PersistFails
<1>23. ASSUME NEW r \in Runs, NEW a \in Attempts, CommitFailure(r, a) PROVE TypeOK'
  <2> DEFINE i == exec[r][a].at
  <2>1. i \in Steps
    BY DEF Execution
  <2>2. step' \in [Runs -> [Steps -> StepRow]]
    <3>1. MoveSteps(r, "queued", "cancelled") \in [Steps -> StepRow]
      BY MoveTypes DEF StepStatuses
    <3>2. \A f \in [Steps -> StepRow], t \in StepStatuses :
             [f EXCEPT ![i].status = t] \in [Steps -> StepRow]
      BY <2>1 DEF StepRow
    <3>3. \E f \in [Steps -> StepRow] : step' = [step EXCEPT ![r] = f]
      <4>1. CASE step' = [step EXCEPT ![r] =
                    [MoveSteps(r, "queued", "cancelled") EXCEPT ![i].status = "cancelled"]]
        BY <3>1, <3>2, <4>1 DEF StepStatuses
      <4>2. CASE step' = [step EXCEPT ![r][i].status = "queued"]
        BY <3>2, <4>2 DEF StepStatuses
      <4>3. CASE step' = [step EXCEPT ![r][i].status = "failed"]
        BY <3>2, <4>3 DEF StepStatuses
      <4>4. QED
        BY <1>23, <4>1, <4>2, <4>3 DEF CommitFailure
    <3>4. QED
      BY <3>3, TableTypes
  <2>3. run' \in [Runs -> RunRow]
    <3>1. \A t \in RunStatuses : ToTerminal(run[r], t) \in RunRow
      BY RowTypes
    <3>2. \E row \in RunRow : run' = [run EXCEPT ![r] = row]
      BY <1>23, <3>1, RowTypes DEF CommitFailure, Fails, RunStatuses
    <3>3. QED
      BY <3>2, TableTypes
  <2>4. exec' \in [Runs -> [Attempts -> Execution]]
    <3>1. Idle \in Execution /\ exec' = [exec EXCEPT ![r][a] = Idle]
      BY <1>e, <1>23, ExecutionTypes DEF CommitFailure, Ends
    <3>2. QED
      BY <3>1, TableTypes
  <2>5. QED
    BY <1>23, <2>2, <2>3, <2>4 DEF CommitFailure
<1>24. CASE UNCHANGED vars
  BY <1>24 DEF vars
<1>25. ASSUME NEW w \in Workers, Surveys(w) PROVE TypeOK'
  BY <1>25, SurveyTypes DEF Surveys, Ask, PassFails, PassOver
<1>26. QED
  BY <1>1, <1>2, <1>3, <1>4, <1>5, <1>6, <1>7, <1>8, <1>9, <1>10, <1>11, <1>12, <1>13,
     <1>14, <1>15, <1>16, <1>17, <1>18, <1>19, <1>20, <1>21, <1>22, <1>23, <1>24,
     <1>25 DEF Next, Recovery, Engine, Surveys

\* Every row, process and execution keeps the shape the code gives it.
THEOREM TypeCorrect == Spec => []TypeOK
BY TypeInit, TypeNext, PTL DEF Spec

-----------------------------------------------------------------------------
(* The inductive invariant *)

Started == {"running", "succeeded", "failed"}
Open == {"queued", "running", "cancelling"}

InOrder(r) ==
    \A j \in Steps : step[r][j].status \in Started =>
        \A i \in 1..(j-1) : step[r][i].status = "succeeded"

HeldWhileRunning(r) ==
    \A i \in Steps : step[r][i].status = "running" => Operational(r)

EffectsMatch(r) ==
    \A i \in Steps : effects[r][i] = IF step[r][i].status = "succeeded" THEN 1 ELSE 0

WithinCeiling(r) ==
    /\ run[r].attempt <= MaxAttempts
    /\ run[r].status = "queued" => run[r].attempt < MaxAttempts

\* A row that does not exist yet has no steps and no executions.
Untouched(r) ==
    run[r].status = "absent" =>
        /\ run[r].attempt = 0
        /\ \A i \in Steps : step[r][i].status = "absent"
        /\ \A a \in Attempts : exec[r][a].pc = "idle"

\* The step that succeeds last ends the run in the same transaction.
Unfinished(r) == run[r].status \in Open => ~AllSucceeded(r)

\* What an execution has behind it stays behind it, however long ago its
\* lease was lost.
PrefixDone(r) ==
    \A a \in Attempts : exec[r][a].pc \in {"checkpoint", "execute", "persist"} =>
        \A j \in 1..(exec[r][a].at - 1) : step[r][j].status = "succeeded"

\* Nothing runs under the attempt of an execution that has not prepared yet.
PreparesQuiet(r) ==
    \A a \in Attempts : exec[r][a].pc = "prepare" /\ run[r].attempt = a =>
        \A i \in Steps : step[r][i].status # "running"

\* Under an open run, progress only counts steps that have succeeded.
ProgressEarned(r) ==
    run[r].status \notin TerminalRunStatuses =>
        \A j \in 1..run[r].progress : step[r][j].status = "succeeded"

RunInv(r) ==
    /\ InOrder(r)
    /\ HeldWhileRunning(r)
    /\ EffectsMatch(r)
    /\ WithinCeiling(r)
    /\ Untouched(r)
    /\ Unfinished(r)
    /\ PrefixDone(r)
    /\ PreparesQuiet(r)
    /\ ProgressEarned(r)

ExecutionInv == TypeOK /\ \A r \in Runs : RunInv(r)

-----------------------------------------------------------------------------
(* One step of the system, seen from one run *)

\* Nothing of the run changes except its lease and its executions, which end
\* or return from their step.
Quiet(r) ==
    /\ run'[r].status = run[r].status
    /\ run'[r].attempt = run[r].attempt
    /\ run'[r].progress = run[r].progress
    /\ run[r].status \in TerminalRunStatuses => run'[r] = run[r]
    /\ step'[r] = step[r]
    /\ effects'[r] = effects[r]
    /\ \A a \in Attempts :
          \/ exec'[r][a].pc = "idle"
          \/ /\ exec'[r][a].pc = exec[r][a].pc
             /\ exec'[r][a].at = exec[r][a].at
          \/ /\ exec[r][a].pc = "execute" /\ exec'[r][a].pc = "persist"
             /\ exec'[r][a].at = exec[r][a].at

Moves(r) ==
    \/ Submit(r) \/ CancelQueued(r) \/ CancelRunning(r)
    \/ \E w \in Workers : RecoverRunning(w, r) \/ RecoverCancelling(w, r) \/ Claim(w, r)
    \/ \E a \in Attempts : \/ Prepare(r, a) \/ Checkpoint(r, a)
                           \/ CommitSuccess(r, a) \/ CommitFailure(r, a)

\* Another run's action leaves this one alone.
LEMMA OthersQuiet ==
    ASSUME TypeOK, NEW r \in Runs, NEW s \in Runs, r # s, Moves(s)
    PROVE  Quiet(r)
<1> USE DEF TypeOK, Quiet
<1>1. CASE Submit(s) \/ CancelQueued(s) \/ CancelRunning(s)
  BY <1>1 DEF Submit, CancelQueued, CancelRunning
<1>2. ASSUME NEW w \in Workers, RecoverRunning(w, s) \/ RecoverCancelling(w, s)
      PROVE  Quiet(r)
  BY <1>2 DEF RecoverRunning, RecoverCancelling
<1>3. ASSUME NEW w \in Workers, Claim(w, s) PROVE Quiet(r)
  BY <1>3 DEF Claim
<1>4. ASSUME NEW a \in Attempts, Prepare(s, a) PROVE Quiet(r)
  BY <1>4 DEF Prepare, Fails, Ends, Raises
<1>5. ASSUME NEW a \in Attempts, Checkpoint(s, a) PROVE Quiet(r)
  BY <1>5 DEF Checkpoint, Fails, Ends, Raises
<1>6. ASSUME NEW a \in Attempts, CommitSuccess(s, a) PROVE Quiet(r)
  BY <1>6 DEF CommitSuccess, Ends
<1>7. ASSUME NEW a \in Attempts, CommitFailure(s, a) PROVE Quiet(r)
  BY <1>7 DEF CommitFailure, Fails, Ends
<1>8. QED
  BY <1>1, <1>2, <1>3, <1>4, <1>5, <1>6, <1>7 DEF Moves

\* Processes, time and executions that end or return are quiet for every run.
LEMMA BackgroundQuiet ==
    ASSUME TypeOK, NEW r \in Runs,
           \/ UNCHANGED vars
           \/ \E w \in Workers : Boot(w) \/ StartPolling(w) \/ Stop(w) \/ PollEnds(w)
                                 \/ Exit(w) \/ Crash(w) \/ Surveys(w)
           \/ \E s \in Runs : HeartbeatAges(s) \/ BackoffElapses(s)
           \/ \E s \in Runs, a \in Attempts :
                 Heartbeat(s, a) \/ EngineAborts(s, a) \/ StepReturns(s, a)
                 \/ Discard(s, a) \/ PersistFails(s, a)
    PROVE  Quiet(r)
<1> USE DEF TypeOK, Quiet
<1>1. CASE UNCHANGED vars
  BY <1>1 DEF vars
<1>2. ASSUME NEW w \in Workers, Boot(w) \/ StartPolling(w) \/ Stop(w) \/ PollEnds(w)
      PROVE  Quiet(r)
  BY <1>2 DEF Boot, StartPolling, Stop, PollEnds
<1>3. ASSUME NEW w \in Workers, Exit(w) PROVE Quiet(r)
  <2>1. /\ run'[r].status = run[r].status
        /\ run'[r].attempt = run[r].attempt
        /\ run'[r].progress = run[r].progress
    BY <1>3 DEF Exit, Beat, RunRow
  <2>2. run[r].status \in TerminalRunStatuses => run'[r] = run[r]
    <3>1. run[r].status \in TerminalRunStatuses => ~Operational(r)
      BY DEF Operational, OperationalStatuses, TerminalRunStatuses
    <3>2. QED
      BY <1>3, <3>1 DEF Exit, Beat
  <2>3. QED
    BY <1>3, <2>1, <2>2 DEF Exit, Vanish, Idle
<1>4. ASSUME NEW w \in Workers, Crash(w) PROVE Quiet(r)
  BY <1>4 DEF Crash, Vanish, Idle
<1>5. ASSUME NEW s \in Runs, HeartbeatAges(s) \/ BackoffElapses(s) PROVE Quiet(r)
  <2>1. CASE HeartbeatAges(s)
    BY <2>1 DEF HeartbeatAges, RunRow, Operational, OperationalStatuses, TerminalRunStatuses
  <2>2. CASE BackoffElapses(s)
    BY <2>2 DEF BackoffElapses, RunRow, TerminalRunStatuses
  <2>3. QED
    BY <1>5, <2>1, <2>2
<1>6. ASSUME NEW s \in Runs, NEW a \in Attempts, Heartbeat(s, a) PROVE Quiet(r)
  BY <1>6 DEF Heartbeat, Beat, RunRow, Operational, OperationalStatuses, TerminalRunStatuses
<1>7. ASSUME NEW s \in Runs, NEW a \in Attempts, EngineAborts(s, a) \/ Discard(s, a)
      PROVE  Quiet(r)
  <2>1. /\ UNCHANGED <<run, step, effects>>
        /\ exec' = [exec EXCEPT ![s][a] = Idle]
    BY <1>7 DEF EngineAborts, Discard, Ends
  <2>2. QED
    BY <2>1 DEF Idle
<1>8. ASSUME NEW s \in Runs, NEW a \in Attempts, StepReturns(s, a) PROVE Quiet(r)
  BY <1>8 DEF StepReturns, At, Execution
<1>9. ASSUME NEW s \in Runs, NEW a \in Attempts, PersistFails(s, a) PROVE Quiet(r)
  BY <1>9 DEF PersistFails, Execution
<1>10. ASSUME NEW w \in Workers, Surveys(w) PROVE Quiet(r)
  BY <1>10 DEF Surveys, Ask, PassFails, PassOver
<1>11. QED
  BY <1>1, <1>2, <1>3, <1>4, <1>5, <1>6, <1>7, <1>8, <1>9, <1>10

LEMMA NextByRun ==
    ASSUME TypeOK, [Next]_vars, NEW r \in Runs
    PROVE  Quiet(r) \/ Moves(r)
<1>1. ASSUME NEW s \in Runs, Moves(s) PROVE Quiet(r) \/ Moves(r)
  BY <1>1, OthersQuiet
<1>2. \/ \E s \in Runs : Moves(s)
      \/ UNCHANGED vars
      \/ \E w \in Workers : Boot(w) \/ StartPolling(w) \/ Stop(w) \/ PollEnds(w)
                            \/ Exit(w) \/ Crash(w) \/ Surveys(w)
      \/ \E s \in Runs : HeartbeatAges(s) \/ BackoffElapses(s)
      \/ \E s \in Runs, a \in Attempts :
            Heartbeat(s, a) \/ EngineAborts(s, a) \/ StepReturns(s, a)
            \/ Discard(s, a) \/ PersistFails(s, a)
  BY Zenon DEF Next, Recovery, Engine, Moves, Surveys
<1>3. QED
  BY <1>1, <1>2, BackgroundQuiet

-----------------------------------------------------------------------------
(* The invariant holds initially and every action keeps it *)

LEMMA InitInv == Init => \A r \in Runs : RunInv(r)
<1> SUFFICES ASSUME Init, NEW r \in Runs PROVE RunInv(r)
  OBVIOUS
<1>1. /\ run[r] = InitialRow(r)
      /\ \A i \in Steps : step[r][i].status = "absent" /\ effects[r][i] = 0
      /\ \A a \in Attempts : exec[r][a].pc = "idle"
  BY DEF Init, Idle
<1>2. /\ run[r].status \in {"running", "absent"} /\ run[r].attempt \in {0, 1}
      /\ run[r].status = "absent" => run[r].attempt = 0
      /\ run[r].progress = 0
  BY <1>1 DEF InitialRow
<1>3. 1 \in Steps
  BY NumStepsAssumption DEF Steps
<1>4. QED
  BY <1>1, <1>2, <1>3, MaxAttemptsAssumption
     DEF RunInv, InOrder, HeldWhileRunning, EffectsMatch, WithinCeiling, Untouched, Unfinished,
         PrefixDone, PreparesQuiet, ProgressEarned, Started, Open, AllSucceeded

LEMMA QuietKeeps ==
    ASSUME TypeOK, NEW r \in Runs, RunInv(r), Quiet(r)
    PROVE  RunInv(r)'
<1> USE DEF Quiet, RunInv
<1>1. (InOrder(r) /\ EffectsMatch(r) /\ WithinCeiling(r) /\ ProgressEarned(r))'
  BY DEF InOrder, EffectsMatch, WithinCeiling, ProgressEarned
<1>2. (HeldWhileRunning(r) /\ Unfinished(r))'
  BY DEF HeldWhileRunning, Unfinished, Operational, AllSucceeded
<1>3. Untouched(r)'
  BY DEF Untouched
<1>4. PrefixDone(r)'
  BY DEF PrefixDone
<1>5. PreparesQuiet(r)'
  BY DEF PreparesQuiet
<1>6. QED
  BY <1>1, <1>2, <1>3, <1>4, <1>5

LEMMA SubmitKeeps ==
    ASSUME TypeOK, NEW r \in Runs, RunInv(r), Submit(r)
    PROVE  RunInv(r)'
<1> USE DEF TypeOK
<1>1. /\ run'[r].status = "queued" /\ run'[r].attempt = 0
      /\ run'[r].progress = run[r].progress
      /\ \A i \in Steps : step'[r][i].status = "queued" /\ effects'[r][i] = 0
      /\ \A a \in Attempts : exec'[r][a].pc = "idle"
  BY DEF Submit, RunInv, Untouched, EffectsMatch, RunRow
<1>2. 1 \in Steps
  BY NumStepsAssumption DEF Steps
<1>3. run[r].progress = 0
  <2>1. run[r].progress \in 0..NumSteps
    BY DEF RunRow
  <2>2. step[r][1].status = "absent"
    BY <1>2 DEF Submit, RunInv, Untouched
  <2>3. 1 \in 1..run[r].progress => step[r][1].status = "succeeded"
    BY DEF Submit, RunInv, ProgressEarned, TerminalRunStatuses
  <2>4. QED
    BY <2>1, <2>2, <2>3, NumStepsAssumption
<1>4. (InOrder(r) /\ HeldWhileRunning(r) /\ EffectsMatch(r) /\ PrefixDone(r) /\ PreparesQuiet(r))'
  BY <1>1 DEF InOrder, HeldWhileRunning, EffectsMatch, PrefixDone, PreparesQuiet, Started
<1>5. (WithinCeiling(r) /\ Untouched(r) /\ ProgressEarned(r))'
  BY <1>1, <1>3, MaxAttemptsAssumption DEF WithinCeiling, Untouched, ProgressEarned
<1>6. Unfinished(r)'
  BY <1>1, <1>2 DEF Unfinished, AllSucceeded
<1>7. QED
  BY <1>4, <1>5, <1>6 DEF RunInv

\* The shape of most actions: steps are released, failed or cancelled, none
\* is started or finished, and executions do not move on to another step.
Settles(r) ==
    /\ \A i \in Steps :
          /\ step'[r][i].status = "succeeded" <=> step[r][i].status = "succeeded"
          /\ step'[r][i].status \in Started => step[r][i].status \in Started
    /\ effects'[r] = effects[r]
    /\ \A a \in Attempts :
          \/ exec'[r][a].pc \in {"idle", "raised", "prepare"}
          \/ /\ exec'[r][a].pc = exec[r][a].pc
             /\ exec'[r][a].at = exec[r][a].at

LEMMA EarlierSteps ==
    \A i \in Steps : \A j \in 1..(i-1) : j \in Steps
BY NumStepsAssumption DEF Steps

LEMMA SettlesKeeps ==
    ASSUME TypeOK, NEW r \in Runs, RunInv(r), Settles(r)
    PROVE  (InOrder(r) /\ EffectsMatch(r) /\ PrefixDone(r))'
<1>1. InOrder(r)'
  BY EarlierSteps DEF RunInv, Settles, InOrder
<1>2. EffectsMatch(r)'
  BY DEF RunInv, Settles, EffectsMatch
<1>3. PrefixDone(r)'
  <2> SUFFICES ASSUME NEW a \in Attempts,
                      exec'[r][a].pc \in {"checkpoint", "execute", "persist"},
                      NEW j \in 1..(exec'[r][a].at - 1)
               PROVE  step'[r][j].status = "succeeded"
    BY DEF PrefixDone
  <2>1. exec'[r][a].pc = exec[r][a].pc /\ exec'[r][a].at = exec[r][a].at
    BY DEF Settles
  <2>2. exec[r][a].at \in Steps
    BY DEF TypeOK, Execution
  <2>3. j \in Steps /\ step[r][j].status = "succeeded"
    BY <2>1, <2>2, EarlierSteps DEF RunInv, PrefixDone
  <2>4. QED
    BY <2>3 DEF Settles
<1>4. QED
  BY <1>1, <1>2, <1>3

\* A run that ends without a running step left, in the attempt it was in.
LEMMA EndKeeps ==
    ASSUME TypeOK, NEW r \in Runs, RunInv(r), Settles(r),
           run'[r].status \in TerminalRunStatuses,
           run'[r].attempt = run[r].attempt,
           \A i \in Steps : step'[r][i].status # "running"
    PROVE  RunInv(r)'
<1>1. (InOrder(r) /\ EffectsMatch(r) /\ PrefixDone(r))'
  BY SettlesKeeps
<1>2. (HeldWhileRunning(r) /\ PreparesQuiet(r))'
  BY DEF HeldWhileRunning, PreparesQuiet
<1>3. (WithinCeiling(r) /\ Untouched(r) /\ Unfinished(r) /\ ProgressEarned(r))'
  BY DEF RunInv, WithinCeiling, Untouched, Unfinished, ProgressEarned, Open,
         TerminalRunStatuses
<1>4. QED
  BY <1>1, <1>2, <1>3 DEF RunInv

LEMMA CancelQueuedKeeps ==
    ASSUME TypeOK, NEW r \in Runs, RunInv(r), CancelQueued(r)
    PROVE  RunInv(r)'
<1> USE DEF TypeOK
<1>1. run'[r].status \in TerminalRunStatuses /\ run'[r].attempt = run[r].attempt
  BY DEF CancelQueued, ToTerminal, RunRow, TerminalRunStatuses
<1>2. \A i \in Steps : step'[r][i].status # "running"
  BY DEF CancelQueued, MoveSteps, StepsIn, StepRow
<1>3. Settles(r)
  BY DEF CancelQueued, Settles, MoveSteps, StepRow, Started
<1>4. QED
  BY <1>1, <1>2, <1>3, EndKeeps

LEMMA CancelRunningKeeps ==
    ASSUME TypeOK, NEW r \in Runs, RunInv(r), CancelRunning(r)
    PROVE  RunInv(r)'
<1>1. /\ run[r].status = "running" /\ run'[r].status = "cancelling"
      /\ run'[r].attempt = run[r].attempt /\ run'[r].progress = run[r].progress
      /\ step'[r] = step[r] /\ exec'[r] = exec[r] /\ effects'[r] = effects[r]
  BY DEF TypeOK, CancelRunning, ToCancelling, RunRow
<1>2. (InOrder(r) /\ EffectsMatch(r) /\ PrefixDone(r) /\ PreparesQuiet(r))'
  BY <1>1 DEF RunInv, InOrder, EffectsMatch, PrefixDone, PreparesQuiet
<1>3. (HeldWhileRunning(r) /\ Unfinished(r))'
  BY <1>1 DEF RunInv, HeldWhileRunning, Unfinished, Operational, OperationalStatuses, Open,
              AllSucceeded
<1>4. (WithinCeiling(r) /\ Untouched(r) /\ ProgressEarned(r))'
  BY <1>1 DEF RunInv, WithinCeiling, Untouched, ProgressEarned, TerminalRunStatuses
<1>5. QED
  BY <1>2, <1>3, <1>4 DEF RunInv

\* A run given back to the queue with its running step released.
LEMMA RequeueKeeps ==
    ASSUME TypeOK, NEW r \in Runs, RunInv(r), Settles(r),
           run[r].status = "running",
           run'[r].status = "queued",
           run'[r].attempt = run[r].attempt,
           run[r].attempt < MaxAttempts,
           run'[r].progress = run[r].progress,
           \A i \in Steps : step'[r][i].status # "running"
    PROVE  RunInv(r)'
<1>1. (InOrder(r) /\ EffectsMatch(r) /\ PrefixDone(r))'
  BY SettlesKeeps
<1>2. (HeldWhileRunning(r) /\ PreparesQuiet(r) /\ Untouched(r))'
  BY DEF HeldWhileRunning, PreparesQuiet, Untouched
<1>3. WithinCeiling(r)'
  BY DEF RunInv, WithinCeiling
<1>4. Unfinished(r)'
  BY DEF RunInv, Unfinished, Open, AllSucceeded, Settles
<1>5. ProgressEarned(r)'
  <2>1. \A j \in 1..run[r].progress : j \in Steps /\ step[r][j].status = "succeeded"
    BY NumStepsAssumption
       DEF TypeOK, RunRow, Steps, RunInv, ProgressEarned, TerminalRunStatuses
  <2>2. QED
    BY <2>1 DEF ProgressEarned, Settles
<1>6. QED
  BY <1>1, <1>2, <1>3, <1>4, <1>5 DEF RunInv

LEMMA RecoverRunningKeeps ==
    ASSUME TypeOK, NEW r \in Runs, NEW w \in Workers, RunInv(r), RecoverRunning(w, r)
    PROVE  RunInv(r)'
<1>1. PICK h \in BOOLEAN :
         /\ step' = [step EXCEPT ![r] = ReleasedSteps(r, h)]
         /\ run' = [run EXCEPT ![r] = IF h THEN ToTerminal(@, "failed") ELSE ToQueued(@)]
         /\ ~h => HasAttemptsRemaining(run[r].attempt, MaxAttempts)
  BY DEF RecoverRunning
<1>2. \A i \in Steps : /\ step'[r][i].status # "running"
                       /\ step'[r][i].status = "succeeded" <=> step[r][i].status = "succeeded"
                       /\ step'[r][i].status \in Started => step[r][i].status \in Started
  BY <1>1 DEF TypeOK, ReleasedSteps, MoveSteps, StepRow, Started
<1>3. Settles(r)
  BY <1>2 DEF RecoverRunning, Settles
<1>4. /\ run'[r].status = IF h THEN "failed" ELSE "queued"
      /\ run'[r].attempt = run[r].attempt
      /\ run'[r].progress = run[r].progress
      /\ ~h => run[r].attempt < MaxAttempts
  BY <1>1 DEF TypeOK, RunRow, ToTerminal, ToQueued, HasAttemptsRemaining
<1>5. CASE h
  BY <1>2, <1>3, <1>4, <1>5, EndKeeps DEF TerminalRunStatuses
<1>6. CASE ~h
  <2>1. run[r].status = "running"
    BY DEF RecoverRunning
  <2>2. QED
    BY <1>2, <1>3, <1>4, <1>6, <2>1, RequeueKeeps
<1>7. QED
  BY <1>5, <1>6

LEMMA RecoverCancellingKeeps ==
    ASSUME TypeOK, NEW r \in Runs, NEW w \in Workers, RunInv(r), RecoverCancelling(w, r)
    PROVE  RunInv(r)'
<1>1. /\ \/ step' = [step EXCEPT ![r] = ReleasedSteps(r, TRUE)]
         \/ step' = [step EXCEPT ![r] = [i \in Steps |->
                                    IF step[r][i].status \in {"queued", "running"}
                                    THEN [step[r][i] EXCEPT !.status = "cancelled"]
                                    ELSE step[r][i]]]
      /\ effects' = effects /\ exec' = exec
  BY DEF RecoverCancelling
<1>2. \A i \in Steps : /\ step'[r][i].status # "running"
                       /\ step'[r][i].status = "succeeded" <=> step[r][i].status = "succeeded"
                       /\ step'[r][i].status \in Started => step[r][i].status \in Started
  BY <1>1 DEF TypeOK, ReleasedSteps, MoveSteps, StepRow, Started
<1>3. Settles(r)
  BY <1>1, <1>2 DEF Settles
<1>4. \E p \in 0..NumSteps :
         \/ run' = [run EXCEPT ![r] = ToTerminal(run[r], "failed")]
         \/ run' = [run EXCEPT ![r] = [ToTerminal(run[r], "cancelled") EXCEPT !.progress = p]]
  <2> DEFINE done == /\ StepsIn(r, "running") = {}
                     /\ \A i \in Steps : step'[r][i].status \in {"succeeded", "cancelled"}
  <2>1. NumSteps \in 0..NumSteps /\ run[r].progress \in 0..NumSteps
    BY NumStepsAssumption DEF TypeOK, RunRow
  <2>2. CASE done
    BY <2>1, <2>2 DEF RecoverCancelling
  <2>3. CASE ~done
    BY <2>1, <2>3 DEF RecoverCancelling
  <2>4. QED
    BY <2>2, <2>3
<1>5. run'[r].status \in TerminalRunStatuses /\ run'[r].attempt = run[r].attempt
  <2>1. CASE run' = [run EXCEPT ![r] = ToTerminal(run[r], "failed")]
    BY <2>1 DEF TypeOK, RunRow, ToTerminal, TerminalRunStatuses
  <2>2. ASSUME NEW p \in 0..NumSteps,
               run' = [run EXCEPT ![r] = [ToTerminal(run[r], "cancelled") EXCEPT !.progress = p]]
        PROVE  run'[r].status \in TerminalRunStatuses /\ run'[r].attempt = run[r].attempt
    BY <2>2 DEF TypeOK, RunRow, ToTerminal, TerminalRunStatuses
  <2>3. QED
    BY <1>4, <2>1, <2>2
<1>6. QED
  BY <1>2, <1>3, <1>5, EndKeeps

LEMMA ClaimKeeps ==
    ASSUME TypeOK, NEW r \in Runs, NEW w \in Workers, RunInv(r), Claim(w, r)
    PROVE  RunInv(r)'
<1>1. /\ run[r].status = "queued" /\ run'[r].status = "running"
      /\ run'[r].attempt = run[r].attempt + 1
      /\ run'[r].progress = run[r].progress
      /\ step'[r] = step[r] /\ effects'[r] = effects[r]
  BY DEF TypeOK, RunRow, Claim, ToRunning
<1>2. \A a \in Attempts : \/ exec'[r][a].pc = "prepare"
                          \/ exec'[r][a] = exec[r][a]
  BY DEF TypeOK, Claim, Idle
<1>3. \A i \in Steps : step[r][i].status # "running"
  BY <1>1 DEF RunInv, HeldWhileRunning, Operational, OperationalStatuses
<1>4. Settles(r)
  BY <1>1, <1>2 DEF Settles
<1>5. (InOrder(r) /\ EffectsMatch(r) /\ PrefixDone(r))'
  BY <1>4, SettlesKeeps
<1>6. (HeldWhileRunning(r) /\ PreparesQuiet(r) /\ Untouched(r))'
  BY <1>1, <1>3 DEF HeldWhileRunning, PreparesQuiet, Untouched
<1>7. WithinCeiling(r)'
  BY <1>1, MaxAttemptsAssumption DEF TypeOK, RunRow, RunInv, WithinCeiling
<1>8. (Unfinished(r) /\ ProgressEarned(r))'
  BY <1>1 DEF RunInv, Unfinished, Open, AllSucceeded, ProgressEarned, TerminalRunStatuses
<1>9. QED
  BY <1>5, <1>6, <1>7, <1>8 DEF RunInv

\* An execution of an existing run that ends or raises without writing.
LEMMA NoWriteKeeps ==
    ASSUME TypeOK, NEW r \in Runs, RunInv(r),
           run'[r] = run[r], step'[r] = step[r], effects'[r] = effects[r],
           run[r].status # "absent",
           \A b \in Attempts : \/ exec'[r][b].pc \in {"idle", "raised"}
                               \/ exec'[r][b] = exec[r][b]
    PROVE  RunInv(r)'
<1>1. Settles(r)
  BY DEF Settles
<1>2. (InOrder(r) /\ EffectsMatch(r) /\ PrefixDone(r))'
  BY <1>1, SettlesKeeps
<1>3. (HeldWhileRunning(r) /\ WithinCeiling(r) /\ Untouched(r) /\ ProgressEarned(r))'
  BY DEF RunInv, HeldWhileRunning, Operational, WithinCeiling, Untouched, ProgressEarned
<1>4. (Unfinished(r) /\ PreparesQuiet(r))'
  BY DEF RunInv, Unfinished, AllSucceeded, PreparesQuiet
<1>5. QED
  BY <1>2, <1>3, <1>4 DEF RunInv

LEMMA PrepareKeeps ==
    ASSUME TypeOK, NEW r \in Runs, NEW a \in Attempts, RunInv(r), Prepare(r, a)
    PROVE  RunInv(r)'
<1>1. exec[r][a].pc = "prepare" /\ run[r].status # "absent" /\ effects'[r] = effects[r]
  BY DEF Prepare, At, RunInv, Untouched
<1>2. CASE (Ends(r, a) \/ Raises(r, a)) /\ UNCHANGED <<run, step>>
  BY <1>1, <1>2, NoWriteKeeps DEF TypeOK, Ends, Raises, Idle
<1>3. CASE Owns(r, a) /\ Fails(r) /\ Ends(r, a) /\ UNCHANGED step
  <2>1. \A i \in Steps : step'[r][i].status # "running"
    BY <1>1, <1>3 DEF RunInv, PreparesQuiet, Owns
  <2>2. Settles(r)
    BY <1>1, <1>3 DEF TypeOK, Settles, Ends, Idle
  <2>3. run'[r].status \in TerminalRunStatuses /\ run'[r].attempt = run[r].attempt
    BY <1>3 DEF TypeOK, RunRow, Fails, ToTerminal, TerminalRunStatuses
  <2>4. QED
    BY <2>1, <2>2, <2>3, EndKeeps
<1>4. CASE /\ PlanResumable(r) /\ Ends(r, a)
           /\ step' = [step EXCEPT ![r] = MoveSteps(r, "queued", "cancelled")]
           /\ \E p \in 0..NumSteps :
                 run' = [run EXCEPT ![r] = [ToTerminal(run[r], "cancelled") EXCEPT !.progress = p]]
  <2>1. \A i \in Steps : step'[r][i].status # "running"
    BY <1>4 DEF TypeOK, PlanResumable, MoveSteps, StepRow
  <2>2. Settles(r)
    BY <1>1, <1>4 DEF TypeOK, Settles, MoveSteps, StepRow, Started, Ends, Idle
  <2>3. run'[r].status \in TerminalRunStatuses /\ run'[r].attempt = run[r].attempt
    BY <1>4 DEF TypeOK, RunRow, ToTerminal, TerminalRunStatuses
  <2>4. QED
    BY <2>1, <2>2, <2>3, EndKeeps
<1>5. CASE run[r].status = "running" /\ AllSucceeded(r)
  BY <1>5 DEF RunInv, Unfinished, Open
<1>6. CASE /\ run[r].status = "running" /\ ~AllSucceeded(r) /\ UNCHANGED <<run, step>>
           /\ exec' = [exec EXCEPT ![r][a] =
                          [@ EXCEPT !.pc = "checkpoint", !.at = FirstPending(r)]]
  <2>1. /\ exec'[r][a].pc = "checkpoint" /\ exec'[r][a].at = FirstPending(r)
        /\ \A b \in Attempts \ {a} : exec'[r][b] = exec[r][b]
    BY <1>6 DEF TypeOK, Execution
  <2>2. PrefixDone(r)'
    BY <1>6, <2>1, FirstPendingIsFirst DEF RunInv, PrefixDone
  <2>3. (InOrder(r) /\ HeldWhileRunning(r) /\ EffectsMatch(r) /\ WithinCeiling(r))'
    BY <1>1, <1>6 DEF RunInv, InOrder, HeldWhileRunning, Operational, EffectsMatch, WithinCeiling
  <2>4. (Untouched(r) /\ Unfinished(r) /\ ProgressEarned(r))'
    BY <1>1, <1>6 DEF RunInv, Untouched, Unfinished, AllSucceeded, ProgressEarned
  <2>5. PreparesQuiet(r)'
    BY <1>6, <2>1 DEF RunInv, PreparesQuiet
  <2>6. QED
    BY <2>2, <2>3, <2>4, <2>5 DEF RunInv
<1>7. QED
  <2>1. NumSteps \in 0..NumSteps /\ run[r].progress \in 0..NumSteps
    BY NumStepsAssumption DEF TypeOK, RunRow
  <2>2. CASE AllSucceeded(r)
    BY <1>2, <1>3, <1>4, <1>5, <2>1, <2>2 DEF Prepare
  <2>3. CASE ~AllSucceeded(r)
    BY <1>2, <1>3, <1>4, <1>6, <2>1, <2>3 DEF Prepare
  <2>4. QED
    BY <2>2, <2>3

\* A step that is next in line, or running, is the only one: every step
\* before it has succeeded and none after it has started.
LEMMA OnlyStep ==
    ASSUME TypeOK, NEW r \in Runs, RunInv(r), NEW i \in Steps,
           step[r][i].status \in {"queued", "running"},
           \A j \in 1..(i-1) : step[r][j].status = "succeeded"
    PROVE  \A j \in Steps : /\ j < i => step[r][j].status = "succeeded"
                            /\ j > i => step[r][j].status \notin Started
<1>1. ASSUME NEW j \in Steps, j < i PROVE step[r][j].status = "succeeded"
  BY <1>1, NumStepsAssumption DEF Steps
<1>2. ASSUME NEW j \in Steps, j > i PROVE step[r][j].status \notin Started
  <2>1. i \in 1..(j-1)
    <3>1. i \in Nat /\ j \in Nat /\ i >= 1
      BY NumStepsAssumption DEF Steps
    <3>2. QED
      BY <1>2, <3>1
  <2>2. QED
    BY <2>1 DEF RunInv, InOrder
<1>3. QED
  BY <1>1, <1>2

LEMMA CheckpointKeeps ==
    ASSUME TypeOK, NEW r \in Runs, NEW a \in Attempts, RunInv(r), Checkpoint(r, a)
    PROVE  RunInv(r)'
<1> DEFINE i == exec[r][a].at
<1>1. /\ exec[r][a].pc = "checkpoint" /\ i \in Steps
      /\ run[r].status # "absent" /\ effects'[r] = effects[r]
      /\ \A j \in 1..(i-1) : step[r][j].status = "succeeded"
  BY DEF TypeOK, Execution, Checkpoint, At, RunInv, Untouched, PrefixDone
<1>2. CASE (Ends(r, a) \/ Raises(r, a)) /\ UNCHANGED <<run, step>>
  BY <1>1, <1>2, NoWriteKeeps DEF TypeOK, Ends, Raises, Idle
<1>3. ASSUME step[r][i].status = "queued"
      PROVE  \A j \in Steps : step[r][j].status # "running"
  <2>1. \A j \in Steps : j < i \/ j = i \/ j > i
    BY <1>1 DEF Steps
  <2>2. QED
    BY <1>1, <1>3, <2>1, OnlyStep DEF Started
<1>4. CASE /\ step[r][i].status = "queued" /\ Ends(r, a)
           /\ step' = [step EXCEPT ![r] = MoveSteps(r, "queued", "cancelled")]
           /\ run' = [run EXCEPT ![r] = ToTerminal(@, "cancelled")]
  <2>1. \A j \in Steps : step'[r][j].status # "running"
    BY <1>3, <1>4 DEF TypeOK, MoveSteps, StepRow
  <2>2. Settles(r)
    BY <1>1, <1>4 DEF TypeOK, Settles, MoveSteps, StepRow, Started, Ends, Idle
  <2>3. run'[r].status \in TerminalRunStatuses /\ run'[r].attempt = run[r].attempt
    BY <1>4 DEF TypeOK, RunRow, ToTerminal, TerminalRunStatuses
  <2>4. QED
    BY <2>1, <2>2, <2>3, EndKeeps
<1>5. CASE step[r][i].status = "queued" /\ Fails(r) /\ Ends(r, a) /\ UNCHANGED step
  <2>1. \A j \in Steps : step'[r][j].status # "running"
    BY <1>3, <1>5
  <2>2. Settles(r)
    BY <1>1, <1>5 DEF TypeOK, Settles, Ends, Idle
  <2>3. run'[r].status \in TerminalRunStatuses /\ run'[r].attempt = run[r].attempt
    BY <1>5 DEF TypeOK, RunRow, Fails, ToTerminal, TerminalRunStatuses
  <2>4. QED
    BY <2>1, <2>2, <2>3, EndKeeps
<1>6. CASE /\ Owns(r, a) /\ step[r][i].status = "queued" /\ run[r].status = "running"
           /\ step' = [step EXCEPT ![r][i] =
                         [status |-> "running", attempt |-> @.attempt + 1]]
           /\ exec' = [exec EXCEPT ![r][a].pc = "execute",
                                   ![r][a].stepAttempt = step[r][i].attempt + 1]
           /\ UNCHANGED run
  <2>1. /\ \A j \in Steps \ {i} : step'[r][j] = step[r][j]
        /\ step'[r][i].status = "running"
    BY <1>1, <1>6 DEF TypeOK
  <2>2. /\ \A b \in Attempts \ {a} : exec'[r][b] = exec[r][b]
        /\ exec'[r][a].pc = "execute" /\ exec'[r][a].at = i
    BY <1>1, <1>6 DEF TypeOK, Execution
  <2>3. \A j \in Steps : /\ j < i => step[r][j].status = "succeeded"
                         /\ j > i => step[r][j].status \notin Started
    BY <1>1, <1>6, OnlyStep
  <2>4. \A j \in Steps : step'[r][j].status = "succeeded" <=> step[r][j].status = "succeeded"
    BY <1>6, <2>1
  <2>5. InOrder(r)'
    BY <1>1, <2>1, <2>3, <2>4, EarlierSteps DEF RunInv, InOrder, Started
  <2>6. (EffectsMatch(r) /\ HeldWhileRunning(r) /\ Untouched(r))'
    BY <1>1, <1>6, <2>4 DEF RunInv, EffectsMatch, HeldWhileRunning, Untouched, Operational,
                             OperationalStatuses
  <2>7. (WithinCeiling(r) /\ Unfinished(r))'
    BY <1>6, <2>4 DEF RunInv, WithinCeiling, Unfinished, AllSucceeded
  <2>8. PrefixDone(r)'
    <3> SUFFICES ASSUME NEW b \in Attempts,
                        exec'[r][b].pc \in {"checkpoint", "execute", "persist"},
                        NEW j \in 1..(exec'[r][b].at - 1)
                 PROVE  step'[r][j].status = "succeeded"
      BY DEF PrefixDone
    <3>1. /\ exec[r][b].pc \in {"checkpoint", "execute", "persist"}
          /\ exec'[r][b].at = exec[r][b].at
      BY <1>1, <2>2
    <3>2. exec[r][b].at \in Steps
      BY DEF TypeOK, Execution
    <3>3. j \in Steps /\ step[r][j].status = "succeeded"
      BY <3>1, <3>2, EarlierSteps DEF RunInv, PrefixDone
    <3>4. QED
      BY <2>4, <3>3
  <2>9. PreparesQuiet(r)'
    BY <1>6, <2>2 DEF PreparesQuiet, Owns
  <2>10. ProgressEarned(r)'
    <3>1. \A j \in 1..run[r].progress : j \in Steps
      BY NumStepsAssumption DEF TypeOK, RunRow, Steps
    <3>2. QED
      BY <1>6, <2>4, <3>1 DEF RunInv, ProgressEarned
  <2>11. QED
    BY <2>5, <2>6, <2>7, <2>8, <2>9, <2>10 DEF RunInv
<1>7. QED
  BY <1>2, <1>4, <1>5, <1>6 DEF Checkpoint

\* What a fenced outcome finds: its step is running, alone and next in line.
LEMMA FencedStep ==
    ASSUME TypeOK, NEW r \in Runs, NEW a \in Attempts, RunInv(r), Fenced(r, a)
    PROVE  /\ exec[r][a].at \in Steps
           /\ step[r][exec[r][a].at].status = "running"
           /\ \A j \in 1..(exec[r][a].at - 1) : step[r][j].status = "succeeded"
           /\ \A j \in Steps :
                 /\ j < exec[r][a].at => step[r][j].status = "succeeded"
                 /\ j > exec[r][a].at => step[r][j].status \notin Started
           /\ run[r].status \in OperationalStatuses
           /\ Owns(r, a)
<1>1. /\ exec[r][a].at \in Steps
      /\ step[r][exec[r][a].at].status = "running"
      /\ run[r].status \in OperationalStatuses
      /\ Owns(r, a)
  BY DEF TypeOK, Execution, Fenced, Superseded, Operational
<1>2. \A j \in 1..(exec[r][a].at - 1) : step[r][j].status = "succeeded"
  BY <1>1 DEF RunInv, InOrder, Started
<1>3. QED
  BY <1>1, <1>2, OnlyStep

LEMMA CommitSuccessKeeps ==
    ASSUME TypeOK, NEW r \in Runs, NEW a \in Attempts, RunInv(r), CommitSuccess(r, a)
    PROVE  RunInv(r)'
<1> DEFINE i == exec[r][a].at
           end == EndOf(r, i)
<1>1. /\ i \in Steps /\ step[r][i].status = "running"
      /\ \A j \in Steps : /\ j < i => step[r][j].status = "succeeded"
                          /\ j > i => step[r][j].status \notin Started
      /\ run[r].status \in OperationalStatuses /\ Owns(r, a)
  BY FencedStep DEF CommitSuccess
<1>2. /\ step'[r][i].status = "succeeded"
      /\ \A j \in Steps \ {i} :
            /\ step'[r][j].status = "succeeded" <=> step[r][j].status = "succeeded"
            /\ step'[r][j].status \in Started => step[r][j].status \in Started
      /\ \A j \in Steps : step'[r][j].status # "running"
  <2>1. step'[r] = [j \in Steps |->
                 IF j = i THEN [step[r][i] EXCEPT !.status = "succeeded"]
                 ELSE IF end = "cancelled" THEN MoveSteps(r, "queued", "cancelled")[j]
                 ELSE step[r][j]]
    BY DEF TypeOK, CommitSuccess
  <2>2. step'[r][i].status = "succeeded"
    BY <1>1, <2>1 DEF TypeOK, StepRow
  <2>3. ASSUME NEW j \in Steps \ {i}
        PROVE  /\ step'[r][j].status = "succeeded" <=> step[r][j].status = "succeeded"
               /\ step'[r][j].status \in Started => step[r][j].status \in Started
               /\ step'[r][j].status # "running"
    <3>1. step[r][j].status # "running"
      BY <1>1 DEF Started, Steps
    <3>2. step'[r][j] = step[r][j] \/ step'[r][j] = MoveSteps(r, "queued", "cancelled")[j]
      BY <2>1
    <3>3. QED
      BY <3>1, <3>2 DEF TypeOK, MoveSteps, StepRow, Started
  <2>4. QED
    BY <2>2, <2>3
<1>3. /\ effects'[r][i] = effects[r][i] + 1
      /\ \A j \in Steps \ {i} : effects'[r][j] = effects[r][j]
  BY <1>1 DEF TypeOK, CommitSuccess
<1>4. \A b \in Attempts \ {a} : exec'[r][b] = exec[r][b]
  BY DEF TypeOK, CommitSuccess, Ends
<1>5. InOrder(r)'
  BY <1>1, <1>2, EarlierSteps DEF RunInv, InOrder, Started
<1>6. EffectsMatch(r)'
  BY <1>1, <1>2, <1>3 DEF RunInv, EffectsMatch
<1>7. (HeldWhileRunning(r) /\ PreparesQuiet(r))'
  BY <1>2 DEF HeldWhileRunning, PreparesQuiet
<1>8. /\ run'[r].attempt = run[r].attempt
      /\ end = "running" => run'[r].status = run[r].status /\ run'[r].progress = i
      /\ end # "running" => run'[r].status = end
  <2>1. CASE end = "running"
    BY <2>1 DEF TypeOK, RunRow, CommitSuccess, SucceededCount
  <2>2. CASE end # "running"
    <3> DEFINE row == [run[r] EXCEPT !.progress = SucceededCount(i)]
    <3>1. run'[r] = ToTerminal(row, end)
      BY <2>2 DEF TypeOK, CommitSuccess
    <3>2. row.attempt = run[r].attempt /\ row \in RunRow
      <4>1. run[r] \in RunRow /\ SucceededCount(i) \in 0..NumSteps
        BY <1>1 DEF TypeOK, SucceededCount, Steps
      <4>2. row \in RunRow
        BY <4>1, RowTypes
      <4>3. row.attempt = run[r].attempt
        BY <4>1 DEF RunRow
      <4>4. QED
        BY <4>2, <4>3
    <3>3. ToTerminal(row, end).status = end /\ ToTerminal(row, end).attempt = row.attempt
      BY <3>2 DEF RunRow, ToTerminal
    <3>4. QED
      BY <2>2, <3>1, <3>2, <3>3
  <2>3. QED
    BY <2>1, <2>2
<1>9. end \in {"running", "succeeded", "cancelled"}
  BY DEF EndOf
<1>10. (WithinCeiling(r) /\ Untouched(r))'
  BY <1>1, <1>8, <1>9 DEF RunInv, WithinCeiling, Untouched, OperationalStatuses
<1>11. Unfinished(r)'
  <2>1. CASE end = "running"
    <3>1. i # NumSteps /\ NumSteps \in Steps /\ NumSteps > i
      BY <1>1, <2>1, NumStepsAssumption DEF EndOf, Steps
    <3>2. step'[r][NumSteps].status # "succeeded"
      BY <1>1, <1>2, <3>1 DEF Started
    <3>3. QED
      BY <3>1, <3>2 DEF Unfinished, AllSucceeded
  <2>2. CASE end # "running"
    BY <1>8, <1>9, <2>2 DEF Unfinished, Open
  <2>3. QED
    BY <2>1, <2>2
<1>12. PrefixDone(r)'
  <2> SUFFICES ASSUME NEW b \in Attempts,
                      exec'[r][b].pc \in {"checkpoint", "execute", "persist"},
                      NEW j \in 1..(exec'[r][b].at - 1)
               PROVE  step'[r][j].status = "succeeded"
    BY DEF PrefixDone
  <2>1. CASE b # a
    <3>1. exec'[r][b] = exec[r][b] /\ exec[r][b].at \in Steps
      BY <1>4, <2>1 DEF TypeOK, Execution
    <3>2. j \in Steps /\ step[r][j].status = "succeeded"
      BY <3>1, EarlierSteps DEF RunInv, PrefixDone
    <3>3. QED
      BY <1>2, <3>2
  <2>2. CASE b = a
    <3>1. end = "running"
      BY <2>2 DEF TypeOK, CommitSuccess, Ends, Idle
    <3>2. exec'[r][a].at = i + 1
      <4>1. exec'[r][a] = [exec[r][a] EXCEPT !.pc = "checkpoint", !.at = i + 1,
                                             !.stepAttempt = 0, !.outcome = "none"]
        BY <3>1 DEF TypeOK, CommitSuccess
      <4>2. QED
        BY <4>1 DEF TypeOK, Execution
    <3>3. j = i \/ (j \in Steps /\ j < i)
      BY <1>1, <2>2, <3>2, NumStepsAssumption DEF Steps
    <3>4. QED
      BY <1>1, <1>2, <3>3
  <2>3. QED
    BY <2>1, <2>2
<1>13. ProgressEarned(r)'
  <2> SUFFICES ASSUME run'[r].status \notin TerminalRunStatuses,
                      NEW j \in 1..run'[r].progress
               PROVE  step'[r][j].status = "succeeded"
    BY DEF ProgressEarned
  <2>1. run'[r].progress = i
    BY <1>8, <1>9 DEF TerminalRunStatuses
  <2>2. j = i \/ (j \in Steps /\ j < i)
    BY <1>1, <2>1, NumStepsAssumption DEF Steps
  <2>3. QED
    BY <1>1, <1>2, <2>2
<1>14. QED
  BY <1>5, <1>6, <1>7, <1>10, <1>11, <1>12, <1>13 DEF RunInv

LEMMA CommitFailureKeeps ==
    ASSUME TypeOK, NEW r \in Runs, NEW a \in Attempts, RunInv(r), CommitFailure(r, a)
    PROVE  RunInv(r)'
<1> DEFINE i == exec[r][a].at
<1>1. /\ i \in Steps /\ step[r][i].status = "running"
      /\ \A j \in Steps \ {i} : step[r][j].status # "running"
  <2>1. /\ i \in Steps /\ step[r][i].status = "running"
        /\ \A j \in Steps : /\ j < i => step[r][j].status = "succeeded"
                            /\ j > i => step[r][j].status \notin Started
    BY FencedStep DEF CommitFailure
  <2>2. \A j \in Steps \ {i} : j < i \/ j > i
    BY <2>1, NumStepsAssumption DEF Steps
  <2>3. QED
    BY <2>1, <2>2 DEF Started
<1>2. /\ step'[r][i].status \in {"cancelled", "queued", "failed"}
      /\ \A j \in Steps \ {i} : \/ step'[r][j] = step[r][j]
                                \/ step'[r][j] = MoveSteps(r, "queued", "cancelled")[j]
  <2>1. MoveSteps(r, "queued", "cancelled") \in [Steps -> StepRow]
    BY MoveTypes DEF StepStatuses
  <2>2. CASE step' = [step EXCEPT ![r] =
                   [MoveSteps(r, "queued", "cancelled") EXCEPT ![i].status = "cancelled"]]
    BY <1>1, <2>1, <2>2 DEF TypeOK, StepRow
  <2>3. CASE step' = [step EXCEPT ![r][i].status = "queued"]
    BY <1>1, <2>3 DEF TypeOK, StepRow
  <2>4. CASE step' = [step EXCEPT ![r][i].status = "failed"]
    BY <1>1, <2>4 DEF TypeOK, StepRow
  <2>5. QED
    BY <2>2, <2>3, <2>4 DEF CommitFailure
<1>3. \A j \in Steps : /\ step'[r][j].status # "running"
                       /\ step'[r][j].status = "succeeded" <=> step[r][j].status = "succeeded"
                       /\ step'[r][j].status \in Started => step[r][j].status \in Started
  <2>1. ASSUME NEW j \in Steps \ {i}
        PROVE  /\ step'[r][j].status # "running"
               /\ step'[r][j].status = "succeeded" <=> step[r][j].status = "succeeded"
               /\ step'[r][j].status \in Started => step[r][j].status \in Started
    <3>1. CASE step'[r][j] = step[r][j]
      BY <1>1, <3>1 DEF Started
    <3>2. CASE step'[r][j] = MoveSteps(r, "queued", "cancelled")[j]
      BY <1>1, <3>2 DEF TypeOK, MoveSteps, StepRow, Started
    <3>3. QED
      BY <1>2, <3>1, <3>2
  <2>2. QED
    BY <1>1, <1>2, <2>1 DEF Started
<1>4. Settles(r)
  <2>1. effects' = effects /\ \A b \in Attempts : \/ exec'[r][b] = exec[r][b]
                                                  \/ exec'[r][b].pc = "idle"
    BY DEF TypeOK, CommitFailure, Ends, Idle
  <2>2. QED
    BY <1>3, <2>1 DEF Settles
<1>5. \/ run' = [run EXCEPT ![r] = ToTerminal(@, "cancelled")]
      \/ run' = [run EXCEPT ![r] = ToTerminal(@, "failed")]
      \/ /\ run' = [run EXCEPT ![r] = ToQueued(@)]
         /\ run[r].status = "running"
         /\ HasAttemptsRemaining(run[r].attempt, MaxAttempts)
  BY DEF CommitFailure, Fails
<1>6. \/ run'[r].status \in TerminalRunStatuses /\ run'[r].attempt = run[r].attempt
      \/ /\ run[r].status = "running" /\ run'[r].status = "queued"
         /\ run'[r].attempt = run[r].attempt /\ run[r].attempt < MaxAttempts
         /\ run'[r].progress = run[r].progress
  <2>1. CASE run' = [run EXCEPT ![r] = ToTerminal(@, "cancelled")]
    BY <2>1 DEF TypeOK, RunRow, ToTerminal, TerminalRunStatuses
  <2>2. CASE run' = [run EXCEPT ![r] = ToTerminal(@, "failed")]
    BY <2>2 DEF TypeOK, RunRow, ToTerminal, TerminalRunStatuses
  <2>3. CASE /\ run' = [run EXCEPT ![r] = ToQueued(@)]
             /\ run[r].status = "running"
             /\ HasAttemptsRemaining(run[r].attempt, MaxAttempts)
    BY <2>3 DEF TypeOK, RunRow, ToQueued, HasAttemptsRemaining
  <2>4. QED
    BY <1>5, <2>1, <2>2, <2>3
<1>7. CASE run'[r].status \in TerminalRunStatuses /\ run'[r].attempt = run[r].attempt
  BY <1>3, <1>4, <1>7, EndKeeps
<1>8. CASE /\ run[r].status = "running" /\ run'[r].status = "queued"
           /\ run'[r].attempt = run[r].attempt /\ run[r].attempt < MaxAttempts
           /\ run'[r].progress = run[r].progress
  BY <1>3, <1>4, <1>8, RequeueKeeps
<1>9. QED
  BY <1>6, <1>7, <1>8

-----------------------------------------------------------------------------
(* The theorems *)

LEMMA MovesKeep ==
    ASSUME TypeOK, NEW r \in Runs, RunInv(r), Moves(r)
    PROVE  RunInv(r)'
BY SubmitKeeps, CancelQueuedKeeps, CancelRunningKeeps, RecoverRunningKeeps,
   RecoverCancellingKeeps, ClaimKeeps, PrepareKeeps, CheckpointKeeps, CommitSuccessKeeps,
   CommitFailureKeeps DEF Moves

LEMMA ExecutionInvNext == ExecutionInv /\ [Next]_vars => ExecutionInv'
<1> SUFFICES ASSUME ExecutionInv, [Next]_vars PROVE ExecutionInv'
  OBVIOUS
<1>1. ASSUME NEW r \in Runs PROVE RunInv(r)'
  BY NextByRun, QuietKeeps, MovesKeep DEF ExecutionInv
<1>2. TypeOK'
  BY TypeNext DEF ExecutionInv
<1>3. QED
  BY <1>1, <1>2 DEF ExecutionInv

\* The strengthening from which the safety properties follow.
THEOREM ExecutionInvariant == Spec => []ExecutionInv
<1>1. Init => ExecutionInv
  BY TypeInit, InitInv DEF ExecutionInv
<1>2. QED
  BY <1>1, ExecutionInvNext, PTL DEF Spec

\* Plans are walked strictly in order, whatever crashes, retries or stalls.
THEOREM PlansWalkedInOrder == Spec => []StepsInOrder
<1>1. ExecutionInv => StepsInOrder
  BY DEF ExecutionInv, RunInv, InOrder, StepsInOrder, Started
<1>2. QED
  BY <1>1, ExecutionInvariant, PTL

\* No step is left running under a run nobody holds.
THEOREM NoStepOrphaned == Spec => []NoOrphanStep
<1>1. ExecutionInv => NoOrphanStep
  BY DEF ExecutionInv, RunInv, HeldWhileRunning, NoOrphanStep
<1>2. QED
  BY <1>1, ExecutionInvariant, PTL

\* Each succeeded step has committed its effects exactly once.
THEOREM EffectsCommittedOnce == Spec => []EffectsOnce
<1>1. ExecutionInv => EffectsOnce
  BY DEF ExecutionInv, RunInv, EffectsMatch, EffectsOnce
<1>2. QED
  BY <1>1, ExecutionInvariant, PTL

\* Retries and recoveries together stay under MAX_RUN_ATTEMPTS.
THEOREM CeilingRespected == Spec => []AttemptCeiling
<1>1. ExecutionInv => AttemptCeiling
  BY DEF ExecutionInv, RunInv, WithinCeiling, AttemptCeiling
<1>2. QED
  BY <1>1, ExecutionInvariant, PTL

\* Recovery never meets a held run that is finished or has two running steps.
THEOREM PlansRecoverable == Spec => []RecoverablePlan
<1>1. ASSUME ExecutionInv, NEW r \in Runs, Operational(r)
      PROVE  ~AllSucceeded(r) /\ Cardinality(StepsIn(r, "running")) <= 1
  <2>1. ~AllSucceeded(r)
    BY <1>1 DEF ExecutionInv, RunInv, Unfinished, Open, Operational, OperationalStatuses
  <2>2. \A i, j \in StepsIn(r, "running") : i = j
    <3> SUFFICES ASSUME NEW i \in StepsIn(r, "running"), NEW j \in StepsIn(r, "running"), i < j
                 PROVE  FALSE
      BY NumStepsAssumption DEF StepsIn, Steps
    <3>1. i \in 1..(j-1) /\ j \in Steps /\ step[r][j].status \in Started
      BY NumStepsAssumption DEF StepsIn, Steps, Started
    <3>2. step[r][i].status = "succeeded"
      BY <1>1, <3>1 DEF ExecutionInv, RunInv, InOrder
    <3>3. QED
      BY <3>2 DEF StepsIn
  <2>3. StepsIn(r, "running") = {} \/ \E i : StepsIn(r, "running") = {i}
    BY <2>2
  <2>4. CASE StepsIn(r, "running") = {}
    BY <2>1, <2>4, FS_EmptySet
  <2>5. ASSUME NEW i, StepsIn(r, "running") = {i}
        PROVE  Cardinality(StepsIn(r, "running")) <= 1
    <3>1. Cardinality({i}) = 1
      BY FS_Singleton
    <3>2. QED
      BY <2>5, <3>1
  <2>6. QED
    BY <2>1, <2>3, <2>4, <2>5
<1>2. ExecutionInv => RecoverablePlan
  BY <1>1 DEF RecoverablePlan
<1>3. QED
  BY <1>2, ExecutionInvariant, PTL

-----------------------------------------------------------------------------
(* Scopes *)

\* Only a claim makes a run occupy its scope.
LEMMA OnlyClaimsOccupy ==
    ASSUME TypeOK, NEW r \in Runs, Quiet(r) \/ Moves(r), Operational(r)', ~Operational(r)
    PROVE  \E w \in Workers : Claim(w, r)
<1> USE DEF TypeOK, Operational, OperationalStatuses
<1>1. CASE Quiet(r)
  BY <1>1 DEF Quiet
<1>2. CASE Submit(r) \/ CancelQueued(r)
  <2>1. CASE Submit(r)
    BY <2>1 DEF Submit, RunRow
  <2>2. CASE CancelQueued(r)
    BY <2>2 DEF CancelQueued, ToTerminal, RunRow
  <2>3. QED
    BY <1>2, <2>1, <2>2
<1>3. CASE CancelRunning(r) \/ \E w \in Workers : RecoverRunning(w, r) \/ RecoverCancelling(w, r)
  BY <1>3 DEF CancelRunning, RecoverRunning, RecoverCancelling
<1>4. ASSUME NEW a \in Attempts, Prepare(r, a) PROVE FALSE
  <2>1. \/ run' = run
        \/ run' = [run EXCEPT ![r] = ToTerminal(@, "failed")]
        \/ Operational(r)
    BY <1>4 DEF Prepare, Fails
  <2>2. ToTerminal(run[r], "failed").status = "failed"
    BY DEF ToTerminal, RunRow
  <2>3. QED
    BY <2>1, <2>2
<1>5. ASSUME NEW a \in Attempts, Checkpoint(r, a) PROVE FALSE
  <2>1. run' = run \/ Operational(r)
    BY <1>5 DEF Checkpoint
  <2>2. QED
    BY <2>1
<1>6. ASSUME NEW a \in Attempts, CommitSuccess(r, a) \/ CommitFailure(r, a) PROVE FALSE
  BY <1>6 DEF CommitSuccess, CommitFailure, Fenced
<1>7. QED
  BY <1>1, <1>2, <1>3, <1>4, <1>5, <1>6 DEF Moves

\* One run per dataset and a global run alone, while running, while being
\* cancelled and while nobody is left to execute them.
THEOREM ScopesExclusive == Spec => []ScopeExclusion
<1>1. Init => ScopeExclusion
  BY LegacyAssumption
     DEF Init, InitialRow, ScopeExclusion, Operational, OperationalStatuses, SameScope
<1>2. ASSUME TypeOK, ScopeExclusion, [Next]_vars PROVE ScopeExclusion'
  <2> SUFFICES ASSUME NEW r \in Runs, NEW s \in Runs, r # s, Operational(r)', Operational(s)',
                      SameScope(r, s)
               PROVE  FALSE
    BY DEF ScopeExclusion, SameScope
  <2>1. ASSUME NEW p \in Runs, NEW q \in Runs, p # q, SameScope(p, q), Operational(q)',
               NEW w \in Workers, Claim(w, p)
        PROVE  FALSE
    <3>1. Operational(q)
      BY <1>2, <2>1 DEF TypeOK, Claim, Operational
    <3>2. QED
      BY <2>1, <3>1 DEF Claim, ScopeFree
  <2>2. Operational(r) /\ Operational(s)
    <3>1. SameScope(s, r)
      BY DEF SameScope
    <3>2. QED
      BY <1>2, <2>1, <3>1, NextByRun, OnlyClaimsOccupy
  <2>3. QED
    BY <1>2, <2>2 DEF ScopeExclusion
<1>3. QED
  BY <1>1, <1>2, TypeCorrect, PTL DEF Spec

-----------------------------------------------------------------------------
(* What a step may never do *)

\* A finished run never changes again, whatever executions of it are left.
THEOREM FinishedRunsImmutable == Spec => TerminalForever
<1>1. ASSUME TypeOK, [Next]_vars, NEW r \in Runs, run[r].status \in TerminalRunStatuses
      PROVE  run'[r] = run[r] /\ step'[r] = step[r] /\ effects'[r] = effects[r]
  <2> USE <1>1 DEF TerminalRunStatuses
  <2>1. CASE Quiet(r)
    BY <2>1 DEF Quiet
  <2>2. ~Submit(r) /\ ~CancelQueued(r) /\ ~CancelRunning(r)
    BY DEF Submit, CancelQueued, CancelRunning
  <2>3. ASSUME NEW w \in Workers PROVE ~RecoverRunning(w, r) /\ ~RecoverCancelling(w, r) /\ ~Claim(w, r)
    BY DEF RecoverRunning, RecoverCancelling, Claim
  <2>4. ASSUME NEW a \in Attempts, Prepare(r, a)
        PROVE  run'[r] = run[r] /\ step'[r] = step[r] /\ effects'[r] = effects[r]
    BY <2>4 DEF Prepare, MayFail, RunTransitions
  <2>5. ASSUME NEW a \in Attempts, Checkpoint(r, a)
        PROVE  run'[r] = run[r] /\ step'[r] = step[r] /\ effects'[r] = effects[r]
    BY <2>5 DEF Checkpoint
  <2>6. ASSUME NEW a \in Attempts PROVE ~CommitSuccess(r, a) /\ ~CommitFailure(r, a)
    BY DEF CommitSuccess, CommitFailure, Fenced, Operational, OperationalStatuses
  <2>7. QED
    BY <2>1, <2>2, <2>3, <2>4, <2>5, <2>6, NextByRun DEF Moves
<1>2. TypeOK /\ [Next]_vars =>
         [\A r \in Runs : run[r].status \in TerminalRunStatuses =>
             run'[r] = run[r] /\ step'[r] = step[r] /\ effects'[r] = effects[r]]_vars
  BY <1>1
<1>3. QED
  BY <1>2, TypeCorrect, PTL DEF Spec, TerminalForever

\* Once cancelling, a run ends CANCELLED or FAILED and starts no further step.
THEOREM CancellationsHonoured == Spec => CancelIntentKept
<1>1. ASSUME TypeOK, [Next]_vars, NEW r \in Runs, run[r].status = "cancelling"
      PROVE  /\ run'[r].status \in {"cancelling", "cancelled", "failed"}
             /\ \A i \in Steps : step[r][i].status # "running" =>
                                   step'[r][i].status # "running"
  <2> DEFINE Kept == /\ run'[r].status \in {"cancelling", "cancelled", "failed"}
                     /\ \A i \in Steps : step[r][i].status # "running" =>
                                           step'[r][i].status # "running"
  <2> USE <1>1
  <2>1. CASE Quiet(r)
    BY <2>1 DEF Quiet
  <2>2. ~Submit(r) /\ ~CancelQueued(r) /\ ~CancelRunning(r)
    BY DEF Submit, CancelQueued, CancelRunning
  <2>3. ASSUME NEW w \in Workers PROVE ~RecoverRunning(w, r) /\ ~Claim(w, r)
    BY DEF RecoverRunning, Claim
  <2>4. \A i \in Steps : MoveSteps(r, "queued", "cancelled")[i].status = "running" =>
                            step[r][i].status = "running"
    BY DEF TypeOK, MoveSteps, StepRow
  <2>5. \A p \in 0..NumSteps :
           /\ ToTerminal(run[r], "cancelled").status = "cancelled"
           /\ [ToTerminal(run[r], "cancelled") EXCEPT !.progress = p].status = "cancelled"
           /\ ToTerminal(run[r], "failed").status = "failed"
    BY DEF TypeOK, RunRow, ToTerminal
  <2>6. NumSteps \in 0..NumSteps /\ run[r].progress \in 0..NumSteps
    BY NumStepsAssumption DEF TypeOK, RunRow
  <2>7. ASSUME NEW w \in Workers, RecoverCancelling(w, r) PROVE Kept
    <3>1. \A i \in Steps : step'[r][i].status # "running"
      <4>1. \/ step' = [step EXCEPT ![r] = ReleasedSteps(r, TRUE)]
            \/ step' = [step EXCEPT ![r] = [i \in Steps |->
                                    IF step[r][i].status \in {"queued", "running"}
                                    THEN [step[r][i] EXCEPT !.status = "cancelled"]
                                    ELSE step[r][i]]]
        BY <2>7 DEF RecoverCancelling
      <4>2. CASE step' = [step EXCEPT ![r] = ReleasedSteps(r, TRUE)]
        BY <4>2 DEF TypeOK, ReleasedSteps, MoveSteps, StepRow
      <4>3. CASE step' = [step EXCEPT ![r] = [i \in Steps |->
                                    IF step[r][i].status \in {"queued", "running"}
                                    THEN [step[r][i] EXCEPT !.status = "cancelled"]
                                    ELSE step[r][i]]]
        BY <4>3 DEF TypeOK, StepRow
      <4>4. QED
        BY <4>1, <4>2, <4>3
    <3>2. run'[r].status \in {"cancelled", "failed"}
      <4> DEFINE done == /\ StepsIn(r, "running") = {}
                         /\ \A i \in Steps : step'[r][i].status \in {"succeeded", "cancelled"}
      <4>1. CASE done
        BY <2>5, <2>6, <2>7, <4>1 DEF TypeOK, RecoverCancelling
      <4>2. CASE ~done
        BY <2>5, <2>6, <2>7, <4>2 DEF TypeOK, RecoverCancelling
      <4>3. QED
        BY <4>1, <4>2
    <3>3. QED
      BY <3>1, <3>2
  <2>8. ASSUME NEW a \in Attempts, Prepare(r, a) PROVE Kept
    <3>1. \/ run' = run
          \/ run' = [run EXCEPT ![r] = ToTerminal(run[r], "failed")]
          \/ run' = [run EXCEPT ![r] = [ToTerminal(run[r], "cancelled") EXCEPT !.progress = NumSteps]]
          \/ run' = [run EXCEPT ![r] =
                       [ToTerminal(run[r], "cancelled") EXCEPT !.progress = run[r].progress]]
      <4>1. CASE AllSucceeded(r)
        BY <2>8, <4>1 DEF Prepare, Fails
      <4>2. CASE ~AllSucceeded(r)
        BY <2>8, <4>2 DEF Prepare, Fails
      <4>3. QED
        BY <4>1, <4>2
    <3>2. step' = step \/ step' = [step EXCEPT ![r] = MoveSteps(r, "queued", "cancelled")]
      BY <2>8 DEF Prepare
    <3>3. QED
      BY <2>4, <2>5, <2>6, <3>1, <3>2 DEF TypeOK
  <2>9. ASSUME NEW a \in Attempts, Checkpoint(r, a) PROVE Kept
    <3>1. \/ run' = run
          \/ run' = [run EXCEPT ![r] = ToTerminal(run[r], "cancelled")]
      BY <2>9 DEF Checkpoint
    <3>2. step' = step \/ step' = [step EXCEPT ![r] = MoveSteps(r, "queued", "cancelled")]
      BY <2>9 DEF Checkpoint
    <3>3. QED
      BY <2>4, <2>5, <2>6, <3>1, <3>2 DEF TypeOK
  <2>10. ASSUME NEW a \in Attempts, CommitSuccess(r, a) PROVE Kept
    <3> DEFINE i == exec[r][a].at
               row == [run[r] EXCEPT !.progress = SucceededCount(i)]
    <3>1. i \in Steps /\ EndOf(r, i) = "cancelled"
      BY DEF TypeOK, Execution, EndOf
    <3>2. run'[r] = ToTerminal(row, "cancelled")
      BY <2>10, <3>1 DEF TypeOK, CommitSuccess
    <3>3. row \in RunRow
      <4>1. run[r] \in RunRow /\ SucceededCount(i) \in 0..NumSteps
        BY <3>1 DEF TypeOK, SucceededCount, Steps
      <4>2. QED
        BY <4>1, RowTypes
    <3>4. ToTerminal(row, "cancelled").status = "cancelled"
      BY <3>3 DEF RunRow, ToTerminal
    <3>5. step'[r] = [j \in Steps |->
                 IF j = i THEN [step[r][i] EXCEPT !.status = "succeeded"]
                 ELSE MoveSteps(r, "queued", "cancelled")[j]]
      BY <2>10, <3>1 DEF TypeOK, CommitSuccess
    <3>6. \A j \in Steps : step'[r][j].status = "running" => step[r][j].status = "running"
      BY <2>4, <3>1, <3>5 DEF TypeOK, StepRow
    <3>7. QED
      BY <3>2, <3>4, <3>6
  <2>11. ASSUME NEW a \in Attempts, CommitFailure(r, a) PROVE Kept
    <3> DEFINE i == exec[r][a].at
    <3>1. i \in Steps
      BY DEF TypeOK, Execution
    <3>2. \/ run' = [run EXCEPT ![r] = ToTerminal(run[r], "cancelled")]
          \/ run' = [run EXCEPT ![r] = ToTerminal(run[r], "failed")]
      BY <2>11 DEF CommitFailure, Fails
    <3>3. \/ step' = [step EXCEPT ![r] =
                    [MoveSteps(r, "queued", "cancelled") EXCEPT ![i].status = "cancelled"]]
          \/ step' = [step EXCEPT ![r][i].status = "failed"]
      BY <2>11 DEF CommitFailure
    <3>4. MoveSteps(r, "queued", "cancelled") \in [Steps -> StepRow]
      BY MoveTypes DEF StepStatuses
    <3>5. \A j \in Steps : step'[r][j].status = "running" => step[r][j].status = "running"
      <4>1. CASE step' = [step EXCEPT ![r] =
                    [MoveSteps(r, "queued", "cancelled") EXCEPT ![i].status = "cancelled"]]
        BY <2>4, <3>1, <3>4, <4>1 DEF TypeOK, StepRow
      <4>2. CASE step' = [step EXCEPT ![r][i].status = "failed"]
        BY <3>1, <4>2 DEF TypeOK, StepRow
      <4>3. QED
        BY <3>3, <4>1, <4>2
    <3>6. QED
      BY <2>5, <2>6, <3>2, <3>5 DEF TypeOK
  <2>12. QED
    BY <2>1, <2>2, <2>3, <2>7, <2>8, <2>9, <2>10, <2>11, NextByRun DEF Moves
<1>2. TypeOK /\ [Next]_vars =>
         [\A r \in Runs : run[r].status = "cancelling" =>
             /\ run'[r].status \in {"cancelling", "cancelled", "failed"}
             /\ \A i \in Steps : step[r][i].status # "running" =>
                                    step'[r][i].status # "running"]_vars
  BY <1>1
<1>3. QED
  BY <1>2, TypeCorrect, PTL DEF Spec, CancelIntentKept

-----------------------------------------------------------------------------
(* Leases *)

\* While heartbeats get through, an execution in memory has a process that
\* lives, and its run's row says so: nobody finds it stale.
Busy(r, a) == exec[r][a].pc \notin {"idle", "raised"}
Lease(r, a) ==
    /\ exec[r][a].worker \in Workers /\ Alive(exec[r][a].worker)
    /\ Owns(r, a) /\ Operational(r) /\ run[r].heartbeat = "fresh"
Leased(r) == \A a \in Attempts : Busy(r, a) => Lease(r, a)
LeasesInv == \A r \in Runs : Leased(r)

\* The run keeps its lease, and its executions or some of them.
KeepsLease(r) ==
    /\ run'[r].worker = run[r].worker /\ run'[r].attempt = run[r].attempt
    /\ Operational(r) => Operational(r)'
    /\ run[r].heartbeat = "fresh" => run'[r].heartbeat = "fresh"
    /\ \A a \in Attempts : Busy(r, a)' =>
          Busy(r, a) /\ exec'[r][a].worker = exec[r][a].worker
LivesOn == \A w \in Workers : Alive(w) => Alive(w)'

LEMMA LeaseKept ==
    ASSUME NEW r \in Runs, Leased(r), KeepsLease(r), LivesOn
    PROVE  Leased(r)'
BY DEF Leased, Lease, KeepsLease, LivesOn, Owns

\* Nothing of the run is left in memory.
LEMMA NoneLeased ==
    ASSUME NEW r \in Runs, \A a \in Attempts : ~Busy(r, a)'
    PROVE  Leased(r)'
BY DEF Leased

\* A run that nobody holds, or that is stale, has no execution.
LEMMA NotBusy ==
    ASSUME NEW r \in Runs, Leased(r), ~Operational(r) \/ run[r].heartbeat # "fresh"
    PROVE  \A a \in Attempts : ~Busy(r, a)
BY DEF Leased, Lease

\* An execution that holds its run is the only one.
LEMMA OnlyOne ==
    ASSUME TypeOK, NEW r \in Runs, Leased(r), NEW a \in Attempts, Busy(r, a), NEW b \in Attempts, b # a
    PROVE  ~Busy(r, b)
BY DEF Leased, Lease, Owns

\* Processes other than the one that ends keep theirs.
LEMMA ProcessesLease ==
    ASSUME TypeOK, LeasesInv, NEW w \in Workers,
           \/ Boot(w) \/ StartPolling(w) \/ Stop(w) \/ PollEnds(w) \/ Exit(w) \/ Crash(w)
           \/ Surveys(w)
    PROVE  LeasesInv'
<1> USE DEF TypeOK
<1>1. CASE Boot(w) \/ StartPolling(w) \/ Stop(w) \/ PollEnds(w)
  <2>1. LivesOn
    BY <1>1 DEF Boot, StartPolling, Stop, PollEnds, LivesOn, Alive, ProcStates
  <2>2. run' = run /\ exec' = exec
    BY <1>1 DEF Boot, StartPolling, Stop, PollEnds
  <2>3. \A r \in Runs : KeepsLease(r)
    BY <2>2 DEF KeepsLease, Operational, Busy
  <2>4. QED BY <2>1, <2>3, LeaseKept DEF LeasesInv
<1>2. CASE Exit(w) \/ Crash(w)
  <2>1. Vanish(w) /\ proc' = [proc EXCEPT ![w] = "dead"]
    BY <1>2 DEF Exit, Crash
  <2>2. \A r \in Runs : /\ run'[r].worker = run[r].worker /\ run'[r].attempt = run[r].attempt
                        /\ run'[r].status = run[r].status
                        /\ run[r].heartbeat = "fresh" => run'[r].heartbeat = "fresh"
    BY <1>2 DEF Exit, Crash, Beat, RunRow
  <2>3. SUFFICES ASSUME NEW r \in Runs, NEW a \in Attempts, Busy(r, a)' PROVE Lease(r, a)'
    BY DEF LeasesInv, Leased
  <2>4. exec'[r][a] = exec[r][a] /\ exec[r][a].worker # w /\ Busy(r, a)
    BY <2>1, <2>3 DEF Vanish, HeldBy, Busy, Idle
  <2>5. Lease(r, a)
    BY <2>4 DEF LeasesInv, Leased
  <2>6. Alive(exec[r][a].worker)'
    BY <2>1, <2>4, <2>5 DEF Lease, Alive
  <2>7. QED BY <2>2, <2>4, <2>5, <2>6 DEF Lease, Owns, Operational
<1>3. CASE Surveys(w)
  <2>1. UNCHANGED <<run, proc, exec>>
    BY <1>3 DEF Surveys, Ask, PassFails, PassOver
  <2>2. QED BY <2>1 DEF LeasesInv, Leased, Lease, Busy, Alive, Owns, Operational
<1>4. QED BY <1>1, <1>2, <1>3

\* What the API, recovery, time and the engine do to the run r, leaving the
\* others and the processes.
Changes(r) ==
    /\ proc' = proc
    /\ \A s \in Runs \ {r} : run'[s] = run[s] /\ exec'[s] = exec[s]

LEMMA ChangesKeep ==
    ASSUME LeasesInv, NEW r \in Runs, Changes(r), Leased(r)'
    PROVE  LeasesInv'
<1>1. LivesOn
  BY DEF Changes, LivesOn, Alive
<1>2. \A s \in Runs \ {r} : KeepsLease(s)
  BY DEF Changes, KeepsLease, Operational, Busy
<1>3. \A s \in Runs \ {r} : Leased(s)'
  BY <1>1, <1>2, LeaseKept DEF LeasesInv
<1>4. QED BY <1>3 DEF LeasesInv

LEMMA RequestsLease ==
    ASSUME TypeOK, LeasesInv, NEW r \in Runs,
           Submit(r) \/ CancelQueued(r) \/ CancelRunning(r) \/ BackoffElapses(r)
    PROVE  LeasesInv'
<1> USE DEF TypeOK
<1>1. Changes(r) /\ exec' = exec
  BY DEF Changes, Submit, CancelQueued, CancelRunning, BackoffElapses
<1>2. CASE CancelRunning(r)
  <2>1. KeepsLease(r)
    BY <1>1, <1>2 DEF CancelRunning, KeepsLease, ToCancelling, RunRow, Operational,
                      OperationalStatuses, Busy
  <2>2. LivesOn
    BY <1>1 DEF Changes, LivesOn, Alive
  <2>3. QED BY <1>1, <2>1, <2>2, LeaseKept, ChangesKeep DEF LeasesInv
<1>3. CASE Submit(r) \/ CancelQueued(r) \/ BackoffElapses(r)
  <2>1. ~Operational(r)
    BY <1>3 DEF Submit, CancelQueued, BackoffElapses, Operational, OperationalStatuses
  <2>2. \A a \in Attempts : ~Busy(r, a)'
    BY <1>1, <2>1, NotBusy DEF LeasesInv, Busy
  <2>3. QED BY <1>1, <2>2, NoneLeased, ChangesKeep
<1>4. QED BY <1>2, <1>3

LEMMA RecoveryLeases ==
    ASSUME TypeOK, LeasesInv, NEW r \in Runs, NEW w \in Workers,
           RecoverRunning(w, r) \/ RecoverCancelling(w, r)
    PROVE  LeasesInv'
<1>1. Changes(r) /\ exec' = exec
  BY DEF TypeOK, Changes, RecoverRunning, RecoverCancelling
<1>2. run[r].heartbeat # "fresh"
  BY DEF RecoverRunning, RecoverCancelling, Recovers, Stale
<1>3. \A a \in Attempts : ~Busy(r, a)'
  BY <1>1, <1>2, NotBusy DEF LeasesInv, Busy
<1>4. QED BY <1>1, <1>3, NoneLeased, ChangesKeep

LEMMA HeartbeatLeases ==
    ASSUME TypeOK, LeasesInv, NEW r \in Runs, "stall" \notin Faults,
           HeartbeatAges(r) \/ \E a \in Attempts : Heartbeat(r, a)
    PROVE  LeasesInv'
<1> USE DEF TypeOK
<1>1. Changes(r) /\ exec' = exec
  BY DEF Changes, HeartbeatAges, Heartbeat, Beat
<1>2. CASE HeartbeatAges(r)
  <2>1. \A a \in Attempts : ~Busy(r, a)
    BY <1>2 DEF HeartbeatAges, LeasesInv, Leased, Lease, Busy
  <2>2. \A a \in Attempts : ~Busy(r, a)'
    BY <1>1, <2>1 DEF Busy
  <2>3. QED BY <1>1, <2>2, NoneLeased, ChangesKeep
<1>3. CASE \E a \in Attempts : Heartbeat(r, a)
  <2>1. KeepsLease(r)
    <3>1. run' = [run EXCEPT ![r] = [run[r] EXCEPT !.heartbeat = "fresh"]]
      BY <1>3 DEF Heartbeat, Beat
    <3>2. /\ run'[r].worker = run[r].worker /\ run'[r].attempt = run[r].attempt
          /\ run'[r].status = run[r].status /\ run'[r].heartbeat = "fresh"
      BY <3>1 DEF RunRow
    <3>3. QED
      BY <1>1, <3>2 DEF KeepsLease, Operational, Busy
  <2>2. LivesOn
    BY <1>1 DEF Changes, LivesOn, Alive
  <2>3. QED BY <1>1, <2>1, <2>2, LeaseKept, ChangesKeep DEF LeasesInv
<1>4. QED BY <1>2, <1>3

\* A claim is of a run nobody holds.
LEMMA ClaimLeases ==
    ASSUME TypeOK, LeasesInv, NEW r \in Runs, NEW w \in Workers, Claim(w, r)
    PROVE  LeasesInv'
<1> USE DEF TypeOK
<1>1. \A a \in Attempts : ~Busy(r, a)
  <2>1. ~Operational(r)
    BY DEF Claim, Operational, OperationalStatuses
  <2>2. QED BY <2>1, NotBusy DEF LeasesInv
<1>2. LivesOn /\ Alive(w)'
  BY DEF Claim, LivesOn, Alive, ProcStates
<1>3. \A s \in Runs \ {r} : Leased(s)'
  <2>1. \A s \in Runs \ {r} : KeepsLease(s)
    BY DEF Claim, KeepsLease, Operational, Busy
  <2>2. QED BY <1>2, <2>1, LeaseKept DEF LeasesInv
<1>4. /\ run'[r].status = "running" /\ run'[r].worker = w /\ run'[r].heartbeat = "fresh"
      /\ run'[r].attempt = run[r].attempt + 1
  BY DEF Claim, ToRunning, RunRow
<1>5. \A a \in Attempts : Busy(r, a)' => Lease(r, a)'
  <2> SUFFICES ASSUME NEW a \in Attempts, Busy(r, a)' PROVE Lease(r, a)'
    OBVIOUS
  <2>1. a = run[r].attempt + 1 /\ exec'[r][a].worker = w
    BY <1>1 DEF Claim, Busy, Idle
  <2>2. QED BY <1>2, <1>4, <2>1 DEF Lease, Owns, Operational, OperationalStatuses
<1>6. QED BY <1>3, <1>5 DEF LeasesInv, Leased

\* An execution that ends or raises is the only one of its run.
LEMMA EndingLeases ==
    ASSUME TypeOK, LeasesInv, NEW r \in Runs, NEW a \in Attempts, Busy(r, a), proc' = proc,
           \A s \in Runs \ {r} : run'[s] = run[s], Ends(r, a) \/ Raises(r, a)
    PROVE  LeasesInv'
<1>1. Changes(r)
  BY DEF TypeOK, Changes, Ends, Raises
<1>2. \A b \in Attempts : ~Busy(r, b)'
  <2> SUFFICES ASSUME NEW b \in Attempts PROVE ~Busy(r, b)'
    OBVIOUS
  <2>1. CASE b = a
    <3>1. exec'[r][a].pc \in {"idle", "raised"}
      BY DEF TypeOK, Ends, Raises, Idle
    <3>2. QED BY <2>1, <3>1 DEF Busy
  <2>2. CASE b # a
    <3>1. exec'[r][b] = exec[r][b]
      BY <2>2 DEF TypeOK, Ends, Raises
    <3>2. ~Busy(r, b)
      BY <2>2, OnlyOne DEF LeasesInv
    <3>3. QED BY <3>1, <3>2 DEF Busy
  <2>3. QED BY <2>1, <2>2
<1>3. QED BY <1>1, <1>2, NoneLeased, ChangesKeep

\* One that goes on leaves the lease as it is.
LEMMA GoingOnLeases ==
    ASSUME TypeOK, LeasesInv, NEW r \in Runs, NEW a \in Attempts, Busy(r, a), proc' = proc,
           \A s \in Runs \ {r} : run'[s] = run[s],
           \A s \in Runs \ {r} : exec'[s] = exec[s],
           run'[r].worker = run[r].worker, run'[r].attempt = run[r].attempt,
           run'[r].status = run[r].status, run'[r].heartbeat = run[r].heartbeat,
           \A b \in Attempts : exec'[r][b].worker = exec[r][b].worker,
           \A b \in Attempts \ {a} : exec'[r][b].pc = exec[r][b].pc
    PROVE  LeasesInv'
<1>1. KeepsLease(r)
  BY DEF KeepsLease, Operational, Busy
<1>2. LivesOn /\ Changes(r)
  BY DEF LivesOn, Alive, Changes
<1>3. QED BY <1>1, <1>2, LeaseKept, ChangesKeep DEF LeasesInv

LEMMA EngineLeases ==
    ASSUME TypeOK, LeasesInv, NEW r \in Runs, NEW a \in Attempts,
           Engine(r, a) \/ EngineAborts(r, a)
    PROVE  LeasesInv'
<1> USE DEF TypeOK
<1>1. Busy(r, a) /\ proc' = proc
  BY DEF Engine, EngineAborts, Prepare, Checkpoint, StepReturns, Discard, CommitSuccess,
         PersistFails, CommitFailure, At, Busy
<1>2. \A s \in Runs \ {r} : run'[s] = run[s]
  <2>1. CASE Prepare(r, a)
    BY <2>1 DEF Prepare, Fails
  <2>2. CASE Checkpoint(r, a)
    BY <2>2 DEF Checkpoint, Fails
  <2>3. CASE StepReturns(r, a) \/ Discard(r, a) \/ PersistFails(r, a) \/ EngineAborts(r, a)
    BY <2>3 DEF StepReturns, Discard, PersistFails, EngineAborts
  <2>4. CASE CommitSuccess(r, a)
    BY <2>4 DEF CommitSuccess
  <2>5. CASE CommitFailure(r, a)
    BY <2>5 DEF CommitFailure, Fails
  <2>6. QED BY <2>1, <2>2, <2>3, <2>4, <2>5 DEF Engine
<1>3. CASE Ends(r, a) \/ Raises(r, a)
  BY <1>1, <1>2, <1>3, EndingLeases
<1>4. CASE ~Ends(r, a) /\ ~Raises(r, a)
  <2> DEFINE GoesOn ==
        /\ \A s \in Runs \ {r} : exec'[s] = exec[s]
        /\ run'[r].worker = run[r].worker /\ run'[r].attempt = run[r].attempt
        /\ run'[r].status = run[r].status /\ run'[r].heartbeat = run[r].heartbeat
        /\ \A b \in Attempts : exec'[r][b].worker = exec[r][b].worker
        /\ \A b \in Attempts \ {a} : exec'[r][b].pc = exec[r][b].pc
  <2>1. CASE Prepare(r, a)
    <3>1. /\ exec' = [exec EXCEPT ![r][a] = [@ EXCEPT !.pc = "checkpoint", !.at = FirstPending(r)]]
          /\ run' = run
      BY <1>4, <2>1 DEF Prepare
    <3>2. GoesOn
      BY <3>1 DEF Execution
    <3>3. QED BY <1>1, <1>2, <3>2, GoingOnLeases
  <2>2. CASE Checkpoint(r, a)
    <3>1. /\ exec' = [exec EXCEPT ![r][a].pc = "execute",
                         ![r][a].stepAttempt = step[r][exec[r][a].at].attempt + 1]
          /\ run' = run
      BY <1>4, <2>2 DEF Checkpoint
    <3>2. GoesOn
      BY <3>1 DEF Execution
    <3>3. QED BY <1>1, <1>2, <3>2, GoingOnLeases
  <2>3. CASE StepReturns(r, a) \/ PersistFails(r, a)
    <3>1. run' = run
      BY <2>3 DEF StepReturns, PersistFails
    <3>2. ASSUME StepReturns(r, a) PROVE GoesOn
      <4>1. PICK o \in Outcomes :
              exec' = [exec EXCEPT ![r][a].pc = "persist", ![r][a].outcome = o]
        BY <3>2 DEF StepReturns
      <4>2. QED BY <3>1, <4>1 DEF Execution
    <3>3. ASSUME PersistFails(r, a) PROVE GoesOn
      <4>1. PICK o \in Outcomes : exec' = [exec EXCEPT ![r][a].outcome = o]
        BY <3>3 DEF PersistFails, Outcomes
      <4>2. QED BY <3>1, <4>1 DEF Execution
    <3>4. GoesOn
      BY <2>3, <3>2, <3>3
    <3>5. QED BY <1>1, <1>2, <3>4, GoingOnLeases
  <2>4. CASE CommitSuccess(r, a)
    <3> DEFINE i == exec[r][a].at
    <3>1. /\ run' = [run EXCEPT ![r] = [run[r] EXCEPT !.progress = SucceededCount(i)]]
          /\ exec' = [exec EXCEPT ![r][a] = [@ EXCEPT !.pc = "checkpoint", !.at = i + 1,
                                                      !.stepAttempt = 0, !.outcome = "none"]]
      BY <1>4, <2>4 DEF CommitSuccess
    <3>2. GoesOn
      BY <3>1 DEF Execution, RunRow
    <3>3. QED BY <1>1, <1>2, <3>2, GoingOnLeases
  <2>5. QED
    BY <1>4, <2>1, <2>2, <2>3, <2>4 DEF Engine, EngineAborts, Discard, CommitFailure
<1>5. QED BY <1>3, <1>4

\* As long as no live worker is kept from its heartbeats, each owns every run
\* it is executing: claims, recovery passes of other processes, cancellations
\* and late outcomes take no run from under it.
THEOREM LiveOwnersKept == Spec => []LiveOwnerKept
<1>1. CASE "stall" \in Faults
  <2>1. LiveOwnerKept
    BY <1>1 DEF LiveOwnerKept
  <2>2. QED BY <2>1, PTL
<1>2. CASE "stall" \notin Faults
  <2>1. Init => LeasesInv
    BY DEF Init, LeasesInv, Leased, Busy, Idle
  <2>2. TypeOK /\ LeasesInv /\ [Next]_vars => LeasesInv'
    <3> SUFFICES ASSUME TypeOK, LeasesInv, [Next]_vars PROVE LeasesInv'
      OBVIOUS
    <3>1. CASE UNCHANGED vars
      BY <3>1 DEF vars, LeasesInv, Leased, Lease, Busy, Alive, Owns, Operational
    <3>2. ASSUME NEW r \in Runs, Submit(r) \/ CancelQueued(r) \/ CancelRunning(r) \/ BackoffElapses(r)
          PROVE  LeasesInv'
      BY <3>2, RequestsLease
    <3>3. ASSUME NEW w \in Workers,
                 \/ Boot(w) \/ StartPolling(w) \/ Stop(w) \/ PollEnds(w) \/ Exit(w)
                 \/ Crash(w) \/ Surveys(w)
          PROVE  LeasesInv'
      BY <3>3, ProcessesLease
    <3>4. ASSUME NEW w \in Workers, NEW r \in Runs, RecoverRunning(w, r) \/ RecoverCancelling(w, r)
          PROVE  LeasesInv'
      BY <3>4, RecoveryLeases
    <3>5. ASSUME NEW w \in Workers, NEW r \in Runs, Claim(w, r) PROVE LeasesInv'
      BY <3>5, ClaimLeases
    <3>6. ASSUME NEW r \in Runs, HeartbeatAges(r) \/ \E a \in Attempts : Heartbeat(r, a)
          PROVE  LeasesInv'
      BY <1>2, <3>6, HeartbeatLeases
    <3>7. ASSUME NEW r \in Runs, NEW a \in Attempts, Engine(r, a) \/ EngineAborts(r, a)
          PROVE  LeasesInv'
      BY <3>7, EngineLeases
    <3>8. QED
      BY <3>1, <3>2, <3>3, <3>4, <3>5, <3>6, <3>7 DEF Next, Recovery, Surveys
  <2>3. LeasesInv => LiveOwnerKept
    BY DEF LeasesInv, Leased, Lease, LiveOwnerKept, HeldBy, Busy
  <2>4. QED BY <2>1, <2>2, <2>3, TypeCorrect, PTL DEF Spec
<1>3. QED BY <1>1, <1>2

=============================================================================
