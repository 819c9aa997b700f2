-------------------------- MODULE PipelineExecution --------------------------
(***************************************************************************)
(* The durable execution of pipeline runs: rows of pipeline_runs and       *)
(* pipeline_steps, the worker processes that claim and execute them, the   *)
(* user who cancels them and the startup pass that recovers what a lost    *)
(* worker left behind.                                                     *)
(*                                                                         *)
(* Every transaction of the code first locks the run's own row (FOR        *)
(* UPDATE), so one transaction on one run is one action here; whatever the *)
(* code does between two transactions is a state of its own in "exec".     *)
(* Who may claim is decided atomically in this module; the lock protocol   *)
(* that implements that decision is module QueueClaim.                     *)
(*                                                                         *)
(* A claim is identified by the run and the attempt number it was given:   *)
(* exec[r][a] is the in-memory engine execution that claim started.        *)
(***************************************************************************)
EXTENDS PipelineLifecycle, FiniteSets

CONSTANTS
    Runs,           \* pipeline run ids
    NumSteps,       \* length of every registered step plan
    Workers,        \* worker ids: one per process boot, never reused
    MaxAttempts,    \* MAX_RUN_ATTEMPTS
    MaxConcurrent,  \* WORKER_MAX_CONCURRENT_DATASETS
    DatasetOf,      \* [Runs -> dataset], Global for a run with dataset_id NULL
    Global,
    LegacyRuns,     \* pre-B5 rows: no step plan, no heartbeat
    AtomicSteps,    \* steps whose cancellation_recovery_mode is ATOMIC
    RecoveryLimit,  \* DEFAULT_RECOVERY_SCAN_LIMIT
    Faults,         \* which faults may happen, see the fault actions
    NoWorker

Steps == 1..NumSteps
Attempts == 1..MaxAttempts
AllFaults == {"crash", "shutdown", "stall", "engine", "drift", "reconfigure", "recovery"}

ASSUME NumStepsAssumption == NumSteps \in Nat /\ NumSteps >= 1
ASSUME MaxAttemptsAssumption == MaxAttempts \in Nat /\ MaxAttempts >= 1
ASSUME MaxConcurrentAssumption == MaxConcurrent \in Nat /\ MaxConcurrent >= 1
ASSUME RecoveryLimitAssumption == RecoveryLimit \in Nat /\ RecoveryLimit >= 1
ASSUME LegacyAssumption ==
    /\ LegacyRuns \subseteq Runs
    /\ \A r, s \in LegacyRuns : r # s =>
          /\ DatasetOf[r] # DatasetOf[s]
          /\ Global \notin {DatasetOf[r], DatasetOf[s]}
ASSUME NoWorkerAssumption == NoWorker \notin Workers

VARIABLES
    run,    \* the pipeline_runs table
    step,   \* the pipeline_steps table
    proc,   \* the worker process behind each worker id
    pass,   \* how far the startup recovery of each process has come
    exec,   \* engine executions in memory, by run and attempt
    effects \* how often each step's persist() has been committed (history)

vars == <<run, step, proc, pass, exec, effects>>

ProcStates == {"down", "recovering", "polling", "stopping", "draining", "dead"}

\* Idle: no such execution.  prepare, checkpoint and persist wait for their
\* transaction, execute is the step's own work outside any transaction, and
\* raised records that the engine raised PipelineEngineInvariantError.
ExecPhases == {"idle", "prepare", "checkpoint", "execute", "persist", "raised"}
Outcomes == {"none", "success", "retryable", "permanent"}

RunRow == [status : RunStatuses \cup {"absent"}, attempt : Nat,
           worker : Workers \cup {NoWorker},
           heartbeat : {"null", "fresh", "stale"}, due : BOOLEAN,
           progress : 0..NumSteps]
StepRow == [status : StepStatuses \cup {"absent"}, attempt : Nat]
Execution == [pc : ExecPhases, worker : Workers \cup {NoWorker},
              at : Steps, stepAttempt : Nat, outcome : Outcomes]

\* asked: the candidates of this round have been read.  todo: those not yet
\* looked at.  over (history): the stale runs the latest round has left.
Pass == [asked : BOOLEAN, todo : SUBSET Runs, recovered : BOOLEAN, over : SUBSET Runs]
NoPass == [asked |-> FALSE, todo |-> {}, recovered |-> FALSE, over |-> {}]

Idle == [pc |-> "idle", worker |-> NoWorker, at |-> 1, stepAttempt |-> 0,
         outcome |-> "none"]

TypeOK ==
    /\ run \in [Runs -> RunRow]
    /\ step \in [Runs -> [Steps -> StepRow]]
    /\ proc \in [Workers -> ProcStates]
    /\ pass \in [Workers -> Pass]
    /\ exec \in [Runs -> [Attempts -> Execution]]
    /\ effects \in [Runs -> [Steps -> Nat]]

-----------------------------------------------------------------------------
(* Reading the tables *)

StepsIn(r, s) == {i \in Steps : step[r][i].status = s}
HasPlan(r) == StepsIn(r, "absent") = {}
Operational(r) == run[r].status \in OperationalStatuses
AllSucceeded(r) == \A i \in Steps : step[r][i].status = "succeeded"

\* exists_dataset_conflict, exists_any_dataset_scoped_conflict and
\* exists_other_global_conflict: s occupies what r needs.
SameScope(r, s) ==
    \/ DatasetOf[r] = DatasetOf[s]
    \/ DatasetOf[r] = Global
    \/ DatasetOf[s] = Global
ScopeFree(r) == \A s \in Runs \ {r} : SameScope(r, s) => ~Operational(s)

\* _validate_plan, the part about step order: a succeeded prefix followed
\* by queued steps only.
FirstPending_Last(r) ==
    CHOOSE i \in Steps : /\ step[r][i].status = "queued"
                         /\ \A j \in (i+1)..NumSteps : step[r][j].status # "queued"
FirstPending(r) ==
    CHOOSE i \in Steps : /\ step[r][i].status # "succeeded"
                         /\ \A j \in 1..(i-1) : step[r][j].status = "succeeded"
PlanResumable_FirstTryOnly(r) == \A i \in Steps : step[r][i].attempt = 0
PlanResumable(r) ==
    \A i \in Steps : \/ step[r][i].status = "queued"
                     \/ /\ step[r][i].status = "succeeded"
                        /\ \A j \in 1..i : step[r][j].status = "succeeded"

\* _cancel_queued and its twins: the row function of one run with every
\* step in status "from" moved to status "to".
MoveSteps(r, from, to) ==
    [i \in Steps |-> IF step[r][i].status = from
                     THEN [step[r][i] EXCEPT !.status = to]
                     ELSE step[r][i]]

-----------------------------------------------------------------------------
(* Processes and the executions they hold *)

Alive(w) == proc[w] \in ProcStates \ {"down", "dead"}
Serving == \E w \in Workers : proc[w] \in {"recovering", "polling"}
HeldBy(w) ==
    {c \in Runs \X Attempts : /\ exec[c[1]][c[2]].pc \notin {"idle", "raised"}
                              /\ exec[c[1]][c[2]].worker = w}
At(r, a, pc) == exec[r][a].pc = pc /\ Alive(exec[r][a].worker)
StopRequested(r, a) == proc[exec[r][a].worker] \in {"stopping", "draining"}

\* _is_owner: the fencing token is (worker_id, attempt).
Owns(r, a) == run[r].worker = exec[r][a].worker /\ run[r].attempt = a

Ends(r, a) == exec' = [exec EXCEPT ![r][a] = Idle]
Raises(r, a) == exec' = [exec EXCEPT ![r][a] = [Idle EXCEPT !.pc = "raised"]]

\* A row is born absent; a legacy row was left RUNNING by the synchronous
\* writers that preceded the worker.
InitialRow(r) ==
    [status |-> IF r \in LegacyRuns THEN "running" ELSE "absent",
     attempt |-> IF r \in LegacyRuns THEN 1 ELSE 0,
     worker |-> NoWorker, heartbeat |-> "null", due |-> TRUE, progress |-> 0]

Init ==
    /\ run = [r \in Runs |-> InitialRow(r)]
    /\ step = [r \in Runs |-> [i \in Steps |-> [status |-> "absent", attempt |-> 0]]]
    /\ proc = [w \in Workers |-> "down"]
    /\ pass = [w \in Workers |-> NoPass]
    /\ exec = [r \in Runs |-> [a \in Attempts |-> Idle]]
    /\ effects = [r \in Runs |-> [i \in Steps |-> 0]]

-----------------------------------------------------------------------------
(* The API: submission and cancellation *)

\* PipelineSubmissionService: the worker gate, then the run and all of its
\* steps are created queued in one transaction.
Submit(r) ==
    /\ \E w \in Workers : proc[w] = "polling"
    /\ run[r].status = "absent"
    /\ run' = [run EXCEPT ![r].status = "queued"]
    /\ step' = [step EXCEPT ![r] = [i \in Steps |-> [status |-> "queued", attempt |-> 0]]]
    /\ UNCHANGED <<proc, pass, exec, effects>>

\* RunControlService.cancel on a queued run: its queued steps go with it.
CancelQueued(r) ==
    /\ Serving
    /\ run[r].status = "queued"
    /\ StepsIn(r, "running") = {}
    /\ step' = [step EXCEPT ![r] = MoveSteps(r, "queued", "cancelled")]
    /\ run' = [run EXCEPT ![r] = ToTerminal(@, "cancelled")]
    /\ UNCHANGED <<proc, pass, exec, effects>>

\* RunControlService.cancel on a running run: the intent only.  On any other
\* status the request changes nothing.
CancelRunning(r) ==
    /\ Serving
    /\ run[r].status = "running"
    /\ run' = [run EXCEPT ![r] = ToCancelling(@)]
    /\ UNCHANGED <<step, proc, pass, exec, effects>>

-----------------------------------------------------------------------------
(* The process: boot, startup recovery, polling, shutdown, crash *)

Boot(w) ==
    /\ proc[w] = "down"
    /\ proc' = [proc EXCEPT ![w] = "recovering"]
    /\ UNCHANGED <<run, step, pass, exec, effects>>

\* _is_stale, with include_null_heartbeat as the startup pass sets it.
Stale_AnyAge(r) == Operational(r)
Stale_RunningOnly(r) == run[r].status = "running" /\ run[r].heartbeat \in {"null", "stale"}
Stale(r) == Operational(r) /\ run[r].heartbeat \in {"null", "stale"}

\* list_stale_candidate_ids: no more than the limit at once.  (The oldest ones;
\* age is left open here.)
StaleRuns == {r \in Runs : Stale(r)}
Batch(S) ==
    /\ S \subseteq StaleRuns
    /\ Cardinality(S) <= RecoveryLimit
    /\ S = StaleRuns \/ Cardinality(S) = RecoveryLimit

\* recover_startup asks again as long as a round recovers something.
AnotherRound(w) == pass[w].recovered
RoundOver(w) == pass[w].asked /\ pass[w].todo = {}

\* _recover_batch
Ask(w) ==
    /\ proc[w] = "recovering"
    /\ pass[w].asked => RoundOver(w) /\ AnotherRound(w)
    /\ \E S \in SUBSET Runs :
          /\ Batch(S)
          /\ pass' = [pass EXCEPT ![w] = [asked |-> TRUE, todo |-> S, recovered |-> FALSE,
                                         over |-> StaleRuns \ S]]
    /\ UNCHANGED <<run, step, proc, exec, effects>>

\* get_stale_for_update skips a row another transaction holds (a rival's
\* recovery, a heartbeat, a cancel request, also one that changes nothing), and
\* a run that has moved on since it was listed is left alone.
PassOver(w, r) ==
    /\ proc[w] = "recovering" /\ r \in pass[w].todo
    /\ pass' = [pass EXCEPT ![w].todo = @ \ {r},
                            ![w].over = @ \cup ({r} \cap StaleRuns)]
    /\ UNCHANGED <<run, step, proc, exec, effects>>

\* The row is locked and is still stale.
Recovers(w, r) ==
    /\ proc[w] = "recovering" /\ r \in pass[w].todo
    /\ Stale(r)
    /\ pass' = [pass EXCEPT ![w].todo = @ \ {r}, ![w].recovered = TRUE]

\* The pass raises (the database is gone) and bootstrap starts over.
PassFails(w) ==
    /\ "recovery" \in Faults
    /\ proc[w] = "recovering"
    /\ pass' = [pass EXCEPT ![w] = NoPass]
    /\ UNCHANGED <<run, step, proc, exec, effects>>

\* What becomes of a running step whose worker is lost: _fail_running_step, or
\* back to the queue.
ReleasedSteps_KeepRunning(r, hopeless) ==
    IF hopeless THEN step[r] ELSE MoveSteps(r, "running", "queued")
ReleasedSteps(r, hopeless) ==
    MoveSteps(r, "running", IF hopeless THEN "failed" ELSE "queued")

\* _recover_running: fail the run when it must not be resumed, otherwise give
\* its one running step and the run itself back to the queue.
RecoverRunning(w, r) ==
    /\ Recovers(w, r) /\ run[r].status = "running"
    /\ \E reconfigured \in BOOLEAN :
          /\ reconfigured => "reconfigure" \in Faults
          /\ LET hopeless ==
                    \/ reconfigured
                    \/ run[r].heartbeat = "null"
                    \/ ~HasAttemptsRemaining(run[r].attempt, MaxAttempts)
                    \/ ~HasPlan(r)
                    \/ Cardinality(StepsIn(r, "running")) > 1
                    \/ AllSucceeded(r)
             IN  /\ step' = [step EXCEPT ![r] = ReleasedSteps(r, hopeless)]
                 /\ run' = [run EXCEPT ![r] =
                       IF hopeless THEN ToTerminal(@, "failed") ELSE ToQueued(@)]
    /\ UNCHANGED <<proc, exec, effects>>

\* _recover_cancelling: never resumes work.  The orphaned step is classified
\* safe (ATOMIC, or reconciled) or ambiguous; only safe may end CANCELLED.
\* With no step running the pass reports the run complete.
RecoverCancelling(w, r) ==
    /\ Recovers(w, r) /\ run[r].status = "cancelling"
    /\ LET running == StepsIn(r, "running")
           hopeless == \/ run[r].heartbeat = "null"
                       \/ ~HasPlan(r)
                       \/ Cardinality(running) > 1
       IN  \E safe \in IF running \subseteq AtomicSteps THEN {TRUE} ELSE BOOLEAN :
              IF hopeless \/ ~safe
              THEN /\ step' = [step EXCEPT ![r] = ReleasedSteps(r, TRUE)]
                   /\ run' = [run EXCEPT ![r] = ToTerminal(@, "failed")]
              ELSE /\ step' = [step EXCEPT ![r] =
                                 [i \in Steps |->
                                    IF step[r][i].status \in {"queued", "running"}
                                    THEN [step[r][i] EXCEPT !.status = "cancelled"]
                                    ELSE step[r][i]]]
                   /\ run' = [run EXCEPT ![r] =
                                [ToTerminal(@, "cancelled") EXCEPT !.progress =
                                   IF /\ running = {}
                                      /\ \A i \in Steps : step'[r][i].status
                                                          \in {"succeeded", "cancelled"}
                                   THEN NumSteps ELSE run[r].progress]]
    /\ UNCHANGED <<proc, exec, effects>>

\* recover_startup returns once a round has recovered nothing, whatever it passed
\* over and whatever has become stale since it asked; then the worker starts.
StartPolling(w) ==
    /\ proc[w] = "recovering"
    /\ RoundOver(w) /\ ~AnotherRound(w)
    /\ proc' = [proc EXCEPT ![w] = "polling"]
    /\ pass' = [pass EXCEPT ![w] = NoPass]
    /\ UNCHANGED <<run, step, exec, effects>>

\* PipelineRunClaimer, as one step: a due queued run whose scope is free.
\* Which of several claimable runs is taken is left open (QueueClaim).  A
\* claim in flight when the stop signal arrives is still dispatched.
Claim(w, r) ==
    /\ proc[w] \in {"polling", "stopping"}
    /\ Cardinality(HeldBy(w)) < MaxConcurrent
    /\ run[r].status = "queued" /\ run[r].due
    /\ ScopeFree(r)
    /\ run' = [run EXCEPT ![r] = ToRunning(@, w)]
    /\ exec' = [exec EXCEPT ![r][run[r].attempt + 1] =
                  [Idle EXCEPT !.pc = "prepare", !.worker = w]]
    /\ proc' = [proc EXCEPT ![w] = IF @ = "stopping" THEN "draining" ELSE @]
    /\ UNCHANGED <<step, pass, effects>>

\* stop(): the event is set, then the poll task is awaited.
Stop(w) ==
    /\ "shutdown" \in Faults
    /\ proc[w] = "polling"
    /\ proc' = [proc EXCEPT ![w] = "stopping"]
    /\ UNCHANGED <<run, step, pass, exec, effects>>

PollEnds(w) ==
    /\ proc[w] = "stopping"
    /\ proc' = [proc EXCEPT ![w] = "draining"]
    /\ UNCHANGED <<run, step, pass, exec, effects>>

\* heartbeat_if_owned for a set of runs.
Beat(owned) ==
    [r \in Runs |-> IF r \in owned THEN [run[r] EXCEPT !.heartbeat = "fresh"] ELSE run[r]]

\* The executions of a process end with it, whatever they were doing: a
\* forced cancellation lands between two transactions.
Vanish(w) ==
    exec' = [r \in Runs |-> [a \in Attempts |->
               IF <<r, a>> \in HeldBy(w) THEN Idle ELSE exec[r][a]]]

\* End of stop(): whatever is left after the grace period is cancelled, then
\* one last best-effort heartbeat reaches some of the runs it still owned.
Exit(w) ==
    /\ proc[w] = "draining"
    /\ \E reached \in SUBSET {r \in Runs : run[r].worker = w /\ Operational(r)} :
          run' = Beat(reached)
    /\ Vanish(w)
    /\ proc' = [proc EXCEPT ![w] = "dead"]
    /\ UNCHANGED <<step, pass, effects>>

Crash(w) ==
    /\ "crash" \in Faults
    /\ Alive(w)
    /\ Vanish(w)
    /\ proc' = [proc EXCEPT ![w] = "dead"]
    /\ pass' = [pass EXCEPT ![w] = NoPass]
    /\ UNCHANGED <<run, step, effects>>

-----------------------------------------------------------------------------
(* Time *)

\* _heartbeat_once of a live execution.
Heartbeat(r, a) ==
    /\ exec[r][a].pc \notin {"idle", "raised"} /\ Alive(exec[r][a].worker)
    /\ Owns(r, a) /\ Operational(r)
    /\ run[r].heartbeat # "fresh"
    /\ run' = Beat({r})
    /\ UNCHANGED <<step, proc, pass, exec, effects>>

\* WORKER_STALE_AFTER_SECONDS pass without a heartbeat: always once nobody
\* beats, and, as a fault, when the live owner cannot reach the database.
HeartbeatAges(r) ==
    /\ Operational(r) /\ run[r].heartbeat = "fresh"
    /\ \/ "stall" \in Faults
       \/ \A a \in Attempts : exec[r][a].pc \in {"idle", "raised"} \/ ~Owns(r, a)
    /\ run' = [run EXCEPT ![r].heartbeat = "stale"]
    /\ UNCHANGED <<step, proc, pass, exec, effects>>

\* next_attempt_at is reached.
BackoffElapses(r) ==
    /\ run[r].status = "queued" /\ ~run[r].due
    /\ run' = [run EXCEPT ![r].due = TRUE]
    /\ UNCHANGED <<step, proc, pass, exec, effects>>

-----------------------------------------------------------------------------
(* The engine: one already-claimed attempt, one transaction at a time *)

\* validate_run_transition towards FAILED.
MayFail(r) == <<run[r].status, "failed">> \in RunTransitions

Fails(r) == run' = [run EXCEPT ![r] = ToTerminal(@, "failed")]

\* _prepare on a run this execution still owns.  transition_run refuses to
\* fail a run that recovery has requeued meanwhile.
Prepare(r, a) ==
    /\ At(r, a, "prepare")
    /\ \E drift \in BOOLEAN :
          /\ drift => "drift" \in Faults
          /\ LET sound == Owns(r, a) /\ ~drift /\ PlanResumable(r)
             IN  \/ /\ ~Owns(r, a)
                    /\ Ends(r, a) /\ UNCHANGED <<run, step>>
                 \/ /\ Owns(r, a) /\ drift /\ MayFail(r)
                    /\ Fails(r) /\ Ends(r, a) /\ UNCHANGED step
                 \/ /\ Owns(r, a)
                    /\ IF drift THEN ~MayFail(r)
                       ELSE ~PlanResumable(r) \/ ~Operational(r)
                    /\ Raises(r, a) /\ UNCHANGED <<run, step>>
                 \/ /\ sound /\ run[r].status = "cancelling"
                    /\ step' = [step EXCEPT ![r] = MoveSteps(r, "queued", "cancelled")]
                    /\ run' = [run EXCEPT ![r] = [ToTerminal(@, "cancelled") EXCEPT
                                 !.progress = IF AllSucceeded(r) THEN NumSteps
                                              ELSE run[r].progress]]
                    /\ Ends(r, a)
                 \/ /\ sound /\ run[r].status = "running"
                    /\ IF AllSucceeded(r)
                       THEN /\ run' = [run EXCEPT ![r] = [ToTerminal(@, "succeeded")
                                         EXCEPT !.progress = NumSteps]]
                            /\ Ends(r, a)
                       ELSE /\ exec' = [exec EXCEPT ![r][a] =
                                 [@ EXCEPT !.pc = "checkpoint", !.at = FirstPending(r)]]
                            /\ UNCHANGED run
                    /\ UNCHANGED step
    /\ UNCHANGED <<proc, pass, effects>>

\* _checkpoint_before_step: cancellation first, then the shutdown pause, then
\* the input hash; only then does the step start.
Checkpoint(r, a) ==
    /\ At(r, a, "checkpoint")
    /\ LET i == exec[r][a].at
           proceed == Owns(r, a) /\ step[r][i].status = "queued"
                                 /\ run[r].status = "running"
       IN  \/ /\ ~Owns(r, a)
              /\ Ends(r, a) /\ UNCHANGED <<run, step>>
           \/ /\ Owns(r, a)
              /\ step[r][i].status # "queued" \/ ~Operational(r)
              /\ Raises(r, a) /\ UNCHANGED <<run, step>>
           \/ /\ Owns(r, a) /\ step[r][i].status = "queued"
              /\ run[r].status = "cancelling"
              /\ step' = [step EXCEPT ![r] = MoveSteps(r, "queued", "cancelled")]
              /\ run' = [run EXCEPT ![r] = ToTerminal(@, "cancelled")]
              /\ Ends(r, a)
           \/ /\ proceed /\ StopRequested(r, a)
              /\ Ends(r, a) /\ UNCHANGED <<run, step>>
           \/ /\ proceed /\ ~StopRequested(r, a) /\ "drift" \in Faults
              /\ Fails(r) /\ Ends(r, a) /\ UNCHANGED step
           \/ /\ proceed /\ ~StopRequested(r, a)
              /\ step' = [step EXCEPT ![r][i] =
                            [status |-> "running", attempt |-> @.attempt + 1]]
              /\ exec' = [exec EXCEPT ![r][a].pc = "execute",
                                      ![r][a].stepAttempt = step[r][i].attempt + 1]
              /\ UNCHANGED run
    /\ UNCHANGED <<proc, pass, effects>>

\* _run_step: the step's own execute(), no lock and no transaction.
StepReturns(r, a) ==
    /\ At(r, a, "execute")
    /\ \E o \in Outcomes \ {"none"} :
          exec' = [exec EXCEPT ![r][a].pc = "persist", ![r][a].outcome = o]
    /\ UNCHANGED <<run, step, proc, pass, effects>>

\* _load_fenced_running_step
Superseded_Never(r, a) == FALSE
Superseded(r, a) ==
    LET s == step[r][exec[r][a].at]
    IN  \/ ~Owns(r, a)
        \/ s.status # "running"
        \/ s.attempt # exec[r][a].stepAttempt
Fenced(r, a) == ~Superseded(r, a) /\ Operational(r)

\* The outcome of a superseded execution is discarded.
Discard(r, a) ==
    /\ At(r, a, "persist")
    /\ Superseded(r, a)
    /\ Ends(r, a)
    /\ UNCHANGED <<run, step, proc, pass, effects>>

\* Where a run goes when its i-th step has succeeded.  (Variants, each with
\* one plausible mistake, precede the definition they vary.)
EndOf_SuccessWins(r, i) ==
    IF i = NumSteps THEN "succeeded"
    ELSE IF run[r].status = "cancelling" THEN "cancelled" ELSE "running"
EndOf(r, i) ==
    IF run[r].status = "cancelling" THEN "cancelled"
    ELSE IF i = NumSteps THEN "succeeded" ELSE "running"

\* The engine's own count of succeeded steps, once the i-th has succeeded.
SucceededCount(i) == i

\* _commit_success: persist(), the step's succeeded transition, the progress
\* and, on the last step or under cancellation, the run's own end, together.
CommitSuccess(r, a) ==
    /\ At(r, a, "persist") /\ exec[r][a].outcome = "success"
    /\ Fenced(r, a)
    /\ LET i == exec[r][a].at
           end == EndOf(r, i)
           row == [run[r] EXCEPT !.progress = SucceededCount(i)]
       IN  /\ effects' = [effects EXCEPT ![r][i] = @ + 1]
           /\ step' = [step EXCEPT ![r] = [j \in Steps |->
                 IF j = i THEN [step[r][i] EXCEPT !.status = "succeeded"]
                 ELSE IF end = "cancelled" THEN MoveSteps(r, "queued", "cancelled")[j]
                 ELSE step[r][j]]]
           /\ IF end = "running"
              THEN /\ run' = [run EXCEPT ![r] = row]
                   /\ exec' = [exec EXCEPT ![r][a] =
                         [@ EXCEPT !.pc = "checkpoint", !.at = i + 1,
                                   !.stepAttempt = 0, !.outcome = "none"]]
              ELSE /\ run' = [run EXCEPT ![r] = ToTerminal(row, end)]
                   /\ Ends(r, a)
    /\ UNCHANGED <<proc, pass>>

\* persist() raised: its transaction rolled back whole, and the outcome is
\* classified again, to be recorded in a transaction of its own.
PersistFails(r, a) ==
    /\ At(r, a, "persist") /\ exec[r][a].outcome = "success"
    /\ Fenced(r, a)
    /\ \E o \in {"retryable", "permanent"} : exec' = [exec EXCEPT ![r][a].outcome = o]
    /\ UNCHANGED <<run, step, proc, pass, effects>>

\* _commit_failure and _persist_failure_while_cancelling
CommitFailure(r, a) ==
    /\ At(r, a, "persist") /\ exec[r][a].outcome \in {"retryable", "permanent"}
    /\ Fenced(r, a)
    /\ LET i == exec[r][a].at
           retryable == exec[r][a].outcome = "retryable"
           again == retryable /\ HasAttemptsRemaining(run[r].attempt, MaxAttempts)
       IN  \/ /\ run[r].status = "cancelling" /\ retryable
              /\ step' = [step EXCEPT ![r] =
                    [MoveSteps(r, "queued", "cancelled") EXCEPT ![i].status = "cancelled"]]
              /\ run' = [run EXCEPT ![r] = ToTerminal(@, "cancelled")]
           \/ /\ run[r].status = "running" /\ again
              /\ step' = [step EXCEPT ![r][i].status = "queued"]
              /\ run' = [run EXCEPT ![r] = ToQueued(@)]
           \/ /\ IF run[r].status = "cancelling" THEN ~retryable ELSE ~again
              /\ step' = [step EXCEPT ![r][i].status = "failed"]
              /\ Fails(r)
    /\ Ends(r, a)
    /\ UNCHANGED <<proc, pass, effects>>

\* Any other exception of a transaction (the database is gone): the worker
\* swallows it and forgets the execution; the row stays as it was.
EngineAborts(r, a) ==
    /\ "engine" \in Faults
    /\ exec[r][a].pc \in {"prepare", "checkpoint", "persist"}
    /\ Alive(exec[r][a].worker)
    /\ Ends(r, a)
    /\ UNCHANGED <<run, step, proc, pass, effects>>

Engine(r, a) ==
    \/ Prepare(r, a) \/ Checkpoint(r, a) \/ StepReturns(r, a)
    \/ Discard(r, a) \/ CommitSuccess(r, a) \/ PersistFails(r, a)
    \/ CommitFailure(r, a)

Recovery(w) == \/ \E r \in Runs : RecoverRunning(w, r) \/ RecoverCancelling(w, r)
                                  \/ PassOver(w, r)
               \/ Ask(w) \/ StartPolling(w)

Next ==
    \/ \E r \in Runs : Submit(r) \/ CancelQueued(r) \/ CancelRunning(r)
    \/ \E w \in Workers : Boot(w) \/ Recovery(w) \/ Stop(w) \/ PollEnds(w)
                          \/ Exit(w) \/ Crash(w) \/ PassFails(w)
    \/ \E w \in Workers, r \in Runs : Claim(w, r)
    \/ \E r \in Runs : HeartbeatAges(r) \/ BackoffElapses(r)
    \/ \E r \in Runs, a \in Attempts :
          Heartbeat(r, a) \/ EngineAborts(r, a) \/ Engine(r, a)

Spec == Init /\ [][Next]_vars

-----------------------------------------------------------------------------
(* What the execution promises *)

\* A step starts, and a fortiori ends, only after every earlier step of the
\* plan has succeeded: across crashes, retries and resumptions the plan is
\* walked strictly in order, and at most one step runs at a time.
StepsInOrder ==
    \A r \in Runs, j \in Steps :
        step[r][j].status \in {"running", "succeeded", "failed"} =>
            \A i \in 1..(j-1) : step[r][i].status = "succeeded"

\* ADR-0009 SS 14, "no step remains RUNNING under a terminal run": a running
\* step always has a run that is still held, so cancel and claim never meet
\* the state RunControlService.cancel calls inconsistent.
NoOrphanStep ==
    \A r \in Runs, i \in Steps : step[r][i].status = "running" => Operational(r)

\* A step's persist() is committed exactly once if the step is recorded as
\* succeeded and never otherwise, whatever executions of it overlapped.
EffectsOnce ==
    \A r \in Runs, i \in Steps :
        effects[r][i] = IF step[r][i].status = "succeeded" THEN 1 ELSE 0

\* No run is tried more often than the retry ceiling, counting retries of
\* failed steps and recoveries of lost workers together.
AttemptCeiling ==
    \A r \in Runs : /\ run[r].attempt <= MaxAttempts
                    /\ run[r].status = "queued" => run[r].attempt < MaxAttempts

\* The states _recover_running calls impossible (every step succeeded, or two
\* steps running, under a run still held) never reach the recovery pass.
RecoverablePlan ==
    \A r \in Runs : Operational(r) =>
        /\ ~AllSucceeded(r)
        /\ Cardinality(StepsIn(r, "running")) <= 1

\* As long as heartbeats get through, no other process takes a run from the
\* execution that holds it, not even during an overlapping restart: a live
\* execution owns its run.
LiveOwnerKept ==
    "stall" \notin Faults =>
        \A w \in Workers : Alive(w) => \A c \in HeldBy(w) : Owns(c[1], c[2])

\* Two occupied scopes never meet: one run per dataset, a global run alone.
ScopeExclusion ==
    \A r, s \in Runs : r # s /\ Operational(r) /\ Operational(s) => ~SameScope(r, s)

\* An accepted cancellation is never lost: the run ends CANCELLED or FAILED,
\* and no further step is started on its way there.
CancelIntentKept ==
    [][\A r \in Runs : run[r].status = "cancelling" =>
          /\ run'[r].status \in {"cancelling", "cancelled", "failed"}
          /\ \A i \in Steps : step[r][i].status # "running" =>
                                 step'[r][i].status # "running"]_vars

\* A finished run is immutable: no late outcome, recovery or request changes
\* its row, its steps or the effects it committed.
TerminalForever ==
    [][\A r \in Runs : run[r].status \in TerminalRunStatuses =>
          run'[r] = run[r] /\ step'[r] = step[r] /\ effects'[r] = effects[r]]_vars

\* ADR-0009 line 102: progress is succeeded_steps / total_registered_steps.
ProgressIsSucceededShare ==
    \A r \in Runs : run[r].progress = Cardinality(StepsIn(r, "succeeded"))

\* engine.py line 112: the engine never meets a state the lifecycle contract
\* makes impossible.
EngineNeverRaises ==
    \A r \in Runs, a \in Attempts : exec[r][a].pc # "raised"

-----------------------------------------------------------------------------
(* Liveness.  The event loop runs every ready task and PostgreSQL answers:  *)
(* each transaction, step and timer that stays enabled is eventually taken. *)
(* Nothing obliges anybody to submit, cancel, stop or crash.                *)

Fairness ==
    /\ \A w \in Workers : /\ WF_vars(Boot(w)) /\ WF_vars(Recovery(w))
                          /\ WF_vars(PollEnds(w)) /\ WF_vars(Exit(w))
                          /\ \A r \in Runs : SF_vars(Claim(w, r))
    /\ \A r \in Runs : WF_vars(HeartbeatAges(r)) /\ WF_vars(BackoffElapses(r))
    /\ \A r \in Runs, a \in Attempts :
          WF_vars(Heartbeat(r, a)) /\ WF_vars(Engine(r, a))

FairSpec == Spec /\ Fairness

\* Every submitted run ends, through retries, backoffs, cancellation and recovery,
\* or some process is being stopped or is gone.  (Nothing more can be said: the
\* run of a process that is gone waits for a boot after it has become stale.)
EveryRunSettles ==
    \A r \in Runs :
        (run[r].status # "absent") ~>
            \/ run[r].status \in TerminalRunStatuses
            \/ \E w \in Workers : proc[w] \in {"stopping", "draining", "dead"}

\* Startup recovery does its part: a stale run that a booting process has yet to
\* ask for, or has found, is released, unless this process is lost or leaves it in
\* its last round, because others held its row at that moment or the rows of a
\* whole batch ahead of it.  (What becomes stale behind the last question stays.)
StaleRunsAreReleased ==
    \A r \in Runs, w \in Workers :
        (/\ run[r].status \in OperationalStatuses /\ run[r].heartbeat = "stale"
         /\ \/ proc[w] = "down"
            \/ proc[w] = "recovering" /\ (pass[w].asked => r \in pass[w].todo))
            ~> \/ run[r].status \notin OperationalStatuses \/ run[r].heartbeat # "stale"
               \/ proc[w] = "dead"
               \/ RoundOver(w) /\ ~pass[w].recovered /\ r \in pass[w].over

=============================================================================
