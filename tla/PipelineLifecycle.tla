-------------------------- MODULE PipelineLifecycle --------------------------
(***************************************************************************)
(* The status graphs of ADR-0009 as the code enforces them                 *)
(* (sofias_memory/domain/pipeline_lifecycle.py), the row mutations of      *)
(* services/pipeline_lifecycle.py, and the automatic-retry ceiling of      *)
(* pipelines/retry_policy.py.  No state: the modules that follow share     *)
(* these definitions.                                                      *)
(***************************************************************************)
EXTENDS Naturals

RunStatuses ==
    {"queued", "running", "cancelling", "succeeded", "failed", "cancelled"}

TerminalRunStatuses == {"succeeded", "failed", "cancelled"}

\* The statuses under which a run occupies its dataset (or everything).
OperationalStatuses == {"running", "cancelling"}

StepStatuses == {"queued", "running", "succeeded", "failed", "cancelled"}

RunTransitions ==
    { <<"queued", "running">>, <<"queued", "cancelled">>,
      <<"running", "succeeded">>, <<"running", "queued">>,
      <<"running", "failed">>, <<"running", "cancelling">>,
      <<"cancelling", "cancelled">>, <<"cancelling", "failed">> }

StepTransitions ==
    { <<"queued", "running">>, <<"queued", "cancelled">>,
      <<"running", "succeeded">>, <<"running", "failed">>,
      <<"running", "queued">>, <<"running", "cancelled">> }

-----------------------------------------------------------------------------
(* transition_run, one operator per target status.  "due" stands for        *)
(* next_attempt_at being NULL or already past; "heartbeat" for the age of   *)
(* heartbeat_at against WORKER_STALE_AFTER_SECONDS.                         *)

ToRunning(row, w) ==
    [row EXCEPT !.status = "running", !.attempt = @ + 1, !.worker = w,
                !.heartbeat = "fresh", !.due = TRUE]

\* worker, attempt and heartbeat are left as history: only the delay is set.
ToQueued(row) == [row EXCEPT !.status = "queued", !.due = FALSE]

ToCancelling(row) == [row EXCEPT !.status = "cancelling"]

ToTerminal(row, target) == [row EXCEPT !.status = target, !.due = TRUE]

\* RetryPolicy.has_attempts_remaining
HasAttemptsRemaining(attempt, max) == attempt < max

=============================================================================
