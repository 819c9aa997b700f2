----------------------------- MODULE Submission ------------------------------
(***************************************************************************)
(* How a pipeline run comes into being: the write routes, the idempotent   *)
(* submission behind them, manual retry, the administrative delete of a    *)
(* dataset and the barrier it raises, and the waiter.  A request is taken  *)
(* apart into its transactions, and the submitting transaction into its    *)
(* statements, at READ COMMITTED; what an engine does to a run between     *)
(* them is the environment (PipelineExecution has it in detail).           *)
(*                                                                         *)
(* One dataset (never `main`, which cannot be deleted) and one session     *)
(* that exists; a run is named by the request whose candidate id it has.   *)
(***************************************************************************)
EXTENDS Integers, FiniteSets

CONSTANTS
    Requests,
    Keys,     \* values of the Idempotency-Key header
    Works,    \* canonical work payloads
    Asks,     \* what clients send: [op, key, work, session, wait]
    Faults,   \* subset of {"crash", "commit", "read", "outage", "archive"}
    MaxFaults,    \* bound: how many of them happen
    MaxInFlight,  \* bound: how many requests are handled at a time
    None

Ops == {"text", "file", "url", "cognify", "improve", "forget_source", "forget_dataset",
        "everything", "retry", "delete"}

ASSUME NoneAssumption == None \notin Requests \cup Keys \cup Works
ASSUME KeysAssumption == Keys \cap Requests = {}
ASSUME WorksAssumption == Works # {}
\* What the routes accept: a session belongs to Remember, a key to what goes
\* through submission, and retry and delete answer at once.
AsksOf(ops, keys, sessions, waits) ==
    [op : ops, key : keys, work : Works, session : sessions, wait : waits]
RememberTextAsks == AsksOf({"text"}, Keys \cup {None}, BOOLEAN, BOOLEAN)
RememberFileAsks == AsksOf({"file"}, Keys \cup {None}, BOOLEAN, BOOLEAN)
RememberUrlAsks == AsksOf({"url"}, Keys \cup {None}, BOOLEAN, BOOLEAN)
CognifyAsks == AsksOf({"cognify"}, Keys \cup {None}, {FALSE}, BOOLEAN)
ImproveAsks == AsksOf({"improve"}, Keys \cup {None}, {FALSE}, BOOLEAN)
ForgetAsks == AsksOf({"forget_source", "forget_dataset", "everything"},
                     Keys \cup {None}, {FALSE}, BOOLEAN)
OtherAsks == AsksOf({"retry", "delete"}, {None}, {FALSE}, {FALSE})
ASSUME AsksAssumption ==
    Asks \subseteq RememberTextAsks \cup RememberFileAsks \cup RememberUrlAsks
                   \cup CognifyAsks \cup ImproveAsks \cup ForgetAsks \cup OtherAsks

VARIABLES
    run,       \* pipeline_runs: [Requests -> Run], by candidate id
    ingress,   \* candidate ids with bytes staged under data_directory/ingress
    stored,    \* runs whose bytes have reached final storage
    dataset,   \* datasets.status
    session,   \* sessions.status
    lock,      \* the request holding the row lock of the session, or None
    worker,    \* worker.enabled /\ worker.is_operational
    request,   \* [Requests -> Request]
    late,      \* history: requests past their barrier when a delete was accepted
    faults     \* how many faults have happened

vars == <<run, ingress, stored, dataset, session, lock, worker, request, late, faults>>

-----------------------------------------------------------------------------
(* Rows and requests *)

RunStatuses == {"absent", "queued", "running", "succeeded", "failed", "cancelled"}
Terminal == {"succeeded", "failed", "cancelled"}
Retryable == {"failed", "cancelled"}

\* key is a client's key, the original of a retry (sys:retry:{id}), or None.
Run == [status : RunStatuses, op : Ops, work : Works, key : Keys \cup Requests \cup {None},
        session : BOOLEAN, of : Requests \cup {None}, begun : BOOLEAN]

Request == [pc : {"new", "load", "stage", "find", "prepare", "lock",
                  "barrier", "insert", "inserted", "conflict", "fresh", "delete",
                  "cleanup", "await", "done", "dead"},
            op : Ops, work : Works, key : Keys \cup Requests \cup {None},
            session : BOOLEAN, wait : BOOLEAN, of : Requests \cup {None},
            seen : {"active", "archived"},
            outcome : {"none", "created", "replayed", "refused", "conflict",
                       "unavailable", "error"},
            answer : Requests \cup {None}, status : {"none", "pending"} \cup Terminal]

Remembers(op) == op \in {"text", "file", "url"}
PipelineOf(op) ==
    IF Remembers(op) THEN "remember"
    ELSE IF op \in {"forget_source", "forget_dataset", "everything"} THEN "forget" ELSE op
Pipelines == {PipelineOf(op) : op \in Ops}

Committed(r) == run[r].status # "absent"
Nonterminal(r) == run[r].status \in {"queued", "running"}
OnDataset(r) == run[r].op # "everything"
IsDelete(r) == run[r].op = "delete"

\* find_nonterminal_dataset_delete_for_dataset
PendingDeletes == {r \in Requests : IsDelete(r) /\ Nonterminal(r)}
\* exists_administrative_delete_ownership: begin_delete has succeeded in some
\* delete run; that a run exists is not enough.
DeleteOwnsDataset == \E r \in Requests : Committed(r) /\ IsDelete(r) /\ run[r].begun

NoRunRow == [status |-> "absent", op |-> "everything", work |-> CHOOSE w \in Works : TRUE,
             key |-> None, session |-> FALSE, of |-> None, begun |-> FALSE]
NewRequest == [pc |-> "new", op |-> "everything", work |-> CHOOSE w \in Works : TRUE,
               key |-> None, session |-> FALSE, wait |-> FALSE, of |-> None,
               seen |-> "active", outcome |-> "none", answer |-> None, status |-> "none"]

Init ==
    /\ run = [p \in Requests |-> NoRunRow]
    /\ ingress = {} /\ stored = {}
    /\ dataset = "active" /\ session = "active"
    /\ lock = None
    /\ worker = TRUE
    /\ request = [p \in Requests |-> NewRequest]
    /\ late = {}
    /\ faults = 0

At(p, pc) == request[p].pc = pc
Goto(p, pc) == request' = [request EXCEPT ![p].pc = pc]
\* The request's transaction ends: its session lock is released.
Release(p) == lock' = IF lock = p THEN None ELSE lock

tables == <<run, ingress, stored, dataset, session, worker, late, faults>>

\* An exception leaves the submission: Remember's handler and retry delete
\* the candidate's ingress, other routes have staged nothing.
Refuse(p, outcome) ==
    request' = [request EXCEPT ![p].outcome = outcome,
                               ![p].pc = IF Remembers(request[p].op) THEN "cleanup" ELSE "done"]

\* What a response says of a run: 202, or how it ended.
Reported(r) == IF run[r].status \in Terminal THEN run[r].status ELSE "pending"

\* The request is answered with run r, read just now.
Respond(p, r, outcome) ==
    request' = [request EXCEPT
        ![p].outcome = outcome, ![p].answer = r, ![p].status = Reported(r),
        ![p].pc = IF outcome # "created" /\ Remembers(request[p].op) THEN "cleanup"
                  ELSE IF request[p].wait /\ run[r].status \notin Terminal
                       THEN "await" ELSE "done"]

-----------------------------------------------------------------------------
(* The routes *)

InFlight == {p \in Requests : request[p].pc \notin {"new", "done", "dead"}}
CanArrive(p) == At(p, "new") /\ Cardinality(InFlight) < MaxInFlight

Arrive(p, a, pc) ==
    /\ CanArrive(p)
    /\ request' = [request EXCEPT ![p].pc = pc, ![p].op = a.op, ![p].work = a.work,
                                  ![p].key = a.key, ![p].session = a.session,
                                  ![p].wait = a.wait]
    /\ UNCHANGED <<run, stored, dataset, session, lock, worker, late, faults>>

\* Text and files are staged under the candidate id before anything is asked
\* of the database.
RememberContent(p, a) ==
    /\ a \in RememberTextAsks \cup RememberFileAsks
    /\ Arrive(p, a, "find")
    /\ ingress' = ingress \cup {p}

\* The worker fetches a URL later: nothing to stage.
RememberUrl(p, a) == a \in RememberUrlAsks /\ Arrive(p, a, "find") /\ UNCHANGED ingress

\* cognify, improve, forget
Write(p, a) ==
    /\ a \in CognifyAsks \cup ImproveAsks \cup ForgetAsks
    /\ Arrive(p, a, "find")
    /\ UNCHANGED ingress

\* submit_trusted_internal: sys:retry:{o}, which no client can send.
ReservedKey(o) == o

\* POST /runs/{o}/retry
RetryRun(p, a, o) ==
    /\ a.op = "retry" /\ Committed(o)
    /\ CanArrive(p)
    /\ request' = [request EXCEPT ![p].pc = "load", ![p].of = o, ![p].key = ReservedKey(o),
                                  ![p].op = run[o].op, ![p].work = run[o].work,
                                  ![p].session = run[o].session, ![p].wait = FALSE]
    /\ UNCHANGED <<tables, lock>>

DeleteDataset(p, a) == a.op = "delete" /\ Arrive(p, a, "delete") /\ UNCHANGED ingress

-----------------------------------------------------------------------------
(* Submission *)

Holders(k) == {r \in Requests : Committed(r) /\ run[r].key = k}

\* _resolve_existing: the pipeline type and the work must be the same.
SameIntent(p, r) ==
    /\ PipelineOf(run[r].op) = PipelineOf(request[p].op)
    /\ run[r].work = request[p].work
Resolve(p, r) == IF SameIntent(p, r) THEN Respond(p, r, "replayed") ELSE Refuse(p, "conflict")

\* _require_worker_available: enabled and operational, or 503
Gate(p) == IF worker THEN Goto(p, "prepare") ELSE Refuse(p, "unavailable")

\* The lookup before anything else: a replay passes no gate at all.  The gate
\* looks at the worker in memory, with nothing awaited in between.
FindByKey(p) ==
    /\ At(p, "find")
    /\ LET found == IF request[p].key = None THEN {} ELSE Holders(request[p].key)
       IN  IF found = {} THEN Gate(p) ELSE \E r \in found : Resolve(p, r)
    /\ UNCHANGED <<tables, lock>>

\* The preparation hooks of the routes: which dataset each accepts.
RememberAdmits == dataset = "active"
CognifyAdmits == dataset \in {"active", "deleting", "deleted"}
ImproveAdmits == dataset = "active"
ForgetSourceAdmits == dataset = "active"
ForgetDatasetAdmits == dataset \in {"active", "deleting"}
EverythingAdmits == TRUE
RetryAdmits == TRUE
HookAdmits(p) ==
    LET op == request[p].op
    IN  IF request[p].of # None THEN RetryAdmits
        ELSE CASE Remembers(op) -> RememberAdmits
               [] op = "cognify" -> CognifyAdmits
               [] op = "improve" -> ImproveAdmits
               [] op = "forget_source" -> ForgetSourceAdmits
               [] op = "forget_dataset" -> ForgetDatasetAdmits
               [] OTHER -> EverythingAdmits

\* The transaction opens: the hook reads the dataset and resolves the session
\* by key.  The row it reads stays in the identity map of the transaction.
Prepare(p) ==
    /\ At(p, "prepare")
    /\ IF ~HookAdmits(p) THEN Refuse(p, "refused")
       ELSE IF request[p].session /\ request[p].of = None
       THEN request' = [request EXCEPT ![p].pc = "lock", ![p].seen = session]
       ELSE Goto(p, "barrier")
    /\ UNCHANGED <<tables, lock>>

\* get_by_id_for_update waits for the row lock but returns the instance that
\* is already loaded: the status tested is the one the hook read before.
LockSession(p) ==
    /\ At(p, "lock") /\ lock = None
    /\ IF request[p].seen = "archived" THEN Refuse(p, "refused") /\ UNCHANGED lock
       ELSE lock' = p /\ Goto(p, "barrier")
    /\ UNCHANGED tables

\* raise_if_dataset_administratively_blocked, no lock taken
Blocked_PendingOnly == dataset = "deleted" \/ PendingDeletes # {}
Blocked ==
    \/ dataset = "deleted"
    \/ PendingDeletes # {}
    \/ dataset = "deleting" /\ DeleteOwnsDataset

RaisesBlocked(p) == request[p].op \notin {"everything", "delete"} /\ Blocked

Barrier_KeepsLock(p) ==
    /\ At(p, "barrier")
    /\ IF RaisesBlocked(p) THEN Refuse(p, "refused") ELSE Goto(p, "insert")
    /\ UNCHANGED <<tables, lock>>
Barrier(p) ==
    /\ At(p, "barrier")
    /\ IF RaisesBlocked(p) THEN Refuse(p, "refused") /\ Release(p)
       ELSE Goto(p, "insert") /\ UNCHANGED lock
    /\ UNCHANGED tables

\* The unique index makes an insert wait for an uncommitted one of its key.
KeyInFlight(p) ==
    /\ request[p].key # None
    /\ \E q \in Requests \ {p} : At(q, "inserted") /\ request[q].key = request[p].key
UniqueViolation_Never(p) == FALSE
UniqueViolation(p) == request[p].key # None /\ Holders(request[p].key) # {}

\* create_run_with_steps.  A violation of the key's unique index ends the
\* transaction; another constraint cannot be violated here.
Insert(p) ==
    /\ At(p, "insert") /\ ~KeyInFlight(p)
    /\ IF UniqueViolation(p) THEN Goto(p, "conflict") /\ Release(p)
       ELSE Goto(p, "inserted") /\ UNCHANGED lock
    /\ UNCHANGED tables

\* Requests that have passed their barrier when a delete run appears.
PastBarrier == {q \in Requests : request[q].pc \in {"insert", "inserted"}}

NewRow(p) == [status |-> "queued", op |-> request[p].op, work |-> request[p].work,
              key |-> request[p].key, session |-> request[p].session,
              of |-> request[p].of, begun |-> FALSE]

Commit(p) ==
    /\ At(p, "inserted")
    /\ run' = [run EXCEPT ![p] = NewRow(p)]
    /\ late' = IF request[p].op = "delete" THEN late \cup PastBarrier ELSE late
    /\ Goto(p, "fresh") /\ Release(p)
    /\ UNCHANGED <<ingress, stored, dataset, session, worker, faults>>

\* The second lookup, in a transaction of its own: the winner has committed.
FindAfterConflict(p) ==
    /\ At(p, "conflict")
    /\ \E r \in Holders(request[p].key) : Resolve(p, r)
    /\ UNCHANGED <<tables, lock>>

\* The independent read after the commit: the run may have been claimed.
FreshRead(p) ==
    /\ At(p, "fresh")
    /\ Respond(p, p, "created")
    /\ UNCHANGED <<tables, lock>>

\* _submit_with_ingress_cleanup and the same branches of retry()
AfterCleanup(p) ==
    IF request[p].answer # None /\ request[p].wait /\ request[p].status \notin Terminal
    THEN "await" ELSE "done"
Cleanup_OfOutcome(p) ==
    /\ At(p, "cleanup")
    /\ ingress' = ingress \ {p, request[p].answer}
    /\ Goto(p, AfterCleanup(p))
    /\ UNCHANGED <<run, stored, dataset, session, lock, worker, late, faults>>
Cleanup(p) ==
    /\ At(p, "cleanup")
    /\ ingress' = ingress \ {p}
    /\ Goto(p, AfterCleanup(p))
    /\ UNCHANGED <<run, stored, dataset, session, lock, worker, late, faults>>

\* wait_for_terminal: one poll, and the deadline after a last poll
Poll(p) ==
    /\ At(p, "await")
    /\ run[request[p].answer].status \in Terminal
    /\ request' = [request EXCEPT ![p].pc = "done",
                                  ![p].status = Reported(request[p].answer)]
    /\ UNCHANGED <<tables, lock>>
Deadline(p) ==
    /\ At(p, "await")
    /\ run[request[p].answer].status \notin Terminal
    /\ request' = [request EXCEPT ![p].pc = "done",
                                  ![p].status = Reported(request[p].answer)]
    /\ UNCHANGED <<tables, lock>>

-----------------------------------------------------------------------------
(* Manual retry *)

\* _load_retryable_original and _existing_retry_child: two reads of facts that
\* do not change once true, taken as one.
LoadOriginal(p) ==
    /\ At(p, "load")
    /\ IF run[request[p].of].status \notin Retryable
       THEN request' = [request EXCEPT ![p].outcome = "refused", ![p].pc = "done"]
       ELSE IF Holders(request[p].of) # {}
       THEN \E r \in Holders(request[p].of) :
                request' = [request EXCEPT ![p].outcome = "replayed", ![p].answer = r,
                                           ![p].status = Reported(r), ![p].pc = "done"]
       ELSE Goto(p, "stage")
    /\ UNCHANGED <<tables, lock>>

\* The early barrier, then prepare_remember_retry_ingress: the original's
\* ingress, its final storage, nothing for a URL never fetched, or the retry
\* fails.  What a terminal original left behind does not change any more.
Recoverable(o) == o \in ingress \cup stored
StageRetry(p) ==
    /\ At(p, "stage")
    /\ LET o == request[p].of
       IN  IF RaisesBlocked(p) THEN Refuse(p, "refused") /\ UNCHANGED ingress
           ELSE IF ~Remembers(request[p].op) THEN Goto(p, "find") /\ UNCHANGED ingress
           ELSE IF Recoverable(o) THEN Goto(p, "find") /\ ingress' = ingress \cup {p}
           ELSE IF run[o].op = "url" THEN Goto(p, "find") /\ UNCHANGED ingress
           ELSE Refuse(p, "refused") /\ UNCHANGED ingress
    /\ UNCHANGED <<run, stored, dataset, session, lock, worker, late, faults>>

-----------------------------------------------------------------------------
(* Administrative delete *)

\* The dataset's row lock conflicts with the key share lock an uncommitted
\* run of the dataset holds through its foreign key.
DatasetLockFree ==
    \A q \in Requests : At(q, "inserted") => request[q].op = "everything"

\* request_delete: under the dataset's row lock from the first read to the
\* commit, hence one step.
RequestDelete(p) ==
    /\ At(p, "delete") /\ DatasetLockFree
    /\ IF dataset = "deleted"
       THEN /\ \E r \in Requests : Committed(r) /\ IsDelete(r) /\ Respond(p, r, "replayed")
            /\ UNCHANGED <<run, late>>
       ELSE IF PendingDeletes # {}
       THEN /\ \E r \in PendingDeletes : Respond(p, r, "replayed")
            /\ UNCHANGED <<run, late>>
       ELSE IF dataset = "deleting"
       THEN Refuse(p, "refused") /\ UNCHANGED <<run, late>>
       ELSE IF ~worker
       THEN Refuse(p, "unavailable") /\ UNCHANGED <<run, late>>
       ELSE /\ run' = [run EXCEPT ![p] = NewRow(p)]
            /\ late' = late \cup PastBarrier
            /\ Goto(p, "fresh")
    /\ UNCHANGED <<ingress, stored, dataset, session, worker, lock, faults>>

-----------------------------------------------------------------------------
(* The environment: the engine, operators, the process *)

SetRun(r, status) == run' = [run EXCEPT ![r].status = status]
rest == <<session, lock, worker, request, late, faults>>

\* One operational run per dataset, a global run alone (QueueClaim).
Claim(r) ==
    /\ run[r].status = "queued"
    /\ \A q \in Requests : run[q].status # "running"
    /\ SetRun(r, "running")
    /\ UNCHANGED <<ingress, stored, dataset, rest>>

\* RunControlService.cancel of a queued run
CancelQueued(r) ==
    /\ run[r].status = "queued"
    /\ SetRun(r, "cancelled")
    /\ UNCHANGED <<ingress, stored, dataset, rest>>

\* Remember stages what it fetched, then finalizes the staged bytes.
StoreBytes(r) ==
    /\ run[r].status = "running" /\ Remembers(run[r].op) /\ r \notin stored
    /\ \/ r \notin ingress /\ run[r].op = "url" /\ ingress' = ingress \cup {r}
          /\ UNCHANGED stored
       \/ r \in ingress /\ ingress' = ingress \ {r} /\ stored' = stored \cup {r}
    /\ UNCHANGED <<run, dataset, rest>>

\* A run may fail anywhere; one that is cancelled while it runs is, to this
\* module, one that failed.
Ends(r, status) ==
    /\ run[r].status = "running"
    /\ status = "succeeded" => ~IsDelete(r) /\ (Remembers(run[r].op) => r \in stored)
    /\ SetRun(r, status)
    /\ UNCHANGED <<ingress, stored, dataset, rest>>

\* begin_delete: under the dataset's row lock, and cancels what is queued.
BeginDelete(r) ==
    /\ run[r].status = "running" /\ IsDelete(r) /\ ~run[r].begun
    /\ DatasetLockFree
    /\ dataset \in {"active", "deleting"}
    /\ dataset' = "deleting"
    /\ run' = [q \in Requests |->
          IF q = r THEN [run[q] EXCEPT !.begun = TRUE]
          ELSE IF run[q].status = "queued" /\ ~IsDelete(q) /\ OnDataset(q)
               THEN [run[q] EXCEPT !.status = "cancelled"] ELSE run[q]]
    /\ UNCHANGED <<ingress, stored, rest>>

\* finalize_tombstone, the last step: the run succeeds with it.
Tombstone(r) ==
    /\ run[r].status = "running" /\ IsDelete(r) /\ run[r].begun
    /\ DatasetLockFree
    /\ dataset = "deleting"
    /\ dataset' = "deleted"
    /\ SetRun(r, "succeeded")
    /\ UNCHANGED <<ingress, stored, rest>>

Fault(f) == f \in Faults /\ faults < MaxFaults /\ faults' = faults + 1
faultless == <<run, ingress, stored, dataset, session, worker, late>>

\* archive_session and restore_session, under the session's row lock
ToggleSession ==
    /\ Fault("archive") /\ lock = None
    /\ session' = IF session = "active" THEN "archived" ELSE "active"
    /\ UNCHANGED <<run, ingress, stored, dataset, lock, worker, request, late>>

WorkerChanges ==
    /\ Fault("outage")
    /\ worker' = ~worker
    /\ UNCHANGED <<run, ingress, stored, dataset, session, lock, request, late>>

\* The commit fails and the transaction is rolled back.
CommitFails(p) ==
    /\ Fault("commit") /\ At(p, "inserted")
    /\ Refuse(p, "error") /\ Release(p)
    /\ UNCHANGED faultless

\* The read after the commit fails: the handler sees an exception all the same.
FreshReadFails(p) ==
    /\ Fault("read") /\ At(p, "fresh")
    /\ Refuse(p, "error")
    /\ UNCHANGED <<faultless, lock>>

\* The process dies, or the handler's task is cancelled, which no `except
\* Exception` sees.
Crash(p) ==
    /\ Fault("crash") /\ p \in InFlight
    /\ Goto(p, "dead") /\ Release(p)
    /\ UNCHANGED faultless

-----------------------------------------------------------------------------

Submit(p) ==
    \/ FindByKey(p) \/ Prepare(p) \/ LockSession(p) \/ Barrier(p)
    \/ Insert(p) \/ Commit(p) \/ FindAfterConflict(p) \/ FreshRead(p) \/ Cleanup(p)
    \/ Poll(p) \/ Deadline(p)
    \/ LoadOriginal(p) \/ StageRetry(p)
    \/ RequestDelete(p)

Receive(p, a) ==
    \/ RememberContent(p, a) \/ RememberUrl(p, a) \/ Write(p, a) \/ DeleteDataset(p, a)
    \/ \E o \in Requests : RetryRun(p, a, o)

Execute(r) ==
    \/ Claim(r) \/ CancelQueued(r) \/ StoreBytes(r) \/ BeginDelete(r) \/ Tombstone(r)
    \/ \E status \in {"succeeded", "failed"} : Ends(r, status)

Next ==
    \/ \E p \in Requests, a \in Asks : Receive(p, a)
    \/ \E p \in Requests : Submit(p)
    \/ \E r \in Requests : Execute(r)
    \/ \E p \in Requests : CommitFails(p) \/ FreshReadFails(p) \/ Crash(p)
    \/ ToggleSession \/ WorkerChanges

Spec == Init /\ [][Next]_vars

-----------------------------------------------------------------------------
(* Properties *)

\* Keys keep their promise: submission and manual retry, statement by
\* statement and with lost commits and dying handlers, implement the atomic
\* contract in which a key is bound once and every answer names its run.
Keyed(p) == request[p].key # None /\ request[p].pc # "new"
Wants == [p \in Requests |->
    IF Keyed(p) THEN [key |-> request[p].key,
                      work |-> <<PipelineOf(request[p].op), request[p].work>>]
    ELSE None]
Bound == [k \in Keys \cup Requests |->
    IF Holders(k) = {} THEN None
    ELSE LET r == CHOOSE r \in Holders(k) : TRUE
         IN  [run |-> r, work |-> <<PipelineOf(run[r].op), run[r].work>>]]
Answers == [p \in Requests |-> IF Keyed(p) THEN request[p].answer ELSE None]
\* None stands for no wish and for no binding, and is neither.
ASSUME BindingAssumption ==
    /\ None \notin [key : Keys \cup Requests, work : Pipelines \X Works]
    /\ None \notin [run : Requests, work : Pipelines \X Works]
KeyContract == INSTANCE SubmissionContract WITH
    Keys <- Keys \cup Requests, Works <- Pipelines \X Works,
    wants <- Wants, bound <- Bound, answer <- Answers
KeysAreKept == KeyContract!ContractSpec

\* A Remember of text or a file that is waiting or running has its bytes, in
\* its ingress or in final storage: no clean-up of a rival, no lost race and
\* no retry takes them away.  The one exception is a run whose own client was
\* told of an error because the read after the commit failed.  And bytes staged
\* for a candidate that became no run are gone when its request has ended
\* ("must never leave a permanent orphaned ingress directory").
HasBytes(r) == r \in ingress \cup stored
BytesFollowRuns ==
    /\ \A r \in Requests : Nonterminal(r) /\ run[r].op \in {"text", "file"}
                           => HasBytes(r) \/ request[r].outcome = "error"
    /\ \A p \in ingress : Committed(p) \/ request[p].pc # "done"

\* After a delete has been accepted the dataset gets no new work except from
\* requests that were already past their barrier at that moment.
UnderDelete ==
    \/ dataset = "deleted"
    \/ \E r \in Requests : IsDelete(r) /\ (Nonterminal(r) \/ run[r].begun)
OnlyLateRequestsSlipIn ==
    [][\A p \in Requests :
          /\ ~Committed(p) /\ run'[p].status = "queued"
          /\ run'[p].op \notin {"delete", "everything"} /\ UnderDelete
          => p \in late]_vars

\* What a request waits for: a lock, an uncommitted insert of its key or run of
\* its dataset, or the row it was told is there.
UnderWay == {p \in Requests : request[p].pc \notin {"new", "await", "done", "dead"}}
NoDeleteRun == \A r \in Requests : Committed(r) => ~IsDelete(r)
Waits(p) ==
    \/ At(p, "lock") /\ lock # None
    \/ At(p, "insert") /\ KeyInFlight(p)
    \/ At(p, "conflict") /\ Holders(request[p].key) = {}
    \/ At(p, "delete") /\ (DatasetLockFree => dataset = "deleted" /\ NoDeleteRun)
SomebodyGoesOn == UnderWay # {} => \E p \in UnderWay : ~Waits(p)
WaitsForNothingElse == \A p \in UnderWay : ENABLED Submit(p) <=> ~Waits(p)

\* Requests never wait for each other in a circle, nor for one that has ended:
\* while some are under way one of them waits for nobody, and whoever does not
\* wait can take its next step, which is progress.
RequestsNeverDeadlock == SomebodyGoesOn /\ WaitsForNothingElse
=============================================================================
