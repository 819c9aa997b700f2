# Sofia's Memory: formal model

TLA+ modules, TLC configurations and TLAPS proofs about Sofia's Memory: the
pipeline runs and how requests create, execute, cancel, retry and recover them;
the bytes of the sources and their way to S3; the knowledge that is made of them
and its projection into the graph; the start of the process; and the registries
and reads of the API. The source is `src/sofias_memory`; file names below are
relative to it, and `PROJECT.json` names for each definition the lines it
translates.

Contents: [1 the system](#1-the-system), [2 hard behaviours](#2-the-behaviours-that-are-hard),
[3 the modules](#3-the-modules), [4 what the runs show](#4-what-the-runs-show),
[5 bounds](#5-bounds), [6 fairness](#6-fairness), [7 the proofs](#7-the-proofs),
[8 disagreements found](#8-where-code-and-documents-disagree),
[9 not modelled](#9-what-is-not-modelled), [10 plan](#10-plan).

## 1 The system

Sofia's Memory is a FastAPI service. PostgreSQL is authoritative; Neo4j holds a
projection of the graph that is rebuilt from it; source files lie in a
filesystem or in S3. Everything that takes long is a *pipeline run*: a row of
`pipeline_runs` with one row of `pipeline_steps` per step, executed by the worker
inside the process. A process is one boot of the service; a rolling restart has
two of them alive for a while, over one database.

| Component | State it keeps | Operations | Correct when | Module |
|---|---|---|---|---|
| Run and step lifecycle | status, attempt, worker, heartbeat, next attempt, progress | validated transitions, retry ceiling, back-off | only allowed transitions; the attempt counter bounded | PipelineLifecycle |
| Engine (`pipelines/engine.py`) | one in-memory execution per claimed run | prepare, checkpoint, execute, persist, fail | steps in order, effects once, cancellation honoured, a lost owner writes nothing | PipelineExecution |
| Worker (`pipeline_worker.py`) | running engine tasks, stop flag | poll, claim, dispatch, heartbeat, stop with a grace period | never above its capacity; a stop loses no run | PipelineExecution |
| Startup recovery (`pipeline_recovery.py`) | none | release or fail stale runs, finish stale cancellations | never takes a run from a live owner; releases what it finds stale | PipelineExecution |
| Queue claimer (`pipeline_queue_claimer.py`) | locks of its transaction | scan, lock, re-check, claim | one operational run per dataset, a global run alone, no starvation | QueueClaim |
| Run control (`run_control.py`) | none | cancel, manual retry | a cancel is honoured or refused; one child per retried run | PipelineExecution, Submission |
| Submission (`pipeline_submission.py`) | unique idempotency key | find, prepare, insert, replay, wait | one run per key; no run for a dataset being deleted | Submission |
| Dataset delete barrier (`dataset_delete*.py`) | dataset status, delete runs | admit, replay, resume | after a delete is accepted the dataset accepts nothing else | Submission |
| Graph outbox (`graph_outbox*.py`) | rows with a lease and an attempt | claim, apply, mark done or failed, drain | commands are applied at least once, a delete after the upserts it follows | GraphOutbox |
| Projection (`infrastructure/neo4j`) | nodes and relations | upsert, delete | converges to the authoritative graph | GraphOutbox, Knowledge |
| Remember, storage (`steps/remember.py`, `source_storage.py`) | sources, ingress files, storage objects | resolve, deduplicate, finalize | an active source has its bytes | Sources |
| Storage convergence (`storage_convergence.py`) | the pass under way, the published set | migrate, repoint, clean up, wait for deletions | nothing is lost or reported lost that is not; it ends | Sources |
| Forget and dataset delete steps | source and dataset statuses, outbox rows | mutate, drain, delete storage, tombstone | a tombstone only after everything it stands for is gone | Sources, Knowledge |
| Cognify and improve steps | knowledge rows, generations | chunk, extract, resolve, merge, maintain, summarize | nothing visible without support, nothing supported that is invisible | Knowledge |
| Chunking (`pipelines/chunking.py`) | none | cut a text into spans | the spans cover the text, fit the embedder, overlap as asked | Chunking |
| Rebuild and reconciliation | generations, the projection | rebuild, activate, reconcile | the projection is what the active generation says | Knowledge |
| Bootstrap (`lifespan.py`, `migration_bootstrap.py`) | process state, migration lock | migrate, check, recover, converge, serve | normal work only when operational; one migrator | Startup |
| Cognitive memory (`memories.py`) | memory items, idempotency ledger | create, supersede, forget, recall | one effect per key; supersede chains do not fork | Registries |
| Sessions, skills, agents, datasets | entries, immutable revisions, pins | admit, archive, revise, pin, rename | numbering without gaps or duplicates; no entry after archive | Registries |
| Recall, provenance, graph read | none but the query audit | search, hydrate, answer | no answer shows what had been forgotten | Recall |

How they meet. The API submits a run (a transaction that inserts the run and its
steps) and cancels it (a transaction that locks the row). The worker's poll
loop asks the claimer for a run, starts an engine task for it and heartbeats its
row. Each boot runs recovery once, before it polls. The engine runs the steps of
the pipeline; a step's `execute()` works with no transaction open and its
`persist()` shares the transaction that marks the step succeeded. Steps write
outbox rows, which the worker's outbox loop applies to Neo4j. The bootstrap sets
the process state that decides what the claimer may claim. Recall reads the
projection first and PostgreSQL after it; the registries have no pipeline at all.

Where one module needs what another one is about, it uses what that one
establishes: `PipelineExecution.Claim`, `Submission.Claim` and `Sources.Claim` are
one action because `QueueClaim` refines `ClaimContract`; `Submission` and
`Knowledge` treat a step as one action because `PipelineExecution` commits effects
once and in order; `Knowledge.Drain` may order upserts before deletes because
`GraphOutbox` fences them (`DeletesComeLast`); `Startup.EndConvergence` happens
because `Sources` shows that it does (`ConvergenceEnds`).

## 2 The behaviours that are hard

* *Two boots over one database.* Ownership is the pair (worker id, attempt) on the
  row, judged dead by the age of a heartbeat. A slow process is indistinguishable
  from a dead one, so a superseded execution goes on computing and must be
  stopped when it comes back for its transaction.
* *Work outside transactions.* Whatever a step reads before `execute()` may have
  changed when its outcome is persisted.
* *Check, then lock.* The claimer decides from several statements at READ
  COMMITTED: a scan in one transaction, then locks and re-checks in another. A
  submission looks for its key, passes a barrier that takes no lock, and only then
  inserts. A row read before its lock keeps its old values in the session.
* *Cancellation* commits between any two transactions of the engine.
* *Crashes and shutdowns* at every point; retries, recoveries and restarts share
  one attempt counter.
* *Effects outside PostgreSQL.* Bytes are moved, and objects deleted, before the
  transaction that says so; a retry has to find them wherever the last attempt
  left them, also after the storage backend was changed to S3 and back. (Not always
  after the way back, see section 8.)
* *Runs that overtake.* A run in back-off keeps nothing: a younger run of its
  dataset may be claimed meanwhile and undo what the older one has half done.
* *Leases nobody renews.* An outbox row is leased for a fixed time while Neo4j is
  called outside any transaction, so a slow holder and a dead one look the same and
  a late write can land after somebody else's.
* *Sharing.* Entities and relations belong to every source that states them;
  merges rewire them, forgets take away support, rebuilds copy them.
* *A projection that lags.* Reads find candidates in the graph and must not show
  what PostgreSQL no longer has.
* *Idle recovery.* Recovery happens at startup only.

`PROJECT.json` lists every such hazard at its line, with the properties that
would break.

## 3 The modules

    PipelineLifecycle        transitions of runs and steps (no variables)
      PipelineExecution      rows, steps, processes, executions
        MCPipelineExecution  instances for TLC
        PipelineExecutionProofs
    ClaimContract            the abstract queue: a claim is one step
      QueueClaim             the claim, one statement per step; refines ClaimContract
        MCQueueClaim         instances for TLC
        QueueClaimProofs
    GraphOutbox              outbox rows, their claimers and the projection
      MCGraphOutbox          instances for TLC
      GraphOutboxProofs
    SubmissionContract       the abstract key: bound once, always answered alike
      Submission             requests, statement by statement; refines SubmissionContract
        MCSubmission         instances for TLC
        SubmissionProofs
    Sources                  the bytes: Remember, Forget, delete, convergence
      MCSources              instances for TLC
      SourcesProofs
    Startup                  processes, schema gate, migration lock
      MCStartup              instances for TLC
      StartupProofs
    Knowledge                documents to projection: Cognify, Improve, Forget
    Chunking                 how a text is cut (operators, no variables)
      MCKnowledge            instances for TLC of Knowledge, and of Chunking beside it
      KnowledgeProofs
    Registries               memories, sessions, skills, agents, datasets
      Recall                 reads over the graph, PostgreSQL and the audit
        MCRecall             instances for TLC
        RecallProofs

**PipelineLifecycle** (`domain/pipeline_lifecycle.py`, `services/pipeline_lifecycle.py`)
has the transition tables and what each transition does to a row: `ToRunning`
counts the attempt and sets the owner, `ToQueued` keeps owner, attempt and
progress, `ToTerminal` clears what the code clears. A later change of one
transition is one edit here and reaches every handler.

**PipelineExecution** is the durable execution. Every transaction of the code
first locks the run's own row, so one transaction on one run is one action;
what the code does between two transactions is a state in `exec`.

| State | Code |
|---|---|
| `run[r]` | row of `pipeline_runs`; `due` is `next_attempt_at <= now()`, `heartbeat` is null, fresh or stale against `WORKER_STALE_AFTER_SECONDS`, `progress` counts succeeded steps instead of dividing by their number |
| `step[r][i]` | row of `pipeline_steps` |
| `proc[w]` | one process boot; a worker id is never reused, as `new_worker_id` makes one per boot |
| `pass[w]` | the recovery pass of a booting process: whether it has asked for candidates in this round, which of them it has yet to look at, whether the round recovered anything, and (history) which stale runs the round has left |
| `exec[r][a]` | the engine call for the claim of attempt `a`; it survives the loss of its ownership, which is the point |
| `effects[r][i]` | history: how often `persist()` of the step has been committed |

| Actions | Code |
|---|---|
| `Submit`, `CancelQueued`, `CancelRunning` | submission of a run with its steps; `RunControlService.cancel` |
| `Boot`, `Ask`, `RecoverRunning`, `RecoverCancelling`, `PassOver`, `PassFails`, `StartPolling` | start of a process; one round's question for stale candidates; each candidate recovered under its row lock, or left because the row is locked elsewhere or has moved on; a pass that raises and is begun again; the end of the pass with the first round that recovered nothing |
| `Claim` | the claimer's transaction, one step (see QueueClaim) |
| `Prepare`, `Checkpoint`, `StepReturns`, `CommitSuccess`, `CommitFailure`, `PersistFails`, `Discard`, `EngineAborts` | `_prepare`, `_checkpoint_before_step`, the step's own work, and the ways `_persist_step_outcome` ends; each with every early return, abandon and raise of the code |
| `Heartbeat`, `HeartbeatAges`, `BackoffElapses` | the heartbeat task and the passage of time |
| `Stop`, `PollEnds`, `Vanish`, `Exit`, `Crash` | graceful stop, the end of the poll loop, an engine task that dies of an exception, the end of the process, a kill |

The set `Faults` chooses what the environment may do: `crash`, `shutdown`,
`stall` (heartbeats not written while the process lives), `engine` (an exception
that kills one engine task), `drift` (the registry of a later boot no longer
matches the stored plan), `recovery` (the recovery pass raises) and `reconfigure` (a step's cancellation recovery mode
decides otherwise). A heartbeat never ages under a live, unstalled owner: the
interval is a fraction of the staleness window.

**QueueClaim** takes the claim apart. A claimer reads its policy, scans
(`Scan`), takes a candidate, locks its row (`LockCandidate`), and then, for a run
of a dataset, checks for an older global run (`Precheck`), tries the shared
barrier lock (`TakeBarrier`) and the dataset's lock (`TakeDataset`), re-checks
conflicts (`Revalidate`) and commits; a global run takes the barrier
exclusively. Between any two of these, other claimers, submissions,
cancellations, retries and the end of other runs may commit. Locks are the
database's, released at commit, rollback or loss of the connection. The process
state is here too: a process starts with policy none, converges (recovery-only
with a published set), and becomes operational.

A run takes its place in the queue when its inserting transaction begins (`Begins`:
`created_at` is that transaction's `now()`) and is seen when it commits (`Submit`), or
rolls back (`RollsBack`), so it may appear ahead of runs that have been waiting.

Abstractions: row locks other writers take last one action; `Classify` publishes any subset of the destructive
runs past their mutation (what convergence decides is the storage module's
business); a claimer that loses its connection or process does not come back; the
slot of a finished run may be submitted again as a new row when no claimer still
holds its name.

**ClaimContract** is what the rest of the system relies on: a claim is one step, of
an eligible run whose scope is free. `QueueClaim` refines it (`ClaimsAreAtomic`),
which is why `PipelineExecution.Claim` may be a single action.

**GraphOutbox** is the way from PostgreSQL to Neo4j. Rows are numbered by their
ids; which command each carries is a constant, so a theorem about the module is
about every sequence of commands, also those in which an element that was deleted is
said again, as a merge does to the mentions of a forgotten chunk. The projection maps each element to the row whose
payload it carries: what the payload says is of no interest, which one it is, is.

| State | Code |
|---|---|
| `outbox[i]` | a row of `graph_outbox`; `expired` is `processing_started_at` older than the staleness threshold, `absent` is not yet committed |
| `actor[p]` | the outbox loop of a process (`Consumers`) or an engine task that drains a dataset (`Drains`): the row it is at, the attempt it claimed, the ids it still has to process |
| `graph` | nodes and relationships in Neo4j |
| `applied`, `actor[d].due` | history: rows that have taken effect; rows outstanding when a drain began |

| Actions | Code |
|---|---|
| `Emit` | `add_projection_command` in one transaction of a pipeline step |
| `Scan`, `Claim`, `ClaimMissed` | `list_claimable_ids`, `claim_one` with its second check of eligibility and of the fence, the consumer's early return |
| `StartDrain`, `Observe` | `process_dataset` with its order, `process` of one row: claim, or observe the other holder's outcome |
| `Write`, `WriteFails` | `Neo4jProjection.apply`; a call that fails may have taken effect |
| `Finalize`, `FinalizeFails` | `mark_done_if_owned`, `mark_failed_if_owned`, and their transaction failing |
| `LeaseExpires`, `Crash` | the threshold passes; a process ends |

Ownership in the code is (worker id, attempt); drains of one process may share a
worker id, but a claim counts the attempt, so the pair is as good as the actor the
model uses. `SKIP LOCKED` finding a row locked is a claim that happens a little
later. Commit order of rows is taken to be id order: rows of one element are
written by runs of one dataset, of which one is operational at a time. An upsert
whose endpoints are missing fails; a delete of a node detaches.

**SubmissionContract** says what an `Idempotency-Key` promises: a request asks for
a piece of work under a key; the key is bound once, to one run and one piece of
work (`Bind`); whoever asks for that work is answered with that run (`Answer`).

**Submission** is how a run comes to be. A request is named, and so is the run it
may create, by its candidate id; a retry uses the original run as its key, as
`sys:retry:{id}` does, which no client can send.

| State | Code |
|---|---|
| `request[p]` | one handler: where it is (`pc`), what was asked, what it read, its answer |
| `run[r]` | row of `pipeline_runs`: status, kind, payload (`work`), key, whether `begin_delete` has succeeded |
| `ingress`, `stored` | staged bytes by candidate; runs whose bytes have final storage |
| `dataset`, `session`, `lock` | their statuses and the session's row lock |
| `late` | history: requests already past their barrier when a delete was accepted |

| Actions | Code |
|---|---|
| `RememberContent`, `RememberUrl`, `Write`, `RetryRun`, `DeleteDataset` | the routes, up to the service they call |
| `FindByKey`, `Prepare`, `LockSession`, `Barrier`, `Insert`, `Commit`, `FindAfterConflict`, `FreshRead`, `Cleanup` | `PipelineSubmissionService.submit` statement by statement, with the preparation hook of each route, and the clean-up of ingress |
| `LoadOriginal`, `StageRetry` | `RunControlService.retry` before it submits |
| `RequestDelete` | `DatasetDeleteService.request_delete`, one step under the dataset's row lock |
| `Poll`, `Deadline` | `wait_for_terminal` |
| `Claim`, `CancelQueued`, `StoreBytes`, `Ends`, `BeginDelete`, `Tombstone` | the environment: what engines and operators do to runs meanwhile |
| `CommitFails`, `FreshReadFails`, `Crash`, `WorkerChanges`, `ToggleSession` | faults; a crash also stands for a handler that is cancelled, as `CancelledError` passes every `except Exception` |

An uncommitted insert makes others of its key wait (`KeyInFlight`) and, through its
foreign key, whoever wants the dataset's row lock (`DatasetLockFree`). A row read
before `SELECT ... FOR UPDATE` keeps its old values in the session's identity map,
which is why `LockSession` tests what `Prepare` saw.

**Sources** has the bytes. There is one content, so that deduplication always
finds a candidate, and a source is named by its version. A step that does
something outside PostgreSQL is two actions or more: the effect, then the
persist; the process may die between any two.

| State | Code |
|---|---|
| `source[s]` | row of `sources`: status, scheme of `storage_uri`, whether an active document exists |
| `local`, `s3`, `ingress` | objects in the data directory, in the bucket, staged for a run |
| `run[r]` | a run with the persisted outputs its later steps read (`src`, `dedup`, `results`), the graph rows it has emitted (`rows`), and whether its current step has executed |
| `phase`, `backend`, `owned`, `pass` | process state, configured backend, the published recovery-owned set, the convergence pass under way with its snapshot |
| `stranded` | history: sources whose bytes were in S3 alone, with no location committed, when the process came back to the file system |
| `lost`, `crossed` | history: objects destroyed by others; sources of two runs that undo each other, also those whose object a full forget or a delete removes while a memory-only forget means to keep them (`Crossing`) |

| Actions | Code |
|---|---|
| `Submit`, `Retry`, `Claim`, `BackoffElapses` | admission with the delete barrier, manual retry with its staging, the claim under the current policy |
| `FetchUrl`, `Ingest`, `IngestFails`, `StoreObject`, `DropIngress`, `FinalizeStorage`, `Cognify` | the Remember steps `prepare_and_ingest`, `finalize_storage` and the rest |
| `MutateSource`, `MutateDataset`, `DeleteObject`, `DeleteUnresolved`, `StorageDeleted`, `FinalizeTarget` | the Forget steps, for a source, a dataset and everything, memory-only or full |
| `BeginDelete`, `Deactivate`, `ConvergeProjection`, `RowsDie`, `Tombstone` | the DATASET_DELETE steps |
| `StartPass`, `Judge`, `Migrate`, `MigrateFails`, `Repoint`, `CleanUp`, `CleanUpDeferred`, `EndPass` | one pass of `StorageConvergenceService.converge` with its cases A to D, and the loop of `lifespan.py` around it |
| `Boot`, `Crash`, `RunFails`, `PutUnconfirmed`, `LoseObject` | the process and its environment |

**Startup** has several processes of several versions over one database.

| State | Code |
|---|---|
| `revision`, `sound` | Alembic revision; whether extensions and embedding columns fit |
| `lock` | the holder of the advisory lock `MIGRATION_BOOTSTRAP_KEY` |
| `child[p]`, `base[p]` | the `alembic upgrade head` subprocess, and the revision its transaction found |
| `severed` | history: processes whose lock connection closed under their migration |
| `proc[p]` | where the bootstrap task is, the process state, the sticky failure, whether the worker runs |

| Actions | Code |
|---|---|
| `Verify`, `TryLock`, `LockIsTaken`, `LockTimesOut`, `Classify` | `evaluate_postgres_readiness`, the lock with its deadline, classification and policy |
| `ChildStarts`, `ChildEnds`, `ChildFails`, `MigrationSucceeds`, `MigrationFails` | the subprocess, one transaction that fails when another has moved the schema, its post-verification, the sticky flag, the release |
| `LockConnectionCloses` | the session that holds the lock ends while the child runs: the lock is free, and the process does not notice before it releases it |
| `CheckNeo4j`, `Recover`, `StartWorker`, `EnterConvergence`, `EndConvergence` | the rest of one attempt |
| `DependencyFails`, `TryAgain` | an exception ends the attempt; the loop makes another |
| `Boot`, `Stop`, `Exit`, `Kill`, `Drift`, `Repair` | processes come and go (a stop waits for a migration's critical section, a kill takes child and lock along), the operator |

**Knowledge** has what a dataset knows, as the steps of Cognify, Improve and Forget
change it. Extraction is a function of the source; entities are named by their
key and one predicate relates them, so that what matters remains: which rows are
shared, which generation they belong to and what supports them.

| State | Code |
|---|---|
| `generation`, `activation` | `datasets.active_generation`; rebuilds between their two steps |
| `dataset`, `source`, `doc` | statuses, and the document of each source and generation with its chunk |
| `rows` | entities, relations, mentions, evidence, and the commands in the outbox |
| `summary` | the chunks the active dataset summary was made of |
| `graph`, `dead` | the projection; commands that ran out of attempts |
| `tangled` | history: a rebuild was not left alone (below) |

| Actions | Code |
|---|---|
| `Remember` | the document Remember leaves behind |
| `ProcessSources`, `ActivateGeneration`, `AbandonRebuild` | Cognify's batch (selection, refusal, partial failure, resolution, persist) and its second step; a rebuild is a batch for the next generation |
| `ForgetSource`, `ForgetDataset`, `FinishForgetSource`, `FinishForgetDataset` | `authoritative_mutation` of Forget and of a dataset delete, and what ends them |
| `EntityMerge`, `GraphMaintain`, `Summaries`, `Reconcile` | the Improve stages |
| `Drain` | the outbox |

`tangled` becomes true when a run starts while a rebuild is between its steps or
was abandoned there, when a source fails within a rebuild, and when a rebuild
follows a merge. In these cases knowledge is in fact lost or kept too long
(section 8); `GraphConverges`, `ForgottenIsGone` and `RememberedIsKept` hold in
all others, and those of their parts that do not mention it hold always.

**Chunking** has `chunk_document_text` as operators: both binary searches
(`MaxEnd`, `OverlapStart`), the cut at the last paragraph or line of the window
(`PreferredCut`), the loop (`ChunkSpans`) and the tail (`MergeSmallTail`). A text is
a sequence of letters, newlines and wide characters. The tokenizer is external; the
one used here gives a wide character two tokens, a run of newlines one, and three
letters the one they merge to, so that a longer slice may have fewer tokens, as it
may with byte-pair encoding, while the searches take counts to grow. What the
chunks must be is stated without the algorithm (`Covers`, `Fits`). It has no state and
meets `Knowledge` only through its result, where a document has one chunk: its
property is checked in the run `knowledge`, once, in the initial state.

**Registries** are the services without a pipeline. A request is a coroutine, its
statements are actions, a row lock or an uncommitted unique key is a lock of the
request until its transaction ends. The areas share no rows, so each behaviour is
about one of them.

| Area | Actions | Code |
|---|---|---|
| all | `Begin`, `Embed`, `LockRow`, `Abort` | the call of the embedding provider before the transaction, `get_by_id_for_update`, a rollback |
| memory | `PreCheck`, `ClaimKey`, `CreateMemory`, `Supersede`, `Forget`, `GetMemory`, `TypedRecall` | `services/memories.py` with its ledger, `typed_recall` |
| session | `CreateSession`, `ArchiveSession`, `RestoreSession`, `AppendEntry`, `AdmitSession`, `AdmitLocked` | sessions, their entries, recall within a session |
| skill | `CreateSkill`, `ReadName`, `Revise`, `SelectRevision`, `ArchiveSkill`, `RestoreSkill`, `SetPin`, `RemovePin` | skills, revisions, pins of agents |
| agent | `CreateAgent`, `Associate`, `Associated`, `Dissociate` | agents and their sessions |
| dataset | `CheckName`, `WriteName`, `Retire` | datasets: look first, write later |

**Recall** extends them by the readers of the graph: `RecallQuery` (resolve, search,
fuse, neighbourhood, hydrate entities, relations and evidence, answer and audit),
`GraphRead` (subgraph and path), `Provenance` (source, relation, query). While one
reads, a forget, a merge or the retirement of the dataset may commit between any
two of its statements (`ForgetSource`, `Merge`, `Retire`), and the projection
follows kind by kind (`Project`). Ranking is abstracted to "some of the
candidates".

## 4 What the runs show

Distinct states in parentheses; with two workers each run ends within four minutes.

| Run | Question and answer |
|---|---|
| `exec_faults` (1 205 911) | One run of two steps, three boots, every fault. Steps start in order, a running step has a held run, effects are committed exactly once, a cancellation is honoured. |
| `exec_settles` (149 721) | Two runs of one dataset and two boots under fairness, with retries, cancellation and a graceful restart. Recovery never takes a run from a live execution while heartbeats get through; each run ends, or some process has been stopped or lost (the promise is discharged then, so that it speaks of the life under processes that stay); a boot releases a stale run it has yet to ask for or has found, unless its last round leaves it because others held the row. |
| `claim_exclusion` (998 454) | Two processes that boot, converge and claim statement by statement, with retries, cancellations and lost connections. The protocol refines the atomic claim; scopes have one owner; a run overtakes an older global run only if that one became eligible during the claim, because its back-off elapsed or its own transaction, begun earlier, committed after the check; a converging process claims only deletions past their mutation. |
| `claim_liveness` (123 268) | With a scan limit of one, a run of a free dataset is found although other executions never end; a global run among an endless stream of dataset runs is claimed. |
| `outbox_rows` (377 772) | The consumer of one process and a drain of another; a chunk and a mention are projected, the mention is forgotten and a merge says it again, while Neo4j fails, calls outlive their leases, finalizations are lost and the draining process dies. A delete takes effect after the upserts before it have settled; once a delete is done its element comes back only by an upsert committed later or by a holder that has lost its lease (both happen, see section 8); a drain that returns has seen everything it owed applied; every row settles and every drain ends. |
| `submission` (1 261 317) | Three requests, two at a time, in every interleaving of their statements. They implement the contract of keys; a waiting Remember has its bytes and nothing staged is left behind; once a delete is accepted only requests already past their barrier get in; requests never wait in a circle. |
| `sources` (1 013 457) | Any three runs of Remember, the Forgets and an administrative delete, retries, and restarts on either backend, with two faults. Sources in use are readable; bytes whose location is not committed yet are found again, but for those a return to the file system left in S3 (which the run reaches, see section 8); start-up blames nobody for what its own crashes left and starts no deletion under a migration; what is called deleted is gone; a begun delete is never undone; convergence ends. |
| `startup` (288 163) | Two processes of a new version and one of the old one, killed, stopped, failing. No child outlives its critical section; two run at once only where the connection that holds the lock closed under one of them (which the run reaches, against ADR-0015, see section 8); a process never migrates a second time after a failure; also then the new version becomes operational or stops. |
| `knowledge` (241 584) | Two sources that share an entity, four runs of Cognify, Forget and Improve. An empty outbox means a faithful graph; relations stay unique although no constraint says so; every piece of evidence lies where its endpoints are mentioned, which is what Forget relies on; nothing forgotten is visible and nothing remembered is lost. Beside it (in the initial state) every text of up to six characters is cut under every setting of up to three tokens: the chunks cover it in order, overlap by no more than was asked, and hold no more than `max_tokens` but for the newline they end with or a single character that has more. |
| `services` (695 670) | Three concurrent requests to a registry, or one reader among forgets and merges. Keys decide once; a memory is superseded once; an archived session gets no entry; revisions are history; no reader is served what was gone before it asked. |
| `sources_dedup`, `knowledge_rebuild` | Violations, see section 8. |

Each property of a passing run has a mutant in `PROJECT.json`: a definition of the
model changed the way a plausible bug would change the code (a succeeded prefix
resumed at its last step, ingress removed before its object is stored, a shared
lock where an exclusive one is needed, a forget that does not count what a flush
has just deactivated...), kept in the module under the definition's name with a
suffix, which the run refutes.

Some properties name exceptions. They are the weakest for which TLC finds no
counterexample, each is a thing the code really does, and section 8 lists it:
`crossed` in `Sources`, `tangled` in `Knowledge`, the failed delete and the
retry of a delete that never began in `DeletionIsComplete`, the failed read in
`BytesFollowRuns`, the run in the way in `ConvergenceEnds`, the zombie in
`OnlyZombiesResurrect`, `severed` in `OneMigrator`, `stranded` in
`AcceptedBytesKept`. Two of them are too deep for the run's bounds and were
found by the proofs (section 7).

## 5 Bounds

* `MaxAttempts` 2 or 3 (code: 3): two suffice for a retry to succeed or to hit the
  ceiling, three let a recovery and a retry meet in one run.
* `NumSteps` 2 where order matters: a prefix, a current step and a rest; 1 where it
  does not.
* Three worker ids in `exec_faults`: a live owner, a boot that recovers from it and
  one that recovers from both; two in `exec_settles`. `RecoveryLimit` 1 (code: 100). In
  `exec_settles` at most one run is stale at a time, so that the limit does not bite;
  the same properties held on an instance with two datasets, where it does (288 965
  states, too slow to be a run). Ids are used up, so these runs
  have CHECK_DEADLOCK FALSE.
* Three runs in the scope checks: two of one dataset (or of two) and a global one
  are every pair the conflict rules tell apart.
* Two claimers: the protocol's rules are between pairs; the proof is for any number.
* Two claimers of outbox rows, a consumer and a drain: every rule is between the
  holder of a row and one rival, and the safety proofs are for any number. Four
  rows: an upsert, one that needs it as an endpoint, a delete of that one, and one more
  upsert of it. `MaxAttempts` 2 (code: 5). Two faults (`MaxFaults`) of any kind: a call
  that outlives its lease, and a failure or a crash of whoever takes the row over.
* `ScanLimit` 1 and 2, below the number of runs, so that the limit bites.
* `MaxInserting` 2 where overtaking is checked: a global run's transaction and that of a
  dataset run may commit in the order opposite to their begin. 1 where only progress is.
* `Submission`: three requests of which two are in flight. Two rivals are what each
  race is between; the third is what they race about (the original of a retry, the
  dataset delete, the holder of the key). Two works under one key: a replay and a
  conflict. One fault: each is one step from which nothing recovers.
* `Sources`: three runs, two of them pending, two sources. A Remember, the run that
  undoes it and a retry of either; two versions, so that the latest is not the only
  one. Two faults: a failure and a crash during what repairs it, or the two crashes
  that take a process to S3 and back again; a restart may change the backend each time.
* `Startup`: three processes of two versions, each booted twice, two faults: a
  migrator that fails, a rival that waits and an old version that meets the new
  schema.
* `Knowledge`: two sources and three keys, of which the sources share one and each
  relates it to one of its own; similarity is a chain, so that a merge meets an
  entity already absorbed. Two generations, one memory-only reset, four runs: remember,
  forget, merge and cognify once more. A run starts when the outbox is empty
  (`MaxBacklog` 0): rows of several runs at once are `GraphOutbox`'s.
  `knowledge_rebuild` needs three generations, for a second rebuild.
* `Chunking`: six characters give up to six chunks, so paragraph, line and plain cuts,
  overlaps and a small tail all follow one another; the property also holds for seven characters and four tokens.
* `Recall`: three requests of one area (two rivals and one that made what they are
  about), one reader of the graph, as readers do not see each other; two chunks that
  share an entity of three, one relation each; one failed call or transaction.
* Runs, requests, rows and boots are finite, so the systems may really stop: that is
  why these runs have CHECK_DEADLOCK FALSE. That requests do not block each other
  is a property of its own (`RequestsNeverDeadlock`).
* Symmetry only in runs with no liveness property: worker ids, claimers or
  requests, whose names no action compares.

## 6 Fairness

`FairSpec` of PipelineExecution has weak fairness on what a live process does
without being asked (boot, recovery, the end of a poll loop, exit, heartbeats,
engine steps) and on time (heartbeats age, back-off elapses); strong fairness on
the claim of each run, as another run of the scope may keep disabling it while
the poll loop retries for ever. The scan in order of age is what justifies it,
and `claim_liveness` checks that of the claim protocol itself. No
fairness obliges a user to submit or cancel, or a fault to happen.

`PollSpec` of QueueClaim has weak fairness on the claimers' next statement only;
executions need not end. `GlobalRunsNotStarved` assumes in addition that executions
end and time passes. Starvation of a dataset run by two processes that alternate on
a global run is not excluded: the documents support one replica, with overlap at a
restart.

`FairSpec` of GraphOutbox has weak fairness on the loops (scan, claim, call,
finalize, observe) of each live actor and on the lapse of leases. It needs at
least one process that is not killed, which `Crash` guarantees. Neo4j need not
recover: a row then ends failed at its ceiling, which counts as settled.

`Fairness` of Sources has weak fairness on the worker as a whole, on the
convergence loop (`_run_convergence_to_fixed_point` sleeps and tries again for
ever) and on somebody restarting a process that died. Which run is executed is
the claim's choice. Faults are bounded, so S3 becomes available.

`Fairness` of Startup has, for each process, weak fairness on its bootstrap task and
on the operator who repairs what is reported, and strong fairness on `TryLock`: the
lock is tried every interval until the deadline, attempt after attempt, and its
holder always ends.

`Submission`, `Knowledge` and `Recall` have no liveness property: their requests
and steps end by themselves (`RequestsNeverDeadlock`), and that runs and rows end is
what `PipelineExecution` and `GraphOutbox` show.

## 7 The proofs

All theorems hold for every value of the constants under assumptions named in the
modules that declare them. They say that bounds are positive (`NumStepsAssumption`,
`MaxAttemptsAssumption`, `MaxConcurrentAssumption`, `ScanLimitAssumption`,
`SizesAssumption`, `BoundsAssumption`, `HeadAssumption`), that placeholders are no
values (`NoWorkerAssumption`, `NoRunAssumption`, `NoneAssumption`,
`KeysAssumption`, `ActorAssumption`), that what may be asked is a set of requests
the API accepts (`AsksAssumption` of `Submission` and of `Sources`,
`RegistriesAssumption`, `KnowledgeAssumption`: endpoints of a relation are
mentioned where it is), that an extraction relates the entities it names and that
there are finitely many of them and of sources (`ExtractionAssumption`), and two things the code establishes elsewhere:
`LegacyAssumption` (a run from before workers existed has a scope of its own) and
`OrderAssumption` (runs are ordered by age). TLC evaluates each on the instances
of the runs.

**PipelineExecutionProofs** proves type correctness first (`TypeCorrect`), where the
weight is in the choice `FirstPending`: a plan that passed validation and is not
complete has one. Then it proves `StepsInOrder`, `NoOrphanStep`, `EffectsOnce`,
`AttemptCeiling`, `RecoverablePlan`, `ScopeExclusion`, `TerminalForever` and
`CancelIntentKept` from one inductive invariant, `TypeOK` and for each run:

* `InOrder`: a step that is running or succeeded has succeeded predecessors;
* `HeldWhileRunning`: a running step has an operational run;
* `EffectsMatch`: effects are 1 for a succeeded step and 0 for others;
* `WithinCeiling`, `Untouched`, `Unfinished`: attempts and the steps of runs that
  are waiting, absent or held;
* `PrefixDone`: what an execution believes to be behind it *is* succeeded, even
  when it has long lost the run. This is what the safety properties lack by
  themselves: a superseded execution's position is harmless because success is
  never revoked;
* `PreparesQuiet`: while the current attempt has not prepared, no step is running;
* `ProgressEarned`: until the run is terminal, progress counts succeeded steps only.

`LiveOwnersKept` (recovery takes no run from a live, unstalled process) has an
invariant of its own, `Leased`: while no process stalls, an execution that is in
memory belongs to a process that is alive and owns its row, the run is operational
and its heartbeat fresh. An execution is therefore the only one of its run, and a
stale run has none.

**QueueClaimProofs** proves that `Spec` implements `ClaimContract`
(`ClaimsImplementContract`), that scopes have one owner, that overtaking is
confined to the claim in flight, and that a converging process claims deletions
only. The invariant is `TypeOK`, that lock tables exclude (`LocksExclude`), and
for each claimer what its position entails: it holds the row lock of its target
(`TargetLocked`) and the advisory locks it passed (`ScopeLocked`), and after the
re-check the scope is still free (`ScopeChecked`): a rival that would occupy it
needs a lock this claimer holds. `NoOvertaking` has a second invariant
(`EarlyInv`): after the precheck an older global run that is eligible became so since
(it is in the claim's `late`), because a row inserted later has the youngest place and
one whose insertion was under way commits, or lets its back-off elapse, under the
claimer's eyes.

**GraphOutboxProofs** proves every safety property of the outbox. `SettledRowsStay`
needs types and the list of ways a step may move a row (`RowMoves`). The others
need `IInv`: a holder that reports success has applied its row
(`AppliedByHolder`); rows are committed in order (`CommittedInOrder`), so that a
delete being committed means every smaller row is; and once a delete has been
claimed, every upsert of its dataset before it is settled (`DeletesFenced`). The
last one is what the fence promises: it is read at the claim, and as settled rows
stay it is still true when the call takes effect, however late, and when the row is
reclaimed. That no owner undoes a later delete follows: an owner's row is not
settled, and all upserts before a delete that is done are (`ZombieStep`). What comes
after the delete was committed after it and may bring the element back. `DrainsConverge`
adds where each drain is in its snapshot (`Position`): everything before its row,
in the drain's order, has been applied.

**StartupProofs** proves `OneMigrator` for any number of processes and versions. A
process between the classification and the end of its migration is alone in holding
the lock (`Exclusive`), unless its connection was closed under its migration, which
`severed` remembers; a child lives only there (`ChildGuarded`), and a process
that has seen its migration fail only ever verifies afterwards (`FailedOnce`), which
is why a failed migration is not tried a second time. That `lock` is a *set* of
holders is what makes exclusion something to prove.

**SubmissionProofs** proves `BytesFollowRuns`, `OnlyLateRequestsSlipIn` and
`KeysAreKept`, the last with the refinement mapping of `SubmissionContract`, for any
number of requests, keys and faults. Everything rests on the one statement that the
code spreads over a lookup, a lock that is not taken and a unique index: a key has
one run (`UniqueKeys`). An insert that is not committed is alone with its key
(`KeyAlone`); a request has no run before its commit and its own afterwards
(`HasOwnRun`), a retry's key names the original (`RetriesOriginal`), text and files
are staged from before the lookup until the run that reads them ends or the request
that owns them does (`BytesStaged`), and what is at its insert under a begun delete
has passed the barrier before it (`LateIsKnown`). `KeysAreKept` then compares the
two machines step by step: a commit binds, an answer replays or refuses, everything
else stutters. `SomebodyAlwaysGoesOn` is deadlock freedom: the session's lock is held
only between the lock and the end of the transaction (`LockInUse`), a request that
lost an insert has a winner, and a tombstoned dataset has its delete run (`WaitInv`).
So if everybody under way waited, nobody would hold an uncommitted insert, hence
nobody would wait for one, hence nobody would hold the lock.

**RecallProofs** proves the five properties of `Registries` and `Recall` from one
invariant with a part per area. All of them rest on one fact about locks
(`Exclusive`): no row lock and no uncommitted key has two holders, so that what a
request has seen of a row it has locked is what is there when it writes
(`MemoryHeld`, `KeyHeld`, `SessionHeld`, `SkillHeld`). `KeysDecide` needs that
answers agree with the ledger (`Agrees`) and that the maker of a memory was answered
with it (`Creator`); `ArchiveFreezes` and `RevisionsAreHistory` follow from the
parts about sessions and skills. `ServedIsLive` needs what a reader holds after each
of its statements (`SeenLive`): nothing in it was gone when the reader began, because
each statement rereads visibility from PostgreSQL and visibility, once lost, does not
come back.

**SourcesProofs** proves the four safety properties of storage and that an
administrative delete is final, in two layers. `RunsInv` is about runs: versions and runs are numbered
as they come (`Numbered`), rows have the shape their step entails (`RunShape`), the
worker executes one at a time (`OneAtATime`), while storage converges only what has
mutated its targets runs (`ConvergingRuns`), a dataset that a delete owns is not
active (`DeleteKeepsDataset`), and the deletes under way are one lineage
(`OneLineage`). `BytesInv` is about bytes:

* `Held`: a source is stored by one run (`OneStores`, `StoredOnce`), bytes that have
  been put and not yet committed are where the step believes them (`Written`), and
  a Remember that has not ended has its bytes in the ingress or under the final name
  (`BytesKept`), wherever its last attempt was cut off, or in S3 under a process that
  came back to the file system in between (`stranded`);
* `OriginalsKept`: a source in use, *or one a memory-only forget will put back in
  use*, is readable at its location, lost to others, or crossed. Without the second
  half the invariant is not inductive: what a memory-only forget marks is `deleting`
  like what a full one marks, and only the intent of the run that marked it says
  which bytes must stay;
* `ClearedIsGone`, `DeletersKnown`: what a deletion noted as cleared is gone, and a
  source that is being deleted has runs that do so;
* `PassSound`: where a convergence pass stands, the copy it believes to have made
  exists, what it still has to judge is in its snapshot, and all it has failed on is
  lost or crossed.

Each action has a lemma per layer over frames (`RowIs`, `Only`) that say what it does
to a row. The attempt to prove `LiveSourcesReadable` and
`DeletionIsComplete` as first stated failed for a good reason: both were false on
instances larger than the run's. The two sequences are the code's own (section 8,
storage: a queued forget taken for the intent, a retry beside a second delete); the
first made `Crossing` part of the model, the second is the exemption `RetriedAnew`.

**KnowledgeProofs** proves the five invariants of `Knowledge` for any number of sources,
keys, generations, resets, failures and runs, whatever the extractions say and whichever
keys are similar. The invariant (`IInv`) has three layers:

* *Rows* (`RowsOK`): rows name rows, an active entity is alone with its key in every
  generation (`KeyOnce`), an active relation with its identity (`IdentityOnce`), and a
  chunk that is evidence mentions both endpoints (`EvidenceNamed`).
  `OneRelationPerIdentity` and `EvidenceIsMentioned` are read off here, but neither is
  inductive alone: the lookup by key finds entities of any generation, and a merge
  keeps identities apart only because its plan has no chains (`MergePlanned`).
* *What chunks say* (`DocsOK`, `BornOnly`, `EntsAhead`, `RelsAhead`, `SummaryOK`,
  `Untangled`): a chunk's identity is never used twice, and a generation is `Sound` when
  each of its chunks finds all it was found to say (`Kept`), every active entity and
  every relation between active ones is stated by a chunk in force, and no chunk names
  an entity of a later generation. The generation readers see is sound, and so is one
  that has been rebuilt and waits for its activation: that second half is why
  activation shows nothing that was forgotten and hides nothing that was not. Soundness
  speaks of the names keys were extracted under (`m.of`), which is what survives a
  merge. `ForgottenIsGone` and `RememberedIsKept` are its two directions.
* *The projection* (`GraphOK`, `Complete`): what the graph and the pending upserts have
  stands for a row (`Stands`), hangs on a node that is gone for good (`Loose`), or is
  about to be deleted; and whatever is due (`Due`) is in the graph or on its way. A
  relation that loses a merge has no delete of its own, hence `Loose`: its edge goes
  with the absorbed entity it hangs on, and until then no row stands for it. A drain
  may drop an edge for want of an end and cannot drop one that is due, because its
  ends are due too (`DueEnds`), and what is due is not deleted (`DueNotGone`). When
  the outbox is empty nothing hangs any more, and `GraphConverges` remains.

`Tangles` bounds what is claimed: after a run has met an unfinished rebuild, only the
parts that are not under `~tangled` are promised (section 8, knowledge). A batch and the
plan of a merge are folds. They are handled without induction over data: that every
intermediate state extends the rows (`OneMore`), or keeps the plan free of chains
(`AbsorbPlans`), is carried along the fold by a least counterexample (`LeastNatural`).
Each action then has two lemmas, `...Core` for the second layer and `...Graph` for the
third, over frames that say what it takes from or adds to the rows (`Fades`, `Extends`,
`Merges`, `Undisturbed`). Before it was proved TLC checked the invariant on the run's
instance and on one with a relation of an entity to itself and with up to two commands
waiting when a run starts.

Only model-checked, and why:

* `ConvergenceEnds`, `StartUpEnds`, `EveryRunSettles` and the other liveness
  properties: the proof system does not handle fairness.
* the second half of `RequestsNeverDeadlock`, that a request which `Waits` for nothing
  has its next step ENABLED. Its first half, `SomebodyGoesOn`, is proved.
* `ChunksCoverAndFit`: induction over the text.

## 8 Where code and documents disagree

Runs:

* `sources_dedup`: a Remember that fails between `prepare_and_ingest` and
  `finalize_storage` leaves a source without storage; its manual retry takes that
  source for a duplicate and succeeds with nothing stored. So does a new Remember
  of content whose latest source was deleted. `remember.py:565` says that a reused
  source keeps its own already finalized storage.
* `knowledge_rebuild`: a source that fails in a rebuild has no document in the new
  generation, and every later rebuild of the dataset is refused because of it.
  `cognify.py:513` says that a rebuild reprocesses such sources.

Seen while modelling and not made runs. Those the models contain are the exceptions
named above, or what their histories record.

*Execution and queue.*

* A run whose process restarts inside the staleness window is not recovered by that
  boot and nothing looks again (`pipeline_recovery.py:132`), though ADR-0009 says
  the next startup picks it up. Neither is one whose row is locked in the last round, or
  that waits behind a whole batch of such rows, although `lifespan.py:300` has recovery
  "finish completely" before polling. The model polls over such runs;
  `StaleRunsAreReleased` says which are not left. If it is a deletion that storage convergence waits
  for, start-up waits with it.
* Recovery of a cancelled run reports progress 1.0 although its remaining steps were
  cancelled (`pipeline_recovery.py:407`), against ADR-0009's succeeded share.
* The engine raises its invariant error on a legal race (heartbeats stalled, the run
  requeued by another boot), which its doc calls impossible (`engine.py:462`, `:113`).
* The recovery-owned deletion a converging process waits for is never claimed while
  an older queued run of its dataset is the only one the scan offers
  (`pipeline_queue_claimer.py:135`); `lifespan.py:353` says it becomes claimable.
* Recovery and step retry set a back-off, so younger runs of the dataset may overtake.
* ADR-0009 (section D, "Frozen rule") says that no dataset run submitted after an
  eligible global run is claimed ahead of it. A global run whose transaction began first
  and commits behind the precheck of a claim in flight is overtaken by it
  (`pipeline_queue_claimer.py:257`); `OvertakesOnlyInFlight` is what does hold.

*Outbox.*

* Two upserts of one element are claimed independently; while a drain is applying the
  older, the consumer applies the newer, and the older payload lands last with both
  rows done (`graph_outbox.py:223`). ADR-0008 says the projection converges to the
  state of PostgreSQL.
* A holder whose lease lapsed may still write after the delete of its element is done,
  although `list_processable_ids_for_dataset` says a torn down dataset cannot be
  recreated in part; and a row whose holders always die is reclaimed beyond its ceiling.

*Submission.*

* A session's status is read before its lock is waited for, so a session archived in
  between still admits the request (`api/routes/remember.py:518`, `recall.py:368`),
  against the sessions contract ("Session archived não admite nova atividade").
* Delete, cancel of its queued run, a second delete, then a retry of the first: two
  deletes of one dataset are pending, which `pipeline_runs.py:791` excludes.
* When the read after the commit fails, the clean-up removes the ingress of a run that
  was accepted. When the handler is cancelled, nothing is cleaned up; the ingress of a
  failed original is never removed either.

*Storage and deletion.*

* A Remember puts its object into S3, drops its ingress (`remember.py:614`), and the
  process dies before the location is committed. If the next one is configured for
  the file system again, the step looks for the local object, finds no ingress, and
  ends the run with `REMEMBER_INGRESS_MISSING` (`remember.py:624`); the object stays in
  S3 with nothing that names it. ADR-0011 D5 keeps both adapters for a "controlled
  rollback of the setting without data loss, and old durable `PipelineRun`s created
  before a backend change resuming correctly after restart"; `docs/operations.md`
  (13.12) calls the switch "Fully supported" and `docs/wiki/Storage-and-S3.md:27` mixed
  states "safe during migration and rollback scenarios". The amendment B1 covers the
  other direction alone. These sources are `stranded`; without that exception
  `AcceptedBytesKept` is violated.
* `converge_projection` must not succeed while rows of the delete are dead
  (`dataset_delete.py:338`), and its comment counts on a fresh delete to "redo
  deactivate_authoritative, producing fresh rows". A retry's deactivation finds
  nothing active, emits no rows and converges at once; the dataset is tombstoned
  with the earlier rows dead. Without its exemption `DeletionIsComplete` is violated.
* A Remember in back-off before `finalize_storage`, overtaken by a full forget, stores
  bytes of a source that is deleted; or the forget clears the location of an object
  that exists. A memory-only forget of the dataset takes over a source whose full
  forget failed after its bytes were deleted, and revives it without bytes, which
  later makes convergence report an integrity failure. Both are `crossed`.
* What a source in `deleting` is to become is read from the FORGET created last
  (`find_latest_forget_for_source_except`, `pipeline_runs.py:379`, called at
  `forget.py:239`), though its docstring (`pipeline_runs.py:387`) speaks of the
  intent "that put a source into `deleting`". A full forget still queued is taken for
  that intent, or deletes the bytes of what a memory-only forget in back-off has
  marked and later revives without bytes. This is `crossed` too (`Crossing`).
* The barrier does not hold the retry of a DATASET_DELETE back (`run_control.py:184`,
  `pipeline_submission.py:514`). A delete that failed before `begin_delete` may be
  retried beside a newer one; the second to deactivate finds nothing active and emits
  no rows, waits for none (`if not outbox_ids` in `converge_projection`) and tombstones
  the dataset while the rows of the first are not projected (`RetriedAnew`). It takes a
  failed delete, a second one and a retry between two steps: four runs, one more than
  the run has.
* An object stored before its location was committed, then forgotten, stays
  (ADR-0011 D39 accepts this), and so do duplicates whose clean-up was deferred.
* With the worker disabled a pending deletion keeps an S3 process converging for ever.
* A lock connection that drops during a migration releases the lock while the child
  runs on (`migration_bootstrap.py:515` watches the child only), and a second process
  starts another. `docs/adr/0015-automatic-serialized-migration-bootstrap.md:80` says
  that no two automatic migrations may run concurrently, and `:137` that one must
  never remain capable of mutating the database after its serialization has been
  released. What is left then is the transaction of Alembic: the second child fails.

*Knowledge.*

* A merge upserts mentions of forgotten chunks again (`improve.py:470`): the mention is
  back if its chunk is still projected, and otherwise its endpoint is missing and the
  row dies (`dead`), against `dataset_delete.py:323`.
* A source that fails in a rebuild loses what the previous generation knew of it before
  the new one is active, against `docs/api.md:415`.
* A merge, a forget and a rebuild in this order, or a forget while a generation is half
  built, leave visible entities without support. A memory-only forget then
  revives chunks that were forgotten. A Cognify after an abandoned rebuild attaches
  mentions to entities that are not visible. A reconcile between the steps of a
  rebuild removes what it has projected.
* A source remembered between a rebuild's steps has no document in the new generation.
* A chunk may have more than `max_tokens`: the cut is made behind a newline found at
  `max_end` itself (`chunking.py:178`), which may be a token more
  (`tests/unit/test_chunking.py:42` asserts the limit). With an overlap a chunk may be
  cut at its predecessor's newline again and be contained in it.
* A dataset summary is not made again when a new document is cognified; feedback on a
  query over several datasets is marked applied by the first of them.
* `docs/api.md` section 12 says the stages of Improve run in a fixed order; the order
  of the request is kept.

*Registries and reads.*

* PUT of a session that an agent already has, and a DELETE of the pair between its
  insert and its read: the answer is 404 although the session exists
  (`agent_sessions.py`, a branch marked as unreachable). `Associated` has it.
* A memory's `created_at` is the start of its transaction and `superseded_at` the
  clock of the application, so an `as_of` between them shows both or none.
* `path` hydrates entities and relations in two statements: after a merge in between
  an edge of the answer need not join its nodes. Recall may show a relation whose
  endpoints it does not show. An audited answer keeps text of chunks forgotten later.

## 9 What is not modelled

Outside the models for good: the HTTP layer (validation, translation, OpenAPI),
loaders and model providers (external input and services, seen as success
or failure; what they return is a choice), ranking and its arithmetic, Cypher and SQL
text, logging, metrics and configuration, the DDL except for the constraints a
model names. Clocks are abstracted to "elapsed or not". PostgreSQL is taken to provide
READ COMMITTED, row locks, unique indexes that wait, and advisory locks.

Inside modelled components: the opposite lock orders of a request for a dataset's
deletion (dataset, then the pending delete's run, `services/dataset_delete.py:143`, `:156`)
and of the engine persisting `begin_delete` (run, then dataset,
`steps/dataset_delete.py:177`): each is one action of `Submission`, so that the wait, which
PostgreSQL ends by aborting one of the two, is outside `RequestsNeverDeadlock`; a forget
of a source that is finished while the dataset is being forgotten with another intent
(`Knowledge` ends it with the dataset's, `Sources` has both); a recovery pass that is repeated, with the worker already
polling, because storage convergence raised (it can only release more); the weights that Improve computes and the feedback it
applies (a node's data, not its existence); the text of skill packages; paging and
filters of the lists; deletes of sessions' pipeline history; the Neo4j schema.

## 10 Plan

Done: execution, queue, outbox, submission, sources with deletion and convergence,
start-up, knowledge, registries and reads.

Proved: every safety invariant and action property of these modules except those
section 7 lists as only model-checked.

Left, in this order:

1. `Sources` with a fourth run, so that TLC shows the two sequences the proofs have
   found, and beside `GraphOutbox`, so that the rows of a delete are the outbox's own.
2. `Algorithms`: rank fusion and importance weights as operators against
   reference definitions.
