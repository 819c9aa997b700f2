------------------------------- MODULE Sources -------------------------------
(***************************************************************************)
(* The bytes of a dataset's sources: the Remember pipeline that stores     *)
(* them, the Forget and DATASET_DELETE pipelines that remove them, manual  *)
(* retry, and the start-up convergence that moves them from the local file *)
(* system to S3 while the pipelines that were interrupted in the middle of *)
(* a deletion finish.  The process may die between any external effect and *)
(* the transaction that records it, and the next one may be configured for *)
(* S3 or, the supported way back, for the file system.                     *)
(*                                                                         *)
(* One dataset, one process, and one content: every Remember carries the   *)
(* same bytes, so that deduplication always has a candidate, and a source  *)
(* is named by its version.  Runs of a dataset execute one at a time       *)
(* (QueueClaim) and are numbered in the order they were created.           *)
(***************************************************************************)
EXTENDS Integers, FiniteSets, Sequences

CONSTANTS
    MaxSources,  \* bound: versions of the content
    MaxRuns,     \* bound: runs created
    MaxPending,  \* bound: runs waiting or running at a time
    Asks,        \* what clients ask for
    Faults,      \* subset of {"crash", "fail", "switch", "s3", "lost", "dead"}
    MaxFaults    \* bound: how many of them happen (a switch does not count)

Sources == 1..MaxSources
Runs == 1..MaxRuns
None == 0

ForgetKinds == {"forget_source", "forget_dataset", "everything"}
Ask == [kind : {"remember", "dataset_delete"} \cup ForgetKinds,
        target : Sources \cup {None},        \* forget_source
        memory_only : BOOLEAN,               \* forget
        force : BOOLEAN, url : BOOLEAN, full : BOOLEAN]   \* remember

ASSUME BoundsAssumption == MaxSources \in Nat \ {0} /\ MaxRuns \in Nat \ {0}
ASSUME AsksAssumption == Asks \subseteq Ask

VARIABLES
    phase,    \* ProcessState of the process, "down" when there is none
    backend,  \* settings.storage_backend
    dataset,  \* datasets.status
    source,   \* sources, by version
    local,    \* sources with their bytes in data_directory
    s3,       \* sources with their bytes in the bucket
    ingress,  \* runs with bytes in data_directory/_ingress
    run,      \* pipeline_runs with the persisted outputs of their steps
    owned,    \* recovery_owned_run_ids
    pass,     \* the convergence pass under way
    lost,     \* history: sources whose object somebody else destroyed
    crossed,  \* history: sources of two runs that undo each other (below)
    stranded, \* history: sources a return to the file system left in S3
    faults    \* how many faults have happened

vars == <<phase, backend, dataset, source, local, s3, ingress, run, owned, pass,
          lost, crossed, stranded, faults>>

-----------------------------------------------------------------------------
(* Rows *)

\* doc: an active normalized document of the current generation exists.
Source == [status : {"absent", "pending", "active", "deleting", "deleted"},
           uri : {"none", "file", "s3"}, doc : BOOLEAN]
NoSource == [status |-> "absent", uri |-> "none", doc |-> FALSE]

\* What storage_deletion reports of a source: the statuses that clear its
\* storage_uri (deleted_now, already_absent, not_requested), or unresolved.
Results == {"none", "cleared", "unresolved"}

\* src, dedup: the output of prepare_and_ingest.  uri: of finalize_storage.
\* results: of storage_deletion.  rows: the graph rows deactivate_authoritative
\* emitted and nobody has projected yet.  backoff: queued, its next_attempt_at
\* to come.  pc: whether the step has executed and is still to be persisted.
Run == [status : {"absent", "queued", "backoff", "running", "succeeded", "failed"},
        ask : Ask, of : Runs \cup {None}, step : 1..6, pc : {"ready", "done"},
        src : Sources \cup {None}, dedup : BOOLEAN, uri : {"none", "file", "s3"},
        results : [Sources -> Results], rows : {"none", "pending", "dead"},
        conflict : BOOLEAN]

\* The steps that touch what this module has; cognify includes
\* finalize_result, and what a forget projects is GraphOutbox's.
Plan(kind) ==
    CASE kind = "remember" -> <<"ingest", "store", "cognify">>
      [] kind = "dataset_delete" -> <<"begin", "deactivate", "converge", "delete", "tombstone">>
      [] OTHER -> <<"mutate", "delete", "finalize">>

Exists(s) == source[s].status # "absent"
Live(s) == source[s].status \in {"pending", "active"}
Known == {s \in Sources : Exists(s)}
Undeleted == {s \in Known : source[s].status # "deleted"}
Deleting == {s \in Known : source[s].status = "deleting"}
Latest == Cardinality(Known)          \* get_latest_by_content_hash

Created == {r \in Runs : run[r].status # "absent"}
Waiting == {"queued", "backoff"}
Nonterminal(r) == run[r].status \in Waiting \cup {"running"}
Kind(r) == run[r].ask.kind
IsForget(r) == Kind(r) \in ForgetKinds
IsDelete(r) == Kind(r) = "dataset_delete"
Step(r) == Plan(Kind(r))[run[r].step]
Passed(r, name) == \E i \in 1..Len(Plan(Kind(r))) : i < run[r].step /\ Plan(Kind(r))[i] = name

\* exists_administrative_delete_ownership
DeleteOwnsDataset == \E r \in Created : IsDelete(r) /\ Passed(r, "begin")
\* AUTHORITATIVE_MUTATION_STEP_NAMES_BY_PIPELINE_TYPE
Mutated(r) ==
    \/ IsForget(r) /\ Passed(r, "mutate")
    \/ IsDelete(r) /\ Passed(r, "deactivate")


NoAsk == [kind |-> "everything", target |-> None, memory_only |-> FALSE,
          force |-> FALSE, url |-> FALSE, full |-> FALSE]
NewRun(status, ask, of) ==
    [status |-> status, ask |-> ask, of |-> of, step |-> 1, pc |-> "ready", src |-> None,
     dedup |-> FALSE, uri |-> "none", results |-> [s \in Sources |-> "none"],
     rows |-> "none", conflict |-> FALSE]
NoPass == [at |-> "idle", todo |-> {}, snap |-> [s \in Sources |-> NoSource], cur |-> None,
           failed |-> {}, d43 |-> {}, lineage |-> {}, again |-> FALSE]

Init ==
    /\ phase = "operational" /\ backend = "file"
    /\ dataset = "active"
    /\ source = [s \in Sources |-> NoSource]
    /\ local = {} /\ s3 = {} /\ ingress = {}
    /\ run = [r \in Runs |-> NewRun("absent", NoAsk, None)]
    /\ owned = {}
    /\ pass = NoPass
    /\ lost = {} /\ crossed = {} /\ stranded = {}
    /\ faults = 0

Fault(f) == f \in Faults /\ faults < MaxFaults /\ faults' = faults + 1
stores == <<local, s3, ingress>>
process == <<phase, backend, owned, pass, stranded>>
histories == <<lost, crossed, faults>>

-----------------------------------------------------------------------------
(* The object stores.  A location decides the adapter, not the setting, and   *)
(* what is there already with the same content is left as it is.              *)

Objects(scheme) == IF scheme = "file" THEN local ELSE s3
HasFile(s) == s \in local
HasObject(s) == s \in s3
Readable(s) ==
    \/ source[s].uri = "file" /\ HasFile(s)
    \/ source[s].uri = "s3" /\ HasObject(s)

\* A temporary file renamed into place; a put confirmed by a head.
WriteFile(s) == local' = local \cup {s} /\ UNCHANGED s3
PutObject(s) == s3' = s3 \cup {s} /\ UNCHANGED local
Store(s) == IF backend = "file" THEN WriteFile(s) ELSE PutObject(s)

\* Without a location nothing is asked for; what is absent counts as deleted.
UnlinkFile(s) == local' = local \ {s} /\ UNCHANGED s3
RemoveObject(s) == s3' = s3 \ {s} /\ UNCHANGED local
Remove(s) ==
    CASE source[s].uri = "file" -> UnlinkFile(s)
      [] source[s].uri = "s3" -> RemoveObject(s)
      [] OTHER -> UNCHANGED <<local, s3>>

-----------------------------------------------------------------------------
(* Submission and manual retry (Submission has them in detail) *)

\* raise_if_dataset_administratively_blocked
Blocked ==
    \/ dataset = "deleted"
    \/ \E r \in Created : IsDelete(r) /\ Nonterminal(r)
    \/ dataset = "deleting" /\ DeleteOwnsDataset

Admitted(a) ==
    CASE a.kind = "everything" -> TRUE
      [] a.kind = "forget_dataset" -> dataset \in {"active", "deleting"} /\ ~Blocked
      [] a.kind = "forget_source" -> dataset = "active" /\ ~Blocked /\ a.target \in Known
      [] OTHER -> dataset = "active" /\ ~Blocked

NextRun == Cardinality(Created) + 1
CanCreate ==
    /\ phase = "operational"
    /\ NextRun \in Runs
    /\ Cardinality({r \in Created : Nonterminal(r)}) < MaxPending

\* Text and files are staged before the run exists, a URL is fetched later.
Submit(a) ==
    /\ CanCreate /\ Admitted(a)
    /\ run' = [run EXCEPT ![NextRun] = NewRun("queued", a, None)]
    /\ ingress' = IF a.kind = "remember" /\ ~a.url THEN ingress \cup {NextRun} ELSE ingress
    /\ UNCHANGED <<dataset, source, local, s3, process, histories>>

\* prepare_remember_retry_ingress: the original's ingress, nothing for a URL
\* whose source was never committed, or the original's final storage.
Retry(o) ==
    /\ CanCreate /\ o \in Created /\ run[o].status = "failed"
    /\ \A r \in Created : run[r].of # o
    /\ Kind(o) \notin {"everything", "dataset_delete"} => ~Blocked
    /\ LET refetched == run[o].ask.url /\ run[o].src = None
           staged == \/ o \in ingress
                     \/ run[o].src # None /\ Readable(run[o].src)
       IN  /\ Kind(o) = "remember" => staged \/ refetched
           /\ ingress' = IF Kind(o) = "remember" /\ staged
                         THEN ingress \cup {NextRun} ELSE ingress
    /\ run' = [run EXCEPT ![NextRun] = NewRun("queued", run[o].ask, o)]
    /\ UNCHANGED <<dataset, source, local, s3, process, histories>>

-----------------------------------------------------------------------------
(* The engine *)

\* _allowed_under_policy while storage converges
RecoveryMayClaim(r) == (IsForget(r) \/ IsDelete(r)) /\ r \in owned /\ Mutated(r)

\* The scan offers the oldest queued run of the dataset, allowed or not.
Claim(r) ==
    /\ run[r].status = "queued"
    /\ \A q \in Created : run[q].status # "running" /\ (run[q].status = "queued" => r <= q)
    /\ \/ phase = "operational"
       \/ phase = "converging" /\ RecoveryMayClaim(r)
    /\ run' = [run EXCEPT ![r].status = "running"]
    /\ UNCHANGED <<dataset, source, stores, process, histories>>

BackoffElapses(r) ==
    /\ run[r].status = "backoff"
    /\ run' = [run EXCEPT ![r].status = "queued"]
    /\ UNCHANGED <<dataset, source, stores, process, histories>>

Runs_(r, step) == phase # "down" /\ run[r].status = "running" /\ Step(r) = step

\* The run after its step is persisted: it succeeds with its last one.
Advanced(row) ==
    [row EXCEPT !.step = row.step + 1, !.pc = "ready",
                !.status = IF row.step = Len(Plan(row.ask.kind)) THEN "succeeded" ELSE @]
Persist(r, row) == run' = [run EXCEPT ![r] = Advanced(row)]
FailPermanently(r) == run' = [run EXCEPT ![r].status = "failed", ![r].pc = "ready"]

-----------------------------------------------------------------------------
(* Remember *)

\* A URL is fetched into ingress; a retry of the step finds it there.
FetchUrl(r) ==
    /\ Runs_(r, "ingest") /\ r \notin ingress /\ run[r].ask.url
    /\ ingress' = ingress \cup {r}
    /\ UNCHANGED <<dataset, source, local, s3, run, process, histories>>

\* _retry_source_reuse: the source the original run committed, whatever has
\* become of it.
RetrySource(r) == IF run[r].of = None THEN None ELSE run[run[r].of].src
\* Otherwise the latest version, unless `force`.
DedupTarget(r) ==
    IF RetrySource(r) # None THEN RetrySource(r)
    ELSE IF Latest > 0 /\ ~run[r].ask.force THEN Latest ELSE None

\* prepare_and_ingest: what was staged is gone, or the dataset is not active.
IngestFails(r) ==
    /\ Runs_(r, "ingest")
    /\ \/ r \notin ingress /\ ~run[r].ask.url
       \/ r \in ingress /\ dataset # "active"
    /\ FailPermanently(r)
    /\ UNCHANGED <<dataset, source, stores, process, histories>>

\* It persists under the dataset's row lock.
Ingest(r) ==
    /\ Runs_(r, "ingest") /\ r \in ingress /\ dataset = "active"
    /\ \/ /\ DedupTarget(r) # None
          /\ Persist(r, [run[r] EXCEPT !.src = DedupTarget(r), !.dedup = TRUE])
          /\ UNCHANGED source
       \/ /\ DedupTarget(r) = None /\ Latest < MaxSources
          /\ source' = [source EXCEPT ![Latest + 1] =
                           [status |-> "pending", uri |-> "none", doc |-> TRUE]]
          /\ Persist(r, [run[r] EXCEPT !.src = Latest + 1])
    /\ UNCHANGED <<dataset, stores, process, histories>>

\* finalize_storage, execute.  First the object: from ingress, or, with S3,
\* from the copy an attempt on the file system left behind.
Bytes(r) ==
    \/ r \in ingress
    \/ backend = "s3" /\ run[r].src \in local
StoreObject(r) ==
    /\ Runs_(r, "store") /\ run[r].pc = "ready" /\ ~run[r].dedup
    /\ run[r].src \notin Objects(backend)
    /\ IF ~Bytes(r) THEN FailPermanently(r) /\ UNCHANGED <<local, s3>>
       ELSE Store(run[r].src) /\ run' = [run EXCEPT ![r].uri = backend]
    /\ UNCHANGED <<dataset, source, ingress, process, histories>>

\* Then the ingress is removed, before the location is persisted.
DropIngress_Early(r) ==
    /\ Runs_(r, "store") /\ run[r].pc = "ready" /\ ~run[r].dedup
    /\ ingress' = ingress \ {r}
    /\ run' = [run EXCEPT ![r].pc = IF run[r].src \in Objects(backend) THEN "done" ELSE "ready",
                          ![r].uri = backend]
    /\ UNCHANGED <<dataset, source, local, s3, process, histories>>
DropIngress(r) ==
    /\ Runs_(r, "store") /\ run[r].pc = "ready" /\ ~run[r].dedup
    /\ run[r].src \in Objects(backend)
    /\ ingress' = ingress \ {r}
    /\ run' = [run EXCEPT ![r].pc = "done", ![r].uri = backend]
    /\ UNCHANGED <<dataset, source, local, s3, process, histories>>

\* finalize_storage, persist.  A deduplicated run has nothing to store.
FinalizeStorage(r) ==
    /\ Runs_(r, "store")
    /\ run[r].dedup \/ run[r].pc = "done"
    /\ source' = IF run[r].dedup \/ source[run[r].src].uri # "none" THEN source
                 ELSE [source EXCEPT ![run[r].src].uri = run[r].uri]
    /\ Persist(r, run[r])
    /\ crossed' = IF run[r].dedup \/ Live(run[r].src) THEN crossed
                  ELSE crossed \cup {run[r].src}
    /\ UNCHANGED <<dataset, stores, process, lost, faults>>

\* cognify and finalize_result: in full mode the dataset is active and the
\* source has its document.
Cognify(r) ==
    /\ Runs_(r, "cognify")
    /\ LET s == run[r].src
       IN  IF ~run[r].ask.full THEN Persist(r, run[r]) /\ UNCHANGED source
           ELSE IF dataset # "active" \/ (Live(s) /\ ~source[s].doc)
           THEN FailPermanently(r) /\ UNCHANGED source
           ELSE /\ Persist(r, run[r])
                /\ source' = IF source[s].status = "pending"
                             THEN [source EXCEPT ![s].status = "active"] ELSE source
    /\ UNCHANGED <<dataset, stores, process, histories>>

-----------------------------------------------------------------------------
(* Forget *)

SameIntent(r, q) ==
    /\ Kind(r) = Kind(q)
    /\ run[r].ask.target = run[q].ask.target
    /\ run[r].ask.memory_only = run[q].ask.memory_only

\* find_latest_forget_for_source_except and ..._for_dataset_except; a run
\* that ended in a conflict is never taken for an intent.
LatestForget(r, others) ==
    LET match == {q \in Created \ {r} : IsForget(q) /\ ~run[q].conflict /\ q \in others}
    IN  IF match = {} THEN None ELSE CHOOSE q \in match : \A p \in match : p <= q
PriorOfSource(r) ==
    LatestForget(r, {q \in Runs : Kind(q) = "forget_source"
                                  /\ run[q].ask.target = run[r].ask.target})
PriorOfDataset(r) == LatestForget(r, Runs)

Conflicts(r) ==
    run' = [run EXCEPT ![r].status = "failed", ![r].conflict = TRUE]

\* The authoritative mutation of a set of sources: with memory_only their
\* documents are reset for the next Cognify, those that have any.
Mark(S, r) ==
    [s \in Sources |->
        IF s \notin S THEN source[s]
        ELSE [source[s] EXCEPT !.status = "deleting",
                               !.doc = source[s].doc /\ run[r].ask.memory_only]]

\* _mutate_source
MutateSource(r) ==
    /\ Runs_(r, "mutate") /\ Kind(r) = "forget_source"
    /\ LET t == run[r].ask.target
           prior == PriorOfSource(r)
       IN  \/ /\ dataset # "active"
              /\ FailPermanently(r) /\ UNCHANGED source
           \/ /\ dataset = "active"
              /\ \/ source[t].status = "deleted"
                 \/ source[t].status = "pending" /\ run[r].ask.memory_only
              /\ Persist(r, run[r]) /\ UNCHANGED source
           \/ /\ dataset = "active" /\ source[t].status = "deleting"
              /\ IF prior # None /\ ~SameIntent(r, prior) THEN Conflicts(r)
                 ELSE Persist(r, run[r])
              /\ UNCHANGED source
           \/ /\ dataset = "active" /\ Live(t)
              /\ source[t].status = "active" \/ ~run[r].ask.memory_only
              /\ source' = Mark({t}, r)
              /\ Persist(r, run[r])
    /\ UNCHANGED <<dataset, stores, process, histories>>

\* _mutate_one_dataset.  Everything passes over a dataset that is deleted or
\* that an administrative delete owns; with nothing left it does nothing.
OutOfReach(r) == Kind(r) = "everything" /\ (dataset = "deleted" \/ DeleteOwnsDataset)
MutateDataset(r) ==
    /\ Runs_(r, "mutate") /\ Kind(r) # "forget_source"
    /\ LET prior == PriorOfDataset(r)
       IN  \/ /\ OutOfReach(r)
              /\ run' = [run EXCEPT ![r].status = "succeeded", ![r].step = 4]
              /\ UNCHANGED <<dataset, source>>
           \/ /\ ~OutOfReach(r) /\ dataset = "deleted"
              /\ FailPermanently(r) /\ UNCHANGED <<dataset, source>>
           \/ /\ ~OutOfReach(r) /\ dataset = "deleting"
              /\ IF prior # None /\ ~SameIntent(r, prior) THEN Conflicts(r)
                 ELSE Persist(r, run[r])
              /\ UNCHANGED <<dataset, source>>
           \/ /\ ~OutOfReach(r) /\ dataset = "active"
              /\ dataset' = "deleting"
              /\ source' = Mark(Undeleted, r)
              /\ Persist(r, run[r])
    /\ UNCHANGED <<stores, process, histories>>

\* storage_deletion and delete_storage, execute: one object after the other,
\* of every source that is DELETING when the step starts; nothing else makes
\* or ends one meanwhile.
ForgetTargets(r) ==
    IF run[r].ask.memory_only THEN {}
    ELSE IF Kind(r) = "forget_source" THEN Deleting \cap {run[r].ask.target}
    ELSE Deleting
DeleteTargets(r) == IF IsForget(r) THEN ForgetTargets(r) ELSE Deleting
ToDelete(r) == {s \in DeleteTargets(r) : run[r].results[s] = "none"}

\* A source that still has its document was marked by a memory-only forget.
Crossing(s) == IF source[s].doc THEN crossed \cup {s} ELSE crossed

DeleteObject(r, s) ==
    /\ Runs_(r, "delete") /\ s \in ToDelete(r)
    /\ run' = [run EXCEPT ![r].results[s] = "cleared"]
    /\ Remove(s)
    /\ crossed' = Crossing(s)
    /\ UNCHANGED <<dataset, source, ingress, process, lost, faults>>

\* An adapter that cannot prove the object gone says so, and it may be there.
DeleteUnresolved(r, s) ==
    /\ Fault("s3")
    /\ Runs_(r, "delete") /\ s \in ToDelete(r) /\ source[s].uri = "s3"
    /\ run' = [run EXCEPT ![r].results[s] = "unresolved"]
    /\ s3' \in {s3, s3 \ {s}}
    /\ crossed' = Crossing(s)
    /\ UNCHANGED <<dataset, source, local, ingress, process, lost>>

StorageDeleted(r) ==
    /\ Runs_(r, "delete") /\ ToDelete(r) = {}
    /\ Persist(r, run[r])
    /\ UNCHANGED <<dataset, source, stores, process, histories>>

\* What finalize_target and finalize_tombstone make of the sources of T that
\* are DELETING.  A source without a result fails the step.
Finalized_DropsLocation(r, T) ==
    [s \in Sources |->
        IF s \notin T THEN source[s]
        ELSE IF IsForget(r) /\ run[r].ask.memory_only
        THEN [source[s] EXCEPT !.status = "pending"]
        ELSE [source[s] EXCEPT !.status = "deleted", !.uri = "none"]]
Finalized(r, T) ==
    [s \in Sources |->
        IF s \notin T THEN source[s]
        ELSE IF IsForget(r) /\ run[r].ask.memory_only
        THEN [source[s] EXCEPT !.status = "pending"]
        ELSE [source[s] EXCEPT !.status = "deleted",
                               !.uri = IF run[r].results[s] = "cleared" THEN "none" ELSE @]]
ResultsMissing(r, T) ==
    ~(IsForget(r) /\ run[r].ask.memory_only) /\ \E s \in T : run[r].results[s] = "none"

\* Under an administrative delete the dataset is never made active again.
DatasetAfterForget_Reopens(r) ==
    IF Kind(r) # "forget_source" /\ dataset = "deleting" THEN "active" ELSE dataset
DatasetAfterForget(r) ==
    IF Kind(r) # "forget_source" /\ dataset = "deleting" /\ ~DeleteOwnsDataset
    THEN "active" ELSE dataset

FinalizeTarget(r) ==
    /\ Runs_(r, "finalize")
    /\ LET T == IF Kind(r) = "forget_source" THEN Deleting \cap {run[r].ask.target}
                                             ELSE Deleting
       IN  IF ResultsMissing(r, T)
           THEN FailPermanently(r) /\ UNCHANGED <<dataset, source, crossed>>
           ELSE /\ source' = Finalized(r, T)
                /\ dataset' = DatasetAfterForget(r)
                /\ Persist(r, run[r])
                /\ crossed' = IF run[r].ask.memory_only
                              THEN crossed \cup {s \in T : ~source[s].doc} ELSE crossed
    /\ UNCHANGED <<stores, process, lost, faults>>

-----------------------------------------------------------------------------
(* DATASET_DELETE *)

BeginDelete(r) ==
    /\ Runs_(r, "begin")
    /\ IF dataset = "deleted" THEN FailPermanently(r) /\ UNCHANGED dataset
       ELSE /\ dataset' = "deleting"
            /\ run' = [q \in Runs |->
                  IF q = r THEN Advanced(run[r])
                  ELSE IF run[q].status \in Waiting /\ ~IsDelete(q) /\ Kind(q) # "everything"
                       THEN [run[q] EXCEPT !.status = "failed"] ELSE run[q]]
    /\ UNCHANGED <<source, stores, process, histories>>

\* A source that has been cognified is in the graph.
Projected == \E s \in Known : source[s].status = "active"
Deactivate(r) ==
    /\ Runs_(r, "deactivate")
    /\ IF dataset # "deleting" THEN FailPermanently(r) /\ UNCHANGED source
       ELSE /\ source' = Mark(Undeleted, r)
            /\ Persist(r, [run[r] EXCEPT !.rows = IF Projected THEN "pending" ELSE "none"])
    /\ UNCHANGED <<dataset, stores, process, histories>>

\* converge_projection: the step drains the outbox and then looks at the rows
\* this run has emitted, and at no others.  With none it has nothing to wait
\* for; a row at its attempt ceiling ends the run.
ConvergeProjection(r) ==
    /\ Runs_(r, "converge")
    /\ IF run[r].rows = "dead" THEN FailPermanently(r)
       ELSE Persist(r, [run[r] EXCEPT !.rows = "none"])
    /\ UNCHANGED <<dataset, source, stores, process, histories>>
RowsDie(r) ==
    /\ Fault("dead") /\ Runs_(r, "converge") /\ run[r].rows = "pending"
    /\ run' = [run EXCEPT ![r].rows = "dead"]
    /\ UNCHANGED <<dataset, source, stores, process, lost, crossed>>

Tombstone(r) ==
    /\ Runs_(r, "tombstone")
    /\ IF ResultsMissing(r, Deleting) THEN FailPermanently(r) /\ UNCHANGED <<dataset, source>>
       ELSE /\ source' = Finalized(r, Deleting)
            /\ dataset' = IF dataset = "deleting" THEN "deleted" ELSE dataset
            /\ Persist(r, run[r])
    /\ UNCHANGED <<stores, process, histories>>

-----------------------------------------------------------------------------
(* The process *)

\* What was executed and not persisted is forgotten with the process.
Forgotten(row) ==
    IF row.status # "running" THEN row
    ELSE [row EXCEPT !.pc = "ready", !.uri = IF Plan(row.ask.kind)[row.step] = "store"
                                             THEN "none" ELSE @,
                     !.results = IF Plan(row.ask.kind)[row.step] = "delete"
                                 THEN [s \in Sources |-> "none"] ELSE @]

Crash ==
    /\ phase # "down" /\ Fault("crash")
    /\ phase' = "down" /\ owned' = {} /\ pass' = NoPass
    /\ run' = [r \in Runs |-> Forgotten(run[r])]
    /\ UNCHANGED <<backend, dataset, source, stores, lost, crossed, stranded>>

\* A step fails and is tried again later, or the run ends: its attempts are
\* used up, or it is cancelled between two steps.
RunFails(r) ==
    /\ phase # "down" /\ run[r].status = "running" /\ Fault("fail")
    /\ \E status \in {"backoff", "failed"} :
          run' = [run EXCEPT ![r] = [Forgotten(run[r]) EXCEPT !.status = status]]
    /\ UNCHANGED <<dataset, source, stores, process, lost, crossed>>

\* A put that S3 answers with an error may have landed all the same.
PutUnconfirmed(r) ==
    /\ Fault("s3") /\ Runs_(r, "store") /\ backend = "s3"
    /\ ~run[r].dedup /\ ~HasObject(run[r].src) /\ Bytes(r)
    /\ s3' \in {s3, s3 \cup {run[r].src}}
    /\ run' = [run EXCEPT ![r] = [Forgotten(run[r]) EXCEPT !.status = "backoff"]]
    /\ UNCHANGED <<dataset, source, local, ingress, process, lost, crossed>>

\* What a Remember has put into S3 alone and whose location is not committed.
Uncommitted(r) == Kind(r) = "remember" /\ Nonterminal(r) /\ Step(r) = "store" /\ ~run[r].dedup
OnlyInS3 ==
    {run[r].src : r \in {q \in Created : Uncommitted(q) /\ q \notin ingress}} \cap (s3 \ local)

\* A new process, perhaps with another backend: recovery gives what was
\* running back to the queue, with a backoff.  On S3 it converges first; on
\* the file system what is in S3 stays there.
Boot(b) ==
    /\ phase = "down"
    /\ b = backend \/ "switch" \in Faults
    /\ stranded' = IF backend = "s3" /\ b = "file" THEN stranded \cup OnlyInS3 ELSE stranded
    /\ backend' = b
    /\ phase' = IF b = "s3" THEN "converging" ELSE "operational"
    /\ run' = [r \in Runs |->
          IF run[r].status = "running" THEN [run[r] EXCEPT !.status = "backoff"] ELSE run[r]]
    /\ UNCHANGED <<dataset, source, stores, owned, pass, histories>>

\* The environment: an object disappears.
LoseObject(s) ==
    /\ Fault("lost") /\ s \in local
    /\ local' = local \ {s} /\ lost' = lost \cup {s}
    /\ UNCHANGED <<dataset, source, s3, ingress, run, process, crossed>>

-----------------------------------------------------------------------------
(* Storage convergence *)

Converging(at) == phase = "converging" /\ pass.at = at
others == <<backend, dataset, ingress, run, lost, crossed, stranded>>

\* converge() reads every source once, then takes them one at a time.  failed:
\* integrity failures of the data; again: of S3, or a lineage still to finish.
StartPass ==
    /\ Converging("idle")
    /\ pass' = [NoPass EXCEPT !.at = "scan", !.todo = Known, !.snap = source]
    /\ UNCHANGED <<phase, source, local, s3, owned, faults, others>>

Snap(s) == pass.snap[s]
DoneWith(s) == [pass EXCEPT !.at = "scan", !.todo = @ \ {s}, !.cur = None]

\* find_compatible_destructive_lineage, read now
Lineages_Unfinished(s) ==
    {r \in Created : Mutated(r) /\ Nonterminal(r)}
Lineages(s) ==
    {r \in Created : /\ Mutated(r) /\ ~run[r].conflict
                     /\ Kind(r) = "forget_source" => run[r].ask.target = s}
LineageOf(s) == CHOOSE r \in Lineages(s) : \A q \in Lineages(s) : q <= r

\* _process_source, for what needs no S3: deleted sources, those Remember has
\* not stored yet, and the DELETING ones with their cases B and D.
Judge(s) ==
    /\ Converging("scan") /\ s \in pass.todo
    /\ \/ /\ \/ Snap(s).status = "deleted" \/ Snap(s).uri = "none"
             \/ Snap(s).status = "deleting" /\ (Snap(s).uri = "s3" \/ s \in local)
          /\ pass' = DoneWith(s)
       \/ /\ Snap(s).status = "deleting" /\ Snap(s).uri = "file" /\ s \notin local
          /\ pass' = IF Lineages(s) = {} THEN [DoneWith(s) EXCEPT !.failed = @ \cup {s}]
                     ELSE [DoneWith(s) EXCEPT
                              !.lineage = @ \cup {LineageOf(s)},
                              !.again = @ \/ Nonterminal(LineageOf(s))]
    /\ UNCHANGED <<phase, source, local, s3, owned, faults, others>>

LiveSnap(s) == pass.snap[s].status \in {"pending", "active"}

\* _migrate_case_a up to the verified copy
Migrate_Moves(s) ==
    /\ Converging("scan") /\ s \in pass.todo /\ LiveSnap(s) /\ Snap(s).uri = "file"
    /\ s \in local
    /\ s3' = s3 \cup {s} /\ local' = local \ {s}
    /\ pass' = [pass EXCEPT !.at = "copied", !.cur = s]
    /\ UNCHANGED <<phase, source, owned, faults, others>>
Migrate(s) ==
    /\ Converging("scan") /\ s \in pass.todo /\ LiveSnap(s) /\ Snap(s).uri = "file"
    /\ IF s \notin local
       THEN pass' = [DoneWith(s) EXCEPT !.failed = @ \cup {s}] /\ UNCHANGED s3
       ELSE s3' = s3 \cup {s} /\ pass' = [pass EXCEPT !.at = "copied", !.cur = s]
    /\ UNCHANGED <<phase, source, local, owned, faults, others>>

\* S3 is unavailable, or the copy cannot be verified.
MigrateFails(s) ==
    /\ Fault("s3")
    /\ Converging("scan") /\ s \in pass.todo /\ LiveSnap(s) /\ Snap(s).uri = "file"
    /\ s \in local
    /\ s3' \in {s3, s3 \cup {s}}
    /\ pass' = [DoneWith(s) EXCEPT !.again = TRUE]
    /\ UNCHANGED <<phase, source, local, owned, others>>

\* _cas_repoint, under the row lock, against the row as it is now
Repoint ==
    /\ Converging("copied")
    /\ LET s == pass.cur
           row == source[s]
       IN  \/ /\ row.uri = "s3"
              /\ pass' = [pass EXCEPT !.at = "moved"] /\ UNCHANGED source
           \/ /\ row.uri # "s3" /\ row.status # Snap(s).status
              /\ pass' = IF row.status = "deleting"
                         THEN [DoneWith(s) EXCEPT !.failed = @ \cup {s}, !.d43 = @ \cup {s}]
                         ELSE DoneWith(s)
              /\ UNCHANGED source
           \/ /\ row.uri # "s3" /\ row.status = Snap(s).status /\ row.uri # Snap(s).uri
              /\ pass' = [DoneWith(s) EXCEPT !.failed = @ \cup {s}] /\ UNCHANGED source
           \/ /\ row.uri # "s3" /\ row.status = Snap(s).status /\ row.uri = Snap(s).uri
              /\ source' = [source EXCEPT ![s].uri = "s3"]
              /\ pass' = [pass EXCEPT !.at = "moved"]
    /\ UNCHANGED <<phase, local, s3, owned, faults, others>>

\* _cleanup_post_repoint_duplicate: after a repoint, and of every live source
\* that was in S3 already.  The local copy goes only when S3 is confirmed.
InCleanUp(s) ==
    \/ Converging("moved") /\ s = pass.cur
    \/ Converging("scan") /\ s \in pass.todo /\ LiveSnap(s) /\ Snap(s).uri = "s3"
CleanUp(s) ==
    /\ InCleanUp(s)
    /\ local' = IF s \in s3 THEN local \ {s} ELSE local
    /\ pass' = DoneWith(s)
    /\ UNCHANGED <<phase, source, s3, owned, faults, others>>

\* Deferred: S3 could not be asked, or the unlink failed.  Not a failure.
CleanUpDeferred(s) ==
    /\ Fault("s3") /\ InCleanUp(s) /\ s \in local
    /\ pass' = DoneWith(s)
    /\ UNCHANGED <<phase, source, local, s3, owned, others>>

\* _run_convergence_to_fixed_point, after one converge()
EndPass_Unlisted ==
    /\ Converging("scan") /\ pass.todo = {}
    /\ owned' = {}
    /\ phase' = IF pass.failed = {} /\ ~pass.again THEN "operational" ELSE phase
    /\ pass' = NoPass
    /\ UNCHANGED <<source, local, s3, faults, others>>
EndPass ==
    /\ Converging("scan") /\ pass.todo = {}
    /\ owned' = pass.lineage
    /\ phase' = IF pass.failed = {} /\ ~pass.again THEN "operational" ELSE phase
    /\ pass' = NoPass
    /\ UNCHANGED <<source, local, s3, faults, others>>

-----------------------------------------------------------------------------

Remember(r) ==
    \/ FetchUrl(r) \/ IngestFails(r) \/ Ingest(r) \/ StoreObject(r) \/ DropIngress(r)
    \/ FinalizeStorage(r) \/ Cognify(r)
Forget(r) ==
    \/ MutateSource(r) \/ MutateDataset(r) \/ StorageDeleted(r) \/ FinalizeTarget(r)
    \/ \E s \in Sources : DeleteObject(r, s)
DatasetDelete(r) ==
    BeginDelete(r) \/ Deactivate(r) \/ ConvergeProjection(r) \/ Tombstone(r)
Execute(r) == BackoffElapses(r) \/ Claim(r) \/ Remember(r) \/ Forget(r) \/ DatasetDelete(r)

Converge ==
    \/ StartPass \/ Repoint \/ EndPass
    \/ \E s \in Sources : Judge(s) \/ Migrate(s) \/ CleanUp(s)

Environment ==
    \/ Crash
    \/ \E r \in Runs : RunFails(r) \/ PutUnconfirmed(r) \/ RowsDie(r)
    \/ \E s \in Sources : LoseObject(s) \/ MigrateFails(s) \/ CleanUpDeferred(s)
    \/ \E r \in Runs, s \in Sources : DeleteUnresolved(r, s)

Next ==
    \/ \E a \in Asks : Submit(a)
    \/ \E r \in Runs : Retry(r) \/ Execute(r)
    \/ \E b \in {"file", "s3"} : Boot(b)
    \/ Converge
    \/ Environment

\* The worker and the bootstrap task keep going, and someone restarts what died.
Fairness ==
    /\ WF_vars(\E r \in Runs : Execute(r))
    /\ WF_vars(Converge)
    /\ WF_vars(\E b \in {"file", "s3"} : Boot(b))

Spec == Init /\ [][Next]_vars /\ Fairness
-----------------------------------------------------------------------------
(* Properties *)

\* A source in use has its original: neither an interrupted deletion, nor the
\* move to S3, nor a clean-up of duplicates leaves a location with nothing
\* behind it.  Apart from objects somebody else destroyed, the exception is
\* `crossed`, the sources two runs overtaking each other have left in between:
\* a memory-only forget of the dataset takes over what a full forget of one
\* source has deleted the bytes of (forget.py:334); a Remember that waited for
\* a retry stores its source after a forget has begun (remember.py:689); or a
\* full forget deletes the bytes of what a waiting memory-only forget has
\* marked, because the intent a run resumes is that of the forget created last,
\* one that has not run yet included (forget.py:239, pipeline_runs.py:399).
LiveSourcesReadable ==
    \A s \in Known : Live(s) /\ source[s].uri # "none"
                      => Readable(s) \/ s \in lost \cup crossed

\* Until the location of what a Remember stored is committed, the run finds the
\* bytes again, in ingress, in the store or, on S3, in the copy on the file
\* system, through crashes, retries and the switch to S3.  The switch back is
\* where it may not: once the object is in S3 and the ingress has been dropped
\* (remember.py:614), a process that comes up on the file system looks there
\* alone and gives up (remember.py:624).  Even then the bytes are in S3.
AcceptedBytesKept ==
    \A r \in Created :
        Kind(r) = "remember" /\ Nonterminal(r) =>
            CASE Step(r) = "ingest" -> r \in ingress \/ run[r].ask.url
              [] Step(r) = "store" ->
                    run[r].dedup \/ run[r].src \in Objects(backend) \cup lost \/ Bytes(r)
                    \/ run[r].src \in stranded \cap s3
              [] OTHER -> run[r].dedup \/ ~Live(run[r].src)
                          \/ Readable(run[r].src) \/ run[r].src \in lost \cup crossed

\* Start-up reports an integrity failure, and so never becomes operational,
\* only for an object that was destroyed by others (or crossed, above): what
\* its own crashes leave behind is told apart, and no deletion starts under
\* the migration of a live source (ADR-0011 D43).
OnlyRealLossIsReported == pass.failed \subseteq lost \cup crossed /\ pass.d43 = {}

\* A delete that failed before it began is retried.  The barrier that keeps a
\* second delete out does not hold a retry back (run_control.py:184), so that
\* the two may be under way side by side.
RetriedAnew ==
    \E r \in Created : IsDelete(r) /\ run[r].of # None /\ run[run[r].of].step = 1

\* A source becomes DELETED without a location only when the object at the
\* location it had is gone (ADR-0011 D39), unless a Remember crossed it.  And
\* a dataset becomes DELETED only when its nodes have left the graph, unless
\* an earlier delete failed and left rows that its retry does not look at
\* (dataset_delete.py:290), or two deletes run beside each other: the second
\* has nothing of its own to wait for, and ends before the rows of the first.
DeletionIsComplete ==
    [][/\ \A s \in Sources :
             /\ source[s].status # "deleted" /\ source'[s].status = "deleted"
             /\ source[s].uri # "none" /\ source'[s].uri = "none"
             => s \notin Objects(source[s].uri) \/ s \in crossed
       /\ dataset # "deleted" /\ dataset' = "deleted" /\ ~RetriedAnew
             => \A r \in Created : run[r].rows = "none" \/ run[r].status = "failed"]_vars

\* Once begin_delete has committed, no forget makes the dataset active again.
AdministrativeDeleteIsFinal ==
    [][DeleteOwnsDataset /\ dataset # "active" => dataset' # "active"]_vars

\* Start-up ends: the deletions it waits for are allowed to finish.  Under
\* RECOVERY_ONLY the scan offers the oldest run of the dataset and no other
\* (pipeline_queue_claimer.py:135), so one that waits before them stops it.
Unobstructed ==
    \A r \in owned, q \in Created : q < r => run[q].status \notin Waiting
ConvergenceEnds ==
    [](lost = {} /\ crossed = {} /\ Unobstructed)
        => (phase = "converging" ~> phase \in {"operational", "down"})

\* remember.py:565: "Reused source keeps its own already-finalized storage --
\* nothing to write, nothing to persist."
ReusedSourcesAreStored ==
    \A r \in Created :
        run[r].dedup /\ run[r].status = "succeeded" => source[run[r].src].uri # "none"
=============================================================================
