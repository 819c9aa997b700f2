---------------------------- MODULE GraphOutbox -----------------------------
(***************************************************************************)
(* The projection of the authoritative graph onto Neo4j.  Pipelines commit *)
(* rows of graph_outbox together with the change they describe; the        *)
(* autonomous consumer of each process and the explicit drains of pipeline *)
(* steps claim them, apply them to Neo4j outside any transaction, and      *)
(* finalize them under the lease they claimed.                             *)
(*                                                                         *)
(* A row's number is its id.  A projected element remembers the id of the  *)
(* row whose payload it carries, 0 when it is not projected.               *)
(***************************************************************************)
EXTENDS Naturals, FiniteSets

CONSTANTS
    Elements,      \* identities of projected nodes and relationships
    Kind,          \* [Elements -> aggregate type]
    Endpoints,     \* [Elements -> the nodes a relationship joins, {} for a node]
    DatasetOf,     \* [Elements -> dataset]
    NumRows,       \* rows the pipelines commit
    Command,       \* [1..NumRows -> [op, target]], in commit order
    Commits,       \* ids of the last row of each transaction
    Consumers,     \* the autonomous consumers, one per process
    Drains,        \* the engine tasks that may drain
    ProcessOf,     \* [Consumers \cup Drains -> process]
    MaxAttempts,   \* max_attempts of the processor
    Faults,        \* which of "outage", "stall", "disconnect" and "crash" happen
    MaxFaults      \* bound: how many of them

Rows == 1..NumRows
Actors == Consumers \cup Drains
Processes == {ProcessOf[p] : p \in Actors}
Kinds == {"entity", "chunk", "entity_mention", "relation", "chunk_next"}
Target(i) == Command[i].target
Upsert(i) == Command[i].op = "upsert"
Dataset(i) == DatasetOf[Target(i)]

ASSUME SizesAssumption == NumRows \in Nat \ {0} /\ MaxAttempts \in Nat \ {0}
ASSUME CommandAssumption ==
    /\ Command \in [Rows -> [op : {"upsert", "delete"}, target : Elements]]
    /\ Commits \subseteq Rows /\ NumRows \in Commits
ASSUME ElementAssumption ==
    /\ Kind \in [Elements -> Kinds]
    /\ Endpoints \in [Elements -> SUBSET Elements]
    /\ \A e \in Elements : \A n \in Endpoints[e] : Endpoints[n] = {}
ASSUME ActorAssumption == Consumers \cap Drains = {} /\ 0 \notin Consumers \cup Drains

VARIABLES
    outbox,  \* the graph_outbox table
    actor,   \* what each consumer and each drain is doing
    graph,   \* the projection: element -> row id, or 0
    applied, \* rows whose command has taken effect at least once (history)
    faults

vars == <<outbox, actor, graph, applied, faults>>

Statuses == {"absent", "pending", "processing", "done", "failed"}
Phases == {"idle", "scanned", "observing", "applying", "applied", "erred", "dead"}
Row == [status : Statuses, attempt : Nat, worker : Actors \cup {0}, expired : BOOLEAN]
Actor == [pc : Phases, row : Rows \cup {0}, attempt : Nat,
          batch : SUBSET Rows, due : SUBSET Rows]
Idle == [pc |-> "idle", row |-> 0, attempt |-> 0, batch |-> {}, due |-> {}]

TypeOK ==
    /\ outbox \in [Rows -> Row]
    /\ actor \in [Actors -> Actor]
    /\ graph \in [Elements -> Rows \cup {0}]
    /\ applied \subseteq Rows
    /\ \A p \in Actors : actor[p].pc \notin {"idle", "dead"} => actor[p].row # 0
    /\ \A i \in Rows : outbox[i].status \in {"processing", "done", "failed"} =>
          outbox[i].worker # 0 /\ outbox[i].attempt > 0
    /\ \A p \in Actors : actor[p].pc \in {"applying", "applied", "erred"} =>
          actor[p].attempt \in 1..outbox[actor[p].row].attempt

Init ==
    /\ outbox = [i \in Rows |-> [status |-> "absent", attempt |-> 0, worker |-> 0,
                                 expired |-> FALSE]]
    /\ actor = [p \in Actors |-> Idle]
    /\ graph = [e \in Elements |-> 0]
    /\ applied = {}
    /\ faults = 0

Fault(f) == f \in Faults /\ faults < MaxFaults /\ faults' = faults + 1

-----------------------------------------------------------------------------
(* What the queries of the repository select *)

HasAttempts(i) == outbox[i].attempt < MaxAttempts
Settled(i) == \/ outbox[i].status = "done"
              \/ outbox[i].status = "failed" /\ ~HasAttempts(i)
Outstanding(i) == outbox[i].status # "absent" /\ ~Settled(i)

\* _is_claim_eligible and its SQL twin.
Eligible_FailedAlways(i) ==
    \/ outbox[i].status \in {"pending", "failed"}
    \/ outbox[i].status = "processing" /\ outbox[i].expired
Eligible(i) ==
    \/ outbox[i].status = "pending"
    \/ outbox[i].status = "processing" /\ outbox[i].expired
    \/ outbox[i].status = "failed" /\ HasAttempts(i)

\* The cross-row fence: a delete waits for every outstanding upsert of its
\* dataset.
Fenced_PendingOnly(i) ==
    /\ ~Upsert(i)
    /\ \E j \in Rows : Upsert(j) /\ Dataset(j) = Dataset(i) /\ outbox[j].status = "pending"
Fenced_DeadToo(i) ==
    /\ ~Upsert(i)
    /\ \E j \in Rows : Upsert(j) /\ Dataset(j) = Dataset(i)
                      /\ outbox[j].status \notin {"absent", "done"}
Fenced(i) ==
    /\ ~Upsert(i)
    /\ \E j \in Rows : Upsert(j) /\ Dataset(j) = Dataset(i) /\ Outstanding(j)

Claimable(i) == Eligible(i) /\ ~Fenced(i)

\* list_processable_ids_for_dataset: upserts before deletes, nodes before what
\* joins them among upserts and after it among deletes.
Rank == [entity |-> 0, chunk |-> 1, entity_mention |-> 2, relation |-> 3, chunk_next |-> 4]
DrainKey(i) == IF Upsert(i) THEN Rank[Kind[Target(i)]] ELSE 9 - Rank[Kind[Target(i)]]
DrainsBefore(i, j) ==
    \/ DrainKey(i) < DrainKey(j)
    \/ DrainKey(i) = DrainKey(j) /\ i < j
Snapshot_Claimable(ds) == {i \in Rows : Dataset(i) = ds /\ Eligible(i)}
Snapshot(ds) == {i \in Rows : Dataset(i) = ds /\ Outstanding(i)}

-----------------------------------------------------------------------------
(* Producers: one transaction of a pipeline step *)

Emit ==
    \E last \in Commits :
        LET new == {i \in Rows : i <= last /\ outbox[i].status = "absent"}
        IN  /\ new # {}
            /\ \A k \in Commits : k < last => outbox[k].status # "absent"
            /\ outbox' = [i \in Rows |-> IF i \in new
                                         THEN [outbox[i] EXCEPT !.status = "pending"]
                                         ELSE outbox[i]]
            /\ UNCHANGED <<actor, graph, applied, faults>>

-----------------------------------------------------------------------------
(* Claiming *)

\* list_claimable_ids with limit 1.
Scan(c) ==
    /\ actor[c].pc = "idle"
    /\ \E i \in Rows :
          /\ Claimable(i)
          /\ \A j \in Rows : Claimable(j) => i <= j
          /\ actor' = [actor EXCEPT ![c].pc = "scanned", ![c].row = i]
    /\ UNCHANGED <<outbox, graph, applied, faults>>

\* The rest of the batch after the row the drain is at; it returns when there
\* is none.
Rest(d) == {j \in actor[d].batch : DrainsBefore(actor[d].row, j)}
Least(S) == CHOOSE i \in S : \A j \in S \ {i} : DrainsBefore(i, j)
Advanced(d) ==
    IF Rest(d) = {} THEN Idle
    ELSE [actor[d] EXCEPT !.pc = "observing", !.row = Least(Rest(d)), !.attempt = 0]

\* process_dataset: the snapshot of one dataset.  due is history: the rows of
\* the dataset that are committed and not settled.
StartDrain(d, ds) ==
    /\ actor[d].pc = "idle"
    /\ Snapshot(ds) # {}
    /\ actor' = [actor EXCEPT ![d] = [pc |-> "observing", row |-> Least(Snapshot(ds)),
                                      attempt |-> 0, batch |-> Snapshot(ds),
                                      due |-> {i \in Rows : Dataset(i) = ds /\ Outstanding(i)}]]
    /\ UNCHANGED <<outbox, graph, applied, faults>>

\* The lease a claim commits.
Lease(i, p) == [status |-> "processing", worker |-> p,
                attempt |-> outbox[i].attempt + 1, expired |-> FALSE]

\* claim_one: the row is locked, its eligibility and the fence are evaluated
\* again, and the lease is committed before Neo4j is called.
Claim(p) ==
    LET i == actor[p].row
    IN  /\ actor[p].pc \in {"scanned", "observing"}
        /\ Claimable(i)
        /\ outbox' = [outbox EXCEPT ![i] = Lease(i, p)]
        /\ actor' = [actor EXCEPT ![p].pc = "applying", ![p].attempt = Lease(i, p).attempt]
        /\ UNCHANGED <<graph, applied, faults>>

\* Another claimer was faster: the consumer's burst ends.
ClaimMissed(c) ==
    /\ actor[c].pc = "scanned"
    /\ ~Claimable(actor[c].row)
    /\ actor' = [actor EXCEPT ![c] = Idle]
    /\ UNCHANGED <<outbox, graph, applied, faults>>

\* _read_terminal_or_wait: done goes on, dead raises
\* GraphOutboxAttemptsExhaustedError, and anything else is read again.
Observe(d) ==
    /\ actor[d].pc = "observing"
    /\ Settled(actor[d].row)
    /\ actor' = [actor EXCEPT ![d] = IF outbox[actor[d].row].status = "done"
                                     THEN Advanced(d) ELSE Idle]
    /\ UNCHANGED <<outbox, graph, applied, faults>>

-----------------------------------------------------------------------------
(* Neo4j *)

EndpointMissing(i) ==
    Upsert(i) /\ \E n \in Endpoints[Target(i)] : graph[n] = 0

\* MERGE and SET; or DELETE, which for a node is DETACH DELETE.
Projected(i) ==
    [e \in Elements |->
        IF Upsert(i) THEN (IF e = Target(i) THEN i ELSE graph[e])
        ELSE IF e = Target(i) \/ Target(i) \in Endpoints[e] THEN 0 ELSE graph[e]]

\* The command takes effect at some moment of the call.
Write(p) ==
    LET i == actor[p].row
    IN  /\ actor[p].pc = "applying"
        /\ ~EndpointMissing(i)
        /\ graph' = Projected(i)
        /\ applied' = applied \cup {i}
        /\ \/ actor' = [actor EXCEPT ![p].pc = "applied"] /\ UNCHANGED faults
           \/ actor' = [actor EXCEPT ![p].pc = "erred"] /\ Fault("outage")
        /\ UNCHANGED outbox

\* ProjectionEndpointMissingError, or a call that failed without effect.
WriteFails(p) ==
    /\ actor[p].pc = "applying"
    /\ \/ EndpointMissing(actor[p].row) /\ UNCHANGED faults
       \/ Fault("outage")
    /\ actor' = [actor EXCEPT ![p].pc = "erred"]
    /\ UNCHANGED <<outbox, graph, applied>>

-----------------------------------------------------------------------------
(* Finalization under the lease *)

OwnsRow(p) ==
    LET row == outbox[actor[p].row]
    IN  row.status = "processing" /\ row.worker = p /\ row.attempt = actor[p].attempt

FinalStatus(p) == IF actor[p].pc = "applied" THEN "done" ELSE "failed"

\* mark_done_if_owned and mark_failed_if_owned.  A success counts for a drain
\* even when its lease was superseded; a failure is raised to the caller and
\* ends the burst or the drain.
Finalize(p) ==
    /\ actor[p].pc \in {"applied", "erred"}
    /\ outbox' = IF OwnsRow(p) THEN [outbox EXCEPT ![actor[p].row].status = FinalStatus(p)]
                 ELSE outbox
    /\ actor' = [actor EXCEPT ![p] = IF p \in Drains /\ actor[p].pc = "applied"
                                     THEN Advanced(p) ELSE Idle]
    /\ UNCHANGED <<graph, applied, faults>>

-----------------------------------------------------------------------------
(* Time and faults *)

Holder(i) == {p \in Actors : actor[p].pc \in {"applying", "applied", "erred"}
                             /\ actor[p].row = i /\ actor[p].attempt = outbox[i].attempt}

\* stale_after_seconds pass.  Nothing renews a lease, so a call that hangs
\* loses it as a dead process does.
LeaseExpires(i) ==
    /\ outbox[i].status = "processing" /\ ~outbox[i].expired
    /\ \/ Holder(i) = {} /\ UNCHANGED faults
       \/ Holder(i) # {} /\ Fault("stall")
    /\ outbox' = [outbox EXCEPT ![i].expired = TRUE]
    /\ UNCHANGED <<actor, graph, applied>>

\* The transaction that finalizes fails: the exception ends the burst or the
\* drain and the row stays PROCESSING.
FinalizeFails(p) ==
    /\ actor[p].pc \in {"applied", "erred"} /\ Fault("disconnect")
    /\ actor' = [actor EXCEPT ![p] = Idle]
    /\ UNCHANGED <<outbox, graph, applied>>

\* A process is killed, or shut down past its grace period: its consumer and
\* its drains stop where they are.
Crash(b) ==
    /\ Fault("crash")
    /\ \E p \in Actors : ProcessOf[p] = b /\ actor[p].pc # "dead"
    /\ \E p \in Consumers : ProcessOf[p] # b /\ actor[p].pc # "dead"
    /\ actor' = [p \in Actors |-> IF ProcessOf[p] = b THEN [Idle EXCEPT !.pc = "dead"]
                                  ELSE actor[p]]
    /\ UNCHANGED <<outbox, graph, applied>>

Work(p) == Claim(p) \/ Write(p) \/ WriteFails(p) \/ Finalize(p)

Next ==
    \/ Emit
    \/ \E c \in Consumers : Scan(c) \/ ClaimMissed(c)
    \/ \E d \in Drains : Observe(d) \/ \E i \in Rows : StartDrain(d, Dataset(i))
    \/ \E p \in Actors : Work(p)
    \/ \E p \in Actors : FinalizeFails(p)
    \/ \E i \in Rows : LeaseExpires(i)
    \/ \E b \in Processes : Crash(b)

Spec == Init /\ [][Next]_vars

-----------------------------------------------------------------------------
(* Safety *)

\* A row is recorded done only when its command has reached Neo4j, whoever
\* applied it and however often its lease changed hands.
AppliedBeforeDone == \A i \in Rows : outbox[i].status = "done" => i \in applied

\* A row that is done, or failed with no attempt left, never changes: no
\* superseded holder coming back late may reopen or overwrite it.
SettledRowsStay == [][\A i \in Rows : Settled(i) => UNCHANGED outbox[i]]_vars

\* A delete reaches Neo4j only after every upsert of its dataset committed
\* before it is settled, although the fence is read when it is claimed and
\* the call comes later.
DeletesComeLast ==
    [][\A p \in Actors : actor[p].pc = "applying" /\ applied' # applied =>
          \A i \in applied' \ applied : ~Upsert(i) =>
              \A j \in 1..(i - 1) : Upsert(j) /\ Dataset(j) = Dataset(i) => Settled(j)]_vars

\* Once a delete of an element is done the element comes back only by an upsert
\* committed after that delete, as a merge commits for the mentions of a forgotten
\* chunk (improve.py:470), or by the late write of a holder that has lost its
\* lease: nobody who owns a row undoes a later delete.
OnlyZombiesResurrect ==
    [][\A e \in Elements, k \in Rows :
          /\ graph[e] = 0 /\ graph'[e] # 0
          /\ Target(k) = e /\ ~Upsert(k) /\ outbox[k].status = "done"
          => \E p \in Actors : /\ actor[p].pc = "applying" /\ actor'[p].pc # "applying"
                               /\ Target(actor[p].row) = e
                               /\ k < actor[p].row \/ ~OwnsRow(p)]_vars

\* When a drain returns, every row of its dataset that was outstanding when it
\* began has been applied, also the rows other claimers held at that moment.
DrainsConverge ==
    [][\A d \in Drains :
          /\ actor'[d].pc = "idle"
          /\ \/ actor[d].pc = "applied" /\ Finalize(d)
             \/ actor[d].pc = "observing" /\ outbox[actor[d].row].status = "done"
          => actor[d].due \subseteq applied]_vars

-----------------------------------------------------------------------------
(* Liveness *)

\* The loops of a live process and the passage of time.  Claiming a row may be
\* disabled by another claimer again and again.
Fairness ==
    /\ \A c \in Consumers : WF_vars(Scan(c)) /\ WF_vars(ClaimMissed(c)) /\ WF_vars(Work(c))
    /\ \A d \in Drains : WF_vars(Observe(d)) /\ WF_vars(Work(d))
    /\ \A i \in Rows : WF_vars(LeaseExpires(i))

FairSpec == Spec /\ Fairness

\* Every committed row settles, also when processes die holding it, and a drain
\* ends: it never waits for ever for a lease, for the fence or for itself.
BacklogSettles ==
    /\ \A i \in Rows : Outstanding(i) ~> Settled(i)
    /\ \A d \in Drains : actor[d].pc = "observing" ~> actor[d].pc \in {"idle", "dead"}
=============================================================================
