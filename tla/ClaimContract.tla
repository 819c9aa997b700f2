---------------------------- MODULE ClaimContract ----------------------------
(***************************************************************************)
(* What the queue of pipeline runs promises: claiming a run is one atomic  *)
(* step that happens only while nothing else occupies what the run needs.  *)
(* The other actions are the transactions of submission, cancellation,     *)
(* execution and recovery, as far as the queue sees them.  QueueClaim      *)
(* implements this contract with row locks and advisory locks.             *)
(***************************************************************************)
EXTENDS Integers, FiniteSets

CONSTANTS
    Runs,         \* slots of the queue: a finished run's slot may be used again
    DatasetOf,    \* [Runs -> dataset], Global for a run with dataset_id NULL
    Global,
    Destructive,  \* the runs of type forget and dataset_delete
    MaxAttempts,
    Backlog,      \* runs already queued when the first process boots
    InitialOrder, \* [Runs -> Int], their places in (created_at, id) order
    MaxInserting  \* bound: inserting transactions under way at once

ASSUME RunsAssumption == IsFiniteSet(Runs)
ASSUME OrderAssumption ==
    InitialOrder \in [Runs -> Int] /\ \A r \in Runs : InitialOrder[r] <= Cardinality(Runs)
ASSUME BacklogAssumption == Backlog \subseteq Runs

VARIABLES
    row,     \* pipeline_runs: status, whether next_attempt_at has passed, attempt
    order,   \* places of the rows in (created_at, id) order
    mutated  \* destructive runs whose authoritative mutation step succeeded

table == <<row, order, mutated>>

\* inserting: the run's transaction has begun and its row is not visible.
Row == [status : {"inserting", "queued", "running", "cancelling", "finished"},
        due : BOOLEAN, attempt : Nat]
\* Of a finished run nothing matters any more but that it has finished.
Finished == [status |-> "finished", due |-> TRUE, attempt |-> 0]

Occupied(r) == row[r].status \in {"running", "cancelling"}
Eligible(r) == row[r].status = "queued" /\ row[r].due
Precedes(r, s) == order[r] < order[s]

\* s occupies what r needs, or r what s needs.
SameScope(r, s) ==
    \/ DatasetOf[r] = DatasetOf[s]
    \/ DatasetOf[r] = Global
    \/ DatasetOf[s] = Global
ScopeFree(r) == \A s \in Runs \ {r} : SameScope(r, s) => ~Occupied(s)

-----------------------------------------------------------------------------

TableInit ==
    /\ row = [r \in Runs |-> IF r \in Backlog THEN [Finished EXCEPT !.status = "queued"]
                                              ELSE Finished]
    /\ order = InitialOrder
    /\ mutated = {}

\* created_at is the now() of the transaction that inserts the row
\* (server_default): it is the youngest from the moment the transaction begins.
Begins(r) ==
    /\ row[r].status = "finished"
    /\ Cardinality({s \in Runs : row[s].status = "inserting"}) < MaxInserting
    /\ row' = [row EXCEPT ![r] = [Finished EXCEPT !.status = "inserting"]]
    /\ order' = [s \in Runs |-> IF s = r THEN Cardinality(Runs)
                                ELSE IF Precedes(r, s) THEN order[s] - 1 ELSE order[s]]
    /\ mutated' = mutated \ {r}

\* It becomes visible when the transaction commits, which may be long after
\* younger runs have done so; or it never does.
Submit(r) ==
    /\ row[r].status = "inserting"
    /\ row' = [row EXCEPT ![r] = [Finished EXCEPT !.status = "queued"]]
    /\ UNCHANGED <<order, mutated>>
Closes(r) ==
    /\ row' = [row EXCEPT ![r] = Finished]
    /\ UNCHANGED <<order, mutated>>
RollsBack(r) == row[r].status = "inserting" /\ Closes(r)

\* transition_run(RUNNING)
TakeRun(r) ==
    /\ row' = [row EXCEPT ![r] = [status |-> "running", due |-> TRUE,
                                  attempt |-> row[r].attempt + 1]]
    /\ UNCHANGED <<order, mutated>>

Claim(r) == Eligible(r) /\ ScopeFree(r) /\ TakeRun(r)

Moves(r, status, due) ==
    /\ row' = [row EXCEPT ![r] = [status |-> status, due |-> due,
                                  attempt |-> row[r].attempt]]
    /\ UNCHANGED <<order, mutated>>

\* The engine or startup recovery settles the run, or puts it back in the
\* queue behind a backoff while attempts remain.
Finish(r) == Occupied(r) /\ Closes(r)
Requeue(r) ==
    /\ row[r].status = "running" /\ row[r].attempt < MaxAttempts
    /\ Moves(r, "queued", FALSE)
BackoffElapses(r) ==
    /\ row[r].status = "queued" /\ ~row[r].due
    /\ Moves(r, "queued", TRUE)

CancelQueued(r) == row[r].status = "queued" /\ Closes(r)
CancelRunning(r) == row[r].status = "running" /\ Moves(r, "cancelling", TRUE)

\* The authoritative_mutation or deactivate_authoritative step commits.
MutationSucceeds(r) ==
    /\ r \in Destructive \ mutated /\ Occupied(r)
    /\ mutated' = mutated \cup {r}
    /\ UNCHANGED <<row, order>>

ContractNext ==
    \E r \in Runs :
        \/ Begins(r) \/ Submit(r) \/ RollsBack(r) \/ Claim(r) \/ Finish(r) \/ Requeue(r)
        \/ BackoffElapses(r) \/ CancelQueued(r) \/ CancelRunning(r) \/ MutationSucceeds(r)

ContractSpec == TableInit /\ [][ContractNext]_table

\* Two occupied runs never share a dataset, and a global run is alone
\* (the rule of ADR-0009 that _arbitrate_dataset_scoped and _arbitrate_global
\* enforce).
OneOwnerPerScope ==
    \A r, s \in Runs : r # s /\ Occupied(r) /\ Occupied(s) => ~SameScope(r, s)
=============================================================================
