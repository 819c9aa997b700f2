----------------------------- MODULE QueueClaim ------------------------------
(***************************************************************************)
(* services/pipeline_queue_claimer.py against PostgreSQL: how any number   *)
(* of worker processes agree on who runs what.  A claim is a scan, then    *)
(* one transaction per candidate that locks the row with SKIP LOCKED,      *)
(* takes transaction-level advisory locks without waiting, looks for       *)
(* committed conflicts, and commits.                                       *)
(*                                                                         *)
(* Every SQL statement is an action of its own: under READ COMMITTED each  *)
(* reads what is committed when it starts, except now(), which stays that  *)
(* of the start of the transaction.  Row locks of other writers last one   *)
(* action.  A claimer stands for the poll loop of one process boot, which  *)
(* never runs two claims at a time.                                        *)
(***************************************************************************)
EXTENDS ClaimContract

CONSTANTS
    Claimers,
    ScanLimit,     \* candidate_scan_limit
    InitialPolicy, \* claim policy of a process when it boots
    Faults,        \* which of "loss", "retry" and "cancel" may happen
    NoRun

ASSUME ScanLimitAssumption == ScanLimit \in Nat /\ ScanLimit >= 1
ASSUME NoRunAssumption == NoRun \notin Runs
ASSUME GlobalAssumption == Global \notin Runs
ASSUME PolicyAssumption == InitialPolicy \in {"none", "recovery", "normal"}

VARIABLES
    policy,   \* each process's ProcessStateHolder: what it may claim
    owned,    \* and its recovery_owned_run_ids
    claimer,  \* the claim attempt each process is in
    held      \* row and advisory locks of each claimer's transaction

vars == <<row, order, mutated, policy, owned, claimer, held>>

Policies == {"none", "recovery", "normal"}
InTransaction == {"precheck", "barrier", "dataset", "revalidate", "global", "commit"}
PastPrecheck == {"barrier", "dataset", "revalidate", "global", "commit"}
ClaimPhases == InTransaction \cup {"idle", "scanned", "gone"}

\* todo: candidates not tried yet.  policy and owned: as read when the
\* attempt began.  late: runs whose backoff elapsed after the transaction
\* began, which its now() therefore still takes for not due, and (history)
\* global runs that became visible after its precheck.
Attempt == [pc : ClaimPhases, todo : SUBSET Runs, target : Runs \cup {NoRun},
            policy : Policies, owned : SUBSET Runs, late : SUBSET Runs]
Resting(pc) == [pc |-> pc, todo |-> {}, target |-> NoRun, policy |-> "none",
                owned |-> {}, late |-> {}]
NoAttempt == Resting("idle")

(* A lock is <<kind, key, mode>>; try_advisory_lock_shared and _exclusive   *)
(* and FOR UPDATE SKIP LOCKED all give up at once on a conflict.            *)
RowLock(r) == <<"row", r, "exclusive">>
BarrierLock_Shared(r) == <<"barrier", Global, "shared">>
BarrierLock(r) == <<"barrier", Global, IF DatasetOf[r] = Global THEN "exclusive"
                                                               ELSE "shared">>
DatasetLock(r) == <<"dataset", DatasetOf[r], "exclusive">>
Locks == {"row", "barrier", "dataset"} \X (Runs \cup {Global} \cup {DatasetOf[r] : r \in Runs})
            \X {"shared", "exclusive"}

Conflict(l, m) == l[1] = m[1] /\ l[2] = m[2] /\ "exclusive" \in {l[3], m[3]}
Free(c, l) == \A o \in Claimers \ {c} : \A m \in held[o] : ~Conflict(l, m)

TypeOK ==
    /\ row \in [Runs -> Row]
    /\ order \in [Runs -> Int]
    /\ mutated \subseteq Runs
    /\ policy \in [Claimers -> Policies]
    /\ owned \in [Claimers -> SUBSET Runs]
    /\ claimer \in [Claimers -> Attempt]
    /\ held \in [Claimers -> SUBSET Locks]
    /\ \A c \in Claimers : claimer[c].pc \notin InTransaction =>
          claimer[c].target = NoRun /\ held[c] = {}

Init ==
    /\ TableInit
    /\ policy = [c \in Claimers |-> InitialPolicy]
    /\ owned = [c \in Claimers |-> {}]
    /\ claimer = [c \in Claimers |-> NoAttempt]
    /\ held = [c \in Claimers |-> {}]

-----------------------------------------------------------------------------
(* The scan, one statement *)

\* Occupied runs of the scope, the run itself being queued.
NoKnownConflict_Unfiltered(r) == TRUE
NoKnownConflict(r) == ScopeFree(r)

\* DISTINCT ON (dataset_id): the oldest claimable run of each scope.
Representatives ==
    {r \in Runs : /\ Eligible(r) /\ NoKnownConflict(r)
                  /\ \A s \in Runs : /\ DatasetOf[s] = DatasetOf[r]
                                     /\ Eligible(s) /\ NoKnownConflict(s)
                                     => ~Precedes(s, r)}
FirstFew(S) == {r \in S : Cardinality({s \in S : Precedes(s, r)}) < ScanLimit}

Scan(c) ==
    /\ claimer[c].pc = "idle"
    /\ policy[c] # "none"
    /\ Representatives # {}
    /\ claimer' = [claimer EXCEPT ![c] =
           [pc |-> "scanned", todo |-> FirstFew(Representatives), target |-> NoRun,
            policy |-> policy[c], owned |-> owned[c], late |-> {}]]
    /\ UNCHANGED <<row, order, mutated, policy, owned, held>>

-----------------------------------------------------------------------------
(* One transaction per candidate *)

\* Rollback: every lock is gone and the next candidate is tried.
NextCandidate(c, rest) ==
    /\ held' = [held EXCEPT ![c] = {}]
    /\ claimer' = [claimer EXCEPT ![c] =
           IF rest = {} THEN NoAttempt
           ELSE [claimer[c] EXCEPT !.pc = "scanned", !.todo = rest,
                                   !.target = NoRun, !.late = {}]]
Abandon(c) == NextCandidate(c, claimer[c].todo)

Advance(c, pc) == claimer' = [claimer EXCEPT ![c].pc = pc]

DueFor(c, r) == Eligible(r) /\ r \notin claimer[c].late

\* _allowed_under_policy, the mutation being durable once recorded.
Allowed_ByTypeAndOwnership(c, r) ==
    \/ claimer[c].policy = "normal"
    \/ claimer[c].policy = "recovery" /\ r \in Destructive
Allowed(c, r) ==
    \/ claimer[c].policy = "normal"
    \/ /\ claimer[c].policy = "recovery"
       /\ r \in Destructive \cap claimer[c].owned \cap mutated

\* get_eligible_for_update, then the policy check under the row lock.
LockCandidate(c) ==
    /\ claimer[c].pc = "scanned"
    /\ \E r \in claimer[c].todo :
        /\ \A s \in claimer[c].todo \ {r} : ~Precedes(s, r)
        /\ LET rest == claimer[c].todo \ {r}
           IN  \/ /\ Eligible(r) /\ Free(c, RowLock(r)) /\ Allowed(c, r)
                  /\ held' = [held EXCEPT ![c] = {RowLock(r)}]
                  /\ claimer' = [claimer EXCEPT ![c] =
                         [claimer[c] EXCEPT !.todo = rest, !.target = r,
                            !.pc = IF DatasetOf[r] = Global THEN "barrier"
                                                            ELSE "precheck"]]
               \/ /\ ~(Eligible(r) /\ Free(c, RowLock(r)) /\ Allowed(c, r))
                  /\ NextCandidate(c, rest)
    /\ UNCHANGED <<row, order, mutated, policy, owned>>

\* exists_eligible_global_with_precedence
OlderGlobalWaits_Never(c, r) == FALSE
OlderGlobalWaits(c, r) ==
    \E g \in Runs : DatasetOf[g] = Global /\ DueFor(c, g) /\ Precedes(g, r)

Precheck(c) ==
    /\ claimer[c].pc = "precheck"
    /\ \/ OlderGlobalWaits(c, claimer[c].target) /\ Abandon(c)
       \/ /\ ~OlderGlobalWaits(c, claimer[c].target)
          /\ Advance(c, "barrier") /\ UNCHANGED held
    /\ UNCHANGED <<row, order, mutated, policy, owned>>

TryLock(c, l, pc) ==
    /\ \/ /\ Free(c, l)
          /\ held' = [held EXCEPT ![c] = held[c] \cup {l}]
          /\ Advance(c, pc)
       \/ ~Free(c, l) /\ Abandon(c)
    /\ UNCHANGED <<row, order, mutated, policy, owned>>

TakeBarrier(c) ==
    /\ claimer[c].pc = "barrier"
    /\ TryLock(c, BarrierLock(claimer[c].target),
               IF DatasetOf[claimer[c].target] = Global THEN "revalidate" ELSE "dataset")

TakeDataset(c) ==
    /\ claimer[c].pc = "dataset"
    /\ TryLock(c, DatasetLock(claimer[c].target), "revalidate")

\* exists_dataset_conflict, or exists_any_dataset_scoped_conflict for a
\* global run.
DatasetConflict_RunningOnly(r) ==
    \E s \in Runs : /\ row[s].status = "running" /\ DatasetOf[s] # Global
                    /\ DatasetOf[r] \in {DatasetOf[s], Global}
DatasetConflict(r) ==
    \E s \in Runs : /\ Occupied(s) /\ DatasetOf[s] # Global
                    /\ DatasetOf[r] \in {DatasetOf[s], Global}

Revalidate(c) ==
    /\ claimer[c].pc = "revalidate"
    /\ \/ DatasetConflict(claimer[c].target) /\ Abandon(c)
       \/ /\ ~DatasetConflict(claimer[c].target)
          /\ Advance(c, "global") /\ UNCHANGED held
    /\ UNCHANGED <<row, order, mutated, policy, owned>>

\* exists_other_global_conflict
OtherGlobalConflict(r) ==
    \E s \in Runs \ {r} : Occupied(s) /\ DatasetOf[s] = Global

RevalidateGlobal(c) ==
    /\ claimer[c].pc = "global"
    /\ \/ OtherGlobalConflict(claimer[c].target) /\ Abandon(c)
       \/ /\ ~OtherGlobalConflict(claimer[c].target)
          /\ Advance(c, "commit") /\ UNCHANGED held
    /\ UNCHANGED <<row, order, mutated, policy, owned>>

\* transition_run(RUNNING) and COMMIT: visible first, then the locks go.
Commit(c) ==
    /\ claimer[c].pc = "commit"
    /\ TakeRun(claimer[c].target)
    /\ held' = [held EXCEPT ![c] = {}]
    /\ claimer' = [claimer EXCEPT ![c] = NoAttempt]
    /\ UNCHANGED <<policy, owned>>

\* The process is lost, and PostgreSQL drops its transaction; its next boot
\* is another claimer.
Lose(c) ==
    /\ "loss" \in Faults
    /\ held' = [held EXCEPT ![c] = {}]
    /\ claimer' = [claimer EXCEPT ![c] = Resting("gone")]
    /\ policy' = [policy EXCEPT ![c] = "none"]
    /\ owned' = [owned EXCEPT ![c] = {}]
    /\ UNCHANGED <<row, order, mutated>>

-----------------------------------------------------------------------------
(* ProcessStateHolder: policies only ever broaden within one boot *)

StartConverging(c) ==
    /\ policy[c] = "none" /\ claimer[c].pc # "gone"
    /\ policy' = [policy EXCEPT ![c] = "recovery"]
    /\ UNCHANGED <<row, order, mutated, owned, claimer, held>>

\* One converge() pass: which of the lineages past their mutation it finds
\* depends on the stored files, which are not modelled here.
Classify(c) ==
    /\ policy[c] = "recovery"
    /\ \E S \in SUBSET mutated : owned' = [owned EXCEPT ![c] = S]
    /\ UNCHANGED <<row, order, mutated, policy, claimer, held>>

FixedPoint(c) ==
    /\ policy[c] = "recovery"
    /\ \A r \in owned[c] : row[r].status = "finished"
    /\ policy' = [policy EXCEPT ![c] = "normal"]
    /\ UNCHANGED <<row, order, mutated, owned, claimer, held>>

-----------------------------------------------------------------------------
(* The other transactions on the table *)

Others == UNCHANGED <<policy, owned, claimer, held>>

\* Writes are refused while no process is operational.  A slot is used
\* again only when no claimer still names the finished run.
NewRun(r) ==
    /\ \E c \in Claimers : policy[c] = "normal"
    /\ \A c \in Claimers : r \notin claimer[c].todo \cup claimer[c].late \cup owned[c]
    /\ Begins(r)
    /\ Others
Refused(r) == RollsBack(r) /\ Others

TooLateFor(S, r) ==
    claimer' = [c \in Claimers |->
        IF claimer[c].pc \in S THEN [claimer[c] EXCEPT !.late = claimer[c].late \cup {r}]
        ELSE claimer[c]]
Accepted(r) ==
    /\ Submit(r)
    /\ TooLateFor(IF DatasetOf[r] = Global THEN PastPrecheck ELSE {}, r)
    /\ UNCHANGED <<policy, owned, held>>

\* Waits for the row lock.
CancelWaiting(r) ==
    /\ "cancel" \in Faults
    /\ \A c \in Claimers : RowLock(r) \notin held[c]
    /\ CancelQueued(r)
    /\ Others

CancelOccupying(r) == "cancel" \in Faults /\ CancelRunning(r) /\ Others
Ends(r) == Finish(r) /\ Others
Retries(r) == "retry" \in Faults /\ Requeue(r) /\ Others
Mutates(r) == MutationSucceeds(r) /\ Others

Elapses(r) ==
    /\ BackoffElapses(r)
    /\ TooLateFor(InTransaction, r)
    /\ UNCHANGED <<policy, owned, held>>

ClaimStep(c) ==
    \/ Scan(c) \/ LockCandidate(c) \/ Precheck(c) \/ TakeBarrier(c)
    \/ TakeDataset(c) \/ Revalidate(c) \/ RevalidateGlobal(c) \/ Commit(c)

ProcessStep(c) == StartConverging(c) \/ Classify(c) \/ FixedPoint(c) \/ Lose(c)

TableStep(r) ==
    \/ NewRun(r) \/ Accepted(r) \/ Refused(r) \/ CancelWaiting(r) \/ CancelOccupying(r) \/ Ends(r)
    \/ Retries(r) \/ Mutates(r) \/ Elapses(r)

Next ==
    \/ \E c \in Claimers : ClaimStep(c) \/ ProcessStep(c)
    \/ \E r \in Runs : TableStep(r)

Spec == Init /\ [][Next]_vars

\* The poll loop keeps claiming; executions may take for ever.
PollSpec == Spec /\ \A c \in Claimers : WF_vars(ClaimStep(c))

\* Executions end and backoffs elapse as well.
FairSpec == PollSpec /\ \A r \in Runs : WF_vars(Ends(r)) /\ WF_vars(Elapses(r))

-----------------------------------------------------------------------------
(* Properties *)

\* The claim protocol implements the atomic claim that the engine and the
\* recovery pass are written against.
ClaimsAreAtomic == ContractSpec

Claims(c) == claimer[c].pc = "commit" /\ row'[claimer[c].target] # row[claimer[c].target]

\* A dataset run commits ahead of an older global run that waits only if that run
\* became eligible inside the very transaction that commits: its backoff elapsed,
\* or it was begun earlier and committed after the precheck (created_at is the
\* start of a transaction).  The starvation guard leaves no other window.
OvertakesOnlyInFlight ==
    [][\A c \in Claimers : Claims(c) /\ DatasetOf[claimer[c].target] # Global =>
          \A g \in Runs : /\ DatasetOf[g] = Global /\ Eligible(g)
                          /\ Precedes(g, claimer[c].target)
                          => g \in claimer[c].late]_vars

\* While a process converges its storage it claims nothing but deletions
\* past their authoritative mutation, even though policy and owned runs are
\* read long before the claim commits.
ConvergingFinishesDeletions ==
    [][\A c \in Claimers : Claims(c) /\ policy[c] = "recovery" =>
          claimer[c].target \in Destructive \cap mutated]_vars

\* A waiting global run is claimed, however many younger dataset runs keep
\* arriving, if executions end and backoffs elapse: no stream of dataset runs
\* that overlap each other keeps it out.
ExecutionsEnd == \A r \in Runs : WF_vars(Ends(r)) /\ WF_vars(Elapses(r))
GlobalRunsNotStarved ==
    ExecutionsEnd => \A r \in Runs :
        (DatasetOf[r] = Global /\ row[r].status = "queued") ~> row[r].status # "queued"

\* A run of a free scope with no older global run ahead of it is found and
\* claimed although the runs occupying other scopes never end and the scan
\* returns fewer candidates than there are scopes (list_eligible_candidate_ids).
Claimable(r) ==
    /\ Eligible(r) /\ ScopeFree(r)
    /\ \A g \in Runs : DatasetOf[g] = Global /\ Eligible(g) => ~Precedes(g, r)
FreeScopesProgress == \A r \in Runs : Claimable(r) ~> ~Claimable(r)

\* The lineages a converging process waits for are claimed.
RecoveryOwnedRunsAreClaimed ==
    \A c \in Claimers, r \in Runs :
        (policy[c] = "recovery" /\ r \in owned[c] /\ row[r].status = "queued")
            ~> ~(policy[c] = "recovery" /\ r \in owned[c] /\ row[r].status = "queued")
=============================================================================
