------------------------------- MODULE Startup -------------------------------
(***************************************************************************)
(* How a process starts and stops: the schema gate with its migration under*)
(* an advisory lock, the dependency checks, recovery, the worker and the   *)
(* move to OPERATIONAL, one attempt after another until one succeeds.      *)
(*                                                                         *)
(* Several processes share one database and may run different versions of  *)
(* the code, as in a rolling update: a revision is a number, 0 for a       *)
(* pristine schema, and Head says which one a process is built for.        *)
(***************************************************************************)
EXTENDS Integers, FiniteSets

CONSTANTS
    Processes,
    Head,       \* the revision each process is built for
    Mode,       \* settings.database_migration_mode of each
    Worker,     \* the processes whose worker is enabled
    UsesS3,     \* the processes with storage_backend = "s3"
    Faults,     \* subset of {"kill", "stop", "migration", "unlock", "dependency", "drift",
                \*            "connection"}
    MaxFaults,  \* bound: how many of them happen
    MaxBoots    \* bound: boots of a process

ASSUME HeadAssumption == Head \in [Processes -> Nat \ {0}]
ASSUME ModeAssumption == Mode \in [Processes -> {"auto", "verify_only"}]

VARIABLES
    revision,  \* the revision of the schema
    sound,     \* extensions and embedding columns are as the code needs them
    lock,      \* who holds MIGRATION_BOOTSTRAP_KEY: at most one, or none
    child,     \* the Alembic subprocess of each process
    base,      \* the revision its transaction found
    proc,      \* the state of each process
    failures,  \* history: failed migrations of each since it last saw a ready schema
    severed,   \* history: whose lock connection closed under the migration it is in
    boots, faults

vars == <<revision, sound, lock, child, base, proc, failures, severed, boots, faults>>
schema == <<revision, sound>>
children == <<child, base, severed>>

-----------------------------------------------------------------------------
(* Where the bootstrap task is *)

Gate == {"schema", "locking", "classify", "migrate"}
Dependencies == {"neo4j", "recovery", "worker", "s3"}
\* Past the schema gate.
Passed == Dependencies \cup {"converge", "done"}

\* cancelled: the bootstrap task has been cancelled by a shutdown.
\* started, recovered: of the worker and of recovery, in this process.
Process ==
    [at : {"down", "retry", "stopping"} \cup Gate \cup Passed,
     state : {"bootstrap_maintenance", "storage_converging", "operational"},
     sticky : BOOLEAN, started : BOOLEAN, recovered : BOOLEAN, cancelled : BOOLEAN]
Down == [at |-> "down", state |-> "bootstrap_maintenance", sticky |-> FALSE,
         started |-> FALSE, recovered |-> FALSE, cancelled |-> FALSE]

Init ==
    /\ revision \in {0, 1} /\ sound = TRUE
    /\ lock = {}
    /\ child = [p \in Processes |-> "none"]
    /\ base = [p \in Processes |-> 0]
    /\ proc = [p \in Processes |-> Down]
    /\ failures = [p \in Processes |-> 0]
    /\ severed = {}
    /\ boots = [p \in Processes |-> 0] /\ faults = 0

Fault(f) == f \in Faults /\ faults < MaxFaults /\ faults' = faults + 1

At(p, at) == proc[p].at = at
Goes(p, at) == proc' = [proc EXCEPT ![p].at = at]
\* An exception ends the attempt; the loop sleeps and makes another.
Raises(p) == Goes(p, "retry")

\* evaluate_postgres_readiness: the recorded revision is the head, and the
\* extensions and the columns the embeddings need are there.
AtHead(p) == revision = Head[p]
EmbeddingsFit == sound
Ready(p) == AtHead(p) /\ EmbeddingsFit

\* Another version's revision is not an ancestor of this one's head; it may be
\* unknown to it, which is no better.
SchemaState(p) ==
    CASE revision = 0 -> "pristine_fresh_schema"
      [] revision = Head[p] -> "exact_head"
      [] 0 < revision /\ revision < Head[p] -> "known_ancestor"
      [] revision > Head[p] -> "unrecognized_revision"
Policy(mode, state) ==
    CASE state = "exact_head" -> "no_op"
      [] state \in {"pristine_fresh_schema", "known_ancestor"} /\ mode = "auto" -> "migrate"
      [] OTHER -> "fail_closed"
\* Under the lock it is always for the automatic mode.
Action(p) == Policy("auto", SchemaState(p))

-----------------------------------------------------------------------------
(* The schema gate *)

\* _probe_sticky_readiness and verify_only read, and nothing else.
VerifiesOnly(p) == proc[p].sticky \/ Mode[p] = "verify_only"

Verify_GivesUp(p) ==
    /\ At(p, "schema") /\ VerifiesOnly(p)
    /\ \/ /\ Ready(p) /\ ~proc[p].sticky /\ Goes(p, "neo4j")
          /\ failures' = [failures EXCEPT ![p] = 0]
       \/ /\ ~Ready(p) \/ proc[p].sticky
          /\ Raises(p) /\ UNCHANGED failures
    /\ UNCHANGED <<schema, lock, children, boots, faults>>
Verify(p) ==
    /\ At(p, "schema") /\ VerifiesOnly(p)
    /\ \/ /\ Ready(p)
          /\ proc' = [proc EXCEPT ![p].at = "neo4j", ![p].sticky = FALSE]
          /\ failures' = [failures EXCEPT ![p] = 0]
       \/ ~Ready(p) /\ Raises(p) /\ UNCHANGED failures
    /\ UNCHANGED <<schema, lock, children, boots, faults>>

\* _acquire_lock_with_deadline, on a connection of its own: tries and, at the
\* deadline, gives up.
TryLock(p) ==
    /\ \/ At(p, "schema") /\ ~VerifiesOnly(p)
       \/ At(p, "locking")
    /\ lock = {} /\ lock' = {p} /\ Goes(p, "classify")
    /\ UNCHANGED <<schema, children, failures, boots, faults>>
LockIsTaken(p) ==
    /\ At(p, "schema") /\ ~VerifiesOnly(p) /\ lock # {}
    /\ Goes(p, "locking")
    /\ UNCHANGED <<schema, lock, children, failures, boots, faults>>
\* Only a migration takes that long, or a holder that has trouble of its own.
LockTimesOut(p) ==
    /\ At(p, "locking") /\ lock # {}
    /\ \/ \E q \in lock : At(q, "migrate") /\ UNCHANGED faults
       \/ Fault("dependency")
    /\ Raises(p)
    /\ UNCHANGED <<schema, lock, children, failures, boots>>

\* _classify_under_lock, and what needs no migration ends with the lock released.
Classify(p) ==
    /\ At(p, "classify")
    /\ \/ /\ Action(p) = "migrate" /\ Goes(p, "migrate")
          /\ child' = [child EXCEPT ![p] = "spawned"]
          /\ UNCHANGED <<lock, failures>>
       \/ /\ Action(p) = "no_op" /\ Ready(p) /\ Goes(p, "neo4j")
          /\ lock' = lock \ {p} /\ failures' = [failures EXCEPT ![p] = 0]
          /\ UNCHANGED child
       \/ /\ Action(p) # "migrate" /\ ~Ready(p)
          /\ Raises(p) /\ lock' = lock \ {p} /\ UNCHANGED <<child, failures>>
    /\ UNCHANGED <<schema, base, severed, boots, faults>>

\* `alembic upgrade head` runs in one transaction on a connection of its own:
\* it finds a revision and brings the schema from there to its head, all of it or
\* nothing.  If another has moved the schema in between, its DDL or the update of
\* alembic_version finds what it did not expect, and it fails; so it does on a
\* revision it does not know.
ChildStarts(p) ==
    /\ child[p] = "spawned"
    /\ child' = [child EXCEPT ![p] = "running"] /\ base' = [base EXCEPT ![p] = revision]
    /\ UNCHANGED <<schema, lock, proc, failures, severed, boots, faults>>
ChildEnds(p) ==
    /\ child[p] = "running"
    /\ \/ /\ base[p] < Head[p] /\ revision = base[p]
          /\ child' = [child EXCEPT ![p] = "succeeded"] /\ revision' = Head[p]
       \/ /\ base[p] = Head[p]
          /\ child' = [child EXCEPT ![p] = "succeeded"] /\ UNCHANGED revision
       \/ /\ base[p] > Head[p] \/ (base[p] < Head[p] /\ revision # base[p])
          /\ child' = [child EXCEPT ![p] = "failed"] /\ UNCHANGED revision
    /\ UNCHANGED <<sound, lock, base, proc, failures, severed, boots, faults>>
\* It may fail for any other reason as well, even after its commit.
ChildFails(p) ==
    /\ child[p] = "running" /\ Fault("migration")
    /\ child' = [child EXCEPT ![p] = "failed"]
    /\ revision' = revision \/ (revision = base[p] /\ base[p] < Head[p] /\ revision' = Head[p])
    /\ UNCHANGED <<sound, lock, base, proc, failures, severed, boots>>

\* Nobody watches the lock connection while the child runs: when it closes, the
\* lock is free and the child goes on.
LockConnectionCloses(p) ==
    /\ At(p, "migrate") /\ p \in lock /\ Fault("connection")
    /\ lock' = lock \ {p} /\ severed' = severed \cup {p}
    /\ UNCHANGED <<schema, child, base, proc, failures, boots>>

\* What a cancelled bootstrap task does when its critical section is over.
Then(p, at) == IF proc[p].cancelled THEN "stopping" ELSE at

\* The supervision of the child is over.
Reaps(p) ==
    /\ child' = [child EXCEPT ![p] = "none"]
    /\ lock' = lock \ {p} /\ severed' = severed \ {p}

\* _run_upgrade_and_release: exit code, post-verification, release of the lock.
\* The flag is set before the release, which may fail with the connection.
MigrationFails(p) ==
    /\ At(p, "migrate")
    /\ \/ child[p] = "failed" /\ UNCHANGED faults
       \/ child[p] = "succeeded" /\ ~Ready(p) /\ UNCHANGED faults
       \/ child[p] = "succeeded" /\ Fault("dependency")
    /\ proc' = [proc EXCEPT ![p].sticky = TRUE, ![p].at = Then(p, "retry")]
    /\ Reaps(p)
    /\ failures' = [failures EXCEPT ![p] = @ + 1]
    /\ UNCHANGED <<schema, base, boots>>

\* On a closed connection the release fails for certain.
MigrationSucceeds(p) ==
    /\ At(p, "migrate") /\ child[p] = "succeeded" /\ Ready(p)
    /\ \/ p \notin severed /\ Goes(p, Then(p, "neo4j")) /\ UNCHANGED faults
       \/ p \in severed /\ Goes(p, Then(p, "retry")) /\ UNCHANGED faults
       \/ Goes(p, Then(p, "retry")) /\ Fault("unlock")
    /\ Reaps(p)
    /\ failures' = [failures EXCEPT ![p] = 0]
    /\ UNCHANGED <<schema, base, boots>>

-----------------------------------------------------------------------------
(* The rest of an attempt *)

\* The Neo4j probe and schema; without a worker nothing is recovered.
CheckNeo4j(p) ==
    /\ At(p, "neo4j")
    /\ Goes(p, IF p \in Worker THEN "recovery" ELSE "s3")
    /\ UNCHANGED <<schema, lock, children, failures, boots, faults>>

Recover(p) ==
    /\ At(p, "recovery")
    /\ proc' = [proc EXCEPT ![p].at = "worker", ![p].recovered = TRUE]
    /\ UNCHANGED <<schema, lock, children, failures, boots, faults>>

\* start() does nothing when it has been called before.
StartWorker(p) ==
    /\ At(p, "worker")
    /\ proc' = [proc EXCEPT ![p].at = "s3", ![p].started = TRUE]
    /\ UNCHANGED <<schema, lock, children, failures, boots, faults>>

\* Converging, to be claimed for: the state changes before the probe of S3.
EnterConvergence(p) ==
    /\ At(p, "s3")
    /\ proc' = [proc EXCEPT
          ![p].at = IF p \in UsesS3 THEN "converge" ELSE "done",
          ![p].state = IF p \in UsesS3 THEN "storage_converging" ELSE "operational"]
    /\ UNCHANGED <<schema, lock, children, failures, boots, faults>>

\* Sources shows that convergence ends.
EndConvergence(p) ==
    /\ At(p, "converge")
    /\ proc' = [proc EXCEPT ![p].at = "done", ![p].state = "operational"]
    /\ UNCHANGED <<schema, lock, children, failures, boots, faults>>

\* PostgreSQL, Neo4j or S3 fails; the connection that holds the lock closes.  In a
\* migration that is LockConnectionCloses.
DependencyFails(p) ==
    /\ proc[p].at \in Dependencies \cup {"schema", "locking", "classify", "converge"}
    /\ Fault("dependency")
    /\ Raises(p) /\ lock' = lock \ {p}
    /\ UNCHANGED <<schema, children, failures, boots>>

TryAgain(p) ==
    /\ At(p, "retry")
    /\ Goes(p, "schema")
    /\ UNCHANGED <<schema, lock, children, failures, boots, faults>>

-----------------------------------------------------------------------------
(* Processes come and go *)

Boot(p) ==
    /\ At(p, "down") /\ boots[p] < MaxBoots
    /\ boots' = [boots EXCEPT ![p] = @ + 1]
    /\ proc' = [proc EXCEPT ![p] = [Down EXCEPT !.at = "schema"]]
    /\ UNCHANGED <<schema, lock, children, failures, faults>>

\* Shutdown cancels the bootstrap task and waits for it: the critical section
\* of a migration is shielded, everything else gives up what it holds.
Stop_Unshielded(p) ==
    /\ proc[p].at \notin {"down", "stopping"} /\ ~proc[p].cancelled /\ Fault("stop")
    /\ proc' = [proc EXCEPT ![p].cancelled = TRUE, ![p].at = "stopping"]
    /\ lock' = lock \ {p}
    /\ UNCHANGED <<schema, children, failures, boots>>
Stop(p) ==
    /\ proc[p].at \notin {"down", "stopping"} /\ ~proc[p].cancelled /\ Fault("stop")
    /\ proc' = [proc EXCEPT ![p].cancelled = TRUE,
                            ![p].at = IF @ = "migrate" THEN @ ELSE "stopping"]
    /\ lock' = IF At(p, "migrate") THEN lock ELSE lock \ {p}
    /\ UNCHANGED <<schema, children, failures, boots>>

\* worker.stop() and the rest of the shutdown; the process exits.
Exit(p) ==
    /\ At(p, "stopping")
    /\ proc' = [proc EXCEPT ![p] = Down]
    /\ failures' = [failures EXCEPT ![p] = 0]
    /\ UNCHANGED <<schema, lock, children, boots, faults>>

\* The child dies with its parent (PR_SET_PDEATHSIG), the session with its lock;
\* a migration that had committed stays.
Kill(p) ==
    /\ ~At(p, "down") /\ Fault("kill")
    /\ proc' = [proc EXCEPT ![p] = Down]
    /\ Reaps(p)
    /\ failures' = [failures EXCEPT ![p] = 0]
    /\ UNCHANGED <<schema, base, boots>>

\* Somebody changes what the revision number does not show, or repairs the
\* schema for a process that waits for it; neither takes the lock.
Drift ==
    /\ Fault("drift") /\ sound' = FALSE
    /\ UNCHANGED <<revision, lock, children, proc, failures, boots>>
Repair(p) ==
    /\ ~At(p, "down") /\ ~Ready(p) /\ revision <= Head[p]
    /\ proc[p].sticky \/ ~sound \/ Mode[p] = "verify_only"
    /\ revision' = Head[p] /\ sound' = TRUE
    /\ UNCHANGED <<lock, children, proc, failures, boots, faults>>

Migrate(p) == ChildStarts(p) \/ ChildEnds(p) \/ MigrationFails(p) \/ MigrationSucceeds(p)
Attempt(p) ==
    \/ Verify(p) \/ TryLock(p) \/ LockIsTaken(p) \/ LockTimesOut(p) \/ Classify(p) \/ Migrate(p)
    \/ CheckNeo4j(p) \/ Recover(p) \/ StartWorker(p)
    \/ EnterConvergence(p) \/ EndConvergence(p) \/ TryAgain(p) \/ Exit(p)

Next ==
    \/ \E p \in Processes :
          \/ Boot(p) \/ Attempt(p) \/ Repair(p)
          \/ ChildFails(p) \/ LockConnectionCloses(p) \/ DependencyFails(p) \/ Stop(p) \/ Kill(p)
    \/ Drift

\* The bootstrap task keeps going, the operator repairs what needs it, and of
\* the many tries before the deadline one finds the lock free.
Fairness ==
    \A p \in Processes : WF_vars(Attempt(p)) /\ WF_vars(Repair(p)) /\ SF_vars(TryLock(p))
Spec == Init /\ [][Next]_vars /\ Fairness

-----------------------------------------------------------------------------
(* Properties *)

\* A child lives only in the critical section of its process, under the lock:
\* no kill, shutdown or time-out leaves one behind (ADR-0015, SM-903).  Two run at
\* once only where PostgreSQL took the lock from one of them by closing its
\* connection, and a process whose migration failed never migrates again
\* (migration_bootstrap.py:351).
OneMigrator ==
    /\ \A p \in Processes : child[p] # "none" => At(p, "migrate") /\ (lock = {p} \/ p \in severed)
    /\ Cardinality({p \in Processes : child[p] # "none"} \ severed) <= 1
    /\ \A p \in Processes : failures[p] <= 1

\* Every process built for the newest version becomes operational or stops.
Newest(p) == \A q \in Processes : Head[q] <= Head[p]
StartUpEnds ==
    \A p \in Processes :
        Newest(p) => (At(p, "schema") ~> proc[p].state = "operational" \/ At(p, "down"))
=============================================================================
