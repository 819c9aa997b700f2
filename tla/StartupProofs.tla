---------------------------- MODULE StartupProofs ----------------------------
(***************************************************************************)
(* Proofs about Startup, for any number of processes, versions, modes and  *)
(* faults.  The argument: a process between the classification and the end *)
(* of its migration is alone in holding the lock, or has had it taken from *)
(* it in the migration (Exclusive), an Alembic child lives only there      *)
(* (ChildGuarded), and a process that has seen its migration fail only     *)
(* ever verifies (FailedOnce), so it never comes back.                     *)
(***************************************************************************)
EXTENDS Startup, FiniteSetTheorems, TLAPS

\* What most steps leave alone together.
USE DEF children

\* The critical section of run_migration_bootstrap.
Critical == {"classify", "migrate"}

ProcTypeOK ==
    /\ proc \in [Processes -> Process]
    /\ child \in [Processes -> {"none", "spawned", "running", "succeeded", "failed"}]
    /\ failures \in [Processes -> Nat]

Exclusive(p) ==
    proc[p].at \in Critical => lock = {p} \/ (At(p, "migrate") /\ p \in severed)
ChildGuarded(p) == child[p] # "none" => At(p, "migrate")
FailedOnce(p) ==
    /\ proc[p].sticky => proc[p].at \in {"retry", "schema", "stopping"}
    /\ failures[p] = 0 \/ (failures[p] = 1 /\ proc[p].sticky)

ProcInv(p) == Exclusive(p) /\ ChildGuarded(p) /\ FailedOnce(p)
IInv == ProcTypeOK /\ \A p \in Processes : ProcInv(p)

-----------------------------------------------------------------------------
(* What a step leaves of the invariant for the processes it is not about *)

\* A step of p touches the lock only by taking it free or letting it go.
LEMMA OthersKeep ==
    ASSUME IInv, NEW p \in Processes,
           proc' \in [Processes -> Process],
           child' \in [Processes -> {"none", "spawned", "running", "succeeded", "failed"}],
           failures' \in [Processes -> Nat],
           \A q \in Processes \ {p} :
              proc'[q] = proc[q] /\ child'[q] = child[q] /\ failures'[q] = failures[q],
           \/ lock' = lock
           \/ lock' = lock \ {p}
           \/ lock' = {p} /\ lock = {},
           severed' \ {p} = severed \ {p},
           ProcInv(p)'
    PROVE  IInv'
    <1>1. ASSUME NEW q \in Processes, q # p PROVE ProcInv(q)'
        <2>1. Exclusive(q)'  BY <1>1 DEF IInv, ProcInv, Exclusive, Critical, At
        <2>2. QED  BY <1>1, <2>1 DEF IInv, ProcInv, ChildGuarded, FailedOnce, At
    <1>2. QED  BY <1>1 DEF IInv, ProcTypeOK

Places == {"down", "retry", "stopping"} \cup Gate \cup Passed

\* The next place of a process, with or without a change of its flags.
LEMMA ProcessTypes ==
    ASSUME NEW s \in Process, NEW at \in Places, NEW b \in BOOLEAN
    PROVE  /\ [s EXCEPT !.at = at] \in Process
           /\ [s EXCEPT !.at = at, !.sticky = b] \in Process
           /\ [s EXCEPT !.sticky = b, !.at = at] \in Process
           /\ [s EXCEPT !.at = at, !.recovered = b] \in Process
           /\ [s EXCEPT !.at = at, !.started = b] \in Process
           /\ [s EXCEPT !.cancelled = b, !.at = at] \in Process
           /\ \A st \in {"bootstrap_maintenance", "storage_converging", "operational"} :
                 [s EXCEPT !.at = at, !.state = st] \in Process
           /\ s.at \in Places /\ s.sticky \in BOOLEAN /\ s.cancelled \in BOOLEAN
    BY DEF Process, Places

LEMMA DownTypes == Down \in Process /\ [Down EXCEPT !.at = "schema"] \in Process
    BY DEF Down, Process, Gate

-----------------------------------------------------------------------------
(* The schema gate *)

\* A move of p that stays out of the critical section, or leaves it: with no
\* child, it needs no lock.
LEMMA LeavesKeep ==
    ASSUME IInv, NEW p \in Processes, NEW s \in Process,
           proc' = [proc EXCEPT ![p] = s],
           (child' = child /\ child[p] = "none") \/ child' = [child EXCEPT ![p] = "none"],
           failures' = failures \/ failures' = [failures EXCEPT ![p] = 0],
           s.at \notin Critical,
           s.sticky => s.at \in {"retry", "schema", "stopping"},
           failures'[p] = 0 \/ s.sticky = proc[p].sticky,
           lock' = lock \/ lock' = lock \ {p},
           severed' = severed \/ severed' = severed \ {p}
    PROVE  IInv'
    <1>1. /\ proc' \in [Processes -> Process]
          /\ child' \in [Processes -> {"none", "spawned", "running", "succeeded", "failed"}]
          /\ failures' \in [Processes -> Nat]
        BY DEF IInv, ProcTypeOK
    <1>2. /\ proc'[p] = s /\ child'[p] = "none"
          /\ \A q \in Processes \ {p} :
                proc'[q] = proc[q] /\ child'[q] = child[q] /\ failures'[q] = failures[q]
        BY DEF IInv, ProcTypeOK
    <1>3. ProcInv(p)'
        <2>1. Exclusive(p)' /\ ChildGuarded(p)'
            BY <1>2 DEF Exclusive, ChildGuarded
        <2>2. FailedOnce(p)'
            BY <1>2 DEF IInv, ProcInv, FailedOnce, ProcTypeOK
        <2>3. QED  BY <2>1, <2>2 DEF ProcInv
    <1>4. QED  BY <1>1, <1>2, <1>3, OthersKeep

\* A process that is not migrating has no child.
LEMMA ChildlessElsewhere ==
    ASSUME IInv, NEW p \in Processes, ~At(p, "migrate")
    PROVE  child[p] = "none"
    BY DEF IInv, ProcInv, ChildGuarded

\* The same for a plain move, the most frequent one.
LEMMA GoesKeeps ==
    ASSUME IInv, NEW p \in Processes, NEW at \in Places \ Critical,
           Goes(p, at),
           (child' = child /\ child[p] = "none") \/ child' = [child EXCEPT ![p] = "none"],
           failures' = failures \/ failures' = [failures EXCEPT ![p] = 0],
           proc[p].sticky => at \in {"retry", "schema", "stopping"},
           lock' = lock \/ lock' = lock \ {p},
           severed' = severed \/ severed' = severed \ {p}
    PROVE  IInv'
    <1> DEFINE s == [proc[p] EXCEPT !.at = at]
    <1>1. proc[p] \in Process  BY DEF IInv, ProcTypeOK
    <1>2. s \in Process  BY <1>1, ProcessTypes
    <1>3. s.at = at /\ s.sticky = proc[p].sticky  BY <1>1 DEF Process
    <1>4. proc' = [proc EXCEPT ![p] = s]  BY DEF IInv, ProcTypeOK, Goes
    <1> HIDE DEF s
    <1>5. QED  BY <1>2, <1>3, <1>4, LeavesKeep

LEMMA VerifyKeeps ==
    ASSUME IInv, NEW p \in Processes, Verify(p)
    PROVE  IInv'
    <1>1. proc[p] \in Process /\ child[p] = "none"
        BY ChildlessElsewhere DEF IInv, ProcTypeOK, Verify, At
    <1>2. CASE /\ proc' = [proc EXCEPT ![p].at = "neo4j", ![p].sticky = FALSE]
               /\ failures' = [failures EXCEPT ![p] = 0]
        <2> DEFINE s == [proc[p] EXCEPT !.at = "neo4j", !.sticky = FALSE]
        <2>1. s \in Process  BY <1>1, ProcessTypes DEF Places, Passed, Dependencies
        <2>2. s.at = "neo4j" /\ s.sticky = FALSE  BY <1>1 DEF Process
        <2>3. proc' = [proc EXCEPT ![p] = s]  BY <1>2 DEF IInv, ProcTypeOK
        <2>4. failures'[p] = 0  BY <1>2 DEF IInv, ProcTypeOK
        <2> HIDE DEF s
        <2>5. QED  BY <1>1, <1>2, <2>1, <2>2, <2>3, <2>4, LeavesKeep DEF Verify, Critical
    <1>3. CASE Raises(p) /\ UNCHANGED failures
        BY <1>1, <1>3, GoesKeeps DEF Verify, Raises, Places, Critical
    <1>4. QED  BY <1>2, <1>3 DEF Verify

\* Who takes the lock finds it free, so nobody else is in the critical section.
LEMMA TryLockKeeps ==
    ASSUME IInv, NEW p \in Processes, TryLock(p)
    PROVE  IInv'
    <1>1. proc[p] \in Process /\ child[p] = "none" /\ ~proc[p].sticky /\ failures[p] = 0
        BY ChildlessElsewhere
        DEF IInv, ProcTypeOK, ProcInv, FailedOnce, TryLock, At, VerifiesOnly
    <1> DEFINE s == [proc[p] EXCEPT !.at = "classify"]
    <1>2. s \in Process  BY <1>1, ProcessTypes DEF Places, Gate
    <1>3. s.at = "classify" /\ s.sticky = FALSE  BY <1>1 DEF Process
    <1>4. proc' = [proc EXCEPT ![p] = s]  BY DEF IInv, ProcTypeOK, TryLock, Goes
    <1> HIDE DEF s
    <1>5. ProcTypeOK'  BY <1>2, <1>4 DEF IInv, ProcTypeOK, TryLock
    <1>6. proc'[p] = s /\ \A q \in Processes \ {p} : proc'[q] = proc[q]
        BY <1>4 DEF IInv, ProcTypeOK
    <1>7. ProcInv(p)'
        BY <1>1, <1>3, <1>6 DEF TryLock, ProcInv, Exclusive, ChildGuarded, FailedOnce
    <1>8. QED  BY <1>5, <1>6, <1>7, OthersKeep DEF TryLock, ProcTypeOK

LEMMA LockWaitKeeps ==
    ASSUME IInv, NEW p \in Processes, LockIsTaken(p) \/ LockTimesOut(p)
    PROVE  IInv'
    <1>1. child[p] = "none" /\ ~proc[p].sticky
        BY ChildlessElsewhere
        DEF IInv, ProcTypeOK, ProcInv, FailedOnce, LockIsTaken, LockTimesOut, At, VerifiesOnly
    <1>2. CASE LockIsTaken(p)
        BY <1>1, <1>2, GoesKeeps DEF LockIsTaken, Places, Gate, Critical
    <1>3. CASE LockTimesOut(p)
        BY <1>1, <1>3, GoesKeeps DEF LockTimesOut, Raises, Places, Critical
    <1>4. QED  BY <1>2, <1>3

LEMMA ClassifyKeeps ==
    ASSUME IInv, NEW p \in Processes, Classify(p)
    PROVE  IInv'
    <1>1. /\ proc[p] \in Process /\ child[p] = "none" /\ lock = {p}
          /\ ~proc[p].sticky /\ failures[p] = 0
        BY ChildlessElsewhere
        DEF IInv, ProcTypeOK, ProcInv, Exclusive, FailedOnce, Classify, At, Critical
    <1> severed' = severed  BY DEF Classify
    <1>2. CASE /\ Goes(p, "migrate") /\ child' = [child EXCEPT ![p] = "spawned"]
               /\ UNCHANGED <<lock, failures>>
        <2> DEFINE s == [proc[p] EXCEPT !.at = "migrate"]
        <2>1. s \in Process  BY <1>1, ProcessTypes DEF Places, Gate
        <2>2. s.at = "migrate" /\ s.sticky = FALSE  BY <1>1 DEF Process
        <2>3. proc' = [proc EXCEPT ![p] = s]  BY <1>2 DEF IInv, ProcTypeOK, Goes
        <2> HIDE DEF s
        <2>4. ProcTypeOK'  BY <1>2, <2>1, <2>3 DEF IInv, ProcTypeOK
        <2>5. /\ proc'[p] = s
              /\ \A q \in Processes \ {p} : proc'[q] = proc[q] /\ child'[q] = child[q]
            BY <1>2, <2>3 DEF IInv, ProcTypeOK
        <2>6. ProcInv(p)'
            BY <1>1, <1>2, <2>2, <2>5
            DEF ProcInv, Exclusive, ChildGuarded, FailedOnce, At
        <2>7. QED  BY <1>2, <2>4, <2>5, <2>6, OthersKeep DEF ProcTypeOK
    <1>3. CASE Goes(p, "neo4j") /\ lock' = lock \ {p} /\ failures' = [failures EXCEPT ![p] = 0]
               /\ UNCHANGED child
        BY <1>1, <1>3, GoesKeeps DEF Places, Passed, Dependencies, Critical
    <1>4. CASE Raises(p) /\ lock' = lock \ {p} /\ UNCHANGED <<child, failures>>
        BY <1>1, <1>4, GoesKeeps DEF Raises, Places, Critical
    <1>5. QED  BY <1>2, <1>3, <1>4 DEF Classify

-----------------------------------------------------------------------------
(* The migration *)

LEMMA ChildKeeps ==
    ASSUME IInv, NEW p \in Processes, ChildStarts(p) \/ ChildEnds(p) \/ ChildFails(p)
    PROVE  IInv'
    <1>1. /\ \E c \in {"running", "succeeded", "failed"} : child' = [child EXCEPT ![p] = c]
          /\ UNCHANGED <<lock, proc, failures, severed>> /\ child[p] # "none"
        BY DEF ChildStarts, ChildEnds, ChildFails
    <1>2. ProcTypeOK'  BY <1>1 DEF IInv, ProcTypeOK
    <1>3. ProcInv(p)'
        BY <1>1 DEF IInv, ProcInv, Exclusive, ChildGuarded, FailedOnce, At
    <1>4. \A q \in Processes \ {p} : child'[q] = child[q]
        BY <1>1 DEF IInv, ProcTypeOK
    <1>5. QED  BY <1>1, <1>2, <1>3, <1>4, OthersKeep DEF ProcTypeOK

\* The lock is lost to the process, and only to it.
LEMMA LockConnectionClosesKeeps ==
    ASSUME IInv, NEW p \in Processes, LockConnectionCloses(p)
    PROVE  IInv'
    <1>1. UNCHANGED <<proc, child, failures>> /\ lock' = lock \ {p} /\ severed' = severed \cup {p}
        BY DEF LockConnectionCloses
    <1>2. ProcTypeOK'  BY <1>1 DEF IInv, ProcTypeOK
    <1>3. ProcInv(p)'
        BY <1>1 DEF IInv, ProcInv, Exclusive, ChildGuarded, FailedOnce, LockConnectionCloses, At
    <1>4. QED  BY <1>1, <1>2, <1>3, OthersKeep DEF ProcTypeOK

\* The first failure is also the last: only a process that has seen none migrates.
LEMMA MigrationFailsKeeps ==
    ASSUME IInv, NEW p \in Processes, MigrationFails(p)
    PROVE  IInv'
    <1>1. proc[p] \in Process /\ ~proc[p].sticky /\ failures[p] = 0
        BY DEF IInv, ProcTypeOK, ProcInv, FailedOnce, MigrationFails, At
    <1> DEFINE s == [proc[p] EXCEPT !.sticky = TRUE, !.at = Then(p, "retry")]
    <1>2. Then(p, "retry") \in {"retry", "stopping"}  BY DEF Then
    <1>3. s \in Process  BY <1>1, <1>2, ProcessTypes DEF Places
    <1>4. s.at \in {"retry", "stopping"} /\ s.sticky = TRUE  BY <1>1, <1>2 DEF Process
    <1>5. proc' = [proc EXCEPT ![p] = s]  BY DEF IInv, ProcTypeOK, MigrationFails
    <1> HIDE DEF s
    <1>6. failures' = [failures EXCEPT ![p] = 1] /\ child' = [child EXCEPT ![p] = "none"]
        BY <1>1 DEF MigrationFails, Reaps
    <1>7. ProcTypeOK'  BY <1>3, <1>5, <1>6 DEF IInv, ProcTypeOK
    <1>8. /\ proc'[p] = s /\ child'[p] = "none" /\ failures'[p] = 1
          /\ \A q \in Processes \ {p} :
                proc'[q] = proc[q] /\ child'[q] = child[q] /\ failures'[q] = failures[q]
        BY <1>5, <1>6 DEF IInv, ProcTypeOK
    <1>9. ProcInv(p)'
        BY <1>4, <1>8 DEF ProcInv, Exclusive, ChildGuarded, FailedOnce, Critical
    <1>10. lock' = lock \ {p} /\ severed' = severed \ {p}  BY DEF MigrationFails, Reaps
    <1>11. QED  BY <1>1, <1>7, <1>8, <1>9, <1>10, OthersKeep DEF ProcTypeOK

LEMMA MigrationSucceedsKeeps ==
    ASSUME IInv, NEW p \in Processes, MigrationSucceeds(p)
    PROVE  IInv'
    <1>1. ~proc[p].sticky
        BY DEF IInv, ProcInv, FailedOnce, MigrationSucceeds, At
    <1>2. PICK at \in {"neo4j", "retry", "stopping"} : Goes(p, at)
        BY DEF MigrationSucceeds, Then
    <1>3. at \in Places \ Critical  BY DEF Places, Passed, Dependencies, Critical
    <1>4. QED  BY <1>1, <1>2, <1>3, GoesKeeps DEF MigrationSucceeds, Reaps

-----------------------------------------------------------------------------
(* The rest of an attempt, and the life of a process *)

LEMMA AttemptGoesOnKeeps ==
    ASSUME IInv, NEW p \in Processes,
           CheckNeo4j(p) \/ DependencyFails(p) \/ TryAgain(p)
    PROVE  IInv'
    <1>1. CASE CheckNeo4j(p)
        <2>1. child[p] = "none" /\ ~proc[p].sticky
            BY <1>1, ChildlessElsewhere DEF CheckNeo4j, At, IInv, ProcInv, FailedOnce
        <2>2. PICK at \in {"recovery", "s3"} : Goes(p, at)  BY <1>1 DEF CheckNeo4j
        <2>3. QED
            BY <1>1, <2>1, <2>2, GoesKeeps DEF CheckNeo4j, Places, Passed, Dependencies, Critical
    <1>2. CASE DependencyFails(p)
        <2>1. child[p] = "none"
            BY <1>2, ChildlessElsewhere DEF DependencyFails, At, Dependencies
        <2>2. QED  BY <1>2, <2>1, GoesKeeps DEF DependencyFails, Raises, Places, Critical
    <1>3. CASE TryAgain(p)
        <2>1. child[p] = "none"  BY <1>3, ChildlessElsewhere DEF TryAgain, At
        <2>2. QED  BY <1>3, <2>1, GoesKeeps DEF TryAgain, Places, Gate, Critical
    <1>4. QED  BY <1>1, <1>2, <1>3

LEMMA AttemptEndsKeeps ==
    ASSUME IInv, NEW p \in Processes,
           Recover(p) \/ StartWorker(p) \/ EnterConvergence(p) \/ EndConvergence(p)
    PROVE  IInv'
    <1>1. proc[p] \in Process /\ child[p] = "none" /\ proc[p].sticky = FALSE
        BY ChildlessElsewhere
        DEF IInv, ProcTypeOK, Process, ProcInv, FailedOnce, At,
            Recover, StartWorker, EnterConvergence, EndConvergence
    <1>2. PICK s \in Process :
             /\ proc' = [proc EXCEPT ![p] = s]
             /\ s.at \in {"worker", "s3", "converge", "done"} /\ s.sticky = FALSE
        <2>1. CASE Recover(p)
            <3> DEFINE s == [proc[p] EXCEPT !.at = "worker", !.recovered = TRUE]
            <3>1. s \in Process  BY <1>1, ProcessTypes DEF Places, Passed, Dependencies
            <3>2. s.at = "worker" /\ s.sticky = FALSE  BY <1>1 DEF Process
            <3>3. proc' = [proc EXCEPT ![p] = s]  BY <2>1 DEF IInv, ProcTypeOK, Recover
            <3>4. QED  BY <3>1, <3>2, <3>3
        <2>2. CASE StartWorker(p)
            <3> DEFINE s == [proc[p] EXCEPT !.at = "s3", !.started = TRUE]
            <3>1. s \in Process  BY <1>1, ProcessTypes DEF Places, Passed, Dependencies
            <3>2. s.at = "s3" /\ s.sticky = FALSE  BY <1>1 DEF Process
            <3>3. proc' = [proc EXCEPT ![p] = s]  BY <2>2 DEF IInv, ProcTypeOK, StartWorker
            <3>4. QED  BY <3>1, <3>2, <3>3
        <2>3. ASSUME NEW at \in {"converge", "done"},
                     NEW st \in {"storage_converging", "operational"},
                     proc' = [proc EXCEPT ![p].at = at, ![p].state = st]
              PROVE  \E s \in Process :
                        /\ proc' = [proc EXCEPT ![p] = s]
                        /\ s.at \in {"worker", "s3", "converge", "done"} /\ s.sticky = FALSE
            <3> DEFINE s == [proc[p] EXCEPT !.at = at, !.state = st]
            <3>1. s \in Process  BY <1>1, ProcessTypes DEF Places, Passed
            <3>2. s.at = at /\ s.sticky = FALSE  BY <1>1 DEF Process
            <3>3. proc' = [proc EXCEPT ![p] = s]  BY <2>3 DEF IInv, ProcTypeOK
            <3>4. QED  BY <3>1, <3>2, <3>3
        <2>4. CASE EnterConvergence(p)
            <3>1. CASE p \in UsesS3  BY <2>3, <2>4, <3>1 DEF EnterConvergence
            <3>2. CASE p \notin UsesS3  BY <2>3, <2>4, <3>2 DEF EnterConvergence
            <3>3. QED  BY <3>1, <3>2
        <2>5. CASE EndConvergence(p)  BY <2>3, <2>5 DEF EndConvergence
        <2>6. QED  BY <2>1, <2>2, <2>4, <2>5
    <1>3. UNCHANGED <<lock, child, severed, failures>>
        BY DEF Recover, StartWorker, EnterConvergence, EndConvergence
    <1>4. QED  BY <1>1, <1>2, <1>3, LeavesKeep DEF Critical

\* A shutdown waits for the critical section of a migration, and for no other.
LEMMA StopKeeps ==
    ASSUME IInv, NEW p \in Processes, Stop(p)
    PROVE  IInv'
    <1>1. proc[p] \in Process  BY DEF IInv, ProcTypeOK
    <1> DEFINE at == IF At(p, "migrate") THEN "migrate" ELSE "stopping"
               s == [proc[p] EXCEPT !.cancelled = TRUE, !.at = at]
    <1>2. s \in Process  BY <1>1, ProcessTypes DEF Places, Gate
    <1>3. s.at = at /\ s.sticky = proc[p].sticky  BY <1>1 DEF Process
    <1>4. proc' = [proc EXCEPT ![p] = s]
        BY <1>1 DEF IInv, ProcTypeOK, Stop, At, Process
    <1>5. CASE At(p, "migrate")
        <2>1. at = "migrate" /\ lock' = lock  BY <1>5 DEF Stop
        <2> HIDE DEF s, at
        <2>2. ProcTypeOK'  BY <1>2, <1>4 DEF IInv, ProcTypeOK, Stop
        <2>3. proc'[p] = s /\ \A q \in Processes \ {p} : proc'[q] = proc[q]
            BY <1>4 DEF IInv, ProcTypeOK
        <2>4. ProcInv(p)'
            BY <1>3, <1>5, <2>1, <2>3
            DEF IInv, ProcInv, Stop, Exclusive, ChildGuarded, FailedOnce, At, Critical
        <2>5. QED  BY <2>1, <2>2, <2>3, <2>4, OthersKeep DEF Stop, ProcTypeOK
    <1>6. CASE ~At(p, "migrate")
        <2>1. at = "stopping" /\ lock' = lock \ {p} /\ child[p] = "none"
            BY <1>6, ChildlessElsewhere DEF Stop
        <2> HIDE DEF s, at
        <2>2. QED  BY <1>2, <1>3, <1>4, <2>1, LeavesKeep DEF Stop, Critical
    <1>7. QED  BY <1>5, <1>6

LEMMA ComeAndGoKeeps ==
    ASSUME IInv, NEW p \in Processes, Boot(p) \/ Exit(p) \/ Kill(p)
    PROVE  IInv'
    <1>1. CASE Boot(p)
        <2> DEFINE s == [Down EXCEPT !.at = "schema"]
        <2>1. s \in Process /\ s.at = "schema" /\ s.sticky = FALSE
            BY DownTypes DEF Down
        <2>2. child[p] = "none" /\ ~proc[p].sticky
            BY <1>1, ChildlessElsewhere DEF Boot, At, IInv, ProcInv, FailedOnce
        <2>3. proc[p].sticky = FALSE
            BY <2>2 DEF IInv, ProcTypeOK, Process
        <2>4. proc' = [proc EXCEPT ![p] = s]  BY <1>1 DEF Boot
        <2> HIDE DEF s
        <2>5. QED  BY <1>1, <2>1, <2>2, <2>3, <2>4, LeavesKeep DEF Boot, Critical
    <1>2. Down.at = "down" /\ Down.sticky = FALSE  BY DEF Down
    <1>3. CASE Exit(p)
        <2>1. child[p] = "none" /\ failures'[p] = 0
            BY <1>3, ChildlessElsewhere DEF Exit, At, IInv, ProcTypeOK
        <2>2. QED  BY <1>2, <1>3, <2>1, DownTypes, LeavesKeep DEF Exit, Critical
    <1>4. CASE Kill(p)
        <2>1. failures'[p] = 0  BY <1>4 DEF Kill, IInv, ProcTypeOK
        <2>2. QED  BY <1>2, <1>4, <2>1, DownTypes, LeavesKeep DEF Kill, Reaps, Critical
    <1>5. QED  BY <1>1, <1>3, <1>4

-----------------------------------------------------------------------------
(* The invariant *)

LEMMA InitInvariant == Init => IInv
    <1> SUFFICES ASSUME Init PROVE IInv
        OBVIOUS
    <1>1. ProcTypeOK  BY DownTypes DEF Init, ProcTypeOK
    <1>2. ASSUME NEW p \in Processes PROVE ProcInv(p)
        BY DEF Init, Down, ProcInv, Exclusive, ChildGuarded, FailedOnce, Critical
    <1>3. QED  BY <1>1, <1>2 DEF IInv

LEMMA NextInvariant == IInv /\ [Next]_vars => IInv'
    <1> SUFFICES ASSUME IInv, [Next]_vars PROVE IInv'
        OBVIOUS
    <1>1. ASSUME UNCHANGED <<lock, child, severed, proc, failures>> PROVE IInv'
        BY <1>1 DEF IInv, ProcTypeOK, ProcInv, Exclusive, ChildGuarded, FailedOnce, At
    <1>2. CASE UNCHANGED vars  BY <1>1, <1>2 DEF vars
    <1>3. CASE Drift  BY <1>1, <1>3 DEF Drift
    <1>4. ASSUME NEW p \in Processes,
                 Boot(p) \/ Attempt(p) \/ Repair(p)
                    \/ ChildFails(p) \/ LockConnectionCloses(p) \/ DependencyFails(p) \/ Stop(p) \/ Kill(p)
          PROVE  IInv'
        <2>1. CASE Boot(p) \/ Kill(p)  BY <2>1, ComeAndGoKeeps
        <2>2. CASE Repair(p)  BY <1>1, <2>2 DEF Repair
        <2>3. CASE ChildFails(p)  BY <2>3, ChildKeeps
        <2>4. CASE DependencyFails(p)  BY <2>4, AttemptGoesOnKeeps
        <2>5. CASE Stop(p)  BY <2>5, StopKeeps
        <2>6. CASE Attempt(p)
            BY <2>6, VerifyKeeps, TryLockKeeps, LockWaitKeeps, ClassifyKeeps, ChildKeeps,
               MigrationFailsKeeps, MigrationSucceedsKeeps, AttemptGoesOnKeeps,
               AttemptEndsKeeps, ComeAndGoKeeps
            DEF Attempt, Migrate
        <2>7. CASE LockConnectionCloses(p)  BY <2>7, LockConnectionClosesKeeps
        <2>8. QED  BY <1>4, <2>1, <2>2, <2>3, <2>4, <2>5, <2>6, <2>7
    <1>5. QED  BY <1>2, <1>3, <1>4 DEF Next

\* What holds the lock bounds what runs.
LEMMA InvariantSuffices == IInv => OneMigrator
    <1> SUFFICES ASSUME IInv PROVE OneMigrator
        OBVIOUS
    <1> DEFINE R == {p \in Processes : child[p] # "none"} \ severed
    <1>1. ASSUME NEW p \in Processes, child[p] # "none"
          PROVE  At(p, "migrate") /\ (lock = {p} \/ p \in severed)
        BY <1>1 DEF IInv, ProcInv, Exclusive, ChildGuarded, At, Critical
    <1>2. Cardinality(R) <= 1
        <2>1. CASE R = {}  BY <2>1, FS_EmptySet
        <2>2. CASE R # {}
            <3>1. PICK p \in R : TRUE  BY <2>2
            <3>2. R = {p}  BY <1>1, <3>1
            <3>3. Cardinality({p}) = 1  BY FS_Singleton
            <3>4. QED  BY <3>2, <3>3
        <2>3. QED  BY <2>1, <2>2
    <1>3. \A p \in Processes : failures[p] <= 1
        BY DEF IInv, ProcInv, FailedOnce
    <1>4. QED  BY <1>1, <1>2, <1>3 DEF OneMigrator

\* Whatever is killed, stopped, lost or timed out, and however many processes
\* of however many versions start: an Alembic child runs in the critical section of
\* its process and under the lock, or PostgreSQL has taken that lock by closing its
\* connection; so without such a loss one runs at a time.  And at most one fails in
\* the life of a process (migration_bootstrap.py).
THEOREM OneMigratorAlways == Spec => []OneMigrator
    <1>1. Spec => []IInv
        BY InitInvariant, NextInvariant, PTL DEF Spec
    <1>2. QED  BY <1>1, InvariantSuffices, PTL
=============================================================================
