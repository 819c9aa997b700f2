-------------------------- MODULE QueueClaimProofs ---------------------------
(***************************************************************************)
(* Proofs about QueueClaim, for any number of claimers, runs and datasets. *)
(* The argument: a claimer past its checks holds locks that every rival    *)
(* would need (ClaimInv), and conflicting locks are never held together    *)
(* (LocksExclude), so what the checks found is still so at the commit.     *)
(***************************************************************************)
EXTENDS QueueClaim, FiniteSetTheorems, TLAPS

LocksExclude ==
    \A c, d \in Claimers : c # d =>
        \A l \in held[c], m \in held[d] : ~Conflict(l, m)

HasBarrier == {"dataset", "revalidate", "global", "commit"}
HasDataset == {"revalidate", "global", "commit"}

\* What a claimer's transaction has established so far.
TargetLocked(c) ==
    claimer[c].pc \in InTransaction =>
        /\ claimer[c].target \in Runs
        /\ RowLock(claimer[c].target) \in held[c]
        /\ Eligible(claimer[c].target)
ScopeLocked(c) ==
    /\ claimer[c].pc \in HasBarrier => BarrierLock(claimer[c].target) \in held[c]
    /\ claimer[c].pc \in HasDataset /\ DatasetOf[claimer[c].target] # Global
          => DatasetLock(claimer[c].target) \in held[c]
ScopeChecked(c) ==
    /\ claimer[c].pc \in {"global", "commit"} => ~DatasetConflict(claimer[c].target)
    /\ claimer[c].pc = "commit" => ~OtherGlobalConflict(claimer[c].target)
ClaimInv(c) == TargetLocked(c) /\ ScopeLocked(c) /\ ScopeChecked(c)

IInv == TypeOK /\ LocksExclude /\ \A c \in Claimers : ClaimInv(c)

-----------------------------------------------------------------------------
(* Types *)

LEMMA AttemptTypes ==
    ASSUME NEW a \in Attempt
    PROVE  /\ a.pc \in ClaimPhases /\ a.todo \subseteq Runs /\ a.late \subseteq Runs
           /\ a.target \in Runs \cup {NoRun} /\ a.policy \in Policies
           /\ a.owned \subseteq Runs
           /\ \A pc \in ClaimPhases : [a EXCEPT !.pc = pc] \in Attempt
           /\ \A S \in SUBSET Runs : [a EXCEPT !.late = S] \in Attempt
           /\ \A S \in SUBSET Runs : [a EXCEPT !.pc = "scanned", !.todo = S,
                                        !.target = NoRun, !.late = {}] \in Attempt
           /\ \A S \in SUBSET Runs, r \in Runs, pc \in ClaimPhases :
                [a EXCEPT !.todo = S, !.target = r, !.pc = pc] \in Attempt
    BY DEF Attempt, ClaimPhases

LEMMA NoAttemptType == NoAttempt \in Attempt
    BY DEF NoAttempt, Resting, Attempt, ClaimPhases, Policies

LEMMA GoneType == Resting("gone") \in Attempt
    BY DEF Resting, Attempt, ClaimPhases, Policies

LEMMA LockTypes ==
    ASSUME NEW r \in Runs
    PROVE  RowLock(r) \in Locks /\ BarrierLock(r) \in Locks /\ DatasetLock(r) \in Locks
    BY DEF RowLock, BarrierLock, DatasetLock, Locks

\* The four shapes a transaction's step may have.
LEMMA ReplaceAttempt ==
    ASSUME TypeOK, NEW c \in Claimers, NEW a \in Attempt, NEW L \in SUBSET Locks,
           claimer' = [claimer EXCEPT ![c] = a],
           held' = [held EXCEPT ![c] = L] \/ (held' = held /\ L = held[c]),
           a.pc \notin InTransaction => a.target = NoRun /\ L = {}
    PROVE  /\ claimer' \in [Claimers -> Attempt]
           /\ held' \in [Claimers -> SUBSET Locks]
           /\ \A d \in Claimers : claimer'[d].pc \notin InTransaction =>
                 claimer'[d].target = NoRun /\ held'[d] = {}
           /\ claimer'[c] = a /\ held'[c] = L
           /\ \A d \in Claimers \ {c} : claimer'[d] = claimer[d] /\ held'[d] = held[d]
    BY DEF TypeOK

LEMMA TableTypes ==
    ASSUME TypeOK
    PROVE  /\ \A r \in Runs : TakeRun(r) => row' \in [Runs -> Row]
           /\ \A r \in Runs, s \in {"queued", "cancelling"}, b \in BOOLEAN :
                 Moves(r, s, b) => row' \in [Runs -> Row]
           /\ \A r \in Runs : Submit(r) \/ Closes(r) => row' \in [Runs -> Row]
           /\ \A r \in Runs : Begins(r) =>
                 /\ row' \in [Runs -> Row] /\ order' \in [Runs -> Int]
                 /\ mutated' \subseteq Runs
    <1>1. ASSUME NEW r \in Runs, TakeRun(r) PROVE row' \in [Runs -> Row]
        <2>1. row[r].attempt + 1 \in Nat  BY DEF TypeOK, Row
        <2>2. [status |-> "running", due |-> TRUE, attempt |-> row[r].attempt + 1] \in Row
            BY <2>1 DEF Row
        <2>3. QED  BY <1>1, <2>2 DEF TakeRun, TypeOK
    <1>2. ASSUME NEW r \in Runs, NEW s \in {"queued", "cancelling"},
                 NEW b \in BOOLEAN, Moves(r, s, b)
          PROVE  row' \in [Runs -> Row]
        <2>1. [status |-> s, due |-> b, attempt |-> row[r].attempt] \in Row
            BY DEF TypeOK, Row
        <2>2. QED  BY <1>2, <2>1 DEF Moves, TypeOK
    <1>3. Finished \in Row /\ \A s \in {"inserting", "queued"} :
                                 [Finished EXCEPT !.status = s] \in Row
        BY DEF Finished, Row
    <1>4. ASSUME NEW r \in Runs, Submit(r) \/ Closes(r) PROVE row' \in [Runs -> Row]
        BY <1>3, <1>4 DEF Submit, Closes, TypeOK
    <1>5. ASSUME NEW r \in Runs, Begins(r)
          PROVE  /\ row' \in [Runs -> Row] /\ order' \in [Runs -> Int]
                 /\ mutated' \subseteq Runs
        <2>1. Cardinality(Runs) \in Int  BY RunsAssumption, FS_CardinalityType
        <2>2. QED  BY <1>3, <1>5, <2>1 DEF Begins, TypeOK
    <1>6. QED  BY <1>1, <1>2, <1>4, <1>5

LEMMA AbandonTypes ==
    ASSUME TypeOK, NEW c \in Claimers, NEW S \in SUBSET Runs, NextCandidate(c, S)
    PROVE  /\ claimer' \in [Claimers -> Attempt]
           /\ held' \in [Claimers -> SUBSET Locks]
           /\ \A d \in Claimers : claimer'[d].pc \notin InTransaction =>
                 claimer'[d].target = NoRun /\ held'[d] = {}
           /\ claimer'[c].pc \notin InTransaction
           /\ held'[c] = {}
           /\ \A d \in Claimers \ {c} : claimer'[d] = claimer[d] /\ held'[d] = held[d]
    <1> DEFINE a == IF S = {} THEN NoAttempt
                    ELSE [claimer[c] EXCEPT !.pc = "scanned", !.todo = S,
                                            !.target = NoRun, !.late = {}]
    <1>1. claimer[c] \in Attempt  BY DEF TypeOK
    <1>2. a \in Attempt /\ a.target = NoRun /\ a.pc \notin InTransaction
        <2>1. CASE S = {}
            BY <2>1, NoAttemptType DEF NoAttempt, Resting, InTransaction
        <2>2. CASE S # {}
            <3>1. [claimer[c] EXCEPT !.pc = "scanned", !.todo = S,
                                     !.target = NoRun, !.late = {}] \in Attempt
                BY <1>1, AttemptTypes
            <3>2. QED  BY <1>1, <2>2, <3>1 DEF Attempt, InTransaction
        <2>3. QED  BY <2>1, <2>2
    <1>3. claimer' = [claimer EXCEPT ![c] = a] /\ held' = [held EXCEPT ![c] = {}]
        BY DEF NextCandidate
    <1>4. {} \in SUBSET Locks  OBVIOUS
    <1> HIDE DEF a
    <1>5. QED  BY <1>2, <1>3, <1>4, ReplaceAttempt

LEMMA AdvanceTypes ==
    ASSUME TypeOK, NEW c \in Claimers, NEW pc \in InTransaction, Advance(c, pc),
           NEW L \in SUBSET Locks,
           held' = [held EXCEPT ![c] = L] \/ (held' = held /\ L = held[c])
    PROVE  /\ claimer' \in [Claimers -> Attempt]
           /\ held' \in [Claimers -> SUBSET Locks]
           /\ \A d \in Claimers : claimer'[d].pc \notin InTransaction =>
                 claimer'[d].target = NoRun /\ held'[d] = {}
           /\ claimer'[c].pc = pc /\ claimer'[c].target = claimer[c].target
           /\ claimer'[c].late = claimer[c].late
           /\ claimer'[c].policy = claimer[c].policy
           /\ held'[c] = L
           /\ \A d \in Claimers \ {c} : claimer'[d] = claimer[d] /\ held'[d] = held[d]
    <1> DEFINE a == [claimer[c] EXCEPT !.pc = pc]
    <1>1. claimer[c] \in Attempt  BY DEF TypeOK
    <1>2. a \in Attempt  BY <1>1, AttemptTypes DEF ClaimPhases
    <1>3. a.pc = pc /\ a.target = claimer[c].target /\ a.late = claimer[c].late
          /\ a.policy = claimer[c].policy
        BY <1>1 DEF Attempt
    <1>4. claimer' = [claimer EXCEPT ![c] = a]  BY DEF Advance
    <1> HIDE DEF a
    <1>5. QED  BY <1>2, <1>3, <1>4, ReplaceAttempt

LEMMA InitTypes == Init => TypeOK
    <1> SUFFICES ASSUME Init PROVE TypeOK
        OBVIOUS
    <1>1. row \in [Runs -> Row]
        BY DEF Init, TableInit, Row, Finished
    <1>2. order \in [Runs -> Int] /\ mutated \subseteq Runs
        BY OrderAssumption DEF Init, TableInit
    <1>3. claimer \in [Claimers -> Attempt]
        BY NoAttemptType DEF Init
    <1>4. policy \in [Claimers -> Policies]
        BY PolicyAssumption DEF Init, Policies
    <1>5. \A c \in Claimers : claimer[c].target = NoRun /\ held[c] = {}
        BY DEF Init, NoAttempt, Resting
    <1>6. QED  BY <1>1, <1>2, <1>3, <1>4, <1>5 DEF Init, TypeOK

-----------------------------------------------------------------------------
(* Locks *)

LEMMA ConflictSymmetric ==
    ASSUME NEW l, NEW m PROVE Conflict(l, m) => Conflict(m, l)
    BY DEF Conflict

LEMMA SameTargetConflicts ==
    ASSUME NEW r PROVE Conflict(RowLock(r), RowLock(r))
    BY DEF Conflict, RowLock

LEMMA ScopesConflict ==
    ASSUME NEW r, NEW s
    PROVE  /\ DatasetOf[r] = DatasetOf[s] => Conflict(DatasetLock(r), DatasetLock(s))
           /\ DatasetOf[r] = Global => Conflict(BarrierLock(r), BarrierLock(s))
           /\ DatasetOf[s] = Global => Conflict(BarrierLock(r), BarrierLock(s))
    BY DEF Conflict, DatasetLock, BarrierLock

\* A claimer may drop locks and take one that is free.
LEMMA LocksStayApart ==
    ASSUME LocksExclude, held \in [Claimers -> SUBSET Locks],
           NEW c \in Claimers, NEW l, NEW L, held' = [held EXCEPT ![c] = L],
           L \subseteq held[c] \/ (L \subseteq held[c] \cup {l} /\ Free(c, l))
    PROVE  LocksExclude'
    <1> SUFFICES ASSUME NEW a \in Claimers, NEW b \in Claimers, a # b,
                        NEW x \in held'[a], NEW y \in held'[b]
                 PROVE  ~Conflict(x, y)
        BY DEF LocksExclude
    <1>1. CASE a = c
        <2>1. y \in held[b] /\ x \in L  BY <1>1
        <2>2. CASE x \in held[c]  BY <1>1, <2>1, <2>2 DEF LocksExclude
        <2>3. CASE x = l /\ Free(c, l)  BY <1>1, <2>1, <2>3 DEF Free
        <2>4. QED  BY <2>1, <2>2, <2>3
    <1>2. CASE b = c
        <2>1. x \in held[a] /\ y \in L  BY <1>2
        <2>2. CASE y \in held[c]  BY <1>2, <2>1, <2>2 DEF LocksExclude
        <2>3. CASE y = l /\ Free(c, l)
            BY <1>2, <2>1, <2>3, ConflictSymmetric DEF Free
        <2>4. QED  BY <2>1, <2>2, <2>3
    <1>3. CASE a # c /\ b # c
        BY <1>3 DEF LocksExclude
    <1>4. QED  BY <1>1, <1>2, <1>3

-----------------------------------------------------------------------------
(* What a claimer has established *)

LEMMA OutsideTransaction ==
    ASSUME NEW c, claimer'[c].pc \notin InTransaction PROVE ClaimInv(c)'
    BY DEF ClaimInv, TargetLocked, ScopeLocked, ScopeChecked, InTransaction,
           HasBarrier, HasDataset

\* It survives every step that occupies nothing and leaves the target alone.
LEMMA Undisturbed ==
    ASSUME NEW c, ClaimInv(c),
           claimer'[c].pc = claimer[c].pc, claimer'[c].target = claimer[c].target,
           held'[c] = held[c],
           \A s \in Runs : Occupied(s)' => Occupied(s),
           claimer[c].pc \in InTransaction /\ Eligible(claimer[c].target)
              => row'[claimer[c].target] = row[claimer[c].target]
    PROVE  ClaimInv(c)'
    <1>1. TargetLocked(c)'
        BY DEF ClaimInv, TargetLocked, RowLock, Eligible
    <1>2. ScopeLocked(c)'
        BY DEF ClaimInv, ScopeLocked, BarrierLock, DatasetLock
    <1>3. ScopeChecked(c)'
        BY DEF ClaimInv, ScopeChecked, DatasetConflict, OtherGlobalConflict
    <1>4. QED  BY <1>1, <1>2, <1>3 DEF ClaimInv

LEMMA OthersUndisturbed ==
    ASSUME IInv, NEW c \in Claimers, row' = row,
           \A d \in Claimers \ {c} : claimer'[d] = claimer[d] /\ held'[d] = held[d],
           ClaimInv(c)'
    PROVE  \A d \in Claimers : ClaimInv(d)'
    <1> SUFFICES ASSUME NEW d \in Claimers \ {c} PROVE ClaimInv(d)'
        OBVIOUS
    <1>1. \A s \in Runs : Occupied(s)' => Occupied(s)  BY DEF Occupied
    <1>2. QED  BY <1>1, Undisturbed DEF IInv

\* Rolling back keeps the invariant.
LEMMA AbandonKeeps ==
    ASSUME IInv, NEW c \in Claimers, NEW S \in SUBSET Runs, NextCandidate(c, S),
           UNCHANGED <<row, order, mutated, policy, owned>>
    PROVE  IInv'
    <1>1. /\ claimer' \in [Claimers -> Attempt]
          /\ held' \in [Claimers -> SUBSET Locks]
          /\ \A d \in Claimers : claimer'[d].pc \notin InTransaction =>
                claimer'[d].target = NoRun /\ held'[d] = {}
          /\ claimer'[c].pc \notin InTransaction
          /\ \A d \in Claimers \ {c} : claimer'[d] = claimer[d] /\ held'[d] = held[d]
        BY AbandonTypes DEF IInv
    <1>2. TypeOK'  BY <1>1 DEF IInv, TypeOK
    <1>3. LocksExclude'
        <2>1. held' = [held EXCEPT ![c] = {}]  BY DEF NextCandidate
        <2>2. QED  BY <2>1, LocksStayApart DEF IInv, TypeOK
    <1>4. ClaimInv(c)'  BY <1>1, OutsideTransaction
    <1>5. \A d \in Claimers : ClaimInv(d)'  BY <1>1, <1>4, OthersUndisturbed
    <1>6. QED  BY <1>2, <1>3, <1>5 DEF IInv

\* So does moving on after a successful statement, if it establishes what
\* the next one relies on.
LEMMA AdvanceKeeps ==
    ASSUME IInv, NEW c \in Claimers, NEW pc \in InTransaction, Advance(c, pc),
           claimer[c].pc \in InTransaction,
           NEW l \in Locks, NEW L \in SUBSET Locks,
           held' = [held EXCEPT ![c] = L] \/ (held' = held /\ L = held[c]),
           L = held[c] \/ (L = held[c] \cup {l} /\ Free(c, l)),
           UNCHANGED <<row, order, mutated, policy, owned>>,
           pc \in HasBarrier => BarrierLock(claimer[c].target) \in L,
           pc \in HasDataset /\ DatasetOf[claimer[c].target] # Global
              => DatasetLock(claimer[c].target) \in L,
           pc \in {"global", "commit"} => ~DatasetConflict(claimer[c].target),
           pc = "commit" => ~OtherGlobalConflict(claimer[c].target)
    PROVE  IInv'
    <1>1. /\ claimer' \in [Claimers -> Attempt]
          /\ held' \in [Claimers -> SUBSET Locks]
          /\ \A d \in Claimers : claimer'[d].pc \notin InTransaction =>
                claimer'[d].target = NoRun /\ held'[d] = {}
          /\ claimer'[c].pc = pc /\ claimer'[c].target = claimer[c].target
          /\ held'[c] = L
          /\ \A d \in Claimers \ {c} : claimer'[d] = claimer[d] /\ held'[d] = held[d]
        BY AdvanceTypes DEF IInv
    <1>2. TypeOK'  BY <1>1 DEF IInv, TypeOK
    <1>3. held' = [held EXCEPT ![c] = L]  BY DEF IInv, TypeOK
    <1>4. LocksExclude'  BY <1>3, LocksStayApart DEF IInv, TypeOK
    <1>5. ClaimInv(c)'
        <2>1. TargetLocked(c)'
            BY <1>1 DEF IInv, ClaimInv, TargetLocked, RowLock, Eligible
        <2>2. ScopeLocked(c)'
            BY <1>1 DEF ScopeLocked, BarrierLock, DatasetLock
        <2>3. ScopeChecked(c)'
            BY <1>1 DEF ScopeChecked, DatasetConflict, OtherGlobalConflict, Occupied
        <2>4. QED  BY <2>1, <2>2, <2>3 DEF ClaimInv
    <1>6. \A d \in Claimers : ClaimInv(d)'  BY <1>1, <1>5, OthersUndisturbed
    <1>7. QED  BY <1>2, <1>4, <1>6 DEF IInv
-----------------------------------------------------------------------------
(* The statements of a claim *)

LEMMA AttemptOf ==
    ASSUME IInv, NEW c \in Claimers
    PROVE  /\ claimer[c] \in Attempt /\ claimer[c].todo \in SUBSET Runs
           /\ held[c] \in SUBSET Locks
           /\ claimer[c].pc \in InTransaction => claimer[c].target \in Runs
    BY AttemptTypes DEF IInv, TypeOK, ClaimInv, TargetLocked

LEMMA ScanKeeps ==
    ASSUME IInv, NEW c \in Claimers, Scan(c) PROVE IInv'
    <1> DEFINE a == [pc |-> "scanned", todo |-> FirstFew(Representatives), target |-> NoRun,
                     policy |-> policy[c], owned |-> owned[c], late |-> {}]
    <1>1. FirstFew(Representatives) \subseteq Runs
        BY DEF FirstFew, Representatives
    <1>2. a \in Attempt /\ a.pc \notin InTransaction /\ a.target = NoRun
        BY <1>1 DEF IInv, TypeOK, Attempt, ClaimPhases, InTransaction
    <1>3. claimer' = [claimer EXCEPT ![c] = a] /\ held' = held /\ held[c] = {}
        BY DEF Scan, IInv, TypeOK, InTransaction
    <1> HIDE DEF a
    <1>4. {} \in SUBSET Locks  OBVIOUS
    <1>5. /\ claimer' \in [Claimers -> Attempt]
          /\ held' \in [Claimers -> SUBSET Locks]
          /\ \A d \in Claimers : claimer'[d].pc \notin InTransaction =>
                claimer'[d].target = NoRun /\ held'[d] = {}
          /\ claimer'[c] = a
          /\ \A d \in Claimers \ {c} : claimer'[d] = claimer[d] /\ held'[d] = held[d]
        BY <1>2, <1>3, <1>4, ReplaceAttempt DEF IInv
    <1>6. TypeOK'  BY <1>5 DEF IInv, TypeOK, Scan
    <1>7. LocksExclude'  BY <1>3 DEF IInv, LocksExclude
    <1>8. ClaimInv(c)'  BY <1>2, <1>5, OutsideTransaction
    <1>9. \A d \in Claimers : ClaimInv(d)'  BY <1>5, <1>8, OthersUndisturbed DEF Scan
    <1>10. QED  BY <1>6, <1>7, <1>9 DEF IInv

LEMMA LockCandidateKeeps ==
    ASSUME IInv, NEW c \in Claimers, LockCandidate(c) PROVE IInv'
    <1>1. PICK r \in claimer[c].todo :
            LET rest == claimer[c].todo \ {r}
            IN  \/ /\ Eligible(r) /\ Free(c, RowLock(r)) /\ Allowed(c, r)
                   /\ held' = [held EXCEPT ![c] = {RowLock(r)}]
                   /\ claimer' = [claimer EXCEPT ![c] =
                          [claimer[c] EXCEPT !.todo = rest, !.target = r,
                             !.pc = IF DatasetOf[r] = Global THEN "barrier"
                                                             ELSE "precheck"]]
                \/ NextCandidate(c, rest)
        BY DEF LockCandidate
    <1>2. UNCHANGED <<row, order, mutated, policy, owned>>  BY DEF LockCandidate
    <1>3. r \in Runs /\ claimer[c].todo \ {r} \in SUBSET Runs  BY AttemptOf
    <1>4. CASE NextCandidate(c, claimer[c].todo \ {r})
        BY <1>2, <1>3, <1>4, AbandonKeeps
    <1>5. CASE ~NextCandidate(c, claimer[c].todo \ {r})
        <2> DEFINE pc == IF DatasetOf[r] = Global THEN "barrier" ELSE "precheck"
                   a == [claimer[c] EXCEPT !.todo = claimer[c].todo \ {r}, !.target = r,
                                           !.pc = pc]
        <2>1. /\ Eligible(r) /\ Free(c, RowLock(r))
              /\ held' = [held EXCEPT ![c] = {RowLock(r)}]
              /\ claimer' = [claimer EXCEPT ![c] = a]
            BY <1>1, <1>5
        <2>2. pc \in {"barrier", "precheck"}  OBVIOUS
        <2> HIDE DEF pc
        <2>3. a \in Attempt
            <3>1. claimer[c] \in Attempt /\ pc \in ClaimPhases
                BY <2>2, AttemptOf DEF ClaimPhases, InTransaction
            <3>2. QED  BY <1>3, <3>1, AttemptTypes
        <2>4. a.pc = pc /\ a.target = r
            BY AttemptOf DEF Attempt
        <2> HIDE DEF a
        <2>5. {RowLock(r)} \in SUBSET Locks  BY <1>3, LockTypes
        <2>6. a.pc \in InTransaction  BY <2>2, <2>4 DEF InTransaction
        <2>7. /\ claimer' \in [Claimers -> Attempt]
              /\ held' \in [Claimers -> SUBSET Locks]
              /\ \A d \in Claimers : claimer'[d].pc \notin InTransaction =>
                    claimer'[d].target = NoRun /\ held'[d] = {}
              /\ claimer'[c] = a /\ held'[c] = {RowLock(r)}
              /\ \A d \in Claimers \ {c} : claimer'[d] = claimer[d] /\ held'[d] = held[d]
            BY <2>1, <2>3, <2>5, <2>6, ReplaceAttempt DEF IInv
        <2>8. TypeOK'  BY <1>2, <2>7 DEF IInv, TypeOK
        <2>9. LocksExclude'  BY <2>1, LocksStayApart DEF IInv, TypeOK
        <2>10. ClaimInv(c)'
            <3>1. TargetLocked(c)'
                BY <1>2, <1>3, <2>1, <2>4, <2>7 DEF TargetLocked, Eligible, RowLock
            <3>2. ScopeLocked(c)' /\ ScopeChecked(c)'
                BY <2>2, <2>4, <2>7 DEF ScopeLocked, ScopeChecked, HasBarrier, HasDataset
            <3>3. QED  BY <3>1, <3>2 DEF ClaimInv
        <2>11. \A d \in Claimers : ClaimInv(d)'
            BY <1>2, <2>7, <2>10, OthersUndisturbed
        <2>12. QED  BY <2>8, <2>9, <2>11 DEF IInv
    <1>6. QED  BY <1>4, <1>5

LEMMA PrecheckKeeps ==
    ASSUME IInv, NEW c \in Claimers, Precheck(c) PROVE IInv'
    <1>1. CASE Abandon(c)
        BY <1>1, AttemptOf, AbandonKeeps DEF Precheck, Abandon
    <1>2. CASE Advance(c, "barrier") /\ UNCHANGED held
        <2>1. claimer[c].pc \in InTransaction /\ RowLock(claimer[c].target) \in Locks
            BY AttemptOf, LockTypes DEF Precheck, InTransaction
        <2>2. "barrier" \in InTransaction \ HasBarrier /\ "barrier" \notin HasDataset
            BY DEF InTransaction, HasBarrier, HasDataset
        <2>3. QED
            BY <1>2, <2>1, <2>2, AttemptOf, AdvanceKeeps DEF Precheck
    <1>3. QED  BY <1>1, <1>2 DEF Precheck

LEMMA TakeBarrierKeeps ==
    ASSUME IInv, NEW c \in Claimers, TakeBarrier(c) PROVE IInv'
    <1> DEFINE l == BarrierLock(claimer[c].target)
               pc == IF DatasetOf[claimer[c].target] = Global THEN "revalidate" ELSE "dataset"
    <1>1. CASE Abandon(c)
        BY <1>1, AttemptOf, AbandonKeeps DEF TakeBarrier, TryLock, Abandon
    <1>2. CASE Free(c, l) /\ held' = [held EXCEPT ![c] = held[c] \cup {l}] /\ Advance(c, pc)
        <2>1. claimer[c].pc \in InTransaction  BY DEF TakeBarrier, InTransaction
        <2>2. l \in Locks /\ held[c] \cup {l} \in SUBSET Locks
            BY <2>1, AttemptOf, LockTypes
        <2>3. /\ pc \in InTransaction \cap HasBarrier /\ pc \notin {"global", "commit"}
              /\ pc \in HasDataset => DatasetOf[claimer[c].target] = Global
            BY DEF InTransaction, HasBarrier, HasDataset
        <2>4. UNCHANGED <<row, order, mutated, policy, owned>>
            BY DEF TakeBarrier, TryLock
        <2> HIDE DEF pc
        <2>5. QED
            BY <1>2, <2>1, <2>2, <2>3, <2>4, AdvanceKeeps
    <1>3. QED  BY <1>1, <1>2 DEF TakeBarrier, TryLock

LEMMA TakeDatasetKeeps ==
    ASSUME IInv, NEW c \in Claimers, TakeDataset(c) PROVE IInv'
    <1> DEFINE l == DatasetLock(claimer[c].target)
    <1>1. CASE Abandon(c)
        BY <1>1, AttemptOf, AbandonKeeps DEF TakeDataset, TryLock, Abandon
    <1>2. CASE /\ Free(c, l) /\ held' = [held EXCEPT ![c] = held[c] \cup {l}]
               /\ Advance(c, "revalidate")
        <2>1. claimer[c].pc = "dataset"  BY DEF TakeDataset
        <2>2. claimer[c].pc \in InTransaction  BY <2>1 DEF InTransaction
        <2>3. l \in Locks /\ held[c] \cup {l} \in SUBSET Locks
            BY <2>2, AttemptOf, LockTypes
        <2>4. BarrierLock(claimer[c].target) \in held[c]
            BY <2>1 DEF IInv, ClaimInv, ScopeLocked, HasBarrier
        <2>5. "revalidate" \in InTransaction
            BY DEF InTransaction
        <2>6. UNCHANGED <<row, order, mutated, policy, owned>>
            BY DEF TakeDataset, TryLock
        <2>7. QED
            BY <1>2, <2>2, <2>3, <2>4, <2>5, <2>6, AdvanceKeeps
    <1>3. QED  BY <1>1, <1>2 DEF TakeDataset, TryLock

LEMMA RevalidateKeeps ==
    ASSUME IInv, NEW c \in Claimers, Revalidate(c) PROVE IInv'
    <1>1. CASE Abandon(c)
        BY <1>1, AttemptOf, AbandonKeeps DEF Revalidate, Abandon
    <1>2. CASE ~DatasetConflict(claimer[c].target) /\ Advance(c, "global") /\ UNCHANGED held
        <2>1. claimer[c].pc = "revalidate"  BY DEF Revalidate
        <2>2. claimer[c].pc \in InTransaction /\ "global" \in InTransaction
            BY <2>1 DEF InTransaction
        <2>3. RowLock(claimer[c].target) \in Locks
            BY <2>2, AttemptOf, LockTypes
        <2>4. /\ BarrierLock(claimer[c].target) \in held[c]
              /\ DatasetOf[claimer[c].target] # Global
                    => DatasetLock(claimer[c].target) \in held[c]
            BY <2>1 DEF IInv, ClaimInv, ScopeLocked, HasBarrier, HasDataset
        <2>5. UNCHANGED <<row, order, mutated, policy, owned>>
            BY DEF Revalidate
        <2>6. QED
            BY <1>2, <2>2, <2>3, <2>4, <2>5, AttemptOf, AdvanceKeeps
    <1>3. QED  BY <1>1, <1>2 DEF Revalidate

LEMMA RevalidateGlobalKeeps ==
    ASSUME IInv, NEW c \in Claimers, RevalidateGlobal(c) PROVE IInv'
    <1>1. CASE Abandon(c)
        BY <1>1, AttemptOf, AbandonKeeps DEF RevalidateGlobal, Abandon
    <1>2. CASE ~OtherGlobalConflict(claimer[c].target) /\ Advance(c, "commit") /\ UNCHANGED held
        <2>1. claimer[c].pc = "global"  BY DEF RevalidateGlobal
        <2>2. claimer[c].pc \in InTransaction /\ "commit" \in InTransaction
            BY <2>1 DEF InTransaction
        <2>3. RowLock(claimer[c].target) \in Locks
            BY <2>2, AttemptOf, LockTypes
        <2>4. /\ BarrierLock(claimer[c].target) \in held[c]
              /\ DatasetOf[claimer[c].target] # Global
                    => DatasetLock(claimer[c].target) \in held[c]
              /\ ~DatasetConflict(claimer[c].target)
            BY <2>1 DEF IInv, ClaimInv, ScopeLocked, ScopeChecked, HasBarrier, HasDataset
        <2>5. UNCHANGED <<row, order, mutated, policy, owned>>
            BY DEF RevalidateGlobal
        <2>6. QED
            BY <1>2, <2>2, <2>3, <2>4, <2>5, AttemptOf, AdvanceKeeps
    <1>3. QED  BY <1>1, <1>2 DEF RevalidateGlobal

\* The commit is the contract's atomic claim.
LEMMA CommitClaims ==
    ASSUME IInv, NEW c \in Claimers, Commit(c)
    PROVE  claimer[c].target \in Runs /\ Claim(claimer[c].target)
    <1> DEFINE r == claimer[c].target
    <1>1. claimer[c].pc = "commit" /\ claimer[c].pc \in InTransaction
        BY DEF Commit, InTransaction
    <1>2. r \in Runs /\ Eligible(r)
        BY <1>1 DEF IInv, ClaimInv, TargetLocked
    <1>3. ~DatasetConflict(r) /\ ~OtherGlobalConflict(r)
        BY <1>1 DEF IInv, ClaimInv, ScopeChecked
    <1>4. ScopeFree(r)
        <2>1. SUFFICES ASSUME NEW s \in Runs \ {r}, SameScope(r, s), Occupied(s)
                       PROVE  FALSE
            BY DEF ScopeFree
        <2>2. CASE DatasetOf[s] = Global
            BY <1>3, <2>1, <2>2 DEF OtherGlobalConflict
        <2>3. CASE DatasetOf[s] # Global
            BY <1>3, <2>1, <2>3 DEF DatasetConflict, SameScope
        <2>4. QED  BY <2>2, <2>3
    <1>5. QED  BY <1>2, <1>4 DEF Claim, Commit

LEMMA CommitKeeps ==
    ASSUME IInv, NEW c \in Claimers, Commit(c) PROVE IInv'
    <1> DEFINE r == claimer[c].target
    <1>1. claimer[c].pc = "commit" /\ claimer[c].pc \in InTransaction
          /\ claimer[c].pc \in HasBarrier /\ claimer[c].pc \in HasDataset
        BY DEF Commit, InTransaction, HasBarrier, HasDataset
    <1>2. r \in Runs  BY <1>1, AttemptOf
    <1>3. /\ TakeRun(r) /\ held' = [held EXCEPT ![c] = {}]
          /\ claimer' = [claimer EXCEPT ![c] = NoAttempt]
          /\ UNCHANGED <<policy, owned>>
        BY DEF Commit
    <1>4. {} \in SUBSET Locks /\ NoAttempt.target = NoRun
          /\ NoAttempt.pc \notin InTransaction
        BY DEF NoAttempt, Resting, InTransaction
    <1>5. /\ claimer' \in [Claimers -> Attempt]
          /\ held' \in [Claimers -> SUBSET Locks]
          /\ \A d \in Claimers : claimer'[d].pc \notin InTransaction =>
                claimer'[d].target = NoRun /\ held'[d] = {}
          /\ claimer'[c] = NoAttempt
          /\ \A d \in Claimers \ {c} : claimer'[d] = claimer[d] /\ held'[d] = held[d]
        BY <1>3, <1>4, NoAttemptType, ReplaceAttempt DEF IInv
    <1>6. TypeOK'
        <2>1. row' \in [Runs -> Row]  BY <1>2, <1>3, TableTypes DEF IInv
        <2>2. UNCHANGED <<order, mutated>>  BY <1>3 DEF TakeRun
        <2>3. QED  BY <1>3, <1>5, <2>1, <2>2 DEF IInv, TypeOK
    <1>7. LocksExclude'  BY <1>3, LocksStayApart DEF IInv, TypeOK
    <1>8. \A d \in Claimers : ClaimInv(d)'
        <2>1. SUFFICES ASSUME NEW d \in Claimers \ {c}, claimer[d].pc \in InTransaction
                       PROVE  ClaimInv(d)'
            BY <1>4, <1>5, OutsideTransaction
        <2> DEFINE t == claimer[d].target
        <2>2. claimer'[d] = claimer[d] /\ held'[d] = held[d]  BY <1>5
        <2>3. ClaimInv(d) /\ t \in Runs /\ RowLock(t) \in held[d] /\ Eligible(t)
            BY <2>1 DEF IInv, ClaimInv, TargetLocked
        <2>4. RowLock(r) \in held[c] /\ BarrierLock(r) \in held[c]
              /\ (DatasetOf[r] # Global => DatasetLock(r) \in held[c])
            BY <1>1 DEF IInv, ClaimInv, TargetLocked, ScopeLocked
        <2>5. \A l \in held[c], m \in held[d] : ~Conflict(l, m)
            BY DEF IInv, LocksExclude
        <2>6. t # r
            BY <2>3, <2>4, <2>5, SameTargetConflicts
        <2>7. \A s \in Runs \ {r} : row'[s] = row[s]
            BY <1>3 DEF TakeRun, IInv, TypeOK
        <2>8. \A s \in Runs : Occupied(s)' => Occupied(s) \/ s = r
            BY <2>7 DEF Occupied
        <2>9. TargetLocked(d)'
            BY <2>2, <2>3, <2>6, <2>7 DEF TargetLocked, Eligible, RowLock
        <2>10. ScopeLocked(d)'
            BY <2>2, <2>3 DEF ClaimInv, ScopeLocked, BarrierLock, DatasetLock
        <2>11. claimer[d].pc \in {"global", "commit"} => ~DatasetConflict(t)'
            <3>1. SUFFICES ASSUME claimer[d].pc \in {"global", "commit"},
                                  NEW s \in Runs, Occupied(s)', DatasetOf[s] # Global,
                                  DatasetOf[t] \in {DatasetOf[s], Global}
                           PROVE  FALSE
                BY <2>2 DEF DatasetConflict
            <3>2. ~DatasetConflict(t) /\ BarrierLock(t) \in held[d]
                  /\ (DatasetOf[t] # Global => DatasetLock(t) \in held[d])
                BY <2>3, <3>1 DEF ClaimInv, ScopeChecked, ScopeLocked, HasBarrier, HasDataset
            <3>3. s = r  BY <2>8, <3>1, <3>2 DEF DatasetConflict
            <3>4. CASE DatasetOf[t] = Global
                BY <2>4, <2>5, <3>2, <3>4, ScopesConflict
            <3>5. CASE DatasetOf[t] # Global
                <4>1. DatasetOf[r] = DatasetOf[t]  BY <3>1, <3>3, <3>5
                <4>2. QED  BY <2>4, <2>5, <3>2, <3>5, <4>1, ScopesConflict
            <3>6. QED  BY <3>4, <3>5
        <2>12. claimer[d].pc = "commit" => ~OtherGlobalConflict(t)'
            <3>1. SUFFICES ASSUME claimer[d].pc = "commit",
                                  NEW s \in Runs \ {t}, Occupied(s)', DatasetOf[s] = Global
                           PROVE  FALSE
                BY <2>2 DEF OtherGlobalConflict
            <3>2. ~OtherGlobalConflict(t) /\ BarrierLock(t) \in held[d]
                BY <2>3, <3>1 DEF ClaimInv, ScopeChecked, ScopeLocked, HasBarrier
            <3>3. s = r  BY <2>8, <3>1, <3>2 DEF OtherGlobalConflict
            <3>4. QED  BY <2>4, <2>5, <3>1, <3>2, <3>3, ScopesConflict
        <2>13. ScopeChecked(d)'
            BY <2>2, <2>11, <2>12 DEF ScopeChecked, DatasetConflict, OtherGlobalConflict
        <2>14. QED  BY <2>9, <2>10, <2>13 DEF ClaimInv
    <1>9. QED  BY <1>6, <1>7, <1>8 DEF IInv

LEMMA LoseKeeps ==
    ASSUME IInv, NEW c \in Claimers, Lose(c) PROVE IInv'
    <1>1. /\ held' = [held EXCEPT ![c] = {}]
          /\ claimer' = [claimer EXCEPT ![c] = Resting("gone")]
          /\ UNCHANGED <<row, order, mutated>>
        BY DEF Lose
    <1>2. {} \in SUBSET Locks /\ Resting("gone").target = NoRun
          /\ Resting("gone").pc \notin InTransaction
        BY DEF Resting, InTransaction
    <1>3. /\ claimer' \in [Claimers -> Attempt]
          /\ held' \in [Claimers -> SUBSET Locks]
          /\ \A d \in Claimers : claimer'[d].pc \notin InTransaction =>
                claimer'[d].target = NoRun /\ held'[d] = {}
          /\ claimer'[c] = Resting("gone")
          /\ \A d \in Claimers \ {c} : claimer'[d] = claimer[d] /\ held'[d] = held[d]
        BY <1>1, <1>2, GoneType, ReplaceAttempt DEF IInv
    <1>4. TypeOK'
        BY <1>1, <1>3 DEF IInv, TypeOK, Lose, Policies
    <1>5. LocksExclude'  BY <1>1, LocksStayApart DEF IInv, TypeOK
    <1>6. ClaimInv(c)'  BY <1>2, <1>3, OutsideTransaction
    <1>7. \A d \in Claimers : ClaimInv(d)'  BY <1>1, <1>3, <1>6, OthersUndisturbed
    <1>8. QED  BY <1>4, <1>5, <1>7 DEF IInv

LEMMA HolderStepKeeps ==
    ASSUME IInv, NEW c \in Claimers, StartConverging(c) \/ Classify(c) \/ FixedPoint(c)
    PROVE  IInv'
    <1>1. UNCHANGED <<row, order, mutated, claimer, held>>
        BY DEF StartConverging, Classify, FixedPoint
    <1>2. policy' \in [Claimers -> Policies]
        BY DEF StartConverging, Classify, FixedPoint, IInv, TypeOK, Policies
    <1>3. owned' \in [Claimers -> SUBSET Runs]
        BY DEF StartConverging, Classify, FixedPoint, IInv, TypeOK
    <1>4. TypeOK'  BY <1>1, <1>2, <1>3 DEF IInv, TypeOK
    <1>5. LocksExclude'  BY <1>1 DEF IInv, LocksExclude
    <1>6. \A d \in Claimers : ClaimInv(d)'
        BY <1>1, Undisturbed DEF IInv, Occupied
    <1>7. QED  BY <1>4, <1>5, <1>6 DEF IInv

-----------------------------------------------------------------------------
(* The other transactions *)

\* A run that became eligible too late is noted, and nothing else.
LEMMA LateTypes ==
    ASSUME TypeOK, NEW r \in Runs, NEW S, TooLateFor(S, r)
    PROVE  /\ claimer' \in [Claimers -> Attempt]
           /\ \A c \in Claimers :
                /\ claimer'[c].pc = claimer[c].pc /\ claimer'[c].target = claimer[c].target
                /\ claimer'[c].policy = claimer[c].policy
                /\ claimer[c].late \subseteq claimer'[c].late
                /\ claimer[c].pc \in S => r \in claimer'[c].late
    <1> SUFFICES ASSUME NEW c \in Claimers
                 PROVE  /\ claimer'[c] \in Attempt
                        /\ claimer'[c].pc = claimer[c].pc
                        /\ claimer'[c].target = claimer[c].target
                        /\ claimer'[c].policy = claimer[c].policy
                        /\ claimer[c].late \subseteq claimer'[c].late
                        /\ claimer[c].pc \in S => r \in claimer'[c].late
        BY DEF TooLateFor
    <1>1. claimer[c] \in Attempt  BY DEF TypeOK
    <1>2. claimer[c].late \cup {r} \in SUBSET Runs  BY <1>1, AttemptTypes
    <1>3. [claimer[c] EXCEPT !.late = claimer[c].late \cup {r}] \in Attempt
        BY <1>1, <1>2, AttemptTypes
    <1>4. claimer'[c] = IF claimer[c].pc \in S
                        THEN [claimer[c] EXCEPT !.late = claimer[c].late \cup {r}]
                        ELSE claimer[c]
        BY DEF TooLateFor
    <1>5. CASE claimer[c].pc \in S
        BY <1>1, <1>3, <1>4, <1>5 DEF Attempt
    <1>6. CASE claimer[c].pc \notin S
        BY <1>1, <1>4, <1>6
    <1>7. QED  BY <1>5, <1>6

LEMMA TableStepKeeps ==
    ASSUME IInv, NEW r \in Runs, TableStep(r) PROVE IInv'
    <1>1. row' \in [Runs -> Row] /\ order' \in [Runs -> Int] /\ mutated' \subseteq Runs
        <2>1. CASE NewRun(r)
            BY <2>1, TableTypes DEF NewRun, IInv
        <2>2. CASE CancelOccupying(r) \/ Retries(r) \/ Elapses(r)
            <3>1. PICK s \in {"queued", "cancelling"}, b \in BOOLEAN : Moves(r, s, b)
                BY <2>2 DEF CancelOccupying, CancelRunning, Retries, Requeue, Elapses,
                            BackoffElapses
            <3>2. row' \in [Runs -> Row]  BY <3>1, TableTypes DEF IInv
            <3>3. UNCHANGED <<order, mutated>>  BY <3>1 DEF Moves
            <3>4. QED  BY <3>2, <3>3 DEF IInv, TypeOK
        <2>3. CASE Accepted(r) \/ Refused(r) \/ CancelWaiting(r) \/ Ends(r)
            <3>1. Submit(r) \/ Closes(r)
                BY <2>3 DEF Accepted, Refused, RollsBack, CancelWaiting, CancelQueued, Ends,
                            Finish
            <3>2. row' \in [Runs -> Row]  BY <3>1, TableTypes DEF IInv
            <3>3. UNCHANGED <<order, mutated>>  BY <3>1 DEF Submit, Closes
            <3>4. QED  BY <3>2, <3>3 DEF IInv, TypeOK
        <2>4. CASE Mutates(r)
            BY <2>4 DEF Mutates, MutationSucceeds, IInv, TypeOK
        <2>5. QED  BY <2>1, <2>2, <2>3, <2>4 DEF TableStep
    <1>2. /\ claimer' \in [Claimers -> Attempt]
          /\ \A c \in Claimers : /\ claimer'[c].pc = claimer[c].pc
                                 /\ claimer'[c].target = claimer[c].target
        <2>1. CASE Elapses(r) \/ Accepted(r)
            <3>1. PICK S : TooLateFor(S, r)
                BY <2>1 DEF Elapses, Accepted
            <3>2. QED  BY <3>1, LateTypes DEF IInv
        <2>2. CASE ~(Elapses(r) \/ Accepted(r))
            BY <2>2 DEF TableStep, NewRun, Refused, CancelWaiting, CancelOccupying, Ends,
                        Retries, Mutates, Others, IInv, TypeOK
        <2>3. QED  BY <2>1, <2>2
    <1>3. UNCHANGED <<policy, owned, held>>
        BY DEF TableStep, NewRun, Accepted, Refused, CancelWaiting, CancelOccupying, Ends,
               Retries, Mutates, Elapses, Others
    <1>4. TypeOK'
        BY <1>1, <1>2, <1>3 DEF IInv, TypeOK
    <1>5. LocksExclude'  BY <1>3 DEF IInv, LocksExclude
    <1>6. \A s \in Runs \ {r} : row'[s] = row[s]
        BY DEF TableStep, NewRun, Begins, Accepted, Submit, Refused, RollsBack, CancelWaiting,
               CancelQueued, CancelOccupying, CancelRunning, Ends, Finish, Retries, Requeue,
               Mutates, MutationSucceeds, Elapses, BackoffElapses, Moves, Closes, IInv, TypeOK
    <1>7. Occupied(r)' => Occupied(r)
        <2>1. CASE NewRun(r)
            BY <2>1 DEF NewRun, Begins, Finished, Occupied, IInv, TypeOK
        <2>2. CASE ~NewRun(r)
            BY <2>2 DEF TableStep, Accepted, Submit, Refused, RollsBack, CancelWaiting,
               CancelQueued, CancelOccupying, CancelRunning, Ends, Finish, Retries, Requeue,
               Mutates, MutationSucceeds, Elapses, BackoffElapses, Moves, Closes, Finished,
               Occupied, IInv, TypeOK
        <2>3. QED  BY <2>1, <2>2
    <1>8. ASSUME NEW c \in Claimers, claimer[c].pc \in InTransaction,
                 claimer[c].target = r, Eligible(r)
          PROVE  row' = row
        <2>1. RowLock(r) \in held[c]
            BY <1>8 DEF IInv, ClaimInv, TargetLocked
        <2>2. ~CancelWaiting(r)
            BY <2>1 DEF CancelWaiting
        <2>3. QED
            BY <1>8, <2>2 DEF TableStep, NewRun, Begins, Accepted, Submit, Refused, RollsBack,
               CancelOccupying, CancelRunning, Ends, Finish, Retries, Requeue, Mutates, MutationSucceeds, Elapses,
               BackoffElapses, Eligible, Occupied
    <1>9. \A c \in Claimers : ClaimInv(c)'
        <2>1. SUFFICES ASSUME NEW c \in Claimers PROVE ClaimInv(c)'
            OBVIOUS
        <2>2. \A s \in Runs : Occupied(s)' => Occupied(s)
            BY <1>6, <1>7 DEF Occupied
        <2>3. claimer[c].pc \in InTransaction /\ Eligible(claimer[c].target)
                 => row'[claimer[c].target] = row[claimer[c].target]
            BY <1>6, <1>8, AttemptOf
        <2>4. ClaimInv(c)  BY DEF IInv
        <2>5. QED  BY <1>2, <1>3, <2>2, <2>3, <2>4, Undisturbed
    <1>10. QED  BY <1>4, <1>5, <1>9 DEF IInv
-----------------------------------------------------------------------------
(* Theorems *)

LEMMA InitInvariant == Init => IInv
    <1> SUFFICES ASSUME Init PROVE IInv
        OBVIOUS
    <1>1. \A c \in Claimers : claimer[c].pc = "idle" /\ held[c] = {}
        BY DEF Init, NoAttempt, Resting
    <1>2. LocksExclude  BY <1>1 DEF LocksExclude
    <1>3. \A c \in Claimers : ClaimInv(c)
        BY <1>1 DEF ClaimInv, TargetLocked, ScopeLocked, ScopeChecked, InTransaction,
                    HasBarrier, HasDataset
    <1>4. QED  BY <1>2, <1>3, InitTypes DEF IInv

LEMMA NextInvariant == IInv /\ [Next]_vars => IInv'
    <1> SUFFICES ASSUME IInv, [Next]_vars PROVE IInv'
        OBVIOUS
    <1>1. ASSUME NEW c \in Claimers, ClaimStep(c) PROVE IInv'
        BY <1>1, ScanKeeps, LockCandidateKeeps, PrecheckKeeps, TakeBarrierKeeps,
           TakeDatasetKeeps, RevalidateKeeps, RevalidateGlobalKeeps, CommitKeeps
        DEF ClaimStep
    <1>2. ASSUME NEW c \in Claimers, ProcessStep(c) PROVE IInv'
        BY <1>2, LoseKeeps, HolderStepKeeps DEF ProcessStep
    <1>3. ASSUME NEW r \in Runs, TableStep(r) PROVE IInv'
        BY <1>3, TableStepKeeps
    <1>4. CASE UNCHANGED vars
        <2>1. TypeOK'  BY <1>4 DEF vars, IInv, TypeOK
        <2>2. LocksExclude'  BY <1>4 DEF vars, IInv, LocksExclude
        <2>3. \A c \in Claimers : ClaimInv(c)'
            BY <1>4, Undisturbed DEF vars, IInv, Occupied
        <2>4. QED  BY <2>1, <2>2, <2>3 DEF IInv
    <1>5. QED  BY <1>1, <1>2, <1>3, <1>4 DEF Next

\* A claimer past its checks holds the locks that keep their answers true,
\* and conflicting locks are never held together.
THEOREM ClaimInvariant == Spec => []IInv
    <1>1. QED  BY InitInvariant, NextInvariant, PTL DEF Spec

THEOREM ClaimTypesCorrect == Spec => []TypeOK
    <1>1. IInv => TypeOK  BY DEF IInv
    <1>2. QED  BY <1>1, ClaimInvariant, PTL

LEMMA StepIsAtomic == IInv /\ [Next]_vars => [ContractNext]_table
    <1> SUFFICES ASSUME IInv, [Next]_vars PROVE ContractNext \/ UNCHANGED table
        OBVIOUS
    <1>1. ASSUME NEW c \in Claimers, Commit(c) PROVE ContractNext
        BY <1>1, CommitClaims DEF ContractNext
    <1>2. ASSUME NEW c \in Claimers, ClaimStep(c), ~Commit(c) PROVE UNCHANGED table
        BY <1>2 DEF ClaimStep, table, Scan, LockCandidate, Precheck, TakeBarrier,
                    TakeDataset, TryLock, Revalidate, RevalidateGlobal
    <1>3. ASSUME NEW c \in Claimers, ProcessStep(c) PROVE UNCHANGED table
        BY <1>3 DEF ProcessStep, table, StartConverging, Classify, FixedPoint, Lose
    <1>4. ASSUME NEW r \in Runs, TableStep(r) PROVE ContractNext
        BY <1>4 DEF TableStep, ContractNext, NewRun, Accepted, Refused, CancelWaiting,
                    CancelOccupying, Ends, Retries, Mutates, Elapses
    <1>5. CASE UNCHANGED vars
        BY <1>5 DEF vars, table
    <1>6. QED  BY <1>1, <1>2, <1>3, <1>4, <1>5 DEF Next

\* The statement-level protocol implements the atomic claim: every step of
\* the claimers is a claim of a free run or changes nothing in the table.
THEOREM ClaimsImplementContract == Spec => ClaimsAreAtomic
    <1>1. Init => TableInit  BY DEF Init
    <1>2. QED
        BY <1>1, ClaimInvariant, StepIsAtomic, PTL DEF Spec, ClaimsAreAtomic, ContractSpec

LEMMA ClaimKeepsScopesApart ==
    ASSUME row \in [Runs -> Row], OneOwnerPerScope, ContractNext
    PROVE  OneOwnerPerScope'
    <1>1. PICK r \in Runs :
            \/ Begins(r) \/ Submit(r) \/ RollsBack(r) \/ Claim(r) \/ Finish(r) \/ Requeue(r)
            \/ BackoffElapses(r) \/ CancelQueued(r) \/ CancelRunning(r) \/ MutationSucceeds(r)
        BY DEF ContractNext
    <1>2. \A s \in Runs \ {r} : row'[s] = row[s]
        BY <1>1 DEF Begins, Submit, RollsBack, Claim, TakeRun, Finish, Requeue, BackoffElapses,
                    CancelQueued, CancelRunning, MutationSucceeds, Moves, Closes
    <1>3. CASE Claim(r)
        <2>1. \A s \in Runs \ {r} : SameScope(r, s) \/ SameScope(s, r) => ~Occupied(s)'
            BY <1>2, <1>3 DEF Claim, ScopeFree, Occupied, SameScope
        <2>2. QED
            BY <1>2, <2>1 DEF OneOwnerPerScope, Occupied, SameScope
    <1>4. CASE ~Claim(r)
        <2>1. Occupied(r)' => Occupied(r)
            BY <1>1, <1>4 DEF Begins, Submit, RollsBack, Finish, Requeue, BackoffElapses,
                    CancelQueued, CancelRunning, MutationSucceeds, Moves, Closes, Finished,
                    Occupied
        <2>2. QED
            BY <1>2, <2>1 DEF OneOwnerPerScope, Occupied, SameScope
    <1>5. QED  BY <1>3, <1>4

\* However many processes claim at the same time, two occupied runs never
\* share a dataset and a global run is alone.
THEOREM ScopesHaveOneOwner == Spec => []OneOwnerPerScope
    <1>1. Init => OneOwnerPerScope
        BY DEF Init, TableInit, Finished, OneOwnerPerScope, Occupied
    <1>2. IInv /\ OneOwnerPerScope /\ [Next]_vars => OneOwnerPerScope'
        <2> SUFFICES ASSUME IInv, OneOwnerPerScope, [Next]_vars PROVE OneOwnerPerScope'
            OBVIOUS
        <2>1. CASE ContractNext
            BY <2>1, ClaimKeepsScopesApart DEF IInv, TypeOK
        <2>2. CASE UNCHANGED table
            BY <2>2 DEF table, OneOwnerPerScope, Occupied
        <2>3. QED  BY <2>1, <2>2, StepIsAtomic
    <1>3. QED  BY <1>1, <1>2, ClaimInvariant, PTL DEF Spec
-----------------------------------------------------------------------------
(* Fairness and policy: what is read early still holds at the commit *)

NoOlderGlobal(c) ==
    claimer[c].pc \in PastPrecheck /\ DatasetOf[claimer[c].target] # Global =>
        \A g \in Runs : DatasetOf[g] = Global /\ Eligible(g) /\ Precedes(g, claimer[c].target)
                           => g \in claimer[c].late
PolicyFollowed(c) ==
    /\ policy[c] = "none" => claimer[c].pc \in {"idle", "gone"}
    /\ policy[c] = "recovery" /\ claimer[c].pc # "idle" => claimer[c].policy = "recovery"
    /\ claimer[c].pc = "gone" => policy[c] = "none"
    /\ claimer[c].pc \in InTransaction /\ claimer[c].policy = "recovery"
          => claimer[c].target \in Destructive \cap mutated
EarlyInv == \A c \in Claimers : NoOlderGlobal(c) /\ PolicyFollowed(c)

\* A claimer that did not move, in a table that did not change.
LEMMA EarlyUndisturbed ==
    ASSUME NEW c, NoOlderGlobal(c), PolicyFollowed(c),
           claimer'[c] = claimer[c], policy'[c] = policy[c],
           UNCHANGED <<row, order, mutated>>
    PROVE  NoOlderGlobal(c)' /\ PolicyFollowed(c)'
    BY DEF NoOlderGlobal, PolicyFollowed, Eligible, Precedes

LEMMA ClaimStepKeepsEarly ==
    ASSUME IInv, EarlyInv, NEW c \in Claimers, ClaimStep(c) PROVE EarlyInv'
    <1>1. UNCHANGED <<order, mutated, policy>>
        BY DEF ClaimStep, Scan, LockCandidate, Precheck, TakeBarrier, TakeDataset, TryLock,
               Revalidate, RevalidateGlobal, Commit, TakeRun
    <1>2. \A d \in Claimers \ {c} : claimer'[d] = claimer[d]
        <2>1. claimer \in [Claimers -> Attempt]  BY DEF IInv, TypeOK
        <2>2. \A S : NextCandidate(c, S) => \A d \in Claimers \ {c} : claimer'[d] = claimer[d]
            BY <2>1 DEF NextCandidate
        <2>3. \A pc : Advance(c, pc) => \A d \in Claimers \ {c} : claimer'[d] = claimer[d]
            BY <2>1 DEF Advance
        <2>4. CASE Scan(c) \/ Commit(c) \/ LockCandidate(c)
            BY <2>1, <2>2, <2>4 DEF Scan, Commit, LockCandidate
        <2>5. CASE ~(Scan(c) \/ Commit(c) \/ LockCandidate(c))
            BY <2>2, <2>3, <2>5 DEF ClaimStep, Precheck, TakeBarrier, TakeDataset, TryLock,
               Revalidate, RevalidateGlobal, Abandon
        <2>6. QED  BY <2>4, <2>5
    <1>3. \A g \in Runs : Eligible(g)' => Eligible(g)
        <2>1. CASE Commit(c)
            BY <2>1 DEF Commit, TakeRun, Eligible, IInv, TypeOK
        <2>2. CASE ~Commit(c)
            BY <2>2 DEF ClaimStep, Scan, LockCandidate, Precheck, TakeBarrier, TakeDataset,
               TryLock, Revalidate, RevalidateGlobal, Eligible
        <2>3. QED  BY <2>1, <2>2
    <1>4. \A d \in Claimers \ {c} : NoOlderGlobal(d)' /\ PolicyFollowed(d)'
        BY <1>1, <1>2, <1>3 DEF EarlyInv, NoOlderGlobal, PolicyFollowed, Precedes
    <1>5. /\ claimer[c] \in Attempt /\ NoOlderGlobal(c) /\ PolicyFollowed(c)
          /\ claimer' \in [Claimers -> Attempt] /\ claimer \in [Claimers -> Attempt]
        <2>1. IInv'
            BY ScanKeeps, LockCandidateKeeps, PrecheckKeeps, TakeBarrierKeeps,
               TakeDatasetKeeps, RevalidateKeeps, RevalidateGlobalKeeps, CommitKeeps
            DEF ClaimStep
        <2>2. QED  BY <2>1 DEF IInv, TypeOK, EarlyInv
    <1>6. ASSUME NEW S, NextCandidate(c, S), claimer[c].pc \notin {"idle", "gone"}
          PROVE  NoOlderGlobal(c)' /\ PolicyFollowed(c)'
        <2>1. claimer'[c].pc \in {"idle", "scanned"}
              /\ (claimer'[c].pc # "idle" => claimer'[c].policy = claimer[c].policy)
            BY <1>5, <1>6 DEF NextCandidate, NoAttempt, Resting, Attempt
        <2>2. QED
            BY <1>1, <1>5, <1>6, <2>1 DEF NoOlderGlobal, PolicyFollowed, PastPrecheck,
                                          InTransaction
    <1>7. ASSUME NEW pc \in InTransaction, Advance(c, pc), claimer[c].pc \in InTransaction,
                 claimer[c].pc \in PastPrecheck \/ ~OlderGlobalWaits(c, claimer[c].target)
          PROVE  NoOlderGlobal(c)' /\ PolicyFollowed(c)'
        <2>1. /\ claimer'[c].pc = pc /\ claimer'[c].target = claimer[c].target
              /\ claimer'[c].late = claimer[c].late
              /\ claimer'[c].policy = claimer[c].policy
            BY <1>5, <1>7 DEF Advance, Attempt
        <2>2. PolicyFollowed(c)'
            BY <1>1, <1>5, <1>7, <2>1 DEF PolicyFollowed, InTransaction
        <2>3. NoOlderGlobal(c)'
            BY <1>1, <1>3, <1>5, <1>7, <2>1
            DEF NoOlderGlobal, OlderGlobalWaits, DueFor, Precedes
        <2>4. QED  BY <2>2, <2>3
    <1>8. NoOlderGlobal(c)' /\ PolicyFollowed(c)'
        <2>1. CASE Scan(c)
            <3>1. claimer'[c].pc = "scanned" /\ claimer'[c].policy = policy[c]
                  /\ policy[c] # "none"
                BY <2>1, <1>5 DEF Scan
            <3>2. QED
                BY <1>1, <3>1 DEF NoOlderGlobal, PolicyFollowed, PastPrecheck, InTransaction
        <2>2. CASE LockCandidate(c)
            <3>1. PICK r \in claimer[c].todo :
                    \/ /\ Allowed(c, r)
                       /\ claimer' = [claimer EXCEPT ![c] =
                             [claimer[c] EXCEPT !.todo = claimer[c].todo \ {r}, !.target = r,
                               !.pc = IF DatasetOf[r] = Global THEN "barrier"
                                                               ELSE "precheck"]]
                    \/ NextCandidate(c, claimer[c].todo \ {r})
                BY <2>2 DEF LockCandidate
            <3>2. CASE NextCandidate(c, claimer[c].todo \ {r})
                BY <1>6, <2>2, <3>2 DEF LockCandidate
            <3>3. CASE ~NextCandidate(c, claimer[c].todo \ {r})
                <4> DEFINE pc == IF DatasetOf[r] = Global THEN "barrier" ELSE "precheck"
                           a == [claimer[c] EXCEPT !.todo = claimer[c].todo \ {r},
                                                   !.target = r, !.pc = pc]
                <4>a. Allowed(c, r) /\ claimer' = [claimer EXCEPT ![c] = a]
                    BY <3>1, <3>3
                <4>b. a.target = r /\ a.policy = claimer[c].policy /\ a.pc = pc
                    BY <1>5 DEF Attempt
                <4> HIDE DEF a
                <4>1. /\ Allowed(c, r) /\ claimer'[c].target = r
                      /\ claimer'[c].policy = claimer[c].policy
                      /\ claimer'[c].pc = IF DatasetOf[r] = Global THEN "barrier"
                                                                   ELSE "precheck"
                    BY <1>5, <4>a, <4>b
                <4>2. claimer[c].pc = "scanned"  BY <2>2 DEF LockCandidate
                <4>3. NoOlderGlobal(c)'
                    BY <4>1 DEF NoOlderGlobal, PastPrecheck
                <4>4. PolicyFollowed(c)'
                    BY <1>1, <1>5, <4>1, <4>2 DEF PolicyFollowed, Allowed
                <4>5. QED  BY <4>3, <4>4
            <3>4. QED  BY <3>2, <3>3
        <2>3. CASE Precheck(c)
            <3>1. claimer[c].pc = "precheck"  BY <2>3 DEF Precheck
            <3>2. QED
                BY <1>6, <1>7, <2>3, <3>1 DEF Precheck, Abandon, InTransaction
        <2>4. CASE TakeBarrier(c) \/ TakeDataset(c)
            <3>1. claimer[c].pc \in {"barrier", "dataset"}
                BY <2>4 DEF TakeBarrier, TakeDataset
            <3>2. Abandon(c) \/ Advance(c, "revalidate") \/ Advance(c, "dataset")
                BY <2>4 DEF TakeBarrier, TakeDataset, TryLock
            <3>3. QED
                BY <1>6, <1>7, <3>1, <3>2 DEF Abandon, InTransaction, PastPrecheck
        <2>5. CASE Revalidate(c) \/ RevalidateGlobal(c)
            <3>1. claimer[c].pc \in {"revalidate", "global"}
                BY <2>5 DEF Revalidate, RevalidateGlobal
            <3>2. Abandon(c) \/ Advance(c, "global") \/ Advance(c, "commit")
                BY <2>5 DEF Revalidate, RevalidateGlobal
            <3>3. QED
                BY <1>6, <1>7, <3>1, <3>2 DEF Abandon, InTransaction, PastPrecheck
        <2>6. CASE Commit(c)
            <3>1. claimer'[c].pc = "idle"  BY <2>6, <1>5 DEF Commit, NoAttempt, Resting
            <3>2. QED
                BY <3>1 DEF NoOlderGlobal, PolicyFollowed, PastPrecheck, InTransaction
        <2>7. QED  BY <2>1, <2>2, <2>3, <2>4, <2>5, <2>6 DEF ClaimStep
    <1>9. QED  BY <1>1, <1>4, <1>8 DEF EarlyInv

LEMMA ProcessStepKeepsEarly ==
    ASSUME IInv, EarlyInv, NEW c \in Claimers, ProcessStep(c) PROVE EarlyInv'
    <1>1. UNCHANGED <<row, order, mutated>>
        BY DEF ProcessStep, StartConverging, Classify, FixedPoint, Lose
    <1>2. \A d \in Claimers \ {c} : claimer'[d] = claimer[d] /\ policy'[d] = policy[d]
        BY DEF ProcessStep, StartConverging, Classify, FixedPoint, Lose, IInv, TypeOK
    <1>3. \A d \in Claimers \ {c} : NoOlderGlobal(d)' /\ PolicyFollowed(d)'
        BY <1>1, <1>2, EarlyUndisturbed DEF EarlyInv
    <1>4. NoOlderGlobal(c)' /\ PolicyFollowed(c)'
        <2>1. CASE Lose(c)
            <3>1. claimer'[c].pc = "gone" /\ policy'[c] = "none"
                BY <2>1 DEF Lose, Resting, IInv, TypeOK
            <3>2. QED
                BY <3>1 DEF NoOlderGlobal, PolicyFollowed, PastPrecheck, InTransaction
        <2>2. CASE StartConverging(c) \/ Classify(c) \/ FixedPoint(c)
            <3>1. claimer' = claimer /\ (policy'[c] = policy[c] \/ policy'[c] = "normal"
                  \/ (policy[c] = "none" /\ policy'[c] = "recovery"))
                  /\ (policy'[c] = policy[c] \/ claimer[c].pc # "gone")
                BY <2>2 DEF StartConverging, Classify, FixedPoint, IInv, TypeOK,
                            EarlyInv, PolicyFollowed
            <3>2. NoOlderGlobal(c)'
                BY <1>1, <3>1 DEF EarlyInv, NoOlderGlobal, Eligible, Precedes
            <3>3. PolicyFollowed(c)'
                BY <1>1, <3>1 DEF EarlyInv, PolicyFollowed
            <3>4. QED  BY <3>2, <3>3
        <2>3. QED  BY <2>1, <2>2 DEF ProcessStep
    <1>5. QED  BY <1>1, <1>3, <1>4 DEF EarlyInv

LEMMA TableStepKeepsEarly ==
    ASSUME IInv, EarlyInv, NEW r \in Runs, TableStep(r) PROVE EarlyInv'
    <1>1. policy' = policy
        BY DEF TableStep, NewRun, Accepted, Refused, CancelWaiting, CancelOccupying, Ends,
               Retries, Mutates, Elapses, Others
    <1>2. ASSUME NEW c \in Claimers
          PROVE  /\ claimer'[c].pc = claimer[c].pc /\ claimer'[c].target = claimer[c].target
                 /\ claimer'[c].policy = claimer[c].policy
                 /\ claimer[c].late \subseteq claimer'[c].late
                 /\ claimer[c].pc \in PastPrecheck =>
                       /\ Elapses(r) => r \in claimer'[c].late
                       /\ Accepted(r) /\ DatasetOf[r] = Global => r \in claimer'[c].late
        <2>1. PastPrecheck \subseteq InTransaction  BY DEF PastPrecheck, InTransaction
        <2>2. CASE Elapses(r)
            <3>1. TooLateFor(InTransaction, r)  BY <2>2 DEF Elapses
            <3>2. ~(Accepted(r) /\ DatasetOf[r] = Global)
                BY <2>2 DEF Elapses, BackoffElapses, Accepted, Submit
            <3>3. QED  BY <2>1, <3>1, <3>2, LateTypes DEF IInv
        <2>3. CASE Accepted(r)
            <3>1. TooLateFor(IF DatasetOf[r] = Global THEN PastPrecheck ELSE {}, r)
                BY <2>3 DEF Accepted
            <3>2. ~Elapses(r)
                BY <2>3 DEF Elapses, BackoffElapses, Accepted, Submit
            <3>3. QED  BY <3>1, <3>2, LateTypes DEF IInv
        <2>4. CASE ~(Elapses(r) \/ Accepted(r))
            BY <2>4 DEF TableStep, NewRun, Refused, CancelWaiting, CancelOccupying, Ends,
                        Retries, Mutates, Others
        <2>5. QED  BY <2>2, <2>3, <2>4
    <1>3. CASE NewRun(r)
        <2>1. /\ order' = [s \in Runs |-> IF s = r THEN Cardinality(Runs)
                                ELSE IF Precedes(r, s) THEN order[s] - 1 ELSE order[s]]
              /\ \A s \in Runs \ {r} : row'[s] = row[s]
              /\ row[r].status = "finished" /\ row'[r].status = "inserting"
              /\ mutated' = mutated \ {r}
            BY <1>3 DEF NewRun, Begins, Finished, IInv, TypeOK
        <2>2. order \in [Runs -> Int]
            BY DEF IInv, TypeOK
        <2>3. ASSUME NEW c \in Claimers PROVE NoOlderGlobal(c)' /\ PolicyFollowed(c)'
            <3>1. claimer[c].pc \in InTransaction =>
                     claimer[c].target \in Runs \ {r}
                BY <2>1, AttemptOf DEF IInv, ClaimInv, TargetLocked, Eligible
            <3>2. ASSUME claimer[c].pc \in PastPrecheck, DatasetOf[claimer[c].target] # Global,
                         NEW g \in Runs, DatasetOf[g] = Global, Eligible(g)',
                         order'[g] < order'[claimer[c].target]
                  PROVE  g \in claimer[c].late
                <4>1. claimer[c].target \in Runs \ {r}
                    BY <3>1, <3>2 DEF PastPrecheck, InTransaction
                <4>2. g # r
                    BY <2>1, <3>2 DEF Eligible
                <4>3. order[g] < order[claimer[c].target]
                    BY <2>1, <2>2, <3>2, <4>1, <4>2 DEF Precedes
                <4>4. Eligible(g)  BY <2>1, <3>2, <4>2 DEF Eligible
                <4>5. QED  BY <3>2, <4>3, <4>4 DEF EarlyInv, NoOlderGlobal, Precedes
            <3>3. NoOlderGlobal(c)'
                BY <1>2, <3>2 DEF NoOlderGlobal, Precedes
            <3>4. PolicyFollowed(c)'
                BY <1>1, <1>2, <2>1, <3>1 DEF EarlyInv, PolicyFollowed
            <3>5. QED  BY <3>3, <3>4
        <2>4. QED  BY <2>3 DEF EarlyInv
    <1>4. CASE ~NewRun(r)
        <2>1. order' = order /\ mutated \subseteq mutated'
            BY <1>4 DEF TableStep, Accepted, Submit, Refused, RollsBack, CancelWaiting,
               CancelQueued, CancelOccupying, CancelRunning, Ends, Finish, Retries, Requeue,
               Mutates, MutationSucceeds, Elapses, BackoffElapses, Moves, Closes
        <2>2. \A g \in Runs : Eligible(g)' => Eligible(g) \/ (g = r /\ (Elapses(r) \/ Accepted(r)))
            BY <1>4 DEF TableStep, Accepted, Submit, Refused, RollsBack, CancelWaiting,
               CancelQueued, CancelOccupying, CancelRunning, Ends, Finish, Retries, Requeue,
               Mutates, MutationSucceeds, Elapses, BackoffElapses, Moves, Closes, Finished,
               Eligible, IInv, TypeOK
        <2>3. ASSUME NEW c \in Claimers PROVE NoOlderGlobal(c)' /\ PolicyFollowed(c)'
            <3>1. NoOlderGlobal(c) /\ PolicyFollowed(c)  BY DEF EarlyInv
            <3>2. PolicyFollowed(c)'
                BY <1>1, <1>2, <2>1, <3>1 DEF PolicyFollowed
            <3>3. NoOlderGlobal(c)'
                BY <1>2, <2>1, <2>2, <3>1 DEF NoOlderGlobal, Precedes
            <3>4. QED  BY <3>2, <3>3
        <2>4. QED  BY <2>3 DEF EarlyInv
    <1>5. QED  BY <1>3, <1>4

LEMMA EarlyInvariant == Spec => []EarlyInv
    <1>1. Init => EarlyInv
        <2> SUFFICES ASSUME Init PROVE EarlyInv
            OBVIOUS
        <2>1. \A c \in Claimers : claimer[c].pc = "idle"  BY DEF Init, NoAttempt, Resting
        <2>2. \A c \in Claimers : NoOlderGlobal(c) /\ PolicyFollowed(c)
            BY <2>1 DEF NoOlderGlobal, PolicyFollowed, PastPrecheck, InTransaction
        <2>3. QED  BY <2>2 DEF EarlyInv
    <1>2. IInv /\ EarlyInv /\ [Next]_vars => EarlyInv'
        <2> SUFFICES ASSUME IInv, EarlyInv, [Next]_vars PROVE EarlyInv'
            OBVIOUS
        <2>1. CASE UNCHANGED vars
            BY <2>1, EarlyUndisturbed DEF vars, EarlyInv
        <2>2. QED
            BY <2>1, ClaimStepKeepsEarly, ProcessStepKeepsEarly, TableStepKeepsEarly DEF Next
    <1>3. QED  BY <1>1, <1>2, ClaimInvariant, PTL DEF Spec

\* A step that changes the row of the target of a claimer about to commit,
\* which is queued and locked, is that claimer's commit.
LEMMA ClaimsHoldTarget ==
    ASSUME IInv, NEW c \in Claimers, claimer[c].pc = "commit"
    PROVE  claimer[c].target \in Runs /\ claimer[c].pc \in InTransaction
           /\ claimer[c].pc \in PastPrecheck
    BY AttemptOf DEF InTransaction, PastPrecheck

\* A dataset run is never claimed ahead of an older global run, unless that
\* run became eligible inside the claiming transaction: its backoff elapsed, or
\* it was committed after the precheck.
THEOREM NoOvertaking == Spec => OvertakesOnlyInFlight
    <1>1. IInv /\ EarlyInv =>
            \A c \in Claimers : Claims(c) /\ DatasetOf[claimer[c].target] # Global =>
                \A g \in Runs : /\ DatasetOf[g] = Global /\ Eligible(g)
                                /\ Precedes(g, claimer[c].target)
                                => g \in claimer[c].late
        BY ClaimsHoldTarget DEF Claims, EarlyInv, NoOlderGlobal
    <1>2. QED
        BY <1>1, ClaimInvariant, EarlyInvariant, PTL DEF OvertakesOnlyInFlight

\* A converging process claims nothing but deletions past their mutation.
THEOREM ConvergingClaimsAreDeletions == Spec => ConvergingFinishesDeletions
    <1>1. IInv /\ EarlyInv =>
            \A c \in Claimers : Claims(c) /\ policy[c] = "recovery" =>
                claimer[c].target \in Destructive \cap mutated
        BY ClaimsHoldTarget DEF Claims, EarlyInv, PolicyFollowed
    <1>2. QED
        BY <1>1, ClaimInvariant, EarlyInvariant, PTL DEF ConvergingFinishesDeletions
=============================================================================
