--------------------------- MODULE SubmissionProofs ---------------------------
(***************************************************************************)
(* Proofs about Submission, for any number of requests, keys and faults.   *)
(* The argument: a request has no run before its commit and exactly its    *)
(* own afterwards (HasOwnRun), an uncommitted insert is alone with its key *)
(* (KeyAlone), so a key has one run for good (UniqueKeys); text and files  *)
(* are staged from before the first lookup on (BytesStaged); and whoever   *)
(* passes the barrier passes it while no delete is accepted (LateIsKnown). *)
(* Those who wait, wait for a request that does not (WaitInv).             *)
(***************************************************************************)
EXTENDS Submission, TLAPS

Lock == Requests \cup {None}
TypeOK ==
    /\ run \in [Requests -> Run]
    /\ ingress \subseteq Requests /\ stored \subseteq Requests
    /\ dataset \in {"active", "deleting", "deleted"}
    /\ session \in {"active", "archived"}
    /\ lock \in Lock
    /\ request \in [Requests -> Request]
    /\ late \subseteq Requests

\* Before the commit, and before the answer.
Early == {"new", "load", "stage", "find", "prepare", "lock", "barrier", "insert",
          "inserted", "conflict", "delete"}
Staging == {"find", "prepare", "lock", "barrier", "insert", "inserted"}
HasContent(op) == op \in {"text", "file"}

Unanswered(p) ==
    request[p].pc \in Early \cup {"fresh"} =>
        request[p].outcome = "none" /\ request[p].answer = None
HasOwnRun(p) ==
    /\ At(p, "fresh") => Committed(p)
    /\ request[p].pc \in Early \/ (At(p, "cleanup") /\ request[p].outcome # "error")
          => ~Committed(p)
    /\ Committed(p) => /\ run[p].op = request[p].op
                       /\ run[p].work = request[p].work
                       /\ run[p].key = request[p].key
\* A retry is for the work of the run it retries, which is there for good.
RetriesOriginal(p) ==
    /\ At(p, "load") \/ At(p, "stage") =>
          request[p].key = request[p].of /\ request[p].of \in Requests
    /\ request[p].key \in Requests =>
          /\ Committed(request[p].key)
          /\ request[p].op = run[request[p].key].op
          /\ request[p].work = run[request[p].key].work
    /\ At(p, "delete") => request[p].op = "delete" /\ request[p].key = None
    /\ At(p, "new") => request[p].key = None
KeyAlone(p) ==
    At(p, "inserted") /\ request[p].key # None =>
        Holders(request[p].key) = {} /\ ~KeyInFlight(p)
BytesStaged(p) ==
    /\ request[p].pc \in Staging /\ HasContent(request[p].op) => p \in ingress
    /\ Nonterminal(p) /\ HasContent(run[p].op) => HasBytes(p) \/ request[p].outcome = "error"
    /\ p \in ingress /\ ~Committed(p) =>
          /\ Remembers(request[p].op)
          /\ request[p].pc \notin {"new", "load", "stage", "delete", "await", "done"}
LateIsKnown(p) ==
    /\ /\ At(p, "insert") \/ At(p, "inserted")
       /\ request[p].op \notin {"delete", "everything"} /\ UnderDelete
       => p \in late
    /\ run[p].begun => IsDelete(p) /\ Committed(p) /\ dataset # "active"

RequestInv(p) ==
    /\ Unanswered(p) /\ HasOwnRun(p) /\ RetriesOriginal(p)
    /\ KeyAlone(p) /\ BytesStaged(p) /\ LateIsKnown(p)
UniqueKeys ==
    \A r, s \in Requests :
        Committed(r) /\ Committed(s) /\ run[r].key = run[s].key /\ run[r].key # None => r = s

IInv == TypeOK /\ UniqueKeys /\ \A p \in Requests : RequestInv(p)

-----------------------------------------------------------------------------
(* Types, and what the three kinds of answers do to a request *)

Pcs == {"new", "load", "stage", "find", "prepare", "lock", "barrier", "insert",
        "inserted", "conflict", "fresh", "delete", "cleanup", "await", "done", "dead"}
Outcomes == {"none", "created", "replayed", "refused", "conflict", "unavailable", "error"}

\* What a step of p leaves of its request: what was asked.
SameAsk(p) ==
    /\ request'[p].op = request[p].op /\ request'[p].work = request[p].work
    /\ request'[p].key = request[p].key /\ request'[p].of = request[p].of
Others(p) == \A q \in Requests \ {p} : request'[q] = request[q]

LEMMA GotoFields ==
    ASSUME TypeOK, NEW p \in Requests, NEW pc \in Pcs, Goto(p, pc)
    PROVE  /\ request' \in [Requests -> Request] /\ Others(p) /\ SameAsk(p)
           /\ request'[p].pc = pc
           /\ request'[p].outcome = request[p].outcome
           /\ request'[p].answer = request[p].answer
    <1> DEFINE s == [request[p] EXCEPT !.pc = pc]
    <1>1. request[p] \in Request  BY DEF TypeOK
    <1>2. s \in Request  BY <1>1 DEF Request, Pcs
    <1>3. /\ s.pc = pc /\ s.op = request[p].op /\ s.work = request[p].work
          /\ s.key = request[p].key /\ s.of = request[p].of
          /\ s.outcome = request[p].outcome /\ s.answer = request[p].answer
        BY <1>1 DEF Request
    <1>4. request' = [request EXCEPT ![p] = s]  BY DEF Goto, TypeOK
    <1> HIDE DEF s
    <1>5. QED  BY <1>2, <1>3, <1>4 DEF TypeOK, Others, SameAsk

LEMMA AnswerTypes ==
    ASSUME NEW s \in Request, NEW pc \in Pcs, NEW o \in Outcomes, NEW r \in Requests,
           NEW st \in {"none", "pending"} \cup Terminal
    PROVE  /\ [s EXCEPT !.outcome = o, !.pc = pc] \in Request
           /\ [s EXCEPT !.outcome = o, !.answer = r, !.status = st, !.pc = pc] \in Request
    <1> DEFINE T == {"none", "pending"} \cup Terminal
    <1>1. Request = [pc : Pcs, op : Ops, work : Works, key : Keys \cup Requests \cup {None},
                     session : BOOLEAN, wait : BOOLEAN, of : Requests \cup {None},
                     seen : {"active", "archived"}, outcome : Outcomes,
                     answer : Requests \cup {None}, status : T]
        BY DEF Request, Pcs, Outcomes
    <1>2. st \in T  OBVIOUS
    <1> HIDE DEF T
    <1>3. QED  BY <1>1, <1>2

LEMMA RefuseFields ==
    ASSUME TypeOK, NEW p \in Requests, NEW o \in Outcomes, Refuse(p, o)
    PROVE  /\ request' \in [Requests -> Request] /\ Others(p) /\ SameAsk(p)
           /\ request'[p].pc = IF Remembers(request[p].op) THEN "cleanup" ELSE "done"
           /\ request'[p].outcome = o
           /\ request'[p].answer = request[p].answer
    <1> DEFINE pc == IF Remembers(request[p].op) THEN "cleanup" ELSE "done"
               s == [request[p] EXCEPT !.outcome = o, !.pc = pc]
    <1>1. request[p] \in Request  BY DEF TypeOK
    <1>2. pc \in Pcs  BY DEF Pcs
    <1>3. request' = [request EXCEPT ![p] = s]  BY DEF Refuse, TypeOK
    <1>4. request'[p].pc = pc => request'[p].pc = IF Remembers(request[p].op) THEN "cleanup" ELSE "done"
        OBVIOUS
    <1> HIDE DEF pc
    <1>5. s \in Request
        BY <1>1, <1>2, AnswerTypes
    <1>6. /\ s.pc = pc /\ s.op = request[p].op /\ s.work = request[p].work
          /\ s.key = request[p].key /\ s.of = request[p].of
          /\ s.outcome = o /\ s.answer = request[p].answer
        BY <1>1 DEF Request
    <1> HIDE DEF s
    <1>7. QED  BY <1>3, <1>4, <1>5, <1>6 DEF TypeOK, Others, SameAsk

LEMMA ReportedType ==
    ASSUME NEW r \in Requests
    PROVE  Reported(r) \in {"none", "pending"} \cup Terminal
    BY DEF Reported

LEMMA RespondFields ==
    ASSUME TypeOK, NEW p \in Requests, NEW r \in Requests, NEW o \in Outcomes, Respond(p, r, o)
    PROVE  /\ request' \in [Requests -> Request] /\ Others(p) /\ SameAsk(p)
           /\ request'[p].pc \in {"cleanup", "await", "done"}
           /\ request'[p].pc = "cleanup" <=> o # "created" /\ Remembers(request[p].op)
           /\ request'[p].outcome = o
           /\ request'[p].answer = r
    <1> DEFINE pc == IF o # "created" /\ Remembers(request[p].op) THEN "cleanup"
                     ELSE IF request[p].wait /\ run[r].status \notin Terminal
                          THEN "await" ELSE "done"
               s == [request[p] EXCEPT !.outcome = o, !.answer = r, !.status = Reported(r),
                                       !.pc = pc]
    <1>1. request[p] \in Request  BY DEF TypeOK
    <1>2. pc \in Pcs  BY DEF Pcs
    <1>3. request' = [request EXCEPT ![p] = s]  BY DEF Respond, TypeOK
    <1>4. /\ pc \in {"cleanup", "await", "done"}
          /\ pc = "cleanup" <=> o # "created" /\ Remembers(request[p].op)
        OBVIOUS
    <1> HIDE DEF pc
    <1>5. s \in Request
        BY <1>1, <1>2, ReportedType, AnswerTypes
    <1>6. /\ s.pc = pc /\ s.op = request[p].op /\ s.work = request[p].work
          /\ s.key = request[p].key /\ s.of = request[p].of
          /\ s.outcome = o /\ s.answer = r
        BY <1>1 DEF Request
    <1> HIDE DEF s
    <1>7. QED  BY <1>3, <1>4, <1>5, <1>6 DEF TypeOK, Others, SameAsk

\* A step of one request disturbs nothing the invariant says of another: an
\* insert under its key is excluded on both sides.
LEMMA RequestStepKeeps ==
    ASSUME IInv, NEW p \in Requests, TypeOK', Others(p),
           \A q \in Requests \ {p} : q \in ingress' <=> q \in ingress,
           UNCHANGED <<run, stored, dataset, late>>,
           RequestInv(p)'
    PROVE  IInv'
    <1>1. ASSUME NEW q \in Requests, q # p PROVE RequestInv(q)'
        <2>1. request'[q] = request[q] /\ RequestInv(q)  BY <1>1 DEF Others, IInv
        <2>2. Unanswered(q)' /\ HasOwnRun(q)' /\ RetriesOriginal(q)'
            BY <2>1 DEF RequestInv, Unanswered, HasOwnRun, RetriesOriginal, At, Committed
        <2>3. KeyAlone(q)'
            <3>1. SUFFICES ASSUME At(q, "inserted")', request[q].key # None
                           PROVE  Holders(request[q].key)' = {} /\ ~KeyInFlight(q)'
                BY <2>1 DEF KeyAlone, Holders, Committed
            <3>2. KeyAlone(q) /\ At(q, "inserted")  BY <2>1, <3>1 DEF RequestInv, At
            <3>3. ~(At(p, "inserted")' /\ request'[p].key = request[q].key)
                BY <1>1, <2>1, <3>1 DEF RequestInv, KeyAlone, KeyInFlight, At
            <3>4. QED
                BY <1>1, <2>1, <3>1, <3>2, <3>3
                DEF KeyAlone, KeyInFlight, Holders, Committed, At, Others
        <2>4. BytesStaged(q)'
            BY <1>1, <2>1 DEF RequestInv, BytesStaged, HasBytes, Nonterminal, Committed
        <2>5. LateIsKnown(q)'
            BY <2>1 DEF RequestInv, LateIsKnown, UnderDelete, IsDelete, Nonterminal, Committed, At
        <2>6. QED  BY <2>2, <2>3, <2>4, <2>5 DEF RequestInv
    <1>2. UniqueKeys'  BY DEF IInv, UniqueKeys, Committed
    <1>3. QED  BY <1>1, <1>2 DEF IInv

-----------------------------------------------------------------------------
(* One request: before its commit, refused or answered, after its commit *)

LEMMA EarlyFacts ==
    ASSUME IInv, NEW p \in Requests, request[p].pc \in Early
    PROVE  /\ ~Committed(p) /\ request[p].outcome = "none" /\ request[p].answer = None
           /\ p \in ingress => Remembers(request[p].op)
    BY DEF IInv, RequestInv, HasOwnRun, Unanswered, BytesStaged

\* Nothing is said of the run of a request that has none.
LEMMA NoRunNoClaim ==
    ASSUME IInv, NEW p \in Requests, ~Committed(p)
    PROVE  ~Nonterminal(p) /\ ~run[p].begun
    BY DEF IInv, RequestInv, LateIsKnown, Committed, Nonterminal

LEMMA GoesOnInv ==
    ASSUME IInv, NEW p \in Requests, ~Committed(p),
           UNCHANGED <<run, stored, dataset, late>>, SameAsk(p),
           request'[p].pc \in Staging \cup {"conflict"},
           request'[p].outcome = "none", request'[p].answer = None,
           HasContent(request[p].op) => p \in ingress',
           p \in ingress' => Remembers(request[p].op),
           request'[p].pc = "inserted" => KeyAlone(p)',
           request'[p].pc \in {"insert", "inserted"}
              /\ request[p].op \notin {"delete", "everything"} /\ UnderDelete
              => p \in late
    PROVE  RequestInv(p)'
    <1>1. ~Nonterminal(p) /\ ~run[p].begun  BY NoRunNoClaim
    <1>2. Unanswered(p)'  BY DEF Unanswered
    <1>3. HasOwnRun(p)'  BY DEF HasOwnRun, Committed, At, Staging
    <1>4. RetriesOriginal(p)'
        BY DEF IInv, RequestInv, RetriesOriginal, SameAsk, Committed, At, Staging
    <1>5. KeyAlone(p)'  BY DEF KeyAlone, At
    <1>6. BytesStaged(p)'
        BY <1>1 DEF BytesStaged, SameAsk, Nonterminal, Staging
    <1>7. LateIsKnown(p)'
        BY <1>1 DEF LateIsKnown, SameAsk, At, UnderDelete, IsDelete, Nonterminal
    <1>8. QED  BY <1>2, <1>3, <1>4, <1>5, <1>6, <1>7 DEF RequestInv

LEMMA EndedInv ==
    ASSUME IInv, NEW p \in Requests, ~Committed(p),
           UNCHANGED <<run, ingress, stored, dataset, late>>, SameAsk(p),
           request'[p].pc \in {"cleanup", "await", "done"},
           p \in ingress => request'[p].pc = "cleanup" /\ Remembers(request[p].op)
    PROVE  RequestInv(p)'
    <1>1. ~Nonterminal(p) /\ ~run[p].begun  BY NoRunNoClaim
    <1>2. Unanswered(p)' /\ KeyAlone(p)'  BY DEF Unanswered, KeyAlone, Early, At
    <1>3. HasOwnRun(p)'  BY DEF HasOwnRun, Committed, At
    <1>4. RetriesOriginal(p)'
        BY DEF IInv, RequestInv, RetriesOriginal, SameAsk, Committed, At
    <1>5. BytesStaged(p)'  BY <1>1 DEF BytesStaged, SameAsk, Nonterminal, Staging
    <1>6. LateIsKnown(p)'  BY <1>1 DEF LateIsKnown, At
    <1>7. QED  BY <1>2, <1>3, <1>4, <1>5, <1>6 DEF RequestInv

LEMMA CommittedInv ==
    ASSUME IInv, NEW p \in Requests, Committed(p),
           UNCHANGED <<run, ingress, stored, dataset, late>>, SameAsk(p),
           request'[p].pc \in {"cleanup", "await", "done"},
           request'[p].pc = "cleanup" => request'[p].outcome = "error",
           request[p].outcome = "error" => request'[p].outcome = "error"
    PROVE  RequestInv(p)'
    <1>1. Unanswered(p)' /\ KeyAlone(p)'  BY DEF Unanswered, KeyAlone, Early, At
    <1>2. HasOwnRun(p)'
        BY DEF IInv, RequestInv, HasOwnRun, Committed, At, SameAsk, Early
    <1>3. RetriesOriginal(p)'
        BY DEF IInv, RequestInv, RetriesOriginal, SameAsk, Committed, At
    <1>4. BytesStaged(p)'
        BY DEF IInv, RequestInv, BytesStaged, SameAsk, Nonterminal, Committed, HasBytes, Staging
    <1>5. LateIsKnown(p)'
        BY DEF IInv, RequestInv, LateIsKnown, At, IsDelete, Committed
    <1>6. QED  BY <1>1, <1>2, <1>3, <1>4, <1>5 DEF RequestInv

-----------------------------------------------------------------------------
(* Submission, statement by statement *)

LEMMA RefuseKeeps ==
    ASSUME IInv, NEW p \in Requests, NEW o \in Outcomes,
           request[p].pc \in Early, Refuse(p, o), lock' \in Lock,
           UNCHANGED <<run, ingress, stored, dataset, session, late>>
    PROVE  IInv'
    <1>1. TypeOK  BY DEF IInv
    <1>2. /\ request' \in [Requests -> Request] /\ Others(p) /\ SameAsk(p)
          /\ request'[p].pc = IF Remembers(request[p].op) THEN "cleanup" ELSE "done"
        BY <1>1, RefuseFields
    <1>3. TypeOK'  BY <1>1, <1>2 DEF TypeOK
    <1>4. RequestInv(p)'  BY <1>2, EarlyFacts, EndedInv
    <1>5. QED  BY <1>2, <1>3, <1>4, RequestStepKeeps

LEMMA ReplayKeeps ==
    ASSUME IInv, NEW p \in Requests, NEW r \in Requests, NEW o \in Outcomes \ {"created"},
           request[p].pc \in Early, Respond(p, r, o), lock' \in Lock,
           UNCHANGED <<run, ingress, stored, dataset, session, late>>
    PROVE  IInv'
    <1>1. TypeOK  BY DEF IInv
    <1>2. /\ request' \in [Requests -> Request] /\ Others(p) /\ SameAsk(p)
          /\ request'[p].pc \in {"cleanup", "await", "done"}
          /\ request'[p].pc = "cleanup" <=> o # "created" /\ Remembers(request[p].op)
        BY <1>1, RespondFields
    <1>3. TypeOK'  BY <1>1, <1>2 DEF TypeOK
    <1>4. RequestInv(p)'  BY <1>2, EarlyFacts, EndedInv
    <1>5. QED  BY <1>2, <1>3, <1>4, RequestStepKeeps

LEMMA ResolveKeeps ==
    ASSUME IInv, NEW p \in Requests, NEW r \in Requests,
           request[p].pc \in Early, Resolve(p, r), UNCHANGED <<tables, lock>>
    PROVE  IInv'
    <1>1. lock' \in Lock  BY DEF IInv, TypeOK
    <1>2. QED
        BY <1>1, RefuseKeeps, ReplayKeeps DEF Resolve, tables, Outcomes

\* A move to the next statement.
LEMMA GotoKeeps ==
    ASSUME IInv, NEW p \in Requests, NEW pc \in Staging \cup {"conflict"},
           request[p].pc \in Staging, Goto(p, pc), lock' \in Lock,
           UNCHANGED <<run, ingress, stored, dataset, session, late>>,
           pc = "inserted" => KeyAlone(p)',
           pc \in {"insert", "inserted"}
              /\ request[p].op \notin {"delete", "everything"} /\ UnderDelete
              => p \in late
    PROVE  IInv'
    <1>1. TypeOK  BY DEF IInv
    <1>2. pc \in Pcs /\ request[p].pc \in Early  BY DEF Pcs, Staging, Early
    <1>3. /\ request' \in [Requests -> Request] /\ Others(p) /\ SameAsk(p)
          /\ request'[p].pc = pc
          /\ request'[p].outcome = request[p].outcome
          /\ request'[p].answer = request[p].answer
        BY <1>1, <1>2, GotoFields
    <1>4. TypeOK'  BY <1>1, <1>3 DEF TypeOK
    <1>5. HasContent(request[p].op) => p \in ingress
        BY DEF IInv, RequestInv, BytesStaged
    <1>6. RequestInv(p)'  BY <1>2, <1>3, <1>5, EarlyFacts, GoesOnInv
    <1>7. QED  BY <1>3, <1>4, <1>6, RequestStepKeeps

LEMMA FindByKeyKeeps ==
    ASSUME IInv, NEW p \in Requests, FindByKey(p)
    PROVE  IInv'
    <1>1. request[p].pc \in Staging /\ request[p].pc \in Early /\ lock' \in Lock
        BY DEF FindByKey, At, Staging, Early, IInv, TypeOK
    <1>2. CASE Gate(p)
        BY <1>1, <1>2, GotoKeeps, RefuseKeeps DEF FindByKey, Gate, tables, Staging, Outcomes
    <1>3. ASSUME NEW r \in Requests, Resolve(p, r) PROVE IInv'
        BY <1>1, <1>3, ResolveKeeps DEF FindByKey
    <1>4. QED  BY <1>2, <1>3 DEF FindByKey, Holders

LEMMA PrepareKeeps ==
    ASSUME IInv, NEW p \in Requests, Prepare(p)
    PROVE  IInv'
    <1>1. /\ request[p].pc \in Staging /\ request[p].pc \in Early
          /\ request[p] \in Request /\ lock' \in Lock
          /\ UNCHANGED <<run, ingress, stored, dataset, session, late>>
        BY DEF Prepare, At, Staging, Early, IInv, TypeOK, tables
    <1>2. CASE Refuse(p, "refused")
        BY <1>1, <1>2, RefuseKeeps DEF Outcomes
    <1>3. CASE Goto(p, "barrier")
        BY <1>1, <1>3, GotoKeeps DEF Staging
    <1>4. CASE request' = [request EXCEPT ![p].pc = "lock", ![p].seen = session]
        <2> DEFINE s == [request[p] EXCEPT !.pc = "lock", !.seen = session]
        <2>1. session \in {"active", "archived"}  BY DEF IInv, TypeOK
        <2>2. s \in Request  BY <1>1, <2>1 DEF Request
        <2>3. /\ s.pc = "lock" /\ s.op = request[p].op /\ s.work = request[p].work
              /\ s.key = request[p].key /\ s.of = request[p].of
              /\ s.outcome = request[p].outcome /\ s.answer = request[p].answer
            BY <1>1 DEF Request
        <2>4. request' = [request EXCEPT ![p] = s]  BY <1>4 DEF IInv, TypeOK
        <2> HIDE DEF s
        <2>5. /\ request' \in [Requests -> Request] /\ Others(p) /\ SameAsk(p)
              /\ request'[p] = s
            BY <2>2, <2>3, <2>4 DEF IInv, TypeOK, Others, SameAsk
        <2>6. TypeOK'  BY <1>1, <2>5 DEF IInv, TypeOK
        <2>7. HasContent(request[p].op) => p \in ingress
            BY <1>1 DEF IInv, RequestInv, BytesStaged
        <2>8. RequestInv(p)'
            BY <1>1, <2>3, <2>5, <2>7, EarlyFacts, GoesOnInv DEF Staging
        <2>9. QED  BY <1>1, <2>5, <2>6, <2>8, RequestStepKeeps
    <1>5. QED  BY <1>2, <1>3, <1>4 DEF Prepare

LEMMA ReleaseType ==
    ASSUME TypeOK, NEW p \in Requests, Release(p)
    PROVE  lock' \in Lock
    BY DEF TypeOK, Release, Lock

LEMMA LockSessionKeeps ==
    ASSUME IInv, NEW p \in Requests, LockSession(p)
    PROVE  IInv'
    <1>1. /\ request[p].pc \in Staging /\ request[p].pc \in Early
          /\ lock' \in Lock
          /\ UNCHANGED <<run, ingress, stored, dataset, session, late>>
        BY DEF LockSession, At, Staging, Early, IInv, TypeOK, tables, Lock
    <1>2. CASE Refuse(p, "refused")  BY <1>1, <1>2, RefuseKeeps DEF Outcomes
    <1>3. CASE Goto(p, "barrier")  BY <1>1, <1>3, GotoKeeps DEF Staging
    <1>4. QED  BY <1>2, <1>3 DEF LockSession

\* While a delete is accepted, or after it, the barrier lets nobody through.
LEMMA BarrierHolds ==
    ASSUME IInv, NEW p \in Requests, ~RaisesBlocked(p),
           request[p].op \notin {"delete", "everything"}
    PROVE  ~UnderDelete
    <1>1. dataset # "deleted" /\ PendingDeletes = {}
          /\ ~(dataset = "deleting" /\ DeleteOwnsDataset)
        BY DEF RaisesBlocked, Blocked
    <1>2. ASSUME NEW r \in Requests, IsDelete(r), run[r].begun PROVE FALSE
        <2>1. Committed(r) /\ dataset # "active"
            BY <1>2 DEF IInv, RequestInv, LateIsKnown
        <2>2. DeleteOwnsDataset  BY <1>2, <2>1 DEF DeleteOwnsDataset
        <2>3. QED  BY <1>1, <2>1, <2>2 DEF IInv, TypeOK
    <1>3. QED  BY <1>1, <1>2 DEF UnderDelete, PendingDeletes

LEMMA BarrierKeeps ==
    ASSUME IInv, NEW p \in Requests, Barrier(p)
    PROVE  IInv'
    <1>1. /\ request[p].pc \in Staging /\ request[p].pc \in Early
          /\ lock' \in Lock
          /\ UNCHANGED <<run, ingress, stored, dataset, session, late>>
        BY ReleaseType DEF Barrier, At, Staging, Early, IInv, TypeOK, tables
    <1>2. CASE RaisesBlocked(p)  BY <1>1, <1>2, RefuseKeeps DEF Barrier, Outcomes
    <1>3. CASE ~RaisesBlocked(p)
        <2>1. Goto(p, "insert")  BY <1>3 DEF Barrier
        <2>2. QED  BY <1>1, <1>3, <2>1, BarrierHolds, GotoKeeps DEF Staging
    <1>4. QED  BY <1>2, <1>3

\* The unique index: nobody holds the key and nobody else is inserting it.
LEMMA InsertKeeps ==
    ASSUME IInv, NEW p \in Requests, Insert(p)
    PROVE  IInv'
    <1>1. /\ request[p].pc = "insert" /\ request[p].pc \in Staging
          /\ lock' \in Lock
          /\ UNCHANGED <<run, ingress, stored, dataset, session, late>>
        BY ReleaseType DEF Insert, At, Staging, IInv, TypeOK, tables
    <1>2. CASE Goto(p, "conflict")  BY <1>1, <1>2, GotoKeeps DEF Staging
    <1>3. CASE Goto(p, "inserted") /\ ~UniqueViolation(p)
        <2>1. Others(p) /\ SameAsk(p)
            BY <1>3, GotoFields DEF IInv, Pcs
        <2>2. ~KeyInFlight(p)'
            BY <2>1 DEF Insert, KeyInFlight, At, Others, SameAsk
        <2>3. KeyAlone(p)'
            BY <1>1, <1>3, <2>1, <2>2 DEF KeyAlone, UniqueViolation, Holders, Committed, SameAsk
        <2>4. request[p].op \notin {"delete", "everything"} /\ UnderDelete => p \in late
            BY <1>1 DEF IInv, RequestInv, LateIsKnown, At
        <2>5. QED  BY <1>1, <1>3, <2>3, <2>4, GotoKeeps DEF Staging
    <1>4. QED  BY <1>2, <1>3 DEF Insert

\* The second lookup finds the winner's run.
LEMMA FindAfterConflictKeeps ==
    ASSUME IInv, NEW p \in Requests, FindAfterConflict(p)
    PROVE  IInv'
    <1>1. request[p].pc \in Early  BY DEF FindAfterConflict, At, Early
    <1>2. PICK r \in Requests : Resolve(p, r)  BY DEF FindAfterConflict, Holders
    <1>3. QED  BY <1>1, <1>2, ResolveKeeps DEF FindAfterConflict

LEMMA FreshReadKeeps ==
    ASSUME IInv, NEW p \in Requests, FreshRead(p)
    PROVE  IInv'
    <1>1. TypeOK /\ Committed(p) /\ request[p].outcome = "none"
        BY DEF FreshRead, IInv, RequestInv, HasOwnRun, Unanswered, At
    <1>2. /\ request' \in [Requests -> Request] /\ Others(p) /\ SameAsk(p)
          /\ request'[p].pc \in {"cleanup", "await", "done"}
          /\ request'[p].pc = "cleanup" <=> "created" # "created" /\ Remembers(request[p].op)
        BY <1>1, RespondFields DEF FreshRead, Outcomes
    <1>3. TypeOK' /\ UNCHANGED <<run, ingress, stored, dataset, late>>
        BY <1>1, <1>2 DEF TypeOK, FreshRead, tables
    <1>4. RequestInv(p)'  BY <1>1, <1>2, <1>3, CommittedInv
    <1>5. QED  BY <1>2, <1>3, <1>4, RequestStepKeeps

\* The candidate's bytes go, and its own only: it has no run, or its client was
\* told of an error.
LEMMA CleanupKeeps ==
    ASSUME IInv, NEW p \in Requests, Cleanup(p)
    PROVE  IInv'
    <1>1. TypeOK  BY DEF IInv
    <1>2. AfterCleanup(p) \in {"await", "done"}  BY DEF AfterCleanup
    <1>3. /\ request' \in [Requests -> Request] /\ Others(p) /\ SameAsk(p)
          /\ request'[p].pc \in {"await", "done"}
          /\ request'[p].outcome = request[p].outcome
        BY <1>1, <1>2, GotoFields DEF Cleanup, Pcs
    <1>4. /\ TypeOK' /\ p \notin ingress'
          /\ \A q \in Requests \ {p} : q \in ingress' <=> q \in ingress
        BY <1>1, <1>3 DEF TypeOK, Cleanup
    <1>5. ~Committed(p) \/ request[p].outcome = "error"
        BY DEF Cleanup, IInv, RequestInv, HasOwnRun
    <1>6. RequestInv(p)'
        <2>1. Unanswered(p)' /\ KeyAlone(p)' /\ HasOwnRun(p)' /\ RetriesOriginal(p)'
            BY <1>3 DEF Cleanup, IInv, RequestInv, Unanswered, KeyAlone, HasOwnRun,
                        RetriesOriginal, SameAsk, Committed, At, Early
        <2>2. BytesStaged(p)'
            BY <1>3, <1>4, <1>5
            DEF Cleanup, BytesStaged, SameAsk, Nonterminal, Committed, HasBytes, Staging
        <2>3. LateIsKnown(p)'
            BY <1>3 DEF Cleanup, IInv, RequestInv, LateIsKnown, At, IsDelete, Committed
        <2>4. QED  BY <2>1, <2>2, <2>3 DEF RequestInv
    <1>7. QED  BY <1>3, <1>4, <1>6, RequestStepKeeps DEF Cleanup

\* The waiter ends with what it last read.
LEMMA WaitEndsKeeps ==
    ASSUME IInv, NEW p \in Requests, Poll(p) \/ Deadline(p)
    PROVE  IInv'
    <1> DEFINE st == Reported(request[p].answer)
               s == [request[p] EXCEPT !.pc = "done", !.status = st]
    <1>1. TypeOK /\ request[p] \in Request  BY DEF IInv, TypeOK
    <1>2. st \in {"none", "pending"} \cup Terminal  BY DEF Reported
    <1>3. request' = [request EXCEPT ![p] = s]  BY <1>1 DEF Poll, Deadline, TypeOK
    <1> HIDE DEF st
    <1>4. s \in Request  BY <1>1, <1>2 DEF Request
    <1>5. /\ s.pc = "done" /\ s.op = request[p].op /\ s.work = request[p].work
          /\ s.key = request[p].key /\ s.of = request[p].of
          /\ s.outcome = request[p].outcome
        BY <1>1 DEF Request
    <1> HIDE DEF s
    <1>6. request' \in [Requests -> Request] /\ Others(p) /\ SameAsk(p) /\ request'[p] = s
        BY <1>1, <1>3, <1>4, <1>5 DEF TypeOK, Others, SameAsk
    <1>7. TypeOK' /\ UNCHANGED <<run, ingress, stored, dataset, late>>
        BY <1>1, <1>6 DEF TypeOK, Poll, Deadline, tables
    <1>8. At(p, "await")  BY DEF Poll, Deadline
    <1>9. RequestInv(p)'
        <2>1. CASE Committed(p)  BY <1>5, <1>6, <1>7, <2>1, CommittedInv
        <2>2. CASE ~Committed(p)
            <3>1. p \notin ingress  BY <1>8, <2>2 DEF IInv, RequestInv, BytesStaged, At
            <3>2. QED  BY <1>5, <1>6, <1>7, <2>2, <3>1, EndedInv
        <2>3. QED  BY <2>1, <2>2
    <1>10. QED  BY <1>6, <1>7, <1>9, RequestStepKeeps

-----------------------------------------------------------------------------
(* A run comes into being *)

LEMMA NewRowType ==
    ASSUME TypeOK, NEW p \in Requests
    PROVE  NewRow(p) \in Run
    <1>1. request[p] \in Request  BY DEF TypeOK
    <1>2. QED  BY <1>1 DEF NewRow, Request, Run, RunStatuses

LEMMA CreateKeeps ==
    ASSUME IInv, NEW p \in Requests, At(p, "inserted") \/ At(p, "delete"),
           run' = [run EXCEPT ![p] = NewRow(p)],
           late' = IF request[p].op = "delete" THEN late \cup PastBarrier ELSE late,
           Goto(p, "fresh"), lock' \in Lock,
           UNCHANGED <<ingress, stored, dataset, session>>
    PROVE  IInv'
    <1>1. TypeOK /\ ~Committed(p) /\ request[p].outcome = "none" /\ request[p].answer = None
        BY EarlyFacts DEF IInv, At, Early
    <1>2. /\ request' \in [Requests -> Request] /\ Others(p) /\ SameAsk(p)
          /\ request'[p].pc = "fresh"
          /\ request'[p].outcome = "none" /\ request'[p].answer = None
        BY <1>1, GotoFields DEF Pcs
    <1>3. late' \subseteq Requests /\ late \subseteq late'
        BY <1>1 DEF TypeOK, PastBarrier
    <1>4. TypeOK'  BY <1>1, <1>2, <1>3, NewRowType DEF TypeOK
    <1>5. /\ run'[p].status = "queued" /\ run'[p].op = request[p].op
          /\ run'[p].work = request[p].work /\ run'[p].key = request[p].key
          /\ run'[p].begun = FALSE
          /\ \A q \in Requests \ {p} : run'[q] = run[q]
        BY <1>1 DEF TypeOK, NewRow
    <1>6. request[p].key # None => Holders(request[p].key) = {} /\ ~KeyInFlight(p)
        BY DEF IInv, RequestInv, KeyAlone, RetriesOriginal, At
    <1>7. UniqueKeys'
        <2>1. SUFFICES ASSUME NEW r \in Requests, NEW s \in Requests,
                              Committed(r)', Committed(s)',
                              run'[r].key = run'[s].key, run'[r].key # None
                       PROVE  r = s
            BY DEF UniqueKeys
        <2>2. CASE r # p /\ s # p
            BY <1>5, <2>1, <2>2 DEF IInv, UniqueKeys, Committed
        <2>3. CASE r = p /\ s # p
            BY <1>5, <1>6, <2>1, <2>3 DEF Committed, Holders
        <2>4. CASE s = p /\ r # p
            BY <1>5, <1>6, <2>1, <2>4 DEF Committed, Holders
        <2>5. QED  BY <2>2, <2>3, <2>4
    <1>8. ASSUME NEW q \in Requests, q # p PROVE RequestInv(q)'
        <2>1. request'[q] = request[q] /\ run'[q] = run[q] /\ RequestInv(q)
            BY <1>2, <1>5, <1>8 DEF Others, IInv
        <2>2. Unanswered(q)' /\ HasOwnRun(q)' /\ BytesStaged(q)'
            BY <2>1 DEF RequestInv, Unanswered, HasOwnRun, BytesStaged, At, Committed,
                        Nonterminal, HasBytes
        <2>3. RetriesOriginal(q)'
            BY <1>1, <1>5, <2>1 DEF RequestInv, RetriesOriginal, At, Committed
        <2>4. KeyAlone(q)'
            <3>1. SUFFICES ASSUME At(q, "inserted"), request[q].key # None
                           PROVE  Holders(request[q].key)' = {} /\ ~KeyInFlight(q)'
                BY <2>1 DEF KeyAlone, At, Holders, Committed
            <3>2. Holders(request[q].key) = {} /\ ~KeyInFlight(q)
                BY <2>1, <3>1 DEF RequestInv, KeyAlone
            <3>3. request[p].key # request[q].key
                BY <1>6, <1>8, <3>1 DEF KeyInFlight
            <3>4. ~KeyInFlight(q)'
                BY <1>2, <2>1, <3>1, <3>2 DEF KeyInFlight, At, Others
            <3>5. Holders(request[q].key)' = {}
                BY <1>5, <2>1, <3>2, <3>3 DEF Holders, Committed
            <3>6. QED  BY <3>4, <3>5
        <2>5. LateIsKnown(q)'
            <3>1. /\ run'[q].begun => (IsDelete(q) /\ Committed(q) /\ dataset # "active")'
                BY <2>1 DEF RequestInv, LateIsKnown, IsDelete, Committed
            <3>2. CASE request[p].op = "delete"
                <4>1. At(q, "insert") \/ At(q, "inserted") => q \in late'
                    BY <3>2 DEF PastBarrier, At
                <4>2. QED  BY <2>1, <3>1, <4>1 DEF LateIsKnown, At
            <3>3. CASE request[p].op # "delete"
                <4>1. UnderDelete' => UnderDelete
                    BY <1>5, <3>3 DEF UnderDelete, IsDelete, Nonterminal
                <4>2. QED
                    BY <1>3, <2>1, <3>1, <4>1 DEF RequestInv, LateIsKnown, At
            <3>4. QED  BY <3>2, <3>3
        <2>6. QED  BY <2>2, <2>3, <2>4, <2>5 DEF RequestInv
    <1>9. RequestInv(p)'
        <2>1. Unanswered(p)' /\ KeyAlone(p)' /\ HasOwnRun(p)'
            BY <1>2, <1>5 DEF Unanswered, KeyAlone, HasOwnRun, SameAsk, Committed, At, Early
        <2>2. RetriesOriginal(p)'
            BY <1>1, <1>2, <1>5 DEF IInv, RequestInv, RetriesOriginal, SameAsk, Committed, At
        <2>3. BytesStaged(p)'
            <3>1. HasContent(request[p].op) => p \in ingress
                BY DEF IInv, RequestInv, BytesStaged, RetriesOriginal, HasContent, At, Staging
            <3>2. QED
                BY <1>2, <1>5, <3>1 DEF BytesStaged, SameAsk, Committed, HasBytes, Staging
        <2>4. LateIsKnown(p)'  BY <1>2, <1>5 DEF LateIsKnown, At
        <2>5. QED  BY <2>1, <2>2, <2>3, <2>4 DEF RequestInv
    <1>10. QED  BY <1>4, <1>7, <1>8, <1>9 DEF IInv

LEMMA CommitKeeps ==
    ASSUME IInv, NEW p \in Requests, Commit(p)
    PROVE  IInv'
    BY CreateKeeps, ReleaseType DEF Commit, IInv

\* request_delete: found again, refused, or accepted.
LEMMA RequestDeleteKeeps ==
    ASSUME IInv, NEW p \in Requests, RequestDelete(p)
    PROVE  IInv'
    <1>1. /\ request[p].pc \in Early /\ At(p, "delete") /\ lock' \in Lock
          /\ request[p].op = "delete"
          /\ UNCHANGED <<ingress, stored, dataset, session>>
        BY DEF RequestDelete, At, Early, IInv, TypeOK, RequestInv, RetriesOriginal
    <1>2. ASSUME NEW r \in Requests, Respond(p, r, "replayed"), UNCHANGED <<run, late>>
          PROVE  IInv'
        BY <1>1, <1>2, ReplayKeeps DEF Outcomes
    <1>3. ASSUME NEW o \in {"refused", "unavailable"}, Refuse(p, o), UNCHANGED <<run, late>>
          PROVE  IInv'
        BY <1>1, <1>3, RefuseKeeps DEF Outcomes
    <1>4. ASSUME run' = [run EXCEPT ![p] = NewRow(p)], late' = late \cup PastBarrier,
                 Goto(p, "fresh")
          PROVE  IInv'
        BY <1>1, <1>4, CreateKeeps
    <1>5. QED  BY <1>2, <1>3, <1>4 DEF RequestDelete, PendingDeletes

-----------------------------------------------------------------------------
(* Manual retry *)

LEMMA LoadOriginalKeeps ==
    ASSUME IInv, NEW p \in Requests, LoadOriginal(p)
    PROVE  IInv'
    <1>1. /\ TypeOK /\ request[p] \in Request
          /\ At(p, "load") /\ request[p].pc \in Early
          /\ UNCHANGED <<run, ingress, stored, dataset, session, late, lock>>
        BY DEF LoadOriginal, IInv, TypeOK, At, Early, tables
    <1>2. /\ ~Committed(p) /\ p \notin ingress
          /\ request[p].outcome = "none" /\ request[p].answer = None
        BY <1>1, EarlyFacts DEF IInv, RequestInv, BytesStaged, At
    <1>3. CASE Goto(p, "stage")
        <2>1. /\ request' \in [Requests -> Request] /\ Others(p) /\ SameAsk(p)
              /\ request'[p].pc = "stage"
              /\ request'[p].outcome = "none" /\ request'[p].answer = None
            BY <1>1, <1>2, <1>3, GotoFields DEF Pcs
        <2>2. TypeOK'  BY <1>1, <2>1 DEF TypeOK
        <2>3. RequestInv(p)'
            <3>1. ~Nonterminal(p) /\ ~run[p].begun  BY <1>2, NoRunNoClaim
            <3>2. Unanswered(p)' /\ KeyAlone(p)' /\ HasOwnRun(p)'
                BY <1>1, <1>2, <2>1 DEF Unanswered, KeyAlone, HasOwnRun, Committed, At
            <3>3. RetriesOriginal(p)'
                BY <1>1, <2>1 DEF IInv, RequestInv, RetriesOriginal, SameAsk, Committed, At
            <3>4. BytesStaged(p)' /\ LateIsKnown(p)'
                BY <1>1, <1>2, <2>1, <3>1
                DEF BytesStaged, LateIsKnown, Nonterminal, Staging, At
            <3>5. QED  BY <3>2, <3>3, <3>4 DEF RequestInv
        <2>4. QED  BY <1>1, <2>1, <2>2, <2>3, RequestStepKeeps
    <1>4. ASSUME NEW s \in Request, request' = [request EXCEPT ![p] = s],
                 s.pc = "done", s.op = request[p].op, s.work = request[p].work,
                 s.key = request[p].key, s.of = request[p].of
          PROVE  IInv'
        <2>1. /\ request' \in [Requests -> Request] /\ Others(p) /\ SameAsk(p)
              /\ request'[p] = s
            BY <1>1, <1>4 DEF TypeOK, Others, SameAsk
        <2>2. TypeOK'  BY <1>1, <2>1 DEF TypeOK
        <2>3. RequestInv(p)'  BY <1>1, <1>2, <1>4, <2>1, EndedInv
        <2>4. QED  BY <1>1, <2>1, <2>2, <2>3, RequestStepKeeps
    <1>5. CASE request' = [request EXCEPT ![p].outcome = "refused", ![p].pc = "done"]
        <2> DEFINE s == [request[p] EXCEPT !.outcome = "refused", !.pc = "done"]
        <2>1. s \in Request  BY <1>1, AnswerTypes DEF Pcs, Outcomes
        <2>2. request' = [request EXCEPT ![p] = s]  BY <1>1, <1>5 DEF TypeOK
        <2>3. /\ s.pc = "done" /\ s.op = request[p].op /\ s.work = request[p].work
              /\ s.key = request[p].key /\ s.of = request[p].of
            BY <1>1 DEF Request
        <2> HIDE DEF s
        <2>4. QED  BY <1>4, <2>1, <2>2, <2>3
    <1>6. ASSUME NEW r \in Requests,
                 request' = [request EXCEPT ![p].outcome = "replayed", ![p].answer = r,
                                            ![p].status = Reported(r), ![p].pc = "done"]
          PROVE  IInv'
        <2> DEFINE s == [request[p] EXCEPT !.outcome = "replayed", !.answer = r,
                                           !.status = Reported(r), !.pc = "done"]
        <2>1. s \in Request  BY <1>1, AnswerTypes, ReportedType DEF Pcs, Outcomes
        <2>2. request' = [request EXCEPT ![p] = s]  BY <1>1, <1>6 DEF TypeOK
        <2>3. /\ s.pc = "done" /\ s.op = request[p].op /\ s.work = request[p].work
              /\ s.key = request[p].key /\ s.of = request[p].of
            BY <1>1 DEF Request
        <2> HIDE DEF s
        <2>4. QED  BY <1>4, <2>1, <2>2, <2>3
    <1>7. QED  BY <1>3, <1>5, <1>6 DEF LoadOriginal, Holders

LEMMA StageRetryKeeps ==
    ASSUME IInv, NEW p \in Requests, StageRetry(p)
    PROVE  IInv'
    <1>1. /\ TypeOK /\ At(p, "stage") /\ request[p].pc \in Early
          /\ UNCHANGED <<run, stored, dataset, session, late, lock>>
          /\ lock' \in Lock
        BY DEF StageRetry, IInv, TypeOK, At, Early
    <1>2. /\ ~Committed(p) /\ p \notin ingress
          /\ request[p].outcome = "none" /\ request[p].answer = None
        BY <1>1, EarlyFacts DEF IInv, RequestInv, BytesStaged, At
    <1>3. CASE Refuse(p, "refused") /\ UNCHANGED ingress
        BY <1>1, <1>3, RefuseKeeps DEF Outcomes
    <1>4. ASSUME Goto(p, "find"), ingress' = ingress \/ ingress' = ingress \cup {p},
                 HasContent(request[p].op) => p \in ingress',
                 p \in ingress' => Remembers(request[p].op)
          PROVE  IInv'
        <2>1. /\ request' \in [Requests -> Request] /\ Others(p) /\ SameAsk(p)
              /\ request'[p].pc = "find"
              /\ request'[p].outcome = "none" /\ request'[p].answer = None
            BY <1>1, <1>2, <1>4, GotoFields DEF Pcs
        <2>2. TypeOK'  BY <1>1, <1>4, <2>1 DEF TypeOK
        <2>3. RequestInv(p)'  BY <1>1, <1>2, <1>4, <2>1, GoesOnInv DEF Staging
        <2>4. QED  BY <1>1, <1>4, <2>1, <2>2, <2>3, RequestStepKeeps
    <1>5. CASE /\ ~Remembers(request[p].op)
               /\ Goto(p, "find") /\ UNCHANGED ingress
        BY <1>2, <1>4, <1>5 DEF Remembers, HasContent
    <1>6. CASE /\ Remembers(request[p].op)
               /\ Goto(p, "find") /\ ingress' = ingress \cup {p}
        BY <1>4, <1>6
    <1>7. CASE /\ run[request[p].of].op = "url" /\ Remembers(request[p].op)
               /\ Goto(p, "find") /\ UNCHANGED ingress
        <2>1. request[p].op = "url"  BY <1>1, <1>7 DEF IInv, RequestInv, RetriesOriginal
        <2>2. QED  BY <1>2, <1>4, <1>7, <2>1 DEF HasContent
    <1>8. QED  BY <1>3, <1>5, <1>6, <1>7 DEF StageRetry

-----------------------------------------------------------------------------
(* The routes *)

LEMMA AskTypes ==
    ASSUME NEW a \in Asks
    PROVE  /\ a.op \in Ops /\ a.work \in Works /\ a.key \in Keys \cup {None}
           /\ a.session \in BOOLEAN /\ a.wait \in BOOLEAN
           /\ a.key \notin Requests
           /\ a.op \in {"retry", "delete"} => a.key = None
    <1>1. a \in RememberTextAsks \cup RememberFileAsks \cup RememberUrlAsks
                \cup CognifyAsks \cup ImproveAsks \cup ForgetAsks \cup OtherAsks
        BY AsksAssumption
    <1>2. /\ a.op \in Ops /\ a.work \in Works /\ a.key \in Keys \cup {None}
          /\ a.session \in BOOLEAN /\ a.wait \in BOOLEAN
          /\ a.op \in {"retry", "delete"} => a.key = None
        BY <1>1 DEF RememberTextAsks, RememberFileAsks, RememberUrlAsks, CognifyAsks,
                    ImproveAsks, ForgetAsks, OtherAsks, AsksOf, Ops
    <1>3. QED  BY <1>2, KeysAssumption, NoneAssumption

LEMMA ArriveFields ==
    ASSUME TypeOK, NEW p \in Requests, NEW a \in Asks, NEW pc \in Pcs, Arrive(p, a, pc)
    PROVE  /\ request' \in [Requests -> Request] /\ Others(p)
           /\ request'[p].pc = pc /\ request'[p].op = a.op /\ request'[p].key = a.key
           /\ request'[p].outcome = request[p].outcome
           /\ request'[p].answer = request[p].answer
    <1> DEFINE s == [request[p] EXCEPT !.pc = pc, !.op = a.op, !.work = a.work,
                                       !.key = a.key, !.session = a.session, !.wait = a.wait]
    <1>1. request[p] \in Request  BY DEF TypeOK
    <1>2. s \in Request  BY <1>1, AskTypes DEF Request, Pcs
    <1>3. /\ s.pc = pc /\ s.op = a.op /\ s.key = a.key
          /\ s.outcome = request[p].outcome /\ s.answer = request[p].answer
        BY <1>1 DEF Request
    <1>4. request' = [request EXCEPT ![p] = s]  BY DEF Arrive, TypeOK
    <1> HIDE DEF s
    <1>5. QED  BY <1>2, <1>3, <1>4 DEF TypeOK, Others

LEMMA ArriveKeeps ==
    ASSUME IInv, NEW p \in Requests, NEW a \in Asks, NEW pc \in {"find", "delete"},
           Arrive(p, a, pc),
           ingress' = ingress \/ ingress' = ingress \cup {p},
           pc = "find" /\ HasContent(a.op) => p \in ingress',
           p \in ingress' => pc = "find" /\ Remembers(a.op),
           pc = "delete" => a.op = "delete"
    PROVE  IInv'
    <1>1. /\ TypeOK /\ At(p, "new") /\ request[p].pc \in Early
          /\ UNCHANGED <<run, stored, dataset, session, lock, late>>
        BY DEF Arrive, CanArrive, IInv, At, Early
    <1>2. /\ ~Committed(p) /\ request[p].outcome = "none" /\ request[p].answer = None
          /\ ~Nonterminal(p) /\ ~run[p].begun
        BY <1>1, EarlyFacts, NoRunNoClaim
    <1>3. /\ request' \in [Requests -> Request] /\ Others(p)
          /\ request'[p].pc = pc /\ request'[p].op = a.op /\ request'[p].key = a.key
          /\ request'[p].outcome = "none" /\ request'[p].answer = None
        BY <1>1, <1>2, ArriveFields DEF Pcs
    <1>4. TypeOK'  BY <1>1, <1>3 DEF TypeOK
    <1>5. RequestInv(p)'
        <2>1. Unanswered(p)' /\ HasOwnRun(p)' /\ KeyAlone(p)'
            BY <1>1, <1>2, <1>3 DEF Unanswered, HasOwnRun, KeyAlone, Committed, At
        <2>2. RetriesOriginal(p)'
            BY <1>3, AskTypes DEF RetriesOriginal, At
        <2>3. BytesStaged(p)'
            BY <1>1, <1>2, <1>3 DEF BytesStaged, Nonterminal, Staging
        <2>4. LateIsKnown(p)'
            BY <1>1, <1>2, <1>3 DEF LateIsKnown, At
        <2>5. QED  BY <2>1, <2>2, <2>3, <2>4 DEF RequestInv
    <1>6. QED  BY <1>1, <1>3, <1>4, <1>5, RequestStepKeeps

LEMMA RetryRunKeeps ==
    ASSUME IInv, NEW p \in Requests, NEW a \in Asks, NEW o \in Requests, RetryRun(p, a, o)
    PROVE  IInv'
    <1> DEFINE s == [request[p] EXCEPT !.pc = "load", !.of = o, !.key = ReservedKey(o),
                                       !.op = run[o].op, !.work = run[o].work,
                                       !.session = run[o].session, !.wait = FALSE]
    <1>1. /\ TypeOK /\ At(p, "new") /\ request[p].pc \in Early /\ Committed(o)
          /\ request[p] \in Request /\ run[o] \in Run
          /\ UNCHANGED <<run, ingress, stored, dataset, session, lock, late>>
        BY DEF RetryRun, CanArrive, IInv, TypeOK, At, Early, tables
    <1>2. /\ ~Committed(p) /\ p \notin ingress
          /\ request[p].outcome = "none" /\ request[p].answer = None
          /\ ~Nonterminal(p) /\ ~run[p].begun
        BY <1>1, EarlyFacts, NoRunNoClaim DEF IInv, RequestInv, BytesStaged, At
    <1>3. s \in Request  BY <1>1 DEF Request, Run, ReservedKey
    <1>4. /\ s.pc = "load" /\ s.of = o /\ s.key = o /\ s.op = run[o].op /\ s.work = run[o].work
          /\ s.outcome = request[p].outcome /\ s.answer = request[p].answer
        BY <1>1 DEF Request, ReservedKey
    <1>5. request' = [request EXCEPT ![p] = s]  BY DEF RetryRun, IInv, TypeOK
    <1> HIDE DEF s
    <1>6. request' \in [Requests -> Request] /\ Others(p) /\ request'[p] = s
        BY <1>1, <1>3, <1>5 DEF TypeOK, Others
    <1>7. TypeOK'  BY <1>1, <1>6 DEF TypeOK
    <1>8. RequestInv(p)'
        <2>1. Unanswered(p)' /\ HasOwnRun(p)' /\ KeyAlone(p)'
            BY <1>1, <1>2, <1>4, <1>6 DEF Unanswered, HasOwnRun, KeyAlone, Committed, At
        <2>2. RetriesOriginal(p)'
            BY <1>1, <1>4, <1>6 DEF RetriesOriginal, Committed, At
        <2>3. BytesStaged(p)' /\ LateIsKnown(p)'
            BY <1>1, <1>2, <1>4, <1>6
            DEF BytesStaged, LateIsKnown, Nonterminal, Staging, At
        <2>4. QED  BY <2>1, <2>2, <2>3 DEF RequestInv
    <1>9. QED  BY <1>1, <1>6, <1>7, <1>8, RequestStepKeeps

LEMMA ReceiveKeeps ==
    ASSUME IInv, NEW p \in Requests, NEW a \in Asks, Receive(p, a)
    PROVE  IInv'
    <1>1. At(p, "new") => p \notin ingress
        BY EarlyFacts DEF IInv, RequestInv, BytesStaged, HasOwnRun, At, Early
    <1>2. CASE RememberContent(p, a)
        <2>1. a.op \in {"text", "file"}
            BY <1>2 DEF RememberContent, RememberTextAsks, RememberFileAsks, AsksOf
        <2>2. QED  BY <1>2, <2>1, ArriveKeeps DEF RememberContent, Remembers
    <1>3. CASE RememberUrl(p, a)
        <2>1. a.op = "url" /\ At(p, "new")
            BY <1>3 DEF RememberUrl, RememberUrlAsks, AsksOf, Arrive, CanArrive
        <2>2. QED  BY <1>1, <1>3, <2>1, ArriveKeeps DEF RememberUrl, HasContent
    <1>4. CASE Write(p, a)
        <2>1. a.op \notin {"text", "file"} /\ At(p, "new")
            BY <1>4 DEF Write, CognifyAsks, ImproveAsks, ForgetAsks, AsksOf, Arrive, CanArrive
        <2>2. QED  BY <1>1, <1>4, <2>1, ArriveKeeps DEF Write, HasContent
    <1>5. CASE DeleteDataset(p, a)
        <2>1. a.op = "delete" /\ At(p, "new")
            BY <1>5 DEF DeleteDataset, Arrive, CanArrive
        <2>2. QED  BY <1>1, <1>5, <2>1, ArriveKeeps DEF DeleteDataset
    <1>6. ASSUME NEW o \in Requests, RetryRun(p, a, o) PROVE IInv'
        BY <1>6, RetryRunKeeps
    <1>7. QED  BY <1>2, <1>3, <1>4, <1>5, <1>6 DEF Receive

-----------------------------------------------------------------------------
(* The environment *)

\* An engine moves runs that are there and their bytes, and accepts no delete.
LEMMA EngineKeeps ==
    ASSUME IInv, TypeOK', UNCHANGED <<request, late>>,
           \A q \in Requests :
              /\ run'[q].op = run[q].op /\ run'[q].work = run[q].work
              /\ run'[q].key = run[q].key
              /\ Committed(q)' <=> Committed(q)
              /\ Nonterminal(q)' => Nonterminal(q)
              /\ HasBytes(q) => HasBytes(q)'
              /\ ~Committed(q) => (q \in ingress' <=> q \in ingress)
              /\ run'[q].begun => run[q].begun \/ (IsDelete(q) /\ Committed(q)),
           dataset' = dataset \/ dataset' # "active",
           \A q \in Requests : run'[q].begun /\ ~run[q].begun => dataset' # "active",
           UnderDelete' => UnderDelete
    PROVE  IInv'
    <1>1. ASSUME NEW q \in Requests PROVE RequestInv(q)'
        <2>1. RequestInv(q)  BY DEF IInv
        <2>2. Unanswered(q)' /\ HasOwnRun(q)'
            BY <2>1 DEF RequestInv, Unanswered, HasOwnRun, At
        <2>3. RetriesOriginal(q)'  BY <2>1 DEF RequestInv, RetriesOriginal, At
        <2>4. KeyAlone(q)'  BY <2>1 DEF RequestInv, KeyAlone, KeyInFlight, Holders, At
        <2>5. BytesStaged(q)'
            <3>1. request[q].pc \in Staging => ~Committed(q)
                BY <2>1 DEF RequestInv, HasOwnRun, Staging, Early
            <3>2. QED  BY <2>1, <3>1 DEF RequestInv, BytesStaged
        <2>6. LateIsKnown(q)'
            BY <2>1 DEF RequestInv, LateIsKnown, IsDelete, At
        <2>7. QED  BY <2>2, <2>3, <2>4, <2>5, <2>6 DEF RequestInv
    <1>2. UniqueKeys'  BY DEF IInv, UniqueKeys
    <1>3. QED  BY <1>1, <1>2 DEF IInv

LEMMA SetRunFields ==
    ASSUME TypeOK, NEW r \in Requests, NEW status \in RunStatuses \ {"absent"},
           Nonterminal(r), SetRun(r, status)
    PROVE  /\ run' \in [Requests -> Run]
           /\ \A q \in Requests \ {r} : run'[q] = run[q]
           /\ run'[r].status = status /\ run'[r].op = run[r].op /\ run'[r].work = run[r].work
           /\ run'[r].key = run[r].key /\ run'[r].begun = run[r].begun
    <1> DEFINE s == [run[r] EXCEPT !.status = status]
    <1>1. run[r] \in Run  BY DEF TypeOK
    <1>2. s \in Run  BY <1>1 DEF Run
    <1>3. /\ s.status = status /\ s.op = run[r].op /\ s.work = run[r].work
          /\ s.key = run[r].key /\ s.begun = run[r].begun
        BY <1>1 DEF Run
    <1>4. run' = [run EXCEPT ![r] = s]  BY DEF SetRun, TypeOK
    <1> HIDE DEF s
    <1>5. QED  BY <1>2, <1>3, <1>4 DEF TypeOK

LEMMA SetRunKeeps ==
    ASSUME IInv, NEW r \in Requests, NEW status \in RunStatuses \ {"absent"},
           Nonterminal(r), SetRun(r, status),
           UNCHANGED <<ingress, stored, session, lock, request, late>>,
           dataset' = dataset \/ (dataset' = "deleted" /\ IsDelete(r))
    PROVE  IInv'
    <1>1. TypeOK  BY DEF IInv
    <1>2. /\ run' \in [Requests -> Run]
          /\ \A q \in Requests \ {r} : run'[q] = run[q]
          /\ run'[r].status = status /\ run'[r].op = run[r].op /\ run'[r].work = run[r].work
          /\ run'[r].key = run[r].key /\ run'[r].begun = run[r].begun
        BY <1>1, SetRunFields
    <1>3. TypeOK'  BY <1>1, <1>2 DEF TypeOK
    <1>4. \A q \in Requests :
             /\ run'[q].op = run[q].op /\ run'[q].work = run[q].work
             /\ run'[q].key = run[q].key /\ run'[q].begun = run[q].begun
             /\ Committed(q)' <=> Committed(q)
             /\ Nonterminal(q)' => Nonterminal(q)
             /\ HasBytes(q) => HasBytes(q)'
        BY <1>2 DEF Committed, Nonterminal, HasBytes
    <1>5. UnderDelete' => UnderDelete
        BY <1>4 DEF UnderDelete, IsDelete
    <1>6. QED  BY <1>3, <1>4, <1>5, EngineKeeps

LEMMA StoreBytesKeeps ==
    ASSUME IInv, NEW r \in Requests, StoreBytes(r)
    PROVE  IInv'
    <1>1. TypeOK /\ Committed(r) /\ UNCHANGED <<run, dataset, session, lock, request, late>>
        BY DEF StoreBytes, IInv, Committed, rest
    <1>2. TypeOK'  BY <1>1 DEF StoreBytes, TypeOK
    <1>3. \A q \in Requests : /\ HasBytes(q) => HasBytes(q)'
                              /\ ~Committed(q) => (q \in ingress' <=> q \in ingress)
        BY <1>1 DEF StoreBytes, HasBytes
    <1>4. UnderDelete' => UnderDelete  BY <1>1 DEF UnderDelete, IsDelete, Nonterminal
    <1>5. QED  BY <1>1, <1>2, <1>3, <1>4, EngineKeeps DEF Committed, Nonterminal

LEMMA BeginDeleteKeeps ==
    ASSUME IInv, NEW r \in Requests, BeginDelete(r)
    PROVE  IInv'
    <1>1. /\ TypeOK /\ Nonterminal(r) /\ Committed(r) /\ IsDelete(r) /\ dataset' = "deleting"
          /\ UNCHANGED <<ingress, stored, session, lock, request, late>>
        BY DEF BeginDelete, IInv, Committed, Nonterminal, rest
    <1>2. ASSUME NEW q \in Requests
          PROVE  /\ run'[q] \in Run
                 /\ run'[q].op = run[q].op /\ run'[q].work = run[q].work
                 /\ run'[q].key = run[q].key
                 /\ Committed(q)' <=> Committed(q)
                 /\ Nonterminal(q)' => Nonterminal(q)
                 /\ run'[q].begun => run[q].begun \/ (IsDelete(q) /\ Committed(q))
        <2>1. run[q] \in Run  BY <1>1 DEF TypeOK
        <2>2. CASE q = r
            <3>1. run'[q] = [run[q] EXCEPT !.begun = TRUE]  BY <2>2 DEF BeginDelete
            <3>2. QED  BY <1>1, <2>1, <2>2, <3>1 DEF Run, Committed, Nonterminal
        <2>3. CASE q # r /\ run[q].status = "queued" /\ ~IsDelete(q) /\ OnDataset(q)
            <3>1. run'[q] = [run[q] EXCEPT !.status = "cancelled"]
                BY <2>3 DEF BeginDelete
            <3>2. QED  BY <2>1, <2>3, <3>1 DEF Run, RunStatuses, Committed, Nonterminal
        <2>4. CASE q # r /\ ~(run[q].status = "queued" /\ ~IsDelete(q) /\ OnDataset(q))
            <3>1. run'[q] = run[q]  BY <2>4 DEF BeginDelete
            <3>2. QED  BY <2>1, <3>1 DEF Committed, Nonterminal
        <2>5. QED  BY <2>2, <2>3, <2>4
    <1>3. run' \in [Requests -> Run]
        <2>1. \E f : run' = [q \in Requests |-> f[q]]
            <3>1. run' = [q \in Requests |-> run'[q]]  BY DEF BeginDelete
            <3>2. QED  BY <3>1
        <2>2. QED  BY <1>2, <2>1
    <1>4. TypeOK'  BY <1>1, <1>3 DEF TypeOK
    <1>5. \A q \in Requests : HasBytes(q) => HasBytes(q)'  BY <1>1 DEF HasBytes
    <1>6. UnderDelete  BY <1>1 DEF UnderDelete
    <1>7. QED  BY <1>1, <1>2, <1>4, <1>5, <1>6, EngineKeeps

LEMMA ExecuteKeeps ==
    ASSUME IInv, NEW r \in Requests, Execute(r)
    PROVE  IInv'
    <1>1. CASE Claim(r)
        BY <1>1, SetRunKeeps DEF Claim, Nonterminal, RunStatuses, rest
    <1>2. CASE CancelQueued(r)
        BY <1>2, SetRunKeeps DEF CancelQueued, Nonterminal, RunStatuses, rest
    <1>3. ASSUME NEW status \in {"succeeded", "failed"}, Ends(r, status) PROVE IInv'
        BY <1>3, SetRunKeeps DEF Ends, Nonterminal, RunStatuses, rest
    <1>4. CASE Tombstone(r)
        BY <1>4, SetRunKeeps DEF Tombstone, Nonterminal, RunStatuses, rest
    <1>5. QED
        BY <1>1, <1>2, <1>3, <1>4, StoreBytesKeeps, BeginDeleteKeeps DEF Execute

\* A request that dies leaves everything as it is, but the lock.
LEMMA CrashKeeps ==
    ASSUME IInv, NEW p \in Requests, Crash(p)
    PROVE  IInv'
    <1>1. TypeOK /\ UNCHANGED <<run, ingress, stored, dataset, session, late>> /\ lock' \in Lock
        BY ReleaseType DEF Crash, IInv, faultless
    <1>2. /\ request' \in [Requests -> Request] /\ Others(p) /\ SameAsk(p)
          /\ request'[p].pc = "dead"
          /\ request'[p].outcome = request[p].outcome
        BY <1>1, GotoFields DEF Crash, Pcs
    <1>3. TypeOK'  BY <1>1, <1>2 DEF TypeOK
    <1>4. RequestInv(p)'
        <2>1. Unanswered(p)' /\ KeyAlone(p)'
            BY <1>2 DEF Unanswered, KeyAlone, At, Early
        <2>2. HasOwnRun(p)' /\ RetriesOriginal(p)'
            BY <1>1, <1>2 DEF IInv, RequestInv, HasOwnRun, RetriesOriginal, SameAsk,
                              Committed, At, Early
        <2>3. BytesStaged(p)'
            BY <1>1, <1>2 DEF IInv, RequestInv, BytesStaged, SameAsk, Nonterminal, Committed,
                              HasBytes, Staging
        <2>4. LateIsKnown(p)'
            BY <1>1, <1>2 DEF IInv, RequestInv, LateIsKnown, At, IsDelete, Committed
        <2>5. QED  BY <2>1, <2>2, <2>3, <2>4 DEF RequestInv
    <1>5. QED  BY <1>1, <1>2, <1>3, <1>4, RequestStepKeeps

LEMMA FailuresKeep ==
    ASSUME IInv, NEW p \in Requests, CommitFails(p) \/ FreshReadFails(p)
    PROVE  IInv'
    <1>1. CASE CommitFails(p)
        <2>1. request[p].pc \in Early /\ lock' \in Lock
            BY <1>1, ReleaseType DEF CommitFails, At, Early, IInv
        <2>2. QED  BY <1>1, <2>1, RefuseKeeps DEF CommitFails, Outcomes, faultless
    <1>2. CASE FreshReadFails(p)
        <2>1. TypeOK /\ Committed(p)
            BY <1>2 DEF FreshReadFails, IInv, RequestInv, HasOwnRun
        <2>2. /\ request' \in [Requests -> Request] /\ Others(p) /\ SameAsk(p)
              /\ request'[p].pc = IF Remembers(request[p].op) THEN "cleanup" ELSE "done"
              /\ request'[p].outcome = "error"
            BY <1>2, <2>1, RefuseFields DEF FreshReadFails, Outcomes
        <2>3. TypeOK' /\ UNCHANGED <<run, ingress, stored, dataset, late>>
            BY <1>2, <2>1, <2>2 DEF FreshReadFails, TypeOK, faultless
        <2>4. RequestInv(p)'  BY <2>1, <2>2, <2>3, CommittedInv
        <2>5. QED  BY <2>2, <2>3, <2>4, RequestStepKeeps
    <1>3. QED  BY <1>1, <1>2

-----------------------------------------------------------------------------
(* The invariant *)

LEMMA InitTypes ==
    ASSUME Init
    PROVE  TypeOK /\ \A p \in Requests : run[p] = NoRunRow /\ request[p] = NewRequest
    <1>1. (CHOOSE w \in Works : TRUE) \in Works  BY WorksAssumption
    <1>2. NoRunRow \in Run  BY <1>1 DEF NoRunRow, Run, RunStatuses, Ops
    <1>3. NewRequest \in Request  BY <1>1 DEF NewRequest, Request, Ops
    <1>4. QED  BY <1>2, <1>3 DEF Init, TypeOK, Lock

LEMMA InitInvariant == Init => IInv
    <1> SUFFICES ASSUME Init PROVE IInv
        OBVIOUS
    <1>1. TypeOK  BY InitTypes
    <1>2. ASSUME NEW p \in Requests
          PROVE  /\ run[p].status = "absent" /\ run[p].begun = FALSE
                 /\ request[p].pc = "new" /\ request[p].key = None
                 /\ request[p].outcome = "none" /\ request[p].answer = None
                 /\ p \notin ingress
        BY InitTypes DEF Init, NoRunRow, NewRequest
    <1>3. ASSUME NEW p \in Requests PROVE RequestInv(p)
        BY <1>2, NoneAssumption
        DEF RequestInv, Unanswered, HasOwnRun, RetriesOriginal, KeyAlone, BytesStaged,
            LateIsKnown, At, Committed, Nonterminal, Staging
    <1>4. UniqueKeys  BY <1>2 DEF UniqueKeys, Committed
    <1>5. QED  BY <1>1, <1>3, <1>4 DEF IInv

LEMMA SubmitKeeps ==
    ASSUME IInv, NEW p \in Requests, Submit(p)
    PROVE  IInv'
    BY FindByKeyKeeps, PrepareKeeps, LockSessionKeeps, BarrierKeeps, InsertKeeps,
       CommitKeeps, FindAfterConflictKeeps, FreshReadKeeps, CleanupKeeps, WaitEndsKeeps,
       LoadOriginalKeeps, StageRetryKeeps, RequestDeleteKeeps
    DEF Submit

LEMMA NextInvariant == IInv /\ [Next]_vars => IInv'
    <1> SUFFICES ASSUME IInv, [Next]_vars PROVE IInv'
        OBVIOUS
    <1>1. ASSUME UNCHANGED <<run, ingress, stored, dataset, request, lock, late>>,
                 session' \in {"active", "archived"}
          PROVE  IInv'
        <2>1. TypeOK'  BY <1>1 DEF IInv, TypeOK
        <2>2. UnderDelete' => UnderDelete
            BY <1>1 DEF UnderDelete, IsDelete, Nonterminal
        <2>3. \A q \in Requests : /\ Committed(q)' <=> Committed(q)
                                  /\ Nonterminal(q)' => Nonterminal(q)
                                  /\ HasBytes(q) => HasBytes(q)'
            BY <1>1 DEF Committed, Nonterminal, HasBytes
        <2>4. QED  BY <1>1, <2>1, <2>2, <2>3, EngineKeeps
    <1>2. session \in {"active", "archived"}  BY DEF IInv, TypeOK
    <1>3. CASE UNCHANGED vars  BY <1>1, <1>2, <1>3 DEF vars
    <1>4. CASE ToggleSession  BY <1>1, <1>4 DEF ToggleSession
    <1>5. CASE WorkerChanges  BY <1>1, <1>2, <1>5 DEF WorkerChanges
    <1>6. ASSUME NEW p \in Requests,
                 CommitFails(p) \/ FreshReadFails(p) \/ Crash(p)
          PROVE  IInv'
        BY <1>6, FailuresKeep, CrashKeeps
    <1>7. QED
        BY <1>3, <1>4, <1>5, <1>6, ReceiveKeeps, SubmitKeeps, ExecuteKeeps DEF Next

\* The invariant the theorems below rest on: requests, runs and what is staged
\* keep their types, no key is on two runs, and what a request has resolved,
\* staged and inserted is what its program counter says of it.
THEOREM Invariance == Spec => []IInv
    BY InitInvariant, NextInvariant, PTL DEF Spec

\* Whoever cleans up, loses a race, retries or crashes: a Remember of text or a
\* file that waits or runs has its bytes, and no bytes are left behind for a
\* request that became no run (submission.py, run_control.py).
THEOREM BytesFollowRunsAlways == Spec => []BytesFollowRuns
    <1>1. IInv => BytesFollowRuns
        BY DEF IInv, TypeOK, RequestInv, BytesStaged, BytesFollowRuns, HasContent
    <1>2. QED  BY <1>1, Invariance, PTL

-----------------------------------------------------------------------------
(* Nothing new under a delete *)

LEMMA SlipStep ==
    IInv /\ [Next]_vars =>
        \A p \in Requests :
            /\ ~Committed(p) /\ run'[p].status = "queued"
            /\ run'[p].op \notin {"delete", "everything"} /\ UnderDelete
            => p \in late
    <1> SUFFICES ASSUME IInv, [Next]_vars, NEW p \in Requests,
                        ~Committed(p), run'[p].status = "queued",
                        run'[p].op \notin {"delete", "everything"}, UnderDelete
                 PROVE  p \in late
        OBVIOUS
    <1>1. run'[p] # run[p]  BY DEF Committed
    <1>2. ASSUME NEW r \in Requests, NEW status, SetRun(r, status), Nonterminal(r)
          PROVE  FALSE
        <2>1. r # p  BY <1>2 DEF Nonterminal, Committed
        <2>2. run'[p] = run[p]  BY <1>2, <2>1 DEF SetRun, IInv, TypeOK
        <2>3. QED  BY <1>1, <2>2
    <1>3. ASSUME NEW r \in Requests, Execute(r) PROVE FALSE
        <2>1. CASE Claim(r)  BY <1>2, <2>1 DEF Claim, Nonterminal
        <2>2. CASE CancelQueued(r)  BY <1>2, <2>2 DEF CancelQueued, Nonterminal
        <2>3. CASE StoreBytes(r)  BY <1>1, <2>3 DEF StoreBytes
        <2>4. CASE Tombstone(r)  BY <1>2, <2>4 DEF Tombstone, Nonterminal
        <2>5. ASSUME NEW status \in {"succeeded", "failed"}, Ends(r, status) PROVE FALSE
            BY <1>2, <2>5 DEF Ends, Nonterminal
        <2>6. CASE BeginDelete(r)
            <3>1. p # r /\ run[p].status # "queued"
                BY <2>6 DEF BeginDelete, Committed
            <3>2. run'[p] = run[p]  BY <2>6, <3>1 DEF BeginDelete
            <3>3. QED  BY <1>1, <3>2
        <2>7. QED  BY <1>3, <2>1, <2>2, <2>3, <2>4, <2>5, <2>6 DEF Execute
    <1>4. ASSUME NEW q \in Requests, run' = [run EXCEPT ![q] = NewRow(q)],
                 At(q, "inserted") \/ (At(q, "delete") /\ request[q].op = "delete")
          PROVE  p \in late
        <2>1. q = p  BY <1>1, <1>4 DEF IInv, TypeOK
        <2>2. run'[p].op = request[p].op  BY <1>4, <2>1 DEF IInv, TypeOK, NewRow
        <2>3. QED  BY <1>4, <2>1, <2>2 DEF IInv, RequestInv, LateIsKnown
    <1>5. ASSUME NEW q \in Requests, Submit(q) PROVE p \in late
        <2>1. CASE Commit(q)  BY <1>4, <2>1 DEF Commit
        <2>2. CASE RequestDelete(q)
            <3>1. request[q].op = "delete"
                BY <2>2 DEF RequestDelete, IInv, RequestInv, RetriesOriginal
            <3>2. QED  BY <1>1, <1>4, <2>2, <3>1 DEF RequestDelete
        <2>3. CASE ~Commit(q) /\ ~RequestDelete(q)
            <3>1. run' = run
                BY <1>5, <2>3 DEF Submit, tables, FindByKey, Prepare, LockSession, Barrier,
                   Insert, FindAfterConflict, FreshRead, Cleanup, Poll, Deadline,
                   LoadOriginal, StageRetry
            <3>2. QED  BY <1>1, <3>1
        <2>4. QED  BY <2>1, <2>2, <2>3
    <1>6. ASSUME NEW q \in Requests, NEW a \in Asks, Receive(q, a) PROVE FALSE
        BY <1>1, <1>6 DEF Receive, RememberContent, RememberUrl, Write, DeleteDataset,
                          RetryRun, Arrive, tables
    <1>7. ~(ToggleSession \/ WorkerChanges \/ UNCHANGED vars)
        BY <1>1 DEF ToggleSession, WorkerChanges, vars
    <1>8. ASSUME NEW q \in Requests, CommitFails(q) \/ FreshReadFails(q) \/ Crash(q)
          PROVE  FALSE
        <2>1. run' = run
            BY <1>8 DEF CommitFails, FreshReadFails, Crash, faultless
        <2>2. QED  BY <1>1, <2>1
    <1>9. QED  BY <1>3, <1>5, <1>6, <1>7, <1>8 DEF Next

\* From the acceptance of a delete on, the only new runs of the dataset are
\* those of requests that had passed their barrier before it (submission.py).
THEOREM OnlyLateRequestsSlipInAlways == Spec => OnlyLateRequestsSlipIn
    <1>1. IInv /\ [Next]_vars =>
            [\A p \in Requests :
                /\ ~Committed(p) /\ run'[p].status = "queued"
                /\ run'[p].op \notin {"delete", "everything"} /\ UnderDelete
                => p \in late]_vars
        BY SlipStep
    <1>2. QED  BY <1>1, Invariance, PTL DEF Spec, OnlyLateRequestsSlipIn

-----------------------------------------------------------------------------
(* The contract of the keys *)

\* What a step may mean for the contract: nothing, a wish, a binding, an answer.
RowsStay ==
    \A r \in Requests :
        /\ Committed(r)' <=> Committed(r)
        /\ run'[r].op = run[r].op /\ run'[r].work = run[r].work /\ run'[r].key = run[r].key
Stays(p) ==
    /\ Others(p) /\ SameAsk(p) /\ request'[p].answer = request[p].answer
    /\ ~At(p, "new") /\ ~At(p, "new")'
Wishes(p) ==
    /\ Others(p) /\ At(p, "new") /\ ~At(p, "new")' /\ request'[p].answer = None
    /\ RowsStay
Binds(p) ==
    /\ Stays(p) /\ request[p].answer = None /\ ~Committed(p)
    /\ run' = [run EXCEPT ![p] = NewRow(p)]
    /\ request[p].key # None => Holders(request[p].key) = {}
Replies(p, r) ==
    /\ Others(p) /\ SameAsk(p) /\ ~At(p, "new") /\ ~At(p, "new")'
    /\ request[p].answer = None /\ request'[p].answer = r
    /\ request[p].key # None => r \in Holders(request[p].key) /\ SameIntent(p, r)
    /\ RowsStay

Means ==
    \/ RowsStay /\ request' = request
    \/ \E p \in Requests :
          \/ RowsStay /\ Stays(p)
          \/ Wishes(p)
          \/ Binds(p)
          \/ \E r \in Requests : Replies(p, r)

LEMMA SameRows == run' = run => RowsStay
    BY DEF RowsStay, Committed

LEMMA GotoStays ==
    ASSUME IInv, NEW p \in Requests, NEW pc \in Pcs \ {"new"}, Goto(p, pc), ~At(p, "new")
    PROVE  Stays(p)
    BY GotoFields DEF IInv, Stays, At

LEMMA RefuseStays ==
    ASSUME IInv, NEW p \in Requests, NEW o \in Outcomes, Refuse(p, o), ~At(p, "new")
    PROVE  Stays(p)
    BY RefuseFields DEF IInv, Stays, At

LEMMA RespondReplies ==
    ASSUME IInv, NEW p \in Requests, NEW r \in Requests, NEW o \in Outcomes,
           Respond(p, r, o), ~At(p, "new"), request[p].answer = None, run' = run,
           request[p].key # None => r \in Holders(request[p].key) /\ SameIntent(p, r)
    PROVE  Replies(p, r)
    BY RespondFields, SameRows DEF IInv, Replies, At

LEMMA ResolveMeans ==
    ASSUME IInv, NEW p \in Requests, NEW r \in Requests, Resolve(p, r), run' = run,
           request[p].pc \in Early, ~At(p, "new"),
           request[p].key # None => r \in Holders(request[p].key)
    PROVE  Means
    <1>1. request[p].answer = None  BY EarlyFacts
    <1>2. CASE SameIntent(p, r)
        BY <1>1, <1>2, RespondReplies DEF Resolve, Means, Outcomes
    <1>3. CASE ~SameIntent(p, r)
        BY <1>3, RefuseStays, SameRows DEF Resolve, Means, Outcomes
    <1>4. QED  BY <1>2, <1>3

LEMMA SubmitMeans ==
    ASSUME IInv, NEW p \in Requests, Submit(p)
    PROVE  Means
    <1>1. ASSUME NEW pc \in Pcs \ {"new"}, Goto(p, pc), ~At(p, "new"), run' = run PROVE Means
        BY <1>1, GotoStays, SameRows DEF Means
    <1>2. ASSUME NEW o \in Outcomes, Refuse(p, o), ~At(p, "new"), run' = run PROVE Means
        BY <1>2, RefuseStays, SameRows DEF Means
    <1>3. CASE FindByKey(p)
        <2>1. request[p].pc \in Early /\ ~At(p, "new") /\ run' = run
            BY <1>3 DEF FindByKey, At, Early, tables
        <2>2. CASE Gate(p)
            BY <1>1, <1>2, <2>1, <2>2 DEF Gate, Pcs, Outcomes
        <2>3. ASSUME request[p].key # None, NEW r \in Holders(request[p].key), Resolve(p, r)
              PROVE  Means
            BY <2>1, <2>3, ResolveMeans DEF Holders
        <2>4. QED  BY <1>3, <2>2, <2>3 DEF FindByKey
    <1>4. CASE Prepare(p)
        <2>1. ~At(p, "new") /\ run' = run  BY <1>4 DEF Prepare, At, tables
        <2>2. CASE request' = [request EXCEPT ![p].pc = "lock", ![p].seen = session]
            <3> DEFINE s == [request[p] EXCEPT !.pc = "lock", !.seen = session]
            <3>1. request[p] \in Request  BY DEF IInv, TypeOK
            <3>2. request' = [request EXCEPT ![p] = s]  BY <2>2 DEF IInv, TypeOK
            <3>3. /\ s.pc = "lock" /\ s.op = request[p].op /\ s.work = request[p].work
                  /\ s.key = request[p].key /\ s.of = request[p].of
                  /\ s.answer = request[p].answer
                BY <3>1 DEF Request
            <3> HIDE DEF s
            <3>4. Stays(p)
                BY <2>1, <3>2, <3>3 DEF IInv, TypeOK, Stays, Others, SameAsk, At
            <3>5. QED  BY <2>1, <3>4, SameRows DEF Means
        <2>3. QED  BY <1>1, <1>2, <1>4, <2>1, <2>2 DEF Prepare, Pcs, Outcomes
    <1>5. CASE LockSession(p) \/ Barrier(p) \/ Insert(p)
        <2>1. ~At(p, "new") /\ run' = run
            BY <1>5 DEF LockSession, Barrier, Insert, At, tables
        <2>2. QED
            BY <1>1, <1>2, <1>5, <2>1 DEF LockSession, Barrier, Insert, Pcs, Outcomes
    <1>6. CASE Commit(p)
        <2>1. ~Committed(p) /\ request[p].answer = None /\ ~At(p, "new")
            BY <1>6, EarlyFacts DEF Commit, At, Early
        <2>2. request[p].key # None => Holders(request[p].key) = {}
            BY <1>6 DEF Commit, IInv, RequestInv, KeyAlone
        <2>3. Stays(p)  BY <1>6, <2>1, GotoStays DEF Commit, Pcs
        <2>4. QED  BY <1>6, <2>1, <2>2, <2>3 DEF Commit, Binds, Means
    <1>7. CASE FindAfterConflict(p)
        <2>1. request[p].pc \in Early /\ ~At(p, "new") /\ run' = run
            BY <1>7 DEF FindAfterConflict, At, Early, tables
        <2>2. QED  BY <1>7, <2>1, ResolveMeans DEF FindAfterConflict, Holders
    <1>8. CASE FreshRead(p)
        <2>1. ~At(p, "new") /\ run' = run /\ request[p].answer = None /\ Committed(p)
            BY <1>8 DEF FreshRead, At, tables, IInv, RequestInv, HasOwnRun, Unanswered
        <2>2. p \in Holders(request[p].key) /\ SameIntent(p, p)
            BY <2>1 DEF IInv, RequestInv, HasOwnRun, Holders, SameIntent
        <2>3. QED
            BY <1>8, <2>1, <2>2, RespondReplies DEF FreshRead, Means, Outcomes
    <1>9. CASE Cleanup(p)
        BY <1>1, <1>9 DEF Cleanup, AfterCleanup, At, Pcs
    <1>10. CASE Poll(p) \/ Deadline(p)
        <2> DEFINE st == Reported(request[p].answer)
                   s == [request[p] EXCEPT !.pc = "done", !.status = st]
        <2>1. request[p] \in Request  BY DEF IInv, TypeOK
        <2>2. request' = [request EXCEPT ![p] = s]
            BY <1>10 DEF Poll, Deadline, IInv, TypeOK
        <2> HIDE DEF st
        <2>3. /\ s.pc = "done" /\ s.op = request[p].op /\ s.work = request[p].work
              /\ s.key = request[p].key /\ s.of = request[p].of
              /\ s.answer = request[p].answer
            BY <2>1 DEF Request
        <2> HIDE DEF s
        <2>4. ~At(p, "new") /\ run' = run  BY <1>10 DEF Poll, Deadline, At, tables
        <2>5. Stays(p)
            BY <2>2, <2>3, <2>4 DEF IInv, TypeOK, Stays, Others, SameAsk, At
        <2>6. QED  BY <2>4, <2>5, SameRows DEF Means
    <1>11. CASE LoadOriginal(p)
        <2>1. /\ ~At(p, "new") /\ run' = run /\ request[p].answer = None
              /\ request[p] \in Request /\ request[p].of \in Requests
              /\ request[p].key = request[p].of
              /\ request[p].op = run[request[p].key].op
              /\ request[p].work = run[request[p].key].work
            BY <1>11 DEF LoadOriginal, At, tables, IInv, TypeOK, RequestInv, Unanswered,
                         RetriesOriginal, Early
        <2>2. CASE request' = [request EXCEPT ![p].outcome = "refused", ![p].pc = "done"]
            <3> DEFINE s == [request[p] EXCEPT !.outcome = "refused", !.pc = "done"]
            <3>1. request' = [request EXCEPT ![p] = s]  BY <2>2 DEF IInv, TypeOK
            <3>2. /\ s.pc = "done" /\ s.op = request[p].op /\ s.work = request[p].work
                  /\ s.key = request[p].key /\ s.of = request[p].of
                  /\ s.answer = request[p].answer
                BY <2>1 DEF Request
            <3> HIDE DEF s
            <3>3. Stays(p)
                BY <2>1, <3>1, <3>2 DEF IInv, TypeOK, Stays, Others, SameAsk, At
            <3>4. QED  BY <2>1, <3>3, SameRows DEF Means
        <2>3. ASSUME NEW r \in Holders(request[p].of),
                     request' = [request EXCEPT ![p].outcome = "replayed", ![p].answer = r,
                                                ![p].status = Reported(r), ![p].pc = "done"]
              PROVE  Means
            <3> DEFINE s == [request[p] EXCEPT !.outcome = "replayed", !.answer = r,
                                               !.status = Reported(r), !.pc = "done"]
            <3>1. request' = [request EXCEPT ![p] = s]  BY <2>3 DEF IInv, TypeOK
            <3>2. /\ s.pc = "done" /\ s.op = request[p].op /\ s.work = request[p].work
                  /\ s.key = request[p].key /\ s.of = request[p].of /\ s.answer = r
                BY <2>1 DEF Request
            <3> HIDE DEF s
            <3>3. r \in Requests /\ Committed(r) /\ run[r].key = request[p].key
                BY <2>1 DEF Holders
            <3>4. /\ run[r].op = run[request[p].key].op
                  /\ run[r].work = run[request[p].key].work
                BY <2>1, <3>3 DEF IInv, RequestInv, HasOwnRun, RetriesOriginal
            <3>5. SameIntent(p, r)  BY <2>1, <3>4 DEF SameIntent
            <3>6. Replies(p, r)
                BY <2>1, <3>1, <3>2, <3>5, SameRows
                DEF IInv, TypeOK, Replies, Others, SameAsk, At
            <3>7. QED  BY <3>3, <3>6 DEF Means
        <2>4. QED  BY <1>1, <1>11, <2>1, <2>2, <2>3 DEF LoadOriginal, Pcs
    <1>12. CASE StageRetry(p)
        <2>1. ~At(p, "new") /\ run' = run  BY <1>12 DEF StageRetry, At
        <2>2. QED  BY <1>1, <1>2, <1>12, <2>1 DEF StageRetry, Pcs, Outcomes
    <1>13. CASE RequestDelete(p)
        <2>1. /\ ~Committed(p) /\ request[p].answer = None /\ ~At(p, "new")
              /\ request[p].key = None
            BY <1>13, EarlyFacts
            DEF RequestDelete, At, Early, IInv, RequestInv, RetriesOriginal
        <2>2. ASSUME NEW r \in Requests, Respond(p, r, "replayed"), run' = run PROVE Means
            BY <2>1, <2>2, RespondReplies DEF Means, Outcomes
        <2>3. CASE run' = [run EXCEPT ![p] = NewRow(p)] /\ Goto(p, "fresh")
            BY <2>1, <2>3, GotoStays DEF Binds, Means, Pcs
        <2>4. QED
            BY <1>2, <1>13, <2>1, <2>2, <2>3 DEF RequestDelete, PendingDeletes, Outcomes
    <1>14. QED
        BY <1>3, <1>4, <1>5, <1>6, <1>7, <1>8, <1>9, <1>10, <1>11, <1>12, <1>13 DEF Submit

LEMMA ReceiveMeans ==
    ASSUME IInv, NEW p \in Requests, NEW a \in Asks, Receive(p, a)
    PROVE  \E q \in Requests : Wishes(q)
    <1>1. ASSUME NEW pc \in {"find", "delete"}, Arrive(p, a, pc) PROVE Wishes(p)
        <2>1. At(p, "new") /\ run' = run  BY <1>1 DEF Arrive, CanArrive
        <2>2. request[p].answer = None  BY <2>1, EarlyFacts DEF At, Early
        <2>3. QED  BY <1>1, <2>1, <2>2, ArriveFields, SameRows DEF Wishes, At, Pcs, IInv
    <1>2. ASSUME NEW o \in Requests, RetryRun(p, a, o) PROVE Wishes(p)
        <2> DEFINE s == [request[p] EXCEPT !.pc = "load", !.of = o, !.key = ReservedKey(o),
                                           !.op = run[o].op, !.work = run[o].work,
                                           !.session = run[o].session, !.wait = FALSE]
        <2>1. At(p, "new") /\ run' = run /\ request[p] \in Request
            BY <1>2 DEF RetryRun, CanArrive, tables, IInv, TypeOK
        <2>2. request[p].answer = None  BY <2>1, EarlyFacts DEF At, Early
        <2>3. request' = [request EXCEPT ![p] = s]  BY <1>2 DEF RetryRun, IInv, TypeOK
        <2>4. s.pc = "load" /\ s.answer = request[p].answer  BY <2>1 DEF Request
        <2> HIDE DEF s
        <2>5. request'[p] = s /\ Others(p)  BY <2>3 DEF IInv, TypeOK, Others
        <2>6. QED  BY <2>1, <2>2, <2>4, <2>5, SameRows DEF Wishes, At
    <1>3. QED
        BY <1>1, <1>2 DEF Receive, RememberContent, RememberUrl, Write, DeleteDataset

LEMMA ExecuteMeans ==
    ASSUME IInv, NEW r \in Requests, Execute(r)
    PROVE  RowsStay /\ request' = request
    <1>1. ASSUME NEW status \in RunStatuses \ {"absent"}, Nonterminal(r), SetRun(r, status)
          PROVE  RowsStay
        <2>1. TypeOK  BY DEF IInv
        <2>2. QED  BY <1>1, <2>1, SetRunFields DEF RowsStay, Committed, Nonterminal
    <1>2. CASE Claim(r) \/ CancelQueued(r) \/ Tombstone(r)
        BY <1>1, <1>2 DEF Claim, CancelQueued, Tombstone, Nonterminal, RunStatuses, rest
    <1>3. ASSUME NEW status \in {"succeeded", "failed"}, Ends(r, status)
          PROVE  RowsStay /\ request' = request
        BY <1>1, <1>3 DEF Ends, Nonterminal, RunStatuses, rest
    <1>4. CASE StoreBytes(r)  BY <1>4, SameRows DEF StoreBytes, rest
    <1>5. CASE BeginDelete(r)
        <2>1. ASSUME NEW q \in Requests
              PROVE  /\ Committed(q)' <=> Committed(q)
                     /\ run'[q].op = run[q].op /\ run'[q].work = run[q].work
                     /\ run'[q].key = run[q].key
            <3>1. run[q] \in Run  BY DEF IInv, TypeOK
            <3>2. CASE q = r
                <4>1. run'[q] = [run[q] EXCEPT !.begun = TRUE]
                    BY <1>5, <3>2 DEF BeginDelete
                <4>2. QED  BY <3>1, <4>1 DEF Run, Committed
            <3>3. CASE q # r /\ run[q].status = "queued" /\ ~IsDelete(q) /\ OnDataset(q)
                <4>1. run'[q] = [run[q] EXCEPT !.status = "cancelled"]
                    BY <1>5, <3>3 DEF BeginDelete
                <4>2. QED  BY <3>1, <3>3, <4>1 DEF Run, Committed
            <3>4. CASE q # r /\ ~(run[q].status = "queued" /\ ~IsDelete(q) /\ OnDataset(q))
                <4>1. run'[q] = run[q]  BY <1>5, <3>4 DEF BeginDelete
                <4>2. QED  BY <4>1 DEF Committed
            <3>5. QED  BY <3>2, <3>3, <3>4
        <2>2. QED  BY <1>5, <2>1 DEF BeginDelete, RowsStay, rest
    <1>6. QED  BY <1>2, <1>3, <1>4, <1>5 DEF Execute

LEMMA NextMeans ==
    ASSUME IInv, [Next]_vars
    PROVE  Means
    <1>1. CASE UNCHANGED vars  BY <1>1, SameRows DEF vars, Means
    <1>2. CASE ToggleSession \/ WorkerChanges
        BY <1>2, SameRows DEF ToggleSession, WorkerChanges, Means
    <1>3. ASSUME NEW p \in Requests, CommitFails(p) \/ FreshReadFails(p) PROVE Means
        <2>1. run' = run /\ ~At(p, "new") /\ Refuse(p, "error")
            BY <1>3 DEF CommitFails, FreshReadFails, faultless, At
        <2>2. QED  BY <2>1, RefuseStays, SameRows DEF Means, Outcomes
    <1>4. ASSUME NEW p \in Requests, Crash(p) PROVE Means
        <2>1. run' = run /\ ~At(p, "new") /\ Goto(p, "dead")
            BY <1>4 DEF Crash, faultless, InFlight, At
        <2>2. QED  BY <2>1, GotoStays, SameRows DEF Means, Pcs
    <1>5. ASSUME NEW p \in Requests, NEW a \in Asks, Receive(p, a) PROVE Means
        BY <1>5, ReceiveMeans DEF Means
    <1>6. ASSUME NEW r \in Requests, Execute(r) PROVE Means
        BY <1>6, ExecuteMeans DEF Means
    <1>7. QED
        BY <1>1, <1>2, <1>3, <1>4, <1>5, <1>6, SubmitMeans DEF Next

-----------------------------------------------------------------------------
(* What each meaning is in the contract *)

\* The one run of a key is what the key is bound to.
LEMMA BoundToHolder ==
    ASSUME IInv, NEW k \in Keys \cup Requests, NEW r \in Holders(k)
    PROVE  Bound[k] = [run |-> r, work |-> <<PipelineOf(run[r].op), run[r].work>>]
    <1>1. k # None  BY NoneAssumption
    <1>2. \A s \in Holders(k) : s = r
        BY <1>1 DEF IInv, UniqueKeys, Holders
    <1>3. (CHOOSE s \in Holders(k) : TRUE) = r  BY <1>2
    <1>4. QED  BY <1>3 DEF Bound

LEMMA RowsStayBound == RowsStay => Bound' = Bound
    <1> SUFFICES ASSUME RowsStay PROVE Bound' = Bound
        OBVIOUS
    <1>1. \A k : Holders(k)' = Holders(k)  BY DEF RowsStay, Holders
    <1>2. ASSUME NEW k \in Keys \cup Requests PROVE Bound'[k] = Bound[k]
        <2>1. CASE Holders(k) = {}  BY <1>1, <2>1 DEF Bound
        <2>2. CASE Holders(k) # {}
            <3> DEFINE r == CHOOSE r \in Holders(k) : TRUE
            <3>1. r \in Requests  BY <2>2 DEF Holders
            <3>2. (CHOOSE s \in Holders(k)' : TRUE) = r  BY <1>1
            <3>3. Bound[k] = [run |-> r, work |-> <<PipelineOf(run[r].op), run[r].work>>]
                BY <2>2 DEF Bound
            <3>4. Bound'[k] = [run |-> r, work |-> <<PipelineOf(run'[r].op), run'[r].work>>]
                BY <1>1, <2>2, <3>2 DEF Bound
            <3>5. run'[r].op = run[r].op /\ run'[r].work = run[r].work
                BY <3>1 DEF RowsStay
            <3>6. QED  BY <3>3, <3>4, <3>5
        <2>3. QED  BY <2>1, <2>2
    <1>3. QED  BY <1>2 DEF Bound

LEMMA StaysSame ==
    ASSUME NEW p \in Requests, Stays(p)
    PROVE  Wants' = Wants /\ Answers' = Answers
    BY DEF Stays, Others, SameAsk, At, Wants, Answers, Keyed

LEMMA WantsType ==
    ASSUME IInv, NEW p \in Requests, Keyed(p)
    PROVE  /\ Wants[p] = [key |-> request[p].key,
                          work |-> <<PipelineOf(request[p].op), request[p].work>>]
           /\ Wants[p] \in [key : Keys \cup Requests, work : Pipelines \X Works]
           /\ Wants[p].key = request[p].key
           /\ Wants[p].work = <<PipelineOf(request[p].op), request[p].work>>
           /\ Wants[p] # None
           /\ request[p].key \in Keys \cup Requests
    <1>1. request[p] \in Request  BY DEF IInv, TypeOK
    <1>2. /\ request[p].key \in Keys \cup Requests
          /\ PipelineOf(request[p].op) \in Pipelines /\ request[p].work \in Works
        BY <1>1 DEF Request, Keyed, Pipelines
    <1>3. Wants[p] = [key |-> request[p].key,
                      work |-> <<PipelineOf(request[p].op), request[p].work>>]
        BY DEF Wants
    <1>4. Wants[p] \in [key : Keys \cup Requests, work : Pipelines \X Works]
        BY <1>2, <1>3
    <1>5. /\ Wants[p].key = request[p].key
          /\ Wants[p].work = <<PipelineOf(request[p].op), request[p].work>>
        BY <1>3
    <1>6. QED  BY <1>2, <1>3, <1>4, <1>5, BindingAssumption

\* An arrival with a key is a wish; without one it is nothing to the contract.
LEMMA WishIsAsk ==
    ASSUME IInv, IInv', NEW p \in Requests, Wishes(p)
    PROVE  KeyContract!Ask(p) \/ UNCHANGED <<Wants, Bound, Answers>>
    <1>1. Bound' = Bound  BY RowsStayBound DEF Wishes
    <1>2. \A q \in Requests \ {p} : Wants'[q] = Wants[q] /\ Answers'[q] = Answers[q]
        BY DEF Wishes, Others, Wants, Answers, Keyed
    <1>3. Wants[p] = None /\ Answers[p] = None /\ Answers'[p] = None
        BY DEF Wishes, At, Wants, Answers, Keyed
    <1>4. Answers' = Answers  BY <1>2, <1>3 DEF Answers
    <1>5. CASE request'[p].key = None
        <2>1. Wants'[p] = None  BY <1>5 DEF Wants, Keyed
        <2>2. Wants' = Wants  BY <1>2, <1>3, <2>1 DEF Wants
        <2>3. QED  BY <1>1, <1>4, <2>2
    <1>6. CASE request'[p].key # None
        <2>1. request'[p] \in Request  BY DEF IInv, TypeOK
        <2>2. Wants'[p] = [key |-> request'[p].key,
                           work |-> <<PipelineOf(request'[p].op), request'[p].work>>]
            BY <1>6 DEF Wishes, At, Wants, Keyed
        <2>3. /\ request'[p].key \in Keys \cup Requests
              /\ PipelineOf(request'[p].op) \in Pipelines /\ request'[p].work \in Works
            BY <1>6, <2>1 DEF Request, Pipelines
        <2>4. Wants'[p] \in [key : Keys \cup Requests, work : Pipelines \X Works]
            BY <2>2, <2>3
        <2>5. Wants' = [Wants EXCEPT ![p] = Wants'[p]]  BY <1>2 DEF Wants
        <2>6. QED  BY <1>1, <1>3, <1>4, <2>4, <2>5 DEF KeyContract!Ask
    <1>7. QED  BY <1>5, <1>6

\* A commit binds its key, and that key only.
LEMMA CommitIsBind ==
    ASSUME IInv, NEW p \in Requests, Binds(p)
    PROVE  KeyContract!Bind(p) \/ UNCHANGED <<Wants, Bound, Answers>>
    <1>1. Wants' = Wants /\ Answers' = Answers  BY StaysSame DEF Binds
    <1>2. run'[p] = NewRow(p) /\ \A q \in Requests \ {p} : run'[q] = run[q]
        BY DEF Binds, IInv, TypeOK
    <1>3. ASSUME NEW k \in Keys \cup Requests, k # request[p].key
          PROVE  Bound'[k] = Bound[k]
        <2>1. Holders(k)' = Holders(k) /\ p \notin Holders(k)
            BY <1>2, <1>3 DEF Binds, Holders, Committed, NewRow
        <2>2. CASE Holders(k) = {}  BY <2>1, <2>2 DEF Bound
        <2>3. CASE Holders(k) # {}
            <3> DEFINE r == CHOOSE r \in Holders(k) : TRUE
            <3>1. r \in Requests /\ r # p  BY <2>1, <2>3 DEF Holders
            <3>2. Bound[k] = [run |-> r, work |-> <<PipelineOf(run[r].op), run[r].work>>]
                BY <2>3 DEF Bound
            <3>3. Bound'[k] = [run |-> r, work |-> <<PipelineOf(run'[r].op), run'[r].work>>]
                BY <2>1, <2>3 DEF Bound
            <3>4. QED  BY <1>2, <3>1, <3>2, <3>3
        <2>4. QED  BY <2>2, <2>3
    <1>4. CASE request[p].key = None
        <2>1. \A k \in Keys \cup Requests : Bound'[k] = Bound[k]
            BY <1>3, <1>4, NoneAssumption
        <2>2. QED  BY <1>1, <2>1 DEF Bound
    <1>5. CASE request[p].key # None
        <2>1. Keyed(p)  BY <1>5 DEF Binds, Stays, Keyed, At
        <2>2. PICK k \in Keys \cup Requests : k = request[p].key  BY <2>1, WantsType
        <2>3. /\ Wants[p] # None /\ Wants[p].key = k
              /\ Wants[p].work = <<PipelineOf(request[p].op), request[p].work>>
            BY <2>1, <2>2, WantsType
        <2>4. Bound[k] = None  BY <1>5, <2>2 DEF Binds, Bound
        <2>5. Answers[p] = None  BY DEF Binds, Answers
        <2>6. Holders(k)' = {p}
            BY <1>2, <1>5, <2>2 DEF Binds, Holders, Committed, NewRow
        <2>7. run'[p].op = request[p].op /\ run'[p].work = request[p].work
            BY <1>2 DEF NewRow
        <2>8. Bound'[k] = [run |-> p, work |-> Wants[p].work]
            <3>1. (CHOOSE s \in Holders(k)' : TRUE) = p  BY <2>6
            <3>2. Bound'[k] = [run |-> p, work |-> <<PipelineOf(run'[p].op), run'[p].work>>]
                BY <2>6, <3>1 DEF Bound
            <3>3. QED  BY <2>3, <2>7, <3>2
        <2>9. Bound' = [Bound EXCEPT ![k] = [run |-> p, work |-> Wants[p].work]]
            <3>1. \A j \in Keys \cup Requests : j # k => Bound'[j] = Bound[j]
                BY <1>3, <2>2
            <3>2. /\ Bound \in [Keys \cup Requests -> {Bound[j] : j \in Keys \cup Requests}]
                  /\ Bound' \in [Keys \cup Requests -> {Bound'[j] : j \in Keys \cup Requests}]
                BY DEF Bound
            <3>3. QED  BY <2>8, <3>1, <3>2
        <2>10. KeyContract!Bind(p)
            BY <1>1, <2>3, <2>4, <2>5, <2>9 DEF KeyContract!Bind
        <2>11. QED  BY <2>10
    <1>6. QED  BY <1>4, <1>5

\* A response names the run its key is bound to.
LEMMA ReplyIsAnswer ==
    ASSUME IInv, NEW p \in Requests, NEW r \in Requests, Replies(p, r)
    PROVE  KeyContract!Answer(p) \/ UNCHANGED <<Wants, Bound, Answers>>
    <1>1. Bound' = Bound  BY RowsStayBound DEF Replies
    <1>2. Wants' = Wants  BY DEF Replies, Others, SameAsk, At, Wants, Keyed
    <1>3. \A q \in Requests \ {p} : Answers'[q] = Answers[q]
        BY DEF Replies, Others, Answers, Keyed
    <1>4. CASE request[p].key = None
        <2>1. Answers'[p] = Answers[p]
            BY <1>4 DEF Replies, SameAsk, Answers, Keyed
        <2>2. QED  BY <1>1, <1>2, <1>3, <2>1 DEF Answers
    <1>5. CASE request[p].key # None
        <2>1. Keyed(p)  BY <1>5 DEF Replies, Keyed, At
        <2>2. PICK k \in Keys \cup Requests : k = request[p].key  BY <2>1, WantsType
        <2>3. /\ Wants[p] # None /\ Wants[p].key = k
              /\ Wants[p].work = <<PipelineOf(request[p].op), request[p].work>>
            BY <2>1, <2>2, WantsType
        <2>4. r \in Holders(k) /\ SameIntent(p, r)  BY <1>5, <2>2 DEF Replies
        <2>5. Bound[k] = [run |-> r, work |-> <<PipelineOf(run[r].op), run[r].work>>]
            BY <2>4, BoundToHolder
        <2>6. Bound[k] # None
            <3>1. run[r] \in Run  BY DEF IInv, TypeOK
            <3>2. PipelineOf(run[r].op) \in Pipelines /\ run[r].work \in Works
                BY <3>1 DEF Run, Pipelines
            <3>3. Bound[k] \in [run : Requests, work : Pipelines \X Works]
                BY <2>5, <3>2
            <3>4. QED  BY <3>3, BindingAssumption
        <2>7. Bound[k].work = Wants[p].work /\ Bound[k].run = r
            BY <2>3, <2>4, <2>5 DEF SameIntent
        <2>8. Answers[p] = None /\ Answers'[p] = r
            BY <2>1 DEF Replies, SameAsk, At, Answers, Keyed
        <2>9. Answers' = [Answers EXCEPT ![p] = r]  BY <1>3, <2>8 DEF Answers
        <2>10. KeyContract!Answer(p)
            BY <1>1, <1>2, <2>3, <2>6, <2>7, <2>8, <2>9 DEF KeyContract!Answer
        <2>11. QED  BY <2>10
    <1>6. QED  BY <1>4, <1>5

LEMMA StepKeepsContract ==
    IInv /\ [Next]_vars =>
        [KeyContract!ContractNext]_(KeyContract!promise)
    <1> SUFFICES ASSUME IInv, [Next]_vars
                 PROVE  KeyContract!ContractNext \/ UNCHANGED <<Wants, Bound, Answers>>
        BY DEF KeyContract!promise
    <1>1. IInv'  BY NextInvariant
    <1>2. CASE RowsStay /\ request' = request
        BY <1>2, RowsStayBound DEF Wants, Answers, Keyed
    <1>3. ASSUME NEW p \in Requests, RowsStay, Stays(p)
          PROVE  UNCHANGED <<Wants, Bound, Answers>>
        BY <1>3, StaysSame, RowsStayBound
    <1>4. ASSUME NEW p \in Requests, Wishes(p)
          PROVE  KeyContract!ContractNext \/ UNCHANGED <<Wants, Bound, Answers>>
        BY <1>1, <1>4, WishIsAsk DEF KeyContract!ContractNext
    <1>5. ASSUME NEW p \in Requests, Binds(p)
          PROVE  KeyContract!ContractNext \/ UNCHANGED <<Wants, Bound, Answers>>
        BY <1>5, CommitIsBind DEF KeyContract!ContractNext
    <1>6. ASSUME NEW p \in Requests, NEW r \in Requests, Replies(p, r)
          PROVE  KeyContract!ContractNext \/ UNCHANGED <<Wants, Bound, Answers>>
        BY <1>6, ReplyIsAnswer DEF KeyContract!ContractNext
    <1>7. QED  BY <1>2, <1>3, <1>4, <1>5, <1>6, NextMeans DEF Means

\* With lost races, lost commits, lost answers and dying handlers: a key is
\* bound once, to one run and one piece of work, and whoever is answered under
\* it is answered with that run (submission.py, run_control.py).
THEOREM KeysAreKeptAlways == Spec => KeysAreKept
    <1>1. Init => KeyContract!ContractInit
        <2> SUFFICES ASSUME Init PROVE KeyContract!ContractInit
            OBVIOUS
        <2>1. ASSUME NEW p \in Requests
              PROVE  run[p].status = "absent" /\ request[p].pc = "new"
            <3>1. run[p] = NoRunRow /\ request[p] = NewRequest  BY InitTypes
            <3>2. QED  BY <3>1 DEF NoRunRow, NewRequest
        <2>2. Wants = [p \in Requests |-> None] /\ Answers = [p \in Requests |-> None]
            BY <2>1 DEF Wants, Answers, Keyed
        <2>3. Bound = [k \in Keys \cup Requests |-> None]
            BY <2>1 DEF Bound, Holders, Committed
        <2>4. QED  BY <2>2, <2>3 DEF KeyContract!ContractInit
    <1>2. QED
        BY <1>1, Invariance, StepKeepsContract, PTL
        DEF Spec, KeysAreKept, KeyContract!ContractSpec
-----------------------------------------------------------------------------
(* Nobody waits for good *)

\* The session's lock is held by a request whose next statement needs no other
\* lock than an insert's; a lost insert has a winner; a tombstone has its run.
Holding == {"barrier", "insert", "inserted"}
LockInUse == lock # None => request[lock].pc \in Holding
LostToSomebody(p) == At(p, "conflict") => Holders(request[p].key) # {}
DeletedByRun == dataset = "deleted" => ~NoDeleteRun
WaitInv == LockInUse /\ DeletedByRun /\ \A p \in Requests : LostToSomebody(p)

\* Rows are never taken back.
LEMMA RowsLast ==
    ASSUME IInv, [Next]_vars, NEW r \in Requests, Committed(r)
    PROVE  Committed(r)' /\ run'[r].key = run[r].key /\ run'[r].op = run[r].op
    <1>1. CASE RowsStay  BY <1>1 DEF RowsStay
    <1>2. ASSUME NEW p \in Requests, Binds(p)
          PROVE  run'[r] = run[r]
        BY <1>2 DEF Binds, IInv, TypeOK
    <1>3. QED
        BY <1>1, <1>2, NextMeans DEF Means, Wishes, Replies, Committed

LEMMA HoldersLast ==
    ASSUME IInv, [Next]_vars, NEW k, Holders(k) # {}
    PROVE  Holders(k)' # {}
    <1>1. PICK r \in Requests : Committed(r) /\ run[r].key = k
        BY DEF Holders
    <1>2. Committed(r)' /\ run'[r].key = k  BY <1>1, RowsLast
    <1>3. QED  BY <1>2 DEF Holders

\* What a step does to the dataset.
LEMMA DatasetSteps ==
    ASSUME [Next]_vars
    PROVE  \/ dataset' = dataset \/ dataset' = "deleting"
           \/ \E r \in Requests : Committed(r) /\ IsDelete(r)
    <1>1. ASSUME NEW p \in Requests, Submit(p) PROVE dataset' = dataset
        <2>1. FindByKey(p) => dataset' = dataset  BY DEF FindByKey, tables
        <2>2. Prepare(p) => dataset' = dataset  BY DEF Prepare, tables
        <2>3. LockSession(p) => dataset' = dataset  BY DEF LockSession, tables
        <2>4. Barrier(p) => dataset' = dataset  BY DEF Barrier, tables
        <2>5. Insert(p) => dataset' = dataset  BY DEF Insert, tables
        <2>6. Commit(p) => dataset' = dataset  BY DEF Commit
        <2>7. FindAfterConflict(p) => dataset' = dataset  BY DEF FindAfterConflict, tables
        <2>8. FreshRead(p) => dataset' = dataset  BY DEF FreshRead, tables
        <2>9. Cleanup(p) => dataset' = dataset  BY DEF Cleanup
        <2>10. Poll(p) \/ Deadline(p) => dataset' = dataset  BY DEF Poll, Deadline, tables
        <2>11. LoadOriginal(p) => dataset' = dataset
            <3>1. LoadOriginal(p) => UNCHANGED <<tables, lock>>  BY DEF LoadOriginal
            <3>2. QED  BY <3>1 DEF tables
        <2>12. StageRetry(p) => dataset' = dataset  BY DEF StageRetry
        <2>13. RequestDelete(p) => dataset' = dataset
            BY DEF RequestDelete
        <2>14. QED
            BY <1>1, <2>1, <2>2, <2>3, <2>4, <2>5, <2>6, <2>7, <2>8, <2>9, <2>10, <2>11,
               <2>12, <2>13
            DEF Submit
    <1>2. ASSUME NEW p \in Requests, NEW a \in Asks, Receive(p, a) PROVE dataset' = dataset
        <2>1. ASSUME NEW pc, Arrive(p, a, pc) PROVE dataset' = dataset
            BY <2>1 DEF Arrive
        <2>2. ASSUME NEW o \in Requests, RetryRun(p, a, o) PROVE dataset' = dataset
            BY <2>2 DEF RetryRun, tables
        <2>3. QED
            BY <1>2, <2>1, <2>2
            DEF Receive, RememberContent, RememberUrl, Write, DeleteDataset
    <1>3. ASSUME NEW r \in Requests, Tombstone(r) PROVE Committed(r) /\ IsDelete(r)
        BY <1>3 DEF Tombstone, Committed
    <1>4. ASSUME NEW r \in Requests, Execute(r), ~Tombstone(r)
          PROVE  dataset' = dataset \/ dataset' = "deleting"
        BY <1>4 DEF Execute, Claim, CancelQueued, StoreBytes, Ends, BeginDelete
    <1>5. ASSUME NEW p \in Requests, CommitFails(p) \/ FreshReadFails(p) \/ Crash(p)
          PROVE  dataset' = dataset
        BY <1>5 DEF CommitFails, FreshReadFails, Crash, faultless
    <1>6. CASE ToggleSession \/ WorkerChanges \/ UNCHANGED vars
        BY <1>6 DEF ToggleSession, WorkerChanges, vars
    <1>7. QED
        BY <1>1, <1>2, <1>3, <1>4, <1>5, <1>6 DEF Next

\* What a step of one request does to the lock, and how it loses an insert.
Passes(p) ==
    /\ Others(p)
    /\ At(p, "conflict")' => SameAsk(p) /\ UniqueViolation(p)
    /\ \/ lock' = lock /\ (lock = p => request'[p].pc \in Holding)
       \/ lock' = p /\ request'[p].pc \in Holding
       \/ lock' = None

LEMMA PassesWithoutLock ==
    ASSUME LockInUse, NEW p \in Requests, request[p].pc \notin Holding, lock' = lock,
           Others(p), request'[p].pc # "conflict"
    PROVE  Passes(p)
    BY NoneAssumption DEF LockInUse, Passes, At

LEMMA PassesReleasing ==
    ASSUME NEW p \in Requests, Release(p), Others(p),
           At(p, "conflict")' => SameAsk(p) /\ UniqueViolation(p)
    PROVE  Passes(p)
    BY DEF Passes, Release

LEMMA GotoPasses ==
    ASSUME IInv, LockInUse, NEW p \in Requests, NEW pc \in Pcs, Goto(p, pc),
           request[p].pc \notin Holding, lock' = lock, pc # "conflict"
    PROVE  Passes(p)
    BY GotoFields, PassesWithoutLock DEF IInv

LEMMA RefusePasses ==
    ASSUME IInv, LockInUse, NEW p \in Requests, NEW o \in Outcomes, Refuse(p, o),
           request[p].pc \notin Holding, lock' = lock
    PROVE  Passes(p)
    BY RefuseFields, PassesWithoutLock DEF IInv

LEMMA RespondPasses ==
    ASSUME IInv, LockInUse, NEW p \in Requests, NEW r \in Requests, NEW o \in Outcomes,
           Respond(p, r, o), request[p].pc \notin Holding, lock' = lock
    PROVE  Passes(p)
    BY RespondFields, PassesWithoutLock DEF IInv

LEMMA ResolvePasses ==
    ASSUME IInv, LockInUse, NEW p \in Requests, NEW r \in Requests, Resolve(p, r),
           request[p].pc \notin Holding, lock' = lock
    PROVE  Passes(p)
    BY RefusePasses, RespondPasses DEF Resolve, Outcomes

LEMMA SubmitPasses ==
    ASSUME IInv, LockInUse, NEW p \in Requests, Submit(p)
    PROVE  Passes(p)
    <1> USE DEF IInv
    <1>1. CASE FindByKey(p)
        <2>1. request[p].pc \notin Holding /\ lock' = lock
            BY <1>1 DEF FindByKey, At, Holding
        <2>2. CASE Gate(p)
            BY <2>1, <2>2, GotoPasses, RefusePasses DEF Gate, Pcs, Outcomes
        <2>3. ASSUME NEW r \in Requests, Resolve(p, r) PROVE Passes(p)
            BY <2>1, <2>3, ResolvePasses
        <2>4. QED  BY <1>1, <2>2, <2>3 DEF FindByKey, Holders
    <1>2. CASE Prepare(p)
        <2>1. request[p].pc \notin Holding /\ lock' = lock
            BY <1>2 DEF Prepare, At, Holding
        <2>2. CASE request' = [request EXCEPT ![p].pc = "lock", ![p].seen = session]
            <3> DEFINE s == [request[p] EXCEPT !.pc = "lock", !.seen = session]
            <3>1. request' = [request EXCEPT ![p] = s]  BY <2>2 DEF TypeOK
            <3>2. s.pc = "lock"  BY DEF TypeOK, Request
            <3> HIDE DEF s
            <3>3. Others(p) /\ request'[p].pc = "lock"
                BY <3>1, <3>2 DEF TypeOK, Others
            <3>4. QED  BY <2>1, <3>3, PassesWithoutLock
        <2>3. QED
            BY <1>2, <2>1, <2>2, GotoPasses, RefusePasses DEF Prepare, Pcs, Outcomes
    <1>3. CASE LockSession(p)
        <2>1. request[p].pc \notin Holding  BY <1>3 DEF LockSession, At, Holding
        <2>2. CASE Refuse(p, "refused") /\ lock' = lock
            BY <2>1, <2>2, RefusePasses DEF Outcomes
        <2>3. CASE Goto(p, "barrier") /\ lock' = p
            BY <2>3, GotoFields DEF Passes, Holding, Pcs, At
        <2>4. QED  BY <1>3, <2>2, <2>3 DEF LockSession
    <1>4. CASE Barrier(p)
        <2>1. CASE Refuse(p, "refused") /\ Release(p)
            <3>1. Others(p) /\ request'[p].pc # "conflict"
                BY <2>1, RefuseFields DEF Outcomes
            <3>2. QED  BY <2>1, <3>1, PassesReleasing DEF At
        <2>2. CASE Goto(p, "insert") /\ lock' = lock
            BY <2>2, GotoFields DEF Passes, Holding, Pcs, At
        <2>3. QED  BY <1>4, <2>1, <2>2 DEF Barrier
    <1>5. CASE Insert(p)
        <2>1. CASE UniqueViolation(p) /\ Goto(p, "conflict") /\ Release(p)
            <3>1. Others(p) /\ SameAsk(p)  BY <2>1, GotoFields DEF Pcs
            <3>2. QED  BY <2>1, <3>1, PassesReleasing
        <2>2. CASE Goto(p, "inserted") /\ lock' = lock
            BY <2>2, GotoFields DEF Passes, Holding, Pcs, At
        <2>3. QED  BY <1>5, <2>1, <2>2 DEF Insert
    <1>6. CASE Commit(p)
        <2>1. Others(p) /\ request'[p].pc # "conflict" /\ Release(p)
            BY <1>6, GotoFields DEF Commit, Pcs
        <2>2. QED  BY <2>1, PassesReleasing DEF At
    <1>7. CASE FindAfterConflict(p)
        <2>1. request[p].pc \notin Holding /\ lock' = lock
            BY <1>7 DEF FindAfterConflict, At, Holding
        <2>2. QED  BY <1>7, <2>1, ResolvePasses DEF FindAfterConflict, Holders
    <1>8. CASE FreshRead(p)
        BY <1>8, RespondPasses DEF FreshRead, At, Holding, Outcomes
    <1>9. CASE Cleanup(p)
        BY <1>9, GotoPasses DEF Cleanup, AfterCleanup, At, Holding, Pcs
    <1>10. CASE Poll(p) \/ Deadline(p)
        <2> DEFINE s == [request[p] EXCEPT !.pc = "done", !.status = Reported(request[p].answer)]
        <2>1. request' = [request EXCEPT ![p] = s]
            BY <1>10 DEF Poll, Deadline, TypeOK
        <2>2. s.pc = "done"  BY DEF TypeOK, Request
        <2> HIDE DEF s
        <2>3. Others(p) /\ request'[p].pc = "done"  BY <2>1, <2>2 DEF TypeOK, Others
        <2>4. request[p].pc \notin Holding /\ lock' = lock
            BY <1>10 DEF Poll, Deadline, At, Holding
        <2>5. QED  BY <2>3, <2>4, PassesWithoutLock
    <1>11. CASE LoadOriginal(p)
        <2>1. request[p].pc \notin Holding /\ lock' = lock
            <3>1. At(p, "load") /\ UNCHANGED <<tables, lock>>  BY <1>11 DEF LoadOriginal
            <3>2. QED  BY <3>1 DEF At, Holding
        <2>2. CASE request' = [request EXCEPT ![p].outcome = "refused", ![p].pc = "done"]
            <3> DEFINE s == [request[p] EXCEPT !.outcome = "refused", !.pc = "done"]
            <3>1. request' = [request EXCEPT ![p] = s]  BY <2>2 DEF TypeOK
            <3>2. s.pc = "done"  BY DEF TypeOK, Request
            <3> HIDE DEF s
            <3>3. Others(p) /\ request'[p].pc = "done"  BY <3>1, <3>2 DEF TypeOK, Others
            <3>4. QED  BY <2>1, <3>3, PassesWithoutLock
        <2>3. ASSUME NEW r \in Holders(request[p].of),
                     request' = [request EXCEPT ![p].outcome = "replayed", ![p].answer = r,
                                                ![p].status = Reported(r), ![p].pc = "done"]
              PROVE  Passes(p)
            <3> DEFINE s == [request[p] EXCEPT !.outcome = "replayed", !.answer = r,
                                               !.status = Reported(r), !.pc = "done"]
            <3>1. request' = [request EXCEPT ![p] = s]  BY <2>3 DEF TypeOK
            <3>2. s.pc = "done"  BY DEF TypeOK, Request
            <3> HIDE DEF s
            <3>3. Others(p) /\ request'[p].pc = "done"  BY <3>1, <3>2 DEF TypeOK, Others
            <3>4. QED  BY <2>1, <3>3, PassesWithoutLock
        <2>4. QED
            BY <1>11, <2>1, <2>2, <2>3, GotoPasses DEF LoadOriginal, Pcs
    <1>12. CASE StageRetry(p)
        BY <1>12, GotoPasses, RefusePasses DEF StageRetry, At, Holding, Pcs, Outcomes
    <1>13. CASE RequestDelete(p)
        <2>1. request[p].pc \notin Holding /\ lock' = lock
            BY <1>13 DEF RequestDelete, At, Holding
        <2>2. ASSUME NEW r \in Requests, Respond(p, r, "replayed") PROVE Passes(p)
            BY <2>1, <2>2, RespondPasses DEF Outcomes
        <2>3. QED
            BY <1>13, <2>1, <2>2, GotoPasses, RefusePasses
            DEF RequestDelete, PendingDeletes, Pcs, Outcomes
    <1>14. QED
        BY <1>1, <1>2, <1>3, <1>4, <1>5, <1>6, <1>7, <1>8, <1>9, <1>10, <1>11, <1>12, <1>13
        DEF Submit

LEMMA ReceivePasses ==
    ASSUME IInv, LockInUse, NEW p \in Requests, NEW a \in Asks, Receive(p, a)
    PROVE  Passes(p)
    <1>1. ASSUME NEW pc \in {"find", "delete"}, Arrive(p, a, pc) PROVE Passes(p)
        <2>1. request[p].pc \notin Holding /\ lock' = lock
            BY <1>1 DEF Arrive, CanArrive, At, Holding
        <2>2. Others(p) /\ request'[p].pc = pc  BY <1>1, ArriveFields DEF IInv, Pcs
        <2>3. QED  BY <2>1, <2>2, PassesWithoutLock
    <1>2. ASSUME NEW o \in Requests, RetryRun(p, a, o) PROVE Passes(p)
        <2> DEFINE s == [request[p] EXCEPT !.pc = "load", !.of = o, !.key = ReservedKey(o),
                                           !.op = run[o].op, !.work = run[o].work,
                                           !.session = run[o].session, !.wait = FALSE]
        <2>1. request' = [request EXCEPT ![p] = s]  BY <1>2 DEF RetryRun, IInv, TypeOK
        <2>2. s.pc = "load"  BY DEF IInv, TypeOK, Request
        <2> HIDE DEF s
        <2>3. Others(p) /\ request'[p].pc = "load"  BY <2>1, <2>2 DEF IInv, TypeOK, Others
        <2>4. request[p].pc \notin Holding /\ lock' = lock
            BY <1>2 DEF RetryRun, CanArrive, At, Holding
        <2>5. QED  BY <2>3, <2>4, PassesWithoutLock
    <1>3. QED
        BY <1>1, <1>2 DEF Receive, RememberContent, RememberUrl, Write, DeleteDataset

LEMMA NextPasses ==
    ASSUME IInv, LockInUse, [Next]_vars
    PROVE  \/ request' = request /\ lock' = lock
           \/ \E p \in Requests : Passes(p)
    <1>1. CASE UNCHANGED vars \/ ToggleSession \/ WorkerChanges
        BY <1>1 DEF vars, ToggleSession, WorkerChanges
    <1>2. ASSUME NEW r \in Requests, Execute(r) PROVE request' = request /\ lock' = lock
        BY <1>2 DEF Execute, Claim, CancelQueued, StoreBytes, Ends, BeginDelete, Tombstone, rest
    <1>3. ASSUME NEW p \in Requests, CommitFails(p) PROVE Passes(p)
        <2>1. Others(p) /\ request'[p].pc # "conflict" /\ Release(p)
            BY <1>3, RefuseFields DEF CommitFails, IInv, Outcomes
        <2>2. QED  BY <2>1, PassesReleasing DEF At
    <1>4. ASSUME NEW p \in Requests, FreshReadFails(p) PROVE Passes(p)
        BY <1>4, RefusePasses DEF FreshReadFails, At, Holding, Outcomes
    <1>5. ASSUME NEW p \in Requests, Crash(p) PROVE Passes(p)
        <2>1. Others(p) /\ request'[p].pc # "conflict" /\ Release(p)
            BY <1>5, GotoFields DEF Crash, IInv, Pcs
        <2>2. QED  BY <2>1, PassesReleasing DEF At
    <1>6. QED
        BY <1>1, <1>2, <1>3, <1>4, <1>5, SubmitPasses, ReceivePasses DEF Next

LEMMA NextWaitInv ==
    ASSUME IInv, WaitInv, [Next]_vars
    PROVE  WaitInv'
    <1>1. DeletedByRun'
        <2>1. ASSUME NEW r \in Requests, Committed(r), IsDelete(r) PROVE ~NoDeleteRun'
            <3>1. Committed(r)' /\ IsDelete(r)'  BY <2>1, RowsLast DEF IsDelete
            <3>2. QED  BY <3>1 DEF NoDeleteRun
        <2>2. QED
            BY <2>1, DatasetSteps DEF WaitInv, DeletedByRun, NoDeleteRun
    <1>2. CASE request' = request /\ lock' = lock
        <2>1. ASSUME NEW q \in Requests PROVE LostToSomebody(q)'
            BY <1>2, HoldersLast DEF WaitInv, LostToSomebody, At
        <2>2. QED  BY <1>1, <1>2, <2>1 DEF WaitInv, LockInUse
    <1>3. ASSUME NEW p \in Requests, Passes(p) PROVE WaitInv'
        <2>1. LockInUse'
            <3>1. lock \in Requests \cup {None}  BY DEF IInv, TypeOK, Lock
            <3>2. QED  BY <1>3, <3>1 DEF WaitInv, LockInUse, Passes, Others
        <2>2. LostToSomebody(p)'
            <3>1. SUFFICES ASSUME At(p, "conflict")' PROVE Holders(request[p].key)' # {}
                BY <1>3 DEF LostToSomebody, Passes, SameAsk, Holders, Committed
            <3>2. Holders(request[p].key) # {}
                BY <1>3, <3>1 DEF Passes, UniqueViolation
            <3>3. QED  BY <1>3, <3>1, <3>2, HoldersLast DEF Passes, SameAsk
        <2>3. ASSUME NEW q \in Requests, q # p PROVE LostToSomebody(q)'
            <3>1. request'[q] = request[q]  BY <1>3, <2>3 DEF Passes, Others
            <3>2. QED  BY <3>1, HoldersLast DEF WaitInv, LostToSomebody, At
        <2>4. QED  BY <1>1, <2>1, <2>2, <2>3 DEF WaitInv
    <1>4. QED  BY <1>2, <1>3, NextPasses DEF WaitInv

\* If everybody under way waited, nobody would hold an uncommitted insert, so
\* nobody would wait for one, so nobody would hold the session's lock.
LEMMA NobodyWaitsForNobody ==
    ASSUME IInv, WaitInv
    PROVE  SomebodyGoesOn
    <1> SUFFICES ASSUME NEW p \in UnderWay, \A q \in UnderWay : Waits(q)
                 PROVE  FALSE
        BY DEF SomebodyGoesOn
    <1>1. ASSUME NEW q \in Requests PROVE ~At(q, "inserted") /\ ~At(q, "barrier")
        BY DEF UnderWay, Waits, At
    <1>2. DatasetLockFree /\ \A q \in Requests : ~KeyInFlight(q)
        BY <1>1 DEF DatasetLockFree, KeyInFlight
    <1>3. ASSUME NEW q \in Requests PROVE ~At(q, "insert")
        BY <1>2 DEF UnderWay, Waits, At
    <1>4. lock = None
        <2>1. lock # None => lock \in Requests  BY DEF IInv, TypeOK, Lock
        <2>2. QED  BY <1>1, <1>3, <2>1 DEF WaitInv, LockInUse, Holding, At
    <1>5. p \in Requests /\ Waits(p)  BY DEF UnderWay
    <1>6. QED
        BY <1>2, <1>4, <1>5 DEF Waits, WaitInv, DeletedByRun, LostToSomebody

\* Requests never wait in a circle, nor for one that has ended: while some are
\* under way, one of them waits for nobody (pipeline_submission.py,
\* dataset_delete.py).  The first half of RequestsNeverDeadlock.
THEOREM SomebodyAlwaysGoesOn == Spec => []SomebodyGoesOn
    <1>1. Init => WaitInv
        BY NoneAssumption
        DEF Init, WaitInv, LockInUse, DeletedByRun, LostToSomebody, At, NewRequest
    <1>2. IInv /\ WaitInv /\ [Next]_vars => WaitInv'  BY NextWaitInv
    <1>3. IInv /\ WaitInv => SomebodyGoesOn  BY NobodyWaitsForNobody
    <1>4. QED  BY <1>1, <1>2, <1>3, Invariance, PTL DEF Spec
=============================================================================
