-------------------------- MODULE GraphOutboxProofs --------------------------
(***************************************************************************)
(* Theorems of GraphOutbox, for every set of elements, consumers, drains   *)
(* and faults, and every sequence of committed rows.                       *)
(***************************************************************************)
EXTENDS GraphOutbox, WellFoundedInduction, TLAPS

-----------------------------------------------------------------------------
(* The drain's order has first elements *)

\* Every nonempty set of naturals has a least element.
LEMMA LeastNatural ==
    ASSUME NEW T, T \subseteq Nat, T # {}
    PROVE  \E m \in T : \A k \in T : m <= k
<1>1. \A x, y \in Nat : y < x => <<y, x>> \in OpToRel(<, Nat)
  BY DEF OpToRel
<1>2. PICK R : /\ IsWellFoundedOn(R, Nat)
               /\ \A x, y \in Nat : y < x => <<y, x>> \in R
  BY <1>1, NatLessThanWellFounded, Zenon
<1>3. PICK m \in T : \A k \in T : ~ (<<k, m>> \in R)
  BY <1>2, WFMin
<1>4. ASSUME NEW k \in T PROVE m <= k
  <2>1. m \in Nat /\ k \in Nat
    OBVIOUS
  <2>2. ~ (k < m)
    BY <1>2, <1>3, <2>1, Zenon
  <2>3. QED
    BY <2>1, <2>2
<1>5. QED
  BY <1>4

\* Rows are positive, and every row has a place in the drain's order.
LEMMA RowFacts ==
    /\ Rows \subseteq Nat \ {0}
    /\ \A i \in Rows : Target(i) \in Elements /\ DrainKey(i) \in Nat
<1>1. Rows \subseteq Nat \ {0}
  BY SizesAssumption DEF Rows
<1>2. ASSUME NEW i \in Rows PROVE Target(i) \in Elements /\ DrainKey(i) \in Nat
  <2>1. Target(i) \in Elements
    BY CommandAssumption DEF Target
  <2>2. Kind[Target(i)] \in Kinds
    BY <2>1, ElementAssumption
  <2>3. Rank[Kind[Target(i)]] \in 0..4
    BY <2>2 DEF Kinds, Rank
  <2>4. QED
    BY <2>1, <2>3 DEF DrainKey
<1>3. QED
  BY <1>1, <1>2

\* The row a drain is sent to next is one of those it has left, and comes before
\* the others.
LEMMA LeastIsMember ==
    ASSUME NEW S, S \subseteq Rows, S # {}
    PROVE  Least(S) \in S /\ \A j \in S \ {Least(S)} : DrainsBefore(Least(S), j)
<1> DEFINE Keys == {DrainKey(i) : i \in S}
<1>1. Keys \subseteq Nat /\ Keys # {}
  BY RowFacts
<1>2. PICK k \in Keys : \A l \in Keys : k <= l
  BY <1>1, LeastNatural
<1> DEFINE First == {i \in S : DrainKey(i) = k}
<1>3. First \subseteq Nat /\ First # {}
  BY <1>2, RowFacts
<1>4. PICK i \in First : \A j \in First : i <= j
  BY <1>3, LeastNatural
<1>5. ASSUME NEW j \in S \ {i} PROVE DrainsBefore(i, j)
  <2>1. /\ DrainKey(i) = k /\ k <= DrainKey(j)
        /\ i \in Nat /\ j \in Nat /\ DrainKey(j) \in Nat /\ k \in Nat
    BY <1>1, <1>2, <1>4, <1>5, RowFacts
  <2>2. CASE DrainKey(j) = k
    <3>1. i <= j
      BY <1>4, <1>5, <2>2
    <3>2. QED
      BY <1>5, <2>1, <2>2, <3>1 DEF DrainsBefore
  <2>3. CASE DrainKey(j) # k
    BY <2>1, <2>3 DEF DrainsBefore
  <2>4. QED
    BY <2>2, <2>3
<1>6. \E x \in S : \A j \in S \ {x} : DrainsBefore(x, j)
  BY <1>4, <1>5
<1>7. QED
  BY <1>6, Zenon DEF Least

-----------------------------------------------------------------------------
(* Types *)

\* What TypeOK says of one actor.
ActorOK(p) ==
    /\ actor[p] \in Actor
    /\ actor[p].pc \notin {"idle", "dead"} => actor[p].row # 0
    /\ actor[p].pc \in {"applying", "applied", "erred"} =>
          actor[p].attempt \in 1..outbox[actor[p].row].attempt

\* What TypeOK says of one row.
RowOK(i) ==
    /\ outbox[i] \in Row
    /\ outbox[i].status \in {"processing", "done", "failed"} =>
          outbox[i].worker # 0 /\ outbox[i].attempt > 0

LEMMA TypeParts ==
    ASSUME TypeOK
    PROVE  /\ \A p \in Actors : ActorOK(p)
           /\ \A i \in Rows : RowOK(i)
BY DEF TypeOK, ActorOK, RowOK

\* An actor that is at a row is at a row of the table.
LEMMA BusyRow ==
    ASSUME TypeOK, NEW p \in Actors, actor[p].pc \notin {"idle", "dead"}
    PROVE  actor[p].row \in Rows
<1>1. actor[p] \in Actor /\ actor[p].row # 0
  BY DEF TypeOK
<1>2. QED
  BY <1>1 DEF Actor

LEMMA IdleIsActor == Idle \in Actor
BY DEF Idle, Actor, Phases

\* What a drain does after a row: it is at another row of the table, or idle.
LEMMA AdvancedOK ==
    ASSUME TypeOK, NEW d \in Drains
    PROVE  /\ Advanced(d) \in Actor
           /\ Advanced(d).pc \in {"idle", "observing"}
           /\ Advanced(d).pc = "observing" => Advanced(d).row # 0
<1>0. actor[d] \in Actor
  BY DEF TypeOK, Actors
<1>1. CASE Rest(d) = {}
  <2>1. Advanced(d) = Idle
    BY <1>1 DEF Advanced
  <2>2. QED
    BY <2>1, IdleIsActor DEF Idle
<1>2. CASE Rest(d) # {}
  <2>1. Rest(d) \subseteq Rows
    BY <1>0 DEF Rest, Actor
  <2>2. Least(Rest(d)) \in Rows
    BY <1>2, <2>1, LeastIsMember
  <2>3. Advanced(d) = [actor[d] EXCEPT !.pc = "observing", !.row = Least(Rest(d)), !.attempt = 0]
    BY <1>2 DEF Advanced
  <2>4. Least(Rest(d)) # 0
    BY <2>2, RowFacts
  <2> DEFINE l == Least(Rest(d))
  <2>5. /\ Advanced(d) \in Actor
        /\ Advanced(d).pc = "observing" /\ Advanced(d).row = l
    <3> HIDE DEF l
    <3>1. [actor[d] EXCEPT !.pc = "observing", !.row = l, !.attempt = 0] \in Actor
      BY <1>0, <2>2 DEF Actor, Phases, l
    <3>2. /\ [actor[d] EXCEPT !.pc = "observing", !.row = l, !.attempt = 0].pc = "observing"
          /\ [actor[d] EXCEPT !.pc = "observing", !.row = l, !.attempt = 0].row = l
      BY <1>0 DEF Actor
    <3>3. QED
      BY <2>3, <3>1, <3>2 DEF l
  <2>6. QED
    BY <2>4, <2>5
<1>3. QED
  BY <1>1, <1>2

\* A step that changes the entry of one actor only, and no row's attempt
\* downwards.
LEMMA OneActorStep ==
    ASSUME TypeOK, NEW p \in Actors, NEW x \in Actor,
           actor' = [actor EXCEPT ![p] = x],
           outbox' \in [Rows -> Row],
           \A i \in Rows : outbox[i].attempt <= outbox'[i].attempt,
           \A i \in Rows : outbox'[i].status \in {"processing", "done", "failed"} =>
                              outbox'[i].worker # 0 /\ outbox'[i].attempt > 0,
           x.pc \notin {"idle", "dead"} => x.row # 0,
           x.pc \in {"applying", "applied", "erred"} =>
              x.attempt \in 1..outbox'[x.row].attempt,
           graph' \in [Elements -> Rows \cup {0}], applied' \subseteq Rows
    PROVE  TypeOK'
<1>1. actor' \in [Actors -> Actor]
  BY DEF TypeOK
<1>2. ASSUME NEW q \in Actors PROVE
        /\ actor'[q].pc \notin {"idle", "dead"} => actor'[q].row # 0
        /\ actor'[q].pc \in {"applying", "applied", "erred"} =>
              actor'[q].attempt \in 1..outbox'[actor'[q].row].attempt
  <2>1. CASE q = p
    BY <2>1 DEF TypeOK
  <2>2. CASE q # p
    <3>1. actor'[q] = actor[q]
      BY <2>2 DEF TypeOK
    <3>2. actor[q].pc \notin {"idle", "dead"} => actor[q].row # 0
      BY DEF TypeOK
    <3>3. ASSUME actor[q].pc \in {"applying", "applied", "erred"}
          PROVE  actor[q].attempt \in 1..outbox'[actor[q].row].attempt
      <4>1. actor[q].row \in Rows
        BY <3>3, BusyRow
      <4>2. actor[q].attempt \in 1..outbox[actor[q].row].attempt
        BY <3>3 DEF TypeOK
      <4>3. /\ outbox[actor[q].row].attempt \in Nat /\ outbox'[actor[q].row].attempt \in Nat
            /\ outbox[actor[q].row].attempt <= outbox'[actor[q].row].attempt
        BY <4>1 DEF TypeOK, Row
      <4>4. QED
        BY <4>2, <4>3
    <3>4. QED
      BY <3>1, <3>2, <3>3
  <2>3. QED
    BY <2>1, <2>2
<1>3. QED
  BY <1>1, <1>2 DEF TypeOK

LEMMA TypeInit == Init => TypeOK
<1> SUFFICES ASSUME Init PROVE TypeOK
  OBVIOUS
<1>1. outbox \in [Rows -> Row]
  BY DEF Init, Row, Statuses
<1>2. actor \in [Actors -> Actor]
  BY IdleIsActor DEF Init
<1>3. QED
  BY <1>1, <1>2 DEF Init, TypeOK, Idle

LEMMA TypeEmit == TypeOK /\ Emit => TypeOK'
<1> SUFFICES ASSUME TypeOK, Emit PROVE TypeOK'
  OBVIOUS
<1>1. PICK last \in Commits :
        outbox' = [i \in Rows |-> IF i <= last /\ outbox[i].status = "absent"
                                   THEN [outbox[i] EXCEPT !.status = "pending"]
                                   ELSE outbox[i]]
  BY DEF Emit
<1>2. ASSUME NEW i \in Rows
      PROVE  /\ outbox'[i] \in Row
             /\ outbox'[i].attempt = outbox[i].attempt
             /\ outbox'[i].status \in {"processing", "done", "failed"} => outbox'[i] = outbox[i]
  <2>1. outbox[i] \in Row
    BY DEF TypeOK
  <2>2. CASE i <= last /\ outbox[i].status = "absent"
    <3>1. outbox'[i] = [outbox[i] EXCEPT !.status = "pending"]
      BY <1>1, <2>2
    <3>2. QED
      BY <2>1, <3>1 DEF Row, Statuses
  <2>3. CASE ~(i <= last /\ outbox[i].status = "absent")
    <3>1. outbox'[i] = outbox[i]
      BY <1>1, <2>3
    <3>2. QED
      BY <2>1, <3>1
  <2>4. QED
    BY <2>2, <2>3
<1>3. outbox' \in [Rows -> Row]
  BY <1>1, <1>2
<1>4. ASSUME NEW q \in Actors, actor[q].pc \in {"applying", "applied", "erred"}
      PROVE  actor[q].attempt \in 1..outbox'[actor[q].row].attempt
  <2>1. actor[q].row \in Rows
    BY <1>4, BusyRow
  <2>2. QED
    BY <1>2, <1>4, <2>1 DEF TypeOK
<1>5. UNCHANGED <<actor, graph, applied>>
  BY DEF Emit
<1>6. \A i \in Rows : outbox'[i].status \in {"processing", "done", "failed"} =>
          outbox'[i].worker # 0 /\ outbox'[i].attempt > 0
  BY <1>2 DEF TypeOK
<1>7. QED
  BY <1>3, <1>4, <1>5, <1>6 DEF TypeOK

LEMMA TypeScan == ASSUME TypeOK, NEW c \in Consumers, Scan(c) PROVE TypeOK'
<1>1. PICK i \in Rows : actor' = [actor EXCEPT ![c].pc = "scanned", ![c].row = i]
  BY DEF Scan
<1>2. UNCHANGED <<outbox, graph, applied>>
  BY DEF Scan
<1> DEFINE x == [actor[c] EXCEPT !.pc = "scanned", !.row = i]
<1>3. c \in Actors /\ actor[c] \in Actor /\ actor' = [actor EXCEPT ![c] = x]
  BY <1>1 DEF TypeOK, Actors
<1>4. x \in Actor /\ x.pc = "scanned" /\ x.row = i
  BY <1>3 DEF Actor, Phases
<1>5. i # 0
  BY RowFacts
<1>6. \A j \in Rows : outbox[j].attempt <= outbox'[j].attempt
  BY <1>2 DEF TypeOK, Row
<1> HIDE DEF x
<1>7. QED
  BY <1>2, <1>3, <1>4, <1>5, <1>6, OneActorStep DEF TypeOK

\* Steps after which an actor is idle, or a drain at its next row, and rows and
\* projection are as they were.
LEMMA TypeRest ==
    ASSUME TypeOK, NEW p \in Actors, NEW x \in Actor,
           actor' = [actor EXCEPT ![p] = x],
           x.pc \in {"idle", "observing"},
           x.pc = "observing" => x.row # 0,
           UNCHANGED <<outbox, graph, applied>>
    PROVE  TypeOK'
<1>1. \A j \in Rows : outbox[j].attempt <= outbox'[j].attempt
  BY DEF TypeOK, Row
<1>2. QED
  BY <1>1, OneActorStep DEF TypeOK

LEMMA TypeClaimMissed ==
    ASSUME TypeOK, NEW c \in Consumers, ClaimMissed(c) PROVE TypeOK'
BY IdleIsActor, TypeRest DEF ClaimMissed, Idle, Actors

LEMMA TypeObserve == ASSUME TypeOK, NEW d \in Drains, Observe(d) PROVE TypeOK'
<1> DEFINE x == IF outbox[actor[d].row].status = "done" THEN Advanced(d) ELSE Idle
<1>1. x \in Actor /\ x.pc \in {"idle", "observing"} /\ (x.pc = "observing" => x.row # 0)
  BY AdvancedOK, IdleIsActor DEF Idle
<1>2. actor' = [actor EXCEPT ![d] = x] /\ UNCHANGED <<outbox, graph, applied>> /\ d \in Actors
  BY DEF Observe, Actors
<1> HIDE DEF x
<1>3. QED
  BY <1>1, <1>2, TypeRest

LEMMA TypeStartDrain ==
    ASSUME TypeOK, NEW d \in Drains, NEW ds, StartDrain(d, ds) PROVE TypeOK'
<1> DEFINE due == {i \in Rows : Dataset(i) = ds /\ Outstanding(i)}
           x == [pc |-> "observing", row |-> Least(Snapshot(ds)), attempt |-> 0,
                 batch |-> Snapshot(ds), due |-> due]
<1>1. Snapshot(ds) \subseteq Rows /\ Snapshot(ds) # {} /\ due \subseteq Rows
  BY DEF StartDrain, Snapshot
<1>2. Least(Snapshot(ds)) \in Rows
  BY <1>1, LeastIsMember
<1>3. Least(Snapshot(ds)) # 0
  BY <1>2, RowFacts
<1>4. x \in Actor /\ x.pc = "observing" /\ x.row # 0
  BY <1>1, <1>2, <1>3 DEF Actor, Phases
<1>5. actor' = [actor EXCEPT ![d] = x] /\ UNCHANGED <<outbox, graph, applied>> /\ d \in Actors
  BY DEF StartDrain, Actors
<1> HIDE DEF x
<1>6. QED
  BY <1>4, <1>5, TypeRest

LEMMA TypeClaim == ASSUME TypeOK, NEW p \in Actors, Claim(p) PROVE TypeOK'
<1> DEFINE i == actor[p].row
           n == outbox[i].attempt + 1
           x == [actor[p] EXCEPT !.pc = "applying", !.attempt = n]
           y == [status |-> "processing", worker |-> p, attempt |-> n, expired |-> FALSE]
<1>1. i \in Rows
  BY BusyRow DEF Claim
<1>2. outbox[i] \in Row /\ n \in Nat /\ n > 0 /\ outbox[i].attempt <= n
  BY <1>1 DEF TypeOK, Row
<1>3. actor \in [Actors -> Actor] /\ actor[p] \in Actor
  BY DEF TypeOK
<1>4. p # 0
  BY ActorAssumption DEF Actors
<1>5. Lease(i, p) = y
  BY DEF Lease
<1>6. outbox' = [outbox EXCEPT ![i] = y] /\ actor' = [actor EXCEPT ![p] = x]
  <2>1. Lease(i, p).attempt = n
    BY <1>5
  <2>2. /\ outbox' = [outbox EXCEPT ![i] = Lease(i, p)]
        /\ actor' = [actor EXCEPT ![p].pc = "applying", ![p].attempt = Lease(i, p).attempt]
    BY DEF Claim
  <2> HIDE DEF n
  <2>3. [actor EXCEPT ![p].pc = "applying", ![p].attempt = n] = [actor EXCEPT ![p] = x]
    BY <1>3
  <2>4. QED
    BY <1>5, <2>1, <2>2, <2>3
<1>7. UNCHANGED <<graph, applied>>
  BY DEF Claim
<1>8. y \in Row
  BY <1>2 DEF Row, Statuses
<1>9. x \in Actor /\ x.pc = "applying" /\ x.row = i /\ x.attempt = n
  BY <1>2, <1>3 DEF Actor, Phases
<1>10. outbox' \in [Rows -> Row] /\ outbox'[i] = y
  BY <1>1, <1>6, <1>8 DEF TypeOK
<1>11. ASSUME NEW j \in Rows
       PROVE  /\ outbox[j].attempt <= outbox'[j].attempt
              /\ outbox'[j].status \in {"processing", "done", "failed"} =>
                    outbox'[j].worker # 0 /\ outbox'[j].attempt > 0
  <2>1. CASE j = i
    BY <1>2, <1>4, <1>10, <2>1
  <2>2. CASE j # i
    <3>1. outbox'[j] = outbox[j] /\ outbox[j].attempt \in Nat
      BY <1>6, <2>2 DEF TypeOK, Row
    <3>2. QED
      BY <3>1 DEF TypeOK
  <2>3. QED
    BY <2>1, <2>2
<1>12. x.attempt \in 1..outbox'[x.row].attempt /\ x.row # 0
  BY <1>1, <1>2, <1>9, <1>10, RowFacts
<1> HIDE DEF x, y
<1>13. QED
  BY <1>6, <1>7, <1>9, <1>10, <1>11, <1>12, OneActorStep DEF TypeOK

\* Steps of a call: the actor keeps its row and its attempt.
LEMMA TypeCall ==
    ASSUME TypeOK, NEW p \in Actors, actor[p].pc = "applying",
           NEW pc \in {"applied", "erred"},
           actor' = [actor EXCEPT ![p].pc = pc], UNCHANGED outbox,
           graph' \in [Elements -> Rows \cup {0}], applied' \subseteq Rows
    PROVE  TypeOK'
<1> DEFINE x == [actor[p] EXCEPT !.pc = pc]
<1>1. actor[p] \in Actor /\ actor[p].row # 0
      /\ actor[p].attempt \in 1..outbox[actor[p].row].attempt
  BY DEF TypeOK
<1>2. /\ x \in Actor /\ x.pc = pc /\ x.row = actor[p].row
      /\ x.attempt = actor[p].attempt
  BY <1>1 DEF Actor, Phases
<1>3. actor' = [actor EXCEPT ![p] = x]
  OBVIOUS
<1>4. \A j \in Rows : outbox[j].attempt <= outbox'[j].attempt
  BY DEF TypeOK, Row
<1> HIDE DEF x
<1>5. QED
  BY <1>1, <1>2, <1>3, <1>4, OneActorStep DEF TypeOK

LEMMA TypeWrite == ASSUME TypeOK, NEW p \in Actors, Write(p) PROVE TypeOK'
<1> DEFINE i == actor[p].row
<1>1. i \in Rows
  BY BusyRow DEF Write
<1>2. Projected(i) \in [Elements -> Rows \cup {0}]
  BY <1>1 DEF Projected, TypeOK
<1>3. graph' \in [Elements -> Rows \cup {0}] /\ applied' \subseteq Rows
  BY <1>1, <1>2 DEF Write, TypeOK
<1>4. UNCHANGED outbox /\ actor[p].pc = "applying"
  BY DEF Write
<1>5. \/ actor' = [actor EXCEPT ![p].pc = "applied"]
      \/ actor' = [actor EXCEPT ![p].pc = "erred"]
  BY DEF Write
<1>6. QED
  BY <1>3, <1>4, <1>5, TypeCall

LEMMA TypeWriteFails == ASSUME TypeOK, NEW p \in Actors, WriteFails(p) PROVE TypeOK'
<1>1. /\ actor[p].pc = "applying" /\ actor' = [actor EXCEPT ![p].pc = "erred"]
      /\ UNCHANGED <<outbox, graph, applied>>
  BY DEF WriteFails
<1>2. graph' \in [Elements -> Rows \cup {0}] /\ applied' \subseteq Rows
  BY <1>1 DEF TypeOK
<1>3. QED
  BY <1>1, <1>2, TypeCall

\* What finalization does to the rows.
LEMMA FinalizeRows ==
    ASSUME TypeOK, NEW p \in Actors, Finalize(p)
    PROVE  /\ outbox' \in [Rows -> Row]
           /\ \A j \in Rows : outbox'[j] = outbox[j]
                 \/ /\ j = actor[p].row /\ OwnsRow(p)
                    /\ outbox'[j] = [outbox[j] EXCEPT !.status = FinalStatus(p)]
<1> DEFINE i == actor[p].row
<1>1. i \in Rows
  BY BusyRow DEF Finalize
<1>2. FinalStatus(p) \in {"done", "failed"}
  BY DEF FinalStatus
<1>3. CASE OwnsRow(p)
  <2>1. outbox' = [outbox EXCEPT ![i].status = FinalStatus(p)]
    BY <1>3 DEF Finalize
  <2>2. outbox[i] \in Row
    BY <1>1 DEF TypeOK
  <2>3. [outbox[i] EXCEPT !.status = FinalStatus(p)] \in Row
    BY <1>2, <2>2 DEF Row, Statuses
  <2>4. QED
    BY <1>1, <1>3, <2>1, <2>3 DEF TypeOK
<1>4. CASE ~OwnsRow(p)
  BY <1>4 DEF Finalize, TypeOK
<1>5. QED
  BY <1>3, <1>4

LEMMA TypeFinalize == ASSUME TypeOK, NEW p \in Actors, Finalize(p) PROVE TypeOK'
<1> DEFINE x == IF p \in Drains /\ actor[p].pc = "applied" THEN Advanced(p) ELSE Idle
<1>1. x \in Actor /\ x.pc \in {"idle", "observing"} /\ (x.pc = "observing" => x.row # 0)
  BY AdvancedOK, IdleIsActor DEF Idle
<1>2. actor' = [actor EXCEPT ![p] = x] /\ UNCHANGED <<graph, applied>>
  BY DEF Finalize
<1>3. outbox' \in [Rows -> Row]
  BY FinalizeRows
<1>4. ASSUME NEW j \in Rows
      PROVE  /\ outbox[j].attempt <= outbox'[j].attempt
             /\ outbox'[j].status \in {"processing", "done", "failed"} =>
                   outbox'[j].worker # 0 /\ outbox'[j].attempt > 0
  <2>1. outbox[j] \in Row
    BY DEF TypeOK
  <2>2. CASE outbox'[j] = outbox[j]
    BY <2>1, <2>2 DEF TypeOK, Row
  <2>3. CASE outbox'[j] = [outbox[j] EXCEPT !.status = FinalStatus(p)] /\ j = actor[p].row /\ OwnsRow(p)
    <3>1. outbox[j].status = "processing"
      BY <2>3 DEF OwnsRow
    <3>2. outbox'[j].worker = outbox[j].worker /\ outbox'[j].attempt = outbox[j].attempt
      BY <2>1, <2>3 DEF Row
    <3>3. QED
      BY <2>1, <3>1, <3>2 DEF TypeOK, Row
  <2>4. QED
    BY <2>2, <2>3, FinalizeRows
<1> HIDE DEF x
<1>5. QED
  BY <1>1, <1>2, <1>3, <1>4, OneActorStep DEF TypeOK

LEMMA TypeFinalizeFails == ASSUME TypeOK, NEW p \in Actors, FinalizeFails(p) PROVE TypeOK'
BY IdleIsActor, TypeRest DEF FinalizeFails, Idle

LEMMA TypeLeaseExpires == ASSUME TypeOK, NEW i \in Rows, LeaseExpires(i) PROVE TypeOK'
<1>1. outbox' = [outbox EXCEPT ![i].expired = TRUE] /\ UNCHANGED <<actor, graph, applied>>
  BY DEF LeaseExpires
<1>2. outbox[i] \in Row
  BY DEF TypeOK
<1>3. [outbox[i] EXCEPT !.expired = TRUE] \in Row
  BY <1>2 DEF Row
<1>4. outbox' \in [Rows -> Row]
  BY <1>1, <1>3 DEF TypeOK
<1>5. ASSUME NEW j \in Rows
      PROVE  /\ outbox'[j].status = outbox[j].status
             /\ outbox'[j].worker = outbox[j].worker
             /\ outbox'[j].attempt = outbox[j].attempt
  <2>1. outbox[j] \in Row
    BY DEF TypeOK
  <2>2. QED
    BY <1>1, <2>1 DEF TypeOK, Row
<1>6. \A q \in Actors : actor[q].pc \in {"applying", "applied", "erred"} =>
          actor[q].attempt \in 1..outbox'[actor[q].row].attempt
  BY <1>5, BusyRow DEF TypeOK
<1>7. \A j \in Rows : outbox'[j].status \in {"processing", "done", "failed"} =>
          outbox'[j].worker # 0 /\ outbox'[j].attempt > 0
  BY <1>5 DEF TypeOK
<1>8. QED
  BY <1>1, <1>4, <1>6, <1>7 DEF TypeOK

LEMMA TypeCrash == ASSUME TypeOK, NEW b, Crash(b) PROVE TypeOK'
<1> DEFINE x == [Idle EXCEPT !.pc = "dead"]
<1>1. x \in Actor /\ x.pc = "dead"
  BY DEF Idle, Actor, Phases
<1> HIDE DEF x
<1>2. actor' = [p \in Actors |-> IF ProcessOf[p] = b THEN x ELSE actor[p]]
  BY DEF Crash, x
<1>3. actor' \in [Actors -> Actor]
  BY <1>1, <1>2 DEF TypeOK
<1>4. \A q \in Actors : actor'[q].pc # "dead" => actor'[q] = actor[q]
  BY <1>1, <1>2
<1>5. UNCHANGED <<outbox, graph, applied>>
  BY DEF Crash
<1>6. QED
  BY <1>3, <1>4, <1>5 DEF TypeOK

\* No step leaves the types.
LEMMA TypeNext == ASSUME TypeOK, [Next]_vars PROVE TypeOK'
<1>1. CASE Emit
  BY <1>1, TypeEmit
<1>2. CASE \E c \in Consumers : Scan(c) \/ ClaimMissed(c)
  BY <1>2, TypeScan, TypeClaimMissed
<1>3. CASE \E d \in Drains : Observe(d) \/ \E i \in Rows : StartDrain(d, Dataset(i))
  BY <1>3, TypeObserve, TypeStartDrain
<1>4. CASE \E p \in Actors : Work(p)
  BY <1>4, TypeClaim, TypeWrite, TypeWriteFails, TypeFinalize DEF Work
<1>5. CASE \E p \in Actors : FinalizeFails(p)
  BY <1>5, TypeFinalizeFails
<1>6. CASE \E i \in Rows : LeaseExpires(i)
  BY <1>6, TypeLeaseExpires
<1>7. CASE \E b \in Processes : Crash(b)
  BY <1>7, TypeCrash
<1>8. CASE UNCHANGED vars
  BY <1>8 DEF vars, TypeOK
<1>9. QED
  BY <1>1, <1>2, <1>3, <1>4, <1>5, <1>6, <1>7, <1>8 DEF Next

\* Rows, claimers, drains and the projection keep their types, a claimed row has
\* an owner and a counted attempt, and no call is made for an attempt the row has
\* not counted.
THEOREM OutboxTypesCorrect == Spec => []TypeOK
<1>1. Init => TypeOK
  BY TypeInit
<1>2. TypeOK /\ [Next]_vars => TypeOK'
  BY TypeNext
<1>3. QED
  BY <1>1, <1>2, PTL DEF Spec

-----------------------------------------------------------------------------
(* What a step does to a row *)

\* The moves of one row: committed with everything before it, claimed, or ended
\* or expired under its lease; done only by an actor that has applied it.
RowMove(i) ==
    \/ outbox'[i] = outbox[i]
    \/ /\ outbox[i].status = "absent" /\ outbox'[i].status = "pending"
       /\ outbox'[i].attempt = outbox[i].attempt
       /\ \A j \in 1..i : outbox'[j].status # "absent"
    \/ /\ Claimable(i) /\ outbox'[i].status = "processing"
       /\ outbox'[i].attempt = outbox[i].attempt + 1
    \/ /\ outbox[i].status = "processing" /\ outbox'[i].attempt = outbox[i].attempt
       /\ outbox'[i].status \in {"processing", "failed"}
    \/ /\ outbox[i].status = "processing" /\ outbox'[i].attempt = outbox[i].attempt
       /\ outbox'[i].status = "done"
       /\ \E p \in Actors : actor[p].pc = "applied" /\ actor[p].row = i

LEMMA EmitMoves == ASSUME TypeOK, Emit, NEW i \in Rows PROVE RowMove(i)
<1>1. PICK last \in Commits :
        outbox' = [k \in Rows |-> IF k <= last /\ outbox[k].status = "absent"
                                   THEN [outbox[k] EXCEPT !.status = "pending"]
                                   ELSE outbox[k]]
  BY DEF Emit
<1>2. outbox[i] \in Row
  BY DEF TypeOK
<1>3. CASE i <= last /\ outbox[i].status = "absent"
  <2>1. outbox'[i] = [outbox[i] EXCEPT !.status = "pending"]
    BY <1>1, <1>3
  <2>2. outbox'[i].status = "pending" /\ outbox'[i].attempt = outbox[i].attempt
    BY <1>2, <2>1 DEF Row
  <2>3. ASSUME NEW j \in 1..i PROVE outbox'[j].status # "absent"
    <3>1. j \in Rows /\ j <= last
      BY <1>3, CommandAssumption, SizesAssumption DEF Rows
    <3>2. outbox[j] \in Row
      BY <3>1 DEF TypeOK
    <3>3. CASE outbox[j].status = "absent"
      <4>1. outbox'[j] = [outbox[j] EXCEPT !.status = "pending"]
        BY <1>1, <3>1, <3>3
      <4>2. outbox'[j].status = "pending"
        BY <3>2, <4>1 DEF Row
      <4>3. QED
        BY <4>2
    <3>4. CASE outbox[j].status # "absent"
      BY <1>1, <3>1, <3>4
    <3>5. QED
      BY <3>3, <3>4
  <2>4. QED
    BY <1>3, <2>2, <2>3 DEF RowMove
<1>4. CASE ~(i <= last /\ outbox[i].status = "absent")
  BY <1>1, <1>4 DEF RowMove
<1>5. QED
  BY <1>3, <1>4

LEMMA ClaimMoves ==
    ASSUME TypeOK, NEW p \in Actors, Claim(p), NEW i \in Rows PROVE RowMove(i)
<1>1. actor[p].row \in Rows
  BY BusyRow DEF Claim
<1>2. CASE i = actor[p].row
  <2>1. outbox'[i] = Lease(i, p)
    BY <1>1, <1>2 DEF Claim, TypeOK
  <2>2. Lease(i, p).status = "processing" /\ Lease(i, p).attempt = outbox[i].attempt + 1
    BY DEF Lease
  <2>3. Claimable(i)
    BY <1>2 DEF Claim
  <2>4. QED
    BY <2>1, <2>2, <2>3 DEF RowMove
<1>3. CASE i # actor[p].row
  BY <1>3 DEF Claim, RowMove, TypeOK
<1>4. QED
  BY <1>2, <1>3

LEMMA FinalizeMoves ==
    ASSUME TypeOK, NEW p \in Actors, Finalize(p), NEW i \in Rows PROVE RowMove(i)
<1>1. CASE outbox'[i] = outbox[i]
  BY <1>1 DEF RowMove
<1>2. CASE /\ i = actor[p].row /\ OwnsRow(p)
           /\ outbox'[i] = [outbox[i] EXCEPT !.status = FinalStatus(p)]
  <2>1. outbox[i] \in Row /\ outbox[i].status = "processing"
    BY <1>2 DEF TypeOK, OwnsRow
  <2>2. outbox'[i].status = FinalStatus(p) /\ outbox'[i].attempt = outbox[i].attempt
    BY <1>2, <2>1 DEF Row
  <2>3. CASE actor[p].pc = "applied"
    BY <1>2, <2>1, <2>2, <2>3 DEF FinalStatus, RowMove
  <2>4. CASE actor[p].pc # "applied"
    BY <1>2, <2>1, <2>2, <2>4 DEF FinalStatus, RowMove
  <2>5. QED
    BY <2>3, <2>4
<1>3. QED
  BY <1>1, <1>2, FinalizeRows

LEMMA ExpiryMoves ==
    ASSUME TypeOK, NEW k \in Rows, LeaseExpires(k), NEW i \in Rows PROVE RowMove(i)
<1>1. outbox' = [outbox EXCEPT ![k].expired = TRUE] /\ outbox[k].status = "processing"
  BY DEF LeaseExpires
<1>2. outbox[i] \in Row
  BY DEF TypeOK
<1>3. CASE i = k
  <2>1. outbox'[i] = [outbox[i] EXCEPT !.expired = TRUE]
    BY <1>1, <1>3 DEF TypeOK
  <2>2. outbox'[i].status = outbox[i].status /\ outbox'[i].attempt = outbox[i].attempt
    BY <1>2, <2>1 DEF Row
  <2>3. QED
    BY <1>1, <1>3, <2>2 DEF RowMove
<1>4. CASE i # k
  BY <1>1, <1>4 DEF RowMove, TypeOK
<1>5. QED
  BY <1>3, <1>4

\* Every step moves each row one of these ways.
LEMMA RowMoves == ASSUME TypeOK, [Next]_vars, NEW i \in Rows PROVE RowMove(i)
<1>1. CASE UNCHANGED outbox
  BY <1>1 DEF RowMove
<1>2. CASE Emit
  BY <1>2, EmitMoves
<1>3. CASE \E c \in Consumers : Scan(c) \/ ClaimMissed(c)
  BY <1>1, <1>3 DEF Scan, ClaimMissed
<1>4. CASE \E d \in Drains : Observe(d) \/ \E k \in Rows : StartDrain(d, Dataset(k))
  BY <1>1, <1>4 DEF Observe, StartDrain
<1>5. CASE \E p \in Actors : Work(p)
  <2>1. PICK p \in Actors : Work(p)
    BY <1>5
  <2>2. CASE Claim(p)
    BY <2>2, ClaimMoves
  <2>3. CASE Write(p) \/ WriteFails(p)
    BY <1>1, <2>3 DEF Write, WriteFails
  <2>4. CASE Finalize(p)
    BY <2>4, FinalizeMoves
  <2>5. QED
    BY <2>1, <2>2, <2>3, <2>4 DEF Work
<1>6. CASE \E p \in Actors : FinalizeFails(p)
  BY <1>1, <1>6 DEF FinalizeFails
<1>7. CASE \E k \in Rows : LeaseExpires(k)
  BY <1>7, ExpiryMoves
<1>8. CASE \E b \in Processes : Crash(b)
  BY <1>1, <1>8 DEF Crash
<1>9. CASE UNCHANGED vars
  BY <1>1, <1>9 DEF vars
<1>10. QED
  BY <1>2, <1>3, <1>4, <1>5, <1>6, <1>7, <1>8, <1>9 DEF Next

\* A settled row is neither claimable nor under a lease, so it does not move.
LEMMA SettledStep ==
    ASSUME TypeOK, [Next]_vars, NEW i \in Rows, Settled(i)
    PROVE  outbox'[i] = outbox[i] /\ Settled(i)'
<1>1. RowMove(i)
  BY RowMoves
<1>2. ~Claimable(i) /\ outbox[i].status \notin {"absent", "processing"}
  BY DEF Settled, Claimable, Eligible
<1>3. outbox'[i] = outbox[i]
  BY <1>1, <1>2 DEF RowMove
<1>4. QED
  BY <1>3 DEF Settled, HasAttempts

\* No superseded holder and no claimer touches a row that is done or dead.
THEOREM SettledRowsAreFinal == Spec => SettledRowsStay
<1>1. TypeOK /\ [Next]_vars => [\A i \in Rows : Settled(i) => UNCHANGED outbox[i]]_vars
  BY SettledStep
<1>2. QED
  BY <1>1, OutboxTypesCorrect, PTL DEF Spec, SettledRowsStay

-----------------------------------------------------------------------------
(* The inductive invariant *)

\* Who reports success has applied its row.
AppliedByHolder ==
    \A p \in Actors : actor[p].pc = "applied" => actor[p].row \in applied

\* Rows are committed in the order of their ids.
CommittedInOrder ==
    \A i \in Rows : \A j \in 1..(i - 1) :
        outbox[j].status = "absent" => outbox[i].status = "absent"

\* Once a delete has been claimed, the upserts of its dataset committed before it
\* are settled, and stay so.
DeletesFenced ==
    \A i \in Rows : ~Upsert(i) /\ outbox[i].attempt > 0 =>
        \A j \in 1..(i - 1) : Upsert(j) /\ Dataset(j) = Dataset(i) => Settled(j)

IInv == TypeOK /\ AppliedBeforeDone /\ AppliedByHolder /\ CommittedInOrder /\ DeletesFenced

LEMMA SafetyInit == Init => IInv
<1> SUFFICES ASSUME Init PROVE IInv
  OBVIOUS
<1>1. TypeOK
  BY TypeInit
<1>2. AppliedBeforeDone
  BY DEF Init, AppliedBeforeDone
<1>3. AppliedByHolder
  BY DEF Init, AppliedByHolder, Idle
<1>4. CommittedInOrder
  BY DEF Init, CommittedInOrder
<1>5. DeletesFenced
  BY DEF Init, DeletesFenced
<1>6. QED
  BY <1>1, <1>2, <1>3, <1>4, <1>5 DEF IInv

\* What has been applied only grows, and it grows by the row of an actor in its
\* call.
LEMMA AppliedGrows ==
    ASSUME [Next]_vars
    PROVE  /\ applied \subseteq applied'
           /\ \A i \in applied' \ applied :
                 \E p \in Actors : actor[p].pc = "applying" /\ actor[p].row = i
<1>1. CASE \E p \in Actors : Write(p)
  BY <1>1 DEF Write
<1>2. CASE ~\E p \in Actors : Write(p)
  BY <1>2 DEF Next, vars, Emit, Scan, ClaimMissed, Observe, StartDrain, Work, Claim,
              WriteFails, Finalize, FinalizeFails, LeaseExpires, Crash
<1>3. QED
  BY <1>1, <1>2

LEMMA AppliedBeforeDoneNext ==
    ASSUME TypeOK, AppliedBeforeDone, AppliedByHolder, [Next]_vars
    PROVE  AppliedBeforeDone'
<1>1. ASSUME NEW i \in Rows, outbox'[i].status = "done" PROVE i \in applied'
  <2>1. RowMove(i)
    BY RowMoves
  <2>2. CASE outbox'[i] = outbox[i]
    BY <1>1, <2>2, AppliedGrows DEF AppliedBeforeDone
  <2>3. CASE outbox'[i] # outbox[i]
    <3>1. PICK p \in Actors : actor[p].pc = "applied" /\ actor[p].row = i
      BY <1>1, <2>1, <2>3 DEF RowMove
    <3>2. QED
      BY <3>1, AppliedGrows DEF AppliedByHolder
  <2>4. QED
    BY <2>2, <2>3
<1>2. QED
  BY <1>1 DEF AppliedBeforeDone

LEMMA AppliedByHolderNext ==
    ASSUME TypeOK, AppliedByHolder, [Next]_vars
    PROVE  AppliedByHolder'
<1> SUFFICES ASSUME NEW q \in Actors, actor'[q].pc = "applied"
             PROVE  actor'[q].row \in applied'
  BY DEF AppliedByHolder
<1>1. CASE actor'[q] = actor[q]
  BY <1>1, AppliedGrows DEF AppliedByHolder
<1>2. ASSUME NEW p \in Actors, NEW x, actor' = [actor EXCEPT ![p] = x], x.pc # "applied"
      PROVE  actor'[q] = actor[q]
  BY <1>2 DEF TypeOK
<1>3. CASE Emit \/ (\E i \in Rows : LeaseExpires(i)) \/ UNCHANGED vars
  BY <1>1, <1>3 DEF Emit, LeaseExpires, vars
<1>4. ASSUME NEW c \in Consumers, Scan(c) PROVE actor'[q] = actor[q]
  <2>1. PICK i \in Rows : actor' = [actor EXCEPT ![c].pc = "scanned", ![c].row = i]
    BY <1>4 DEF Scan
  <2>2. c \in Actors /\ actor \in [Actors -> Actor]
    BY DEF Actors, TypeOK
  <2>3. actor'[c].pc = "scanned"
    BY <2>1, <2>2 DEF Actor
  <2>4. QED
    BY <2>1, <2>2, <2>3
<1>5. ASSUME NEW c \in Consumers, ClaimMissed(c) PROVE actor'[q] = actor[q]
  BY <1>2, <1>5 DEF ClaimMissed, Idle, Actors
<1>6. ASSUME NEW d \in Drains, Observe(d) PROVE actor'[q] = actor[q]
  <2> DEFINE x == IF outbox[actor[d].row].status = "done" THEN Advanced(d) ELSE Idle
  <2>1. x.pc # "applied"
    BY AdvancedOK DEF Idle
  <2>2. actor' = [actor EXCEPT ![d] = x] /\ d \in Actors
    BY <1>6 DEF Observe, Actors
  <2> HIDE DEF x
  <2>3. QED
    BY <1>2, <2>1, <2>2
<1>7. ASSUME NEW d \in Drains, NEW ds, StartDrain(d, ds) PROVE actor'[q] = actor[q]
  BY <1>2, <1>7 DEF StartDrain, Actors
<1>8. ASSUME NEW p \in Actors, Claim(p) PROVE actor'[q] = actor[q]
  <2>1. actor' = [actor EXCEPT ![p].pc = "applying", ![p].attempt = Lease(actor[p].row, p).attempt]
    BY <1>8 DEF Claim
  <2>2. actor \in [Actors -> Actor]
    BY DEF TypeOK
  <2>3. actor'[p].pc = "applying"
    BY <2>1, <2>2 DEF Actor
  <2>4. QED
    BY <2>1, <2>2, <2>3
<1>9. ASSUME NEW p \in Actors, Write(p) PROVE actor'[q].row \in applied'
  <2>1. actor[p].row \in applied' /\ actor[p] \in Actor
    BY <1>9 DEF Write, TypeOK
  <2>2. CASE q = p
    <3>1. actor'[p].row = actor[p].row
      BY <1>9, <2>1 DEF Write, TypeOK, Actor
    <3>2. QED
      BY <2>1, <2>2, <3>1
  <2>3. CASE q # p
    BY <1>1, <1>9, <2>3 DEF Write, TypeOK
  <2>4. QED
    BY <2>2, <2>3
<1>10. ASSUME NEW p \in Actors, WriteFails(p) PROVE actor'[q] = actor[q]
  <2>1. actor' = [actor EXCEPT ![p].pc = "erred"] /\ actor \in [Actors -> Actor]
    BY <1>10 DEF WriteFails, TypeOK
  <2>2. actor'[p].pc = "erred"
    BY <2>1 DEF Actor
  <2>3. QED
    BY <2>1, <2>2
<1>11. ASSUME NEW p \in Actors, Finalize(p) PROVE actor'[q] = actor[q]
  <2> DEFINE x == IF p \in Drains /\ actor[p].pc = "applied" THEN Advanced(p) ELSE Idle
  <2>1. x.pc # "applied"
    BY AdvancedOK DEF Idle
  <2>2. actor' = [actor EXCEPT ![p] = x]
    BY <1>11 DEF Finalize
  <2> HIDE DEF x
  <2>3. QED
    BY <1>2, <2>1, <2>2
<1>12. ASSUME NEW p \in Actors, FinalizeFails(p) PROVE actor'[q] = actor[q]
  BY <1>2, <1>12 DEF FinalizeFails, Idle
<1>13. ASSUME NEW b, Crash(b) PROVE actor'[q] = actor[q]
  <2>1. actor'[q] = IF ProcessOf[q] = b THEN [Idle EXCEPT !.pc = "dead"] ELSE actor[q]
    BY <1>13 DEF Crash
  <2>2. [Idle EXCEPT !.pc = "dead"].pc = "dead"
    BY DEF Idle
  <2>3. QED
    BY <2>1, <2>2
<1>14. QED
  BY <1>1, <1>3, <1>4, <1>5, <1>6, <1>7, <1>8, <1>9, <1>10, <1>11, <1>12, <1>13 DEF Next, Work

LEMMA CommittedInOrderNext ==
    ASSUME TypeOK, CommittedInOrder, [Next]_vars
    PROVE  CommittedInOrder'
<1>1. ASSUME NEW i \in Rows, NEW j \in 1..(i - 1), outbox'[j].status = "absent"
      PROVE  outbox'[i].status = "absent"
  <2>1. j \in Rows /\ j \in 1..i
    BY SizesAssumption DEF Rows
  <2>2. outbox'[j] = outbox[j]
    BY <1>1, <2>1, RowMoves DEF RowMove
  <2>3. outbox[i].status = "absent"
    BY <1>1, <2>2 DEF CommittedInOrder
  <2>4. RowMove(i) /\ ~Claimable(i)
    BY <2>3, RowMoves DEF Claimable, Eligible
  <2>5. QED
    BY <1>1, <2>1, <2>3, <2>4 DEF RowMove
<1>2. QED
  BY <1>1 DEF CommittedInOrder

LEMMA DeletesFencedNext ==
    ASSUME TypeOK, CommittedInOrder, DeletesFenced, [Next]_vars
    PROVE  DeletesFenced'
<1>1. ASSUME NEW i \in Rows, ~Upsert(i), outbox'[i].attempt > 0,
             NEW j \in 1..(i - 1), Upsert(j), Dataset(j) = Dataset(i)
      PROVE  Settled(j)'
  <2>1. j \in Rows
    BY SizesAssumption DEF Rows
  <2>2. CASE outbox[i].attempt > 0
    <3>1. Settled(j)
      BY <1>1, <2>2 DEF DeletesFenced
    <3>2. QED
      BY <2>1, <3>1, SettledStep
  <2>3. CASE ~(outbox[i].attempt > 0)
    <3>1. Claimable(i)
      BY <1>1, <2>3, RowMoves DEF RowMove
    <3>2. ~Outstanding(j)
      BY <1>1, <2>1, <3>1 DEF Claimable, Fenced
    <3>3. outbox[i].status # "absent"
      BY <3>1 DEF Claimable, Eligible
    <3>4. outbox[j].status # "absent"
      BY <3>3 DEF CommittedInOrder
    <3>5. Settled(j)
      BY <3>2, <3>4 DEF Outstanding
    <3>6. QED
      BY <2>1, <3>5, SettledStep
  <2>4. QED
    BY <2>2, <2>3
<1>2. QED
  BY <1>1 DEF DeletesFenced, Upsert, Dataset, Target

LEMMA SafetyNext == IInv /\ [Next]_vars => IInv'
BY TypeNext, AppliedBeforeDoneNext, AppliedByHolderNext, CommittedInOrderNext,
   DeletesFencedNext DEF IInv

\* The inductive invariant of the outbox.
THEOREM OutboxInvariant == Spec => []IInv
<1>1. Init => IInv
  BY SafetyInit
<1>2. IInv /\ [Next]_vars => IInv'
  BY SafetyNext
<1>3. QED
  BY <1>1, <1>2, PTL DEF Spec

\* A row recorded done has been applied.
THEOREM DoneRowsAreApplied == Spec => []AppliedBeforeDone
<1>1. IInv => AppliedBeforeDone
  BY DEF IInv
<1>2. QED
  BY <1>1, OutboxInvariant, PTL

-----------------------------------------------------------------------------
(* Deletes *)

\* The row of a call has a counted attempt.
LEMMA CalledRowIsClaimed ==
    ASSUME TypeOK, NEW p \in Actors, actor[p].pc = "applying"
    PROVE  actor[p].row \in Rows /\ outbox[actor[p].row].attempt > 0
<1>1. actor[p].row \in Rows
  BY BusyRow
<1>2. outbox[actor[p].row].attempt \in Nat /\ actor[p].attempt \in 1..outbox[actor[p].row].attempt
  BY <1>1 DEF TypeOK, Row
<1>3. QED
  BY <1>1, <1>2

LEMMA DeleteStep ==
    ASSUME IInv, [Next]_vars, NEW i \in applied' \ applied, ~Upsert(i),
           NEW j \in 1..(i - 1), Upsert(j), Dataset(j) = Dataset(i)
    PROVE  Settled(j)
<1>1. i \in Rows /\ outbox[i].attempt > 0
  BY AppliedGrows, CalledRowIsClaimed DEF IInv
<1>2. QED
  BY <1>1 DEF IInv, DeletesFenced

\* A delete takes effect only when the upserts of its dataset committed before it
\* have settled.
THEOREM DeletesAreLast == Spec => DeletesComeLast
<1>1. IInv /\ [Next]_vars =>
        [\A p \in Actors : actor[p].pc = "applying" /\ applied' # applied =>
            \A i \in applied' \ applied : ~Upsert(i) =>
                \A j \in 1..(i - 1) : Upsert(j) /\ Dataset(j) = Dataset(i) => Settled(j)]_vars
  BY DeleteStep
<1>2. QED
  BY <1>1, OutboxInvariant, PTL DEF Spec, DeletesComeLast

\* An element appears in the projection only by the call of an actor whose row is
\* an upsert of it.
LEMMA Appears ==
    ASSUME TypeOK, [Next]_vars, NEW e \in Elements, graph[e] = 0, graph'[e] # 0
    PROVE  \E p \in Actors : /\ actor[p].pc = "applying" /\ actor'[p].pc # "applying"
                             /\ Upsert(actor[p].row) /\ Target(actor[p].row) = e
<1>1. CASE \E p \in Actors : Write(p)
  <2>1. PICK p \in Actors : Write(p)
    BY <1>1
  <2>2. graph' = Projected(actor[p].row) /\ actor[p].pc = "applying" /\ actor[p] \in Actor
    BY <2>1 DEF Write, TypeOK
  <2>3. Upsert(actor[p].row) /\ Target(actor[p].row) = e
    BY <2>2 DEF Projected
  <2>4. actor'[p].pc # "applying"
    BY <2>1, <2>2 DEF Write, TypeOK, Actor
  <2>5. QED
    BY <2>2, <2>3, <2>4
<1>2. CASE ~\E p \in Actors : Write(p)
  BY <1>2 DEF Next, vars, Emit, Scan, ClaimMissed, Observe, StartDrain, Work, Claim,
              WriteFails, Finalize, FinalizeFails, LeaseExpires, Crash
<1>3. QED
  BY <1>1, <1>2

LEMMA ZombieStep ==
    ASSUME IInv, NEW p \in Actors, actor[p].pc = "applying", Upsert(actor[p].row),
           NEW k \in Rows, Target(k) = Target(actor[p].row), ~Upsert(k),
           outbox[k].status = "done", ~(k < actor[p].row)
    PROVE  ~OwnsRow(p)
<1> DEFINE i == actor[p].row
<1>1. i \in Rows /\ i \in Nat /\ k \in Nat /\ i > 0
  <2>1. i \in Rows
    BY BusyRow DEF IInv
  <2>2. QED
    BY <2>1, SizesAssumption DEF Rows
<1>2. outbox[k].attempt > 0
  BY DEF IInv, TypeOK
<1>3. i # k
  OBVIOUS
<1>4. ~(k < i)
  OBVIOUS
<1>5. Dataset(i) = Dataset(k)
  BY DEF Dataset
<1>6. Settled(i)
  BY <1>1, <1>2, <1>3, <1>4, <1>5 DEF IInv, DeletesFenced
<1>7. QED
  BY <1>6 DEF Settled, OwnsRow

\* An element whose delete is done comes back only by an upsert committed after
\* that delete, or by a holder that has lost its lease.
THEOREM NoOwnerResurrects == Spec => OnlyZombiesResurrect
<1>1. ASSUME IInv, [Next]_vars, NEW e \in Elements, graph[e] = 0, graph'[e] # 0,
             NEW k \in Rows, Target(k) = e, ~Upsert(k), outbox[k].status = "done"
      PROVE  \E p \in Actors : /\ actor[p].pc = "applying" /\ actor'[p].pc # "applying"
                               /\ Target(actor[p].row) = e
                               /\ k < actor[p].row \/ ~OwnsRow(p)
  <2>1. PICK p \in Actors : /\ actor[p].pc = "applying" /\ actor'[p].pc # "applying"
                            /\ Upsert(actor[p].row) /\ Target(actor[p].row) = e
    BY <1>1, Appears DEF IInv
  <2>2. ~(k < actor[p].row) => ~OwnsRow(p)
    BY <1>1, <2>1, ZombieStep
  <2>3. QED
    BY <2>1, <2>2
<1>2. ASSUME IInv, [Next]_vars
      PROVE  [\A e \in Elements, k \in Rows :
                /\ graph[e] = 0 /\ graph'[e] # 0
                /\ Target(k) = e /\ ~Upsert(k) /\ outbox[k].status = "done"
                => \E p \in Actors : /\ actor[p].pc = "applying" /\ actor'[p].pc # "applying"
                                     /\ Target(actor[p].row) = e
                                     /\ k < actor[p].row \/ ~OwnsRow(p)]_vars
  BY <1>1, <1>2
<1>3. QED
  BY <1>2, OutboxInvariant, PTL DEF Spec, OnlyZombiesResurrect

-----------------------------------------------------------------------------
(* Drains *)

Busy(d) == actor[d].pc \notin {"idle", "dead"}

\* A drain is at a row of its snapshot, the rows it owes are in the snapshot, and
\* what comes before its row has been applied.
Position(d) ==
    Busy(d) => /\ actor[d].row \in actor[d].batch
               /\ actor[d].due \subseteq actor[d].batch
               /\ \A j \in actor[d].batch : DrainsBefore(j, actor[d].row) => j \in applied

DInv == IInv /\ \A d \in Drains : Position(d)

\* The order of a drain is a strict total order.
LEMMA DrainOrder ==
    ASSUME NEW i \in Rows, NEW j \in Rows
    PROVE  /\ DrainsBefore(i, j) => ~DrainsBefore(j, i)
           /\ i # j => DrainsBefore(i, j) \/ DrainsBefore(j, i)
           /\ ~DrainsBefore(i, i)
<1>1. i \in Nat /\ j \in Nat /\ DrainKey(i) \in Nat /\ DrainKey(j) \in Nat
  BY RowFacts
<1>2. QED
  BY <1>1 DEF DrainsBefore

\* Nothing in a set comes before its first row.
LEMMA LeastIsFirst ==
    ASSUME NEW S, S \subseteq Rows, S # {}
    PROVE  Least(S) \in S /\ \A j \in S : ~DrainsBefore(j, Least(S))
BY LeastIsMember, DrainOrder

\* What a step does to a drain: nothing but its phase, its end by a crash or an
\* exception, a new snapshot, or the next row after one that has been applied.
DrainMove(d) ==
    \/ /\ actor'[d].batch = actor[d].batch /\ actor'[d].row = actor[d].row
       /\ actor'[d].due = actor[d].due
       /\ Busy(d)' <=> Busy(d)
    \/ actor'[d].pc = "dead"
    \/ /\ actor'[d].pc = "idle"
       /\ actor[d].pc \in {"applied", "erred"} \/ outbox[actor[d].row].status # "done"
    \/ /\ actor'[d].batch \subseteq Rows /\ actor'[d].batch # {}
       /\ actor'[d].row = Least(actor'[d].batch) /\ actor'[d].due \subseteq actor'[d].batch
       /\ actor'[d].pc = "observing" /\ actor[d].pc = "idle"
    \/ /\ actor'[d] = Advanced(d) /\ Busy(d) /\ actor[d].row \in applied

LEMMA SameDrain == ASSUME NEW d, actor'[d] = actor[d] PROVE DrainMove(d)
BY DEF DrainMove, Busy

\* A step of another actor.
LEMMA OtherDrain ==
    ASSUME TypeOK, NEW d \in Drains, NEW p \in Actors, p # d, NEW x,
           actor' = [actor EXCEPT ![p] = x]
    PROVE  DrainMove(d)
BY SameDrain DEF TypeOK, Actors

LEMMA DrainObserve ==
    ASSUME TypeOK, AppliedBeforeDone, NEW d \in Drains, Observe(d) PROVE DrainMove(d)
<1>1. actor \in [Actors -> Actor] /\ d \in Actors /\ actor[d].pc = "observing"
  BY DEF TypeOK, Actors, Observe
<1>2. actor[d].row \in Rows
  BY <1>1, BusyRow
<1>3. CASE outbox[actor[d].row].status = "done"
  <2>1. actor'[d] = Advanced(d)
    BY <1>1, <1>3 DEF Observe
  <2>2. QED
    BY <1>1, <1>2, <1>3, <2>1 DEF DrainMove, Busy, AppliedBeforeDone
<1>4. CASE outbox[actor[d].row].status # "done"
  <2>1. actor'[d] = Idle
    BY <1>1, <1>4 DEF Observe
  <2>2. actor'[d].pc = "idle"
    BY <2>1 DEF Idle
  <2>3. QED
    BY <1>4, <2>2 DEF DrainMove
<1>5. QED
  BY <1>3, <1>4

LEMMA DrainStarts ==
    ASSUME TypeOK, NEW d \in Drains, NEW ds, StartDrain(d, ds) PROVE DrainMove(d)
<1> DEFINE x == actor'[d]
<1>1. actor \in [Actors -> Actor] /\ d \in Actors
  BY DEF TypeOK, Actors
<1>2. x = [pc |-> "observing", row |-> Least(Snapshot(ds)), attempt |-> 0,
           batch |-> Snapshot(ds), due |-> {i \in Rows : Dataset(i) = ds /\ Outstanding(i)}]
  BY <1>1 DEF StartDrain
<1>3. Snapshot(ds) \subseteq Rows /\ Snapshot(ds) # {} /\ actor[d].pc = "idle"
  BY DEF StartDrain, Snapshot
<1>4. x.due \subseteq x.batch
  BY <1>2 DEF Snapshot
<1>5. QED
  BY <1>2, <1>3, <1>4 DEF DrainMove

LEMMA DrainClaims ==
    ASSUME TypeOK, NEW d \in Drains, Claim(d) PROVE DrainMove(d)
<1> DEFINE n == Lease(actor[d].row, d).attempt
<1>1. actor \in [Actors -> Actor] /\ d \in Actors
  BY DEF TypeOK, Actors
<1>2. actor' = [actor EXCEPT ![d].pc = "applying", ![d].attempt = n] /\ Busy(d)
  BY DEF Claim, Busy
<1> HIDE DEF n
<1>3. /\ actor'[d].batch = actor[d].batch /\ actor'[d].row = actor[d].row
      /\ actor'[d].due = actor[d].due /\ actor'[d].pc = "applying"
  BY <1>1, <1>2 DEF Actor
<1>4. Busy(d)'
  BY <1>3 DEF Busy
<1>5. QED
  BY <1>2, <1>3, <1>4 DEF DrainMove

LEMMA DrainCalls ==
    ASSUME TypeOK, NEW d \in Drains, Busy(d), NEW pc \in {"applied", "erred"},
           actor' = [actor EXCEPT ![d].pc = pc]
    PROVE  DrainMove(d)
<1>1. actor \in [Actors -> Actor] /\ d \in Actors
  BY DEF TypeOK, Actors
<1>2. /\ actor'[d].batch = actor[d].batch /\ actor'[d].row = actor[d].row
      /\ actor'[d].due = actor[d].due /\ actor'[d].pc = pc
  BY <1>1 DEF Actor
<1>3. Busy(d)'
  BY <1>2 DEF Busy
<1>4. QED
  BY <1>2, <1>3 DEF DrainMove

LEMMA DrainFinalizes ==
    ASSUME TypeOK, AppliedByHolder, NEW d \in Drains, Finalize(d) PROVE DrainMove(d)
<1>1. actor \in [Actors -> Actor] /\ d \in Actors /\ actor[d].pc \in {"applied", "erred"}
  BY DEF TypeOK, Actors, Finalize
<1>2. CASE actor[d].pc = "applied"
  <2>1. actor'[d] = Advanced(d)
    BY <1>1, <1>2 DEF Finalize
  <2>2. QED
    BY <1>1, <1>2, <2>1 DEF DrainMove, Busy, AppliedByHolder
<1>3. CASE actor[d].pc # "applied"
  <2>1. actor'[d] = Idle
    BY <1>1, <1>3 DEF Finalize
  <2>2. actor'[d].pc = "idle"
    BY <2>1 DEF Idle
  <2>3. QED
    BY <1>1, <2>2 DEF DrainMove
<1>4. QED
  BY <1>2, <1>3

LEMMA DrainFinalizeFails ==
    ASSUME TypeOK, NEW d \in Drains, FinalizeFails(d) PROVE DrainMove(d)
<1>1. actor \in [Actors -> Actor] /\ d \in Actors /\ actor[d].pc \in {"applied", "erred"}
  BY DEF TypeOK, Actors, FinalizeFails
<1>2. actor'[d] = Idle
  BY <1>1 DEF FinalizeFails
<1>3. actor'[d].pc = "idle"
  BY <1>2 DEF Idle
<1>4. QED
  BY <1>1, <1>3 DEF DrainMove

LEMMA DrainCrash == ASSUME TypeOK, NEW d \in Drains, NEW b, Crash(b) PROVE DrainMove(d)
<1>1. actor'[d] = IF ProcessOf[d] = b THEN [Idle EXCEPT !.pc = "dead"] ELSE actor[d]
  BY DEF Crash, Actors
<1>2. [Idle EXCEPT !.pc = "dead"].pc = "dead"
  BY DEF Idle
<1>3. QED
  BY <1>1, <1>2, SameDrain DEF DrainMove

\* Every step moves each drain one of these ways.
LEMMA DrainMoves ==
    ASSUME IInv, [Next]_vars, NEW d \in Drains PROVE DrainMove(d)
<1>1. TypeOK /\ AppliedBeforeDone /\ AppliedByHolder /\ d \in Actors
  BY DEF IInv, Actors
<1>2. CASE UNCHANGED actor
  BY <1>2, SameDrain
<1>3. CASE Emit \/ (\E i \in Rows : LeaseExpires(i)) \/ UNCHANGED vars
  BY <1>2, <1>3 DEF Emit, LeaseExpires, vars
<1>4. ASSUME NEW c \in Consumers, Scan(c) \/ ClaimMissed(c) PROVE DrainMove(d)
  <2>1. c # d /\ c \in Actors
    BY ActorAssumption DEF Actors
  <2>2. \E x : actor' = [actor EXCEPT ![c] = x]
    BY <1>4 DEF Scan, ClaimMissed
  <2>3. QED
    BY <1>1, <2>1, <2>2, OtherDrain
<1>5. ASSUME NEW q \in Drains, Observe(q) \/ \E i \in Rows : StartDrain(q, Dataset(i))
      PROVE  DrainMove(d)
  <2>1. CASE q = d
    BY <1>1, <1>5, <2>1, DrainObserve, DrainStarts
  <2>2. CASE q # d
    <3>1. \E x : actor' = [actor EXCEPT ![q] = x]
      BY <1>5 DEF Observe, StartDrain
    <3>2. QED
      BY <1>1, <2>2, <3>1, OtherDrain DEF Actors
  <2>3. QED
    BY <2>1, <2>2
<1>6. ASSUME NEW p \in Actors, Work(p) \/ FinalizeFails(p) PROVE DrainMove(d)
  <2>1. CASE p = d
    <3>1. CASE Claim(d)
      BY <1>1, <3>1, DrainClaims
    <3>2. CASE Write(d) \/ WriteFails(d)
      <4>1. Busy(d)
        BY <3>2 DEF Write, WriteFails, Busy
      <4>2. \E pc \in {"applied", "erred"} : actor' = [actor EXCEPT ![d].pc = pc]
        BY <3>2 DEF Write, WriteFails
      <4>3. QED
        BY <1>1, <4>1, <4>2, DrainCalls
    <3>3. CASE Finalize(d)
      BY <1>1, <3>3, DrainFinalizes
    <3>4. CASE FinalizeFails(d)
      BY <1>1, <3>4, DrainFinalizeFails
    <3>5. QED
      BY <1>6, <2>1, <3>1, <3>2, <3>3, <3>4 DEF Work
  <2>2. CASE p # d
    <3>1. \E x : actor' = [actor EXCEPT ![p] = x]
      BY <1>6 DEF Work, Claim, Write, WriteFails, Finalize, FinalizeFails
    <3>2. QED
      BY <1>1, <2>2, <3>1, OtherDrain
  <2>3. QED
    BY <2>1, <2>2
<1>7. ASSUME NEW b, Crash(b) PROVE DrainMove(d)
  BY <1>1, <1>7, DrainCrash
<1>8. QED
  BY <1>3, <1>4, <1>5, <1>6, <1>7 DEF Next

\* A drain whose row has been applied has applied its snapshot, or goes to a row
\* before which everything has been applied.
LEMMA Advancing ==
    ASSUME TypeOK, NEW d \in Drains, Busy(d), Position(d), actor[d].row \in applied
    PROVE  /\ Advanced(d).pc = "idle" => actor[d].due \subseteq applied
           /\ Advanced(d).pc = "observing" =>
                 /\ Advanced(d).row \in Advanced(d).batch
                 /\ Advanced(d).due \subseteq Advanced(d).batch
                 /\ \A j \in Advanced(d).batch : DrainsBefore(j, Advanced(d).row) => j \in applied
<1> DEFINE r == actor[d].row
           B == actor[d].batch
<1>1. actor[d] \in Actor /\ r \in Rows /\ B \subseteq Rows
  BY BusyRow DEF TypeOK, Actors, Busy, Actor
<1>2. /\ r \in B /\ actor[d].due \subseteq B
      /\ \A j \in B : DrainsBefore(j, r) => j \in applied
  BY DEF Position
<1>3. Rest(d) = {j \in B : DrainsBefore(r, j)}
  BY DEF Rest
<1>4. \A j \in B : j \notin applied => j \in Rest(d)
  BY <1>1, <1>2, <1>3, DrainOrder
<1>5. CASE Rest(d) = {}
  <2>1. Advanced(d).pc = "idle"
    BY <1>5 DEF Advanced, Idle
  <2>2. QED
    BY <1>2, <1>4, <1>5, <2>1
<1>6. CASE Rest(d) # {}
  <2> DEFINE l == Least(Rest(d))
  <2>1. l \in Rest(d) /\ \A j \in Rest(d) : ~DrainsBefore(j, l)
    BY <1>1, <1>3, <1>6, LeastIsFirst
  <2>2. Advanced(d) = [actor[d] EXCEPT !.pc = "observing", !.row = l, !.attempt = 0]
    BY <1>6 DEF Advanced
  <2>3. l \in B /\ \A j \in B : DrainsBefore(j, l) => j \in applied
    BY <1>3, <1>4, <2>1
  <2> HIDE DEF l
  <2>4. /\ Advanced(d).pc = "observing" /\ Advanced(d).row = l
        /\ Advanced(d).batch = B /\ Advanced(d).due = actor[d].due
    BY <1>1, <2>2 DEF Actor
  <2>5. QED
    BY <1>2, <2>3, <2>4
<1>7. QED
  BY <1>5, <1>6

LEMMA PositionNext ==
    ASSUME DInv, [Next]_vars, NEW d \in Drains PROVE Position(d)'
<1>1. IInv /\ TypeOK /\ Position(d) /\ DrainMove(d) /\ applied \subseteq applied'
  BY DrainMoves, AppliedGrows DEF DInv, IInv
<1> SUFFICES ASSUME Busy(d)'
             PROVE  /\ actor'[d].row \in actor'[d].batch
                    /\ actor'[d].due \subseteq actor'[d].batch
                    /\ \A j \in actor'[d].batch : DrainsBefore(j, actor'[d].row) => j \in applied'
  BY DEF Position, DrainsBefore, DrainKey, Upsert, Target
<1>2. actor'[d].pc \notin {"idle", "dead"}
  BY DEF Busy
<1>3. CASE /\ actor'[d].batch = actor[d].batch /\ actor'[d].row = actor[d].row
           /\ actor'[d].due = actor[d].due /\ Busy(d)
  BY <1>1, <1>3 DEF Position
<1>4. CASE /\ actor'[d].batch \subseteq Rows /\ actor'[d].batch # {}
           /\ actor'[d].row = Least(actor'[d].batch) /\ actor'[d].due \subseteq actor'[d].batch
  BY <1>4, LeastIsFirst
<1>5. CASE actor'[d] = Advanced(d) /\ Busy(d) /\ actor[d].row \in applied
  <2>1. Advanced(d).pc = "observing"
    BY <1>1, <1>2, <1>5, AdvancedOK
  <2>2. QED
    BY <1>1, <1>5, <2>1, Advancing
<1>6. QED
  BY <1>1, <1>2, <1>3, <1>4, <1>5 DEF DrainMove

\* The inductive invariant with the positions of the drains.
THEOREM DrainInvariant == Spec => []DInv
<1>1. Init => DInv
  BY SafetyInit DEF Init, DInv, Position, Busy, Idle, Actors
<1>2. DInv /\ [Next]_vars => DInv'
  BY SafetyNext, PositionNext DEF DInv
<1>3. QED
  BY <1>1, <1>2, PTL DEF Spec

LEMMA DrainReturn ==
    ASSUME DInv, [Next]_vars, NEW d \in Drains, actor'[d].pc = "idle",
           \/ actor[d].pc = "applied" /\ Finalize(d)
           \/ actor[d].pc = "observing" /\ outbox[actor[d].row].status = "done"
    PROVE  actor[d].due \subseteq applied
<1>1. IInv /\ TypeOK /\ AppliedByHolder /\ Position(d) /\ Busy(d) /\ d \in Actors
  BY DEF DInv, IInv, Busy, Actors
<1>2. actor'[d] = Advanced(d) /\ actor[d].row \in applied
  <2>1. CASE actor[d].pc = "applied" /\ Finalize(d)
    <3>1. actor \in [Actors -> Actor]
      BY <1>1 DEF TypeOK
    <3>2. QED
      BY <1>1, <2>1, <3>1 DEF Finalize, AppliedByHolder
  <2>2. CASE actor[d].pc = "observing" /\ outbox[actor[d].row].status = "done"
    <3>1. DrainMove(d) /\ ~Busy(d)'
      BY <1>1, DrainMoves DEF Busy
    <3>2. QED
      BY <1>1, <2>2, <3>1 DEF DrainMove
  <2>3. QED
    BY <2>1, <2>2
<1>3. QED
  BY <1>1, <1>2, Advancing

\* A drain that returns has seen every row it owes applied.
THEOREM DrainsKeepTheirPromise == Spec => DrainsConverge
<1>1. DInv /\ [Next]_vars =>
        [\A d \in Drains :
            /\ actor'[d].pc = "idle"
            /\ \/ actor[d].pc = "applied" /\ Finalize(d)
               \/ actor[d].pc = "observing" /\ outbox[actor[d].row].status = "done"
            => actor[d].due \subseteq applied]_vars
  BY DrainReturn
<1>2. QED
  BY <1>1, DrainInvariant, PTL DEF Spec, DrainsConverge
=============================================================================
