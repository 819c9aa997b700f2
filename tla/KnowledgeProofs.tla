-------------------------- MODULE KnowledgeProofs --------------------------
(* What Knowledge promises, for every number of sources, keys and generations.
   The tables are rows that only ever fade (Onward), chunks are born once
   (Ages), and what a generation's chunks say is what its rows are (Sound).
   The projection is behind by what the outbox holds (GraphOK, Complete). *)
EXTENDS Knowledge, FiniteSetTheorems, SequenceTheorems, WellFoundedInduction, TLAPS

-----------------------------------------------------------------------------
(* The inductive invariant: the rows *)

ChunkIds == Sources \X Generations \X Nat
EntityRow == [key : Keys, gen : Generations, active : BOOLEAN]
RelationRow == [src : Nat, dst : Nat, gen : Generations, active : BOOLEAN]
MentionRow == [of : Nat, chunk : ChunkIds, entity : Nat]

RowsType(k) ==
    /\ k.ents \in Seq(EntityRow)
    /\ k.rels \in Seq(RelationRow)
    /\ k.mentions \subseteq MentionRow
    /\ k.evidence \subseteq Nat \X ChunkIds

\* Rows name rows.
References(k) ==
    /\ \A r \in DOMAIN k.rels : k.rels[r].src \in DOMAIN k.ents /\ k.rels[r].dst \in DOMAIN k.ents
    /\ \A m \in k.mentions : m.of \in DOMAIN k.ents /\ m.entity \in DOMAIN k.ents
    /\ \A p \in k.evidence : p[1] \in DOMAIN k.rels

\* Whatever its generation, an active entity is the only one of its key.
KeyOnce(k) ==
    \A d, e \in DOMAIN k.ents :
        k.ents[d].active /\ k.ents[e].active /\ k.ents[d].key = k.ents[e].key => d = e

SameIdentity(p, q) == p.gen = q.gen /\ p.src = q.src /\ p.dst = q.dst
IdentityOnce(k) ==
    \A q, r \in DOMAIN k.rels :
        k.rels[q].active /\ k.rels[r].active /\ SameIdentity(k.rels[q], k.rels[r]) => q = r

\* An active relation between active entities.
Connects(k, r) ==
    /\ r \in DOMAIN k.rels /\ k.rels[r].active
    /\ k.ents[k.rels[r].src].active /\ k.ents[k.rels[r].dst].active
Names(k, c, e) == \E m \in k.mentions : m.chunk = c /\ m.entity = e
EvidenceNamed(k) ==
    \A p \in k.evidence :
        Connects(k, p[1]) => Names(k, p[2], k.rels[p[1]].src) /\ Names(k, p[2], k.rels[p[1]].dst)
MentionsKeyed(k) == \A m \in k.mentions : k.ents[m.of].key \in Keyed[m.chunk[1]]

RowsOK(k) ==
    /\ RowsType(k) /\ References(k)
    /\ KeyOnce(k) /\ IdentityOnce(k)
    /\ EvidenceNamed(k) /\ MentionsKeyed(k)

-----------------------------------------------------------------------------
(* The inductive invariant: documents, chunks and what stands for them *)

SourceStatus == {"absent", "pending", "active", "failed", "clearing", "deleting", "deleted"}
TypeOK ==
    /\ generation \in Generations
    /\ dataset \in {"active", "clearing", "deleting"}
    /\ source \in [Sources -> SourceStatus]
    /\ doc \in [Sources -> [Generations -> Document]]
    /\ DOMAIN rows = {"ents", "rels", "mentions", "evidence", "out"}
    /\ summary \in [Generations -> SUBSET ChunkIds]
    /\ activation \subseteq Generations
    /\ tangled \in BOOLEAN

\* The document a rebuild leaves in the next generation.
RebuiltDocument == [PlannedDocument EXCEPT !.chunked = TRUE]
DocsOK ==
    \A s \in Sources, g \in Generations :
        /\ doc[s][g].active => doc[s][g].id >= 1
        /\ source[s] = "absent" => doc[s][g] = NoDocument
        /\ g > generation =>
             \/ doc[s][g] = NoDocument
             \/ g = generation + 1 /\ doc[s][g] = RebuiltDocument

\* Chunks that exist or have existed, those that are active, and nothing is
\* said of any other.
Born(d, c) ==
    /\ c \in ChunkIds /\ c[3] >= 1
    /\ \/ c[3] < d[c[1]][c[2]].id
       \/ c[3] = d[c[1]][c[2]].id /\ d[c[1]][c[2]].chunked
Live(d, c) ==
    /\ c \in ChunkIds /\ c[3] = d[c[1]][c[2]].id
    /\ d[c[1]][c[2]].active /\ d[c[1]][c[2]].chunked
BornOnly ==
    /\ \A m \in rows.mentions : Born(doc, m.chunk)
    /\ \A p \in rows.evidence : Born(doc, p[2])

\* What is ahead of the dataset's generation is there for a chunk of its own.
Reached(g) == g > generation => \E s \in Sources : HasChunk(s, g)
EntsAhead ==
    \A e \in DOMAIN rows.ents :
        rows.ents[e].active => rows.ents[e].gen >= generation /\ Reached(rows.ents[e].gen)
RelsAhead == \A r \in DOMAIN rows.rels : Reached(rows.rels[r].gen)

SummaryOK ==
    /\ \A g \in Generations : g > generation => summary[g] = {}
    /\ summary[generation] \subseteq CurrentChunks

\* Chunk c names entity e by the key it was extracted under.
NamedBy(k, c, key, e) ==
    \E m \in k.mentions : m.chunk = c /\ m.entity = e /\ k.ents[m.of].key = key
Stated(k, c, g, p) ==
    \/ \E e \in DOMAIN k.ents : NamedBy(k, c, p[1], e) /\ NamedBy(k, c, p[2], e)
    \/ \E r \in DOMAIN k.rels :
         /\ Connects(k, r) /\ k.rels[r].gen = g /\ <<r, c>> \in k.evidence
         /\ NamedBy(k, c, p[1], k.rels[r].src) /\ NamedBy(k, c, p[2], k.rels[r].dst)
\* What chunk c of source s was found to say is there, in generation g.
Kept(k, s, c, g) ==
    /\ \A key \in Keyed[s] : \E e \in DOMAIN k.ents : NamedBy(k, c, key, e) /\ k.ents[e].active
    /\ \A p \in Related[s] : Stated(k, c, g, p)

\* Generation g is what its chunks say: no less and no more.
SourcesKept(g) ==
    \A s \in Sources : HasChunk(s, g) => source[s] = "active" /\ Kept(rows, s, Chunk(s, g), g)
EntsNamed(g) ==
    \A e \in DOMAIN rows.ents :
        rows.ents[e].active /\ rows.ents[e].gen <= g =>
            \E s \in Sources : HasChunk(s, g) /\ Names(rows, Chunk(s, g), e)
RelsEvidenced(g) ==
    \A r \in DOMAIN rows.rels :
        Connects(rows, r) /\ rows.rels[r].gen = g =>
            \E s \in Sources : HasChunk(s, g) /\ <<r, Chunk(s, g)>> \in rows.evidence
\* An entity of a later generation is not named by a chunk of this one.
NamesBehind(g) ==
    \A s \in Sources, e \in DOMAIN rows.ents :
        HasChunk(s, g) /\ Names(rows, Chunk(s, g), e) /\ rows.ents[e].active =>
            rows.ents[e].gen <= g
Sound(g) == SourcesKept(g) /\ EntsNamed(g) /\ RelsEvidenced(g) /\ NamesBehind(g)

\* Nothing is left of a dataset while it is being forgotten.
NothingAhead == \A s \in Sources, g \in Generations : g > generation => ~HasChunk(s, g)
Idle ==
    /\ activation = {} /\ NothingAhead
    /\ \A s \in Sources : ~HasChunk(s, generation) /\ source[s] # "active"
    /\ \A e \in DOMAIN rows.ents : ~rows.ents[e].active
Untangled ==
    ~tangled =>
      /\ activation \subseteq {generation + 1}
      /\ \A g \in Generations : g = generation \/ g \in activation => Sound(g)
      /\ dataset # "active" => Idle

-----------------------------------------------------------------------------
(* What a batch adds to the rows k, up to l: chunk[s] is the chunk of source s *)

\* The lookups and inserts of one source.
EntitiesFor(k, ents, s, g) ==
    /\ ents \in Seq(EntityRow)
    /\ DOMAIN k.ents \subseteq DOMAIN ents
    /\ \A e \in DOMAIN k.ents : ents[e] = k.ents[e]
    /\ \A e \in DOMAIN ents \ DOMAIN k.ents :
          ents[e].active /\ ents[e].gen = g /\ ents[e].key \in Keyed[s]
    /\ \A d, e \in DOMAIN ents :
          ents[d].active /\ ents[e].active /\ ents[d].key = ents[e].key => d = e
    /\ \A key \in Keyed[s] :
          /\ Entity(ents, key) \in DOMAIN ents
          /\ ents[Entity(ents, key)].active /\ ents[Entity(ents, key)].key = key
RelationsFor(k, rels, pairs, g) ==
    /\ rels \in Seq(RelationRow)
    /\ DOMAIN k.rels \subseteq DOMAIN rels
    /\ \A r \in DOMAIN k.rels : rels[r] = k.rels[r]
    /\ \A r \in DOMAIN rels \ DOMAIN k.rels :
          rels[r].active /\ rels[r].gen = g /\ <<rels[r].src, rels[r].dst>> \in pairs
    /\ \A q, r \in DOMAIN rels :
          rels[q].active /\ rels[r].active /\ SameIdentity(rels[q], rels[r]) => q = r
    /\ \A p \in pairs :
          LET r == Relation(rels, p[1], p[2], g)
          IN  /\ r \in DOMAIN rels /\ rels[r].active /\ rels[r].gen = g
              /\ rels[r].src = p[1] /\ rels[r].dst = p[2]

Grows(k, l) ==
    /\ DOMAIN k.ents \subseteq DOMAIN l.ents /\ \A e \in DOMAIN k.ents : l.ents[e] = k.ents[e]
    /\ DOMAIN k.rels \subseteq DOMAIN l.rels /\ \A r \in DOMAIN k.rels : l.rels[r] = k.rels[r]
    /\ k.mentions \subseteq l.mentions /\ k.evidence \subseteq l.evidence
\* Every new row is of a source of the batch, and in its generation.
Adds(k, l, g, done, chunk) ==
    /\ \A m \in l.mentions \ k.mentions : m.of = m.entity /\ \E s \in done : m.chunk = chunk[s]
    /\ \A p \in l.evidence \ k.evidence : \E s \in done : p[2] = chunk[s]
    /\ \A e \in DOMAIN l.ents \ DOMAIN k.ents :
          l.ents[e].gen = g /\ \E s \in done : Names(l, chunk[s], e)
    /\ \A r \in DOMAIN l.rels \ DOMAIN k.rels :
          l.rels[r].gen = g /\ \E s \in done : <<r, chunk[s]>> \in l.evidence
\* What the sources were found to say is there, under the keys themselves.
Says(l, g, done, chunk) ==
    \A s \in done :
        /\ Kept(l, s, chunk[s], g)
        /\ \A key \in Keyed[s] : \E e \in DOMAIN l.ents :
              l.ents[e].active /\ l.ents[e].key = key /\ Names(l, chunk[s], e)
\* The commands upsert what is new, and nothing that does not stand.
Announces(k, l, done, chunk, U) ==
    /\ l.out = k.out \cup Upserts(U)
    /\ \A x \in U :
          \/ \E e \in DOMAIN l.ents : l.ents[e].active /\ x = EntityNode(e)
          \/ \E s \in done : x = ChunkNode(chunk[s])
          \/ \E m \in l.mentions : x = MentionEdge(m)
          \/ \E r \in DOMAIN l.rels : l.rels[r].active /\ x = RelationEdge(r, l.rels[r])
    /\ \A e \in DOMAIN l.ents \ DOMAIN k.ents : EntityNode(e) \in U
    /\ \A s \in done : ChunkNode(chunk[s]) \in U
    /\ \A m \in l.mentions \ k.mentions : MentionEdge(m) \in U
    /\ \A r \in DOMAIN l.rels \ DOMAIN k.rels : RelationEdge(r, l.rels[r]) \in U
Extends(k, l, g, done, chunk) ==
    /\ RowsOK(l) /\ Grows(k, l)
    /\ Adds(k, l, g, done, chunk) /\ Says(l, g, done, chunk)
    /\ \E U : Announces(k, l, done, chunk, U)
    /\ DOMAIN l = {"ents", "rels", "mentions", "evidence", "out"}

-----------------------------------------------------------------------------
(* The inductive invariant: the projection *)

Present == graph \cup Of("upsert")

\* The elements there can be, with rows k and documents d.
WellFormed(k, d, x) ==
    \/ \E e \in DOMAIN k.ents : x = EntityNode(e)
    \/ \E c \in ChunkIds : Born(d, c) /\ x = ChunkNode(c)
    \/ \E m \in MentionRow : Born(d, m.chunk) /\ m.entity \in DOMAIN k.ents /\ x = MentionEdge(m)
    \/ \E r \in DOMAIN k.rels, row \in RelationRow :
          row.src \in DOMAIN k.ents /\ row.dst \in DOMAIN k.ents /\ x = RelationEdge(r, row)
\* The row is there that the element stands for.
Stands(k, d, x) ==
    \/ \E e \in DOMAIN k.ents : k.ents[e].active /\ x = EntityNode(e)
    \/ \E c \in ChunkIds : Live(d, c) /\ x = ChunkNode(c)
    \/ \E m \in k.mentions : x = MentionEdge(m)
    \/ \E r \in DOMAIN k.rels : k.rels[r].active /\ x = RelationEdge(r, k.rels[r])
\* It is gone for good.
Gone(k, d, x) ==
    \/ \E e \in DOMAIN k.ents : ~k.ents[e].active /\ x = EntityNode(e)
    \/ \E c \in ChunkIds : Born(d, c) /\ ~Live(d, c) /\ x = ChunkNode(c)
    \/ \E m \in MentionRow : Born(d, m.chunk) /\ ~Live(d, m.chunk) /\ x = MentionEdge(m)
    \/ \E r \in DOMAIN k.rels, row \in RelationRow : ~k.rels[r].active /\ x = RelationEdge(r, row)
\* An edge falls with an end of it.
Loose(k, d, x) == ~IsNode(x) /\ \E n \in x.ends : Gone(k, d, n)
\* What the graph has to have once the outbox is empty, from generation g on.
Due(k, d, g, x) ==
    \/ \E e \in DOMAIN k.ents : k.ents[e].active /\ x = EntityNode(e)
    \/ \E c \in ChunkIds : Live(d, c) /\ c[2] >= g /\ x = ChunkNode(c)
    \/ \E m \in k.mentions : /\ Live(d, m.chunk) /\ m.chunk[2] >= g
                             /\ k.ents[m.entity].active /\ x = MentionEdge(m)
    \/ \E r \in DOMAIN k.rels : /\ Connects(k, r) /\ k.rels[r].gen >= g
                                /\ x = RelationEdge(r, k.rels[r])

GraphOK ==
    /\ \A x \in graph : ~IsNode(x) => x.ends \subseteq graph
    /\ \A x \in Present \cup Of("delete") : WellFormed(rows, doc, x)
    /\ \A x \in Present : Stands(rows, doc, x) \/ Loose(rows, doc, x) \/ x \in Of("delete")
    /\ ~tangled => \A x \in Of("delete") : Gone(rows, doc, x)
Complete == ~tangled => \A x : Due(rows, doc, generation, x) => x \in Present

IInv ==
    /\ TypeOK /\ RowsOK(rows) /\ DocsOK /\ BornOnly
    /\ EntsAhead /\ RelsAhead /\ SummaryOK
    /\ Untangled /\ GraphOK /\ Complete

-----------------------------------------------------------------------------
(* How rows and documents change *)

\* Rows go, or move on to another generation, and none comes.
Fades(k, l) ==
    /\ l.ents \in Seq(EntityRow) /\ DOMAIN l.ents = DOMAIN k.ents
    /\ \A e \in DOMAIN k.ents :
          l.ents[e].key = k.ents[e].key /\ (l.ents[e].active => k.ents[e].active)
    /\ l.rels \in Seq(RelationRow) /\ DOMAIN l.rels = DOMAIN k.rels
    /\ \A r \in DOMAIN k.rels :
          SameIdentity(l.rels[r], k.rels[r]) /\ (l.rels[r].active => k.rels[r].active)
    /\ l.mentions = k.mentions /\ l.evidence = k.evidence

\* Chunks are born once, and what is gone stays gone.
Ages(d, e) ==
    \A c : Born(d, c) => Born(e, c) /\ (Live(e, c) => Live(d, c))

\* A nonempty set of naturals has a least element.
LEMMA LeastNatural ==
    ASSUME NEW T, T \subseteq Nat, T # {}
    PROVE  \E m \in T : \A k \in T : m <= k
<1>1. \A x, y \in Nat : y < x => <<y, x>> \in OpToRel(<, Nat)
  BY DEF OpToRel
<1>2. PICK R : /\ IsWellFoundedOn(R, Nat)
               /\ \A x, y \in Nat : y < x => <<y, x>> \in R
  BY <1>1, NatLessThanWellFounded, Zenon
<1>3. PICK m \in T : \A k \in T : ~ (<<k, m>> \in R)
  BY <1>2, WFMin
<1>4. ASSUME NEW k \in T PROVE m <= k
  <2>1. m \in Nat /\ k \in Nat
    OBVIOUS
  <2>2. ~ (k < m)
    BY <1>2, <1>3, <2>1, Zenon
  <2>3. QED
    BY <2>1, <2>2
<1>5. QED
  BY <1>4

\* SetToSeq lists a finite set, each element once.
LEMMA Enumeration ==
    ASSUME NEW S, IsFiniteSet(S)
    PROVE  /\ Cardinality(S) \in Nat
           /\ SetToSeq(S) \in [1..Cardinality(S) -> S]
           /\ \A i, j \in 1..Cardinality(S) : SetToSeq(S)[i] = SetToSeq(S)[j] => i = j
           /\ \A x \in S : \E i \in 1..Cardinality(S) : SetToSeq(S)[i] = x
<1> DEFINE n == Cardinality(S)
           seq == SetToSeq(S)
<1>1. n \in Nat /\ ExistsBijection(1..n, S)
  BY FS_CardinalityType, Zenon
<1>2. PICK f \in [1..n -> S] : \A i, j \in 1..n : f[i] = f[j] => i = j
  BY <1>1 DEF ExistsBijection, Bijection, Injection, IsInjective
<1>3. IsInjective(f)
  BY <1>2 DEF IsInjective
<1>4. seq \in [1..n -> S] /\ IsInjective(seq)
  BY <1>3 DEF SetToSeq
<1>5. \A i, j \in 1..n : seq[i] = seq[j] => i = j
  BY <1>4 DEF IsInjective
<1> HIDE DEF n, seq
<1>6. IsFiniteSet(1..n) /\ Cardinality(1..n) = n
  BY <1>1, FS_Interval
<1>7. seq \in Injection(1..n, S)
  BY <1>4, <1>5 DEF Injection
<1>8. seq \in Surjection(1..n, S)
  BY <1>6, <1>7, FS_Injection DEF n
<1>9. \A x \in S : \E i \in 1..n : seq[i] = x
  BY <1>8 DEF Surjection
<1> QED
  BY <1>1, <1>4, <1>5, <1>9 DEF n, seq

\* The fold of MergePlan, entity by entity.
LEMMA PlanLoop ==
    ASSUME Len(rows.ents) \in Nat
    PROVE  \E f : /\ MergePlan = f[Len(rows.ents)]
                  /\ f[0] = <<>>
                  /\ \A e \in 1..Len(rows.ents) : f[e] = Absorb(f[e - 1], e)
<1> DEFINE Loop(f, m) == f = [e \in 0..m |-> IF e = 0 THEN <<>> ELSE Absorb(f[e - 1], e)]
           Without == {m \in Nat : ~ \E f : Loop(f, m)}
           n == Len(rows.ents)
<1>1. Without = {}
  <2>1. SUFFICES ASSUME Without # {} PROVE FALSE
    OBVIOUS
  <2>2. PICK m \in Without : \A j \in Without : m <= j
    BY <2>1, LeastNatural
  <2>3. m # 0
    <3>1. Loop([e \in 0..0 |-> <<>>], 0)
      OBVIOUS
    <3>2. QED
      BY <3>1, <2>2
  <2>a. m - 1 \in Nat /\ m - 1 \notin Without
    <3>1. m \in Nat
      OBVIOUS
    <3> HIDE DEF Without
    <3>2. QED
      BY <2>2, <2>3, <3>1
  <2>b. \E f : Loop(f, m - 1)
    <3> HIDE DEF Loop
    <3> QED
      BY <2>a
  <2>4. PICK f : Loop(f, m - 1)
    BY <2>b
  <2> DEFINE g == [e \in 0..m |-> IF e = m THEN Absorb(f[m - 1], m) ELSE f[e]]
  <2>5. Loop(g, m)
    <3>1. ASSUME NEW e \in 0..m PROVE g[e] = IF e = 0 THEN <<>> ELSE Absorb(g[e - 1], e)
      <4>1. CASE e = m
        BY <2>2, <2>3, <4>1
      <4>2. CASE e # m
        <5>1. e \in 0..(m - 1)
          BY <2>2, <4>2
        <5>2. e # 0 => e - 1 \in 0..m /\ e - 1 # m
          BY <2>2, <5>1
        <5>3. g[e] = f[e] /\ (e # 0 => g[e - 1] = f[e - 1])
          BY <4>2, <5>2
        <5>4. f[e] = IF e = 0 THEN <<>> ELSE Absorb(f[e - 1], e)
          BY <2>4, <5>1
        <5>5. QED
          BY <5>3, <5>4
      <4>3. QED
        BY <4>1, <4>2
    <3> HIDE DEF g
    <3>2. g = [e \in 0..m |-> g[e]]
      BY DEF g
    <3>3. QED
      BY <3>1, <3>2
  <2>6. QED
    BY <2>2, <2>5
<1>2. PICK f : Loop(f, n)
  BY <1>1
<1>3. Loop(CHOOSE h : Loop(h, n), n)
  BY <1>2
<1>4. MergePlan = (CHOOSE h : Loop(h, n))[n]
  BY DEF MergePlan
<1> DEFINE p == CHOOSE h : Loop(h, n)
<1>5. p = [e \in 0..n |-> IF e = 0 THEN <<>> ELSE Absorb(p[e - 1], e)]
  BY <1>3
<1>6. MergePlan = p[n]
  BY <1>4
<1> HIDE DEF p
<1>7. p[0] = <<>> /\ \A e \in 1..n : p[e] = Absorb(p[e - 1], e)
  BY <1>5
<1> QED
  BY <1>6, <1>7

\* Finitely many arguments have finitely many values.
LEMMA FiniteRange ==
    ASSUME NEW S, IsFiniteSet(S), NEW f, DOMAIN f = S
    PROVE  IsFiniteSet({f[x] : x \in S})
<1> DEFINE T == {f[x] : x \in S}
           h == [x \in S |-> f[x]]
<1>1. h \in Surjection(S, T)
  BY DEF Surjection
<1>2. QED
  BY <1>1, FS_Surjection

\* A table with the rows of a finite set appended, one each.
LEMMA Appended ==
    ASSUME NEW T, NEW seq \in Seq(T), NEW S, S \subseteq T, IsFiniteSet(S)
    PROVE  LET new == seq \o SetToSeq(S)
           IN  /\ new \in Seq(T)
               /\ DOMAIN seq \subseteq DOMAIN new
               /\ \A i \in DOMAIN seq : new[i] = seq[i]
               /\ \A i \in DOMAIN new \ DOMAIN seq : new[i] \in S
               /\ \A x \in S : \E i \in DOMAIN new \ DOMAIN seq : new[i] = x
               /\ \A i, j \in DOMAIN new \ DOMAIN seq : new[i] = new[j] => i = j
<1> DEFINE n == Cardinality(S)
           more == SetToSeq(S)
           new == seq \o more
<1>1. /\ n \in Nat
      /\ more \in [1..n -> S]
      /\ \A i, j \in 1..n : more[i] = more[j] => i = j
      /\ \A x \in S : \E i \in 1..n : more[i] = x
  BY Enumeration
<1> HIDE DEF more, n
<1>2. more \in Seq(T) /\ Len(more) = n /\ DOMAIN more = 1..n
  <2>1. more \in [1..n -> T]
    BY <1>1
  <2>2. QED
    BY <1>1, <2>1
<1>3. Len(seq) \in Nat /\ DOMAIN seq = 1..Len(seq)
  OBVIOUS
<1>4. new \in Seq(T) /\ DOMAIN new = 1..(Len(seq) + n)
  BY <1>1, <1>2, <1>3
<1>5. \A i \in DOMAIN seq : new[i] = seq[i] /\ i \in DOMAIN new
  BY <1>1, <1>2, <1>3, <1>4
<1>6. \A i \in 1..n : i + Len(seq) \in DOMAIN new \ DOMAIN seq /\ new[i + Len(seq)] = more[i]
  BY <1>1, <1>2, <1>3, <1>4
<1>7. \A i \in DOMAIN new \ DOMAIN seq : i - Len(seq) \in 1..n /\ new[i] = more[i - Len(seq)]
  BY <1>1, <1>2, <1>3, <1>4
<1> HIDE DEF new
<1>8. \A i \in DOMAIN new \ DOMAIN seq : new[i] \in S
  BY <1>1, <1>7
<1>9. \A x \in S : \E i \in DOMAIN new \ DOMAIN seq : new[i] = x
  BY <1>1, <1>6
<1>10. ASSUME NEW i \in DOMAIN new \ DOMAIN seq, NEW j \in DOMAIN new \ DOMAIN seq, new[i] = new[j]
       PROVE  i = j
  <2>1. i - Len(seq) = j - Len(seq)
    BY <1>1, <1>7, <1>10
  <2>2. i \in Nat /\ j \in Nat
    BY <1>4, <1>1, <1>3
  <2>3. QED
    BY <1>3, <2>1, <2>2
<1>11. QED
  BY <1>4, <1>5, <1>8, <1>9, <1>10 DEF new, more

\* The entity lookups and inserts of one source leave one active entity per key.
LEMMA EntitiesAdded ==
    ASSUME NEW k, RowsOK(k), NEW s \in Sources, NEW g \in Generations
    PROVE  EntitiesFor(k, WithEntities(k.ents, s, g), s, g)
<1> DEFINE new == {x \in Keyed[s] : ActiveByKey(k.ents, x) = {}}
           Row(key) == [key |-> key, gen |-> g, active |-> TRUE]
           S == {Row(key) : key \in new}
           ents == k.ents \o SetToSeq(S)
<1>1. Keyed[s] \subseteq Keys /\ IsFiniteSet(Keyed[s])
  BY ExtractionAssumption
<1>2. IsFiniteSet(new)
  BY <1>1, FS_Subset
<1>3. IsFiniteSet(S)
  <2> HIDE DEF new
  <2> DEFINE f == [key \in new |-> Row(key)]
  <2>1. DOMAIN f = new
    OBVIOUS
  <2>2. S = {f[key] : key \in new}
    OBVIOUS
  <2> HIDE DEF f, S
  <2>3. QED
    BY <1>2, <2>1, <2>2, FiniteRange
<1>4. S \subseteq EntityRow
  <2>1. ASSUME NEW key \in Keys PROVE Row(key) \in EntityRow
    BY DEF EntityRow
  <2>2. new \subseteq Keys
    BY <1>1
  <2> HIDE DEF new, Row
  <2>3. QED
    BY <2>1, <2>2
<1>5. k.ents \in Seq(EntityRow)
  BY DEF RowsOK, RowsType
<1>6. /\ ents \in Seq(EntityRow)
      /\ DOMAIN k.ents \subseteq DOMAIN ents
      /\ \A i \in DOMAIN k.ents : ents[i] = k.ents[i]
      /\ \A i \in DOMAIN ents \ DOMAIN k.ents : ents[i] \in S
      /\ \A x \in S : \E i \in DOMAIN ents \ DOMAIN k.ents : ents[i] = x
      /\ \A i, j \in DOMAIN ents \ DOMAIN k.ents : ents[i] = ents[j] => i = j
  <2> HIDE DEF S
  <2> QED
    BY <1>3, <1>4, <1>5, Appended
<1>7. ents = WithEntities(k.ents, s, g)
  BY DEF WithEntities
<1> HIDE DEF ents
<1>8. ASSUME NEW e \in DOMAIN ents \ DOMAIN k.ents
      PROVE  /\ ents[e].active /\ ents[e].gen = g /\ ents[e].key \in new
             /\ ents[e] = Row(ents[e].key)
  <2>1. PICK key \in new : ents[e] = Row(key)
    BY <1>6
  <2> HIDE DEF new
  <2>2. QED
    BY <2>1
<1>9. \A d \in DOMAIN k.ents : \A key \in new : ~ (k.ents[d].active /\ k.ents[d].key = key)
  BY DEF ActiveByKey
<1>10. ASSUME NEW d \in DOMAIN ents, NEW e \in DOMAIN ents,
              ents[d].active, ents[e].active, ents[d].key = ents[e].key
       PROVE  d = e
  <2> HIDE DEF S, new
  <2>1. CASE d \in DOMAIN k.ents /\ e \in DOMAIN k.ents
    BY <1>6, <1>10, <2>1 DEF RowsOK, KeyOnce
  <2>2. CASE d \in DOMAIN k.ents /\ e \notin DOMAIN k.ents
    BY <1>6, <1>8, <1>9, <1>10, <2>2
  <2>3. CASE d \notin DOMAIN k.ents /\ e \in DOMAIN k.ents
    BY <1>6, <1>8, <1>9, <1>10, <2>3
  <2>4. CASE d \notin DOMAIN k.ents /\ e \notin DOMAIN k.ents
    <3>1. ents[d] = ents[e]
      BY <1>8, <1>10, <2>4
    <3>2. QED
      BY <1>6, <2>4, <3>1
  <2>5. QED
    BY <2>1, <2>2, <2>3, <2>4
<1>11. ASSUME NEW key \in Keyed[s]
       PROVE  /\ Entity(ents, key) \in DOMAIN ents
              /\ ents[Entity(ents, key)].active /\ ents[Entity(ents, key)].key = key
  <2>1. ActiveByKey(ents, key) # {}
    <3>1. CASE key \in new
      <4>1. PICK i \in DOMAIN ents : ents[i] = Row(key)
        BY <1>6, <3>1
      <4>2. QED
        BY <4>1 DEF ActiveByKey
    <3>2. CASE key \notin new
      <4>1. PICK e \in DOMAIN k.ents : k.ents[e].key = key /\ k.ents[e].active
        BY <3>2 DEF ActiveByKey
      <4>2. QED
        BY <1>6, <4>1 DEF ActiveByKey
    <3>3. QED
      BY <3>1, <3>2
  <2>2. Entity(ents, key) \in ActiveByKey(ents, key)
    BY <2>1 DEF Entity
  <2>3. QED
    BY <2>2 DEF ActiveByKey
<1>12. QED
  <2>1. \A e \in DOMAIN ents \ DOMAIN k.ents : ents[e].key \in Keyed[s]
    BY <1>8
  <2> HIDE DEF S, new, Row
  <2>2. QED
    BY <1>6, <1>7, <1>8, <1>10, <1>11, <2>1 DEF EntitiesFor

\* The relation lookups and inserts leave one active relation per identity.
LEMMA RelationsAdded ==
    ASSUME NEW k, RowsOK(k), NEW g \in Generations, NEW pairs \in SUBSET (Nat \X Nat),
           IsFiniteSet(pairs)
    PROVE  RelationsFor(k, WithRelations(k.rels, pairs, g), pairs, g)
<1> DEFINE new == {q \in pairs : ActiveByIdentity(k.rels, q[1], q[2], g) = {}}
           Row(p) == [src |-> p[1], dst |-> p[2], gen |-> g, active |-> TRUE]
           S == {Row(p) : p \in new}
           rels == k.rels \o SetToSeq(S)
<1>2. IsFiniteSet(new)
  BY FS_Subset
<1>3. IsFiniteSet(S)
  <2> HIDE DEF new
  <2> DEFINE f == [p \in new |-> Row(p)]
  <2>1. DOMAIN f = new
    OBVIOUS
  <2>2. S = {f[p] : p \in new}
    OBVIOUS
  <2> HIDE DEF f, S
  <2>3. QED
    BY <1>2, <2>1, <2>2, FiniteRange
<1>4. S \subseteq RelationRow
  <2>1. ASSUME NEW p \in Nat \X Nat PROVE Row(p) \in RelationRow
    BY DEF RelationRow
  <2>2. new \subseteq Nat \X Nat
    OBVIOUS
  <2> HIDE DEF new, Row
  <2>3. QED
    BY <2>1, <2>2
<1>5. k.rels \in Seq(RelationRow)
  BY DEF RowsOK, RowsType
<1>6. /\ rels \in Seq(RelationRow)
      /\ DOMAIN k.rels \subseteq DOMAIN rels
      /\ \A i \in DOMAIN k.rels : rels[i] = k.rels[i]
      /\ \A i \in DOMAIN rels \ DOMAIN k.rels : rels[i] \in S
      /\ \A x \in S : \E i \in DOMAIN rels \ DOMAIN k.rels : rels[i] = x
      /\ \A i, j \in DOMAIN rels \ DOMAIN k.rels : rels[i] = rels[j] => i = j
  <2> HIDE DEF S
  <2> QED
    BY <1>3, <1>4, <1>5, Appended
<1>7. rels = WithRelations(k.rels, pairs, g)
  BY DEF WithRelations
<1> HIDE DEF rels
<1>8. ASSUME NEW r \in DOMAIN rels \ DOMAIN k.rels
      PROVE  /\ rels[r].active /\ rels[r].gen = g /\ <<rels[r].src, rels[r].dst>> \in new
             /\ rels[r] = Row(<<rels[r].src, rels[r].dst>>)
  <2>1. PICK p \in new : rels[r] = Row(p)
    BY <1>6
  <2>2. p = <<p[1], p[2]>>
    OBVIOUS
  <2> HIDE DEF new
  <2>3. QED
    BY <2>1, <2>2
<1>9. \A q \in DOMAIN k.rels : \A p \in new :
         ~ (k.rels[q].active /\ k.rels[q].gen = g /\ k.rels[q].src = p[1] /\ k.rels[q].dst = p[2])
  BY DEF ActiveByIdentity
<1>10. ASSUME NEW q \in DOMAIN rels, NEW r \in DOMAIN rels,
              rels[q].active, rels[r].active, SameIdentity(rels[q], rels[r])
       PROVE  q = r
  <2> HIDE DEF S, new
  <2>0. rels[q].gen = rels[r].gen /\ rels[q].src = rels[r].src /\ rels[q].dst = rels[r].dst
    BY <1>10 DEF SameIdentity
  <2>1. CASE q \in DOMAIN k.rels /\ r \in DOMAIN k.rels
    BY <1>6, <1>10, <2>1 DEF RowsOK, IdentityOnce
  <2>a. ASSUME NEW a \in DOMAIN k.rels, NEW b \in DOMAIN rels \ DOMAIN k.rels
        PROVE  ~ (rels[a].active /\ SameIdentity(rels[a], rels[b]))
    <3>1. rels[a] = k.rels[a] /\ rels[b].gen = g
      BY <1>6, <1>8
    <3>2. ~ (k.rels[a].active /\ k.rels[a].gen = g /\ k.rels[a].src = rels[b].src
              /\ k.rels[a].dst = rels[b].dst)
      <4> DEFINE p == <<rels[b].src, rels[b].dst>>
      <4>1. p \in new /\ p[1] = rels[b].src /\ p[2] = rels[b].dst
        BY <1>8
      <4> HIDE DEF p
      <4>2. QED
        BY <1>9, <4>1
    <3>3. QED
      BY <3>1, <3>2 DEF SameIdentity
  <2>2. CASE q \in DOMAIN k.rels /\ r \notin DOMAIN k.rels
    BY <1>10, <2>a, <2>2
  <2>3. CASE q \notin DOMAIN k.rels /\ r \in DOMAIN k.rels
    <3>1. SameIdentity(rels[r], rels[q])
      BY <2>0 DEF SameIdentity
    <3>2. QED
      BY <1>10, <2>a, <2>3, <3>1
  <2>4. CASE q \notin DOMAIN k.rels /\ r \notin DOMAIN k.rels
    <3>1. rels[q] = rels[r]
      BY <1>8, <1>10, <2>0, <2>4
    <3>2. QED
      BY <1>6, <2>4, <3>1
  <2>5. QED
    BY <2>1, <2>2, <2>3, <2>4
<1>11. ASSUME NEW p \in pairs
       PROVE  LET r == Relation(rels, p[1], p[2], g)
              IN  /\ r \in DOMAIN rels /\ rels[r].active /\ rels[r].gen = g
                  /\ rels[r].src = p[1] /\ rels[r].dst = p[2]
  <2>1. ActiveByIdentity(rels, p[1], p[2], g) # {}
    <3>1. CASE p \in new
      <4>1. PICK i \in DOMAIN rels : rels[i] = Row(p)
        BY <1>6, <3>1
      <4>2. QED
        BY <4>1 DEF ActiveByIdentity
    <3>2. CASE p \notin new
      <4>1. PICK r \in DOMAIN k.rels : /\ k.rels[r].src = p[1] /\ k.rels[r].dst = p[2]
                                       /\ k.rels[r].gen = g /\ k.rels[r].active
        BY <3>2 DEF ActiveByIdentity
      <4>2. r \in DOMAIN rels /\ rels[r] = k.rels[r]
        BY <1>6
      <4>3. r \in ActiveByIdentity(rels, p[1], p[2], g)
        BY <4>1, <4>2 DEF ActiveByIdentity
      <4>4. QED
        BY <4>3
    <3>3. QED
      BY <3>1, <3>2
  <2>2. Relation(rels, p[1], p[2], g) \in ActiveByIdentity(rels, p[1], p[2], g)
    BY <2>1 DEF Relation
  <2>3. QED
    BY <2>2 DEF ActiveByIdentity
<1>12. QED
  <2>1. \A r \in DOMAIN rels \ DOMAIN k.rels : <<rels[r].src, rels[r].dst>> \in pairs
    BY <1>8
  <2> HIDE DEF S, new, Row
  <2>2. QED
    BY <1>6, <1>7, <1>8, <1>10, <1>11, <2>1 DEF RelationsFor

\* What a chunk said is kept where its mentions, entities and relations are.
LEMMA KeptFrame ==
    ASSUME NEW k, NEW l, NEW s \in Sources, NEW c, NEW g, Kept(k, s, c, g),
           DOMAIN k.ents \subseteq DOMAIN l.ents,
           \A key, e : NamedBy(k, c, key, e) => NamedBy(l, c, key, e),
           \A e \in DOMAIN k.ents : Names(k, c, e) /\ k.ents[e].active => l.ents[e].active,
           \A r \in DOMAIN k.rels : Connects(k, r) /\ <<r, c>> \in k.evidence =>
               Connects(l, r) /\ l.rels[r] = k.rels[r] /\ <<r, c>> \in l.evidence
    PROVE  Kept(l, s, c, g)
<1>1. ASSUME NEW key \in Keyed[s]
      PROVE  \E e \in DOMAIN l.ents : NamedBy(l, c, key, e) /\ l.ents[e].active
  <2>1. PICK e \in DOMAIN k.ents : NamedBy(k, c, key, e) /\ k.ents[e].active
    BY DEF Kept
  <2>2. Names(k, c, e)
    BY <2>1 DEF Names, NamedBy
  <2>3. QED
    BY <2>1, <2>2
<1>2. ASSUME NEW p \in Related[s] PROVE Stated(l, c, g, p)
  <2>1. Stated(k, c, g, p)
    BY DEF Kept
  <2>2. CASE \E e \in DOMAIN k.ents : NamedBy(k, c, p[1], e) /\ NamedBy(k, c, p[2], e)
    BY <2>2 DEF Stated
  <2>3. CASE \E r \in DOMAIN k.rels :
               /\ Connects(k, r) /\ k.rels[r].gen = g /\ <<r, c>> \in k.evidence
               /\ NamedBy(k, c, p[1], k.rels[r].src) /\ NamedBy(k, c, p[2], k.rels[r].dst)
    <3>1. PICK r \in DOMAIN k.rels :
               /\ Connects(k, r) /\ k.rels[r].gen = g /\ <<r, c>> \in k.evidence
               /\ NamedBy(k, c, p[1], k.rels[r].src) /\ NamedBy(k, c, p[2], k.rels[r].dst)
      BY <2>3
    <3>2. Connects(l, r) /\ l.rels[r] = k.rels[r] /\ <<r, c>> \in l.evidence
      BY <3>1
    <3>3. r \in DOMAIN l.rels
      BY <3>2 DEF Connects
    <3>4. QED
      BY <3>1, <3>2, <3>3 DEF Stated
  <2>4. QED
    BY <2>1, <2>2, <2>3 DEF Stated
<1>3. QED
  BY <1>1, <1>2 DEF Kept

\* Rows that are added take nothing from what a chunk said.
LEMMA GrowsKeeps ==
    ASSUME NEW k, NEW l, RowsOK(k), Grows(k, l),
           NEW s \in Sources, NEW c, NEW g, Kept(k, s, c, g)
    PROVE  Kept(l, s, c, g)
<1>1. \A key, e : NamedBy(k, c, key, e) => NamedBy(l, c, key, e)
  BY DEF NamedBy, Grows, RowsOK, References
<1>2. ASSUME NEW r \in DOMAIN k.rels, Connects(k, r), <<r, c>> \in k.evidence
      PROVE  Connects(l, r) /\ l.rels[r] = k.rels[r] /\ <<r, c>> \in l.evidence
  BY <1>2 DEF Connects, Grows, RowsOK, References
<1>3. QED
  BY <1>1, <1>2, KeptFrame DEF Grows

\* One source extends the rows by what its extraction said.
LEMMA Persisted ==
    ASSUME NEW k, RowsOK(k), NEW s \in Sources, NEW g \in Generations,
           NEW c \in ChunkIds, c[1] = s, \A m \in k.mentions : m.chunk # c,
           NEW chunk, chunk[s] = c
    PROVE  Extends(k, PersistSource(k, s, g, c), g, {s}, chunk)
<1> DEFINE ents == WithEntities(k.ents, s, g)
           pairs == {<<Entity(ents, p[1]), Entity(ents, p[2])>> : p \in Related[s]}
           rels == WithRelations(k.rels, pairs, g)
           used == {Entity(ents, key) : key \in Keyed[s]}
           stated == {Relation(rels, p[1], p[2], g) : p \in pairs}
           Mention(e) == [of |-> e, chunk |-> c, entity |-> e]
           mentions == {Mention(e) : e \in used}
           U == {EntityNode(e) : e \in used} \cup {ChunkNode(c)}
                    \cup {MentionEdge(m) : m \in mentions}
                    \cup {RelationEdge(r, rels[r]) : r \in stated}
           l == [ents |-> ents, rels |-> rels, mentions |-> k.mentions \cup mentions,
                 evidence |-> k.evidence \cup {<<r, c>> : r \in stated},
                 out |-> k.out \cup Upserts(U)]
<1>1. PersistSource(k, s, g, c) = l
  <2> DEFINE fresh == {u \in used : \A m \in k.mentions : m.entity # u \/ m.chunk # c}
  <2>1. fresh = used
    OBVIOUS
  <2>2. PersistSource(k, s, g, c) =
          [ents |-> ents, rels |-> rels, mentions |-> k.mentions \cup {Mention(e) : e \in fresh},
           evidence |-> k.evidence \cup {<<r, c>> : r \in stated},
           out |-> k.out \cup Upserts({EntityNode(e) : e \in used} \cup {ChunkNode(c)}
                    \cup {MentionEdge(m) : m \in {Mention(e) : e \in fresh}}
                    \cup {RelationEdge(r, rels[r]) : r \in stated})]
    BY DEF PersistSource, Resolve
  <2> HIDE DEF fresh, used, stated, rels, ents
  <2>3. QED
    BY <2>1, <2>2
<1>2. EntitiesFor(k, ents, s, g)
  BY EntitiesAdded
<1>2a. \A key \in Keyed[s] :
          /\ Entity(ents, key) \in DOMAIN ents
          /\ ents[Entity(ents, key)].active /\ ents[Entity(ents, key)].key = key
  BY <1>2 DEF EntitiesFor
<1> HIDE DEF ents
<1>3. DOMAIN ents \subseteq Nat
  <2>1. DOMAIN ents = 1..Len(ents)
    BY <1>2 DEF EntitiesFor
  <2>2. QED
    BY <2>1
<1>4. Related[s] \subseteq Keyed[s] \X Keyed[s]
  BY ExtractionAssumption
<1>5. IsFiniteSet(pairs)
  <2> DEFINE f == [p \in Related[s] |-> <<Entity(ents, p[1]), Entity(ents, p[2])>>]
  <2>1. IsFiniteSet(Keyed[s] \X Keyed[s])
    BY ExtractionAssumption, FS_Product
  <2>2. IsFiniteSet(Related[s])
    BY <1>4, <2>1, FS_Subset
  <2>3. pairs = {f[p] : p \in Related[s]} /\ DOMAIN f = Related[s]
    OBVIOUS
  <2> HIDE DEF pairs, f
  <2>4. QED
    BY <2>2, <2>3, FiniteRange
<1>6. \A e \in used : e \in DOMAIN ents /\ ents[e].active /\ ents[e].key \in Keyed[s]
  BY <1>2 DEF EntitiesFor
<1>7. pairs \subseteq used \X used
  BY <1>4
<1>8. pairs \in SUBSET (Nat \X Nat)
  <2> HIDE DEF used, pairs
  <2>1. used \subseteq Nat
    BY <1>3, <1>6
  <2>2. QED
    BY <1>7, <2>1
<1>9. RelationsFor(k, rels, pairs, g)
  <2> HIDE DEF pairs
  <2> QED
    BY <1>5, <1>8, RelationsAdded
<1> HIDE DEF rels
<1>10. \A r \in stated : /\ r \in DOMAIN rels /\ rels[r].active /\ rels[r].gen = g
                         /\ rels[r].src \in used /\ rels[r].dst \in used
  <2> HIDE DEF used, pairs
  <2> QED
    BY <1>7, <1>9 DEF RelationsFor
<1>11. DOMAIN rels \subseteq Nat
  <2>1. DOMAIN rels = 1..Len(rels)
    BY <1>9 DEF RelationsFor
  <2>2. QED
    BY <2>1
<1>12. \A e \in DOMAIN ents \ DOMAIN k.ents : e \in used
  <2>1. ASSUME NEW e \in DOMAIN ents \ DOMAIN k.ents PROVE e = Entity(ents, ents[e].key)
    BY <1>2 DEF EntitiesFor
  <2>2. QED
    BY <1>2, <2>1 DEF EntitiesFor
<1>13. \A r \in DOMAIN rels \ DOMAIN k.rels : r \in stated
  <2> HIDE DEF pairs
  <2>1. ASSUME NEW r \in DOMAIN rels \ DOMAIN k.rels PROVE r \in stated
    <3> DEFINE p == <<rels[r].src, rels[r].dst>>
    <3>1. p \in pairs /\ p[1] = rels[r].src /\ p[2] = rels[r].dst
      BY <1>9 DEF RelationsFor
    <3> HIDE DEF p
    <3> DEFINE q == Relation(rels, p[1], p[2], g)
    <3>2. /\ q \in DOMAIN rels /\ rels[q].active /\ rels[q].gen = g
          /\ rels[q].src = p[1] /\ rels[q].dst = p[2]
      BY <1>9, <3>1 DEF RelationsFor
    <3>3. q \in stated
      BY <3>1
    <3> HIDE DEF q
    <3>4. q = r
      <4>1. \A a, b \in DOMAIN rels :
               rels[a].active /\ rels[b].active /\ SameIdentity(rels[a], rels[b]) => a = b
        BY <1>9 DEF RelationsFor
      <4>2. r \in DOMAIN rels /\ rels[r].active /\ rels[r].gen = g
        BY <1>9 DEF RelationsFor
      <4>3. SameIdentity(rels[q], rels[r])
        BY <3>1, <3>2, <4>2 DEF SameIdentity
      <4>4. QED
        BY <3>2, <4>1, <4>2, <4>3
    <3>5. QED
      BY <3>3, <3>4
  <2>2. QED
    BY <2>1
<1>14. /\ l.ents = ents /\ l.rels = rels /\ l.mentions = k.mentions \cup mentions
       /\ l.evidence = k.evidence \cup {<<r, c>> : r \in stated}
       /\ l.out = k.out \cup Upserts(U)
       /\ DOMAIN l = {"ents", "rels", "mentions", "evidence", "out"}
  OBVIOUS
<1>15. chunk[s] = c
  OBVIOUS
<1>16. \A m \in mentions : m.chunk = c /\ m.of = m.entity /\ m.entity \in used
  OBVIOUS
<1>17. \A e \in used : Mention(e) \in mentions
  OBVIOUS
<1> HIDE DEF l, used, pairs, stated
<1>18. \A e \in used : Names(l, c, e)
  BY <1>14, <1>17 DEF Names
<1>19. Grows(k, l)
  BY <1>2, <1>9, <1>14 DEF Grows, EntitiesFor, RelationsFor
<1>20. RowsOK(l)
  <2>1. RowsType(l)
    <3>1. mentions \subseteq MentionRow
      BY <1>3, <1>6 DEF MentionRow
    <3>2. {<<r, c>> : r \in stated} \subseteq Nat \X ChunkIds
      BY <1>10, <1>11
    <3>3. QED
      BY <1>2, <1>9, <1>14, <3>1, <3>2 DEF RowsType, RowsOK, EntitiesFor, RelationsFor
  <2>2. References(l)
    <3>1. ASSUME NEW r \in DOMAIN rels
          PROVE  rels[r].src \in DOMAIN ents /\ rels[r].dst \in DOMAIN ents
      <4>1. CASE r \in DOMAIN k.rels
        BY <1>2, <1>9, <4>1 DEF RowsOK, References, EntitiesFor, RelationsFor
      <4>2. CASE r \notin DOMAIN k.rels
        BY <1>6, <1>10, <1>13, <4>2
      <4>3. QED
        BY <4>1, <4>2
    <3>2. ASSUME NEW m \in l.mentions PROVE m.of \in DOMAIN ents /\ m.entity \in DOMAIN ents
      BY <1>2, <1>6, <1>14, <1>16 DEF RowsOK, References, EntitiesFor
    <3>3. ASSUME NEW p \in l.evidence PROVE p[1] \in DOMAIN rels
      BY <1>9, <1>10, <1>14 DEF RowsOK, References, RelationsFor
    <3>4. QED
      BY <1>14, <3>1, <3>2, <3>3 DEF References
  <2>3. KeyOnce(l) /\ IdentityOnce(l)
    BY <1>2, <1>9, <1>14 DEF KeyOnce, IdentityOnce, EntitiesFor, RelationsFor
  <2>4. ASSUME NEW p \in l.evidence, Connects(l, p[1])
        PROVE  Names(l, p[2], l.rels[p[1]].src) /\ Names(l, p[2], l.rels[p[1]].dst)
    <3>1. CASE p \in k.evidence
      <4>1. p[1] \in DOMAIN k.rels /\ l.rels[p[1]] = k.rels[p[1]]
        BY <1>9, <1>14, <3>1 DEF RowsOK, References, RelationsFor
      <4>2. Connects(k, p[1])
        BY <1>2, <1>14, <2>4, <4>1 DEF RowsOK, References, Connects, EntitiesFor
      <4>3. Names(k, p[2], k.rels[p[1]].src) /\ Names(k, p[2], k.rels[p[1]].dst)
        BY <3>1, <4>2 DEF RowsOK, EvidenceNamed
      <4>4. QED
        BY <1>14, <4>1, <4>3 DEF Names
    <3>2. CASE p \in {<<r, c>> : r \in stated}
      BY <1>10, <1>14, <1>18, <3>2
    <3>3. QED
      BY <1>14, <3>1, <3>2
  <2>5. ASSUME NEW m \in l.mentions PROVE l.ents[m.of].key \in Keyed[m.chunk[1]]
    <3>1. CASE m \in k.mentions
      BY <1>2, <1>14, <3>1 DEF RowsOK, References, MentionsKeyed, EntitiesFor
    <3>2. CASE m \in mentions
      BY <1>6, <1>14, <1>16, <3>2
    <3>3. QED
      BY <1>14, <3>1, <3>2
  <2>6. QED
    BY <2>1, <2>2, <2>3, <2>4, <2>5 DEF RowsOK, EvidenceNamed, MentionsKeyed
<1>21. Adds(k, l, g, {s}, chunk)
  <2>1. \A m \in l.mentions \ k.mentions : m.of = m.entity /\ m.chunk = chunk[s]
    BY <1>14, <1>15, <1>16
  <2>2. \A p \in l.evidence \ k.evidence : p[2] = chunk[s]
    BY <1>14, <1>15
  <2>3. \A e \in DOMAIN l.ents \ DOMAIN k.ents : l.ents[e].gen = g /\ Names(l, chunk[s], e)
    BY <1>2, <1>12, <1>14, <1>15, <1>18 DEF EntitiesFor
  <2>4. \A r \in DOMAIN l.rels \ DOMAIN k.rels :
           l.rels[r].gen = g /\ <<r, chunk[s]>> \in l.evidence
    BY <1>9, <1>13, <1>14, <1>15 DEF RelationsFor
  <2>5. QED
    BY <2>1, <2>2, <2>3, <2>4 DEF Adds
<1>22. \A key \in Keyed[s] : Entity(ents, key) \in used
  BY DEF used
<1>23. \A key \in Keyed[s] : NamedBy(l, c, key, Entity(ents, key))
  <2>1. ASSUME NEW key \in Keyed[s] PROVE NamedBy(l, c, key, Entity(ents, key))
    <3> DEFINE e == Entity(ents, key)
    <3>1. e \in used /\ ents[e].key = key
      BY <1>2a, <1>22
    <3> HIDE DEF e
    <3>2. Mention(e) \in l.mentions /\ l.ents[Mention(e).of].key = key
      BY <1>14, <1>17, <3>1
    <3>3. Mention(e).chunk = c /\ Mention(e).entity = e
      OBVIOUS
    <3> HIDE DEF Mention
    <3>4. NamedBy(l, c, key, e)
      BY <3>2, <3>3 DEF NamedBy
    <3>5. QED
      BY <3>4 DEF e
  <2>2. QED
    BY <2>1
<1>24. ASSUME NEW p \in Related[s] PROVE Stated(l, c, g, p)
  <2> DEFINE q == <<Entity(ents, p[1]), Entity(ents, p[2])>>
             r == Relation(rels, q[1], q[2], g)
  <2>1. p[1] \in Keyed[s] /\ p[2] \in Keyed[s]
    BY <1>4
  <2>2. q \in pairs
    BY DEF pairs
  <2>3. q[1] = Entity(ents, p[1]) /\ q[2] = Entity(ents, p[2])
    OBVIOUS
  <2> HIDE DEF q
  <2>4. r \in stated
    BY <2>2 DEF stated
  <2>5. rels[r].src = q[1] /\ rels[r].dst = q[2]
    BY <1>9, <2>2 DEF RelationsFor
  <2> HIDE DEF r
  <2>6. NamedBy(l, c, p[1], l.rels[r].src) /\ NamedBy(l, c, p[2], l.rels[r].dst)
    BY <1>14, <1>23, <2>1, <2>3, <2>5
  <2>7. Connects(l, r)
    BY <1>6, <1>10, <1>14, <2>4 DEF Connects
  <2>8. l.rels[r].gen = g /\ <<r, c>> \in l.evidence /\ r \in DOMAIN l.rels
    BY <1>10, <1>14, <2>4
  <2>9. QED
    BY <2>6, <2>7, <2>8 DEF Stated
<1>25. Says(l, g, {s}, chunk)
  <2>1. Kept(l, s, c, g)
    BY <1>2, <1>14, <1>23, <1>24 DEF Kept, EntitiesFor
  <2>2. \A key \in Keyed[s] : \E e \in DOMAIN l.ents :
              l.ents[e].active /\ l.ents[e].key = key /\ Names(l, c, e)
    BY <1>2, <1>14, <1>18, <1>22 DEF EntitiesFor
  <2>3. QED
    BY <1>15, <2>1, <2>2 DEF Says
<1>26. Announces(k, l, {s}, chunk, U)
  <2>1. \A e \in used : EntityNode(e) \in U
    OBVIOUS
  <2>2. ChunkNode(c) \in U
    OBVIOUS
  <2>3. \A m \in mentions : MentionEdge(m) \in U
    OBVIOUS
  <2>4. \A r \in stated : RelationEdge(r, rels[r]) \in U
    OBVIOUS
  <2>5. \A x \in U : \/ \E e \in used : x = EntityNode(e)
                     \/ x = ChunkNode(c)
                     \/ \E m \in mentions : x = MentionEdge(m)
                     \/ \E r \in stated : x = RelationEdge(r, rels[r])
    OBVIOUS
  <2> HIDE DEF U, mentions
  <2>6. ASSUME NEW x \in U
        PROVE  \/ \E e \in DOMAIN l.ents : l.ents[e].active /\ x = EntityNode(e)
               \/ \E t \in {s} : x = ChunkNode(chunk[t])
               \/ \E m \in l.mentions : x = MentionEdge(m)
               \/ \E r \in DOMAIN l.rels : l.rels[r].active /\ x = RelationEdge(r, l.rels[r])
    BY <1>6, <1>10, <1>14, <1>15, <2>5
  <2>7. QED
    BY <1>12, <1>13, <1>14, <1>15, <2>1, <2>2, <2>3, <2>4, <2>6 DEF Announces
<1>27. QED
  BY <1>1, <1>14, <1>19, <1>20, <1>21, <1>25, <1>26 DEF Extends

\* A batch that has persisted some sources persists one more.
LEMMA OneMore ==
    ASSUME NEW z, RowsOK(z), NEW k, NEW g \in Generations, NEW built \in SUBSET Sources,
           NEW chunk,
           \A t \in built : chunk[t] \in ChunkIds /\ chunk[t][1] = t,
           \A m \in z.mentions : \A t \in built : m.chunk # chunk[t],
           NEW done \in SUBSET built, NEW s \in built \ done,
           Extends(z, k, g, done, chunk)
    PROVE  Extends(z, PersistSource(k, s, g, chunk[s]), g, done \cup {s}, chunk)
<1> DEFINE c == chunk[s]
           l == PersistSource(k, s, g, c)
           all == done \cup {s}
<1>1. c \in ChunkIds /\ c[1] = s /\ s \in Sources
  OBVIOUS
<1>2. RowsOK(k) /\ Grows(z, k) /\ Adds(z, k, g, done, chunk) /\ Says(k, g, done, chunk)
  BY DEF Extends
<1>3. \A m \in k.mentions : m.chunk # c
  <2>1. ASSUME NEW m \in k.mentions, m.chunk = c PROVE FALSE
    <3>1. m \notin z.mentions
      BY <2>1
    <3>2. PICK t \in done : m.chunk = chunk[t]
      BY <1>2, <3>1 DEF Adds
    <3>3. chunk[t][1] = t
      OBVIOUS
    <3>4. QED
      BY <1>1, <2>1, <3>2, <3>3
  <2>2. QED
    BY <2>1
<1>4. Extends(k, l, g, {s}, chunk)
  BY <1>1, <1>2, <1>3, Persisted
<1> HIDE DEF l
<1>5. RowsOK(l) /\ Grows(k, l) /\ Adds(k, l, g, {s}, chunk) /\ Says(l, g, {s}, chunk)
  BY <1>4 DEF Extends
<1>6. Grows(z, l)
  <2>1. ASSUME NEW e \in DOMAIN z.ents PROVE e \in DOMAIN l.ents /\ l.ents[e] = z.ents[e]
    BY <1>2, <1>5 DEF Grows
  <2>2. ASSUME NEW r \in DOMAIN z.rels PROVE r \in DOMAIN l.rels /\ l.rels[r] = z.rels[r]
    BY <1>2, <1>5 DEF Grows
  <2>3. z.mentions \subseteq l.mentions /\ z.evidence \subseteq l.evidence
    BY <1>2, <1>5 DEF Grows
  <2>4. QED
    BY <2>1, <2>2, <2>3 DEF Grows
<1>7. \A cc, e : Names(k, cc, e) => Names(l, cc, e)
  BY <1>5 DEF Grows, Names
<1>8. Adds(z, l, g, all, chunk)
  <2>1. ASSUME NEW m \in l.mentions \ z.mentions
        PROVE  m.of = m.entity /\ \E t \in all : m.chunk = chunk[t]
    <3>1. CASE m \in k.mentions
      BY <1>2, <3>1 DEF Adds
    <3>2. CASE m \notin k.mentions
      BY <1>5, <3>2 DEF Adds
    <3>3. QED
      BY <3>1, <3>2
  <2>2. ASSUME NEW p \in l.evidence \ z.evidence PROVE \E t \in all : p[2] = chunk[t]
    <3>1. CASE p \in k.evidence
      BY <1>2, <3>1 DEF Adds
    <3>2. CASE p \notin k.evidence
      BY <1>5, <3>2 DEF Adds
    <3>3. QED
      BY <3>1, <3>2
  <2>3. ASSUME NEW e \in DOMAIN l.ents \ DOMAIN z.ents
        PROVE  l.ents[e].gen = g /\ \E t \in all : Names(l, chunk[t], e)
    <3>1. CASE e \in DOMAIN k.ents
      <4>1. k.ents[e].gen = g /\ \E t \in done : Names(k, chunk[t], e)
        BY <1>2, <3>1 DEF Adds
      <4>2. l.ents[e] = k.ents[e]
        BY <1>5, <3>1 DEF Grows
      <4>3. QED
        BY <1>7, <4>1, <4>2
    <3>2. CASE e \notin DOMAIN k.ents
      BY <1>5, <3>2 DEF Adds
    <3>3. QED
      BY <3>1, <3>2
  <2>4. ASSUME NEW r \in DOMAIN l.rels \ DOMAIN z.rels
        PROVE  l.rels[r].gen = g /\ \E t \in all : <<r, chunk[t]>> \in l.evidence
    <3>1. CASE r \in DOMAIN k.rels
      <4>1. k.rels[r].gen = g /\ \E t \in done : <<r, chunk[t]>> \in k.evidence
        BY <1>2, <3>1 DEF Adds
      <4>2. l.rels[r] = k.rels[r] /\ k.evidence \subseteq l.evidence
        BY <1>5, <3>1 DEF Grows
      <4>3. QED
        BY <4>1, <4>2
    <3>2. CASE r \notin DOMAIN k.rels
      BY <1>5, <3>2 DEF Adds
    <3>3. QED
      BY <3>1, <3>2
  <2>5. QED
    BY <2>1, <2>2, <2>3, <2>4 DEF Adds
<1>9. Says(l, g, all, chunk)
  <2>1. ASSUME NEW t \in done
        PROVE  /\ Kept(l, t, chunk[t], g)
               /\ \A key \in Keyed[t] : \E e \in DOMAIN l.ents :
                     l.ents[e].active /\ l.ents[e].key = key /\ Names(l, chunk[t], e)
    <3>1. Kept(l, t, chunk[t], g)
      <4>1. Kept(k, t, chunk[t], g) /\ t \in Sources
        BY <1>2 DEF Says
      <4>2. QED
        BY <1>2, <1>5, <4>1, GrowsKeeps
    <3>2. ASSUME NEW key \in Keyed[t]
          PROVE  \E e \in DOMAIN l.ents :
                     l.ents[e].active /\ l.ents[e].key = key /\ Names(l, chunk[t], e)
      <4>1. PICK e \in DOMAIN k.ents :
                k.ents[e].active /\ k.ents[e].key = key /\ Names(k, chunk[t], e)
        BY <1>2 DEF Says
      <4>2. QED
        BY <1>5, <1>7, <4>1 DEF Grows
    <3>3. QED
      BY <3>1, <3>2
  <2>2. /\ Kept(l, s, chunk[s], g)
        /\ \A key \in Keyed[s] : \E e \in DOMAIN l.ents :
              l.ents[e].active /\ l.ents[e].key = key /\ Names(l, chunk[s], e)
    BY <1>5 DEF Says
  <2>3. QED
    BY <2>1, <2>2 DEF Says
<1>10. PICK V : Announces(z, k, done, chunk, V)
  BY DEF Extends
<1>11. PICK W : Announces(k, l, {s}, chunk, W)
  BY <1>4 DEF Extends
<1>12. Announces(z, l, all, chunk, V \cup W)
  <2>1. l.out = z.out \cup Upserts(V \cup W)
    BY <1>10, <1>11 DEF Announces, Upserts
  <2>2. ASSUME NEW x \in V
        PROVE  \/ \E e \in DOMAIN l.ents : l.ents[e].active /\ x = EntityNode(e)
               \/ \E t \in all : x = ChunkNode(chunk[t])
               \/ \E m \in l.mentions : x = MentionEdge(m)
               \/ \E r \in DOMAIN l.rels : l.rels[r].active /\ x = RelationEdge(r, l.rels[r])
    <3>1. \/ \E e \in DOMAIN k.ents : k.ents[e].active /\ x = EntityNode(e)
          \/ \E t \in done : x = ChunkNode(chunk[t])
          \/ \E m \in k.mentions : x = MentionEdge(m)
          \/ \E r \in DOMAIN k.rels : k.rels[r].active /\ x = RelationEdge(r, k.rels[r])
      BY <1>10 DEF Announces
    <3>2. QED
      BY <1>5, <3>1 DEF Grows
  <2>3. ASSUME NEW x \in W
        PROVE  \/ \E e \in DOMAIN l.ents : l.ents[e].active /\ x = EntityNode(e)
               \/ \E t \in all : x = ChunkNode(chunk[t])
               \/ \E m \in l.mentions : x = MentionEdge(m)
               \/ \E r \in DOMAIN l.rels : l.rels[r].active /\ x = RelationEdge(r, l.rels[r])
    BY <1>5, <1>11 DEF Announces
  <2>4. \A e \in DOMAIN l.ents \ DOMAIN z.ents : EntityNode(e) \in V \cup W
    BY <1>10, <1>11 DEF Announces
  <2>5. \A t \in all : ChunkNode(chunk[t]) \in V \cup W
    BY <1>5, <1>10, <1>11 DEF Announces
  <2>6. \A m \in l.mentions \ z.mentions : MentionEdge(m) \in V \cup W
    BY <1>10, <1>11 DEF Announces
  <2>7. ASSUME NEW r \in DOMAIN l.rels \ DOMAIN z.rels
        PROVE  RelationEdge(r, l.rels[r]) \in V \cup W
    <3>1. CASE r \in DOMAIN k.rels
      BY <1>5, <1>10, <3>1 DEF Announces, Grows
    <3>2. CASE r \notin DOMAIN k.rels
      BY <1>11, <3>2 DEF Announces
    <3>3. QED
      BY <3>1, <3>2
  <2>8. QED
    BY <2>1, <2>2, <2>3, <2>4, <2>5, <2>6, <2>7 DEF Announces
<1>13. DOMAIN l = {"ents", "rels", "mentions", "evidence", "out"}
  BY <1>4 DEF Extends
<1>14. QED
  BY <1>5, <1>6, <1>8, <1>9, <1>12, <1>13 DEF Extends, l

\* A batch that has persisted nothing.
LEMMA NothingYet ==
    ASSUME RowsOK(rows), DOMAIN rows = {"ents", "rels", "mentions", "evidence", "out"},
           NEW g, NEW chunk
    PROVE  Extends(rows, rows, g, {}, chunk)
<1>1. Announces(rows, rows, {}, chunk, {})
  BY DEF Announces, Upserts
<1>2. QED
  BY <1>1 DEF Extends, Grows, Adds, Says

\* The fold of persist_batch, source by source.
LEMMA BatchLoop ==
    ASSUME NEW built, Cardinality(built) \in Nat, NEW g, NEW document
    PROVE  \E f : /\ PersistBatch(built, g, document) = f[Cardinality(built)]
                  /\ f[0] = rows
                  /\ \A n \in 1..Cardinality(built) :
                        LET s == SetToSeq(built)[n]
                        IN  f[n] = PersistSource(f[n - 1], s, g, <<s, g, document[s].id>>)
<1> DEFINE Persist(k, s) == PersistSource(k, s, g, <<s, g, document[s].id>>)
           order == SetToSeq(built)
           Loop(f, m) == f = [n \in 0..m |-> IF n = 0 THEN rows ELSE Persist(f[n - 1], order[n])]
           Without == {m \in Nat : ~ \E f : Loop(f, m)}
           N == Cardinality(built)
<1>1. Without = {}
  <2>1. SUFFICES ASSUME Without # {} PROVE FALSE
    OBVIOUS
  <2>2. PICK m \in Without : \A j \in Without : m <= j
    BY <2>1, LeastNatural
  <2>3. m # 0
    <3>1. Loop([n \in 0..0 |-> rows], 0)
      OBVIOUS
    <3>2. QED
      BY <3>1, <2>2
  <2>4. m - 1 \in Nat /\ m - 1 \notin Without
    <3>1. m \in Nat
      OBVIOUS
    <3> HIDE DEF Without
    <3>2. QED
      BY <2>2, <2>3, <3>1
  <2>5. \E f : Loop(f, m - 1)
    <3> HIDE DEF Loop
    <3> QED
      BY <2>4
  <2>6. PICK f : Loop(f, m - 1)
    BY <2>5
  <2> DEFINE h == [n \in 0..m |-> IF n = m THEN Persist(f[m - 1], order[m]) ELSE f[n]]
  <2>7. Loop(h, m)
    <3> HIDE DEF Persist, order
    <3>1. ASSUME NEW n \in 0..m PROVE h[n] = IF n = 0 THEN rows ELSE Persist(h[n - 1], order[n])
      <4>1. CASE n = m
        BY <2>2, <2>3, <4>1
      <4>2. CASE n # m
        <5>1. n \in 0..(m - 1)
          BY <2>2, <4>2
        <5>2. n # 0 => n - 1 \in 0..m /\ n - 1 # m
          BY <2>2, <5>1
        <5>3. h[n] = f[n] /\ (n # 0 => h[n - 1] = f[n - 1])
          BY <4>2, <5>2
        <5>4. f[n] = IF n = 0 THEN rows ELSE Persist(f[n - 1], order[n])
          BY <2>6, <5>1
        <5>5. QED
          BY <5>3, <5>4
      <4>3. QED
        BY <4>1, <4>2
    <3> HIDE DEF h
    <3>2. h = [n \in 0..m |-> h[n]]
      BY DEF h
    <3>3. QED
      BY <3>1, <3>2
  <2>8. QED
    BY <2>2, <2>7
<1>2. PICK f : Loop(f, N)
  BY <1>1
<1>3. Loop(CHOOSE h : Loop(h, N), N)
  BY <1>2
<1>4. PersistBatch(built, g, document) = (CHOOSE h : Loop(h, N))[N]
  BY DEF PersistBatch
<1> DEFINE after == CHOOSE h : Loop(h, N)
<1>5. after = [n \in 0..N |-> IF n = 0 THEN rows ELSE Persist(after[n - 1], order[n])]
  BY <1>3
<1>6. PersistBatch(built, g, document) = after[N]
  BY <1>4
<1> HIDE DEF after
<1>7. after[0] = rows /\ \A n \in 1..N : after[n] = Persist(after[n - 1], order[n])
  <2> HIDE DEF Persist, order
  <2> QED
    BY <1>5
<1> QED
  BY <1>6, <1>7

\* The whole batch extends the rows by what its sources said.
LEMMA BatchExtends ==
    ASSUME RowsOK(rows), DOMAIN rows = {"ents", "rels", "mentions", "evidence", "out"},
           NEW built \in SUBSET Sources, NEW g \in Generations, NEW document,
           \A s \in built : <<s, g, document[s].id>> \in ChunkIds,
           \A s \in built : \A m \in rows.mentions : m.chunk # <<s, g, document[s].id>>
    PROVE  Extends(rows, PersistBatch(built, g, document), g, built,
                   [s \in built |-> <<s, g, document[s].id>>])
<1> DEFINE N == Cardinality(built)
           order == SetToSeq(built)
           chunk == [s \in built |-> <<s, g, document[s].id>>]
           Done(n) == {order[i] : i \in 1..n}
<1>1. IsFiniteSet(built)
  BY ExtractionAssumption, FS_Subset
<1>2. /\ N \in Nat /\ order \in [1..N -> built]
      /\ \A i, j \in 1..N : order[i] = order[j] => i = j
      /\ \A x \in built : \E i \in 1..N : order[i] = x
  BY <1>1, Enumeration
<1>3. PICK f : /\ PersistBatch(built, g, document) = f[N]
               /\ f[0] = rows
               /\ \A n \in 1..N :
                     LET s == order[n]
                     IN  f[n] = PersistSource(f[n - 1], s, g, <<s, g, document[s].id>>)
  BY <1>2, BatchLoop
<1>4. \A s \in built : chunk[s] = <<s, g, document[s].id>>
  OBVIOUS
<1>5. \A n \in 1..N : f[n] = PersistSource(f[n - 1], order[n], g, chunk[order[n]])
  BY <1>2, <1>3, <1>4
<1>6. /\ \A t \in built : chunk[t] \in ChunkIds /\ chunk[t][1] = t
      /\ \A m \in rows.mentions : \A t \in built : m.chunk # chunk[t]
  BY <1>4
<1> HIDE DEF order, N, chunk
<1> DEFINE Bad == {n \in 0..N : ~ Extends(rows, f[n], g, Done(n), chunk)}
<1>7. Bad = {}
  <2>1. SUFFICES ASSUME Bad # {} PROVE FALSE
    OBVIOUS
  <2>2. PICK n \in Bad : \A j \in Bad : n <= j
    <3>1. Bad \subseteq Nat
      OBVIOUS
    <3> HIDE DEF Bad
    <3>2. QED
      BY <2>1, <3>1, LeastNatural
  <2>3. n # 0
    <3>1. Done(0) = {}
      OBVIOUS
    <3>2. Extends(rows, f[0], g, Done(0), chunk)
      BY <1>3, <3>1, NothingYet
    <3>3. QED
      BY <3>2
  <2>4. n \in 0..N /\ n - 1 \in 0..N /\ n \in 1..N /\ n - 1 \notin Bad
    <3>1. n \in 0..N
      OBVIOUS
    <3> HIDE DEF Bad
    <3>2. QED
      BY <1>2, <2>2, <2>3, <3>1
  <2>5. Extends(rows, f[n - 1], g, Done(n - 1), chunk)
    BY <2>4
  <2>6. Done(n) = Done(n - 1) \cup {order[n]}
    <3>1. 1..n = (1..(n - 1)) \cup {n}
      BY <2>4
    <3>2. QED
      BY <3>1
  <2>7. Done(n - 1) \in SUBSET built /\ order[n] \in built \ Done(n - 1)
    <3>1. \A i \in 1..(n - 1) : i \in 1..N /\ i # n
      BY <1>2, <2>4
    <3>2. QED
      BY <1>2, <2>4, <3>1
  <2> HIDE DEF Done
  <2>8. Extends(rows, PersistSource(f[n - 1], order[n], g, chunk[order[n]]), g,
                Done(n - 1) \cup {order[n]}, chunk)
    BY <1>6, <2>5, <2>7, OneMore
  <2>9. f[n] = PersistSource(f[n - 1], order[n], g, chunk[order[n]])
    BY <1>5, <2>4
  <2>10. QED
    BY <2>2, <2>6, <2>8, <2>9
<1>8. Extends(rows, f[N], g, Done(N), chunk)
  <2>1. N \in 0..N
    BY <1>2
  <2> HIDE DEF Done
  <2>2. QED
    BY <1>7, <2>1
<1>9. Done(N) = built
  BY <1>2
<1>10. QED
  BY <1>3, <1>8, <1>9 DEF chunk

Planned(plan, n) ==
    /\ DOMAIN plan \subseteq VisibleEntities
    /\ \A d \in DOMAIN plan : plan[d] \in VisibleEntities \ DOMAIN plan /\ plan[d] <= n
    /\ \A e \in VisibleEntities \ DOMAIN plan :
          e <= n => \A d \in VisibleEntities : Near(d, e) => d \in DOMAIN plan

\* Similarity is symmetric.
LEMMA NearBothWays ==
    ASSUME NEW d, NEW e, Near(d, e)
    PROVE  Near(e, d)
<1>1. {rows.ents[d].key, rows.ents[e].key} = {rows.ents[e].key, rows.ents[d].key}
  OBVIOUS
<1>2. QED
  BY <1>1 DEF Near

\* An entity that absorbs others keeps the plan free of chains.
LEMMA AbsorbPlans ==
    ASSUME VisibleEntities \subseteq Nat, NEW n \in Nat, n + 1 \in DOMAIN rows.ents,
           NEW plan, Planned(plan, n)
    PROVE  Planned(Absorb(plan, n + 1), n + 1)
<1> DEFINE e == n + 1
           near == {d \in VisibleEntities \ DOMAIN plan : Near(d, e)}
           more == [d \in DOMAIN plan \cup near |-> IF d \in near THEN e ELSE plan[d]]
<1>1. e \in Nat /\ ~ (e <= n) /\ \A i \in Nat : (i <= n => i <= e) /\ (i <= e => i <= n \/ i = e)
  OBVIOUS
<1>2. e \in DOMAIN rows.ents /\ (Visible(e) <=> e \in VisibleEntities)
  BY DEF VisibleEntities
<1>3. Absorb(plan, e) = IF ~Visible(e) \/ e \in DOMAIN plan THEN plan ELSE more
  BY DEF Absorb
<1> HIDE DEF e
<1>4. CASE e \notin VisibleEntities \/ e \in DOMAIN plan
  <2>1. Absorb(plan, e) = plan
    BY <1>2, <1>3, <1>4
  <2>2. \A i \in VisibleEntities \ DOMAIN plan : i <= e => i <= n
    BY <1>1, <1>4
  <2>3. QED
    BY <1>1, <2>1, <2>2 DEF Planned, e
<1>5. CASE e \in VisibleEntities /\ e \notin DOMAIN plan
  <2>1. Absorb(plan, e) = more /\ DOMAIN more = DOMAIN plan \cup near
    BY <1>2, <1>3, <1>5
  <2>2. \A d \in near : more[d] = e
    OBVIOUS
  <2>3. \A d \in DOMAIN plan : d \notin near /\ more[d] = plan[d]
    OBVIOUS
  <2>4. e \notin near
    BY DEF Near
  <2>5. ASSUME NEW d \in DOMAIN plan PROVE plan[d] \notin near
    <3>1. SUFFICES ASSUME plan[d] \in near PROVE FALSE
      OBVIOUS
    <3>2. plan[d] \in VisibleEntities \ DOMAIN plan /\ plan[d] <= n
      BY DEF Planned
    <3>3. Near(plan[d], e)
      BY <3>1
    <3>4. Near(e, plan[d])
      BY <3>3, NearBothWays
    <3>5. e \in DOMAIN plan
      BY <1>5, <3>2, <3>4 DEF Planned
    <3>6. QED
      BY <1>5, <3>5
  <2>6. \A d \in near : d \in VisibleEntities
    OBVIOUS
  <2>7. \A d \in VisibleEntities : Near(d, e) => d \in DOMAIN more
    BY <2>1
  <2> HIDE DEF more, near
  <2>8. ASSUME NEW d \in DOMAIN more
        PROVE  d \in VisibleEntities /\ more[d] \in VisibleEntities \ DOMAIN more /\ more[d] <= e
    <3>1. CASE d \in near
      BY <1>1, <1>5, <2>1, <2>2, <2>4, <2>6, <3>1
    <3>2. CASE d \in DOMAIN plan
      <4>1. /\ plan[d] \in VisibleEntities /\ plan[d] \notin DOMAIN plan /\ plan[d] <= n
            /\ d \in VisibleEntities
        BY <3>2 DEF Planned
      <4>2. plan[d] <= e
        BY <1>1, <4>1
      <4>3. QED
        BY <2>1, <2>3, <2>5, <3>2, <4>1, <4>2
    <3>3. QED
      BY <2>1, <3>1, <3>2
  <2>9. ASSUME NEW i \in VisibleEntities \ DOMAIN more, i <= e,
               NEW d \in VisibleEntities, Near(d, i)
        PROVE  d \in DOMAIN more
    <3>1. CASE i = e
      BY <2>7, <2>9, <3>1
    <3>2. CASE i # e
      <4>1. i <= n /\ i \in VisibleEntities \ DOMAIN plan
        BY <1>1, <2>1, <2>9, <3>2
      <4>2. d \in DOMAIN plan
        BY <2>9, <4>1 DEF Planned
      <4>3. QED
        BY <2>1, <4>2
    <3>3. QED
      BY <3>1, <3>2
  <2>10. Planned(more, e)
    BY <2>8, <2>9 DEF Planned
  <2>11. QED
    BY <2>1, <2>10 DEF e
<1>6. QED
  BY <1>4, <1>5

\* The plan of a merge sends visible entities to visible ones that it does not absorb.
LEMMA MergePlanned ==
    ASSUME rows.ents \in Seq(EntityRow)
    PROVE  /\ DOMAIN MergePlan \subseteq VisibleEntities
           /\ \A d \in DOMAIN MergePlan : MergePlan[d] \in VisibleEntities \ DOMAIN MergePlan
<1> DEFINE N == Len(rows.ents)
<1>1. N \in Nat /\ DOMAIN rows.ents = 1..N
  OBVIOUS
<1>2. VisibleEntities \subseteq Nat /\ \A e \in VisibleEntities : ~ (e <= 0)
  BY <1>1 DEF VisibleEntities
<1>3. PICK f : /\ MergePlan = f[N]
               /\ f[0] = <<>>
               /\ \A e \in 1..N : f[e] = Absorb(f[e - 1], e)
  BY <1>1, PlanLoop
<1> HIDE DEF N
<1> DEFINE Bad == {n \in 0..N : ~ Planned(f[n], n)}
<1>4. Bad = {}
  <2>1. SUFFICES ASSUME Bad # {} PROVE FALSE
    OBVIOUS
  <2>2. PICK n \in Bad : \A j \in Bad : n <= j
    <3>1. Bad \subseteq Nat
      OBVIOUS
    <3> HIDE DEF Bad
    <3>2. QED
      BY <2>1, <3>1, LeastNatural
  <2>3. n # 0
    <3>1. Planned(<<>>, 0)
      BY <1>2 DEF Planned
    <3>2. QED
      BY <1>3, <3>1
  <2>4. n \in 1..N /\ n - 1 \in 0..N /\ n - 1 \in Nat /\ n - 1 \notin Bad /\ (n - 1) + 1 = n
    <3>1. n \in 0..N
      OBVIOUS
    <3> HIDE DEF Bad
    <3>2. QED
      BY <1>1, <2>2, <2>3, <3>1
  <2>5. Planned(f[n - 1], n - 1)
    BY <2>4
  <2>6. Planned(Absorb(f[n - 1], n), n)
    BY <1>1, <1>2, <2>4, <2>5, AbsorbPlans
  <2>7. f[n] = Absorb(f[n - 1], n)
    BY <1>3, <2>4
  <2>8. QED
    BY <2>2, <2>6, <2>7
<1>5. Planned(f[N], N)
  <2>1. N \in 0..N
    BY <1>1
  <2>2. QED
    BY <1>4, <2>1
<1>6. QED
  BY <1>3, <1>5 DEF Planned

-----------------------------------------------------------------------------
(* Rows that go *)

\* Deactivated changes nothing but the flag: entities.
LEMMA EntsDeactivated ==
    ASSUME NEW ents \in Seq(EntityRow), NEW ids
    PROVE  LET less == Deactivated(ents, ids)
           IN  /\ less \in Seq(EntityRow) /\ DOMAIN less = DOMAIN ents
               /\ \A e \in DOMAIN ents :
                     /\ less[e].key = ents[e].key /\ less[e].gen = ents[e].gen
                     /\ less[e].active <=> ents[e].active /\ e \notin ids
<1> DEFINE less == Deactivated(ents, ids)
<1>1. Len(ents) \in Nat /\ DOMAIN ents = 1..Len(ents)
  OBVIOUS
<1>2. less = [e \in 1..Len(ents) |-> IF e \in ids THEN [ents[e] EXCEPT !.active = FALSE]
                                                  ELSE ents[e]]
  BY <1>1 DEF Deactivated
<1>3. ASSUME NEW e \in 1..Len(ents)
      PROVE  /\ less[e] \in EntityRow
             /\ less[e].key = ents[e].key /\ less[e].gen = ents[e].gen
             /\ less[e].active <=> ents[e].active /\ e \notin ids
  <2>1. ents[e] \in EntityRow
    BY <1>1
  <2>2. less[e] = IF e \in ids THEN [ents[e] EXCEPT !.active = FALSE] ELSE ents[e]
    BY <1>2
  <2> HIDE DEF less
  <2>3. QED
    BY <2>1, <2>2 DEF EntityRow
<1>4. less \in [1..Len(ents) -> EntityRow]
  BY <1>2, <1>3
<1> HIDE DEF less
<1>5. less \in Seq(EntityRow) /\ DOMAIN less = 1..Len(ents)
  BY <1>1, <1>4
<1>6. QED
  BY <1>1, <1>3, <1>5 DEF less

\* Deactivated changes nothing but the flag: relations.
LEMMA RelsDeactivated ==
    ASSUME NEW rels \in Seq(RelationRow), NEW ids
    PROVE  LET less == Deactivated(rels, ids)
           IN  /\ less \in Seq(RelationRow) /\ DOMAIN less = DOMAIN rels
               /\ \A r \in DOMAIN rels :
                     /\ SameIdentity(less[r], rels[r])
                     /\ less[r].active <=> rels[r].active /\ r \notin ids
                     /\ r \notin ids => less[r] = rels[r]
<1> DEFINE less == Deactivated(rels, ids)
<1>1. Len(rels) \in Nat /\ DOMAIN rels = 1..Len(rels)
  OBVIOUS
<1>2. less = [r \in 1..Len(rels) |-> IF r \in ids THEN [rels[r] EXCEPT !.active = FALSE]
                                                  ELSE rels[r]]
  BY <1>1 DEF Deactivated
<1>3. ASSUME NEW r \in 1..Len(rels)
      PROVE  /\ less[r] \in RelationRow
             /\ SameIdentity(less[r], rels[r])
             /\ less[r].active <=> rels[r].active /\ r \notin ids
             /\ r \notin ids => less[r] = rels[r]
  <2>1. rels[r] \in RelationRow
    BY <1>1
  <2>2. less[r] = IF r \in ids THEN [rels[r] EXCEPT !.active = FALSE] ELSE rels[r]
    BY <1>2
  <2> HIDE DEF less
  <2>3. QED
    BY <2>1, <2>2 DEF RelationRow, SameIdentity
<1>4. less \in [1..Len(rels) -> RelationRow]
  BY <1>2, <1>3
<1> HIDE DEF less
<1>5. less \in Seq(RelationRow) /\ DOMAIN less = 1..Len(rels)
  BY <1>1, <1>4
<1>6. QED
  BY <1>1, <1>3, <1>5 DEF less

\* Rows that go, or move on, leave the others in order.
LEMMA FadesRows ==
    ASSUME NEW k, NEW l, RowsOK(k), Fades(k, l)
    PROVE  RowsOK(l)
<1>1. RowsType(k) /\ References(k)
  BY DEF RowsOK
<1>2. RowsType(l) /\ References(l)
  BY <1>1 DEF Fades, RowsType, References, SameIdentity
<1>3. KeyOnce(l)
  BY DEF RowsOK, KeyOnce, Fades
<1>4. IdentityOnce(l)
  <2>1. ASSUME NEW q \in DOMAIN l.rels, NEW r \in DOMAIN l.rels,
               l.rels[q].active, l.rels[r].active, SameIdentity(l.rels[q], l.rels[r])
        PROVE  q = r
    <3>1. k.rels[q].active /\ k.rels[r].active /\ q \in DOMAIN k.rels /\ r \in DOMAIN k.rels
      BY <2>1 DEF Fades
    <3>2. SameIdentity(l.rels[q], k.rels[q]) /\ SameIdentity(l.rels[r], k.rels[r])
      BY DEF Fades
    <3>3. SameIdentity(k.rels[q], k.rels[r])
      BY <2>1, <3>2 DEF SameIdentity
    <3>4. QED
      BY <3>1, <3>3 DEF RowsOK, IdentityOnce
  <2>2. QED
    BY <2>1 DEF IdentityOnce
<1>5. EvidenceNamed(l)
  <2>1. ASSUME NEW p \in l.evidence, Connects(l, p[1])
        PROVE  Names(l, p[2], l.rels[p[1]].src) /\ Names(l, p[2], l.rels[p[1]].dst)
    <3>1. p \in k.evidence /\ p[1] \in DOMAIN k.rels
      BY <1>1 DEF Fades, References
    <3>2. l.rels[p[1]].src = k.rels[p[1]].src /\ l.rels[p[1]].dst = k.rels[p[1]].dst
      BY <3>1 DEF Fades, SameIdentity
    <3>3. Connects(k, p[1])
      BY <1>1, <2>1, <3>1, <3>2 DEF Connects, Fades, References
    <3>4. Names(k, p[2], k.rels[p[1]].src) /\ Names(k, p[2], k.rels[p[1]].dst)
      BY <3>1, <3>3 DEF RowsOK, EvidenceNamed
    <3>5. QED
      BY <3>2, <3>4 DEF Names, Fades
  <2>2. QED
    BY <2>1 DEF EvidenceNamed
<1>6. MentionsKeyed(l)
  BY <1>1 DEF RowsOK, MentionsKeyed, Fades, References
<1>7. QED
  BY <1>2, <1>3, <1>4, <1>5, <1>6 DEF RowsOK

\* Unchanged tables fade trivially.
LEMMA SameFades ==
    ASSUME NEW k, NEW l, RowsOK(k), l.ents = k.ents, l.rels = k.rels,
           l.mentions = k.mentions, l.evidence = k.evidence
    PROVE  Fades(k, l)
BY DEF Fades, RowsOK, RowsType, SameIdentity

\* Connections that stay are the ones there were.
LEMMA FadesConnects ==
    ASSUME NEW k, NEW l, RowsOK(k), Fades(k, l), NEW r, Connects(l, r)
    PROVE  Connects(k, r)
BY DEF Fades, Connects, RowsOK, References, SameIdentity

-----------------------------------------------------------------------------
(* What the actions do to the rows *)

RowFields == {"ents", "rels", "mentions", "evidence", "out"}

\* A drain empties the outbox and touches no table.
LEMMA DrainRows ==
    ASSUME IInv, Drain
    PROVE  /\ DOMAIN rows' = RowFields /\ rows'.out = {}
           /\ rows'.ents = rows.ents /\ rows'.rels = rows.rels
           /\ rows'.mentions = rows.mentions /\ rows'.evidence = rows.evidence
<1>1. DOMAIN rows = RowFields
  BY DEF IInv, TypeOK, RowFields
<1>2. rows' = [rows EXCEPT !.out = {}]
  BY DEF Drain
<1>3. QED
  BY <1>1, <1>2 DEF RowFields

\* The rows of the active entities of older generations move on.
LEMMA ActivateRows ==
    ASSUME IInv, NEW g \in Generations, ActivateGeneration(g), generation < g
    PROVE  /\ DOMAIN rows' = RowFields
           /\ rows'.out = rows.out \cup Upserts({EntityNode(e) : e \in Older(g)})
           /\ rows'.ents \in Seq(EntityRow) /\ DOMAIN rows'.ents = DOMAIN rows.ents
           /\ \A e \in DOMAIN rows.ents :
                 /\ rows'.ents[e].key = rows.ents[e].key
                 /\ rows'.ents[e].active = rows.ents[e].active
                 /\ rows'.ents[e].gen = IF e \in Older(g) THEN g ELSE rows.ents[e].gen
           /\ rows'.rels = rows.rels
           /\ rows'.mentions = rows.mentions /\ rows'.evidence = rows.evidence
<1> DEFINE moved == [e \in DOMAIN rows.ents |->
                       IF e \in Older(g) THEN [rows.ents[e] EXCEPT !.gen = g] ELSE rows.ents[e]]
<1>1. DOMAIN rows = RowFields /\ rows.ents \in Seq(EntityRow)
  BY DEF IInv, TypeOK, RowFields, RowsOK, RowsType
<1>2. rows' = [rows EXCEPT !.ents = moved,
                           !.out = rows.out \cup Upserts({EntityNode(e) : e \in Older(g)})]
  BY DEF ActivateGeneration
<1>3. ASSUME NEW e \in DOMAIN rows.ents
      PROVE  /\ moved[e] \in EntityRow
             /\ moved[e].key = rows.ents[e].key /\ moved[e].active = rows.ents[e].active
             /\ moved[e].gen = IF e \in Older(g) THEN g ELSE rows.ents[e].gen
  <2>1. rows.ents[e] \in EntityRow
    BY <1>1
  <2>2. moved[e] = IF e \in Older(g) THEN [rows.ents[e] EXCEPT !.gen = g] ELSE rows.ents[e]
    OBVIOUS
  <2> HIDE DEF moved
  <2>3. QED
    BY <2>1, <2>2 DEF EntityRow
<1>4. DOMAIN rows.ents = 1..Len(rows.ents) /\ Len(rows.ents) \in Nat
  BY <1>1
<1>5. moved \in [1..Len(rows.ents) -> EntityRow]
  BY <1>3, <1>4
<1> HIDE DEF moved
<1>6. moved \in Seq(EntityRow) /\ DOMAIN moved = DOMAIN rows.ents
  BY <1>4, <1>5
<1>7. /\ rows'.ents = moved /\ rows'.rels = rows.rels
      /\ rows'.mentions = rows.mentions /\ rows'.evidence = rows.evidence
      /\ rows'.out = rows.out \cup Upserts({EntityNode(e) : e \in Older(g)})
      /\ DOMAIN rows' = RowFields
  BY <1>1, <1>2 DEF RowFields
<1>8. QED
  BY <1>3, <1>6, <1>7

\* An action that takes relations and entities away and adds commands.
Takes(rels, ents, commands) ==
    /\ DOMAIN rows' = RowFields
    /\ rows'.rels = Deactivated(rows.rels, rels) /\ rows'.ents = Deactivated(rows.ents, ents)
    /\ rows'.mentions = rows.mentions /\ rows'.evidence = rows.evidence
    /\ rows'.out = rows.out \cup commands

\* Rows that are taken away fade, and only those.
LEMMA TakesFades ==
    ASSUME RowsOK(rows), NEW rels, NEW ents, NEW commands, Takes(rels, ents, commands)
    PROVE  /\ Fades(rows, rows')
           /\ \A e \in DOMAIN rows.ents :
                 /\ rows'.ents[e].gen = rows.ents[e].gen
                 /\ rows'.ents[e].active <=> rows.ents[e].active /\ e \notin ents
           /\ \A r \in DOMAIN rows.rels :
                 /\ rows'.rels[r].active <=> rows.rels[r].active /\ r \notin rels
                 /\ r \notin rels => rows'.rels[r] = rows.rels[r]
<1>1. rows.ents \in Seq(EntityRow) /\ rows.rels \in Seq(RelationRow)
  BY DEF RowsOK, RowsType
<1>2. QED
  BY <1>1, EntsDeactivated, RelsDeactivated DEF Takes, Fades

-----------------------------------------------------------------------------
(* Documents *)

\* The fields of a document.
LEMMA DocType ==
    ASSUME TypeOK, NEW s \in Sources, NEW g \in Generations
    PROVE  /\ doc[s][g] \in Document
           /\ doc[s][g].id \in 0..MaxResets + 1 /\ doc[s][g].id \in Nat
           /\ doc[s][g].active \in BOOLEAN /\ doc[s][g].chunked \in BOOLEAN
<1>1. doc[s][g] \in Document
  BY DEF TypeOK
<1>2. QED
  BY <1>1, BoundsAssumption DEF Document

\* Generations are positive naturals.
LEMMA GenerationsAre ==
    /\ Generations \subseteq Nat /\ \A g \in Generations : g >= 1
    /\ \A g \in Nat : g + 1 \in Generations => g <= MaxGeneration
BY BoundsAssumption DEF Generations

\* A document may be replaced by a later one, get its chunk, or end.
LEMMA AgesPointwise ==
    ASSUME TypeOK, NEW e \in [Sources -> [Generations -> Document]],
           \A s \in Sources, g \in Generations :
              /\ doc[s][g].id <= e[s][g].id
              /\ e[s][g].id = doc[s][g].id /\ doc[s][g].chunked =>
                    e[s][g].chunked /\ (e[s][g].active => doc[s][g].active)
    PROVE  Ages(doc, e)
<1> SUFFICES ASSUME NEW c, Born(doc, c)
             PROVE  Born(e, c) /\ (Live(e, c) => Live(doc, c))
  BY DEF Ages
<1>1. c \in ChunkIds /\ c[1] \in Sources /\ c[2] \in Generations /\ c[3] \in Nat /\ c[3] >= 1
  BY DEF Born, ChunkIds
<1> DEFINE a == doc[c[1]][c[2]]
           b == e[c[1]][c[2]]
<1>2. a.id \in Nat /\ a.id <= b.id
  BY <1>1, DocType
<1>3. b.id \in Nat
  <2>1. b \in Document
    BY <1>1
  <2>2. QED
    BY <2>1, BoundsAssumption DEF Document
<1>4. b.id = a.id /\ a.chunked => b.chunked /\ (b.active => a.active)
  BY <1>1
<1>5. c[3] < a.id \/ (c[3] = a.id /\ a.chunked)
  BY DEF Born
<1> HIDE DEF a, b
<1>6. c[3] < b.id \/ (c[3] = b.id /\ b.chunked)
  <2>1. CASE c[3] < a.id
    BY <1>1, <1>2, <1>3, <2>1
  <2>2. CASE c[3] = a.id /\ a.chunked /\ a.id < b.id
    BY <2>2
  <2>3. CASE c[3] = a.id /\ a.chunked /\ b.id = a.id
    BY <1>4, <2>3, Zenon
  <2>4. a.id < b.id \/ b.id = a.id
    BY <1>2, <1>3
  <2>5. QED
    BY <1>5, <2>1, <2>2, <2>3, <2>4, Zenon
<1>7. c[3] = b.id /\ b.active /\ b.chunked => c[3] = a.id /\ a.active /\ a.chunked
  BY <1>1, <1>2, <1>3, <1>4, <1>5
<1>8. Born(e, c)
  BY <1>1, <1>6 DEF Born, b
<1>9. Live(e, c) => Live(doc, c)
  BY <1>1, <1>7 DEF Live, a, b
<1>10. QED
  BY <1>8, <1>9

\* Remember plans one document where there was none.
LEMMA RememberDocs ==
    ASSUME IInv, NEW s \in Sources, Remember(s)
    PROVE  /\ doc' \in [Sources -> [Generations -> Document]]
           /\ doc[s][generation] = NoDocument
           /\ doc'[s][generation] = PlannedDocument
           /\ \A t \in Sources, g \in Generations :
                 t # s \/ g # generation => doc'[t][g] = doc[t][g]
           /\ Ages(doc, doc')
<1>1. doc \in [Sources -> [Generations -> Document]] /\ generation \in Generations /\ TypeOK
  BY DEF IInv, TypeOK
<1>2. PlannedDocument \in Document
  BY BoundsAssumption DEF PlannedDocument, Document
<1>3. doc' = [doc EXCEPT ![s][generation] = PlannedDocument]
  BY DEF Remember
<1>4. doc' \in [Sources -> [Generations -> Document]]
  BY <1>1, <1>2, <1>3
<1>5. doc[s][generation] = NoDocument
  BY <1>1 DEF IInv, DocsOK, Remember
<1>6. doc'[s][generation] = PlannedDocument
  BY <1>1, <1>3
<1>7. ASSUME NEW t \in Sources, NEW g \in Generations, t # s \/ g # generation
      PROVE  doc'[t][g] = doc[t][g]
  BY <1>1, <1>3, <1>7
<1>8. ASSUME NEW t \in Sources, NEW g \in Generations
      PROVE  /\ doc[t][g].id <= doc'[t][g].id
             /\ doc'[t][g].id = doc[t][g].id /\ doc[t][g].chunked =>
                   doc'[t][g].chunked /\ (doc'[t][g].active => doc[t][g].active)
  <2>1. CASE t = s /\ g = generation
    BY <1>5, <1>6, <2>1 DEF NoDocument, PlannedDocument
  <2>2. CASE t # s \/ g # generation
    BY <1>1, <1>7, <2>2, DocType
  <2>3. QED
    BY <2>1, <2>2
<1>9. Ages(doc, doc')
  BY <1>1, <1>4, <1>8, AgesPointwise
<1>10. QED
  BY <1>4, <1>5, <1>6, <1>7, <1>9

\* The documents that a forget of the sources S ends.
Ended_(S, t, g) == t \in S /\ g = generation /\ doc[t][g].active
\* Forget ends documents, and chunks with them, for good.
LEMMA ForgetDocs ==
    ASSUME TypeOK, NEW S \in SUBSET Sources, NEW memory_only \in BOOLEAN,
           memory_only => CanReset(S)
    PROVE  LET e == Documents(S, memory_only)
           IN  /\ e \in [Sources -> [Generations -> Document]]
               /\ \A t \in Sources, g \in Generations :
                     /\ ~Ended_(S, t, g) => e[t][g] = doc[t][g]
                     /\ Ended_(S, t, g) =>
                          /\ e[t][g].active => e[t][g].id >= 1
                          /\ ~ (e[t][g].active /\ e[t][g].chunked)
               /\ Ages(doc, e)
<1> DEFINE e == Documents(S, memory_only)
           Reset(t) == [id |-> doc[t][generation].id + 1, active |-> TRUE, chunked |-> FALSE]
           Inactive(t) == [doc[t][generation] EXCEPT !.active = FALSE]
           New(t) == IF memory_only THEN Reset(t) ELSE Inactive(t)
           Row(t) == IF t \notin S \/ ~doc[t][generation].active THEN doc[t]
                     ELSE [doc[t] EXCEPT ![generation] = New(t)]
<1>1. doc \in [Sources -> [Generations -> Document]] /\ generation \in Generations
  BY DEF TypeOK
<1>2. e = [t \in Sources |-> Row(t)]
  BY DEF Documents
<1>3. ASSUME NEW t \in S
      PROVE  /\ New(t) \in Document
             /\ New(t).id >= doc[t][generation].id
             /\ New(t).active => New(t).id >= 1
             /\ New(t).id = doc[t][generation].id =>
                   New(t).chunked = doc[t][generation].chunked /\ ~New(t).active
             /\ ~ (New(t).active /\ New(t).chunked)
  <2>1. doc[t][generation] \in Document
    BY <1>1
  <2>2. doc[t][generation].id \in Nat /\ doc[t][generation].id + 1 \in Nat
    BY <2>1, BoundsAssumption DEF Document
  <2>3. CASE memory_only
    <3>1. doc[t][generation].id <= MaxResets
      BY <2>3 DEF CanReset
    <3>2. doc[t][generation].id + 1 \in 0..MaxResets + 1
      BY <2>2, <3>1, BoundsAssumption
    <3>3. Reset(t) \in Document
      BY <3>2 DEF Document
    <3>4. QED
      BY <2>2, <2>3, <3>3
  <2>4. CASE ~memory_only
    <3>1. /\ Inactive(t) \in Document /\ Inactive(t).id = doc[t][generation].id
          /\ Inactive(t).chunked = doc[t][generation].chunked /\ Inactive(t).active = FALSE
      BY <2>1 DEF Document
    <3>2. New(t) = Inactive(t)
      BY <2>4
    <3> HIDE DEF Inactive, New
    <3>3. QED
      BY <2>2, <3>1, <3>2
  <2>5. QED
    BY <2>3, <2>4
<1> HIDE DEF New
<1>4. ASSUME NEW t \in Sources
      PROVE  /\ e[t] \in [Generations -> Document]
             /\ \A g \in Generations : ~Ended_(S, t, g) => e[t][g] = doc[t][g]
             /\ \A g \in Generations : Ended_(S, t, g) => e[t][g] = New(t) /\ t \in S /\ g = generation
  <2>1. e[t] = Row(t)
    BY <1>2
  <2>2. doc[t] \in [Generations -> Document]
    BY <1>1
  <2>3. CASE t \notin S \/ ~doc[t][generation].active
    BY <2>1, <2>2, <2>3 DEF Ended_
  <2>4. CASE t \in S /\ doc[t][generation].active
    <3>1. e[t] = [doc[t] EXCEPT ![generation] = New(t)]
      BY <2>1, <2>4
    <3>2. QED
      BY <1>1, <1>3, <2>2, <2>4, <3>1 DEF Ended_
  <2>5. QED
    BY <2>3, <2>4
<1>5. e \in [Sources -> [Generations -> Document]]
  BY <1>2, <1>4
<1> HIDE DEF e
<1>6. ASSUME NEW t \in Sources, NEW g \in Generations, Ended_(S, t, g)
      PROVE  /\ e[t][g].id >= doc[t][g].id
             /\ e[t][g].active => e[t][g].id >= 1
             /\ e[t][g].id = doc[t][g].id => e[t][g].chunked = doc[t][g].chunked /\ ~e[t][g].active
             /\ ~ (e[t][g].active /\ e[t][g].chunked)
  BY <1>3, <1>4, <1>6
<1>7. ASSUME NEW t \in Sources, NEW g \in Generations
      PROVE  /\ doc[t][g].id <= e[t][g].id
             /\ e[t][g].id = doc[t][g].id /\ doc[t][g].chunked =>
                   e[t][g].chunked /\ (e[t][g].active => doc[t][g].active)
  <2>1. doc[t][g].id \in Nat
    BY DocType
  <2>2. CASE Ended_(S, t, g)
    <3>1. e[t][g].id \in Nat
      BY <1>5, BoundsAssumption DEF Document
    <3>2. QED
      BY <1>6, <2>1, <2>2, <3>1
  <2>3. CASE ~Ended_(S, t, g)
    BY <1>4, <2>1, <2>3
  <2>4. QED
    BY <2>2, <2>3
<1>8. Ages(doc, e)
  BY <1>5, <1>7, AgesPointwise
<1>9. QED
  BY <1>4, <1>5, <1>6, <1>8 DEF e

-----------------------------------------------------------------------------
(* ProcessSources *)

Target(rebuild) == IF rebuild THEN generation + 1 ELSE generation
Work(ids, rebuild) == Batch(ids, Target(rebuild), rebuild).work
Built(ids, rebuild, failed) == Work(ids, rebuild) \ failed
BuiltFrom(ids, rebuild, failed) ==
    [s \in Built(ids, rebuild, failed) |->
       IF doc[s][Target(rebuild)].active THEN doc[s][Target(rebuild)] ELSE PlannedDocument]
BuiltChunk(ids, rebuild, failed) ==
    [s \in Built(ids, rebuild, failed) |->
       <<s, Target(rebuild), BuiltFrom(ids, rebuild, failed)[s].id>>]

\* The conjuncts of ProcessSources, under names.
LEMMA ProcessIs ==
    ASSUME NEW ids, NEW rebuild, NEW failed, ProcessSources(ids, rebuild, failed)
    PROVE  LET target == Target(rebuild)
               built == Built(ids, rebuild, failed)
               document == BuiltFrom(ids, rebuild, failed)
           IN  /\ dataset = "active" /\ target \in Generations
               /\ \A s \in Selected(ids, rebuild) : Resolved(s, target, rebuild)
               /\ failed \subseteq Work(ids, rebuild)
               /\ doc' = [s \in Sources |->
                     IF s \in built
                     THEN [doc[s] EXCEPT ![target] = [document[s] EXCEPT !.chunked = TRUE]]
                     ELSE doc[s]]
               /\ source' = [s \in Sources |->
                     IF s \in failed THEN "failed"
                     ELSE IF s \in built \/ (s \in Selected(ids, rebuild) /\ HasChunk(s, target))
                          THEN "active" ELSE source[s]]
               /\ rows' = PersistBatch(built, target, document)
               /\ activation' = IF rebuild THEN activation \cup {target} ELSE activation
               /\ tangled' = (Tangles \/ (rebuild /\ (failed # {} \/ Merged)))
               /\ UNCHANGED <<generation, dataset, summary, graph>>
<1>1. Batch(ids, Target(rebuild), rebuild).selected = Selected(ids, rebuild)
  BY DEF Batch
<1>2. ~Batch(ids, Target(rebuild), rebuild).refused =>
         \A s \in Selected(ids, rebuild) : Resolved(s, Target(rebuild), rebuild)
  BY DEF Batch
<1>3. QED
  BY <1>1, <1>2 DEF ProcessSources, Target, Work, Built, BuiltFrom, SourcesFail

\* The work of a batch is selected and has no chunk yet.
LEMMA WorkIs ==
    ASSUME NEW ids, NEW rebuild
    PROVE  /\ Work(ids, rebuild) =
                {s \in Selected(ids, rebuild) : NeedsWork(s, Target(rebuild), ids, rebuild)}
           /\ Work(ids, rebuild) \subseteq Sources
           /\ \A s \in Work(ids, rebuild) :
                s \in Selected(ids, rebuild) /\ source[s] \in Selectable /\ ~HasChunk(s, Target(rebuild))
<1>1. Work(ids, rebuild) =
          {s \in Selected(ids, rebuild) : NeedsWork(s, Target(rebuild), ids, rebuild)}
  BY DEF Work, Batch
<1>2. QED
  BY <1>1 DEF Selected, NeedsWork

\* Each source that is built gets its chunk under an identity not used before.
LEMMA ProcessDocs ==
    ASSUME IInv, NEW ids, NEW rebuild \in BOOLEAN, NEW failed, ProcessSources(ids, rebuild, failed)
    PROVE  LET target == Target(rebuild)
               built == Built(ids, rebuild, failed)
               document == BuiltFrom(ids, rebuild, failed)
           IN  /\ \A s \in built : /\ document[s].id \in Nat /\ document[s].id >= 1
                                   /\ doc[s][target].id <= document[s].id
                                   /\ ~doc[s][target].chunked
                                   /\ doc'[s][target].id = document[s].id
                                   /\ doc'[s][target].active /\ doc'[s][target].chunked
                                   /\ rebuild => doc'[s][target] = RebuiltDocument
               /\ \A t \in Sources, g \in Generations :
                     t \notin built \/ g # target => doc'[t][g] = doc[t][g]
               /\ doc' \in [Sources -> [Generations -> Document]]
               /\ Ages(doc, doc')
<1> DEFINE target == Target(rebuild)
           built == Built(ids, rebuild, failed)
           document == BuiltFrom(ids, rebuild, failed)
           New(s) == [document[s] EXCEPT !.chunked = TRUE]
<1>1. /\ target \in Generations
      /\ \A s \in Selected(ids, rebuild) : Resolved(s, target, rebuild)
      /\ doc' = [s \in Sources |->
                     IF s \in built THEN [doc[s] EXCEPT ![target] = New(s)] ELSE doc[s]]
  BY ProcessIs
<1>2. TypeOK /\ DocsOK /\ doc \in [Sources -> [Generations -> Document]] /\ generation \in Generations
  BY DEF IInv, TypeOK
<1>3. built \subseteq Sources /\ \A s \in built : s \in Selected(ids, rebuild) /\ ~HasChunk(s, target)
  BY WorkIs DEF Built
<1>4. \A s \in built : document[s] = IF doc[s][target].active THEN doc[s][target] ELSE PlannedDocument
  BY DEF BuiltFrom
<1>5. target = IF rebuild THEN generation + 1 ELSE generation
  BY DEF Target
<1> HIDE DEF target, built, document
<1>6. ASSUME NEW s \in built
      PROVE  /\ document[s] \in Document /\ document[s].id \in Nat /\ document[s].id >= 1
             /\ document[s].active
             /\ doc[s][target].id <= document[s].id
             /\ ~doc[s][target].chunked
             /\ rebuild => document[s] = PlannedDocument
  <2>1. s \in Sources /\ doc[s][target] \in Document /\ doc[s][target].id \in Nat
    BY <1>1, <1>2, <1>3, DocType
  <2>2. CASE doc[s][target].active
    <3>1. ~doc[s][target].chunked
      BY <1>3, <2>2 DEF HasChunk
    <3>2. document[s] = doc[s][target]
      BY <1>4, <2>2
    <3>3. doc[s][target].id >= 1
      BY <1>1, <1>2, <2>1, <2>2 DEF DocsOK
    <3>4. ~rebuild
      <4>1. SUFFICES ASSUME rebuild PROVE FALSE
        OBVIOUS
      <4>2. target > generation
        BY <1>2, <1>5, <4>1, GenerationsAre
      <4>3. doc[s][target] = NoDocument \/ doc[s][target] = RebuiltDocument
        BY <1>1, <1>2, <2>1, <4>2 DEF DocsOK
      <4>4. QED
        BY <2>2, <3>1, <4>3 DEF NoDocument, RebuiltDocument, PlannedDocument
    <3>5. QED
      BY <2>1, <2>2, <3>1, <3>2, <3>3, <3>4
  <2>3. CASE ~doc[s][target].active
    <3>1. document[s] = PlannedDocument
      BY <1>4, <2>3
    <3>2. rebuild
      BY <1>1, <1>3, <2>3 DEF Resolved
    <3>3. target > generation
      BY <1>2, <1>5, <3>2, GenerationsAre
    <3>4. doc[s][target] = NoDocument
      BY <1>1, <1>2, <2>1, <2>3, <3>3 DEF DocsOK, RebuiltDocument, PlannedDocument
    <3>5. PlannedDocument \in Document /\ PlannedDocument.id = 1 /\ PlannedDocument.active
      BY BoundsAssumption DEF PlannedDocument, Document
    <3>6. QED
      BY <3>1, <3>4, <3>5 DEF NoDocument
  <2>4. QED
    BY <2>2, <2>3
<1>7. ASSUME NEW s \in built
      PROVE  /\ New(s) \in Document
             /\ New(s).id = document[s].id /\ New(s).active /\ New(s).chunked
             /\ rebuild => New(s) = RebuiltDocument
  <2>1. document[s] \in Document /\ document[s].active
    BY <1>6
  <2>2. /\ New(s) \in Document
        /\ New(s).id = document[s].id /\ New(s).active /\ New(s).chunked
    BY <2>1 DEF Document
  <2>3. rebuild => New(s) = RebuiltDocument
    BY <1>6 DEF RebuiltDocument
  <2>4. QED
    BY <2>2, <2>3
<1> HIDE DEF New
<1>8. ASSUME NEW t \in Sources
      PROVE  /\ doc'[t] \in [Generations -> Document]
             /\ t \in built => doc'[t][target] = New(t)
             /\ \A g \in Generations : t \notin built \/ g # target => doc'[t][g] = doc[t][g]
  <2>1. doc'[t] = IF t \in built THEN [doc[t] EXCEPT ![target] = New(t)] ELSE doc[t]
    BY <1>1
  <2>2. doc[t] \in [Generations -> Document]
    BY <1>2
  <2>3. CASE t \in built
    <3>1. doc'[t] = [doc[t] EXCEPT ![target] = New(t)]
      BY <2>1, <2>3
    <3>2. QED
      BY <1>1, <1>7, <2>2, <2>3, <3>1
  <2>4. CASE t \notin built
    BY <2>1, <2>2, <2>4
  <2>5. QED
    BY <2>3, <2>4
<1>9. doc' \in [Sources -> [Generations -> Document]]
  BY <1>1, <1>8
<1>10. ASSUME NEW t \in Sources, NEW g \in Generations
       PROVE  /\ doc[t][g].id <= doc'[t][g].id
              /\ doc'[t][g].id = doc[t][g].id /\ doc[t][g].chunked =>
                   doc'[t][g].chunked /\ (doc'[t][g].active => doc[t][g].active)
  <2>1. CASE t \in built /\ g = target
    <3>1. doc'[t][g].id = document[t].id /\ doc'[t][g].chunked
      BY <1>7, <1>8, <2>1
    <3>2. doc[t][g].id <= document[t].id /\ ~doc[t][g].chunked
      BY <1>6, <2>1
    <3>3. QED
      BY <3>1, <3>2
  <2>2. CASE t \notin built \/ g # target
    BY <1>2, <1>8, <2>2, DocType
  <2>3. QED
    BY <2>1, <2>2
<1>11. Ages(doc, doc')
  BY <1>2, <1>9, <1>10, AgesPointwise
<1>12. QED
  BY <1>3, <1>6, <1>7, <1>8, <1>9, <1>11 DEF target, built, document

\* The rows are extended by what the built sources said.
LEMMA ProcessRows ==
    ASSUME IInv, NEW ids, NEW rebuild \in BOOLEAN, NEW failed, ProcessSources(ids, rebuild, failed)
    PROVE  Extends(rows, rows', Target(rebuild), Built(ids, rebuild, failed),
                   BuiltChunk(ids, rebuild, failed))
<1> DEFINE target == Target(rebuild)
           built == Built(ids, rebuild, failed)
           document == BuiltFrom(ids, rebuild, failed)
<1>1. /\ target \in Generations
      /\ rows' = PersistBatch(built, target, document)
  BY ProcessIs
<1>2. built \in SUBSET Sources
  BY WorkIs DEF Built
<1>3. \A s \in built : /\ document[s].id \in Nat
                       /\ doc[s][target].id <= document[s].id /\ ~doc[s][target].chunked
  BY ProcessDocs
<1>4. RowsOK(rows) /\ DOMAIN rows = {"ents", "rels", "mentions", "evidence", "out"} /\ TypeOK /\ BornOnly
  BY DEF IInv, TypeOK
<1>5. BuiltChunk(ids, rebuild, failed) = [s \in built |-> <<s, target, document[s].id>>]
  BY DEF BuiltChunk
<1> HIDE DEF target, built, document
<1>6. \A s \in built : <<s, target, document[s].id>> \in ChunkIds
  BY <1>1, <1>2, <1>3 DEF ChunkIds
<1>7. ASSUME NEW s \in built, NEW m \in rows.mentions, m.chunk = <<s, target, document[s].id>>
      PROVE  FALSE
  <2>1. Born(doc, m.chunk)
    BY <1>4 DEF BornOnly
  <2>2. m.chunk[1] = s /\ m.chunk[2] = target /\ m.chunk[3] = document[s].id
    BY <1>7
  <2>3. document[s].id < doc[s][target].id \/ doc[s][target].chunked
    BY <2>1, <2>2 DEF Born
  <2>4. doc[s][target].id \in Nat
    BY <1>1, <1>2, <1>4, DocType
  <2>5. QED
    BY <1>3, <2>3, <2>4
<1>8. Extends(rows, PersistBatch(built, target, document), target, built,
              [s \in built |-> <<s, target, document[s].id>>])
  BY <1>1, <1>2, <1>4, <1>6, <1>7, BatchExtends
<1>9. Extends(rows, rows', target, built, BuiltChunk(ids, rebuild, failed))
  BY <1>1, <1>5, <1>8
<1>10. QED
  BY <1>9 DEF target, built

\* A chunk that is built is new, and in force afterwards.
LEMMA BuiltChunks ==
    ASSUME IInv, NEW ids, NEW rebuild \in BOOLEAN, NEW failed, ProcessSources(ids, rebuild, failed),
           NEW s \in Built(ids, rebuild, failed), NEW target, target = Target(rebuild)
    PROVE  LET c == BuiltChunk(ids, rebuild, failed)[s]
           IN  /\ c \in ChunkIds /\ c[1] = s /\ c[2] = target
               /\ Born(doc', c) /\ Live(doc', c) /\ ~Born(doc, c)
               /\ HasChunk(s, target)' /\ Chunk(s, target)' = c
<1> DEFINE document == BuiltFrom(ids, rebuild, failed)
           c == BuiltChunk(ids, rebuild, failed)[s]
<1>1. c = <<s, target, document[s].id>>
  BY DEF BuiltChunk
<1>2. target \in Generations
  BY ProcessIs
<1>3. s \in Sources
  BY WorkIs DEF Built
<1>4. /\ document[s].id \in Nat /\ document[s].id >= 1
      /\ doc[s][target].id <= document[s].id /\ ~doc[s][target].chunked
      /\ doc'[s][target].id = document[s].id
      /\ doc'[s][target].active /\ doc'[s][target].chunked
  BY ProcessDocs
<1>5. doc[s][target].id \in Nat
  BY <1>2, <1>3, DocType DEF IInv
<1> HIDE DEF document, c
<1>6. c \in ChunkIds /\ c[1] = s /\ c[2] = target /\ c[3] = document[s].id
  BY <1>1, <1>2, <1>3, <1>4 DEF ChunkIds
<1>8. Born(doc', c) /\ Live(doc', c)
  BY <1>4, <1>6 DEF Born, Live
<1>9. ~Born(doc, c)
  BY <1>4, <1>5, <1>6 DEF Born
<1>10. HasChunk(s, target)' /\ Chunk(s, target)' = c
  BY <1>1, <1>4 DEF HasChunk, Chunk
<1>11. QED
  BY <1>6, <1>8, <1>9, <1>10 DEF c

-----------------------------------------------------------------------------
(* EntityMerge: the plan *)

Chosen(plan) ==
    /\ DOMAIN plan \subseteq VisibleEntities
    /\ \A d \in DOMAIN plan : plan[d] \in VisibleEntities \ DOMAIN plan

\* A survivor stands for itself, and every visible entity has a visible one.
LEMMA ToIs ==
    ASSUME NEW plan, Chosen(plan), NEW e
    PROVE  /\ To(plan, e) \notin DOMAIN plan
           /\ To(plan, e) = e <=> e \notin DOMAIN plan
           /\ e \in VisibleEntities => To(plan, e) \in VisibleEntities
BY DEF Chosen, To

\* Active relations of one identity are equal as rows.
LEMMA SameRelation ==
    ASSUME NEW p \in RelationRow, NEW q \in RelationRow,
           SameIdentity(p, q), p.active, q.active
    PROVE  p = q
<1>1. PICK a \in Nat, b \in Nat, g \in Generations, x \in BOOLEAN :
        p = [src |-> a, dst |-> b, gen |-> g, active |-> x]
  BY DEF RelationRow
<1>2. PICK c \in Nat, d \in Nat, h \in Generations, y \in BOOLEAN :
        q = [src |-> c, dst |-> d, gen |-> h, active |-> y]
  BY DEF RelationRow
<1>3. a = c /\ b = d /\ g = h
  BY <1>1, <1>2 DEF SameIdentity
<1>4. x = p.active /\ y = q.active
  BY <1>1, <1>2
<1>5. x = y
  BY <1>4
<1>6. QED
  BY <1>1, <1>2, <1>3, <1>5

\* A visible relation is an active row of this generation between visible entities.
LEMMA VisibleIs ==
    ASSUME RowsOK(rows), NEW r \in VisibleRelations
    PROVE  /\ r \in DOMAIN rows.rels /\ r \in Nat /\ rows.rels[r] \in RelationRow
           /\ rows.rels[r].active /\ rows.rels[r].gen = generation
           /\ rows.rels[r].src \in VisibleEntities /\ rows.rels[r].dst \in VisibleEntities
<1>1. r \in DOMAIN rows.rels /\ rows.rels \in Seq(RelationRow)
  BY DEF VisibleRelations, RowsOK, RowsType
<1>2. r \in Nat /\ rows.rels[r] \in RelationRow
  BY <1>1
<1>3. rows.rels[r].src \in DOMAIN rows.ents /\ rows.rels[r].dst \in DOMAIN rows.ents
  BY <1>1 DEF RowsOK, References
<1>4. QED
  BY <1>1, <1>2, <1>3 DEF VisibleRelations, VisibleEntities

\* Tables are indexed by naturals.
LEMMA EntsInNat ==
    ASSUME RowsOK(rows)
    PROVE  DOMAIN rows.ents \subseteq Nat /\ DOMAIN rows.rels \subseteq Nat
<1>1. rows.ents \in Seq(EntityRow) /\ rows.rels \in Seq(RelationRow)
  BY DEF RowsOK, RowsType
<1>2. DOMAIN rows.ents = 1..Len(rows.ents) /\ DOMAIN rows.rels = 1..Len(rows.rels)
  BY <1>1
<1>3. QED
  BY <1>2

\* A rewired relation connects survivors, and differs where an end was absorbed.
LEMMA RewiredIs ==
    ASSUME RowsOK(rows), NEW plan, Chosen(plan), NEW r \in VisibleRelations
    PROVE  /\ Rewired(plan, r) \in RelationRow /\ Rewired(plan, r).active
           /\ Rewired(plan, r).gen = generation
           /\ Rewired(plan, r).src = To(plan, rows.rels[r].src)
           /\ Rewired(plan, r).dst = To(plan, rows.rels[r].dst)
           /\ Rewired(plan, r).src \in VisibleEntities \ DOMAIN plan
           /\ Rewired(plan, r).dst \in VisibleEntities \ DOMAIN plan
           /\ Rewired(plan, r) = rows.rels[r] <=>
                 rows.rels[r].src \notin DOMAIN plan /\ rows.rels[r].dst \notin DOMAIN plan
<1> DEFINE row == rows.rels[r]
           a == To(plan, row.src)
           b == To(plan, row.dst)
           new == Rewired(plan, r)
<1>1. /\ row \in RelationRow /\ row.active /\ row.gen = generation
      /\ row.src \in VisibleEntities /\ row.dst \in VisibleEntities
  BY VisibleIs
<1>2. a \in VisibleEntities \ DOMAIN plan /\ b \in VisibleEntities \ DOMAIN plan
  BY <1>1, ToIs
<1>3. a \in Nat /\ b \in Nat
  BY <1>2, EntsInNat DEF VisibleEntities
<1>4. new = [row EXCEPT !.src = a, !.dst = b]
  BY DEF Rewired
<1>5. (a = row.src <=> row.src \notin DOMAIN plan) /\ (b = row.dst <=> row.dst \notin DOMAIN plan)
  BY ToIs
<1> HIDE DEF a, b, row, new
<1>6. /\ new \in RelationRow /\ new.active /\ new.gen = row.gen
      /\ new.src = a /\ new.dst = b
  BY <1>1, <1>3, <1>4 DEF RelationRow
<1>7. new = row <=> a = row.src /\ b = row.dst
  <2>1. new = row => a = row.src /\ b = row.dst
    BY <1>6
  <2>2. a = row.src /\ b = row.dst => new = row
    BY <1>1, <1>6, SameRelation DEF SameIdentity
  <2>3. QED
    BY <2>1, <2>2
<1>8. QED
  BY <1>1, <1>2, <1>5, <1>6, <1>7 DEF a, b, row, new

\* One relation of each group survives, an unchanged one if there is any.
LEMMA SurvivorIs ==
    ASSUME RowsOK(rows), NEW plan, NEW r \in VisibleRelations
    PROVE  /\ Survivor(plan, r) \in VisibleRelations
           /\ Rewired(plan, Survivor(plan, r)) = Rewired(plan, r)
           /\ \A q \in VisibleRelations :
                 Rewired(plan, q) = Rewired(plan, r) =>
                    /\ Survivor(plan, q) = Survivor(plan, r)
                    /\ Rewired(plan, q) = rows.rels[q] =>
                          Rewired(plan, Survivor(plan, r)) = rows.rels[Survivor(plan, r)]
<1> DEFINE group == Group(plan, r)
           same == {q \in group : Rewired(plan, q) = rows.rels[q]}
           kept == IF same = {} THEN group ELSE same
           best == CHOOSE q \in kept : \A p \in kept : q <= p
<1>1. Survivor(plan, r) = best
  BY DEF Survivor
<1>2. group = {q \in VisibleRelations : Rewired(plan, q) = Rewired(plan, r)}
  BY DEF Group
<1>3. kept \subseteq group /\ kept # {}
  BY <1>2
<1>4. group \subseteq Nat
  BY <1>2, EntsInNat DEF VisibleRelations
<1> HIDE DEF group
<1>5. \E q \in kept : \A p \in kept : q <= p
  <2> HIDE DEF kept
  <2>1. kept \subseteq Nat
    BY <1>3, <1>4
  <2>2. QED
    BY <1>3, <2>1, LeastNatural
<1>6. best \in kept
  <2> HIDE DEF kept
  <2>1. QED
    BY <1>5
<1> HIDE DEF best
<1>7. best \in group /\ (same # {} => best \in same)
  BY <1>3, <1>6
<1>8. ASSUME NEW q \in VisibleRelations, Rewired(plan, q) = Rewired(plan, r)
      PROVE  /\ Survivor(plan, q) = Survivor(plan, r)
             /\ Rewired(plan, q) = rows.rels[q] => Rewired(plan, best) = rows.rels[best]
  <2>1. Group(plan, q) = Group(plan, r)
    BY <1>8 DEF Group
  <2>2. Survivor(plan, q) = Survivor(plan, r)
    BY <2>1 DEF Survivor
  <2>3. ASSUME Rewired(plan, q) = rows.rels[q] PROVE Rewired(plan, best) = rows.rels[best]
    <3>1. q \in same
      BY <1>2, <1>8, <2>3
    <3>2. best \in same
      BY <1>7, <3>1
    <3>3. QED
      BY <3>2
  <2>4. QED
    BY <2>2, <2>3
<1>9. best \in VisibleRelations /\ Rewired(plan, best) = Rewired(plan, r)
  BY <1>2, <1>7
<1>10. QED
  BY <1>1, <1>8, <1>9

Changed(plan) == {r \in VisibleRelations : Rewired(plan, r) # rows.rels[r]}
Loops(plan) == {r \in Changed(plan) : Rewired(plan, r).src = Rewired(plan, r).dst}
Merging(plan) == UNION {Group(plan, r) : r \in Changed(plan) \ Loops(plan)}
Survivors(plan) == {Survivor(plan, r) : r \in Merging(plan)}
Losers(plan) == Merging(plan) \ Survivors(plan)
Rewiring(plan) ==
    [r \in DOMAIN rows.rels |-> IF r \in Survivors(plan) THEN Rewired(plan, r) ELSE rows.rels[r]]
Moved(plan) == {[m EXCEPT !.entity = plan[m.entity]] : m \in Moving(plan)}

\* The conjuncts of EntityMerge, under names.
LEMMA EntityMergeIs ==
    ASSUME EntityMerge
    PROVE  LET plan == MergePlan
           IN  /\ dataset = "active"
               /\ rows' = [ents |-> Deactivated(rows.ents, DOMAIN plan),
                           rels |-> Deactivated(Rewiring(plan), Loops(plan) \cup Losers(plan)),
                           mentions |-> (rows.mentions \ Moving(plan)) \cup Moved(plan),
                           evidence |-> rows.evidence \cup CopiedEvidence(plan, Losers(plan)),
                           out |-> rows.out \cup Deletes({EntityNode(e) : e \in DOMAIN plan})
                             \cup Upserts({MentionEdge(m) : m \in Moved(plan)}
                                   \cup {RelationEdge(r, Rewiring(plan)[r]) : r \in Survivors(plan)})]
               /\ tangled' = Tangles
               /\ UNCHANGED <<generation, dataset, source, doc, summary, activation, graph>>
BY DEF EntityMerge, Changed, Loops, Merging, Survivors, Losers, Rewiring, Moved

\* Whoever merges is rewired to the same relation as its survivor.
LEMMA MergingIs ==
    ASSUME RowsOK(rows), NEW plan, Chosen(plan)
    PROVE  /\ \A r \in Merging(plan) :
                 /\ r \in VisibleRelations /\ Survivor(plan, r) \in Survivors(plan)
                 /\ Rewired(plan, r).src # Rewired(plan, r).dst
                 /\ \A q \in VisibleRelations :
                       Rewired(plan, q) = Rewired(plan, r) => q \in Merging(plan)
           /\ Changed(plan) \ Loops(plan) \subseteq Merging(plan)
           /\ \A r \in Survivors(plan) : r \in Merging(plan) /\ Survivor(plan, r) = r
           /\ \A r \in Losers(plan) : r \in Changed(plan)
           /\ Loops(plan) \cap Merging(plan) = {}
<1>1. ASSUME NEW r \in Merging(plan)
      PROVE  /\ r \in VisibleRelations
             /\ Rewired(plan, r).src # Rewired(plan, r).dst
             /\ \A q \in VisibleRelations :
                   Rewired(plan, q) = Rewired(plan, r) => q \in Merging(plan)
  <2>1. PICK p \in Changed(plan) \ Loops(plan) : r \in Group(plan, p)
    BY DEF Merging
  <2>2. r \in VisibleRelations /\ Rewired(plan, r) = Rewired(plan, p)
    BY <2>1 DEF Group
  <2>3. \A q \in VisibleRelations : Rewired(plan, q) = Rewired(plan, r) => q \in Group(plan, p)
    BY <2>2 DEF Group
  <2>4. Group(plan, p) \subseteq Merging(plan)
    BY DEF Merging
  <2>5. Rewired(plan, p).src # Rewired(plan, p).dst
    BY DEF Loops
  <2>6. QED
    BY <2>2, <2>3, <2>4, <2>5
<1>2. ASSUME NEW r \in Changed(plan) \ Loops(plan) PROVE r \in Merging(plan)
  <2>1. r \in Group(plan, r)
    BY DEF Group, Changed
  <2>2. QED
    BY <2>1 DEF Merging
<1>3. ASSUME NEW r \in Survivors(plan) PROVE r \in Merging(plan) /\ Survivor(plan, r) = r
  <2>1. PICK q \in Merging(plan) : r = Survivor(plan, q)
    BY DEF Survivors
  <2>2. q \in VisibleRelations
    BY <1>1
  <2>3. r \in VisibleRelations /\ Rewired(plan, r) = Rewired(plan, q)
    BY <2>1, <2>2, SurvivorIs
  <2>4. r \in Merging(plan)
    BY <1>1, <2>3
  <2>5. Survivor(plan, r) = Survivor(plan, q)
    BY <2>2, <2>3, SurvivorIs
  <2>6. QED
    BY <2>1, <2>4, <2>5
<1>4. ASSUME NEW r \in Losers(plan) PROVE r \in Changed(plan)
  <2>1. r \in Merging(plan) /\ r \notin Survivors(plan)
    BY DEF Losers
  <2>2. r \in VisibleRelations
    BY <1>1, <2>1
  <2>3. SUFFICES ASSUME Rewired(plan, r) = rows.rels[r] PROVE FALSE
    BY <2>2 DEF Changed
  <2> DEFINE q == Survivor(plan, r)
  <2>4. /\ q \in VisibleRelations /\ Rewired(plan, q) = Rewired(plan, r)
        /\ Rewired(plan, q) = rows.rels[q]
    BY <2>2, <2>3, SurvivorIs
  <2>5. q \in Survivors(plan)
    BY <2>1 DEF Survivors
  <2> HIDE DEF q
  <2>6. rows.rels[q] = rows.rels[r]
    BY <2>3, <2>4
  <2>7. /\ q \in DOMAIN rows.rels /\ r \in DOMAIN rows.rels
        /\ rows.rels[q].active /\ rows.rels[r].active
    BY <2>2, <2>4, VisibleIs
  <2>8. SameIdentity(rows.rels[q], rows.rels[r])
    BY <2>6 DEF SameIdentity
  <2>9. q = r
    BY <2>7, <2>8 DEF RowsOK, IdentityOnce
  <2>10. QED
    BY <2>1, <2>5, <2>9
<1>5. \A r \in Merging(plan) : Survivor(plan, r) \in Survivors(plan)
  BY DEF Survivors
<1>6. Loops(plan) \cap Merging(plan) = {}
  BY <1>1 DEF Loops
<1>7. QED
  BY <1>1, <1>2, <1>3, <1>4, <1>5, <1>6

-----------------------------------------------------------------------------
(* EntityMerge: the rows *)

\* The rows k become the rows l by merging the entities of plan.
Merges(k, l, plan) ==
    /\ DOMAIN l = RowFields
    /\ l.ents \in Seq(EntityRow) /\ DOMAIN l.ents = DOMAIN k.ents
    /\ \A e \in DOMAIN k.ents :
          /\ l.ents[e].key = k.ents[e].key /\ l.ents[e].gen = k.ents[e].gen
          /\ l.ents[e].active <=> k.ents[e].active /\ e \notin DOMAIN plan
    /\ l.rels \in Seq(RelationRow) /\ DOMAIN l.rels = DOMAIN k.rels
    /\ \A r \in DOMAIN k.rels :
          /\ r \in Survivors(plan) => l.rels[r] = Rewired(plan, r)
          /\ r \in Loops(plan) \cup Losers(plan) => ~l.rels[r].active
          /\ r \notin Survivors(plan) => SameIdentity(l.rels[r], k.rels[r])
          /\ r \notin Survivors(plan) \cup Loops(plan) \cup Losers(plan) => l.rels[r] = k.rels[r]
          /\ l.rels[r].gen = k.rels[r].gen
    /\ l.mentions \subseteq MentionRow /\ Moved(plan) \subseteq l.mentions
    /\ \A m \in k.mentions :
          \E n \in l.mentions : n.of = m.of /\ n.chunk = m.chunk /\ n.entity = To(plan, m.entity)
    /\ \A m \in k.mentions : m.entity \notin DOMAIN plan => m \in l.mentions
    /\ \A n \in l.mentions :
          \/ n \in k.mentions /\ n.entity \notin DOMAIN plan
          \/ /\ n \in Moved(plan)
             /\ \E m \in k.mentions :
                   /\ m.entity \in DOMAIN plan
                   /\ n.of = m.of /\ n.chunk = m.chunk /\ n.entity = To(plan, m.entity)
    /\ k.evidence \subseteq l.evidence
    /\ \A r \in Losers(plan), c \in ChunkIds :
          <<r, c>> \in k.evidence => <<Survivor(plan, r), c>> \in l.evidence
    /\ \A p \in l.evidence \ k.evidence :
          \E r \in Losers(plan) : <<r, p[2]>> \in k.evidence /\ p[1] = Survivor(plan, r)
    /\ l.evidence \subseteq Nat \X ChunkIds

\* Each mention of an absorbed entity moves to the survivor, under its first name.
LEMMA MovedIs ==
    ASSUME RowsOK(rows), NEW plan, Chosen(plan)
    PROVE  /\ \A m \in rows.mentions : m.entity \in DOMAIN plan =>
                 \E n \in Moved(plan) : n.of = m.of /\ n.chunk = m.chunk
                                        /\ n.entity = To(plan, m.entity)
           /\ \A n \in Moved(plan) :
                 /\ n \in MentionRow
                 /\ \E m \in rows.mentions :
                       /\ m.entity \in DOMAIN plan
                       /\ n.of = m.of /\ n.chunk = m.chunk /\ n.entity = To(plan, m.entity)
<1>1. ASSUME NEW m \in rows.mentions, m.entity \in DOMAIN plan
      PROVE  LET n == [m EXCEPT !.entity = plan[m.entity]]
             IN  /\ n \in Moved(plan) /\ n \in MentionRow
                 /\ n.of = m.of /\ n.chunk = m.chunk /\ n.entity = To(plan, m.entity)
  <2> DEFINE n == [m EXCEPT !.entity = plan[m.entity]]
  <2>1. m \in MentionRow
    BY DEF RowsOK, RowsType
  <2>2. plan[m.entity] \in DOMAIN rows.ents
    BY <1>1 DEF Chosen, VisibleEntities
  <2>3. plan[m.entity] \in Nat
    BY <2>2, EntsInNat
  <2>4. m \in Moving(plan)
    BY <1>1 DEF Moving
  <2>5. n \in Moved(plan)
    BY <2>4 DEF Moved
  <2>6. n \in MentionRow /\ n.of = m.of /\ n.chunk = m.chunk /\ n.entity = plan[m.entity]
    BY <2>1, <2>3 DEF MentionRow
  <2>7. QED
    BY <1>1, <2>5, <2>6 DEF To
<1>2. ASSUME NEW n \in Moved(plan)
      PROVE  \E m \in rows.mentions :
                m.entity \in DOMAIN plan /\ n = [m EXCEPT !.entity = plan[m.entity]]
  BY DEF Moved, Moving
<1>3. ASSUME NEW n \in Moved(plan)
      PROVE  /\ n \in MentionRow
             /\ \E m \in rows.mentions :
                   /\ m.entity \in DOMAIN plan
                   /\ n.of = m.of /\ n.chunk = m.chunk /\ n.entity = To(plan, m.entity)
  <2>1. PICK m \in rows.mentions :
          m.entity \in DOMAIN plan /\ n = [m EXCEPT !.entity = plan[m.entity]]
    BY <1>2
  <2>2. n \in MentionRow /\ n.of = m.of /\ n.chunk = m.chunk /\ n.entity = To(plan, m.entity)
    BY <1>1, <2>1
  <2>3. QED
    BY <2>1, <2>2
<1>4. \A m \in rows.mentions : m.entity \in DOMAIN plan =>
         \E n \in Moved(plan) : n.of = m.of /\ n.chunk = m.chunk /\ n.entity = To(plan, m.entity)
  BY <1>1
<1>5. QED
  BY <1>3, <1>4

\* Only survivors are rewired.
LEMMA RewiringIs ==
    ASSUME RowsOK(rows), NEW plan, Chosen(plan)
    PROVE  /\ Rewiring(plan) \in Seq(RelationRow) /\ DOMAIN Rewiring(plan) = DOMAIN rows.rels
           /\ \A r \in DOMAIN rows.rels :
                 /\ r \in Survivors(plan) => Rewiring(plan)[r] = Rewired(plan, r)
                 /\ r \notin Survivors(plan) => Rewiring(plan)[r] = rows.rels[r]
                 /\ Rewiring(plan)[r].gen = rows.rels[r].gen
<1>1. /\ rows.rels \in Seq(RelationRow) /\ Len(rows.rels) \in Nat
      /\ DOMAIN rows.rels = 1..Len(rows.rels)
  BY DEF RowsOK, RowsType
<1>2. ASSUME NEW r \in DOMAIN rows.rels
      PROVE  /\ r \in Survivors(plan) => Rewiring(plan)[r] = Rewired(plan, r)
             /\ r \notin Survivors(plan) => Rewiring(plan)[r] = rows.rels[r]
             /\ Rewiring(plan)[r] \in RelationRow
             /\ Rewiring(plan)[r].gen = rows.rels[r].gen
  <2>1. CASE r \in Survivors(plan)
    <3>1. r \in VisibleRelations
      BY <2>1, MergingIs
    <3>2. /\ Rewired(plan, r) \in RelationRow /\ Rewired(plan, r).gen = generation
          /\ rows.rels[r].gen = generation
      BY <3>1, RewiredIs, VisibleIs
    <3>3. Rewiring(plan)[r] = Rewired(plan, r)
      BY <2>1 DEF Rewiring
    <3>4. QED
      BY <2>1, <3>2, <3>3
  <2>2. CASE r \notin Survivors(plan)
    BY <1>1, <2>2 DEF Rewiring
  <2>3. QED
    BY <2>1, <2>2
<1>3. DOMAIN Rewiring(plan) = 1..Len(rows.rels)
  BY <1>1 DEF Rewiring
<1>4. Rewiring(plan) \in [1..Len(rows.rels) -> RelationRow]
  <2>1. Rewiring(plan) = [r \in 1..Len(rows.rels) |-> Rewiring(plan)[r]]
    BY <1>1 DEF Rewiring
  <2>2. \A r \in 1..Len(rows.rels) : Rewiring(plan)[r] \in RelationRow
    BY <1>1, <1>2
  <2> DEFINE new == Rewiring(plan)
  <2>3. new = [r \in 1..Len(rows.rels) |-> new[r]] /\ \A r \in 1..Len(rows.rels) : new[r] \in RelationRow
    BY <2>1, <2>2
  <2> HIDE DEF new
  <2>4. new \in [1..Len(rows.rels) -> RelationRow]
    BY <2>3
  <2>5. QED
    BY <2>4 DEF new
<1>5. Rewiring(plan) \in Seq(RelationRow)
  BY <1>1, <1>4
<1>6. QED
  BY <1>1, <1>2, <1>3, <1>5

\* The evidence of a loser is copied to its survivor.
LEMMA CopiedIs ==
    ASSUME RowsOK(rows), NEW plan, Chosen(plan)
    PROVE  LET copied == CopiedEvidence(plan, Losers(plan))
           IN  /\ copied \subseteq Nat \X ChunkIds
               /\ \A r \in Losers(plan), c \in ChunkIds :
                     <<r, c>> \in rows.evidence => <<Survivor(plan, r), c>> \in copied
               /\ \A p \in copied :
                     \E r \in Losers(plan) : <<r, p[2]>> \in rows.evidence
                                             /\ p[1] = Survivor(plan, r)
<1> DEFINE copied == CopiedEvidence(plan, Losers(plan))
<1>1. copied = {<<Survivor(plan, p[1]), p[2]>> :
                   p \in {q \in rows.evidence : q[1] \in Losers(plan)}}
  BY DEF CopiedEvidence
<1>2. \A p \in rows.evidence : p[1] \in Nat /\ p[2] \in ChunkIds /\ p = <<p[1], p[2]>>
  BY DEF RowsOK, RowsType
<1>3. \A r \in Losers(plan) : r \in VisibleRelations /\ Survivor(plan, r) \in Nat
  <2>1. ASSUME NEW r \in Losers(plan) PROVE r \in VisibleRelations
    BY MergingIs DEF Changed
  <2>2. QED
    BY <2>1, SurvivorIs, VisibleIs
<1>4. ASSUME NEW r \in Losers(plan), NEW c \in ChunkIds, <<r, c>> \in rows.evidence
      PROVE  <<Survivor(plan, r), c>> \in copied
  <2>1. PICK p \in {q \in rows.evidence : q[1] \in Losers(plan)} : p[1] = r /\ p[2] = c
    BY <1>4
  <2>2. QED
    BY <1>1, <2>1
<1>5. ASSUME NEW p \in copied
      PROVE  /\ p \in Nat \X ChunkIds
             /\ \E r \in Losers(plan) : <<r, p[2]>> \in rows.evidence /\ p[1] = Survivor(plan, r)
  <2>1. PICK q \in rows.evidence : q[1] \in Losers(plan) /\ p = <<Survivor(plan, q[1]), q[2]>>
    BY <1>1
  <2>2. QED
    BY <1>2, <1>3, <2>1
<1>6. QED
  BY <1>4, <1>5

\* EntityMerge does to the rows what Merges says.
LEMMA MergeRows ==
    ASSUME RowsOK(rows), NEW plan, plan = MergePlan, EntityMerge
    PROVE  /\ Chosen(plan) /\ Merges(rows, rows', plan)
           /\ rows'.out = rows.out \cup Deletes({EntityNode(e) : e \in DOMAIN plan})
                             \cup Upserts({MentionEdge(m) : m \in Moved(plan)}
                                   \cup {RelationEdge(r, Rewired(plan, r)) : r \in Survivors(plan)})
<1>1. rows.ents \in Seq(EntityRow) /\ rows.rels \in Seq(RelationRow)
      /\ rows.mentions \subseteq MentionRow /\ rows.evidence \subseteq Nat \X ChunkIds
  BY DEF RowsOK, RowsType
<1>2. Chosen(plan)
  BY <1>1, MergePlanned DEF Chosen
<1> DEFINE merged == Deactivated(rows.ents, DOMAIN plan)
           less == Deactivated(Rewiring(plan), Loops(plan) \cup Losers(plan))
           mentions == (rows.mentions \ Moving(plan)) \cup Moved(plan)
           evidence == rows.evidence \cup CopiedEvidence(plan, Losers(plan))
           edges == {RelationEdge(r, Rewiring(plan)[r]) : r \in Survivors(plan)}
           commands == rows.out \cup Deletes({EntityNode(e) : e \in DOMAIN plan})
                         \cup Upserts({MentionEdge(m) : m \in Moved(plan)} \cup edges)
<1>3. rows' = [ents |-> merged, rels |-> less, mentions |-> mentions,
               evidence |-> evidence, out |-> commands]
  BY EntityMergeIs
<1>4. edges = {RelationEdge(r, Rewired(plan, r)) : r \in Survivors(plan)}
  <2>1. \A r \in Survivors(plan) : r \in DOMAIN rows.rels
    BY <1>2, MergingIs, VisibleIs
  <2>2. \A r \in Survivors(plan) : Rewiring(plan)[r] = Rewired(plan, r)
    BY <1>2, <2>1, RewiringIs
  <2>3. QED
    BY <2>2
<1>5. /\ merged \in Seq(EntityRow) /\ DOMAIN merged = DOMAIN rows.ents
      /\ \A e \in DOMAIN rows.ents :
            /\ merged[e].key = rows.ents[e].key /\ merged[e].gen = rows.ents[e].gen
            /\ merged[e].active <=> rows.ents[e].active /\ e \notin DOMAIN plan
  BY <1>1, EntsDeactivated
<1>6. /\ less \in Seq(RelationRow) /\ DOMAIN less = DOMAIN rows.rels
      /\ \A r \in DOMAIN rows.rels :
            /\ SameIdentity(less[r], Rewiring(plan)[r])
            /\ less[r].active <=> Rewiring(plan)[r].active /\ r \notin Loops(plan) \cup Losers(plan)
            /\ r \notin Loops(plan) \cup Losers(plan) => less[r] = Rewiring(plan)[r]
  BY <1>2, RewiringIs, RelsDeactivated
<1>7. \A r \in Survivors(plan) : r \notin Loops(plan) \cup Losers(plan)
  BY <1>2, MergingIs DEF Losers
<1>8. ASSUME NEW r \in DOMAIN rows.rels
      PROVE  /\ r \in Survivors(plan) => less[r] = Rewired(plan, r)
             /\ r \in Loops(plan) \cup Losers(plan) => ~less[r].active
             /\ r \notin Survivors(plan) => SameIdentity(less[r], rows.rels[r])
             /\ r \notin Survivors(plan) \cup Loops(plan) \cup Losers(plan) => less[r] = rows.rels[r]
             /\ less[r].gen = rows.rels[r].gen
  <2> HIDE DEF less
  <2>1. /\ r \in Survivors(plan) => Rewiring(plan)[r] = Rewired(plan, r)
        /\ r \notin Survivors(plan) => Rewiring(plan)[r] = rows.rels[r]
        /\ Rewiring(plan)[r].gen = rows.rels[r].gen
    BY <1>2, RewiringIs
  <2>2. /\ SameIdentity(less[r], Rewiring(plan)[r])
        /\ less[r].active <=> Rewiring(plan)[r].active /\ r \notin Loops(plan) \cup Losers(plan)
        /\ r \notin Loops(plan) \cup Losers(plan) => less[r] = Rewiring(plan)[r]
    BY <1>6
  <2>3. less[r].gen = Rewiring(plan)[r].gen
    BY <2>2 DEF SameIdentity
  <2>4. QED
    BY <1>7, <2>1, <2>2, <2>3
<1>9. /\ mentions \subseteq MentionRow /\ Moved(plan) \subseteq mentions
      /\ \A m \in rows.mentions : m.entity \notin DOMAIN plan => m \in mentions
      /\ \A m \in rows.mentions :
            \E n \in mentions : n.of = m.of /\ n.chunk = m.chunk /\ n.entity = To(plan, m.entity)
      /\ \A n \in mentions :
            \/ n \in rows.mentions /\ n.entity \notin DOMAIN plan
            \/ /\ n \in Moved(plan)
               /\ \E m \in rows.mentions :
                     /\ m.entity \in DOMAIN plan
                     /\ n.of = m.of /\ n.chunk = m.chunk /\ n.entity = To(plan, m.entity)
  <2>1. \A m \in rows.mentions : m \in Moving(plan) <=> m.entity \in DOMAIN plan
    BY DEF Moving
  <2>2. \A m \in rows.mentions : m.entity \notin DOMAIN plan =>
            m \in mentions /\ m.entity = To(plan, m.entity)
    BY <2>1 DEF To
  <2>3. QED
    BY <1>1, <1>2, <2>1, <2>2, MovedIs
<1>10. /\ rows.evidence \subseteq evidence /\ evidence \subseteq Nat \X ChunkIds
       /\ \A r \in Losers(plan), c \in ChunkIds :
             <<r, c>> \in rows.evidence => <<Survivor(plan, r), c>> \in evidence
       /\ \A p \in evidence \ rows.evidence :
             \E r \in Losers(plan) : <<r, p[2]>> \in rows.evidence /\ p[1] = Survivor(plan, r)
  BY <1>1, <1>2, CopiedIs
<1> HIDE DEF merged, less, mentions, evidence, commands, edges
<1>11. /\ rows'.ents = merged /\ rows'.rels = less /\ rows'.mentions = mentions
       /\ rows'.evidence = evidence /\ rows'.out = commands /\ DOMAIN rows' = RowFields
  BY <1>3 DEF RowFields
<1>12. Merges(rows, rows', plan)
  <2>1. /\ DOMAIN rows' = RowFields
        /\ rows'.ents \in Seq(EntityRow) /\ DOMAIN rows'.ents = DOMAIN rows.ents
        /\ \A e \in DOMAIN rows.ents :
              /\ rows'.ents[e].key = rows.ents[e].key /\ rows'.ents[e].gen = rows.ents[e].gen
              /\ rows'.ents[e].active <=> rows.ents[e].active /\ e \notin DOMAIN plan
    BY <1>5, <1>11
  <2>2. /\ rows'.rels \in Seq(RelationRow) /\ DOMAIN rows'.rels = DOMAIN rows.rels
        /\ \A r \in DOMAIN rows.rels :
              /\ r \in Survivors(plan) => rows'.rels[r] = Rewired(plan, r)
              /\ r \in Loops(plan) \cup Losers(plan) => ~rows'.rels[r].active
              /\ r \notin Survivors(plan) => SameIdentity(rows'.rels[r], rows.rels[r])
              /\ r \notin Survivors(plan) \cup Loops(plan) \cup Losers(plan) =>
                    rows'.rels[r] = rows.rels[r]
              /\ rows'.rels[r].gen = rows.rels[r].gen
    BY <1>6, <1>8, <1>11
  <2>3. QED
    BY <2>1, <2>2, <1>9, <1>10, <1>11 DEF Merges
<1>13. QED
  BY <1>2, <1>4, <1>11, <1>12 DEF commands

-----------------------------------------------------------------------------
(* EntityMerge: what it keeps *)

\* What a chunk named it names after the merge, in the survivor.
LEMMA MergeNames ==
    ASSUME NEW l, RowsOK(rows), NEW plan, Chosen(plan), Merges(rows, l, plan)
    PROVE  /\ \A c, e : Names(rows, c, e) => Names(l, c, To(plan, e))
           /\ \A c, key, e : NamedBy(rows, c, key, e) => NamedBy(l, c, key, To(plan, e))
<1>1. ASSUME NEW c, NEW e, Names(rows, c, e) PROVE Names(l, c, To(plan, e))
  <2>1. PICK m \in rows.mentions : m.chunk = c /\ m.entity = e
    BY <1>1 DEF Names
  <2>2. PICK n \in l.mentions : n.of = m.of /\ n.chunk = m.chunk /\ n.entity = To(plan, m.entity)
    BY DEF Merges
  <2>3. QED
    BY <2>1, <2>2 DEF Names
<1>2. ASSUME NEW c, NEW key, NEW e, NamedBy(rows, c, key, e) PROVE NamedBy(l, c, key, To(plan, e))
  <2>1. PICK m \in rows.mentions : m.chunk = c /\ m.entity = e /\ rows.ents[m.of].key = key
    BY <1>2 DEF NamedBy
  <2>2. m.of \in DOMAIN rows.ents
    BY DEF RowsOK, References
  <2>3. PICK n \in l.mentions : n.of = m.of /\ n.chunk = m.chunk /\ n.entity = To(plan, m.entity)
    BY DEF Merges
  <2>4. l.ents[n.of].key = key
    BY <2>1, <2>2, <2>3 DEF Merges
  <2>5. QED
    BY <2>1, <2>3, <2>4 DEF NamedBy
<1>3. QED
  BY <1>1, <1>2

\* What becomes of a relation: an active one after the merge was active
\* before, and is rewired only if it was visible.
LEMMA MergeRels ==
    ASSUME NEW l, RowsOK(rows), NEW plan, Chosen(plan), Merges(rows, l, plan),
           NEW r \in DOMAIN rows.rels
    PROVE  /\ l.rels[r].active => rows.rels[r].active
           /\ r \in Survivors(plan) =>
                 /\ r \in VisibleRelations /\ Connects(rows, r) /\ Connects(l, r)
                 /\ l.rels[r] = Rewired(plan, r)
                 /\ l.rels[r].src = To(plan, rows.rels[r].src)
                 /\ l.rels[r].dst = To(plan, rows.rels[r].dst)
           /\ l.rels[r].active /\ r \notin Survivors(plan) => l.rels[r] = rows.rels[r]
           /\ Connects(l, r) => Connects(rows, r)
           /\ Connects(l, r) /\ r \notin Survivors(plan) =>
                 rows.rels[r].src \notin DOMAIN plan /\ rows.rels[r].dst \notin DOMAIN plan
<1>1. rows.rels[r].src \in DOMAIN rows.ents /\ rows.rels[r].dst \in DOMAIN rows.ents
  BY DEF RowsOK, References
<1>2. CASE r \in Survivors(plan)
  <2>1. r \in VisibleRelations
    BY <1>2, MergingIs
  <2>2. /\ rows.rels[r].active
        /\ rows.rels[r].src \in VisibleEntities /\ rows.rels[r].dst \in VisibleEntities
    BY <2>1, VisibleIs
  <2>3. Connects(rows, r)
    BY <2>2 DEF Connects, VisibleEntities, Visible
  <2>4. l.rels[r] = Rewired(plan, r)
    BY <1>2 DEF Merges
  <2>5. /\ Rewired(plan, r).active
        /\ Rewired(plan, r).src = To(plan, rows.rels[r].src)
        /\ Rewired(plan, r).dst = To(plan, rows.rels[r].dst)
        /\ Rewired(plan, r).src \in VisibleEntities \ DOMAIN plan
        /\ Rewired(plan, r).dst \in VisibleEntities \ DOMAIN plan
    BY <2>1, RewiredIs
  <2>6. Connects(l, r)
    <3>1. \A e \in VisibleEntities \ DOMAIN plan : l.ents[e].active
      BY DEF Merges, VisibleEntities, Visible
    <3>2. QED
      BY <2>4, <2>5, <3>1 DEF Connects, Merges
  <2>7. QED
    BY <1>2, <2>1, <2>2, <2>3, <2>4, <2>5, <2>6
<1>3. CASE r \notin Survivors(plan)
  <2>1. ASSUME l.rels[r].active PROVE l.rels[r] = rows.rels[r]
    <3>1. r \notin Loops(plan) \cup Losers(plan)
      BY <2>1 DEF Merges
    <3>2. QED
      BY <1>3, <3>1 DEF Merges
  <2>2. ASSUME Connects(l, r)
        PROVE  /\ rows.rels[r].src \notin DOMAIN plan /\ rows.rels[r].dst \notin DOMAIN plan
               /\ Connects(rows, r)
    <3>1. l.rels[r].active /\ l.rels[r] = rows.rels[r]
      BY <2>1, <2>2 DEF Connects
    <3>2. QED
      BY <1>1, <2>2, <3>1 DEF Connects, Merges
  <2>3. l.rels[r].active => rows.rels[r].active
    BY <2>1
  <2>4. QED
    BY <1>3, <2>1, <2>2, <2>3
<1>4. QED
  BY <1>2, <1>3

\* No two active relations have one identity after a merge.
LEMMA MergeIdentity ==
    ASSUME NEW l, RowsOK(rows), NEW plan, Chosen(plan), Merges(rows, l, plan)
    PROVE  IdentityOnce(l)
<1>1. ASSUME NEW q \in Survivors(plan), NEW r \in DOMAIN rows.rels,
             l.rels[q].active, l.rels[r].active, SameIdentity(l.rels[q], l.rels[r])
      PROVE  q = r
  <2>1. /\ q \in VisibleRelations /\ q \in DOMAIN rows.rels /\ q \in Merging(plan)
        /\ Survivor(plan, q) = q
    BY MergingIs, VisibleIs
  <2>2. l.rels[q] = Rewired(plan, q)
    BY <2>1, MergeRels
  <2>3. CASE r \in Survivors(plan)
    <3>1. r \in VisibleRelations /\ Survivor(plan, r) = r
      BY <2>3, MergingIs
    <3>2. l.rels[r] = Rewired(plan, r)
      BY <2>3, MergeRels
    <3>3. Rewired(plan, q) \in RelationRow /\ Rewired(plan, r) \in RelationRow
      BY <2>1, <3>1, RewiredIs
    <3>4. Rewired(plan, q) = Rewired(plan, r)
      BY <1>1, <2>2, <3>2, <3>3, SameRelation
    <3>5. Survivor(plan, q) = Survivor(plan, r)
      BY <2>1, <3>1, <3>4, SurvivorIs
    <3>6. QED
      BY <2>1, <3>1, <3>5
  <2>4. CASE r \notin Survivors(plan)
    <3>1. l.rels[r] = rows.rels[r] /\ rows.rels[r].active
      BY <1>1, <2>4, MergeRels
    <3>2. /\ Rewired(plan, q) \in RelationRow /\ Rewired(plan, q).active
          /\ Rewired(plan, q).gen = generation
          /\ Rewired(plan, q).src \in VisibleEntities \ DOMAIN plan
          /\ Rewired(plan, q).dst \in VisibleEntities \ DOMAIN plan
      BY <2>1, RewiredIs
    <3>3. rows.rels[r] \in RelationRow
      BY DEF RowsOK, RowsType
    <3>4. Rewired(plan, q) = rows.rels[r]
      BY <1>1, <2>2, <3>1, <3>2, <3>3, SameRelation
    <3>5. r \in VisibleRelations
      BY <3>1, <3>2, <3>4 DEF VisibleRelations, VisibleEntities
    <3>6. Rewired(plan, r) = rows.rels[r]
      BY <3>2, <3>4, <3>5, RewiredIs
    <3>7. r \in Merging(plan)
      BY <2>1, <3>4, <3>5, <3>6, MergingIs
    <3>8. r \in Losers(plan)
      BY <2>4, <3>7 DEF Losers
    <3>9. ~l.rels[r].active
      BY <3>8 DEF Merges
    <3>10. QED
      BY <1>1, <3>9
  <2>5. QED
    BY <2>3, <2>4
<1>2. ASSUME NEW q \in DOMAIN rows.rels, NEW r \in DOMAIN rows.rels,
             l.rels[q].active, l.rels[r].active, SameIdentity(l.rels[q], l.rels[r])
      PROVE  q = r
  <2>1. SameIdentity(l.rels[r], l.rels[q])
    BY <1>2 DEF SameIdentity
  <2>2. CASE q \notin Survivors(plan) /\ r \notin Survivors(plan)
    <3>1. l.rels[q] = rows.rels[q] /\ l.rels[r] = rows.rels[r]
      BY <1>2, <2>2, MergeRels
    <3>2. QED
      BY <1>2, <3>1 DEF RowsOK, IdentityOnce
  <2>3. QED
    BY <1>1, <1>2, <2>1, <2>2
<1>3. DOMAIN l.rels = DOMAIN rows.rels
  BY DEF Merges
<1>4. QED
  BY <1>2, <1>3 DEF IdentityOnce

\* Chunks that are evidence still mention both endpoints after a merge.
LEMMA MergeEvidence ==
    ASSUME NEW l, RowsOK(rows), NEW plan, Chosen(plan), Merges(rows, l, plan)
    PROVE  EvidenceNamed(l)
<1>1. ASSUME NEW p \in rows.evidence, Connects(l, p[1])
      PROVE  Names(l, p[2], l.rels[p[1]].src) /\ Names(l, p[2], l.rels[p[1]].dst)
  <2> DEFINE r == p[1]
  <2>1. r \in DOMAIN rows.rels
    BY DEF RowsOK, References
  <2> HIDE DEF r
  <2>2. Connects(rows, r)
    BY <1>1, <2>1, MergeRels DEF r
  <2>3. Names(rows, p[2], rows.rels[r].src) /\ Names(rows, p[2], rows.rels[r].dst)
    BY <2>2 DEF RowsOK, EvidenceNamed, r
  <2>4. /\ Names(l, p[2], To(plan, rows.rels[r].src))
        /\ Names(l, p[2], To(plan, rows.rels[r].dst))
    BY <2>3, MergeNames
  <2>5. /\ l.rels[r].src = To(plan, rows.rels[r].src)
        /\ l.rels[r].dst = To(plan, rows.rels[r].dst)
    <3>1. /\ r \in Survivors(plan) =>
                /\ l.rels[r].src = To(plan, rows.rels[r].src)
                /\ l.rels[r].dst = To(plan, rows.rels[r].dst)
          /\ l.rels[r].active /\ r \notin Survivors(plan) => l.rels[r] = rows.rels[r]
          /\ Connects(l, r) /\ r \notin Survivors(plan) =>
                rows.rels[r].src \notin DOMAIN plan /\ rows.rels[r].dst \notin DOMAIN plan
      BY <2>1, MergeRels
    <3>2. CASE r \notin Survivors(plan)
      <4>1. Connects(l, r)
        BY <1>1 DEF r
      <4>2. l.rels[r] = rows.rels[r]
        BY <3>1, <3>2, <4>1 DEF Connects
      <4>3. rows.rels[r].src \notin DOMAIN plan /\ rows.rels[r].dst \notin DOMAIN plan
        BY <3>1, <3>2, <4>1
      <4>4. QED
        BY <4>2, <4>3, ToIs
    <3>3. QED
      BY <3>1, <3>2
  <2>6. QED
    BY <2>4, <2>5 DEF r
<1>2. ASSUME NEW p \in l.evidence, p \notin rows.evidence
      PROVE  Names(l, p[2], l.rels[p[1]].src) /\ Names(l, p[2], l.rels[p[1]].dst)
  <2>1. PICK r \in Losers(plan) : <<r, p[2]>> \in rows.evidence /\ p[1] = Survivor(plan, r)
    BY <1>2 DEF Merges
  <2>2. r \in Merging(plan) /\ r \in VisibleRelations
    BY MergingIs DEF Losers
  <2>3. /\ r \in DOMAIN rows.rels /\ rows.rels[r].active
        /\ rows.rels[r].src \in VisibleEntities /\ rows.rels[r].dst \in VisibleEntities
    BY <2>2, VisibleIs
  <2>4. Connects(rows, r)
    BY <2>3 DEF Connects, VisibleEntities, Visible
  <2>5. Names(rows, p[2], rows.rels[r].src) /\ Names(rows, p[2], rows.rels[r].dst)
    <3>1. PICK z \in rows.evidence : z[1] = r /\ z[2] = p[2]
      BY <2>1
    <3>2. QED
      BY <2>4, <3>1 DEF RowsOK, EvidenceNamed
  <2>6. /\ Names(l, p[2], To(plan, rows.rels[r].src))
        /\ Names(l, p[2], To(plan, rows.rels[r].dst))
    BY <2>5, MergeNames
  <2> DEFINE q == Survivor(plan, r)
  <2>7. q \in Survivors(plan) /\ q \in VisibleRelations /\ Rewired(plan, q) = Rewired(plan, r)
    BY <2>2, SurvivorIs, MergingIs
  <2>8. q \in DOMAIN rows.rels
    BY <2>7, VisibleIs
  <2> HIDE DEF q
  <2>9. l.rels[q] = Rewired(plan, r)
    BY <2>7, <2>8, MergeRels
  <2>10. /\ Rewired(plan, r).src = To(plan, rows.rels[r].src)
         /\ Rewired(plan, r).dst = To(plan, rows.rels[r].dst)
    BY <2>2, RewiredIs
  <2>11. p[1] = q
    BY <2>1 DEF q
  <2>12. QED
    BY <2>6, <2>9, <2>10, <2>11
<1>3. QED
  BY <1>1, <1>2 DEF EvidenceNamed

\* A merge leaves the rows in order.
LEMMA MergeRowsOK ==
    ASSUME NEW l, RowsOK(rows), NEW plan, Chosen(plan), Merges(rows, l, plan)
    PROVE  RowsOK(l)
<1>1. RowsType(l)
  BY DEF Merges, RowsType
<1>2. References(l)
  <2>1. ASSUME NEW r \in DOMAIN l.rels
        PROVE  l.rels[r].src \in DOMAIN l.ents /\ l.rels[r].dst \in DOMAIN l.ents
    <3>1. r \in DOMAIN rows.rels /\ DOMAIN l.ents = DOMAIN rows.ents
      BY DEF Merges
    <3>2. CASE r \in Survivors(plan)
      <4>1. r \in VisibleRelations /\ l.rels[r] = Rewired(plan, r)
        BY <3>1, <3>2, MergeRels
      <4>2. /\ l.rels[r].src \in VisibleEntities \ DOMAIN plan
            /\ l.rels[r].dst \in VisibleEntities \ DOMAIN plan
        BY <4>1, RewiredIs
      <4>3. QED
        BY <3>1, <4>2 DEF VisibleEntities
    <3>3. CASE r \notin Survivors(plan)
      <4>1. SameIdentity(l.rels[r], rows.rels[r])
        BY <3>1, <3>3 DEF Merges
      <4>2. QED
        BY <3>1, <4>1 DEF RowsOK, References, SameIdentity
    <3>4. QED
      BY <3>2, <3>3
  <2>2. ASSUME NEW m \in l.mentions PROVE m.of \in DOMAIN l.ents /\ m.entity \in DOMAIN l.ents
    <3>1. DOMAIN l.ents = DOMAIN rows.ents
      BY DEF Merges
    <3>2. CASE m \in rows.mentions
      BY <3>1, <3>2 DEF RowsOK, References
    <3>3. CASE m \notin rows.mentions
      <4>1. PICK n \in rows.mentions :
              n.entity \in DOMAIN plan /\ m.of = n.of /\ m.entity = To(plan, n.entity)
        BY <3>3 DEF Merges
      <4>2. m.entity \in VisibleEntities
        BY <4>1 DEF To, Chosen
      <4>3. QED
        BY <3>1, <4>1, <4>2 DEF RowsOK, References, VisibleEntities
    <3>4. QED
      BY <3>2, <3>3
  <2>3. ASSUME NEW p \in l.evidence PROVE p[1] \in DOMAIN l.rels
    <3>1. DOMAIN l.rels = DOMAIN rows.rels
      BY DEF Merges
    <3>2. CASE p \in rows.evidence
      BY <3>1, <3>2 DEF RowsOK, References
    <3>3. CASE p \notin rows.evidence
      <4>0. \A z \in l.evidence \ rows.evidence :
               \E r \in Losers(plan) : <<r, z[2]>> \in rows.evidence /\ z[1] = Survivor(plan, r)
        BY DEF Merges
      <4>1. PICK r \in Losers(plan) : p[1] = Survivor(plan, r)
        BY <3>3, <4>0
      <4>2. r \in VisibleRelations
        BY MergingIs DEF Losers
      <4>3. QED
        BY <3>1, <4>1, <4>2, SurvivorIs DEF VisibleRelations
    <3>4. QED
      BY <3>2, <3>3
  <2>4. QED
    BY <2>1, <2>2, <2>3 DEF References
<1>3. KeyOnce(l)
  BY DEF RowsOK, KeyOnce, Merges
<1>4. MentionsKeyed(l)
  <2>1. ASSUME NEW m \in l.mentions PROVE l.ents[m.of].key \in Keyed[m.chunk[1]]
    <3>1. PICK n \in rows.mentions : m.of = n.of /\ m.chunk = n.chunk
      BY DEF Merges
    <3>2. n.of \in DOMAIN rows.ents
      BY DEF RowsOK, References
    <3>3. l.ents[m.of].key = rows.ents[n.of].key
      BY <3>1, <3>2 DEF Merges
    <3>4. QED
      BY <3>1, <3>3 DEF RowsOK, MentionsKeyed
  <2>2. QED
    BY <2>1 DEF MentionsKeyed
<1>5. QED
  BY <1>1, <1>2, <1>3, <1>4, MergeIdentity, MergeEvidence DEF RowsOK

\* What a chunk said is kept by a merge, in the survivors.
LEMMA MergeKeeps ==
    ASSUME NEW l, RowsOK(rows), NEW plan, Chosen(plan), Merges(rows, l, plan),
           \A e \in DOMAIN rows.ents : rows.ents[e].active => rows.ents[e].gen = generation,
           NEW s \in Sources, NEW c \in ChunkIds, Kept(rows, s, c, generation)
    PROVE  Kept(l, s, c, generation)
<1>1. \A e : To(plan, e) = e <=> e \notin DOMAIN plan
  BY ToIs
<1>2. \A e \in DOMAIN rows.ents :
         rows.ents[e].active => To(plan, e) \in DOMAIN l.ents /\ l.ents[To(plan, e)].active
  <2>1. ASSUME NEW e \in DOMAIN rows.ents, rows.ents[e].active
        PROVE  To(plan, e) \in VisibleEntities /\ To(plan, e) \notin DOMAIN plan
    BY <2>1, ToIs DEF VisibleEntities, Visible
  <2>2. QED
    BY <2>1 DEF Merges, VisibleEntities, Visible
<1>3. ASSUME NEW key \in Keyed[s]
      PROVE  \E e \in DOMAIN l.ents : NamedBy(l, c, key, e) /\ l.ents[e].active
  <2>1. PICK e \in DOMAIN rows.ents : NamedBy(rows, c, key, e) /\ rows.ents[e].active
    BY DEF Kept
  <2>2. NamedBy(l, c, key, To(plan, e))
    BY <2>1, MergeNames
  <2>3. QED
    BY <1>2, <2>1, <2>2
<1>4. \A e \in DOMAIN rows.ents : To(plan, e) \in DOMAIN l.ents
  BY DEF To, Chosen, Merges, VisibleEntities
<1>5. ASSUME NEW p \in Related[s] PROVE Stated(l, c, generation, p)
  <2>1. Stated(rows, c, generation, p)
    BY DEF Kept
  <2>2. CASE \E e \in DOMAIN rows.ents : NamedBy(rows, c, p[1], e) /\ NamedBy(rows, c, p[2], e)
    <3>1. PICK e \in DOMAIN rows.ents : NamedBy(rows, c, p[1], e) /\ NamedBy(rows, c, p[2], e)
      BY <2>2
    <3>2. NamedBy(l, c, p[1], To(plan, e)) /\ NamedBy(l, c, p[2], To(plan, e))
      BY <3>1, MergeNames
    <3>3. To(plan, e) \in DOMAIN l.ents
      BY <1>4
    <3>4. QED
      BY <3>2, <3>3 DEF Stated
  <2>3. CASE \E r \in DOMAIN rows.rels :
               /\ Connects(rows, r) /\ rows.rels[r].gen = generation /\ <<r, c>> \in rows.evidence
               /\ NamedBy(rows, c, p[1], rows.rels[r].src) /\ NamedBy(rows, c, p[2], rows.rels[r].dst)
    <3>1. PICK r \in DOMAIN rows.rels :
               /\ Connects(rows, r) /\ rows.rels[r].gen = generation /\ <<r, c>> \in rows.evidence
               /\ NamedBy(rows, c, p[1], rows.rels[r].src) /\ NamedBy(rows, c, p[2], rows.rels[r].dst)
      BY <2>3
    <3> DEFINE a == rows.rels[r].src
               b == rows.rels[r].dst
    <3>2. a \in DOMAIN rows.ents /\ b \in DOMAIN rows.ents
      BY DEF RowsOK, References
    <3>3. r \in VisibleRelations
      BY <3>1, <3>2 DEF VisibleRelations, Visible, Connects
    <3>4. NamedBy(l, c, p[1], To(plan, a)) /\ NamedBy(l, c, p[2], To(plan, b))
      BY <3>1, MergeNames
    <3>5. <<r, c>> \in l.evidence /\ r \in DOMAIN l.rels
      BY <3>1 DEF Merges
    <3>6. /\ Rewired(plan, r).src = To(plan, a) /\ Rewired(plan, r).dst = To(plan, b)
          /\ Rewired(plan, r) = rows.rels[r] <=> a \notin DOMAIN plan /\ b \notin DOMAIN plan
      BY <3>3, RewiredIs
    <3>7. CASE r \in Loops(plan)
      <4>1. To(plan, a) = To(plan, b)
        BY <3>6, <3>7 DEF Loops
      <4>2. To(plan, a) \in DOMAIN l.ents
        BY <1>4, <3>2
      <4>3. QED
        BY <3>4, <4>1, <4>2 DEF Stated
    <3>8. CASE r \in Survivors(plan)
      <4>1. /\ Connects(l, r)
            /\ l.rels[r].src = To(plan, a) /\ l.rels[r].dst = To(plan, b)
        BY <3>8, MergeRels
      <4>2. l.rels[r].gen = generation
        BY <3>1 DEF Merges
      <4>3. QED
        BY <3>4, <3>5, <4>1, <4>2 DEF Stated
    <3>9. CASE r \in Losers(plan)
      <4> DEFINE q == Survivor(plan, r)
      <4>1. /\ q \in VisibleRelations /\ q \in Survivors(plan)
            /\ Rewired(plan, q) = Rewired(plan, r)
        BY <3>3, <3>9, SurvivorIs, MergingIs DEF Losers
      <4>2. q \in DOMAIN rows.rels
        BY <4>1, VisibleIs
      <4>3. <<q, c>> \in l.evidence
        BY <3>1, <3>9 DEF Merges
      <4> HIDE DEF q
      <4>4. Connects(l, q) /\ l.rels[q] = Rewired(plan, q) /\ q \in DOMAIN l.rels
        BY <4>1, <4>2, MergeRels DEF Merges
      <4>5. l.rels[q].gen = generation
        BY <4>1, <4>4, RewiredIs
      <4>6. l.rels[q].src = To(plan, a) /\ l.rels[q].dst = To(plan, b)
        BY <3>6, <4>1, <4>4
      <4>7. QED
        BY <3>4, <4>3, <4>4, <4>5, <4>6 DEF Stated
    <3>10. CASE r \notin Loops(plan) \cup Survivors(plan) \cup Losers(plan)
      <4>1. r \notin Changed(plan)
        BY <3>10, MergingIs DEF Losers
      <4>2. a \notin DOMAIN plan /\ b \notin DOMAIN plan
        BY <3>3, <3>6, <4>1 DEF Changed
      <4>3. l.rels[r] = rows.rels[r]
        BY <3>10 DEF Merges
      <4>4. Connects(l, r) /\ l.rels[r].gen = generation
        BY <3>1, <3>2, <4>2, <4>3 DEF Connects, Merges
      <4>5. To(plan, a) = a /\ To(plan, b) = b
        BY <1>1, <4>2
      <4>6. QED
        BY <3>4, <3>5, <4>3, <4>4, <4>5 DEF Stated
    <3>11. QED
      BY <3>7, <3>8, <3>9, <3>10
  <2>4. QED
    BY <2>1, <2>2, <2>3 DEF Stated
<1>6. QED
  BY <1>3, <1>5 DEF Kept

-----------------------------------------------------------------------------
(* Chunks *)

\* What Tangles rules out.
LEMMA NotTangles ==
    ASSUME ~Tangles
    PROVE  ~tangled /\ activation = {} /\ NothingAhead
<1>1. ~tangled /\ activation = {} /\ \A c \in ActiveChunks : ~ (c[2] > generation)
  BY DEF Tangles
<1>2. ASSUME NEW s \in Sources, NEW g \in Generations, g > generation, HasChunk(s, g)
      PROVE  FALSE
  <2>1. Chunk(s, g) \in ActiveChunks
    <3> DEFINE q == <<s, g>>
    <3>1. q \in Sources \X Generations /\ q[1] = s /\ q[2] = g
      OBVIOUS
    <3> HIDE DEF q
    <3>2. QED
      BY <1>2, <3>1 DEF ActiveChunks
  <2>2. Chunk(s, g)[2] = g
    BY DEF Chunk
  <2>3. QED
    BY <1>1, <1>2, <2>1, <2>2
<1>3. QED
  BY <1>1, <1>2 DEF NothingAhead

\* The chunks in force, one by one.
LEMMA ActiveIs ==
    ASSUME TypeOK
    PROVE  /\ \A c : c \in ActiveChunks <=> c \in ChunkIds /\ Live(doc, c)
           /\ \A s \in Sources, g \in Generations :
                 HasChunk(s, g) =>
                   /\ Chunk(s, g) \in ChunkIds /\ Live(doc, Chunk(s, g))
                   /\ Chunk(s, g)[1] = s /\ Chunk(s, g)[2] = g
           /\ \A c \in ChunkIds : Live(doc, c) =>
                 c[1] \in Sources /\ c[2] \in Generations
                 /\ HasChunk(c[1], c[2]) /\ c = Chunk(c[1], c[2])
<1>1. ASSUME NEW s \in Sources, NEW g \in Generations, HasChunk(s, g)
      PROVE  /\ Chunk(s, g) \in ChunkIds /\ Live(doc, Chunk(s, g))
             /\ Chunk(s, g)[1] = s /\ Chunk(s, g)[2] = g
  <2>1. doc[s][g].id \in Nat
    BY DocType
  <2>2. QED
    BY <1>1, <2>1 DEF Chunk, ChunkIds, Live, HasChunk
<1>2. ASSUME NEW c \in ChunkIds, Live(doc, c)
      PROVE  c[1] \in Sources /\ c[2] \in Generations
             /\ HasChunk(c[1], c[2]) /\ c = Chunk(c[1], c[2])
  BY <1>2 DEF Chunk, ChunkIds, Live, HasChunk
<1>3. ASSUME NEW c \in ActiveChunks PROVE c \in ChunkIds /\ Live(doc, c)
  <2>1. PICK q \in Sources \X Generations : HasChunk(q[1], q[2]) /\ c = Chunk(q[1], q[2])
    BY DEF ActiveChunks
  <2>2. QED
    BY <1>1, <2>1
<1>4. ASSUME NEW c \in ChunkIds, Live(doc, c) PROVE c \in ActiveChunks
  <2> DEFINE q == <<c[1], c[2]>>
  <2>1. q \in Sources \X Generations /\ q[1] = c[1] /\ q[2] = c[2]
    BY <1>2, <1>4
  <2> HIDE DEF q
  <2>2. QED
    BY <1>2, <1>4, <2>1 DEF ActiveChunks
<1>5. QED
  BY <1>1, <1>2, <1>3, <1>4

\* The chunks in force after a step.
LEMMA ActiveIsAfter ==
    ASSUME TypeOK'
    PROVE  /\ \A c : c \in ActiveChunks' <=> c \in ChunkIds /\ Live(doc', c)
           /\ \A s \in Sources, g \in Generations :
                 HasChunk(s, g)' =>
                   /\ Chunk(s, g)' \in ChunkIds /\ Live(doc', Chunk(s, g)')
                   /\ Chunk(s, g)'[1] = s /\ Chunk(s, g)'[2] = g
           /\ \A c \in ChunkIds : Live(doc', c) =>
                 c[1] \in Sources /\ c[2] \in Generations
                 /\ doc'[c[1]][c[2]].active /\ doc'[c[1]][c[2]].chunked
                 /\ c = <<c[1], c[2], doc'[c[1]][c[2]].id>>
<1>1. ASSUME NEW s \in Sources, NEW g \in Generations, HasChunk(s, g)'
      PROVE  /\ Chunk(s, g)' \in ChunkIds /\ Live(doc', Chunk(s, g)')
             /\ Chunk(s, g)'[1] = s /\ Chunk(s, g)'[2] = g
  <2>1. doc'[s][g].id \in Nat
    BY DEF TypeOK, Document
  <2>2. QED
    BY <1>1, <2>1 DEF Chunk, ChunkIds, Live, HasChunk
<1>2. ASSUME NEW c \in ChunkIds, Live(doc', c)
      PROVE  c[1] \in Sources /\ c[2] \in Generations
             /\ doc'[c[1]][c[2]].active /\ doc'[c[1]][c[2]].chunked
             /\ c = <<c[1], c[2], doc'[c[1]][c[2]].id>>
  BY <1>2 DEF ChunkIds, Live
<1>3. ActiveChunks' = {<<p[1], p[2], doc'[p[1]][p[2]].id>> : p \in {q \in Sources \X Generations :
                          doc'[q[1]][q[2]].active /\ doc'[q[1]][q[2]].chunked}}
  BY DEF ActiveChunks, Chunk, HasChunk
<1>4. ASSUME NEW c \in ActiveChunks' PROVE c \in ChunkIds /\ Live(doc', c)
  <2>1. PICK q \in Sources \X Generations :
          /\ doc'[q[1]][q[2]].active /\ doc'[q[1]][q[2]].chunked
          /\ c = <<q[1], q[2], doc'[q[1]][q[2]].id>>
    BY <1>3
  <2>2. doc'[q[1]][q[2]].id \in Nat
    BY DEF TypeOK, Document
  <2>3. QED
    BY <2>1, <2>2 DEF ChunkIds, Live
<1>5. ASSUME NEW c \in ChunkIds, Live(doc', c) PROVE c \in ActiveChunks'
  <2> DEFINE q == <<c[1], c[2]>>
  <2>1. q \in Sources \X Generations /\ q[1] = c[1] /\ q[2] = c[2]
    BY <1>2, <1>5
  <2> HIDE DEF q
  <2>2. QED
    BY <1>2, <1>3, <1>5, <2>1
<1>6. QED
  BY <1>1, <1>2, <1>4, <1>5

\* The current and the authoritative chunks, one by one.
LEMMA CurrentIs ==
    ASSUME TypeOK
    PROVE  /\ \A c : c \in CurrentChunks <=> c \in ChunkIds /\ Live(doc, c) /\ c[2] = generation
           /\ \A c : c \in AuthoritativeChunks <=>
                 /\ c \in ChunkIds /\ Live(doc, c) /\ c[2] = generation
                 /\ source[c[1]] = "active" /\ dataset = "active"
BY ActiveIs DEF CurrentChunks, AuthoritativeChunks

\* The rows, one by one.
LEMMA RowTypes ==
    ASSUME NEW k, RowsOK(k)
    PROVE  /\ DOMAIN k.ents \subseteq Nat /\ DOMAIN k.rels \subseteq Nat
           /\ \A e \in DOMAIN k.ents : k.ents[e] \in EntityRow
           /\ \A e \in DOMAIN k.ents : k.ents[e].gen \in Generations /\ k.ents[e].gen \in Nat
           /\ \A r \in DOMAIN k.rels : k.rels[r] \in RelationRow
           /\ \A r \in DOMAIN k.rels : k.rels[r].gen \in Generations /\ k.rels[r].gen \in Nat
<1>1. k.ents \in Seq(EntityRow) /\ k.rels \in Seq(RelationRow)
  BY DEF RowsOK, RowsType
<1>2. /\ DOMAIN k.ents = 1..Len(k.ents) /\ DOMAIN k.rels = 1..Len(k.rels)
      /\ Len(k.ents) \in Nat /\ Len(k.rels) \in Nat
  BY <1>1
<1>3. /\ \A e \in DOMAIN k.ents : k.ents[e] \in EntityRow
      /\ \A r \in DOMAIN k.rels : k.rels[r] \in RelationRow
  BY <1>1, <1>2
<1>4. /\ \A e \in DOMAIN k.ents : k.ents[e].gen \in Generations
      /\ \A r \in DOMAIN k.rels : k.rels[r].gen \in Generations
  BY <1>3 DEF EntityRow, RelationRow
<1>5. \A g \in Generations : g \in Nat
  BY GenerationsAre
<1>6. /\ \A e \in DOMAIN k.ents : k.ents[e].gen \in Nat
      /\ \A r \in DOMAIN k.rels : k.rels[r].gen \in Nat
  BY <1>4, <1>5
<1>7. DOMAIN k.ents \subseteq Nat /\ DOMAIN k.rels \subseteq Nat
  BY <1>2
<1>8. QED
  BY <1>3, <1>4, <1>6, <1>7

\* While nothing is ahead, whatever is active is of the active generation.
LEMMA Settled ==
    ASSUME TypeOK, RowsOK(rows), EntsAhead, RelsAhead, NothingAhead
    PROVE  /\ \A e \in DOMAIN rows.ents : rows.ents[e].active => e \in VisibleEntities
           /\ \A e \in DOMAIN rows.ents : rows.ents[e].active => rows.ents[e].gen = generation
           /\ \A r \in DOMAIN rows.rels : rows.rels[r].gen <= generation
<1>1. \A g \in Generations : Reached(g) => ~ (g > generation)
  BY DEF NothingAhead, Reached
<1>2. generation \in Nat
  BY GenerationsAre DEF TypeOK
<1>5. ASSUME NEW e \in DOMAIN rows.ents, rows.ents[e].active
      PROVE  rows.ents[e].gen = generation
  <2>1. rows.ents[e].gen \in Generations /\ rows.ents[e].gen \in Nat
    BY RowTypes
  <2>2. rows.ents[e].gen >= generation /\ Reached(rows.ents[e].gen)
    BY <1>5 DEF EntsAhead
  <2>3. ~ (rows.ents[e].gen > generation)
    BY <1>1, <2>1, <2>2
  <2>4. QED
    BY <1>2, <2>1, <2>2, <2>3
<1>6. ASSUME NEW r \in DOMAIN rows.rels PROVE rows.rels[r].gen <= generation
  <2>1. rows.rels[r].gen \in Generations /\ rows.rels[r].gen \in Nat
    BY RowTypes
  <2>2. Reached(rows.rels[r].gen)
    BY DEF RelsAhead
  <2>3. ~ (rows.rels[r].gen > generation)
    BY <1>1, <2>1, <2>2
  <2>4. QED
    BY <1>2, <2>1, <2>3
<1>7. QED
  BY <1>5, <1>6 DEF VisibleEntities, Visible

-----------------------------------------------------------------------------
(* Forget and GraphMaintain: the rows *)

ForgottenChunks(s) == {c \in CurrentChunks : c[1] = s}
OtherChunks(s) == AuthoritativeChunks \ ForgottenChunks(s)
ForgottenRels(s) ==
    (VisibleRelations \cap Evidenced(ForgottenChunks(s))) \ Evidenced(OtherChunks(s))
ForgottenEnts(s) ==
    ((VisibleEntities \cap Mentioned(ForgottenChunks(s))) \ Mentioned(OtherChunks(s)))
        \ StillIncident(ForgottenRels(s))

\* Deactivated tables and appended commands are a Takes.
LEMMA TakesIs ==
    ASSUME DOMAIN rows = RowFields, NEW rels, NEW ents, NEW commands,
           rows' = [rows EXCEPT !.rels = Deactivated(rows.rels, rels),
                                !.ents = Deactivated(rows.ents, ents),
                                !.out = rows.out \cup commands]
    PROVE  Takes(rels, ents, commands)
BY DEF Takes, RowFields

\* The conjuncts of ForgetSource, under names.
LEMMA ForgetSourceIs ==
    ASSUME IInv, NEW s \in Sources, NEW memory_only \in BOOLEAN, ForgetSource(s, memory_only)
    PROVE  /\ dataset = "active" /\ (memory_only => CanReset({s}))
           /\ doc' = Documents({s}, memory_only)
           /\ source' = [source EXCEPT ![s] = Begun(memory_only)]
           /\ Takes(ForgottenRels(s), ForgottenEnts(s),
                    ForgetCommands(ForgottenChunks(s), MentionsIn(ForgottenChunks(s)),
                                   ForgottenRels(s), ForgottenEnts(s)))
           /\ summary' = IF doc[s][generation].active THEN SummaryForgotten(generation) ELSE summary
           /\ tangled' = Tangles
           /\ UNCHANGED <<generation, dataset, activation, graph>>
<1>1. DOMAIN rows = RowFields
  BY DEF IInv, TypeOK, RowFields
<1> DEFINE rels == ForgottenRels(s)
           ents == ForgottenEnts(s)
           commands == ForgetCommands(ForgottenChunks(s), MentionsIn(ForgottenChunks(s)), rels, ents)
<1>2. rows' = [rows EXCEPT !.rels = Deactivated(rows.rels, rels),
                           !.ents = Deactivated(rows.ents, ents),
                           !.out = rows.out \cup commands]
  BY DEF ForgetSource, ForgottenChunks, OtherChunks, ForgottenRels, ForgottenEnts
<1> HIDE DEF rels, ents, commands
<1>3. Takes(rels, ents, commands)
  BY <1>1, <1>2, TakesIs
<1>4. QED
  BY <1>3 DEF ForgetSource, rels, ents, commands

Known == {s \in Sources : source[s] \notin {"absent", "deleted"}}
\* The conjuncts of ForgetDataset, under names.
LEMMA ForgetDatasetIs ==
    ASSUME IInv, NEW memory_only \in BOOLEAN, ForgetDataset(memory_only)
    PROVE  /\ dataset = "active" /\ (memory_only => CanReset(Known))
           /\ dataset' = Begun(memory_only)
           /\ doc' = Documents(Known, memory_only)
           /\ source' = [s \in Sources |-> IF s \in Known THEN Begun(memory_only) ELSE source[s]]
           /\ Takes(VisibleRelations, VisibleEntities,
                    ForgetCommands(CurrentChunks, MentionsIn(CurrentChunks),
                                   VisibleRelations, VisibleEntities))
           /\ summary' = SummaryForgotten(generation)
           /\ tangled' = Tangles
           /\ UNCHANGED <<generation, activation, graph>>
<1>1. DOMAIN rows = RowFields
  BY DEF IInv, TypeOK, RowFields
<1> DEFINE rels == VisibleRelations
           ents == VisibleEntities
           commands == ForgetCommands(CurrentChunks, MentionsIn(CurrentChunks), rels, ents)
<1>2. rows' = [rows EXCEPT !.rels = Deactivated(rows.rels, rels),
                           !.ents = Deactivated(rows.ents, ents),
                           !.out = rows.out \cup commands]
  BY DEF ForgetDataset
<1> HIDE DEF rels, ents, commands
<1>3. Takes(rels, ents, commands)
  BY <1>1, <1>2, TakesIs
<1>4. QED
  BY <1>3 DEF ForgetDataset, Known, rels, ents, commands

\* The conjuncts of GraphMaintain, under names.
LEMMA MaintainIs ==
    ASSUME IInv, GraphMaintain
    PROVE  /\ dataset = "active"
           /\ Takes(Unsupported, {}, Deletes({RelationEdge(r, rows.rels[r]) : r \in Unsupported})
                                     \cup Reweighted(Unsupported))
           /\ rows'.ents = rows.ents
           /\ UNCHANGED <<generation, dataset, source, doc, summary, activation, graph, tangled>>
<1>1. DOMAIN rows = RowFields /\ rows.ents \in Seq(EntityRow)
  BY DEF IInv, TypeOK, RowFields, RowsOK, RowsType
<1> DEFINE gone == Unsupported
           commands == Deletes({RelationEdge(r, rows.rels[r]) : r \in gone}) \cup Reweighted(gone)
<1>2. rows' = [rows EXCEPT !.rels = Deactivated(rows.rels, gone), !.out = rows.out \cup commands]
  BY DEF GraphMaintain
<1> HIDE DEF gone, commands
<1>3. /\ rows'.rels = Deactivated(rows.rels, gone) /\ rows'.ents = rows.ents
      /\ rows'.mentions = rows.mentions /\ rows'.evidence = rows.evidence
      /\ rows'.out = rows.out \cup commands /\ DOMAIN rows' = RowFields
  BY <1>1, <1>2 DEF RowFields
<1>4. Deactivated(rows.ents, {}) = rows.ents
  <2>1. rows.ents = [i \in DOMAIN rows.ents |-> rows.ents[i]]
    BY <1>1
  <2>2. QED
    BY <2>1 DEF Deactivated
<1>5. Takes(gone, {}, commands)
  BY <1>3, <1>4 DEF Takes
<1>6. QED
  BY <1>3, <1>5 DEF GraphMaintain, gone, commands

-----------------------------------------------------------------------------
(* Every step keeps the rows in order, and the types *)

\* Rows stay, and an inactive one is never activated again.
Onward(k, l) ==
    /\ DOMAIN k.ents \subseteq DOMAIN l.ents /\ DOMAIN k.rels \subseteq DOMAIN l.rels
    /\ \A e \in DOMAIN k.ents : l.ents[e].active => k.ents[e].active
    /\ \A r \in DOMAIN k.rels : l.rels[r].active => k.rels[r].active
RowsGoOn ==
    /\ RowsOK(rows') /\ DOMAIN rows' = RowFields /\ Onward(rows, rows')

\* Rows that fade go on.
LEMMA FadesGoesOn ==
    ASSUME RowsOK(rows), DOMAIN rows' = RowFields, Fades(rows, rows')
    PROVE  RowsGoOn
<1>1. RowsOK(rows')
  BY FadesRows
<1>2. Onward(rows, rows')
  BY DEF Onward, Fades
<1>3. QED
  BY <1>1, <1>2 DEF RowsGoOn

\* Rows that do not change go on.
LEMMA SameRowsGoOn ==
    ASSUME IInv, rows' = rows
    PROVE  RowsGoOn
BY DEF IInv, TypeOK, RowFields, RowsGoOn, Onward

\* Rows that are taken away go on.
LEMMA TakesGoesOn ==
    ASSUME RowsOK(rows), NEW rels, NEW ents, NEW commands, Takes(rels, ents, commands)
    PROVE  RowsGoOn
<1>1. Fades(rows, rows')
  BY TakesFades
<1>2. DOMAIN rows' = RowFields
  BY DEF Takes
<1>3. QED
  BY <1>1, <1>2, FadesGoesOn

\* Rows go on when a generation is activated.
LEMMA ActivateGoesOn ==
    ASSUME IInv, NEW g \in Generations, ActivateGeneration(g)
    PROVE  RowsGoOn
<1>1. CASE generation < g
  <2>1. /\ DOMAIN rows' = RowFields
        /\ rows'.ents \in Seq(EntityRow) /\ DOMAIN rows'.ents = DOMAIN rows.ents
        /\ \A e \in DOMAIN rows.ents :
              /\ rows'.ents[e].key = rows.ents[e].key
              /\ rows'.ents[e].active = rows.ents[e].active
        /\ rows'.rels = rows.rels
        /\ rows'.mentions = rows.mentions /\ rows'.evidence = rows.evidence
    BY <1>1, ActivateRows
  <2>2. rows.rels \in Seq(RelationRow)
    BY DEF IInv, RowsOK, RowsType
  <2>3. Fades(rows, rows')
    BY <2>1, <2>2 DEF Fades, SameIdentity
  <2>4. QED
    BY <2>1, <2>3, FadesGoesOn DEF IInv
<1>2. CASE ~ (generation < g)
  <2>1. rows' = rows
    BY <1>2 DEF ActivateGeneration
  <2>2. QED
    BY <2>1, SameRowsGoOn
<1>3. QED
  BY <1>1, <1>2

\* Rows go on when sources are processed.
LEMMA ProcessGoesOn ==
    ASSUME IInv, NEW ids, NEW rebuild \in BOOLEAN, NEW failed, ProcessSources(ids, rebuild, failed)
    PROVE  RowsGoOn
<1>1. Extends(rows, rows', Target(rebuild), Built(ids, rebuild, failed),
              BuiltChunk(ids, rebuild, failed))
  BY ProcessRows
<1>2. RowsOK(rows') /\ Grows(rows, rows') /\ DOMAIN rows' = RowFields
  BY <1>1 DEF Extends, RowFields
<1>3. Onward(rows, rows')
  BY <1>2 DEF Grows, Onward
<1>4. QED
  BY <1>2, <1>3 DEF RowsGoOn

\* Rows go on when entities are merged.
LEMMA MergeGoesOn ==
    ASSUME IInv, EntityMerge
    PROVE  RowsGoOn
<1>1. PICK plan : plan = MergePlan
  OBVIOUS
<1>2. Chosen(plan) /\ Merges(rows, rows', plan) /\ RowsOK(rows)
  BY <1>1, MergeRows DEF IInv
<1>3. RowsOK(rows')
  BY <1>2, MergeRowsOK
<1>4. \A r \in DOMAIN rows.rels : rows'.rels[r].active => rows.rels[r].active
  BY <1>2, MergeRels
<1>5. Onward(rows, rows') /\ DOMAIN rows' = RowFields
  BY <1>2, <1>4 DEF Merges, Onward
<1>6. QED
  BY <1>3, <1>5 DEF RowsGoOn

\* Rows go on when the outbox is drained.
LEMMA DrainGoesOn ==
    ASSUME IInv, Drain
    PROVE  RowsGoOn
<1>1. DOMAIN rows' = RowFields /\ Fades(rows, rows')
  BY DrainRows, SameFades DEF IInv
<1>2. QED
  BY <1>1, FadesGoesOn DEF IInv

\* Rows go on in every step.
LEMMA RowsStep ==
    ASSUME IInv, [Next]_vars
    PROVE  RowsGoOn
<1>1. ASSUME NEW s \in Sources, Remember(s) PROVE RowsGoOn
  BY <1>1, SameRowsGoOn DEF Remember
<1>2. ASSUME Cognify PROVE RowsGoOn
  BY <1>2, ProcessGoesOn DEF Cognify
<1>3. ASSUME NEW g \in Generations, ActivateGeneration(g) PROVE RowsGoOn
  BY <1>3, ActivateGoesOn
<1>4. ASSUME NEW g \in Generations, AbandonRebuild(g) PROVE RowsGoOn
  BY <1>4, SameRowsGoOn DEF AbandonRebuild
<1>5. ASSUME Improve PROVE RowsGoOn
  <2>1. ASSUME EntityMerge PROVE RowsGoOn
    BY <2>1, MergeGoesOn
  <2>2. ASSUME GraphMaintain PROVE RowsGoOn
    BY <2>2, MaintainIs, TakesGoesOn DEF IInv
  <2>3. ASSUME Summaries PROVE RowsGoOn
    BY <2>3, SameRowsGoOn DEF Summaries
  <2>4. ASSUME Reconcile PROVE RowsGoOn
    BY <2>4, SameRowsGoOn DEF Reconcile
  <2>5. QED
    BY <1>5, <2>1, <2>2, <2>3, <2>4 DEF Improve
<1>6. ASSUME Forget PROVE RowsGoOn
  <2>1. ASSUME NEW s \in Sources, NEW memory_only \in BOOLEAN, ForgetSource(s, memory_only)
        PROVE  RowsGoOn
    BY <2>1, ForgetSourceIs, TakesGoesOn DEF IInv
  <2>2. ASSUME NEW memory_only \in BOOLEAN, ForgetDataset(memory_only) PROVE RowsGoOn
    BY <2>2, ForgetDatasetIs, TakesGoesOn DEF IInv
  <2>3. ASSUME NEW s \in Sources, FinishForgetSource(s) PROVE RowsGoOn
    BY <2>3, SameRowsGoOn DEF FinishForgetSource
  <2>4. ASSUME FinishForgetDataset PROVE RowsGoOn
    BY <2>4, SameRowsGoOn DEF FinishForgetDataset
  <2>5. QED
    BY <1>6, <2>1, <2>2, <2>3, <2>4 DEF Forget
<1>7. ASSUME Drain PROVE RowsGoOn
  BY <1>7, DrainGoesOn
<1>8. ASSUME UNCHANGED vars PROVE RowsGoOn
  BY <1>8, SameRowsGoOn DEF vars
<1>9. QED
  BY <1>1, <1>2, <1>3, <1>4, <1>5, <1>6, <1>7, <1>8 DEF Next

-----------------------------------------------------------------------------
(* Every step keeps the types of the rest *)

DocsGoOn ==
    doc' \in [Sources -> [Generations -> Document]] /\ Ages(doc, doc')

\* Documents that do not change go on.
LEMMA SameDocs ==
    ASSUME IInv, doc' = doc
    PROVE  DocsGoOn
BY DEF IInv, TypeOK, DocsGoOn, Ages

\* Documents go on in every step.
LEMMA DocsStep ==
    ASSUME IInv, [Next]_vars
    PROVE  DocsGoOn
<1>1. ASSUME NEW s \in Sources, Remember(s) PROVE DocsGoOn
  BY <1>1, RememberDocs DEF DocsGoOn
<1>2. ASSUME Cognify PROVE DocsGoOn
  <2>1. PICK ids \in {{}} \cup {{s} : s \in Sources}, rebuild \in BOOLEAN, failed \in SUBSET Sources :
          ProcessSources(ids, rebuild, failed)
    BY <1>2 DEF Cognify
  <2>2. QED
    BY <2>1, ProcessDocs DEF DocsGoOn
<1>3. ASSUME NEW g \in Generations, ActivateGeneration(g) PROVE DocsGoOn
  BY <1>3, SameDocs DEF ActivateGeneration
<1>4. ASSUME NEW g \in Generations, AbandonRebuild(g) PROVE DocsGoOn
  BY <1>4, SameDocs DEF AbandonRebuild
<1>5. ASSUME Improve PROVE DocsGoOn
  BY <1>5, SameDocs DEF Improve, EntityMerge, GraphMaintain, Summaries, Reconcile
<1>6. ASSUME Forget PROVE DocsGoOn
  <2>0. TypeOK
    BY DEF IInv
  <2>1. ASSUME NEW s \in Sources, NEW memory_only \in BOOLEAN, ForgetSource(s, memory_only)
        PROVE  DocsGoOn
    <3>1. doc' = Documents({s}, memory_only) /\ (memory_only => CanReset({s}))
      BY <2>1, ForgetSourceIs
    <3>2. {s} \in SUBSET Sources
      OBVIOUS
    <3>3. QED
      BY <2>0, <3>1, <3>2, ForgetDocs DEF DocsGoOn
  <2>2. ASSUME NEW memory_only \in BOOLEAN, ForgetDataset(memory_only) PROVE DocsGoOn
    <3>1. doc' = Documents(Known, memory_only) /\ (memory_only => CanReset(Known))
      BY <2>2, ForgetDatasetIs
    <3>2. Known \in SUBSET Sources
      BY DEF Known
    <3>3. QED
      BY <2>0, <3>1, <3>2, ForgetDocs DEF DocsGoOn
  <2>3. ASSUME NEW s \in Sources, FinishForgetSource(s) PROVE DocsGoOn
    BY <2>3, SameDocs DEF FinishForgetSource
  <2>4. ASSUME FinishForgetDataset PROVE DocsGoOn
    BY <2>4, SameDocs DEF FinishForgetDataset
  <2>5. QED
    BY <1>6, <2>1, <2>2, <2>3, <2>4 DEF Forget
<1>7. ASSUME Drain PROVE DocsGoOn
  BY <1>7, SameDocs DEF Drain
<1>8. ASSUME UNCHANGED vars PROVE DocsGoOn
  BY <1>8, SameDocs DEF vars
<1>9. QED
  BY <1>1, <1>2, <1>3, <1>4, <1>5, <1>6, <1>7, <1>8 DEF Next

\* The rest of TypeOK, apart from rows and documents.
RestOK ==
    /\ generation \in Generations
    /\ dataset \in {"active", "clearing", "deleting"}
    /\ source \in [Sources -> SourceStatus]
    /\ summary \in [Generations -> SUBSET ChunkIds]
    /\ activation \subseteq Generations
    /\ tangled \in BOOLEAN

\* Every step keeps the types.
LEMMA TypeStep ==
    ASSUME IInv, [Next]_vars
    PROVE  TypeOK'
<1>0. TypeOK
  BY DEF IInv
<1>1. ASSUME NEW s \in Sources, Remember(s) PROVE RestOK'
  BY <1>0, <1>1 DEF Remember, TypeOK, RestOK, SourceStatus
<1>2. ASSUME Cognify PROVE RestOK'
  <2>1. PICK ids \in {{}} \cup {{s} : s \in Sources}, rebuild \in BOOLEAN, failed \in SUBSET Sources :
          ProcessSources(ids, rebuild, failed)
    BY <1>2 DEF Cognify
  <2> DEFINE target == Target(rebuild)
             built == Built(ids, rebuild, failed)
  <2>2. /\ target \in Generations
        /\ source' = [s \in Sources |->
              IF s \in failed THEN "failed"
              ELSE IF s \in built \/ (s \in Selected(ids, rebuild) /\ HasChunk(s, target))
                   THEN "active" ELSE source[s]]
        /\ activation' = IF rebuild THEN activation \cup {target} ELSE activation
        /\ tangled' = (Tangles \/ (rebuild /\ (failed # {} \/ Merged)))
        /\ UNCHANGED <<generation, dataset, summary>>
    BY <2>1, ProcessIs
  <2> HIDE DEF target, built
  <2>3. source' \in [Sources -> SourceStatus]
    BY <1>0, <2>2 DEF TypeOK, SourceStatus
  <2>4. tangled' \in BOOLEAN
    BY <2>2
  <2>5. activation' \subseteq Generations
    BY <1>0, <2>2 DEF TypeOK
  <2>6. QED
    BY <1>0, <2>2, <2>3, <2>4, <2>5 DEF TypeOK, RestOK
<1>3. ASSUME NEW g \in Generations, ActivateGeneration(g) PROVE RestOK'
  BY <1>0, <1>3 DEF ActivateGeneration, TypeOK, RestOK
<1>4. ASSUME NEW g \in Generations, AbandonRebuild(g) PROVE RestOK'
  BY <1>0, <1>4 DEF AbandonRebuild, TypeOK, RestOK
<1>5. ASSUME Improve PROVE RestOK'
  <2>1. ASSUME EntityMerge PROVE RestOK'
    BY <1>0, <2>1, EntityMergeIs DEF TypeOK, RestOK, Tangles
  <2>2. ASSUME GraphMaintain PROVE RestOK'
    BY <1>0, <2>2 DEF GraphMaintain, TypeOK, RestOK
  <2>3. ASSUME Summaries PROVE RestOK'
    <3>1. AuthoritativeChunks \subseteq ChunkIds
      BY <1>0, CurrentIs
    <3>2. summary' \in [Generations -> SUBSET ChunkIds]
      BY <1>0, <2>3, <3>1 DEF Summaries, TypeOK
    <3>3. QED
      BY <1>0, <2>3, <3>2 DEF Summaries, TypeOK, RestOK
  <2>4. ASSUME Reconcile PROVE RestOK'
    BY <1>0, <2>4 DEF Reconcile, TypeOK, RestOK, Tangles
  <2>5. QED
    BY <1>5, <2>1, <2>2, <2>3, <2>4 DEF Improve
<1>6. ASSUME Forget PROVE RestOK'
  <2>0. SummaryForgotten(generation) \in [Generations -> SUBSET ChunkIds]
    BY <1>0 DEF SummaryForgotten, TypeOK
  <2>1. ASSUME NEW s \in Sources, NEW memory_only \in BOOLEAN, ForgetSource(s, memory_only)
        PROVE  RestOK'
    <3>1. /\ source' = [source EXCEPT ![s] = Begun(memory_only)]
          /\ summary' = IF doc[s][generation].active THEN SummaryForgotten(generation) ELSE summary
          /\ tangled' = Tangles
          /\ UNCHANGED <<generation, dataset, activation>>
      BY <2>1, ForgetSourceIs
    <3>2. source' \in [Sources -> SourceStatus]
      BY <1>0, <3>1 DEF TypeOK, SourceStatus, Begun
    <3>3. summary' \in [Generations -> SUBSET ChunkIds]
      BY <1>0, <2>0, <3>1 DEF TypeOK
    <3>4. QED
      BY <1>0, <3>1, <3>2, <3>3 DEF TypeOK, RestOK, Tangles
  <2>2. ASSUME NEW memory_only \in BOOLEAN, ForgetDataset(memory_only) PROVE RestOK'
    <3>1. /\ source' = [s \in Sources |-> IF s \in Known THEN Begun(memory_only) ELSE source[s]]
          /\ dataset' = Begun(memory_only)
          /\ summary' = SummaryForgotten(generation)
          /\ tangled' = Tangles
          /\ UNCHANGED <<generation, activation>>
      BY <2>2, ForgetDatasetIs
    <3>2. source' \in [Sources -> SourceStatus]
      BY <1>0, <3>1 DEF TypeOK, SourceStatus, Begun
    <3>3. QED
      BY <1>0, <2>0, <3>1, <3>2 DEF TypeOK, RestOK, Tangles, Begun
  <2>3. ASSUME NEW s \in Sources, FinishForgetSource(s) PROVE RestOK'
    BY <1>0, <2>3 DEF FinishForgetSource, TypeOK, RestOK, SourceStatus, Ended
  <2>4. ASSUME FinishForgetDataset PROVE RestOK'
    BY <1>0, <2>4 DEF FinishForgetDataset, TypeOK, RestOK, SourceStatus, Ended
  <2>5. QED
    BY <1>6, <2>1, <2>2, <2>3, <2>4 DEF Forget
<1>7. ASSUME Drain PROVE RestOK'
  BY <1>0, <1>7 DEF Drain, TypeOK, RestOK
<1>8. ASSUME UNCHANGED vars PROVE RestOK'
  BY <1>0, <1>8 DEF vars, TypeOK, RestOK
<1>9. RestOK'
  BY <1>1, <1>2, <1>3, <1>4, <1>5, <1>6, <1>7, <1>8 DEF Next
<1>10. doc' \in [Sources -> [Generations -> Document]]
  BY DocsStep DEF DocsGoOn
<1>11. DOMAIN rows' = {"ents", "rels", "mentions", "evidence", "out"}
  BY RowsStep DEF RowsGoOn, RowFields
<1>12. QED
  BY <1>9, <1>10, <1>11 DEF TypeOK, RestOK

-----------------------------------------------------------------------------
(* Steps that leave alone what chunks say *)

CoreOK == DocsOK /\ BornOnly /\ EntsAhead /\ RelsAhead /\ SummaryOK /\ Untangled

SameChunks ==
    \A s \in Sources, g \in Generations :
        /\ HasChunk(s, g)' <=> HasChunk(s, g)
        /\ HasChunk(s, g) => Chunk(s, g)' = Chunk(s, g)
SameTables ==
    /\ rows'.ents = rows.ents /\ rows'.rels = rows.rels
    /\ rows'.mentions = rows.mentions /\ rows'.evidence = rows.evidence
Undisturbed ==
    /\ SameTables /\ SameChunks
    /\ generation' = generation
    /\ \A s \in Sources : source'[s] = "active" <=> source[s] = "active"
    /\ activation' \subseteq activation
    /\ ~tangled' => ~tangled
    /\ dataset' # "active" => dataset # "active"

\* Same tables, same knowledge.
LEMMA SameKept ==
    ASSUME SameTables, NEW s \in Sources, NEW c, NEW g, Kept(rows, s, c, g)
    PROVE  Kept(rows', s, c, g)
<1>1. \A key, e : NamedBy(rows, c, key, e) => NamedBy(rows', c, key, e)
  BY DEF NamedBy, SameTables
<1>2. \A r \in DOMAIN rows.rels : Connects(rows, r) /\ <<r, c>> \in rows.evidence =>
         Connects(rows', r) /\ rows'.rels[r] = rows.rels[r] /\ <<r, c>> \in rows'.evidence
  BY DEF Connects, SameTables
<1>3. /\ DOMAIN rows.ents \subseteq DOMAIN rows'.ents
      /\ \A e \in DOMAIN rows.ents : Names(rows, c, e) /\ rows.ents[e].active => rows'.ents[e].active
  BY DEF SameTables
<1>4. QED
  BY <1>1, <1>2, <1>3, KeptFrame

\* Same tables, same mentions.
LEMMA SameNames ==
    ASSUME SameTables, NEW c, NEW e
    PROVE  Names(rows', c, e) <=> Names(rows, c, e)
BY DEF Names, SameTables

\* Same tables, same relations.
LEMMA SameConnects ==
    ASSUME SameTables, NEW r
    PROVE  Connects(rows', r) <=> Connects(rows, r)
BY DEF Connects, SameTables

\* A generation whose chunks and tables are the same stays sound.
LEMMA SameSound ==
    ASSUME SameTables, SameChunks, \A s \in Sources : source[s] = "active" => source'[s] = "active",
           NEW g \in Generations, Sound(g)
    PROVE  Sound(g)'
<1>1. \A s \in Sources : /\ HasChunk(s, g)' <=> HasChunk(s, g)
                         /\ HasChunk(s, g) => Chunk(s, g)' = Chunk(s, g)
  BY DEF SameChunks
<1>2. ASSUME NEW s \in Sources, HasChunk(s, g)'
      PROVE  source'[s] = "active" /\ Kept(rows', s, Chunk(s, g)', g)
  <2>1. HasChunk(s, g) /\ Chunk(s, g)' = Chunk(s, g)
    BY <1>1, <1>2
  <2>2. source[s] = "active" /\ Kept(rows, s, Chunk(s, g), g)
    BY <2>1 DEF Sound, SourcesKept
  <2>3. QED
    BY <2>1, <2>2, SameKept
<1>3. SourcesKept(g)'
  BY <1>2 DEF SourcesKept
<1>4. EntsNamed(g)'
  <2>1. ASSUME NEW e \in DOMAIN rows.ents, rows.ents[e].active, rows.ents[e].gen <= g
        PROVE  \E s \in Sources : HasChunk(s, g)' /\ Names(rows', Chunk(s, g)', e)
    <3>1. PICK s \in Sources : HasChunk(s, g) /\ Names(rows, Chunk(s, g), e)
      BY <2>1 DEF Sound, EntsNamed
    <3>2. QED
      BY <1>1, <3>1, SameNames
  <2>2. rows'.ents = rows.ents
    BY DEF SameTables
  <2>3. QED
    BY <2>1, <2>2 DEF EntsNamed
<1>5. RelsEvidenced(g)'
  <2>1. ASSUME NEW r \in DOMAIN rows.rels, Connects(rows', r), rows.rels[r].gen = g
        PROVE  \E s \in Sources : HasChunk(s, g)' /\ <<r, Chunk(s, g)'>> \in rows'.evidence
    <3>1. Connects(rows, r)
      BY <2>1, SameConnects
    <3>2. PICK s \in Sources : HasChunk(s, g) /\ <<r, Chunk(s, g)>> \in rows.evidence
      BY <2>1, <3>1 DEF Sound, RelsEvidenced
    <3>3. <<r, Chunk(s, g)'>> \in rows'.evidence
      BY <1>1, <3>2 DEF SameTables
    <3>4. QED
      BY <1>1, <3>2, <3>3
  <2>2. rows'.rels = rows.rels
    BY DEF SameTables
  <2>3. QED
    BY <2>1, <2>2 DEF RelsEvidenced
<1>6. NamesBehind(g)'
  <2>1. ASSUME NEW s \in Sources, NEW e \in DOMAIN rows.ents,
               HasChunk(s, g)', Names(rows', Chunk(s, g)', e), rows.ents[e].active
        PROVE  rows.ents[e].gen <= g
    BY <1>1, <2>1, SameNames DEF Sound, NamesBehind
  <2>2. rows'.ents = rows.ents
    BY DEF SameTables
  <2>3. QED
    BY <2>1, <2>2 DEF NamesBehind
<1>7. QED
  BY <1>3, <1>4, <1>5, <1>6 DEF Sound

\* What is ahead of the generation stays there for the same chunks.
LEMMA SameAhead ==
    ASSUME IInv, SameTables, SameChunks, generation' = generation
    PROVE  EntsAhead' /\ RelsAhead'
<1>1. ASSUME NEW g \in Generations, Reached(g) PROVE g > generation => \E s \in Sources : HasChunk(s, g)'
  BY <1>1 DEF Reached, SameChunks
<1>2. ASSUME NEW e \in DOMAIN rows.ents, rows.ents[e].active
      PROVE  rows.ents[e].gen >= generation /\ (rows.ents[e].gen > generation =>
                 \E s \in Sources : HasChunk(s, rows.ents[e].gen)')
  <2>0. rows.ents[e].gen \in Generations
    BY RowTypes DEF IInv
  <2>1. PICK g \in Generations : g = rows.ents[e].gen
    BY <2>0
  <2>2. g >= generation /\ Reached(g)
    BY <1>2, <2>1 DEF IInv, EntsAhead
  <2>3. g > generation => \E s \in Sources : HasChunk(s, g)'
    BY <1>1, <2>2
  <2>4. QED
    BY <2>1, <2>2, <2>3 DEF HasChunk, SameTables
<1>3. ASSUME NEW r \in DOMAIN rows.rels
      PROVE  rows.rels[r].gen > generation => \E s \in Sources : HasChunk(s, rows.rels[r].gen)'
  <2>0. rows.rels[r].gen \in Generations
    BY RowTypes DEF IInv
  <2>1. PICK g \in Generations : g = rows.rels[r].gen
    BY <2>0
  <2>2. Reached(g)
    BY <2>1 DEF IInv, RelsAhead
  <2>3. QED
    BY <1>1, <2>1, <2>2 DEF HasChunk, SameTables
<1>4. EntsAhead'
  BY <1>2 DEF EntsAhead, Reached, SameTables, HasChunk
<1>5. RelsAhead'
  BY <1>3 DEF RelsAhead, Reached, SameTables, HasChunk
<1>6. QED
  BY <1>4, <1>5

\* Mentions and evidence that do not change name chunks that were born.
LEMMA SameBorn ==
    ASSUME IInv, rows'.mentions = rows.mentions, rows'.evidence = rows.evidence, DocsGoOn
    PROVE  BornOnly'
BY DEF IInv, BornOnly, DocsGoOn, Ages

\* Same chunks, same current ones.
LEMMA SameCurrent ==
    ASSUME SameChunks, generation' = generation
    PROVE  CurrentChunks' = CurrentChunks
<1>1. \A q \in Sources \X Generations :
         /\ HasChunk(q[1], q[2])' <=> HasChunk(q[1], q[2])
         /\ HasChunk(q[1], q[2]) => Chunk(q[1], q[2])' = Chunk(q[1], q[2])
  <2>1. ASSUME NEW q \in Sources \X Generations
        PROVE  /\ HasChunk(q[1], q[2])' <=> HasChunk(q[1], q[2])
               /\ HasChunk(q[1], q[2]) => Chunk(q[1], q[2])' = Chunk(q[1], q[2])
    <3>1. q[1] \in Sources /\ q[2] \in Generations
      OBVIOUS
    <3>2. QED
      BY <3>1 DEF SameChunks
  <2>2. QED
    BY <2>1
<1> DEFINE pairs == {q \in Sources \X Generations : HasChunk(q[1], q[2])}
<1>2. {q \in Sources \X Generations : HasChunk(q[1], q[2])'} = pairs
  BY <1>1
<1>3. {Chunk(q[1], q[2])' : q \in pairs} = {Chunk(q[1], q[2]) : q \in pairs}
  BY <1>1
<1>4. ActiveChunks' = ActiveChunks
  BY <1>2, <1>3 DEF ActiveChunks
<1>5. QED
  BY <1>4 DEF CurrentChunks

\* A step that disturbs neither rows nor chunks keeps what they say.
LEMMA UndisturbedKeeps ==
    ASSUME IInv, TypeOK', DocsGoOn, Undisturbed
    PROVE  BornOnly' /\ EntsAhead' /\ RelsAhead' /\ Untangled' /\ CurrentChunks' = CurrentChunks
<1>1. SameTables /\ SameChunks /\ generation' = generation
  BY DEF Undisturbed
<1>2. BornOnly'
  BY <1>1, SameBorn DEF SameTables
<1>3. EntsAhead' /\ RelsAhead' /\ CurrentChunks' = CurrentChunks
  BY <1>1, SameAhead, SameCurrent
<1>4. Untangled'
  <2>1. SUFFICES ASSUME ~tangled'
                 PROVE  /\ activation' \subseteq {generation' + 1}
                        /\ \A g \in Generations : g = generation' \/ g \in activation' => Sound(g)'
                        /\ dataset' # "active" => Idle'
    BY DEF Untangled
  <2>2. /\ activation \subseteq {generation + 1}
        /\ \A g \in Generations : g = generation \/ g \in activation => Sound(g)
        /\ dataset # "active" => Idle
        /\ activation' \subseteq activation
    BY <2>1 DEF IInv, Untangled, Undisturbed
  <2>3. ASSUME NEW g \in Generations, g = generation' \/ g \in activation' PROVE Sound(g)'
    <3>1. Sound(g)
      BY <1>1, <2>2, <2>3
    <3>2. \A s \in Sources : source[s] = "active" => source'[s] = "active"
      BY DEF Undisturbed
    <3>3. QED
      BY <1>1, <3>1, <3>2, SameSound
  <2>4. ASSUME dataset' # "active" PROVE Idle'
    <3>1. Idle
      BY <2>2, <2>4 DEF Undisturbed
    <3>2. activation' = {}
      BY <2>2, <3>1 DEF Idle
    <3>3. NothingAhead'
      BY <1>1, <3>1 DEF Idle, NothingAhead, SameChunks
    <3>4. \A s \in Sources : ~HasChunk(s, generation)' /\ source'[s] # "active"
      <4>1. generation \in Generations
        BY DEF IInv, TypeOK
      <4>2. PICK g \in Generations : g = generation
        BY <4>1
      <4>3. ASSUME NEW s \in Sources PROVE ~HasChunk(s, g)' /\ source'[s] # "active"
        <5>1. ~HasChunk(s, g) /\ source[s] # "active"
          BY <3>1, <4>2 DEF Idle
        <5>2. HasChunk(s, g)' <=> HasChunk(s, g)
          BY <1>1 DEF SameChunks
        <5>3. source'[s] = "active" <=> source[s] = "active"
          BY DEF Undisturbed
        <5>4. QED
          BY <5>1, <5>2, <5>3
      <4>4. QED
        BY <1>1, <4>2, <4>3 DEF HasChunk
    <3>5. \A e \in DOMAIN rows'.ents : ~rows'.ents[e].active
      BY <1>1, <3>1 DEF Idle, SameTables
    <3>6. QED
      BY <3>2, <3>3, <3>4, <3>5 DEF Idle
  <2>5. QED
    BY <1>1, <2>2, <2>3, <2>4
<1>5. QED
  BY <1>2, <1>3, <1>4

-----------------------------------------------------------------------------
(* The light actions *)

\* Of such a step only documents and summaries have to be looked at.
LEMMA UndisturbedCore ==
    ASSUME IInv, TypeOK', DocsGoOn, Undisturbed, DocsOK', SummaryOK'
    PROVE  CoreOK'
BY UndisturbedKeeps DEF CoreOK

\* Documents that do not change stay in order.
LEMMA SameDocsOK ==
    ASSUME DocsOK, doc' = doc, generation' = generation,
           \A s \in Sources : source'[s] = "absent" => source[s] = "absent"
    PROVE  DocsOK'
BY DEF DocsOK

\* So do summaries.
LEMMA SameSummary ==
    ASSUME SummaryOK, summary' = summary, generation' = generation, CurrentChunks' = CurrentChunks
    PROVE  SummaryOK'
BY DEF SummaryOK

\* Chunks are a matter of the documents.
LEMMA DocsAlone ==
    ASSUME doc' = doc
    PROVE  SameChunks
BY DEF SameChunks, HasChunk, Chunk

\* Documents, rows and generation stay as they are.
LEMMA QuietCore ==
    ASSUME IInv, TypeOK', DocsGoOn, SameTables, doc' = doc, generation' = generation,
           summary' = summary,
           \A s \in Sources : source'[s] = "active" <=> source[s] = "active",
           \A s \in Sources : source'[s] = "absent" => source[s] = "absent",
           activation' \subseteq activation, ~tangled' => ~tangled,
           dataset' # "active" => dataset # "active"
    PROVE  CoreOK'
<1>1. SameChunks
  BY DocsAlone
<1>2. Undisturbed
  BY <1>1 DEF Undisturbed
<1>3. CurrentChunks' = CurrentChunks
  BY <1>1, SameCurrent
<1>4. DocsOK' /\ SummaryOK'
  BY <1>3, SameDocsOK, SameSummary DEF IInv
<1>5. QED
  BY <1>2, <1>4, UndisturbedCore

\* Remember keeps what chunks say.
LEMMA RememberCore ==
    ASSUME IInv, TypeOK', DocsGoOn, NEW s \in Sources, Remember(s)
    PROVE  CoreOK'
<1>1. /\ doc[s][generation] = NoDocument /\ doc'[s][generation] = PlannedDocument
      /\ \A t \in Sources, g \in Generations : t # s \/ g # generation => doc'[t][g] = doc[t][g]
  BY RememberDocs
<1>2. /\ dataset = "active" /\ source[s] = "absent" /\ source' = [source EXCEPT ![s] = "pending"]
      /\ rows' = rows /\ tangled' = tangled
      /\ UNCHANGED <<generation, dataset, summary, activation>>
  BY DEF Remember
<1>3. TypeOK /\ DocsOK /\ SummaryOK
  BY DEF IInv
<1>4. source'[s] = "pending" /\ \A t \in Sources : t # s => source'[t] = source[t]
  BY <1>2, <1>3 DEF TypeOK
<1>5. SameChunks
  <2>1. /\ NoDocument.active = FALSE /\ PlannedDocument.chunked = FALSE
    BY DEF NoDocument, PlannedDocument
  <2>2. QED
    BY <1>1, <2>1 DEF SameChunks, HasChunk, Chunk
<1>6. Undisturbed
  BY <1>2, <1>4, <1>5 DEF Undisturbed, SameTables
<1>7. CurrentChunks' = CurrentChunks
  BY <1>2, <1>5, SameCurrent
<1>8. SummaryOK'
  BY <1>2, <1>3, <1>7, SameSummary
<1>9. DocsOK'
  <2>1. ASSUME NEW t \in Sources, NEW g \in Generations
        PROVE  /\ doc'[t][g].active => doc'[t][g].id >= 1
               /\ source'[t] = "absent" => doc'[t][g] = NoDocument
               /\ g > generation =>
                    \/ doc'[t][g] = NoDocument
                    \/ g = generation + 1 /\ doc'[t][g] = RebuiltDocument
    <3>1. CASE t = s /\ g = generation
      <4>1. PlannedDocument.id = 1
        BY DEF PlannedDocument
      <4>2. ~ (g > generation)
        BY <1>3, <3>1, GenerationsAre DEF TypeOK
      <4>3. QED
        BY <1>1, <1>4, <3>1, <4>1, <4>2
    <3>2. CASE t # s \/ g # generation
      <4>1. doc'[t][g] = doc[t][g]
        BY <1>1, <3>2
      <4>2. source'[t] = "absent" => source[t] = "absent"
        BY <1>2, <1>4
      <4>3. QED
        BY <1>3, <4>1, <4>2 DEF DocsOK
    <3>3. QED
      BY <3>1, <3>2
  <2>2. QED
    BY <1>2, <2>1 DEF DocsOK
<1>10. QED
  BY <1>6, <1>8, <1>9, UndisturbedCore

\* Summaries keeps what chunks say.
LEMMA SummariesCore ==
    ASSUME IInv, TypeOK', DocsGoOn, Summaries
    PROVE  CoreOK'
<1>1. /\ summary' = [summary EXCEPT ![generation] = AuthoritativeChunks]
      /\ UNCHANGED <<generation, dataset, source, doc, rows, activation, tangled>>
  BY DEF Summaries
<1>2. SameChunks /\ SameTables
  BY <1>1, DocsAlone DEF SameTables
<1>3. Undisturbed
  BY <1>1, <1>2 DEF Undisturbed
<1>4. CurrentChunks' = CurrentChunks
  BY <1>1, <1>2, SameCurrent
<1>5. TypeOK /\ SummaryOK /\ DocsOK
  BY DEF IInv
<1>6. SummaryOK'
  <2>1. summary'[generation] = AuthoritativeChunks
        /\ \A g \in Generations : g # generation => summary'[g] = summary[g]
    BY <1>1, <1>5 DEF TypeOK
  <2>2. \A g \in Generations : g > generation => g # generation
    BY <1>5, GenerationsAre DEF TypeOK
  <2>3. AuthoritativeChunks \subseteq CurrentChunks
    BY DEF AuthoritativeChunks
  <2>4. QED
    BY <1>1, <1>4, <1>5, <2>1, <2>2, <2>3 DEF SummaryOK
<1>7. DocsOK'
  BY <1>1, <1>5, SameDocsOK
<1>8. QED
  BY <1>3, <1>6, <1>7, UndisturbedCore

\* Reconcile keeps what chunks say.
LEMMA ReconcileCore ==
    ASSUME IInv, TypeOK', DocsGoOn, Reconcile
    PROVE  CoreOK'
<1>1. tangled' = Tangles /\ UNCHANGED <<generation, dataset, source, doc, rows, summary, activation>>
  BY DEF Reconcile
<1>2. ~tangled' => ~tangled
  BY <1>1 DEF Tangles
<1>3. SameTables
  BY <1>1 DEF SameTables
<1>4. QED
  BY <1>1, <1>2, <1>3, QuietCore

\* Drain keeps what chunks say.
LEMMA DrainCore ==
    ASSUME IInv, TypeOK', DocsGoOn, Drain
    PROVE  CoreOK'
<1>1. UNCHANGED <<generation, dataset, source, doc, summary, activation, tangled>>
  BY DEF Drain
<1>2. SameTables
  BY DrainRows DEF SameTables
<1>3. QED
  BY <1>1, <1>2, QuietCore

\* Stuttering keeps what chunks say.
LEMMA StutterCore ==
    ASSUME IInv, TypeOK', DocsGoOn, UNCHANGED vars
    PROVE  CoreOK'
<1>1. UNCHANGED <<generation, dataset, source, doc, summary, activation, tangled>> /\ SameTables
  BY DEF vars, SameTables
<1>2. QED
  BY <1>1, QuietCore

\* An abandoned rebuild keeps what chunks say.
LEMMA AbandonCore ==
    ASSUME IInv, TypeOK', DocsGoOn, NEW g \in Generations, AbandonRebuild(g)
    PROVE  CoreOK'
<1>1. /\ activation' = activation \ {g}
      /\ UNCHANGED <<generation, dataset, source, doc, summary, tangled>> /\ SameTables
  BY DEF AbandonRebuild, SameTables
<1>2. QED
  BY <1>1, QuietCore

\* The end of a source's forgetting keeps what chunks say.
LEMMA FinishSourceCore ==
    ASSUME IInv, TypeOK', DocsGoOn, NEW s \in Sources, FinishForgetSource(s)
    PROVE  CoreOK'
<1>1. /\ source[s] \in {"deleting", "clearing"} /\ source' = [source EXCEPT ![s] = Ended(@)]
      /\ UNCHANGED <<generation, dataset, doc, summary, activation, tangled>> /\ SameTables
  BY DEF FinishForgetSource, SameTables
<1>2. /\ \A t \in Sources : source'[t] = "active" <=> source[t] = "active"
      /\ \A t \in Sources : source'[t] = "absent" => source[t] = "absent"
  BY <1>1 DEF IInv, TypeOK, Ended
<1>3. QED
  BY <1>1, <1>2, QuietCore

\* The end of a dataset's forgetting keeps what chunks say.
LEMMA FinishDatasetCore ==
    ASSUME IInv, TypeOK', DocsGoOn, FinishForgetDataset
    PROVE  CoreOK'
<1>1. /\ dataset' = "active"
      /\ source' = [s \in Sources |-> IF source[s] \in {"deleting", "clearing"}
                                      THEN Ended(dataset) ELSE source[s]]
      /\ UNCHANGED <<generation, doc, summary, activation, tangled>> /\ SameTables
  BY DEF FinishForgetDataset, SameTables
<1>2. /\ \A t \in Sources : source'[t] = "active" <=> source[t] = "active"
      /\ \A t \in Sources : source'[t] = "absent" => source[t] = "absent"
  BY <1>1 DEF Ended
<1>3. QED
  BY <1>1, <1>2, QuietCore

\* Nothing is unsupported in a dataset whose rebuilds were left alone.
LEMMA AllSupported ==
    ASSUME IInv, ~tangled, dataset = "active"
    PROVE  Unsupported = {}
<1>1. SUFFICES ASSUME NEW r \in Unsupported PROVE FALSE
  OBVIOUS
<1>2. r \in VisibleRelations /\ r \notin Evidenced(AuthoritativeChunks)
  BY DEF Unsupported
<1>3. TypeOK /\ RowsOK(rows)
  BY DEF IInv
<1>4. PICK g \in Generations : g = generation
  BY <1>3 DEF TypeOK
<1>5. Sound(g)
  BY <1>4 DEF IInv, Untangled
<1>6. /\ r \in DOMAIN rows.rels /\ rows.rels[r].active /\ rows.rels[r].gen = g
      /\ rows.rels[r].src \in VisibleEntities /\ rows.rels[r].dst \in VisibleEntities
  BY <1>2, <1>3, <1>4, VisibleIs
<1>7. Connects(rows, r)
  BY <1>6 DEF Connects, VisibleEntities, Visible
<1>8. PICK s \in Sources : HasChunk(s, g) /\ <<r, Chunk(s, g)>> \in rows.evidence
  BY <1>5, <1>6, <1>7 DEF Sound, RelsEvidenced
<1>9. source[s] = "active"
  BY <1>5, <1>8 DEF Sound, SourcesKept
<1>10. Chunk(s, g) \in AuthoritativeChunks
  BY <1>3, <1>4, <1>8, <1>9, ActiveIs, CurrentIs
<1>11. r \in Evidenced(AuthoritativeChunks)
  <2> DEFINE p == <<r, Chunk(s, g)>>
  <2>1. p \in {q \in rows.evidence : q[2] \in AuthoritativeChunks} /\ p[1] = r
    BY <1>8, <1>10
  <2> HIDE DEF p
  <2>2. QED
    BY <2>1 DEF Evidenced
<1>12. QED
  BY <1>2, <1>11

\* GraphMaintain keeps what chunks say.
LEMMA MaintainCore ==
    ASSUME IInv, TypeOK', DocsGoOn, GraphMaintain
    PROVE  CoreOK'
<1>1. /\ dataset = "active" /\ rows'.ents = rows.ents
      /\ Takes(Unsupported, {}, Deletes({RelationEdge(r, rows.rels[r]) : r \in Unsupported})
                                     \cup Reweighted(Unsupported))
      /\ UNCHANGED <<generation, dataset, source, doc, summary, activation, graph, tangled>>
  BY MaintainIs
<1>2. TypeOK /\ RowsOK(rows) /\ DocsOK /\ EntsAhead /\ RelsAhead /\ SummaryOK
  BY DEF IInv
<1>3. CASE ~tangled
  <2>1. Unsupported = {}
    BY <1>1, <1>3, AllSupported
  <2>2. rows'.rels = rows.rels
    <3>1. rows'.rels = Deactivated(rows.rels, {})
      BY <1>1, <2>1 DEF Takes
    <3>2. rows.rels = [i \in DOMAIN rows.rels |-> rows.rels[i]]
      BY <1>2 DEF RowsOK, RowsType
    <3>3. QED
      BY <3>1, <3>2 DEF Deactivated
  <2>3. SameTables
    BY <1>1, <2>2 DEF SameTables, Takes
  <2>4. QED
    BY <1>1, <2>3, QuietCore
<1>4. CASE tangled
  <2>1. Fades(rows, rows')
    BY <1>1, <1>2, TakesFades
  <2>2. BornOnly'
    BY <2>1, SameBorn DEF Fades
  <2>3. SameChunks
    BY <1>1, DocsAlone
  <2>4. CurrentChunks' = CurrentChunks
    BY <1>1, <2>3, SameCurrent
  <2>5. DocsOK' /\ SummaryOK'
    BY <1>1, <1>2, <2>4, SameDocsOK, SameSummary
  <2>6. EntsAhead'
    BY <1>1, <1>2 DEF EntsAhead, Reached, HasChunk
  <2>7. RelsAhead'
    <3>1. DOMAIN rows'.rels = DOMAIN rows.rels
          /\ \A r \in DOMAIN rows.rels : rows'.rels[r].gen = rows.rels[r].gen
      BY <2>1 DEF Fades, SameIdentity
    <3>2. QED
      BY <1>1, <1>2, <3>1 DEF RelsAhead, Reached, HasChunk
  <2>8. Untangled'
    BY <1>1, <1>4 DEF Untangled
  <2>9. QED
    BY <2>2, <2>5, <2>6, <2>7, <2>8 DEF CoreOK
<1>5. QED
  BY <1>2, <1>3, <1>4 DEF TypeOK

-----------------------------------------------------------------------------
(* ActivateGeneration *)

\* A rebuilt generation is sound once it is the dataset's.
LEMMA ActivateSound ==
    ASSUME IInv, TypeOK', NEW g \in Generations, ActivateGeneration(g), generation < g, Sound(g)
    PROVE  Sound(g)'
<1>1. RowsOK(rows) /\ generation \in Nat /\ g \in Nat
  BY GenerationsAre DEF IInv, TypeOK
<1>2. doc' = doc /\ source' = source
  BY DEF ActivateGeneration
<1>3. /\ DOMAIN rows'.ents = DOMAIN rows.ents
      /\ \A e \in DOMAIN rows.ents :
            /\ rows'.ents[e].key = rows.ents[e].key
            /\ rows'.ents[e].active = rows.ents[e].active
            /\ rows'.ents[e].gen = IF e \in Older(g) THEN g ELSE rows.ents[e].gen
      /\ rows'.rels = rows.rels
      /\ rows'.mentions = rows.mentions /\ rows'.evidence = rows.evidence
  BY ActivateRows
<1>4. \A c, e : Names(rows', c, e) <=> Names(rows, c, e)
  BY <1>3 DEF Names
<1>5. \A c, key, e : NamedBy(rows, c, key, e) => NamedBy(rows', c, key, e)
  BY <1>1, <1>3 DEF NamedBy, RowsOK, References
<1>6. \A r \in DOMAIN rows.rels : Connects(rows', r) <=> Connects(rows, r)
  BY <1>1, <1>3 DEF Connects, RowsOK, References
<1>7. \A s \in Sources : (HasChunk(s, g)' <=> HasChunk(s, g)) /\ Chunk(s, g)' = Chunk(s, g)
  BY <1>2 DEF HasChunk, Chunk
<1>8. \A e \in DOMAIN rows.ents :
         /\ rows'.ents[e].active => rows.ents[e].active
         /\ rows'.ents[e].gen <= g <=> rows.ents[e].gen <= g
  <2>1. ASSUME NEW e \in DOMAIN rows.ents
        PROVE  rows'.ents[e].gen <= g <=> rows.ents[e].gen <= g
    <3>1. rows.ents[e].gen \in Nat
      BY <1>1, RowTypes
    <3>2. CASE e \in Older(g)
      <4>1. rows'.ents[e].gen = g
        BY <1>3, <3>2
      <4>2. rows.ents[e].gen < g
        BY <3>2 DEF Older
      <4>3. QED
        BY <1>1, <3>1, <4>1, <4>2
    <3>3. CASE e \notin Older(g)
      BY <1>3, <3>3
    <3>4. QED
      BY <3>2, <3>3
  <2>2. QED
    BY <1>3, <2>1
<1>9. SourcesKept(g)'
  <2>1. ASSUME NEW s \in Sources, HasChunk(s, g)
        PROVE  source'[s] = "active" /\ Kept(rows', s, Chunk(s, g), g)
    <3>1. source[s] = "active" /\ Kept(rows, s, Chunk(s, g), g)
      BY <2>1 DEF Sound, SourcesKept
    <3> DEFINE c == Chunk(s, g)
    <3>2. Kept(rows, s, c, g)
      BY <3>1
    <3> HIDE DEF c
    <3>3. \A e \in DOMAIN rows.ents : Names(rows, c, e) /\ rows.ents[e].active => rows'.ents[e].active
      BY <1>3
    <3>4. \A r \in DOMAIN rows.rels : Connects(rows, r) /\ <<r, c>> \in rows.evidence =>
             Connects(rows', r) /\ rows'.rels[r] = rows.rels[r] /\ <<r, c>> \in rows'.evidence
      BY <1>3, <1>6
    <3>5. DOMAIN rows.ents \subseteq DOMAIN rows'.ents
      BY <1>3
    <3>6. Kept(rows', s, c, g)
      BY <1>5, <3>2, <3>3, <3>4, <3>5, KeptFrame
    <3>7. QED
      BY <1>2, <3>1, <3>6 DEF c
  <2>2. QED
    BY <1>7, <2>1 DEF SourcesKept
<1>10. EntsNamed(g)'
  <2>1. ASSUME NEW e \in DOMAIN rows.ents, rows'.ents[e].active, rows'.ents[e].gen <= g
        PROVE  \E s \in Sources : HasChunk(s, g)' /\ Names(rows', Chunk(s, g)', e)
    <3>1. rows.ents[e].active /\ rows.ents[e].gen <= g
      BY <1>8, <2>1
    <3>2. PICK s \in Sources : HasChunk(s, g) /\ Names(rows, Chunk(s, g), e)
      BY <3>1 DEF Sound, EntsNamed
    <3>3. QED
      BY <1>4, <1>7, <3>2
  <2>2. QED
    BY <1>3, <2>1 DEF EntsNamed
<1>11. RelsEvidenced(g)'
  <2>1. ASSUME NEW r \in DOMAIN rows.rels, Connects(rows', r), rows.rels[r].gen = g
        PROVE  \E s \in Sources : HasChunk(s, g)' /\ <<r, Chunk(s, g)'>> \in rows'.evidence
    <3>1. PICK s \in Sources : HasChunk(s, g) /\ <<r, Chunk(s, g)>> \in rows.evidence
      BY <1>6, <2>1 DEF Sound, RelsEvidenced
    <3>2. QED
      BY <1>3, <1>7, <3>1
  <2>2. QED
    BY <1>3, <2>1 DEF RelsEvidenced
<1>12. NamesBehind(g)'
  <2>1. ASSUME NEW s \in Sources, NEW e \in DOMAIN rows.ents,
               HasChunk(s, g)', Names(rows', Chunk(s, g)', e), rows'.ents[e].active
        PROVE  rows'.ents[e].gen <= g
    <3>1. HasChunk(s, g) /\ Names(rows, Chunk(s, g), e) /\ rows.ents[e].active
      BY <1>4, <1>7, <1>8, <2>1
    <3>2. rows.ents[e].gen <= g
      BY <3>1 DEF Sound, NamesBehind
    <3>3. QED
      BY <1>8, <3>2
  <2>2. QED
    BY <1>3, <2>1 DEF NamesBehind
<1>13. QED
  BY <1>9, <1>10, <1>11, <1>12 DEF Sound

\* ActivateGeneration keeps what chunks say.
LEMMA ActivateCore ==
    ASSUME IInv, TypeOK', DocsGoOn, NEW t \in Generations, ActivateGeneration(t)
    PROVE  CoreOK'
<1>1. /\ t \in activation /\ activation' = activation \ {t}
      /\ generation' = IF generation < t THEN t ELSE generation
      /\ UNCHANGED <<dataset, source, doc, summary, tangled>>
  BY DEF ActivateGeneration
<1>2. CASE ~ (generation < t)
  <2>1. SameTables
    BY <1>2 DEF ActivateGeneration, SameTables
  <2>2. QED
    BY <1>1, <1>2, <2>1, QuietCore
<1>3. CASE generation < t
  <2>1. generation' = t /\ generation \in Nat /\ t \in Nat
    BY <1>1, <1>3, GenerationsAre DEF IInv, TypeOK
  <2>2. /\ DOMAIN rows'.ents = DOMAIN rows.ents
        /\ \A e \in DOMAIN rows.ents :
              /\ rows'.ents[e].active = rows.ents[e].active
              /\ rows'.ents[e].gen = IF e \in Older(t) THEN t ELSE rows.ents[e].gen
        /\ rows'.rels = rows.rels
        /\ rows'.mentions = rows.mentions /\ rows'.evidence = rows.evidence
    BY <1>3, ActivateRows
  <2>3. TypeOK /\ RowsOK(rows) /\ DocsOK /\ EntsAhead /\ RelsAhead /\ SummaryOK
    BY DEF IInv
  <2>4. \A g \in Generations : g > t => g > generation /\ g # generation + 1
    BY <1>3, <2>1, GenerationsAre
  <2>5. DocsOK'
    BY <1>1, <2>1, <2>3, <2>4 DEF DocsOK
  <2>6. BornOnly'
    BY <2>2, SameBorn
  <2>7. ASSUME NEW g \in Generations, g > t, Reached(g)
        PROVE  \E s \in Sources : doc'[s][g].active /\ doc'[s][g].chunked
    BY <1>1, <2>4, <2>7 DEF Reached, HasChunk
  <2>8. ASSUME NEW e \in DOMAIN rows.ents, rows.ents[e].active
        PROVE  LET g == rows'.ents[e].gen
               IN  g >= t /\ (g > t => \E s \in Sources : doc'[s][g].active /\ doc'[s][g].chunked)
    <3>1. rows.ents[e].gen \in Generations /\ rows.ents[e].gen \in Nat /\ Reached(rows.ents[e].gen)
      BY <2>3, <2>8, RowTypes DEF EntsAhead
    <3>2. CASE e \in Older(t)
      <4>1. rows'.ents[e].gen = t
        BY <2>2, <3>2
      <4>2. QED
        BY <2>1, <4>1
    <3>3. CASE e \notin Older(t)
      <4>1. rows'.ents[e].gen = rows.ents[e].gen
        BY <2>2, <3>3
      <4>2. rows.ents[e].gen >= t
        BY <2>1, <2>8, <3>1, <3>3 DEF Older
      <4>3. QED
        BY <2>7, <3>1, <4>1, <4>2
    <3>4. QED
      BY <3>2, <3>3
  <2>9. EntsAhead'
    BY <2>1, <2>2, <2>8 DEF EntsAhead, Reached, HasChunk
  <2>10. RelsAhead'
    <3>1. ASSUME NEW r \in DOMAIN rows.rels
          PROVE  LET g == rows.rels[r].gen
                 IN  g > t => \E s \in Sources : doc'[s][g].active /\ doc'[s][g].chunked
      <4>1. rows.rels[r].gen \in Generations /\ Reached(rows.rels[r].gen)
        BY <2>3, RowTypes DEF RelsAhead
      <4>2. QED
        BY <2>7, <4>1
    <3>2. QED
      BY <2>1, <2>2, <3>1 DEF RelsAhead, Reached, HasChunk
  <2>11. SummaryOK'
    <3>1. \A g \in Generations : g > t => summary'[g] = {}
      BY <1>1, <2>3, <2>4 DEF SummaryOK
    <3>2. t > generation
      BY <1>3, <2>1
    <3>3. summary'[t] = {}
      BY <1>1, <2>3, <3>2 DEF SummaryOK
    <3>4. QED
      BY <2>1, <3>1, <3>3 DEF SummaryOK
  <2>12. Untangled'
    <3>1. SUFFICES ASSUME ~tangled'
                   PROVE  /\ activation' \subseteq {generation' + 1}
                          /\ \A g \in Generations : g = generation' \/ g \in activation' => Sound(g)'
                          /\ dataset' # "active" => Idle'
      BY DEF Untangled
    <3>2. activation \subseteq {generation + 1} /\ Sound(t) /\ (dataset # "active" => Idle)
      BY <1>1, <3>1 DEF IInv, Untangled
    <3>3. activation' = {}
      BY <1>1, <3>2
    <3>4. Sound(t)'
      BY <1>3, <3>2, ActivateSound
    <3>5. dataset' = "active"
      BY <1>1, <3>2 DEF Idle
    <3>6. QED
      BY <2>1, <3>3, <3>4, <3>5
  <2>13. QED
    BY <2>5, <2>6, <2>9, <2>10, <2>11, <2>12 DEF CoreOK
<1>4. QED
  BY <1>2, <1>3

-----------------------------------------------------------------------------
(* EntityMerge *)

\* A merge leaves the generation sound.
LEMMA MergeSound ==
    ASSUME IInv, TypeOK', EntityMerge, NothingAhead, NEW g \in Generations, g = generation, Sound(g)
    PROVE  Sound(g)'
<1>1. PICK plan : plan = MergePlan
  OBVIOUS
<1>2. RowsOK(rows) /\ Chosen(plan) /\ Merges(rows, rows', plan)
  BY <1>1, MergeRows DEF IInv
<1>3. doc' = doc /\ source' = source
  BY EntityMergeIs
<1>4. \A e \in DOMAIN rows.ents : rows.ents[e].active => rows.ents[e].gen = generation
  BY Settled DEF IInv
<1>5. \A s \in Sources : (HasChunk(s, g)' <=> HasChunk(s, g)) /\ Chunk(s, g)' = Chunk(s, g)
  BY <1>3 DEF HasChunk, Chunk
<1>6. /\ DOMAIN rows'.ents = DOMAIN rows.ents /\ DOMAIN rows'.rels = DOMAIN rows.rels
      /\ \A e \in DOMAIN rows.ents :
            /\ rows'.ents[e].gen = rows.ents[e].gen
            /\ rows'.ents[e].active <=> rows.ents[e].active /\ e \notin DOMAIN plan
      /\ \A r \in DOMAIN rows.rels : rows'.rels[r].gen = rows.rels[r].gen
      /\ rows.evidence \subseteq rows'.evidence
  BY <1>2 DEF Merges
<1>7. SourcesKept(g)'
  <2>1. ASSUME NEW s \in Sources, HasChunk(s, g)
        PROVE  source'[s] = "active" /\ Kept(rows', s, Chunk(s, g), g)
    <3>1. source[s] = "active" /\ Kept(rows, s, Chunk(s, g), generation)
      BY <2>1 DEF Sound, SourcesKept
    <3>2. Chunk(s, g) \in ChunkIds
      BY <2>1, ActiveIs DEF IInv
    <3>3. Kept(rows', s, Chunk(s, g), generation)
      BY <1>2, <1>4, <3>1, <3>2, MergeKeeps
    <3>4. QED
      BY <1>3, <3>1, <3>3
  <2>2. QED
    BY <1>5, <2>1 DEF SourcesKept
<1>8. EntsNamed(g)'
  <2>1. ASSUME NEW e \in DOMAIN rows.ents, rows'.ents[e].active, rows'.ents[e].gen <= g
        PROVE  \E s \in Sources : HasChunk(s, g)' /\ Names(rows', Chunk(s, g)', e)
    <3>1. rows.ents[e].active /\ e \notin DOMAIN plan /\ rows.ents[e].gen <= g
      BY <1>6, <2>1
    <3>2. PICK s \in Sources : HasChunk(s, g) /\ Names(rows, Chunk(s, g), e)
      BY <3>1 DEF Sound, EntsNamed
    <3>3. Names(rows', Chunk(s, g), To(plan, e)) /\ To(plan, e) = e
      BY <1>2, <3>1, <3>2, MergeNames, ToIs
    <3>4. QED
      BY <1>5, <3>2, <3>3
  <2>2. QED
    BY <1>6, <2>1 DEF EntsNamed
<1>9. RelsEvidenced(g)'
  <2>1. ASSUME NEW r \in DOMAIN rows.rels, Connects(rows', r), rows'.rels[r].gen = g
        PROVE  \E s \in Sources : HasChunk(s, g)' /\ <<r, Chunk(s, g)'>> \in rows'.evidence
    <3>1. Connects(rows, r) /\ rows.rels[r].gen = g
      BY <1>2, <1>6, <2>1, MergeRels
    <3>2. PICK s \in Sources : HasChunk(s, g) /\ <<r, Chunk(s, g)>> \in rows.evidence
      BY <3>1 DEF Sound, RelsEvidenced
    <3>3. QED
      BY <1>5, <1>6, <3>2
  <2>2. QED
    BY <1>6, <2>1 DEF RelsEvidenced
<1>10. NamesBehind(g)'
  <2>1. ASSUME NEW e \in DOMAIN rows.ents, rows'.ents[e].active PROVE rows'.ents[e].gen <= g
    <3>1. rows'.ents[e].gen = g
      BY <1>4, <1>6, <2>1
    <3>2. QED
      BY <3>1, GenerationsAre
  <2>2. QED
    BY <1>6, <2>1 DEF NamesBehind
<1>11. QED
  BY <1>7, <1>8, <1>9, <1>10 DEF Sound

\* EntityMerge keeps what chunks say.
LEMMA MergeCore ==
    ASSUME IInv, TypeOK', DocsGoOn, EntityMerge
    PROVE  CoreOK'
<1>1. /\ dataset = "active" /\ tangled' = Tangles
      /\ UNCHANGED <<generation, dataset, source, doc, summary, activation>>
  BY EntityMergeIs
<1>2. TypeOK /\ RowsOK(rows) /\ DocsOK /\ BornOnly /\ EntsAhead /\ RelsAhead /\ SummaryOK
  BY DEF IInv
<1>3. PICK plan : plan = MergePlan
  OBVIOUS
<1>4. Chosen(plan) /\ Merges(rows, rows', plan)
  BY <1>2, <1>3, MergeRows
<1>5. DocsOK'
  BY <1>1, <1>2, SameDocsOK
<1>6. SummaryOK'
  BY <1>1, <1>2, DocsAlone, SameCurrent, SameSummary
<1>7. BornOnly'
  <2>1. ASSUME NEW m \in rows'.mentions PROVE Born(doc', m.chunk)
    <3>1. PICK n \in rows.mentions : m.chunk = n.chunk
      BY <1>4 DEF Merges
    <3>2. QED
      BY <1>1, <1>2, <3>1 DEF BornOnly
  <2>2. ASSUME NEW p \in rows'.evidence PROVE Born(doc', p[2])
    <3>1. CASE p \in rows.evidence
      BY <1>1, <1>2, <3>1 DEF BornOnly
    <3>2. CASE p \notin rows.evidence
      <4>0. \A z \in rows'.evidence \ rows.evidence :
               \E r \in Losers(plan) : <<r, z[2]>> \in rows.evidence
        BY <1>4 DEF Merges
      <4>1. PICK r : <<r, p[2]>> \in rows.evidence
        BY <3>2, <4>0
      <4>2. PICK z \in rows.evidence : z[2] = p[2]
        BY <4>1
      <4>3. QED
        BY <1>1, <1>2, <4>2 DEF BornOnly
    <3>3. QED
      BY <3>1, <3>2
  <2>3. QED
    BY <2>1, <2>2 DEF BornOnly
<1>8. /\ DOMAIN rows'.ents = DOMAIN rows.ents /\ DOMAIN rows'.rels = DOMAIN rows.rels
      /\ \A e \in DOMAIN rows.ents :
            /\ rows'.ents[e].gen = rows.ents[e].gen
            /\ rows'.ents[e].active => rows.ents[e].active
      /\ \A r \in DOMAIN rows.rels : rows'.rels[r].gen = rows.rels[r].gen
  BY <1>4 DEF Merges
<1>9. EntsAhead'
  BY <1>1, <1>2, <1>8 DEF EntsAhead, Reached, HasChunk
<1>10. RelsAhead'
  BY <1>1, <1>2, <1>8 DEF RelsAhead, Reached, HasChunk
<1>11. Untangled'
  <2>1. SUFFICES ASSUME ~tangled'
                 PROVE  /\ activation' \subseteq {generation' + 1}
                        /\ \A g \in Generations : g = generation' \/ g \in activation' => Sound(g)'
                        /\ dataset' # "active" => Idle'
    BY DEF Untangled
  <2>2. ~tangled /\ activation = {} /\ NothingAhead
    BY <1>1, <2>1, NotTangles
  <2>3. ASSUME NEW g \in Generations, g = generation PROVE Sound(g)'
    <3>1. Sound(g)
      BY <2>2, <2>3 DEF IInv, Untangled
    <3>2. QED
      BY <2>2, <2>3, <3>1, MergeSound
  <2>4. QED
    BY <1>1, <2>2, <2>3
<1>12. QED
  BY <1>5, <1>6, <1>7, <1>9, <1>10, <1>11 DEF CoreOK

-----------------------------------------------------------------------------
(* ProcessSources *)

\* A batch builds the chunks chunk[s] of sources built in generation t.
Builds(t, built, chunk) ==
    /\ t \in Generations /\ t \in Nat /\ built \in SUBSET Sources
    /\ \A s \in built :
          /\ ~HasChunk(s, t) /\ HasChunk(s, t)' /\ Chunk(s, t)' = chunk[s]
          /\ chunk[s] \in ChunkIds /\ chunk[s][1] = s /\ chunk[s][2] = t
          /\ Born(doc', chunk[s]) /\ Live(doc', chunk[s]) /\ ~Born(doc, chunk[s])
          /\ source[s] # "absent" /\ source'[s] = "active"
    /\ \A s \in Sources, g \in Generations : s \notin built \/ g # t => doc'[s][g] = doc[s][g]
    /\ \A s \in Sources, g \in Generations :
          HasChunk(s, g) => HasChunk(s, g)' /\ Chunk(s, g)' = Chunk(s, g)
    /\ \A s \in Sources, g \in Generations :
          HasChunk(s, g)' => HasChunk(s, g) \/ (s \in built /\ g = t)
    /\ \A s \in Sources : source'[s] = "absent" => source[s] = "absent"
    /\ Extends(rows, rows', t, built, chunk)
    /\ dataset = "active" /\ UNCHANGED <<generation, dataset, summary, graph>>

\* So does a Cognify run, and then marks the sources.
Processes(t, built, chunk, rebuild, failed) ==
    /\ Builds(t, built, chunk)
    /\ rebuild => t = generation + 1 /\ activation' = activation \cup {t}
    /\ ~rebuild => t = generation /\ activation' = activation
    /\ \A s \in built : rebuild => doc'[s][t] = RebuiltDocument
    /\ \A s \in built : doc'[s][t].id >= 1
    /\ \A s \in Sources : HasChunk(s, t) /\ source[s] = "active" => source'[s] = "active"
    /\ failed = {} => \A s \in Sources : source[s] = "active" => source'[s] = "active"
    /\ tangled' = (Tangles \/ (rebuild /\ (failed # {} \/ Merged)))

\* What ProcessSources does to chunks, rows and sources.
LEMMA ProcessBuilds ==
    ASSUME IInv, NEW ids, NEW rebuild \in BOOLEAN, NEW failed, ProcessSources(ids, rebuild, failed),
           NEW t, t = Target(rebuild), NEW built, built = Built(ids, rebuild, failed),
           NEW chunk, chunk = BuiltChunk(ids, rebuild, failed)
    PROVE  Processes(t, built, chunk, rebuild, failed)
<1>1. /\ dataset = "active" /\ t \in Generations
      /\ failed \subseteq Work(ids, rebuild)
      /\ source' = [s \in Sources |->
            IF s \in failed THEN "failed"
            ELSE IF s \in built \/ (s \in Selected(ids, rebuild) /\ HasChunk(s, t))
                 THEN "active" ELSE source[s]]
      /\ activation' = IF rebuild THEN activation \cup {t} ELSE activation
      /\ tangled' = (Tangles \/ (rebuild /\ (failed # {} \/ Merged)))
      /\ UNCHANGED <<generation, dataset, summary, graph>>
  BY ProcessIs
<1>2. /\ built \in SUBSET Sources /\ built \cap failed = {}
      /\ \A s \in Work(ids, rebuild) : s \in Sources /\ source[s] \in Selectable /\ ~HasChunk(s, t)
      /\ \A s \in built : s \in Work(ids, rebuild)
  BY WorkIs DEF Built
<1>3. t \in Nat
  BY <1>1, GenerationsAre
<1>4. (rebuild => t = generation + 1) /\ (~rebuild => t = generation)
  BY DEF Target
<1>5. /\ \A s \in built : doc'[s][t].active /\ doc'[s][t].chunked
      /\ \A s \in built : rebuild => doc'[s][t] = RebuiltDocument
      /\ \A s \in Sources, g \in Generations : s \notin built \/ g # t => doc'[s][g] = doc[s][g]
      /\ \A s \in built : doc'[s][t].id >= 1
  <2>1. \A s \in built : BuiltFrom(ids, rebuild, failed)[s].id >= 1
           /\ doc'[s][t].id = BuiltFrom(ids, rebuild, failed)[s].id
    BY ProcessDocs
  <2>2. /\ \A s \in built : doc'[s][t].active /\ doc'[s][t].chunked
        /\ \A s \in built : rebuild => doc'[s][t] = RebuiltDocument
    BY ProcessDocs
  <2>3. \A s \in Sources, g \in Generations : s \notin built \/ g # t => doc'[s][g] = doc[s][g]
    BY ProcessDocs
  <2>4. QED
    BY <2>1, <2>2, <2>3
<1>6. ASSUME NEW s \in built
      PROVE  /\ ~HasChunk(s, t) /\ HasChunk(s, t)' /\ Chunk(s, t)' = chunk[s]
             /\ chunk[s] \in ChunkIds /\ chunk[s][1] = s /\ chunk[s][2] = t
             /\ Born(doc', chunk[s]) /\ Live(doc', chunk[s]) /\ ~Born(doc, chunk[s])
             /\ source[s] # "absent" /\ source'[s] = "active"
  <2>1. ~HasChunk(s, t) /\ source[s] # "absent"
    BY <1>2 DEF Selectable
  <2>2. source'[s] = "active"
    BY <1>1, <1>2
  <2>3. /\ chunk[s] \in ChunkIds /\ chunk[s][1] = s /\ chunk[s][2] = t
        /\ Born(doc', chunk[s]) /\ Live(doc', chunk[s]) /\ ~Born(doc, chunk[s])
        /\ HasChunk(s, t)' /\ Chunk(s, t)' = chunk[s]
    BY BuiltChunks
  <2>4. QED
    BY <2>1, <2>2, <2>3
<1>7. ASSUME NEW s \in Sources, NEW g \in Generations, HasChunk(s, g)
      PROVE  HasChunk(s, g)' /\ Chunk(s, g)' = Chunk(s, g)
  <2>1. s \notin built \/ g # t
    BY <1>6, <1>7
  <2>2. doc'[s][g] = doc[s][g]
    BY <1>5, <2>1
  <2>3. QED
    BY <1>7, <2>2 DEF HasChunk, Chunk
<1>8. ASSUME NEW s \in Sources, NEW g \in Generations, HasChunk(s, g)'
      PROVE  HasChunk(s, g) \/ (s \in built /\ g = t)
  BY <1>5, <1>8 DEF HasChunk
<1>9. \A s \in Sources : source'[s] = "absent" => source[s] = "absent"
  BY <1>1
<1>10. Extends(rows, rows', t, built, chunk)
  BY ProcessRows
<1>11. Builds(t, built, chunk)
  BY <1>1, <1>2, <1>3, <1>5, <1>6, <1>7, <1>8, <1>9, <1>10 DEF Builds
<1>12. \A s \in Sources : HasChunk(s, t) /\ source[s] = "active" => source'[s] = "active"
  BY <1>1, <1>2
<1>13. failed = {} => \A s \in Sources : source[s] = "active" => source'[s] = "active"
  BY <1>1
<1>14. QED
  BY <1>1, <1>4, <1>5, <1>11, <1>12, <1>13 DEF Processes

\* A rebuild of an active dataset takes up every active source.
LEMMA RebuildTakesAll ==
    ASSUME IInv, NothingAhead, NEW t, t = Target(TRUE), t \in Generations,
           NEW s \in Sources, source[s] = "active"
    PROVE  s \in Built({}, TRUE, {})
<1>1. s \in Selected({}, TRUE)
  BY DEF Selected, Selectable
<1>2. t > generation
  BY GenerationsAre DEF Target, IInv, TypeOK
<1>3. NeedsWork(s, t, {}, TRUE)
  BY <1>2 DEF NeedsWork, NothingAhead
<1>4. s \in Work({}, TRUE)
  BY <1>1, <1>3, WorkIs
<1>5. QED
  BY <1>4 DEF Built

\* What a batch does to the rows, seen from one generation.
LEMMA BuildsKeeps ==
    ASSUME IInv, NEW t, NEW built, NEW chunk, Builds(t, built, chunk), NEW g \in Generations, Sound(g)
    PROVE  /\ \A s \in Sources : HasChunk(s, g) => Kept(rows', s, Chunk(s, g)', g)
           /\ \A e \in DOMAIN rows.ents : rows'.ents[e] = rows.ents[e]
           /\ \A r \in DOMAIN rows.rels : rows'.rels[r] = rows.rels[r]
           /\ \A e \in DOMAIN rows.ents :
                 rows.ents[e].active /\ rows.ents[e].gen <= g =>
                    \E s \in Sources : HasChunk(s, g)' /\ Names(rows', Chunk(s, g)', e)
           /\ \A r \in DOMAIN rows.rels :
                 Connects(rows', r) /\ rows.rels[r].gen = g =>
                    \E s \in Sources : HasChunk(s, g)' /\ <<r, Chunk(s, g)'>> \in rows'.evidence
<1>1. RowsOK(rows)
  BY DEF IInv
<1>2. Grows(rows, rows')
  BY DEF Builds, Extends
<1>3. ASSUME NEW s \in Sources, HasChunk(s, g)
      PROVE  /\ Kept(rows', s, Chunk(s, g)', g)
             /\ HasChunk(s, g)' /\ Chunk(s, g)' = Chunk(s, g)
  <2>1. HasChunk(s, g)' /\ Chunk(s, g)' = Chunk(s, g)
    BY <1>3 DEF Builds
  <2>2. Kept(rows, s, Chunk(s, g), g)
    BY <1>3 DEF Sound, SourcesKept
  <2>3. QED
    BY <1>1, <1>2, <2>1, <2>2, GrowsKeeps
<1>4. ASSUME NEW e \in DOMAIN rows.ents, rows.ents[e].active, rows.ents[e].gen <= g
      PROVE  \E s \in Sources : HasChunk(s, g)' /\ Names(rows', Chunk(s, g)', e)
  <2>1. PICK s \in Sources : HasChunk(s, g) /\ Names(rows, Chunk(s, g), e)
    BY <1>4 DEF Sound, EntsNamed
  <2>2. Names(rows', Chunk(s, g), e)
    BY <1>2, <2>1 DEF Names, Grows
  <2>3. QED
    BY <1>3, <2>1, <2>2
<1>5. ASSUME NEW r \in DOMAIN rows.rels, Connects(rows', r), rows.rels[r].gen = g
      PROVE  \E s \in Sources : HasChunk(s, g)' /\ <<r, Chunk(s, g)'>> \in rows'.evidence
  <2>1. Connects(rows, r)
    BY <1>1, <1>2, <1>5 DEF Connects, Grows, RowsOK, References
  <2>2. PICK s \in Sources : HasChunk(s, g) /\ <<r, Chunk(s, g)>> \in rows.evidence
    BY <1>5, <2>1 DEF Sound, RelsEvidenced
  <2>3. QED
    BY <1>2, <1>3, <2>2 DEF Grows
<1>6. QED
  BY <1>2, <1>3, <1>4, <1>5 DEF Grows

\* The batch of a Cognify run in the active generation.
LEMMA CognifySound ==
    ASSUME IInv, NEW t, NEW built, NEW chunk, Builds(t, built, chunk), NothingAhead,
           t = generation, Sound(t),
           \A s \in Sources : HasChunk(s, t) /\ source[s] = "active" => source'[s] = "active"
    PROVE  Sound(t)'
<1>1. t \in Generations /\ t \in Nat /\ built \subseteq Sources
  BY DEF Builds
<1>2. Extends(rows, rows', t, built, chunk) /\ RowsOK(rows) /\ RowsOK(rows')
  BY DEF Builds, Extends, IInv
<1>3. Adds(rows, rows', t, built, chunk) /\ Says(rows', t, built, chunk)
  BY <1>2 DEF Extends
<1>4. \A s \in built : HasChunk(s, t)' /\ Chunk(s, t)' = chunk[s] /\ source'[s] = "active"
  BY DEF Builds
<1>5. SourcesKept(t)'
  <2>1. ASSUME NEW s \in Sources, HasChunk(s, t)'
        PROVE  source'[s] = "active" /\ Kept(rows', s, Chunk(s, t)', t)
    <3>1. CASE HasChunk(s, t)
      <4>1. source'[s] = "active"
        BY <3>1 DEF Sound, SourcesKept
      <4>2. Kept(rows', s, Chunk(s, t)', t)
        BY <1>1, <3>1, BuildsKeeps
      <4>3. QED
        BY <4>1, <4>2
    <3>2. CASE s \in built
      BY <1>3, <1>4, <3>2 DEF Says
    <3>3. QED
      BY <1>1, <2>1, <3>1, <3>2 DEF Builds
  <2>2. QED
    BY <2>1 DEF SourcesKept
<1>6. EntsNamed(t)'
  <2>1. ASSUME NEW e \in DOMAIN rows'.ents, rows'.ents[e].active, rows'.ents[e].gen <= t
        PROVE  \E s \in Sources : HasChunk(s, t)' /\ Names(rows', Chunk(s, t)', e)
    <3>1. CASE e \in DOMAIN rows.ents
      <4>1. rows'.ents[e] = rows.ents[e]
        BY <1>1, <3>1, BuildsKeeps
      <4>2. QED
        BY <1>1, <2>1, <3>1, <4>1, BuildsKeeps
    <3>2. CASE e \notin DOMAIN rows.ents
      <4>1. PICK s \in built : Names(rows', chunk[s], e)
        BY <1>3, <3>2 DEF Adds
      <4>2. QED
        BY <1>1, <1>4, <4>1
    <3>3. QED
      BY <3>1, <3>2
  <2>2. QED
    BY <2>1 DEF EntsNamed
<1>7. RelsEvidenced(t)'
  <2>1. ASSUME NEW r \in DOMAIN rows'.rels, Connects(rows', r), rows'.rels[r].gen = t
        PROVE  \E s \in Sources : HasChunk(s, t)' /\ <<r, Chunk(s, t)'>> \in rows'.evidence
    <3>1. CASE r \in DOMAIN rows.rels
      <4>1. rows'.rels[r] = rows.rels[r]
        BY <1>1, <3>1, BuildsKeeps
      <4>2. QED
        BY <1>1, <2>1, <3>1, <4>1, BuildsKeeps
    <3>2. CASE r \notin DOMAIN rows.rels
      <4>1. PICK s \in built : <<r, chunk[s]>> \in rows'.evidence
        BY <1>3, <3>2 DEF Adds
      <4>2. QED
        BY <1>1, <1>4, <4>1
    <3>3. QED
      BY <3>1, <3>2
  <2>2. QED
    BY <2>1 DEF RelsEvidenced
<1>8. NamesBehind(t)'
  <2>1. ASSUME NEW e \in DOMAIN rows'.ents, rows'.ents[e].active PROVE rows'.ents[e].gen <= t
    <3>1. CASE e \in DOMAIN rows.ents
      <4>1. rows'.ents[e] = rows.ents[e]
        BY <1>1, <3>1, BuildsKeeps
      <4>2. rows.ents[e].gen = t
        BY <2>1, <3>1, <4>1, Settled DEF IInv
      <4>3. QED
        BY <1>1, <4>1, <4>2
    <3>2. CASE e \notin DOMAIN rows.ents
      <4>1. rows'.ents[e].gen = t
        BY <1>3, <3>2 DEF Adds
      <4>2. QED
        BY <1>1, <4>1
    <3>3. QED
      BY <3>1, <3>2
  <2>2. QED
    BY <2>1 DEF NamesBehind
<1>9. QED
  BY <1>5, <1>6, <1>7, <1>8 DEF Sound

\* A rebuild leaves the active generation alone.
LEMMA RebuildSoundHere ==
    ASSUME IInv, NEW t, NEW built, NEW chunk, Builds(t, built, chunk), NothingAhead,
           t = generation + 1, NEW g \in Generations, g = generation, Sound(g),
           \A s \in Sources : source[s] = "active" => source'[s] = "active"
    PROVE  Sound(g)'
<1>1. t \in Generations /\ t \in Nat /\ g \in Nat /\ built \subseteq Sources /\ g # t /\ ~ (t <= g)
  BY GenerationsAre DEF Builds
<1>2. Extends(rows, rows', t, built, chunk) /\ RowsOK(rows) /\ RowsOK(rows')
  BY DEF Builds, Extends, IInv
<1>3. Adds(rows, rows', t, built, chunk)
  BY <1>2 DEF Extends
<1>4. ASSUME NEW s \in Sources, HasChunk(s, g)' PROVE HasChunk(s, g) /\ Chunk(s, g)' = Chunk(s, g)
  BY <1>1, <1>4 DEF Builds
<1>5. SourcesKept(g)'
  <2>1. ASSUME NEW s \in Sources, HasChunk(s, g)'
        PROVE  source'[s] = "active" /\ Kept(rows', s, Chunk(s, g)', g)
    <3>1. HasChunk(s, g) /\ source[s] = "active"
      BY <1>4, <2>1 DEF Sound, SourcesKept
    <3>2. Kept(rows', s, Chunk(s, g)', g)
      BY <3>1, BuildsKeeps
    <3>3. QED
      BY <3>1, <3>2
  <2>2. QED
    BY <2>1 DEF SourcesKept
<1>6. \A e \in DOMAIN rows'.ents : rows'.ents[e].gen <= g => e \in DOMAIN rows.ents
  BY <1>1, <1>3 DEF Adds
<1>7. EntsNamed(g)'
  <2>1. ASSUME NEW e \in DOMAIN rows'.ents, rows'.ents[e].active, rows'.ents[e].gen <= g
        PROVE  \E s \in Sources : HasChunk(s, g)' /\ Names(rows', Chunk(s, g)', e)
    <3>1. e \in DOMAIN rows.ents
      BY <1>6, <2>1
    <3>2. rows'.ents[e] = rows.ents[e]
      BY <3>1, BuildsKeeps
    <3>3. QED
      BY <2>1, <3>1, <3>2, BuildsKeeps
  <2>2. QED
    BY <2>1 DEF EntsNamed
<1>8. RelsEvidenced(g)'
  <2>1. ASSUME NEW r \in DOMAIN rows'.rels, Connects(rows', r), rows'.rels[r].gen = g
        PROVE  \E s \in Sources : HasChunk(s, g)' /\ <<r, Chunk(s, g)'>> \in rows'.evidence
    <3>1. r \in DOMAIN rows.rels
      BY <1>1, <1>3, <2>1 DEF Adds
    <3>2. rows'.rels[r] = rows.rels[r]
      BY <3>1, BuildsKeeps
    <3>3. QED
      BY <2>1, <3>1, <3>2, BuildsKeeps
  <2>2. QED
    BY <2>1 DEF RelsEvidenced
<1>9. NamesBehind(g)'
  <2>1. ASSUME NEW s \in Sources, NEW e \in DOMAIN rows'.ents,
               HasChunk(s, g)', Names(rows', Chunk(s, g)', e), rows'.ents[e].active
        PROVE  rows'.ents[e].gen <= g
    <3>1. HasChunk(s, g) /\ Chunk(s, g)' = Chunk(s, g)
      BY <1>4, <2>1
    <3>2. PICK m \in rows'.mentions : m.chunk = Chunk(s, g) /\ m.entity = e
      BY <2>1, <3>1 DEF Names
    <3>3. m \in rows.mentions
      <4>1. SUFFICES ASSUME m \notin rows.mentions PROVE FALSE
        OBVIOUS
      <4>2. PICK z \in built : m.chunk = chunk[z]
        BY <1>3, <4>1 DEF Adds
      <4>3. m.chunk[2] = t
        BY <4>2 DEF Builds
      <4>4. m.chunk[2] = g
        BY <3>2 DEF Chunk
      <4>5. QED
        BY <1>1, <4>3, <4>4
    <3>4. e \in DOMAIN rows.ents
      BY <1>2, <3>2, <3>3 DEF RowsOK, References
    <3>5. rows'.ents[e] = rows.ents[e]
      BY <3>4, BuildsKeeps
    <3>6. rows.ents[e].gen = g
      BY <2>1, <3>4, <3>5, Settled DEF IInv
    <3>7. QED
      BY <1>1, <3>5, <3>6
  <2>2. QED
    BY <2>1 DEF NamesBehind
<1>10. QED
  BY <1>5, <1>7, <1>8, <1>9 DEF Sound

\* A rebuild in which nothing fails, of a dataset in which nothing was
\* merged, names in the next generation whatever the active one names.
LEMMA RebuildSoundAhead ==
    ASSUME IInv, NEW t, NEW built, NEW chunk, Builds(t, built, chunk), NothingAhead,
           t = generation + 1, NEW g \in Generations, g = generation, Sound(g), ~Merged,
           \A s \in Sources : source[s] = "active" => s \in built
    PROVE  Sound(t)'
<1>1. t \in Generations /\ t \in Nat /\ g \in Nat /\ built \subseteq Sources /\ t > generation
  BY GenerationsAre DEF Builds
<1>2. Extends(rows, rows', t, built, chunk) /\ RowsOK(rows) /\ RowsOK(rows')
  BY DEF Builds, Extends, IInv
<1>3. Adds(rows, rows', t, built, chunk) /\ Says(rows', t, built, chunk)
  BY <1>2 DEF Extends
<1>4. \A s \in built : HasChunk(s, t)' /\ Chunk(s, t)' = chunk[s] /\ source'[s] = "active"
  BY DEF Builds
<1>5. \A s \in Sources : HasChunk(s, t)' => s \in built
  BY <1>1 DEF Builds, NothingAhead
<1>6. SourcesKept(t)'
  BY <1>3, <1>4, <1>5 DEF SourcesKept, Says
<1>7. EntsNamed(t)'
  <2>1. ASSUME NEW e \in DOMAIN rows'.ents, rows'.ents[e].active
        PROVE  \E s \in Sources : HasChunk(s, t)' /\ Names(rows', Chunk(s, t)', e)
    <3>1. CASE e \notin DOMAIN rows.ents
      <4>1. PICK s \in built : Names(rows', chunk[s], e)
        BY <1>3, <3>1 DEF Adds
      <4>2. QED
        BY <1>1, <1>4, <4>1
    <3>2. CASE e \in DOMAIN rows.ents
      <4>1. rows'.ents[e] = rows.ents[e]
        BY <3>2, BuildsKeeps
      <4>2. rows.ents[e].active /\ rows.ents[e].gen <= g
        BY <1>1, <2>1, <3>2, <4>1, Settled DEF IInv
      <4>3. PICK s \in Sources : HasChunk(s, g) /\ Names(rows, Chunk(s, g), e)
        BY <3>2, <4>2 DEF Sound, EntsNamed
      <4>4. source[s] = "active" /\ s \in built
        BY <4>3 DEF Sound, SourcesKept
      <4>5. PICK m \in rows.mentions : m.chunk = Chunk(s, g) /\ m.entity = e
        BY <4>3 DEF Names
      <4>6. m.of = e
        BY <4>5 DEF Merged
      <4>7. rows.ents[e].key \in Keyed[s]
        <5>1. rows.ents[m.of].key \in Keyed[m.chunk[1]]
          BY <1>2 DEF RowsOK, MentionsKeyed
        <5>2. m.chunk[1] = s
          BY <4>5 DEF Chunk
        <5>3. QED
          BY <4>6, <5>1, <5>2
      <4>8. PICK d \in DOMAIN rows'.ents :
              /\ rows'.ents[d].active /\ rows'.ents[d].key = rows.ents[e].key
              /\ Names(rows', chunk[s], d)
        BY <1>3, <4>4, <4>7 DEF Says
      <4>9. d = e
        BY <1>2, <2>1, <4>1, <4>8 DEF RowsOK, KeyOnce
      <4>10. QED
        BY <1>4, <4>4, <4>8, <4>9
    <3>3. QED
      BY <3>1, <3>2
  <2>2. QED
    BY <2>1 DEF EntsNamed
<1>8. RelsEvidenced(t)'
  <2>1. ASSUME NEW r \in DOMAIN rows'.rels, rows'.rels[r].gen = t
        PROVE  \E s \in Sources : HasChunk(s, t)' /\ <<r, Chunk(s, t)'>> \in rows'.evidence
    <3>1. r \notin DOMAIN rows.rels
      <4>1. SUFFICES ASSUME r \in DOMAIN rows.rels PROVE FALSE
        OBVIOUS
      <4>2. rows'.rels[r] = rows.rels[r]
        BY <4>1, BuildsKeeps
      <4>3. rows.rels[r].gen <= generation
        BY <4>1, Settled DEF IInv
      <4>4. QED
        BY <1>1, <2>1, <4>2, <4>3
    <3>2. PICK s \in built : <<r, chunk[s]>> \in rows'.evidence
      BY <1>3, <3>1 DEF Adds
    <3>3. QED
      BY <1>1, <1>4, <3>2
  <2>2. QED
    BY <2>1 DEF RelsEvidenced
<1>9. NamesBehind(t)'
  <2>1. ASSUME NEW e \in DOMAIN rows'.ents, rows'.ents[e].active PROVE rows'.ents[e].gen <= t
    <3>1. CASE e \in DOMAIN rows.ents
      <4>1. rows'.ents[e] = rows.ents[e]
        BY <3>1, BuildsKeeps
      <4>2. rows.ents[e].gen = generation
        BY <2>1, <3>1, <4>1, Settled DEF IInv
      <4>3. QED
        BY <1>1, <4>1, <4>2
    <3>2. CASE e \notin DOMAIN rows.ents
      <4>1. rows'.ents[e].gen = t
        BY <1>3, <3>2 DEF Adds
      <4>2. QED
        BY <1>1, <4>1
    <3>3. QED
      BY <3>1, <3>2
  <2>2. QED
    BY <2>1 DEF NamesBehind
<1>10. QED
  BY <1>6, <1>7, <1>8, <1>9 DEF Sound

\* New rows are there for the new chunks.
LEMMA BuildsAhead ==
    ASSUME IInv, NEW t, NEW built, NEW chunk, Builds(t, built, chunk), t >= generation
    PROVE  EntsAhead' /\ RelsAhead' /\ SummaryOK'
<1> DEFINE Has(s, g) == doc'[s][g].active /\ doc'[s][g].chunked
<1>1. /\ t \in Generations /\ t \in Nat /\ built \subseteq Sources /\ generation \in Nat
      /\ generation' = generation /\ summary' = summary
  BY GenerationsAre DEF Builds, IInv, TypeOK
<1>2. /\ RowsOK(rows) /\ RowsOK(rows') /\ Grows(rows, rows') /\ Adds(rows, rows', t, built, chunk)
      /\ EntsAhead /\ RelsAhead /\ SummaryOK
  BY DEF Builds, Extends, IInv
<1>3. ASSUME NEW g \in Generations, Reached(g), g > generation PROVE \E s \in Sources : Has(s, g)
  <2>1. PICK s \in Sources : HasChunk(s, g)
    BY <1>3 DEF Reached
  <2>2. HasChunk(s, g)'
    BY <2>1 DEF Builds
  <2>3. QED
    BY <2>2 DEF HasChunk
<1>4. \A s \in built : Has(s, t)
  <2>1. \A s \in built : HasChunk(s, t)'
    BY DEF Builds
  <2>2. QED
    BY <2>1 DEF HasChunk
<1>5. ASSUME NEW e \in DOMAIN rows'.ents, rows'.ents[e].active
      PROVE  LET g == rows'.ents[e].gen
             IN  g >= generation /\ (g > generation => \E s \in Sources : Has(s, g))
  <2>1. CASE e \in DOMAIN rows.ents
    <3>1. rows'.ents[e] = rows.ents[e] /\ rows.ents[e].gen \in Generations
      BY <1>2, <2>1, RowTypes DEF Grows
    <3>2. rows.ents[e].gen >= generation /\ Reached(rows.ents[e].gen)
      BY <1>2, <1>5, <2>1, <3>1 DEF EntsAhead
    <3>3. QED
      BY <1>3, <3>1, <3>2
  <2>2. CASE e \notin DOMAIN rows.ents
    <3>1. rows'.ents[e].gen = t /\ \E s \in built : TRUE
      BY <1>2, <2>2 DEF Adds
    <3>2. \E s \in Sources : Has(s, t)
      BY <1>1, <1>4, <3>1
    <3>3. QED
      BY <3>1, <3>2
  <2>3. QED
    BY <2>1, <2>2
<1>6. ASSUME NEW r \in DOMAIN rows'.rels
      PROVE  LET g == rows'.rels[r].gen
             IN  g > generation => \E s \in Sources : Has(s, g)
  <2>1. CASE r \in DOMAIN rows.rels
    <3>1. rows'.rels[r] = rows.rels[r] /\ rows.rels[r].gen \in Generations
      BY <1>2, <2>1, RowTypes DEF Grows
    <3>2. Reached(rows.rels[r].gen)
      BY <1>2, <2>1 DEF RelsAhead
    <3>3. QED
      BY <1>3, <3>1, <3>2
  <2>2. CASE r \notin DOMAIN rows.rels
    <3>1. rows'.rels[r].gen = t /\ \E s \in built : TRUE
      BY <1>2, <2>2 DEF Adds
    <3>2. \E s \in Sources : Has(s, t)
      BY <1>1, <1>4, <3>1
    <3>3. QED
      BY <3>1, <3>2
  <2>3. QED
    BY <2>1, <2>2
<1>7. EntsAhead'
  BY <1>1, <1>5 DEF EntsAhead, Reached, HasChunk
<1>8. RelsAhead'
  BY <1>1, <1>6 DEF RelsAhead, Reached, HasChunk
<1>9. SummaryOK'
  <2>1. CurrentChunks \subseteq CurrentChunks'
    <3>1. ASSUME NEW c \in CurrentChunks PROVE c \in CurrentChunks'
      <4>1. c \in ActiveChunks /\ c[2] = generation
        BY DEF CurrentChunks
      <4>2. PICK q \in Sources \X Generations : HasChunk(q[1], q[2]) /\ c = Chunk(q[1], q[2])
        BY <4>1 DEF ActiveChunks
      <4>3. q[1] \in Sources /\ q[2] \in Generations
        OBVIOUS
      <4>4. HasChunk(q[1], q[2])' /\ c = Chunk(q[1], q[2])'
        BY <4>2, <4>3 DEF Builds
      <4>5. c \in ActiveChunks'
        BY <4>4 DEF ActiveChunks
      <4>6. QED
        BY <1>1, <4>1, <4>5 DEF CurrentChunks
    <3>2. QED
      BY <3>1
  <2>2. QED
    BY <1>1, <1>2, <2>1 DEF SummaryOK
<1>10. QED
  BY <1>7, <1>8, <1>9

\* New mentions and evidence name the new chunks.
LEMMA BuildsBorn ==
    ASSUME IInv, DocsGoOn, NEW t, NEW built, NEW chunk, Builds(t, built, chunk)
    PROVE  BornOnly'
<1>1. Adds(rows, rows', t, built, chunk)
  BY DEF Builds, Extends
<1>2. \A s \in built : Born(doc', chunk[s])
  BY DEF Builds
<1>3. \A c : Born(doc, c) => Born(doc', c)
  BY DEF DocsGoOn, Ages
<1>4. ASSUME NEW m \in rows'.mentions PROVE Born(doc', m.chunk)
  <2>1. CASE m \in rows.mentions
    BY <1>3, <2>1 DEF IInv, BornOnly
  <2>2. CASE m \notin rows.mentions
    BY <1>1, <1>2, <2>2 DEF Adds
  <2>3. QED
    BY <2>1, <2>2
<1>5. ASSUME NEW p \in rows'.evidence PROVE Born(doc', p[2])
  <2>1. CASE p \in rows.evidence
    BY <1>3, <2>1 DEF IInv, BornOnly
  <2>2. CASE p \notin rows.evidence
    BY <1>1, <1>2, <2>2 DEF Adds
  <2>3. QED
    BY <2>1, <2>2
<1>6. QED
  BY <1>4, <1>5 DEF BornOnly

\* ProcessSources keeps what chunks say.
LEMMA ProcessCore ==
    ASSUME IInv, TypeOK', DocsGoOn, NEW ids, NEW rebuild \in BOOLEAN, NEW failed,
           rebuild => ids = {}, ProcessSources(ids, rebuild, failed)
    PROVE  CoreOK'
<1>1. PICK t : t = Target(rebuild)
  OBVIOUS
<1>2. PICK built : built = Built(ids, rebuild, failed)
  OBVIOUS
<1>3. PICK chunk : chunk = BuiltChunk(ids, rebuild, failed)
  OBVIOUS
<1>0. Processes(t, built, chunk, rebuild, failed)
  BY <1>1, <1>2, <1>3, ProcessBuilds
<1>4. /\ Builds(t, built, chunk)
      /\ rebuild => t = generation + 1 /\ activation' = activation \cup {t}
      /\ ~rebuild => t = generation /\ activation' = activation
      /\ \A s \in built : rebuild => doc'[s][t] = RebuiltDocument
      /\ \A s \in built : doc'[s][t].id >= 1
      /\ \A s \in Sources : HasChunk(s, t) /\ source[s] = "active" => source'[s] = "active"
      /\ failed = {} => \A s \in Sources : source[s] = "active" => source'[s] = "active"
      /\ tangled' = (Tangles \/ (rebuild /\ (failed # {} \/ Merged)))
  BY <1>0 DEF Processes
<1>5. /\ t \in Generations /\ t \in Nat /\ generation \in Nat /\ generation \in Generations
      /\ built \subseteq Sources
      /\ generation' = generation /\ dataset = "active" /\ dataset' = "active"
  BY <1>4, GenerationsAre DEF Builds, IInv, TypeOK
<1>6. t >= generation
  BY <1>4, <1>5
<1>7. EntsAhead' /\ RelsAhead' /\ SummaryOK'
  BY <1>4, <1>6, BuildsAhead
<1>8. BornOnly'
  BY <1>4, BuildsBorn
<1>9. DocsOK'
  <2>1. ASSUME NEW s \in Sources, NEW g \in Generations
        PROVE  /\ doc'[s][g].active => doc'[s][g].id >= 1
               /\ source'[s] = "absent" => doc'[s][g] = NoDocument
               /\ g > generation =>
                    \/ doc'[s][g] = NoDocument
                    \/ g = generation + 1 /\ doc'[s][g] = RebuiltDocument
    <3>1. CASE s \in built /\ g = t
      <4>1. source'[s] # "absent"
        BY <1>4, <3>1 DEF Builds
      <4>2. g > generation => rebuild
        BY <1>4, <1>5, <3>1
      <4>3. QED
        BY <1>4, <3>1, <4>1, <4>2
    <3>2. CASE s \notin built \/ g # t
      <4>1. doc'[s][g] = doc[s][g] /\ (source'[s] = "absent" => source[s] = "absent")
        BY <1>4, <3>2 DEF Builds
      <4>2. QED
        BY <4>1 DEF IInv, DocsOK
    <3>3. QED
      BY <3>1, <3>2
  <2>2. QED
    BY <1>5, <2>1 DEF DocsOK
<1>10. Untangled'
  <2>1. SUFFICES ASSUME ~tangled'
                 PROVE  /\ activation' \subseteq {generation' + 1}
                        /\ \A g \in Generations : g = generation' \/ g \in activation' => Sound(g)'
                        /\ dataset' # "active" => Idle'
    BY DEF Untangled
  <2>2. ~Tangles /\ (rebuild => failed = {} /\ ~Merged)
    BY <1>4, <2>1
  <2>3. ~tangled /\ activation = {} /\ NothingAhead
    BY <2>2, NotTangles
  <2>4. ASSUME NEW g \in Generations, g = generation PROVE Sound(g)
    BY <2>3, <2>4 DEF IInv, Untangled
  <2>5. CASE ~rebuild
    <3>1. Sound(t)'
      BY <1>4, <1>5, <2>3, <2>4, <2>5, CognifySound
    <3>2. QED
      BY <1>4, <1>5, <2>3, <2>5, <3>1
  <2>6. CASE rebuild
    <3>1. failed = {} /\ ids = {} /\ ~Merged /\ rebuild = TRUE
      BY <2>2, <2>6
    <3>2. ASSUME NEW s \in Sources, source[s] = "active" PROVE s \in built
      BY <1>1, <1>2, <1>5, <2>3, <3>1, <3>2, RebuildTakesAll
    <3>3. ASSUME NEW g \in Generations, g = generation PROVE Sound(g)'
      BY <1>4, <2>3, <2>4, <2>6, <3>1, <3>3, RebuildSoundHere
    <3>4. Sound(t)'
      <4>1. PICK g \in Generations : g = generation
        BY <1>5
      <4>2. Sound(g)
        BY <2>4, <4>1
      <4>3. t = generation + 1
        BY <1>4, <2>6
      <4>4. QED
        BY <1>4, <2>3, <3>1, <3>2, <4>1, <4>2, <4>3, RebuildSoundAhead
    <3>5. QED
      BY <1>4, <1>5, <2>3, <2>6, <3>3, <3>4
  <2>7. QED
    BY <2>5, <2>6
<1>11. QED
  BY <1>7, <1>8, <1>9, <1>10 DEF CoreOK

-----------------------------------------------------------------------------
(* Forget *)

\* The current documents of the sources S end, those of the others stay.
Ends(S) ==
    \A t \in Sources, g \in Generations :
        /\ ~Ended_(S, t, g) => doc'[t][g] = doc[t][g]
        /\ Ended_(S, t, g) => (doc'[t][g].active => doc'[t][g].id >= 1) /\ ~HasChunk(t, g)'

\* A forget does end the documents of its sources.
LEMMA ForgetEnds ==
    ASSUME IInv, NEW S \in SUBSET Sources, NEW memory_only \in BOOLEAN,
           memory_only => CanReset(S), doc' = Documents(S, memory_only)
    PROVE  Ends(S)
<1>1. TypeOK
  BY DEF IInv
<1>2. ASSUME NEW t \in Sources, NEW g \in Generations
      PROVE  /\ ~Ended_(S, t, g) => doc'[t][g] = doc[t][g]
             /\ Ended_(S, t, g) => (doc'[t][g].active => doc'[t][g].id >= 1)
             /\ Ended_(S, t, g) => ~ (doc'[t][g].active /\ doc'[t][g].chunked)
  BY <1>1, ForgetDocs
<1>3. QED
  BY <1>2 DEF Ends, HasChunk

\* Chunks only go, and those of the sources forgotten all do.
LEMMA EndsChunks ==
    ASSUME NEW S, Ends(S), NEW t \in Sources, NEW g \in Generations
    PROVE  /\ HasChunk(t, g)' => HasChunk(t, g) /\ Chunk(t, g)' = Chunk(t, g)
           /\ g # generation \/ t \notin S =>
                (HasChunk(t, g) => HasChunk(t, g)' /\ Chunk(t, g)' = Chunk(t, g))
           /\ g = generation /\ t \in S => ~HasChunk(t, g)'
<1>1. CASE Ended_(S, t, g)
  BY <1>1 DEF Ends, Ended_
<1>2. CASE ~Ended_(S, t, g)
  <2>1. doc'[t][g] = doc[t][g]
    BY <1>2 DEF Ends
  <2>2. HasChunk(t, g)' <=> HasChunk(t, g)
    BY <2>1 DEF HasChunk
  <2>3. HasChunk(t, g) /\ g = generation => t \notin S
    BY <1>2 DEF Ended_, HasChunk
  <2>4. Chunk(t, g)' = Chunk(t, g)
    BY <2>1 DEF Chunk
  <2>5. QED
    BY <2>2, <2>3, <2>4
<1>3. QED
  BY <1>1, <1>2

\* What holds of a forget whether the dataset's rebuilds were left alone or not.
LEMMA EndsCore ==
    ASSUME IInv, TypeOK', DocsGoOn, NEW S, Ends(S),
           NEW rels, NEW ents, NEW commands, Takes(rels, ents, commands),
           generation' = generation,
           \A t \in Sources : source'[t] = "absent" => source[t] = "absent"
    PROVE  DocsOK' /\ BornOnly' /\ EntsAhead' /\ RelsAhead'
<1>1. TypeOK /\ RowsOK(rows) /\ DocsOK /\ EntsAhead /\ RelsAhead
  BY DEF IInv
<1>2. /\ Fades(rows, rows')
      /\ \A e \in DOMAIN rows.ents :
            /\ rows'.ents[e].gen = rows.ents[e].gen
            /\ rows'.ents[e].active => rows.ents[e].active
  BY <1>1, TakesFades
<1>3. DocsOK'
  <2>1. ASSUME NEW t \in Sources, NEW g \in Generations
        PROVE  /\ doc'[t][g].active => doc'[t][g].id >= 1
               /\ source'[t] = "absent" => doc'[t][g] = NoDocument
               /\ g > generation =>
                    \/ doc'[t][g] = NoDocument
                    \/ g = generation + 1 /\ doc'[t][g] = RebuiltDocument
    <3>1. CASE Ended_(S, t, g)
      <4>1. doc[t][g].active /\ g = generation
        BY <3>1 DEF Ended_
      <4>2. source[t] # "absent"
        BY <1>1, <4>1 DEF DocsOK, NoDocument
      <4>3. ~ (g > generation)
        BY <1>1, <4>1, GenerationsAre DEF TypeOK
      <4>4. QED
        BY <3>1, <4>2, <4>3 DEF Ends
    <3>2. CASE ~Ended_(S, t, g)
      <4>1. doc'[t][g] = doc[t][g]
        BY <3>2 DEF Ends
      <4>2. QED
        BY <1>1, <4>1 DEF DocsOK
    <3>3. QED
      BY <3>1, <3>2
  <2>2. QED
    BY <2>1 DEF DocsOK
<1>4. BornOnly'
  BY <1>2, SameBorn DEF Fades
<1>5. ASSUME NEW g \in Generations, Reached(g), g > generation
      PROVE  \E t \in Sources : doc'[t][g].active /\ doc'[t][g].chunked
  <2>1. PICK t \in Sources : HasChunk(t, g)
    BY <1>5 DEF Reached
  <2>2. g # generation
    BY <1>1, <1>5, GenerationsAre DEF TypeOK
  <2>3. HasChunk(t, g)'
    BY <2>1, <2>2, EndsChunks
  <2>4. QED
    BY <2>3 DEF HasChunk
<1>6. EntsAhead'
  <2>1. ASSUME NEW e \in DOMAIN rows.ents, rows.ents[e].active
        PROVE  LET g == rows.ents[e].gen
               IN  /\ g >= generation
                   /\ g > generation => \E t \in Sources : doc'[t][g].active /\ doc'[t][g].chunked
    <3>1. rows.ents[e].gen \in Generations
      BY <1>1, RowTypes
    <3>2. rows.ents[e].gen >= generation /\ Reached(rows.ents[e].gen)
      BY <1>1, <2>1 DEF EntsAhead
    <3>3. QED
      BY <1>5, <3>1, <3>2
  <2>2. QED
    BY <1>2, <2>1 DEF EntsAhead, Reached, HasChunk, Fades
<1>7. RelsAhead'
  <2>1. ASSUME NEW r \in DOMAIN rows.rels
        PROVE  LET g == rows.rels[r].gen
               IN  g > generation => \E t \in Sources : doc'[t][g].active /\ doc'[t][g].chunked
    <3>1. rows.rels[r].gen \in Generations
      BY <1>1, RowTypes
    <3>2. Reached(rows.rels[r].gen)
      BY <1>1 DEF RelsAhead
    <3>3. QED
      BY <1>5, <3>1, <3>2
  <2>2. \A r \in DOMAIN rows.rels : rows'.rels[r].gen = rows.rels[r].gen
    BY <1>2 DEF Fades, SameIdentity
  <2>3. QED
    BY <1>2, <2>1, <2>2 DEF RelsAhead, Reached, HasChunk, Fades
<1>8. QED
  BY <1>3, <1>4, <1>6, <1>7

\* The chunks that stay when source s0 is forgotten, and what they hold.
LEMMA OthersHold ==
    ASSUME IInv, NEW s0 \in Sources, NEW g \in Generations, g = generation, Sound(g),
           dataset = "active", NEW s \in Sources, s # s0, HasChunk(s, g)
    PROVE  /\ Chunk(s, g) \in OtherChunks(s0)
           /\ \A e : Names(rows, Chunk(s, g), e) => e \notin ForgottenEnts(s0)
           /\ \A r : <<r, Chunk(s, g)>> \in rows.evidence => r \notin ForgottenRels(s0)
<1> DEFINE c == Chunk(s, g)
<1>1. /\ c \in ChunkIds /\ Live(doc, c) /\ c[1] = s /\ c[2] = g
      /\ source[s] = "active"
  BY ActiveIs DEF IInv, Sound, SourcesKept
<1> HIDE DEF c
<1>2. c \in AuthoritativeChunks
  BY <1>1, CurrentIs DEF IInv
<1>3. c \in OtherChunks(s0)
  BY <1>1, <1>2 DEF OtherChunks, ForgottenChunks
<1>4. ASSUME NEW e, Names(rows, c, e) PROVE e \in Mentioned(OtherChunks(s0))
  BY <1>3, <1>4 DEF Names, Mentioned, MentionsIn
<1>5. ASSUME NEW r, <<r, c>> \in rows.evidence PROVE r \in Evidenced(OtherChunks(s0))
  <2> DEFINE p == <<r, c>>
  <2>1. p \in {q \in rows.evidence : q[2] \in OtherChunks(s0)} /\ p[1] = r
    BY <1>3, <1>5
  <2> HIDE DEF p
  <2>2. QED
    BY <2>1 DEF Evidenced
<1>6. \A e : Names(rows, c, e) => e \notin ForgottenEnts(s0)
  BY <1>4 DEF ForgottenEnts
<1>7. \A r : <<r, c>> \in rows.evidence => r \notin ForgottenRels(s0)
  BY <1>5 DEF ForgottenRels
<1>8. QED
  BY <1>3, <1>6, <1>7 DEF c

\* Any chunk but those of s0, as the forget of s0 sees it.
LEMMA OtherIs ==
    ASSUME IInv, NEW s0 \in Sources, NEW g \in Generations, g = generation,
           NEW c \in OtherChunks(s0)
    PROVE  \E s \in Sources : s # s0 /\ HasChunk(s, g) /\ c = Chunk(s, g)
<1>1. c \in AuthoritativeChunks /\ c \notin ForgottenChunks(s0)
  BY DEF OtherChunks
<1>2. c \in ChunkIds /\ Live(doc, c) /\ c[2] = g
  BY <1>1, CurrentIs DEF IInv
<1>3. c[1] # s0
  BY <1>1 DEF ForgottenChunks, AuthoritativeChunks
<1>4. QED
  BY <1>2, <1>3, ActiveIs DEF IInv

\* A visible relation that is not forgotten is stated by another source.
LEMMA RelationStays ==
    ASSUME IInv, NEW s0 \in Sources, NEW g \in Generations, g = generation, Sound(g),
           NEW r \in VisibleRelations \ ForgottenRels(s0)
    PROVE  \E s \in Sources : s # s0 /\ HasChunk(s, g) /\ <<r, Chunk(s, g)>> \in rows.evidence
<1>1. RowsOK(rows) /\ TypeOK
  BY DEF IInv
<1>2. /\ r \in DOMAIN rows.rels /\ rows.rels[r].active /\ rows.rels[r].gen = g
      /\ rows.rels[r].src \in VisibleEntities /\ rows.rels[r].dst \in VisibleEntities
  BY <1>1, VisibleIs
<1>3. Connects(rows, r)
  BY <1>2 DEF Connects, VisibleEntities, Visible
<1>4. PICK s \in Sources : HasChunk(s, g) /\ <<r, Chunk(s, g)>> \in rows.evidence
  BY <1>2, <1>3 DEF Sound, RelsEvidenced
<1>5. CASE s # s0
  BY <1>4, <1>5
<1>6. CASE s = s0
  <2>1. Chunk(s, g) \in ForgottenChunks(s0)
    BY <1>1, <1>4, <1>6, ActiveIs, CurrentIs DEF ForgottenChunks
  <2>2. r \in Evidenced(ForgottenChunks(s0))
    <3> DEFINE p == <<r, Chunk(s, g)>>
    <3>1. p \in {q \in rows.evidence : q[2] \in ForgottenChunks(s0)} /\ p[1] = r
      BY <1>4, <2>1
    <3> HIDE DEF p
    <3>2. QED
      BY <3>1 DEF Evidenced
  <2>3. r \in Evidenced(OtherChunks(s0))
    BY <2>2 DEF ForgottenRels
  <2>4. PICK p \in rows.evidence : p[2] \in OtherChunks(s0) /\ p[1] = r
    BY <2>3 DEF Evidenced
  <2>5. p = <<r, p[2]>>
    BY <1>1, <2>4 DEF RowsOK, RowsType
  <2>6. PICK t \in Sources : t # s0 /\ HasChunk(t, g) /\ p[2] = Chunk(t, g)
    BY <2>4, OtherIs
  <2>7. QED
    BY <2>4, <2>5, <2>6
<1>7. QED
  BY <1>5, <1>6

\* So is an active entity.
LEMMA EntityStays ==
    ASSUME IInv, NEW s0 \in Sources, NEW g \in Generations, g = generation, Sound(g),
           NEW e \in VisibleEntities \ ForgottenEnts(s0)
    PROVE  \E s \in Sources : s # s0 /\ HasChunk(s, g) /\ Names(rows, Chunk(s, g), e)
<1>1. RowsOK(rows) /\ TypeOK /\ g \in Nat
  BY GenerationsAre DEF IInv
<1>2. e \in DOMAIN rows.ents /\ rows.ents[e].active /\ rows.ents[e].gen = g
  BY DEF VisibleEntities, Visible
<1>3. PICK s \in Sources : HasChunk(s, g) /\ Names(rows, Chunk(s, g), e)
  BY <1>1, <1>2 DEF Sound, EntsNamed
<1>4. CASE s # s0
  BY <1>3, <1>4
<1>5. CASE s = s0
  <2>1. Chunk(s, g) \in ForgottenChunks(s0)
    BY <1>1, <1>3, <1>5, ActiveIs, CurrentIs DEF ForgottenChunks
  <2>2. e \in Mentioned(ForgottenChunks(s0))
    BY <1>3, <2>1 DEF Names, Mentioned, MentionsIn
  <2>3. e \in Mentioned(OtherChunks(s0)) \/ e \in StillIncident(ForgottenRels(s0))
    BY <2>2 DEF ForgottenEnts
  <2>4. CASE e \in Mentioned(OtherChunks(s0))
    <3>1. PICK m \in rows.mentions : m.chunk \in OtherChunks(s0) /\ m.entity = e
      BY <2>4 DEF Mentioned, MentionsIn
    <3>2. PICK t \in Sources : t # s0 /\ HasChunk(t, g) /\ m.chunk = Chunk(t, g)
      BY <3>1, OtherIs
    <3>3. QED
      BY <3>1, <3>2 DEF Names
  <2>5. CASE e \in StillIncident(ForgottenRels(s0))
    <3>1. PICK r \in VisibleRelations \ ForgottenRels(s0) : e \in Endpoints(r)
      BY <2>5 DEF StillIncident
    <3>2. PICK t \in Sources :
            t # s0 /\ HasChunk(t, g) /\ <<r, Chunk(t, g)>> \in rows.evidence
      BY <3>1, RelationStays
    <3>3. Connects(rows, r)
      <4>1. /\ r \in DOMAIN rows.rels /\ rows.rels[r].active
            /\ rows.rels[r].src \in VisibleEntities /\ rows.rels[r].dst \in VisibleEntities
        BY <1>1, <3>1, VisibleIs
      <4>2. QED
        BY <4>1 DEF Connects, VisibleEntities, Visible
    <3>4. Names(rows, Chunk(t, g), e)
      <4> DEFINE p == <<r, Chunk(t, g)>>
      <4>1. p \in rows.evidence /\ p[1] = r /\ p[2] = Chunk(t, g)
        BY <3>2
      <4> HIDE DEF p
      <4>2. Names(rows, p[2], rows.rels[r].src) /\ Names(rows, p[2], rows.rels[r].dst)
        BY <1>1, <3>3, <4>1 DEF RowsOK, EvidenceNamed
      <4>3. QED
        BY <3>1, <4>1, <4>2 DEF Endpoints
    <3>5. QED
      BY <3>2, <3>4
  <2>6. QED
    BY <2>3, <2>4, <2>5
<1>6. QED
  BY <1>4, <1>5

\* After source s0 is forgotten the generation is what the others say.
LEMMA ForgetSound ==
    ASSUME IInv, TypeOK', NothingAhead, dataset = "active",
           NEW s0 \in Sources, NEW g \in Generations, g = generation, Sound(g),
           Ends({s0}), NEW commands, Takes(ForgottenRels(s0), ForgottenEnts(s0), commands),
           \A s \in Sources : s # s0 => source'[s] = source[s]
    PROVE  Sound(g)'
<1>1. TypeOK /\ RowsOK(rows) /\ EntsAhead /\ RelsAhead /\ g \in Nat
  BY GenerationsAre DEF IInv
<1>2. /\ Fades(rows, rows')
      /\ \A e \in DOMAIN rows.ents :
            /\ rows'.ents[e].gen = rows.ents[e].gen
            /\ rows'.ents[e].active <=> rows.ents[e].active /\ e \notin ForgottenEnts(s0)
      /\ \A r \in DOMAIN rows.rels :
            /\ rows'.rels[r].active <=> rows.rels[r].active /\ r \notin ForgottenRels(s0)
            /\ r \notin ForgottenRels(s0) => rows'.rels[r] = rows.rels[r]
  BY <1>1, TakesFades
<1>3. /\ DOMAIN rows'.ents = DOMAIN rows.ents /\ DOMAIN rows'.rels = DOMAIN rows.rels
      /\ rows'.mentions = rows.mentions /\ rows'.evidence = rows.evidence
      /\ \A r \in DOMAIN rows.rels : rows'.rels[r].gen = rows.rels[r].gen
      /\ \A e \in DOMAIN rows.ents : rows'.ents[e].key = rows.ents[e].key
  BY <1>2 DEF Fades, SameIdentity
<1>4. \A s \in Sources :
         /\ HasChunk(s, g)' => s # s0 /\ HasChunk(s, g)
         /\ HasChunk(s, g) /\ s # s0 => HasChunk(s, g)' /\ Chunk(s, g)' = Chunk(s, g)
  BY EndsChunks
<1>5. \A c, e : Names(rows', c, e) <=> Names(rows, c, e)
  BY <1>3 DEF Names
<1>6. \A c, key, e : NamedBy(rows, c, key, e) => NamedBy(rows', c, key, e)
  BY <1>1, <1>3 DEF NamedBy, RowsOK, References
<1>7. ASSUME NEW s \in Sources, s # s0, HasChunk(s, g),
             NEW r, Connects(rows, r), <<r, Chunk(s, g)>> \in rows.evidence
      PROVE  Connects(rows', r) /\ rows'.rels[r] = rows.rels[r]
  <2>1. r \in DOMAIN rows.rels /\ r \notin ForgottenRels(s0)
    BY <1>1, <1>7, OthersHold DEF Connects
  <2>2. Names(rows, Chunk(s, g), rows.rels[r].src) /\ Names(rows, Chunk(s, g), rows.rels[r].dst)
    <3> DEFINE p == <<r, Chunk(s, g)>>
    <3>1. p \in rows.evidence /\ p[1] = r /\ p[2] = Chunk(s, g)
      BY <1>7
    <3> HIDE DEF p
    <3>2. QED
      BY <1>1, <1>7, <3>1 DEF RowsOK, EvidenceNamed
  <2>3. rows.rels[r].src \notin ForgottenEnts(s0) /\ rows.rels[r].dst \notin ForgottenEnts(s0)
    BY <1>7, <2>2, OthersHold
  <2>4. rows.rels[r].src \in DOMAIN rows.ents /\ rows.rels[r].dst \in DOMAIN rows.ents
    BY <1>1, <2>1 DEF RowsOK, References
  <2>5. rows'.rels[r] = rows.rels[r] /\ rows'.rels[r].active
    BY <1>2, <1>7, <2>1 DEF Connects
  <2>6. QED
    BY <1>2, <1>3, <1>7, <2>1, <2>3, <2>4, <2>5 DEF Connects
<1>8. ASSUME NEW s \in Sources, HasChunk(s, g)'
      PROVE  source'[s] = "active" /\ Kept(rows', s, Chunk(s, g)', g)
  <2>1. s # s0 /\ HasChunk(s, g) /\ Chunk(s, g)' = Chunk(s, g)
    BY <1>4, <1>8
  <2>2. source[s] = "active" /\ Kept(rows, s, Chunk(s, g), g)
    BY <2>1 DEF Sound, SourcesKept
  <2>3. \A e \in DOMAIN rows.ents :
           Names(rows, Chunk(s, g), e) /\ rows.ents[e].active => rows'.ents[e].active
    BY <1>2, <2>1, OthersHold
  <2>4. \A r \in DOMAIN rows.rels : Connects(rows, r) /\ <<r, Chunk(s, g)>> \in rows.evidence =>
           Connects(rows', r) /\ rows'.rels[r] = rows.rels[r] /\ <<r, Chunk(s, g)>> \in rows'.evidence
    BY <1>3, <1>7, <2>1
  <2>5. \A key, e : NamedBy(rows, Chunk(s, g), key, e) => NamedBy(rows', Chunk(s, g), key, e)
    BY <1>6
  <2>6. DOMAIN rows.ents \subseteq DOMAIN rows'.ents
    BY <1>3
  <2>7. Kept(rows', s, Chunk(s, g), g)
    BY <2>2, <2>3, <2>4, <2>5, <2>6, KeptFrame
  <2>8. QED
    BY <2>1, <2>2, <2>7
<1>9. SourcesKept(g)'
  BY <1>8 DEF SourcesKept
<1>10. EntsNamed(g)'
  <2>1. ASSUME NEW e \in DOMAIN rows.ents, rows'.ents[e].active
        PROVE  \E s \in Sources : HasChunk(s, g)' /\ Names(rows', Chunk(s, g)', e)
    <3>1. e \in VisibleEntities \ ForgottenEnts(s0)
      BY <1>1, <1>2, <2>1, Settled
    <3>2. PICK s \in Sources : s # s0 /\ HasChunk(s, g) /\ Names(rows, Chunk(s, g), e)
      BY <3>1, EntityStays
    <3>3. QED
      BY <1>4, <1>5, <3>2
  <2>2. QED
    BY <1>3, <2>1 DEF EntsNamed
<1>11. RelsEvidenced(g)'
  <2>1. ASSUME NEW r \in DOMAIN rows.rels, Connects(rows', r), rows.rels[r].gen = g
        PROVE  \E s \in Sources : HasChunk(s, g)' /\ <<r, Chunk(s, g)'>> \in rows'.evidence
    <3>1. Connects(rows, r) /\ r \notin ForgottenRels(s0)
      BY <1>1, <1>2, <2>1, FadesConnects DEF Connects
    <3>2. rows.rels[r].src \in DOMAIN rows.ents /\ rows.rels[r].dst \in DOMAIN rows.ents
      BY <1>1 DEF RowsOK, References
    <3>3. r \in VisibleRelations
      <4>1. rows.rels[r].src \in VisibleEntities /\ rows.rels[r].dst \in VisibleEntities
        BY <1>1, <3>1, <3>2, Settled DEF Connects
      <4>2. QED
        BY <2>1, <3>1, <4>1 DEF VisibleRelations, VisibleEntities, Connects
    <3>4. PICK s \in Sources : s # s0 /\ HasChunk(s, g) /\ <<r, Chunk(s, g)>> \in rows.evidence
      BY <3>1, <3>3, RelationStays
    <3>5. QED
      BY <1>3, <1>4, <3>4
  <2>2. QED
    BY <1>3, <2>1 DEF RelsEvidenced
<1>12. NamesBehind(g)'
  <2>1. ASSUME NEW s \in Sources, NEW e \in DOMAIN rows.ents,
               HasChunk(s, g)', Names(rows', Chunk(s, g)', e), rows'.ents[e].active
        PROVE  rows'.ents[e].gen <= g
    <3>1. HasChunk(s, g) /\ Names(rows, Chunk(s, g), e) /\ rows.ents[e].active
      BY <1>2, <1>4, <1>5, <2>1
    <3>2. QED
      BY <1>2, <3>1 DEF Sound, NamesBehind
  <2>2. QED
    BY <1>3, <2>1 DEF NamesBehind
<1>13. QED
  BY <1>9, <1>10, <1>11, <1>12 DEF Sound

\* ForgetSource keeps what the other chunks say.
LEMMA ForgetSourceCore ==
    ASSUME IInv, TypeOK', DocsGoOn, NEW s0 \in Sources, NEW memory_only \in BOOLEAN,
           ForgetSource(s0, memory_only)
    PROVE  CoreOK'
<1> DEFINE commands == ForgetCommands(ForgottenChunks(s0), MentionsIn(ForgottenChunks(s0)),
                                      ForgottenRels(s0), ForgottenEnts(s0))
<1>1. /\ dataset = "active" /\ (memory_only => CanReset({s0}))
      /\ doc' = Documents({s0}, memory_only)
      /\ source' = [source EXCEPT ![s0] = Begun(memory_only)]
      /\ Takes(ForgottenRels(s0), ForgottenEnts(s0), commands)
      /\ summary' = IF doc[s0][generation].active THEN SummaryForgotten(generation) ELSE summary
      /\ tangled' = Tangles
      /\ generation' = generation /\ dataset' = dataset /\ activation' = activation
  BY ForgetSourceIs
<1> HIDE DEF commands
<1>2. TypeOK /\ SummaryOK /\ generation \in Generations
  BY DEF IInv, TypeOK
<1>3. Ends({s0})
  <2>1. {s0} \in SUBSET Sources
    OBVIOUS
  <2>2. QED
    BY <1>1, <2>1, ForgetEnds
<1>4. /\ \A s \in Sources : source'[s] = "absent" => source[s] = "absent"
      /\ \A s \in Sources : s # s0 => source'[s] = source[s]
  BY <1>1, <1>2 DEF TypeOK, Begun
<1>5. DocsOK' /\ BornOnly' /\ EntsAhead' /\ RelsAhead'
  BY <1>1, <1>3, <1>4, EndsCore
<1>6. SummaryOK'
  <2>1. CASE doc[s0][generation].active
    <3>1. summary' = [summary EXCEPT ![generation] = {}]
      BY <1>1, <2>1 DEF SummaryForgotten
    <3>2. summary'[generation] = {}
      BY <1>2, <3>1 DEF TypeOK
    <3>3. \A g \in Generations : summary[g] = {} => summary'[g] = {}
      BY <1>2, <3>1 DEF TypeOK
    <3>4. QED
      BY <1>1, <1>2, <3>2, <3>3 DEF SummaryOK
  <2>2. CASE ~doc[s0][generation].active
    <3>1. \A t \in Sources, g \in Generations : ~Ended_({s0}, t, g)
      BY <2>2 DEF Ended_
    <3>2. \A t \in Sources, g \in Generations : doc'[t][g] = doc[t][g]
      BY <1>3, <3>1 DEF Ends
    <3>3. SameChunks
      BY <3>2 DEF SameChunks, HasChunk, Chunk
    <3>4. CurrentChunks' = CurrentChunks
      BY <1>1, <3>3, SameCurrent
    <3>5. QED
      BY <1>1, <1>2, <2>2, <3>4, SameSummary
  <2>3. QED
    BY <2>1, <2>2
<1>7. Untangled'
  <2>1. SUFFICES ASSUME ~tangled'
                 PROVE  /\ activation' \subseteq {generation' + 1}
                        /\ \A g \in Generations : g = generation' \/ g \in activation' => Sound(g)'
                        /\ dataset' # "active" => Idle'
    BY DEF Untangled
  <2>2. ~tangled /\ activation = {} /\ NothingAhead
    BY <1>1, <2>1, NotTangles
  <2>3. ASSUME NEW g \in Generations, g = generation PROVE Sound(g)'
    <3>1. Sound(g)
      BY <2>2, <2>3 DEF IInv, Untangled
    <3>2. QED
      BY <1>1, <1>3, <1>4, <2>2, <2>3, <3>1, ForgetSound
  <2>4. QED
    BY <1>1, <2>2, <2>3
<1>8. QED
  BY <1>5, <1>6, <1>7 DEF CoreOK

\* ForgetDataset leaves a dataset of which nothing is said.
LEMMA ForgetDatasetCore ==
    ASSUME IInv, TypeOK', DocsGoOn, NEW memory_only \in BOOLEAN, ForgetDataset(memory_only)
    PROVE  CoreOK'
<1> DEFINE commands == ForgetCommands(CurrentChunks, MentionsIn(CurrentChunks),
                                      VisibleRelations, VisibleEntities)
<1>1. /\ dataset = "active" /\ (memory_only => CanReset(Known))
      /\ doc' = Documents(Known, memory_only)
      /\ source' = [s \in Sources |-> IF s \in Known THEN Begun(memory_only) ELSE source[s]]
      /\ Takes(VisibleRelations, VisibleEntities, commands)
      /\ summary' = SummaryForgotten(generation)
      /\ tangled' = Tangles
      /\ generation' = generation /\ activation' = activation
  BY ForgetDatasetIs
<1> HIDE DEF commands
<1>2. TypeOK /\ SummaryOK /\ RowsOK(rows) /\ EntsAhead /\ RelsAhead /\ generation \in Generations
  BY DEF IInv, TypeOK
<1>3. Ends(Known)
  <2>1. Known \in SUBSET Sources
    BY DEF Known
  <2>2. QED
    BY <1>1, <2>1, ForgetEnds
<1>4. /\ \A s \in Sources : source'[s] = "absent" => source[s] = "absent"
      /\ \A s \in Sources : source'[s] # "active"
  BY <1>1 DEF Begun, Known
<1>5. DocsOK' /\ BornOnly' /\ EntsAhead' /\ RelsAhead'
  BY <1>1, <1>3, <1>4, EndsCore
<1>6. SummaryOK'
  <2>1. summary' = [summary EXCEPT ![generation] = {}]
    BY <1>1 DEF SummaryForgotten
  <2>2. summary'[generation] = {}
    BY <1>2, <2>1 DEF TypeOK
  <2>3. \A g \in Generations : summary[g] = {} => summary'[g] = {}
    BY <1>2, <2>1 DEF TypeOK
  <2>4. QED
    BY <1>1, <1>2, <2>2, <2>3 DEF SummaryOK
<1>7. Untangled'
  <2>1. SUFFICES ASSUME ~tangled'
                 PROVE  /\ activation' \subseteq {generation' + 1}
                        /\ \A g \in Generations : g = generation' \/ g \in activation' => Sound(g)'
                        /\ Idle'
    BY DEF Untangled
  <2>2. ~tangled /\ activation = {} /\ NothingAhead
    BY <1>1, <2>1, NotTangles
  <2>3. PICK g \in Generations : g = generation
    BY <1>2
  <2>4. Sound(g)
    BY <2>2, <2>3 DEF IInv, Untangled
  <2>5. ASSUME NEW s \in Sources PROVE ~HasChunk(s, g)'
    <3>1. CASE HasChunk(s, g)
      <4>1. source[s] = "active"
        BY <2>4, <3>1 DEF Sound, SourcesKept
      <4>2. s \in Known
        BY <4>1 DEF Known
      <4>3. QED
        BY <1>3, <2>3, <4>2, EndsChunks
    <3>2. CASE ~HasChunk(s, g)
      BY <1>3, <3>2, EndsChunks
    <3>3. QED
      BY <3>1, <3>2
  <2>6. NothingAhead'
    <3>1. ASSUME NEW s \in Sources, NEW h \in Generations, h > generation PROVE ~HasChunk(s, h)'
      BY <1>3, <2>2, <3>1, EndsChunks DEF NothingAhead
    <3>2. QED
      BY <1>1, <3>1 DEF NothingAhead
  <2>7. DOMAIN rows'.ents = DOMAIN rows.ents /\ \A e \in DOMAIN rows.ents : ~rows'.ents[e].active
    <3>1. /\ DOMAIN rows'.ents = DOMAIN rows.ents
          /\ \A e \in DOMAIN rows.ents :
                rows'.ents[e].active <=> rows.ents[e].active /\ e \notin VisibleEntities
      BY <1>1, <1>2, TakesFades DEF Fades
    <3>2. \A e \in DOMAIN rows.ents : rows.ents[e].active => e \in VisibleEntities
      BY <1>2, <2>2, Settled
    <3>3. QED
      BY <3>1, <3>2
  <2>8. \A s \in Sources : ~HasChunk(s, generation)'
    BY <1>1, <2>3, <2>5 DEF HasChunk
  <2>9. Idle'
    BY <1>1, <1>4, <2>2, <2>6, <2>7, <2>8 DEF Idle
  <2>10. Sound(g)'
    <3>1. SourcesKept(g)' /\ NamesBehind(g)'
      BY <2>5 DEF SourcesKept, NamesBehind
    <3>2. EntsNamed(g)'
      BY <2>7 DEF EntsNamed
    <3>3. RelsEvidenced(g)'
      <4>1. \A r : ~Connects(rows', r)
        <5>1. ASSUME NEW r, Connects(rows', r) PROVE FALSE
          <6>1. /\ r \in DOMAIN rows.rels /\ rows'.rels[r].src = rows.rels[r].src
                /\ rows'.ents[rows'.rels[r].src].active
            BY <1>1, <1>2, <5>1, TakesFades DEF Connects, Fades, SameIdentity
          <6>2. rows.rels[r].src \in DOMAIN rows.ents
            BY <1>2, <6>1 DEF RowsOK, References
          <6>3. QED
            BY <2>7, <6>1, <6>2
        <5>2. QED
          BY <5>1
      <4>2. QED
        BY <4>1 DEF RelsEvidenced
    <3>4. QED
      BY <3>1, <3>2, <3>3 DEF Sound
  <2>11. QED
    BY <1>1, <2>2, <2>3, <2>9, <2>10
<1>8. QED
  BY <1>5, <1>6, <1>7 DEF CoreOK

\* Every step keeps what chunks say.
LEMMA CoreStep ==
    ASSUME IInv, [Next]_vars, TypeOK', DocsGoOn
    PROVE  CoreOK'
<1>1. ASSUME NEW s \in Sources, Remember(s) PROVE CoreOK'
  BY <1>1, RememberCore
<1>2. ASSUME Cognify PROVE CoreOK'
  <2>1. PICK ids \in {{}} \cup {{s} : s \in Sources} :
           \E rebuild \in BOOLEAN, failed \in SUBSET Sources :
              (rebuild => ids = {}) /\ ProcessSources(ids, rebuild, failed)
    BY <1>2 DEF Cognify
  <2>2. PICK rebuild \in BOOLEAN, failed \in SUBSET Sources :
              (rebuild => ids = {}) /\ ProcessSources(ids, rebuild, failed)
    BY <2>1
  <2>3. QED
    BY <2>2, ProcessCore
<1>3. ASSUME NEW g \in Generations, ActivateGeneration(g) PROVE CoreOK'
  BY <1>3, ActivateCore
<1>4. ASSUME NEW g \in Generations, AbandonRebuild(g) PROVE CoreOK'
  BY <1>4, AbandonCore
<1>5. ASSUME Improve PROVE CoreOK'
  BY <1>5, MergeCore, MaintainCore, SummariesCore, ReconcileCore DEF Improve
<1>6. ASSUME Forget PROVE CoreOK'
  BY <1>6, ForgetSourceCore, ForgetDatasetCore, FinishSourceCore, FinishDatasetCore DEF Forget
<1>7. ASSUME Drain PROVE CoreOK'
  BY <1>7, DrainCore
<1>8. ASSUME UNCHANGED vars PROVE CoreOK'
  BY <1>8, StutterCore
<1>9. QED
  BY <1>1, <1>2, <1>3, <1>4, <1>5, <1>6, <1>7, <1>8 DEF Next

-----------------------------------------------------------------------------
(* The elements of the projection *)

\* An element tells its kind and what it stands for.
LEMMA NodesAre ==
    /\ \A e : IsNode(EntityNode(e)) /\ EntityNode(e).kind = "entity" /\ EntityNode(e).id[1] = e
    /\ \A c : IsNode(ChunkNode(c)) /\ ChunkNode(c).kind = "chunk" /\ ChunkNode(c).id = c
    /\ \A d, e : EntityNode(d) = EntityNode(e) => d = e
    /\ \A c, d : ChunkNode(c) = ChunkNode(d) => c = d
    /\ \A e, c : EntityNode(e) # ChunkNode(c)
<1>1. \A e : IsNode(EntityNode(e)) /\ EntityNode(e).kind = "entity" /\ EntityNode(e).id[1] = e
  BY DEF EntityNode, IsNode
<1>2. \A c : IsNode(ChunkNode(c)) /\ ChunkNode(c).kind = "chunk" /\ ChunkNode(c).id = c
  BY DEF ChunkNode, IsNode
<1>3. QED
  BY <1>1, <1>2

\* The edges of the graph.
LEMMA EdgesAre ==
    /\ \A m : /\ ~IsNode(MentionEdge(m)) /\ MentionEdge(m).kind = "mention"
              /\ MentionEdge(m).id = <<m.of, m.chunk>>
              /\ MentionEdge(m).ends = {EntityNode(m.entity), ChunkNode(m.chunk)}
    /\ \A r, row : /\ ~IsNode(RelationEdge(r, row)) /\ RelationEdge(r, row).kind = "relation"
                   /\ RelationEdge(r, row).id[1] = r
                   /\ RelationEdge(r, row).ends = {EntityNode(row.src), EntityNode(row.dst)}
<1>1. \A m : /\ ~IsNode(MentionEdge(m)) /\ MentionEdge(m).kind = "mention"
             /\ MentionEdge(m).id = <<m.of, m.chunk>>
             /\ MentionEdge(m).ends = {EntityNode(m.entity), ChunkNode(m.chunk)}
  BY DEF MentionEdge, IsNode
<1>2. \A r, row : /\ ~IsNode(RelationEdge(r, row)) /\ RelationEdge(r, row).kind = "relation"
                  /\ RelationEdge(r, row).id[1] = r
                  /\ RelationEdge(r, row).ends = {EntityNode(row.src), EntityNode(row.dst)}
  BY DEF RelationEdge, IsNode
<1>3. QED
  BY <1>1, <1>2

\* An edge has the identity of one row.
LEMMA EdgesApart ==
    /\ \A m, n : MentionEdge(m) = MentionEdge(n) => m.of = n.of /\ m.chunk = n.chunk
    /\ \A q, r, p, row : RelationEdge(q, p) = RelationEdge(r, row) => q = r
    /\ \A m, r, row : MentionEdge(m) # RelationEdge(r, row)
<1>1. ASSUME NEW m, NEW n, MentionEdge(m) = MentionEdge(n)
      PROVE  m.of = n.of /\ m.chunk = n.chunk
  <2>1. <<m.of, m.chunk>> = <<n.of, n.chunk>>
    BY <1>1, EdgesAre
  <2>2. QED
    BY <2>1
<1>2. \A q, r, p, row : RelationEdge(q, p) = RelationEdge(r, row) => q = r
  BY EdgesAre
<1>3. \A m, r, row : MentionEdge(m) # RelationEdge(r, row)
  BY EdgesAre
<1>4. QED
  BY <1>1, <1>2, <1>3

\* What is there for good is not gone for good.
LEMMA DueNotGone ==
    ASSUME NEW k, NEW d, NEW g, NEW x, Due(k, d, g, x)
    PROVE  ~Gone(k, d, x)
<1>1. SUFFICES ASSUME Gone(k, d, x) PROVE FALSE
  OBVIOUS
<1>2. CASE \E e \in DOMAIN k.ents : k.ents[e].active /\ x = EntityNode(e)
  BY <1>1, <1>2, NodesAre, EdgesAre DEF Gone
<1>3. CASE \E c \in ChunkIds : Live(d, c) /\ c[2] >= g /\ x = ChunkNode(c)
  BY <1>1, <1>3, NodesAre, EdgesAre DEF Gone
<1>4. CASE \E m \in k.mentions : /\ Live(d, m.chunk) /\ m.chunk[2] >= g
                                 /\ k.ents[m.entity].active /\ x = MentionEdge(m)
  BY <1>1, <1>4, NodesAre, EdgesAre, EdgesApart DEF Gone
<1>5. CASE \E r \in DOMAIN k.rels : /\ Connects(k, r) /\ k.rels[r].gen >= g
                                    /\ x = RelationEdge(r, k.rels[r])
  BY <1>1, <1>5, NodesAre, EdgesAre, EdgesApart DEF Gone, Connects
<1>6. QED
  BY <1>2, <1>3, <1>4, <1>5 DEF Due

\* Neither is a node whose row is there.
LEMMA NodeNotGone ==
    ASSUME NEW k, NEW d, NEW x, IsNode(x), Stands(k, d, x)
    PROVE  ~Gone(k, d, x)
<1>1. SUFFICES ASSUME Gone(k, d, x) PROVE FALSE
  OBVIOUS
<1>2. CASE \E e \in DOMAIN k.ents : k.ents[e].active /\ x = EntityNode(e)
  BY <1>1, <1>2, NodesAre, EdgesAre DEF Gone
<1>3. CASE \E c \in ChunkIds : Live(d, c) /\ x = ChunkNode(c)
  BY <1>1, <1>3, NodesAre, EdgesAre DEF Gone
<1>4. ~ \E m \in k.mentions : x = MentionEdge(m)
  BY EdgesAre
<1>5. ~ \E r \in DOMAIN k.rels : k.rels[r].active /\ x = RelationEdge(r, k.rels[r])
  BY EdgesAre
<1>6. QED
  BY <1>2, <1>3, <1>4, <1>5 DEF Stands

\* The ends of an edge that is due are due.
LEMMA DueEnds ==
    ASSUME NEW k, RowsOK(k), NEW d, NEW g, NEW x, Due(k, d, g, x), ~IsNode(x), NEW n \in x.ends
    PROVE  IsNode(n) /\ Due(k, d, g, n)
<1>1. CASE \E m \in k.mentions : /\ Live(d, m.chunk) /\ m.chunk[2] >= g
                                 /\ k.ents[m.entity].active /\ x = MentionEdge(m)
  <2>1. PICK m \in k.mentions : /\ Live(d, m.chunk) /\ m.chunk[2] >= g
                                /\ k.ents[m.entity].active /\ x = MentionEdge(m)
    BY <1>1
  <2>2. n = EntityNode(m.entity) \/ n = ChunkNode(m.chunk)
    BY <2>1, EdgesAre
  <2>3. m.entity \in DOMAIN k.ents /\ m.chunk \in ChunkIds
    BY DEF RowsOK, References, RowsType, MentionRow
  <2>4. QED
    BY <2>1, <2>2, <2>3, NodesAre DEF Due
<1>2. CASE \E r \in DOMAIN k.rels : /\ Connects(k, r) /\ k.rels[r].gen >= g
                                    /\ x = RelationEdge(r, k.rels[r])
  <2>1. PICK r \in DOMAIN k.rels : Connects(k, r) /\ x = RelationEdge(r, k.rels[r])
    BY <1>2
  <2>2. n = EntityNode(k.rels[r].src) \/ n = EntityNode(k.rels[r].dst)
    BY <2>1, EdgesAre
  <2>3. k.rels[r].src \in DOMAIN k.ents /\ k.rels[r].dst \in DOMAIN k.ents
    BY DEF RowsOK, References
  <2>4. QED
    BY <2>1, <2>2, <2>3, NodesAre DEF Due, Connects
<1>3. ~ (\E e \in DOMAIN k.ents : k.ents[e].active /\ x = EntityNode(e))
  BY NodesAre
<1>4. ~ (\E c \in ChunkIds : Live(d, c) /\ c[2] >= g /\ x = ChunkNode(c))
  BY NodesAre
<1>5. QED
  BY <1>1, <1>2, <1>3, <1>4 DEF Due

-----------------------------------------------------------------------------
(* What a step does to the elements there were *)

\* An element stays well formed.
LEMMA WellFormedStays ==
    ASSUME RowsGoOn, DocsGoOn, NEW x, WellFormed(rows, doc, x)
    PROVE  WellFormed(rows', doc', x)
<1>1. DOMAIN rows.ents \subseteq DOMAIN rows'.ents /\ DOMAIN rows.rels \subseteq DOMAIN rows'.rels
  BY DEF RowsGoOn, Onward
<1>2. \A c : Born(doc, c) => Born(doc', c)
  BY DEF DocsGoOn, Ages
<1>3. CASE \E e \in DOMAIN rows.ents : x = EntityNode(e)
  BY <1>1, <1>3 DEF WellFormed
<1>4. CASE \E c \in ChunkIds : Born(doc, c) /\ x = ChunkNode(c)
  BY <1>2, <1>4 DEF WellFormed
<1>5. CASE \E m \in MentionRow :
              Born(doc, m.chunk) /\ m.entity \in DOMAIN rows.ents /\ x = MentionEdge(m)
  BY <1>1, <1>2, <1>5 DEF WellFormed
<1>6. CASE \E r \in DOMAIN rows.rels, row \in RelationRow :
              row.src \in DOMAIN rows.ents /\ row.dst \in DOMAIN rows.ents /\ x = RelationEdge(r, row)
  BY <1>1, <1>6 DEF WellFormed
<1>7. QED
  BY <1>3, <1>4, <1>5, <1>6 DEF WellFormed

\* What is gone stays gone.
LEMMA GoneStays ==
    ASSUME RowsGoOn, DocsGoOn, NEW x, Gone(rows, doc, x)
    PROVE  Gone(rows', doc', x)
<1>1. Onward(rows, rows') /\ Ages(doc, doc')
  BY DEF RowsGoOn, DocsGoOn
<1>2. CASE \E e \in DOMAIN rows.ents : ~rows.ents[e].active /\ x = EntityNode(e)
  BY <1>1, <1>2 DEF Gone, Onward
<1>3. CASE \E c \in ChunkIds : Born(doc, c) /\ ~Live(doc, c) /\ x = ChunkNode(c)
  BY <1>1, <1>3 DEF Gone, Ages
<1>4. CASE \E m \in MentionRow : Born(doc, m.chunk) /\ ~Live(doc, m.chunk) /\ x = MentionEdge(m)
  BY <1>1, <1>4 DEF Gone, Ages
<1>5. CASE \E r \in DOMAIN rows.rels, row \in RelationRow :
              ~rows.rels[r].active /\ x = RelationEdge(r, row)
  BY <1>1, <1>5 DEF Gone, Onward
<1>6. QED
  BY <1>2, <1>3, <1>4, <1>5 DEF Gone

\* An edge that hangs on what is gone goes on doing so.
LEMMA LooseStays ==
    ASSUME RowsGoOn, DocsGoOn, NEW x, Loose(rows, doc, x)
    PROVE  Loose(rows', doc', x)
BY GoneStays DEF Loose

\* What stands is well formed.
LEMMA StandsIsWell ==
    ASSUME TypeOK, RowsOK(rows), DocsOK, BornOnly, NEW x, Stands(rows, doc, x)
    PROVE  WellFormed(rows, doc, x)
<1>1. CASE \E e \in DOMAIN rows.ents : rows.ents[e].active /\ x = EntityNode(e)
  BY <1>1 DEF WellFormed
<1>2. CASE \E c \in ChunkIds : Live(doc, c) /\ x = ChunkNode(c)
  <2>1. PICK c \in ChunkIds : Live(doc, c) /\ x = ChunkNode(c)
    BY <1>2
  <2>2. c[1] \in Sources /\ c[2] \in Generations
    BY DEF ChunkIds
  <2>3. Born(doc, c)
    BY <2>1, <2>2 DEF Live, Born, DocsOK
  <2>4. QED
    BY <2>1, <2>3 DEF WellFormed
<1>3. CASE \E m \in rows.mentions : x = MentionEdge(m)
  BY <1>3 DEF WellFormed, BornOnly, RowsOK, RowsType, References
<1>4. CASE \E r \in DOMAIN rows.rels : rows.rels[r].active /\ x = RelationEdge(r, rows.rels[r])
  BY <1>4, RowTypes DEF WellFormed, RowsOK, References
<1>5. QED
  BY <1>1, <1>2, <1>3, <1>4 DEF Stands

\* What stands after a step is well formed.
LEMMA StandsIsWellAfter ==
    ASSUME TypeOK', RowsGoOn, CoreOK', NEW x, Stands(rows', doc', x)
    PROVE  WellFormed(rows', doc', x)
<1>0. RowsOK(rows')
  BY DEF RowsGoOn
<1>1. CASE \E e \in DOMAIN rows'.ents : rows'.ents[e].active /\ x = EntityNode(e)
  BY <1>1 DEF WellFormed
<1>2. CASE \E c \in ChunkIds : Live(doc', c) /\ x = ChunkNode(c)
  <2>1. PICK c \in ChunkIds : Live(doc', c) /\ x = ChunkNode(c)
    BY <1>2
  <2>2. c[1] \in Sources /\ c[2] \in Generations
    BY DEF ChunkIds
  <2>3. \A s \in Sources, g \in Generations : doc'[s][g].active => doc'[s][g].id >= 1
    BY DEF CoreOK, DocsOK
  <2>4. Born(doc', c)
    BY <2>1, <2>2, <2>3 DEF Live, Born
  <2>5. QED
    BY <2>1, <2>4 DEF WellFormed
<1>3. CASE \E m \in rows'.mentions : x = MentionEdge(m)
  <2>1. \A m \in rows'.mentions : Born(doc', m.chunk)
    BY DEF CoreOK, BornOnly
  <2>2. QED
    BY <1>0, <1>3, <2>1 DEF WellFormed, RowsOK, RowsType, References
<1>4. CASE \E r \in DOMAIN rows'.rels : rows'.rels[r].active /\ x = RelationEdge(r, rows'.rels[r])
  BY <1>0, <1>4, RowTypes DEF WellFormed, RowsOK, References
<1>5. QED
  BY <1>1, <1>2, <1>3, <1>4 DEF Stands

-----------------------------------------------------------------------------
(* Steps that add commands to the outbox *)

\* A step adds upserts of U and deletes of D.
Sends(U, D) ==
    graph' = graph /\ rows'.out = rows.out \cup Upserts(U) \cup Deletes(D)

\* What is in the outbox after a step.
LEMMA SendsIs ==
    ASSUME NEW U, NEW D, Sends(U, D)
    PROVE  /\ \A x : x \in Present' <=> x \in Present \/ x \in U
           /\ \A x : x \in Of("delete")' <=> x \in Of("delete") \/ x \in D
<1>1. rows'.out = rows.out \cup Upserts(U) \cup Deletes(D) /\ graph' = graph
  BY DEF Sends
<1>2. ASSUME NEW x, x \in D PROVE x \in Of("delete")'
  <2> DEFINE c == <<"delete", x>>
  <2>1. c \in rows'.out /\ c[1] = "delete" /\ c[2] = x
    BY <1>1, <1>2 DEF Deletes
  <2> HIDE DEF c
  <2>2. QED
    BY <2>1 DEF Of
<1>3. ASSUME NEW x \in U \ graph PROVE x \in Of("upsert")'
  <2> DEFINE c == <<"upsert", x>>
  <2>1. c \in rows'.out /\ c[1] = "upsert" /\ c[2] = x
    BY <1>1 DEF Upserts
  <2> HIDE DEF c
  <2>2. QED
    BY <2>1 DEF Of
<1>4. Of("delete") \subseteq Of("delete")' /\ Of("upsert") \subseteq Of("upsert")'
  BY <1>1 DEF Of
<1>5. ASSUME NEW x \in Of("delete")' PROVE x \in Of("delete") \/ x \in D
  <2>1. PICK c \in rows'.out : c[1] = "delete" /\ x = c[2]
    BY DEF Of
  <2>2. CASE c \in rows.out
    BY <2>1, <2>2 DEF Of
  <2>3. CASE c \notin rows.out
    BY <1>1, <2>1, <2>3 DEF Upserts, Deletes
  <2>4. QED
    BY <2>2, <2>3
<1>6. ASSUME NEW x \in Of("upsert")' PROVE x \in Of("upsert") \/ x \in U
  <2>1. PICK c \in rows'.out : c[1] = "upsert" /\ x = c[2]
    BY DEF Of
  <2>2. CASE c \in rows.out
    BY <2>1, <2>2 DEF Of
  <2>3. CASE c \notin rows.out
    BY <1>1, <2>1, <2>3 DEF Upserts, Deletes
  <2>4. QED
    BY <2>2, <2>3
<1>7. \A x : x \in Of("delete")' <=> x \in Of("delete") \/ x \in D
  BY <1>2, <1>4, <1>5
<1>8. \A x : x \in Present' <=> x \in Present \/ x \in U
  BY <1>1, <1>3, <1>4, <1>6 DEF Present
<1>9. QED
  BY <1>7, <1>8

\* Such a step keeps the graph in order when what it upserts stands, what it
\* deletes is gone, and whatever no longer stands is deleted or hangs on a node
\* that is gone.
LEMMA SendsGraph ==
    ASSUME IInv, TypeOK', RowsGoOn, DocsGoOn, CoreOK', NEW U, NEW D, Sends(U, D),
           \A x \in U : Stands(rows', doc', x),
           \A x \in D : WellFormed(rows', doc', x),
           ~tangled' => ~tangled,
           ~tangled' => \A x \in D : Gone(rows', doc', x),
           \A x : Stands(rows, doc, x) =>
               Stands(rows', doc', x) \/ Loose(rows', doc', x) \/ x \in D
    PROVE  GraphOK'
<1>1. GraphOK
  BY DEF IInv
<1>2. /\ \A x : x \in Present' <=> x \in Present \/ x \in U
      /\ \A x : x \in Of("delete")' <=> x \in Of("delete") \/ x \in D
  BY SendsIs
<1>3. \A x \in graph' : ~IsNode(x) => x.ends \subseteq graph'
  BY <1>1 DEF Sends, GraphOK
<1>4. ASSUME NEW x, x \in Present' \/ x \in Of("delete")' PROVE WellFormed(rows', doc', x)
  <2>1. CASE x \in U
    BY <2>1, StandsIsWellAfter
  <2>2. CASE x \in D
    BY <2>2
  <2>3. CASE x \in Present \/ x \in Of("delete")
    <3>1. WellFormed(rows, doc, x)
      BY <1>1, <2>3 DEF GraphOK
    <3>2. QED
      BY <3>1, WellFormedStays
  <2>4. QED
    BY <1>2, <1>4, <2>1, <2>2, <2>3
<1>5. ASSUME NEW x, x \in Present'
      PROVE  Stands(rows', doc', x) \/ Loose(rows', doc', x) \/ x \in Of("delete")'
  <2>1. CASE x \in U
    BY <2>1
  <2>2. CASE x \in Present
    <3>1. Stands(rows, doc, x) \/ Loose(rows, doc, x) \/ x \in Of("delete")
      BY <1>1, <2>2 DEF GraphOK
    <3>2. QED
      BY <1>2, <3>1, LooseStays
  <2>3. QED
    BY <1>2, <1>5, <2>1, <2>2
<1>6. ASSUME ~tangled', NEW x, x \in Of("delete")' PROVE Gone(rows', doc', x)
  <2>1. CASE x \in D
    BY <1>6, <2>1
  <2>2. CASE x \in Of("delete")
    <3>1. Gone(rows, doc, x)
      BY <1>1, <1>6, <2>2 DEF GraphOK
    <3>2. QED
      BY <3>1, GoneStays
  <2>3. QED
    BY <1>2, <1>6, <2>1, <2>2
<1>7. QED
  BY <1>3, <1>4, <1>5, <1>6 DEF GraphOK

\* It leaves nothing out when what becomes due is upserted.
LEMMA SendsComplete ==
    ASSUME IInv, NEW U, NEW D, Sends(U, D), ~tangled' => ~tangled,
           ~tangled' => \A x : Due(rows', doc', generation', x) =>
                                  Due(rows, doc, generation, x) \/ x \in U
    PROVE  Complete'
<1>1. SUFFICES ASSUME ~tangled', NEW x, Due(rows', doc', generation', x) PROVE x \in Present'
  BY DEF Complete
<1>2. \A y : y \in Present' <=> y \in Present \/ y \in U
  BY SendsIs
<1>3. CASE x \in U
  BY <1>2, <1>3
<1>4. CASE Due(rows, doc, generation, x)
  <2>1. x \in Present
    BY <1>1, <1>4 DEF IInv, Complete
  <2>2. QED
    BY <1>2, <2>1
<1>5. QED
  BY <1>1, <1>3, <1>4

\* Documents that keep their chunks keep them in force.
LEMMA SameLive ==
    ASSUME SameChunks, NEW c \in ChunkIds
    PROVE  Live(doc', c) <=> Live(doc, c)
<1>1. c[1] \in Sources /\ c[2] \in Generations
  BY DEF ChunkIds
<1> DEFINE s == c[1]
           g == c[2]
<1>2. /\ HasChunk(s, g)' <=> HasChunk(s, g)
      /\ HasChunk(s, g) => Chunk(s, g)' = Chunk(s, g)
  BY <1>1 DEF SameChunks
<1>3. /\ doc'[s][g].active /\ doc'[s][g].chunked <=> doc[s][g].active /\ doc[s][g].chunked
      /\ doc[s][g].active /\ doc[s][g].chunked => doc'[s][g].id = doc[s][g].id
  BY <1>2 DEF HasChunk, Chunk
<1>4. QED
  BY <1>3 DEF Live

\* Same tables and chunks, same elements.
LEMMA SameStands ==
    ASSUME RowsOK(rows), SameTables, SameChunks, NEW x
    PROVE  /\ Stands(rows', doc', x) <=> Stands(rows, doc, x)
           /\ \A g : Due(rows', doc', g, x) <=> Due(rows, doc, g, x)
<1>1. \A c \in ChunkIds : Live(doc', c) <=> Live(doc, c)
  BY SameLive
<1>2. \A m \in rows.mentions : m.chunk \in ChunkIds
  BY DEF RowsOK, RowsType, MentionRow
<1>3. \A r : Connects(rows', r) <=> Connects(rows, r)
  BY SameConnects
<1>4. Stands(rows', doc', x) <=> Stands(rows, doc, x)
  BY <1>1 DEF Stands, SameTables
<1>5. \A g : Due(rows', doc', g, x) <=> Due(rows, doc, g, x)
  BY <1>1, <1>2, <1>3 DEF Due, SameTables
<1>6. QED
  BY <1>4, <1>5

\* Nothing happens to what stands, and nothing is sent.
LEMMA QuietGraph ==
    ASSUME IInv, TypeOK', RowsGoOn, DocsGoOn, CoreOK', SameTables, SameChunks,
           generation' = generation, graph' = graph, rows'.out = rows.out, ~tangled' => ~tangled
    PROVE  GraphOK' /\ Complete'
<1>1. Sends({}, {})
  BY DEF Sends, Upserts, Deletes
<1>2. \A x : Stands(rows', doc', x) <=> Stands(rows, doc, x)
  BY SameStands DEF IInv
<1>3. \A x : Due(rows', doc', generation', x) => Due(rows, doc, generation, x)
  BY SameStands DEF IInv
<1>4. GraphOK'
  BY <1>1, <1>2, SendsGraph
<1>5. Complete'
  BY <1>1, <1>3, SendsComplete
<1>6. QED
  BY <1>4, <1>5

\* Remember keeps the projection behind the rows.
LEMMA RememberGraph ==
    ASSUME IInv, TypeOK', RowsGoOn, DocsGoOn, CoreOK', NEW s \in Sources, Remember(s)
    PROVE  GraphOK' /\ Complete'
<1>1. /\ doc[s][generation] = NoDocument /\ doc'[s][generation] = PlannedDocument
      /\ \A t \in Sources, g \in Generations : t # s \/ g # generation => doc'[t][g] = doc[t][g]
  BY RememberDocs
<1>2. SameChunks
  <2>1. /\ NoDocument.active = FALSE /\ PlannedDocument.chunked = FALSE
    BY DEF NoDocument, PlannedDocument
  <2>2. QED
    BY <1>1, <2>1 DEF SameChunks, HasChunk, Chunk
<1>3. UNCHANGED <<generation, rows, graph, tangled>>
  BY DEF Remember
<1>4. SameTables
  BY <1>3 DEF SameTables
<1>5. QED
  BY <1>2, <1>3, <1>4, QuietGraph

\* Rows, documents and graph stay as they are.
LEMMA StillGraph ==
    ASSUME IInv, TypeOK', RowsGoOn, DocsGoOn, CoreOK',
           UNCHANGED <<generation, doc, rows, graph, tangled>>
    PROVE  GraphOK' /\ Complete'
<1>1. SameTables /\ SameChunks
  BY DocsAlone DEF SameTables
<1>2. QED
  BY <1>1, QuietGraph

-----------------------------------------------------------------------------
(* ActivateGeneration and ProcessSources *)

\* ActivateGeneration keeps the projection behind the rows.
LEMMA ActivateGraph ==
    ASSUME IInv, TypeOK', RowsGoOn, DocsGoOn, CoreOK', NEW t \in Generations, ActivateGeneration(t)
    PROVE  GraphOK' /\ Complete'
<1>1. /\ generation' = IF generation < t THEN t ELSE generation
      /\ UNCHANGED <<doc, graph, tangled>>
  BY DEF ActivateGeneration
<1>2. CASE ~ (generation < t)
  <2>1. rows' = rows
    BY <1>2 DEF ActivateGeneration
  <2>2. QED
    BY <1>1, <1>2, <2>1, StillGraph
<1>3. CASE generation < t
  <2> DEFINE U == {EntityNode(e) : e \in Older(t)}
  <2>1. /\ rows'.out = rows.out \cup Upserts(U)
        /\ DOMAIN rows'.ents = DOMAIN rows.ents
        /\ \A e \in DOMAIN rows.ents : rows'.ents[e].active = rows.ents[e].active
        /\ rows'.rels = rows.rels
        /\ rows'.mentions = rows.mentions /\ rows'.evidence = rows.evidence
    BY <1>3, ActivateRows
  <2>2. Sends(U, {})
    BY <1>1, <2>1 DEF Sends, Deletes
  <2>3. RowsOK(rows) /\ generation \in Nat /\ t \in Nat /\ generation' = t
    BY <1>1, <1>3, GenerationsAre DEF IInv, TypeOK
  <2>4. \A x \in U : Stands(rows', doc', x)
    BY <2>1 DEF Stands, Older
  <2> HIDE DEF U
  <2>5. \A x : Stands(rows, doc, x) => Stands(rows', doc', x)
    BY <1>1, <2>1 DEF Stands
  <2>6. \A r : Connects(rows', r) => Connects(rows, r)
    BY <2>1, <2>3 DEF Connects, RowsOK, References
  <2>7. /\ \A c \in ChunkIds : c[2] >= t => c[2] >= generation
        /\ \A m \in rows.mentions : m.chunk \in ChunkIds /\ m.entity \in DOMAIN rows.ents
        /\ \A r \in DOMAIN rows.rels : rows.rels[r].gen >= t => rows.rels[r].gen >= generation
    <3>1. \A g \in Generations : g >= t => g >= generation
      BY <1>3, <2>3, GenerationsAre
    <3>2. \A c \in ChunkIds : c[2] \in Generations
      BY DEF ChunkIds
    <3>3. QED
      BY <2>3, <3>1, <3>2, RowTypes DEF RowsOK, RowsType, MentionRow, References
  <2>8. ASSUME NEW x, Due(rows', doc', t, x) PROVE Due(rows, doc, generation, x)
    <3>1. CASE \E e \in DOMAIN rows'.ents : rows'.ents[e].active /\ x = EntityNode(e)
      BY <2>1, <3>1 DEF Due
    <3>2. CASE \E c \in ChunkIds : Live(doc', c) /\ c[2] >= t /\ x = ChunkNode(c)
      BY <1>1, <2>7, <3>2 DEF Due
    <3>3. CASE \E m \in rows'.mentions : /\ Live(doc', m.chunk) /\ m.chunk[2] >= t
                                         /\ rows'.ents[m.entity].active /\ x = MentionEdge(m)
      BY <1>1, <2>1, <2>7, <3>3 DEF Due
    <3>4. CASE \E r \in DOMAIN rows'.rels : /\ Connects(rows', r) /\ rows'.rels[r].gen >= t
                                            /\ x = RelationEdge(r, rows'.rels[r])
      BY <2>1, <2>6, <2>7, <3>4 DEF Due
    <3>5. QED
      BY <2>8, <3>1, <3>2, <3>3, <3>4 DEF Due
  <2>9. GraphOK'
    BY <1>1, <2>2, <2>4, <2>5, SendsGraph
  <2>10. Complete'
    BY <1>1, <2>2, <2>3, <2>8, SendsComplete
  <2>11. QED
    BY <2>9, <2>10
<1>4. QED
  BY <1>2, <1>3

\* What a batch announces is what it adds.
LEMMA BuildsGraph ==
    ASSUME IInv, TypeOK', RowsGoOn, DocsGoOn, CoreOK', NEW t, NEW built, NEW chunk,
           Builds(t, built, chunk), ~tangled' => ~tangled
    PROVE  GraphOK' /\ Complete'
<1>1. RowsOK(rows) /\ TypeOK /\ BornOnly
  BY DEF IInv
<1>2. Grows(rows, rows') /\ UNCHANGED <<generation, graph>>
  BY DEF Builds, Extends
<1>3. PICK U : Announces(rows, rows', built, chunk, U)
  BY DEF Builds, Extends
<1>4. Sends(U, {})
  BY <1>2, <1>3 DEF Sends, Announces, Deletes
<1>5. \A s \in built : chunk[s] \in ChunkIds /\ Live(doc', chunk[s])
  BY DEF Builds
<1>6. ASSUME NEW c \in ChunkIds
      PROVE  /\ Live(doc, c) => Live(doc', c)
             /\ Live(doc', c) => Live(doc, c) \/ \E s \in built : c = chunk[s]
  <2>1. ASSUME Live(doc, c) PROVE Live(doc', c)
    <3>1. c[1] \in Sources /\ c[2] \in Generations /\ HasChunk(c[1], c[2]) /\ c = Chunk(c[1], c[2])
      BY <1>1, <2>1, ActiveIs
    <3>2. HasChunk(c[1], c[2])' /\ Chunk(c[1], c[2])' = c
      <4>1. PICK s \in Sources, g \in Generations : s = c[1] /\ g = c[2]
        BY <3>1
      <4>2. HasChunk(s, g)' /\ Chunk(s, g)' = c
        BY <3>1, <4>1 DEF Builds
      <4>3. doc'[s][g].active /\ doc'[s][g].chunked /\ c = <<s, g, doc'[s][g].id>>
        BY <4>2 DEF HasChunk, Chunk
      <4>4. QED
        BY <4>1, <4>3 DEF HasChunk, Chunk
    <3>3. QED
      BY <3>2 DEF HasChunk, Chunk, Live
  <2>2. ASSUME Live(doc', c) PROVE Live(doc, c) \/ \E s \in built : c = chunk[s]
    <3>1. /\ c[1] \in Sources /\ c[2] \in Generations
          /\ doc'[c[1]][c[2]].active /\ doc'[c[1]][c[2]].chunked
          /\ c = <<c[1], c[2], doc'[c[1]][c[2]].id>>
      BY <2>2, ActiveIsAfter
    <3>2. PICK s \in Sources, g \in Generations : s = c[1] /\ g = c[2]
      BY <3>1
    <3>3. HasChunk(s, g)' /\ Chunk(s, g)' = c
      BY <3>1, <3>2 DEF HasChunk, Chunk
    <3>4. HasChunk(s, g) \/ (s \in built /\ g = t)
      BY <3>3 DEF Builds
    <3>5. CASE HasChunk(s, g)
      <4>1. Chunk(s, g) = c
        BY <3>3, <3>5 DEF Builds
      <4>2. QED
        BY <1>1, <3>5, <4>1, ActiveIs
    <3>6. CASE s \in built /\ g = t
      <4>1. Chunk(s, g)' = chunk[s]
        BY <3>6 DEF Builds
      <4>2. QED
        BY <3>3, <3>6, <4>1
    <3>7. QED
      BY <3>4, <3>5, <3>6
  <2>3. QED
    BY <2>1, <2>2
<1>7. ASSUME NEW x \in U PROVE Stands(rows', doc', x)
  <2>1. \/ \E e \in DOMAIN rows'.ents : rows'.ents[e].active /\ x = EntityNode(e)
        \/ \E s \in built : x = ChunkNode(chunk[s])
        \/ \E m \in rows'.mentions : x = MentionEdge(m)
        \/ \E r \in DOMAIN rows'.rels : rows'.rels[r].active /\ x = RelationEdge(r, rows'.rels[r])
    BY <1>3 DEF Announces
  <2>2. QED
    BY <1>5, <2>1 DEF Stands
<1>8. ASSUME NEW x, Stands(rows, doc, x) PROVE Stands(rows', doc', x)
  <2>1. CASE \E e \in DOMAIN rows.ents : rows.ents[e].active /\ x = EntityNode(e)
    BY <1>2, <2>1 DEF Grows, Stands
  <2>2. CASE \E c \in ChunkIds : Live(doc, c) /\ x = ChunkNode(c)
    BY <1>6, <2>2 DEF Stands
  <2>3. CASE \E m \in rows.mentions : x = MentionEdge(m)
    BY <1>2, <2>3 DEF Grows, Stands
  <2>4. CASE \E r \in DOMAIN rows.rels : rows.rels[r].active /\ x = RelationEdge(r, rows.rels[r])
    BY <1>2, <2>4 DEF Grows, Stands
  <2>5. QED
    BY <1>8, <2>1, <2>2, <2>3, <2>4 DEF Stands
<1>9. ASSUME NEW x, Due(rows', doc', generation, x)
      PROVE  Due(rows, doc, generation, x) \/ x \in U
  <2>1. CASE \E e \in DOMAIN rows'.ents : rows'.ents[e].active /\ x = EntityNode(e)
    <3>1. PICK e \in DOMAIN rows'.ents : rows'.ents[e].active /\ x = EntityNode(e)
      BY <2>1
    <3>2. CASE e \in DOMAIN rows.ents
      BY <1>2, <3>1, <3>2 DEF Grows, Due
    <3>3. CASE e \notin DOMAIN rows.ents
      BY <1>3, <3>1, <3>3 DEF Announces
    <3>4. QED
      BY <3>2, <3>3
  <2>2. CASE \E c \in ChunkIds : Live(doc', c) /\ c[2] >= generation /\ x = ChunkNode(c)
    <3>1. PICK c \in ChunkIds : Live(doc', c) /\ c[2] >= generation /\ x = ChunkNode(c)
      BY <2>2
    <3>2. CASE Live(doc, c)
      BY <3>1, <3>2 DEF Due
    <3>3. CASE \E s \in built : c = chunk[s]
      BY <1>3, <3>1, <3>3 DEF Announces
    <3>4. QED
      BY <1>6, <3>1, <3>2, <3>3
  <2>3. CASE \E m \in rows'.mentions : /\ Live(doc', m.chunk) /\ m.chunk[2] >= generation
                                       /\ rows'.ents[m.entity].active /\ x = MentionEdge(m)
    <3>1. PICK m \in rows'.mentions : /\ Live(doc', m.chunk) /\ m.chunk[2] >= generation
                                      /\ rows'.ents[m.entity].active /\ x = MentionEdge(m)
      BY <2>3
    <3>2. CASE m \in rows.mentions
      <4>1. m.entity \in DOMAIN rows.ents /\ Born(doc, m.chunk)
        BY <1>1, <3>2 DEF RowsOK, References, BornOnly
      <4>2. rows.ents[m.entity].active
        BY <1>2, <3>1, <4>1 DEF Grows
      <4>3. Live(doc, m.chunk)
        BY <3>1, <4>1 DEF DocsGoOn, Ages
      <4>4. QED
        BY <3>1, <3>2, <4>2, <4>3 DEF Due
    <3>3. CASE m \notin rows.mentions
      BY <1>3, <3>1, <3>3 DEF Announces
    <3>4. QED
      BY <3>2, <3>3
  <2>4. CASE \E r \in DOMAIN rows'.rels : /\ Connects(rows', r) /\ rows'.rels[r].gen >= generation
                                          /\ x = RelationEdge(r, rows'.rels[r])
    <3>1. PICK r \in DOMAIN rows'.rels : /\ Connects(rows', r) /\ rows'.rels[r].gen >= generation
                                         /\ x = RelationEdge(r, rows'.rels[r])
      BY <2>4
    <3>2. CASE r \in DOMAIN rows.rels
      <4>1. rows'.rels[r] = rows.rels[r]
        BY <1>2, <3>2 DEF Grows
      <4>2. rows.rels[r].src \in DOMAIN rows.ents /\ rows.rels[r].dst \in DOMAIN rows.ents
        BY <1>1, <3>2 DEF RowsOK, References
      <4>3. Connects(rows, r)
        BY <1>2, <3>1, <3>2, <4>1, <4>2 DEF Connects, Grows
      <4>4. QED
        BY <3>1, <3>2, <4>1, <4>3 DEF Due
    <3>3. CASE r \notin DOMAIN rows.rels
      BY <1>3, <3>1, <3>3 DEF Announces
    <3>4. QED
      BY <3>2, <3>3
  <2>5. QED
    BY <1>9, <2>1, <2>2, <2>3, <2>4 DEF Due
<1>10. GraphOK'
  BY <1>4, <1>7, <1>8, SendsGraph
<1>11. Complete'
  BY <1>2, <1>4, <1>9, SendsComplete
<1>12. QED
  BY <1>10, <1>11

\* ProcessSources keeps the projection behind the rows.
LEMMA ProcessGraph ==
    ASSUME IInv, TypeOK', RowsGoOn, DocsGoOn, CoreOK', NEW ids, NEW rebuild \in BOOLEAN, NEW failed,
           ProcessSources(ids, rebuild, failed)
    PROVE  GraphOK' /\ Complete'
<1>1. PICK t : t = Target(rebuild)
  OBVIOUS
<1>2. PICK built : built = Built(ids, rebuild, failed)
  OBVIOUS
<1>3. PICK chunk : chunk = BuiltChunk(ids, rebuild, failed)
  OBVIOUS
<1>4. Processes(t, built, chunk, rebuild, failed)
  BY <1>1, <1>2, <1>3, ProcessBuilds
<1>5. Builds(t, built, chunk) /\ (~tangled' => ~tangled)
  BY <1>4 DEF Processes, Tangles
<1>6. QED
  BY <1>5, BuildsGraph

-----------------------------------------------------------------------------
(* EntityMerge *)

\* The relations that are neither rewired nor taken away stay as they are, and
\* those that are had an end that is merged away.
LEMMA MergeEdges ==
    ASSUME RowsOK(rows), NEW plan, Chosen(plan), Merges(rows, rows', plan),
           NEW r \in DOMAIN rows.rels, rows.rels[r].active
    PROVE  \/ rows'.rels[r] = rows.rels[r]
           \/ \E e \in DOMAIN plan : EntityNode(e) \in RelationEdge(r, rows.rels[r]).ends
<1>1. ASSUME r \in Changed(plan)
      PROVE  \E e \in DOMAIN plan : EntityNode(e) \in RelationEdge(r, rows.rels[r]).ends
  <2>1. r \in VisibleRelations /\ Rewired(plan, r) # rows.rels[r]
    BY <1>1 DEF Changed
  <2>2. rows.rels[r].src \in DOMAIN plan \/ rows.rels[r].dst \in DOMAIN plan
    BY <2>1, RewiredIs
  <2>3. QED
    BY <2>2, EdgesAre
<1>2. CASE r \in Survivors(plan)
  <2>1. rows'.rels[r] = Rewired(plan, r)
    BY <1>2 DEF Merges
  <2>2. r \in VisibleRelations
    BY <1>2, MergingIs
  <2>3. r \in Changed(plan) \/ Rewired(plan, r) = rows.rels[r]
    BY <2>2 DEF Changed
  <2>4. QED
    BY <1>1, <2>1, <2>3
<1>3. CASE r \in Loops(plan) \cup Losers(plan)
  <2>1. r \in Changed(plan)
    BY <1>3, MergingIs DEF Loops
  <2>2. QED
    BY <1>1, <2>1
<1>4. CASE r \notin Survivors(plan) \cup Loops(plan) \cup Losers(plan)
  BY <1>4 DEF Merges
<1>5. QED
  BY <1>2, <1>3, <1>4

\* EntityMerge keeps the projection behind the rows.
LEMMA MergeGraph ==
    ASSUME IInv, TypeOK', RowsGoOn, DocsGoOn, CoreOK', EntityMerge
    PROVE  GraphOK' /\ Complete'
<1>1. RowsOK(rows) /\ TypeOK
  BY DEF IInv
<1>2. tangled' = Tangles /\ UNCHANGED <<generation, doc, graph>>
  BY EntityMergeIs
<1>3. PICK plan : plan = MergePlan
  OBVIOUS
<1> DEFINE D == {EntityNode(e) : e \in DOMAIN plan}
           M == {MentionEdge(m) : m \in Moved(plan)}
           R == {RelationEdge(r, Rewired(plan, r)) : r \in Survivors(plan)}
           U == M \cup R
<1>4. /\ Chosen(plan) /\ Merges(rows, rows', plan)
      /\ rows'.out = rows.out \cup Deletes(D) \cup Upserts(U)
  BY <1>1, <1>3, MergeRows
<1>5. Sends(U, D)
  BY <1>2, <1>4 DEF Sends
<1>6. /\ DOMAIN rows'.ents = DOMAIN rows.ents /\ DOMAIN rows'.rels = DOMAIN rows.rels
      /\ \A e \in DOMAIN rows.ents :
            rows'.ents[e].active <=> rows.ents[e].active /\ e \notin DOMAIN plan
      /\ \A r \in DOMAIN rows.rels : rows'.rels[r].gen = rows.rels[r].gen
      /\ \A m \in rows.mentions : m.entity \notin DOMAIN plan => m \in rows'.mentions
      /\ \A n \in rows'.mentions : n \in rows.mentions \/ n \in Moved(plan)
      /\ Moved(plan) \subseteq rows'.mentions
  BY <1>4 DEF Merges
<1>7. DOMAIN plan \subseteq DOMAIN rows.ents
  BY <1>4 DEF Chosen, VisibleEntities
<1>8. \A e \in DOMAIN plan : Gone(rows', doc', EntityNode(e))
  BY <1>6, <1>7 DEF Gone
<1>9. \A x \in D : WellFormed(rows', doc', x) /\ Gone(rows', doc', x)
  BY <1>6, <1>7, <1>8 DEF WellFormed
<1>10. ASSUME NEW x \in U PROVE Stands(rows', doc', x)
  <2>1. CASE x \in M
    BY <1>6, <2>1 DEF Stands
  <2>2. CASE x \in R
    <3>1. PICK r \in Survivors(plan) : x = RelationEdge(r, Rewired(plan, r))
      BY <2>2
    <3>2. r \in VisibleRelations
      BY <1>1, <1>4, MergingIs
    <3>3. r \in DOMAIN rows'.rels /\ rows'.rels[r] = Rewired(plan, r)
      BY <1>1, <1>4, <1>6, <3>2, VisibleIs DEF Merges
    <3>4. Rewired(plan, r).active
      BY <1>1, <1>4, <3>2, RewiredIs
    <3>5. QED
      BY <3>1, <3>3, <3>4 DEF Stands
  <2>3. QED
    BY <2>1, <2>2
<1>11. \A e \in DOMAIN plan : EntityNode(e) \in D
  OBVIOUS
<1>12. \A m \in Moved(plan) : MentionEdge(m) \in U
  OBVIOUS
<1>13. \A r \in Survivors(plan) : RelationEdge(r, Rewired(plan, r)) \in U
  OBVIOUS
<1> HIDE DEF D, M, R, U
<1>14. ASSUME NEW x, Stands(rows, doc, x)
       PROVE  Stands(rows', doc', x) \/ Loose(rows', doc', x) \/ x \in D
  <2>1. CASE \E e \in DOMAIN rows.ents : rows.ents[e].active /\ x = EntityNode(e)
    BY <1>6, <1>11, <2>1 DEF Stands
  <2>2. CASE \E c \in ChunkIds : Live(doc, c) /\ x = ChunkNode(c)
    BY <1>2, <2>2 DEF Stands
  <2>3. CASE \E m \in rows.mentions : x = MentionEdge(m)
    <3>1. PICK m \in rows.mentions : x = MentionEdge(m)
      BY <2>3
    <3>2. CASE m.entity \in DOMAIN plan
      <4>1. EntityNode(m.entity) \in x.ends /\ ~IsNode(x)
        BY <3>1, EdgesAre
      <4>2. QED
        BY <1>8, <3>2, <4>1 DEF Loose
    <3>3. CASE m.entity \notin DOMAIN plan
      BY <1>6, <3>1, <3>3 DEF Stands
    <3>4. QED
      BY <3>2, <3>3
  <2>4. CASE \E r \in DOMAIN rows.rels : rows.rels[r].active /\ x = RelationEdge(r, rows.rels[r])
    <3>1. PICK r \in DOMAIN rows.rels : rows.rels[r].active /\ x = RelationEdge(r, rows.rels[r])
      BY <2>4
    <3>2. CASE rows'.rels[r] = rows.rels[r]
      BY <1>6, <3>1, <3>2 DEF Stands
    <3>3. CASE \E e \in DOMAIN plan : EntityNode(e) \in RelationEdge(r, rows.rels[r]).ends
      <4>1. ~IsNode(x)
        BY <3>1, EdgesAre
      <4>2. QED
        BY <1>8, <3>1, <3>3, <4>1 DEF Loose
    <3>4. QED
      BY <1>1, <1>4, <3>1, <3>2, <3>3, MergeEdges
  <2>5. QED
    BY <1>14, <2>1, <2>2, <2>3, <2>4 DEF Stands
<1>15. ASSUME NEW x, Due(rows', doc', generation, x)
       PROVE  Due(rows, doc, generation, x) \/ x \in U
  <2>1. CASE \E e \in DOMAIN rows'.ents : rows'.ents[e].active /\ x = EntityNode(e)
    BY <1>6, <2>1 DEF Due
  <2>2. CASE \E c \in ChunkIds : Live(doc', c) /\ c[2] >= generation /\ x = ChunkNode(c)
    BY <1>2, <2>2 DEF Due
  <2>3. CASE \E m \in rows'.mentions : /\ Live(doc', m.chunk) /\ m.chunk[2] >= generation
                                       /\ rows'.ents[m.entity].active /\ x = MentionEdge(m)
    <3>1. PICK m \in rows'.mentions : /\ Live(doc', m.chunk) /\ m.chunk[2] >= generation
                                      /\ rows'.ents[m.entity].active /\ x = MentionEdge(m)
      BY <2>3
    <3>2. CASE m \in Moved(plan)
      BY <1>12, <3>1, <3>2
    <3>3. CASE m \in rows.mentions
      <4>1. m.entity \in DOMAIN rows.ents
        BY <1>1, <3>3 DEF RowsOK, References
      <4>2. QED
        BY <1>2, <1>6, <3>1, <3>3, <4>1 DEF Due
    <3>4. QED
      BY <1>6, <3>2, <3>3
  <2>4. CASE \E r \in DOMAIN rows'.rels : /\ Connects(rows', r) /\ rows'.rels[r].gen >= generation
                                          /\ x = RelationEdge(r, rows'.rels[r])
    <3>1. PICK r \in DOMAIN rows'.rels : /\ Connects(rows', r) /\ rows'.rels[r].gen >= generation
                                         /\ x = RelationEdge(r, rows'.rels[r])
      BY <2>4
    <3>2. r \in DOMAIN rows.rels /\ rows'.rels[r].active
      BY <1>6, <3>1 DEF Connects
    <3>3. CASE r \in Survivors(plan)
      <4>1. rows'.rels[r] = Rewired(plan, r)
        BY <1>4, <3>2, <3>3 DEF Merges
      <4>2. QED
        BY <1>13, <3>1, <3>3, <4>1
    <3>4. CASE r \notin Survivors(plan)
      <4>1. rows'.rels[r] = rows.rels[r]
        BY <1>4, <3>2, <3>4 DEF Merges
      <4>2. rows.rels[r].src \in DOMAIN rows.ents /\ rows.rels[r].dst \in DOMAIN rows.ents
        BY <1>1, <3>2 DEF RowsOK, References
      <4>3. Connects(rows, r)
        BY <1>6, <3>1, <3>2, <4>1, <4>2 DEF Connects
      <4>4. QED
        BY <3>1, <3>2, <4>1, <4>3 DEF Due
    <3>5. QED
      BY <3>3, <3>4
  <2>5. QED
    BY <1>15, <2>1, <2>2, <2>3, <2>4 DEF Due
<1>16. ~tangled' => ~tangled
  BY <1>2 DEF Tangles
<1>17. GraphOK'
  BY <1>5, <1>9, <1>10, <1>14, <1>16, SendsGraph
<1>18. Complete'
  BY <1>2, <1>5, <1>15, <1>16, SendsComplete
<1>19. QED
  BY <1>17, <1>18

-----------------------------------------------------------------------------
(* Forget and GraphMaintain *)

\* Rows and chunks that go are deleted; the elements of U are renewed.
LEMMA TakesGraph ==
    ASSUME IInv, TypeOK', RowsGoOn, DocsGoOn, CoreOK', generation' = generation, graph' = graph,
           NEW rels, NEW ents, NEW U, NEW D, Takes(rels, ents, Upserts(U) \cup Deletes(D)),
           ~tangled' => ~tangled,
           \A c \in ChunkIds : Live(doc, c) => Live(doc', c) \/ ChunkNode(c) \in D,
           \A c \in ChunkIds : Live(doc', c) => Live(doc, c),
           \A e \in ents : EntityNode(e) \in D,
           \A r \in rels : RelationEdge(r, rows.rels[r]) \in D,
           \A x \in U : Stands(rows', doc', x),
           \A x \in D : WellFormed(rows', doc', x),
           ~tangled' => \A x \in D : Gone(rows', doc', x)
    PROVE  GraphOK' /\ Complete'
<1>1. RowsOK(rows)
  BY DEF IInv
<1>2. Sends(U, D)
  BY DEF Sends, Takes
<1>3. /\ Fades(rows, rows')
      /\ \A e \in DOMAIN rows.ents :
            rows'.ents[e].active <=> rows.ents[e].active /\ e \notin ents
      /\ \A r \in DOMAIN rows.rels :
            /\ rows'.rels[r].active <=> rows.rels[r].active /\ r \notin rels
            /\ r \notin rels => rows'.rels[r] = rows.rels[r]
  BY <1>1, TakesFades
<1>4. /\ DOMAIN rows'.ents = DOMAIN rows.ents /\ DOMAIN rows'.rels = DOMAIN rows.rels
      /\ rows'.mentions = rows.mentions
  BY <1>3 DEF Fades
<1>5. ASSUME NEW x, Stands(rows, doc, x) PROVE Stands(rows', doc', x) \/ x \in D
  <2>1. CASE \E e \in DOMAIN rows.ents : rows.ents[e].active /\ x = EntityNode(e)
    BY <1>3, <1>4, <2>1 DEF Stands
  <2>2. CASE \E c \in ChunkIds : Live(doc, c) /\ x = ChunkNode(c)
    BY <2>2 DEF Stands
  <2>3. CASE \E m \in rows.mentions : x = MentionEdge(m)
    BY <1>4, <2>3 DEF Stands
  <2>4. CASE \E r \in DOMAIN rows.rels : rows.rels[r].active /\ x = RelationEdge(r, rows.rels[r])
    BY <1>3, <1>4, <2>4 DEF Stands
  <2>5. QED
    BY <1>5, <2>1, <2>2, <2>3, <2>4 DEF Stands
<1>6. ASSUME NEW x, Due(rows', doc', generation, x) PROVE Due(rows, doc, generation, x)
  <2>1. CASE \E e \in DOMAIN rows'.ents : rows'.ents[e].active /\ x = EntityNode(e)
    BY <1>3, <1>4, <2>1 DEF Due
  <2>2. CASE \E c \in ChunkIds : Live(doc', c) /\ c[2] >= generation /\ x = ChunkNode(c)
    BY <2>2 DEF Due
  <2>3. CASE \E m \in rows'.mentions : /\ Live(doc', m.chunk) /\ m.chunk[2] >= generation
                                       /\ rows'.ents[m.entity].active /\ x = MentionEdge(m)
    <3>1. \A m \in rows.mentions : m.chunk \in ChunkIds /\ m.entity \in DOMAIN rows.ents
      BY <1>1 DEF RowsOK, RowsType, References, MentionRow
    <3>2. QED
      BY <1>3, <1>4, <2>3, <3>1 DEF Due
  <2>4. CASE \E r \in DOMAIN rows'.rels : /\ Connects(rows', r) /\ rows'.rels[r].gen >= generation
                                          /\ x = RelationEdge(r, rows'.rels[r])
    <3>1. PICK r \in DOMAIN rows'.rels : /\ Connects(rows', r) /\ rows'.rels[r].gen >= generation
                                         /\ x = RelationEdge(r, rows'.rels[r])
      BY <2>4
    <3>2. Connects(rows, r)
      BY <1>1, <1>3, <3>1, FadesConnects
    <3>3. r \in DOMAIN rows.rels /\ rows'.rels[r] = rows.rels[r]
      BY <1>3, <1>4, <3>1 DEF Connects
    <3>4. QED
      BY <3>1, <3>2, <3>3 DEF Due
  <2>5. QED
    BY <1>6, <2>1, <2>2, <2>3, <2>4 DEF Due
<1>7. GraphOK'
  BY <1>2, <1>5, SendsGraph
<1>8. Complete'
  BY <1>2, <1>6, SendsComplete
<1>9. QED
  BY <1>7, <1>8

\* GraphMaintain keeps the projection behind the rows.
LEMMA MaintainGraph ==
    ASSUME IInv, TypeOK', RowsGoOn, DocsGoOn, CoreOK', GraphMaintain
    PROVE  GraphOK' /\ Complete'
<1> DEFINE D == {RelationEdge(r, rows.rels[r]) : r \in Unsupported}
           U == {EntityNode(e) : e \in VisibleEntities}
                \cup {RelationEdge(r, rows.rels[r]) : r \in VisibleRelations \ Unsupported}
<1>1. /\ Takes(Unsupported, {}, Upserts(U) \cup Deletes(D))
      /\ UNCHANGED <<generation, doc, graph, tangled>>
  <2>1. Takes(Unsupported, {}, Deletes(D) \cup Reweighted(Unsupported))
    BY MaintainIs
  <2>2. Deletes(D) \cup Reweighted(Unsupported) = Upserts(U) \cup Deletes(D)
    BY DEF Reweighted
  <2>3. QED
    BY <2>1, <2>2, MaintainIs
<1>2. RowsOK(rows) /\ TypeOK /\ DocsOK /\ BornOnly
  BY DEF IInv
<1>3. /\ DOMAIN rows'.ents = DOMAIN rows.ents /\ DOMAIN rows'.rels = DOMAIN rows.rels
      /\ \A e \in DOMAIN rows.ents : rows'.ents[e].active <=> rows.ents[e].active
      /\ \A r \in DOMAIN rows.rels :
            /\ rows'.rels[r].active <=> rows.rels[r].active /\ r \notin Unsupported
            /\ r \notin Unsupported => rows'.rels[r] = rows.rels[r]
  BY <1>1, <1>2, TakesFades DEF Fades
<1>4. \A r \in VisibleRelations : r \in DOMAIN rows.rels /\ rows.rels[r].active /\ rows.rels[r] \in RelationRow
  BY <1>2, VisibleIs
<1>5. ASSUME NEW x \in U PROVE Stands(rows', doc', x)
  <2>1. CASE x \in {EntityNode(e) : e \in VisibleEntities}
    BY <1>3, <2>1 DEF Stands, VisibleEntities, Visible
  <2>2. CASE x \in {RelationEdge(r, rows.rels[r]) : r \in VisibleRelations \ Unsupported}
    BY <1>3, <1>4, <2>2 DEF Stands
  <2>3. QED
    BY <2>1, <2>2
<1>6. ASSUME NEW x \in D PROVE WellFormed(rows', doc', x) /\ Gone(rows', doc', x)
  <2>1. PICK r \in Unsupported : x = RelationEdge(r, rows.rels[r])
    OBVIOUS
  <2>2. r \in VisibleRelations
    BY DEF Unsupported
  <2>3. Stands(rows, doc, x)
    BY <1>4, <2>1, <2>2 DEF Stands
  <2>4. WellFormed(rows', doc', x)
    BY <1>2, <2>3, StandsIsWell, WellFormedStays
  <2>5. Gone(rows', doc', x)
    BY <1>3, <1>4, <2>1, <2>2 DEF Gone
  <2>6. QED
    BY <2>4, <2>5
<1>7. \A r \in Unsupported : RelationEdge(r, rows.rels[r]) \in D
  OBVIOUS
<1> HIDE DEF D, U
<1>8. QED
  BY <1>1, <1>5, <1>6, <1>7, TakesGraph

\* What is forgotten stood, and is deleted.
LEMMA ForgetGraph ==
    ASSUME IInv, TypeOK', RowsGoOn, DocsGoOn, CoreOK', generation' = generation, graph' = graph,
           ~tangled' => ~tangled,
           NEW S, Ends(S), NEW chunks, chunks \subseteq CurrentChunks,
           \A c \in CurrentChunks : c[1] \in S => c \in chunks,
           ~tangled' => \A c \in chunks : c[1] \in S,
           NEW rels, rels \subseteq VisibleRelations, NEW ents, ents \subseteq VisibleEntities,
           Takes(rels, ents, ForgetCommands(chunks, MentionsIn(chunks), rels, ents))
    PROVE  GraphOK' /\ Complete'
<1> DEFINE C == {ChunkNode(c) : c \in chunks}
           M == {MentionEdge(m) : m \in MentionsIn(chunks)}
           R == {RelationEdge(r, rows.rels[r]) : r \in rels}
           E == {EntityNode(e) : e \in ents}
           D == C \cup M \cup R \cup E
<1>1. Takes(rels, ents, Upserts({}) \cup Deletes(D))
  <2>1. ForgetCommands(chunks, MentionsIn(chunks), rels, ents) = Upserts({}) \cup Deletes(D)
    BY DEF ForgetCommands, Upserts, Deletes
  <2>2. QED
    BY <2>1
<1>2. RowsOK(rows) /\ TypeOK /\ DocsOK /\ BornOnly
  BY DEF IInv
<1>3. /\ DOMAIN rows'.ents = DOMAIN rows.ents /\ DOMAIN rows'.rels = DOMAIN rows.rels
      /\ \A e \in DOMAIN rows.ents : e \in ents => ~rows'.ents[e].active
      /\ \A r \in DOMAIN rows.rels : r \in rels => ~rows'.rels[r].active
  BY <1>1, <1>2, TakesFades DEF Fades
<1>4. \A r \in rels : r \in DOMAIN rows.rels /\ rows.rels[r].active /\ rows.rels[r] \in RelationRow
  BY <1>2, VisibleIs
<1>5. \A e \in ents : e \in DOMAIN rows.ents /\ rows.ents[e].active
  BY DEF VisibleEntities, Visible
<1>6. \A c \in chunks : c \in ChunkIds /\ Live(doc, c) /\ c[2] = generation
  BY <1>2, CurrentIs
<1>7. \A m \in MentionsIn(chunks) : m \in rows.mentions /\ m \in MentionRow /\ m.chunk \in chunks
  BY <1>2 DEF MentionsIn, RowsOK, RowsType
<1>8. ASSUME NEW x \in D PROVE WellFormed(rows', doc', x)
  <2>1. Stands(rows, doc, x)
    <3>1. CASE x \in C
      BY <1>6, <3>1 DEF Stands
    <3>2. CASE x \in M
      BY <1>7, <3>2 DEF Stands
    <3>3. CASE x \in R
      BY <1>4, <3>3 DEF Stands
    <3>4. CASE x \in E
      BY <1>5, <3>4 DEF Stands
    <3>5. QED
      BY <3>1, <3>2, <3>3, <3>4
  <2>2. QED
    BY <1>2, <2>1, StandsIsWell, WellFormedStays
<1>9. ASSUME NEW c \in ChunkIds
      PROVE  /\ Live(doc, c) => Live(doc', c) \/ c \in chunks
             /\ Live(doc', c) => Live(doc, c)
             /\ c \in chunks /\ c[1] \in S => ~Live(doc', c)
  <2>1. PICK s \in Sources, g \in Generations : s = c[1] /\ g = c[2]
    BY DEF ChunkIds
  <2>2. /\ HasChunk(s, g)' => HasChunk(s, g) /\ Chunk(s, g)' = Chunk(s, g)
        /\ g # generation \/ s \notin S =>
             (HasChunk(s, g) => HasChunk(s, g)' /\ Chunk(s, g)' = Chunk(s, g))
        /\ g = generation /\ s \in S => ~HasChunk(s, g)'
    BY EndsChunks
  <2>3. /\ Live(doc, c) => HasChunk(s, g) /\ c[3] = doc[s][g].id
        /\ HasChunk(s, g) /\ c[3] = doc[s][g].id => Live(doc, c)
        /\ Live(doc', c) => HasChunk(s, g)' /\ c[3] = doc'[s][g].id
        /\ HasChunk(s, g)' /\ c[3] = doc'[s][g].id => Live(doc', c)
    BY <2>1 DEF Live, HasChunk
  <2>4. Chunk(s, g)' = Chunk(s, g) => doc'[s][g].id = doc[s][g].id
    BY DEF Chunk
  <2>5. ASSUME Live(doc, c), ~Live(doc', c) PROVE c \in chunks
    <3>1. g = generation /\ s \in S
      BY <2>2, <2>3, <2>4, <2>5
    <3>2. c \in CurrentChunks
      BY <1>2, <2>1, <2>5, <3>1, CurrentIs
    <3>3. QED
      BY <2>1, <3>1, <3>2
  <2>6. ASSUME Live(doc', c) PROVE Live(doc, c)
    BY <2>2, <2>3, <2>4, <2>6
  <2>7. ASSUME c \in chunks, c[1] \in S PROVE ~Live(doc', c)
    <3>1. g = generation /\ s \in S
      BY <1>6, <2>1, <2>7
    <3>2. QED
      BY <2>2, <2>3, <3>1
  <2>8. QED
    BY <2>5, <2>6, <2>7
<1>10. \A c \in chunks : Born(doc', c)
  <2>1. ASSUME NEW c \in chunks PROVE Born(doc', c)
    <3>1. c \in ChunkIds /\ Live(doc, c) /\ c[1] \in Sources /\ c[2] \in Generations
      BY <1>6 DEF ChunkIds
    <3>2. Born(doc, c)
      BY <1>2, <3>1 DEF Born, Live, DocsOK
    <3>3. QED
      BY <3>2 DEF DocsGoOn, Ages
  <2>2. QED
    BY <2>1
<1>11. ASSUME ~tangled', NEW x \in D PROVE Gone(rows', doc', x)
  <2>0. \A c \in chunks : c \in ChunkIds /\ Born(doc', c) /\ ~Live(doc', c)
    BY <1>6, <1>9, <1>10, <1>11
  <2>1. CASE x \in C
    BY <2>0, <2>1 DEF Gone
  <2>2. CASE x \in M
    BY <1>7, <2>0, <2>2 DEF Gone
  <2>3. CASE x \in R
    BY <1>3, <1>4, <2>3 DEF Gone
  <2>4. CASE x \in E
    BY <1>3, <1>5, <2>4 DEF Gone
  <2>5. QED
    BY <2>1, <2>2, <2>3, <2>4
<1>12. /\ \A c \in chunks : ChunkNode(c) \in D
       /\ \A e \in ents : EntityNode(e) \in D
       /\ \A r \in rels : RelationEdge(r, rows.rels[r]) \in D
  OBVIOUS
<1> HIDE DEF C, M, R, E, D
<1>13. /\ \A c \in ChunkIds : Live(doc, c) => Live(doc', c) \/ ChunkNode(c) \in D
       /\ \A c \in ChunkIds : Live(doc', c) => Live(doc, c)
  BY <1>9, <1>12
<1>14. QED
  BY <1>1, <1>8, <1>11, <1>12, <1>13, TakesGraph

\* ForgetSource keeps the projection behind the rows.
LEMMA ForgetSourceGraph ==
    ASSUME IInv, TypeOK', RowsGoOn, DocsGoOn, CoreOK',
           NEW s0 \in Sources, NEW memory_only \in BOOLEAN, ForgetSource(s0, memory_only)
    PROVE  GraphOK' /\ Complete'
<1>1. /\ (memory_only => CanReset({s0})) /\ doc' = Documents({s0}, memory_only)
      /\ Takes(ForgottenRels(s0), ForgottenEnts(s0),
               ForgetCommands(ForgottenChunks(s0), MentionsIn(ForgottenChunks(s0)),
                              ForgottenRels(s0), ForgottenEnts(s0)))
      /\ tangled' = Tangles /\ generation' = generation /\ graph' = graph
  BY ForgetSourceIs
<1>2. Ends({s0})
  <2>1. {s0} \in SUBSET Sources
    OBVIOUS
  <2>2. QED
    BY <1>1, <2>1, ForgetEnds
<1>3. ~tangled' => ~tangled
  BY <1>1 DEF Tangles
<1>4. /\ ForgottenChunks(s0) \subseteq CurrentChunks
      /\ \A c \in CurrentChunks : c[1] \in {s0} => c \in ForgottenChunks(s0)
      /\ \A c \in ForgottenChunks(s0) : c[1] \in {s0}
  BY DEF ForgottenChunks
<1>5. ForgottenRels(s0) \subseteq VisibleRelations /\ ForgottenEnts(s0) \subseteq VisibleEntities
  BY DEF ForgottenRels, ForgottenEnts
<1>6. QED
  BY <1>1, <1>2, <1>3, <1>4, <1>5, ForgetGraph

\* ForgetDataset keeps the projection behind the rows.
LEMMA ForgetDatasetGraph ==
    ASSUME IInv, TypeOK', RowsGoOn, DocsGoOn, CoreOK',
           NEW memory_only \in BOOLEAN, ForgetDataset(memory_only)
    PROVE  GraphOK' /\ Complete'
<1>1. /\ (memory_only => CanReset(Known)) /\ doc' = Documents(Known, memory_only)
      /\ Takes(VisibleRelations, VisibleEntities,
               ForgetCommands(CurrentChunks, MentionsIn(CurrentChunks),
                              VisibleRelations, VisibleEntities))
      /\ tangled' = Tangles /\ generation' = generation /\ graph' = graph
  BY ForgetDatasetIs
<1>2. Ends(Known)
  <2>1. Known \in SUBSET Sources
    BY DEF Known
  <2>2. QED
    BY <1>1, <2>1, ForgetEnds
<1>3. ~tangled' => ~tangled
  BY <1>1 DEF Tangles
<1>4. ASSUME ~tangled', NEW c \in CurrentChunks PROVE c[1] \in Known
  <2>1. PICK g \in Generations : g = generation
    BY DEF IInv, TypeOK
  <2>2. Sound(g)
    BY <1>3, <1>4, <2>1 DEF IInv, Untangled
  <2>3. c \in ChunkIds /\ Live(doc, c) /\ c[2] = g
    BY <2>1, CurrentIs DEF IInv
  <2>4. c[1] \in Sources /\ HasChunk(c[1], g)
    BY <2>3, ActiveIs DEF IInv
  <2>5. source[c[1]] = "active"
    BY <2>2, <2>4 DEF Sound, SourcesKept
  <2>6. QED
    BY <2>4, <2>5 DEF Known
<1>5. QED
  BY <1>1, <1>2, <1>3, <1>4, ForgetGraph

-----------------------------------------------------------------------------
(* Drain and Reconcile *)

\* A drain that drops dead edges, and fences deletes, loses nothing that is due.
LEMMA DrainGraph ==
    ASSUME IInv, TypeOK', RowsGoOn, DocsGoOn, CoreOK', Drain
    PROVE  GraphOK' /\ Complete'
<1> DEFINE nodes == {x \in graph \cup Of("upsert") : IsNode(x)}
           merged == {x \in Of("upsert") : ~IsNode(x) /\ x.ends \subseteq nodes}
           kept == nodes \ Of("delete")
<1>1. graph' = kept \cup {x \in graph \cup merged :
                            ~IsNode(x) /\ x.ends \subseteq kept /\ x \notin Of("delete")}
  <2>1. {x \in {y \in Of("upsert") : ~IsNode(y)} : x.ends \subseteq nodes} = merged
    OBVIOUS
  <2>2. QED
    BY <2>1 DEF Drain
<1>2. \A x : x \in nodes <=> x \in Present /\ IsNode(x)
  BY DEF Present
<1>3. \A x \in merged : x \in Present
  BY DEF Present
<1>4. \A x : x \in kept <=> x \in nodes /\ x \notin Of("delete")
  OBVIOUS
<1>5. \A x : x \in merged <=> x \in Of("upsert") /\ ~IsNode(x) /\ x.ends \subseteq nodes
  OBVIOUS
<1> HIDE DEF nodes, merged, kept
<1>6. RowsOK(rows) /\ TypeOK /\ GraphOK
  BY DEF IInv
<1>7. SameTables /\ rows'.out = {}
  BY DrainRows DEF SameTables
<1>8. SameChunks /\ UNCHANGED <<generation, tangled>>
  BY DocsAlone DEF Drain
<1>9. \A x : /\ Stands(rows', doc', x) <=> Stands(rows, doc, x)
             /\ Due(rows', doc', generation, x) <=> Due(rows, doc, generation, x)
  BY <1>6, <1>7, <1>8, SameStands
<1>10. Of("upsert")' = {} /\ Of("delete")' = {}
  BY <1>7 DEF Of
<1>11. Present' = graph'
  BY <1>10 DEF Present
<1>12. \A x \in graph' : x \in Present /\ x \notin Of("delete")
  BY <1>1, <1>2, <1>3, <1>4 DEF Present
<1>13. ASSUME NEW n \in kept PROVE ~Gone(rows, doc, n)
  <2>1. n \in Present /\ IsNode(n) /\ n \notin Of("delete")
    BY <1>2, <1>4
  <2>2. Stands(rows, doc, n)
    BY <1>6, <2>1 DEF GraphOK, Loose
  <2>3. QED
    BY <2>1, <2>2, NodeNotGone
<1>14. ASSUME NEW x \in graph', ~IsNode(x) PROVE x.ends \subseteq kept
  BY <1>1, <1>2, <1>4, <1>14
<1>15. ASSUME NEW x \in graph' PROVE Stands(rows', doc', x)
  <2>1. Stands(rows, doc, x) \/ Loose(rows, doc, x)
    BY <1>6, <1>12 DEF GraphOK
  <2>2. ~Loose(rows, doc, x)
    BY <1>13, <1>14 DEF Loose
  <2>3. QED
    BY <1>9, <2>1, <2>2
<1>16. GraphOK'
  <2>1. \A x \in graph' : ~IsNode(x) => x.ends \subseteq graph'
    BY <1>1, <1>14
  <2>2. \A x \in graph' : WellFormed(rows', doc', x)
    BY <1>15, StandsIsWellAfter
  <2>3. QED
    BY <1>10, <1>11, <1>15, <2>1, <2>2 DEF GraphOK
<1>17. ASSUME ~tangled, NEW x, Due(rows, doc, generation, x)
       PROVE  x \in Present /\ x \notin Of("delete")
  <2>1. x \in Present
    BY <1>17 DEF IInv, Complete
  <2>2. ~Gone(rows, doc, x)
    BY <1>17, DueNotGone
  <2>3. QED
    BY <1>6, <1>17, <2>1, <2>2 DEF GraphOK
<1>18. ASSUME ~tangled, NEW x, Due(rows, doc, generation, x) PROVE x \in graph'
  <2>1. CASE IsNode(x)
    BY <1>1, <1>2, <1>4, <1>17, <1>18, <2>1
  <2>2. CASE ~IsNode(x)
    <3>1. \A n \in x.ends : IsNode(n) /\ Due(rows, doc, generation, n)
      BY <1>6, <1>18, <2>2, DueEnds
    <3>2. \A n \in x.ends : n \in Present /\ n \notin Of("delete")
      BY <1>17, <1>18, <3>1
    <3>3. \A n \in x.ends : n \in nodes /\ n \in kept
      BY <1>2, <1>4, <3>1, <3>2
    <3>4. x \in graph \cup merged
      BY <1>5, <1>17, <1>18, <2>2, <3>3 DEF Present
    <3>5. QED
      BY <1>1, <1>17, <1>18, <2>2, <3>3, <3>4
  <2>3. QED
    BY <2>1, <2>2
<1>19. Complete'
  BY <1>8, <1>9, <1>11, <1>18 DEF Complete
<1>20. QED
  BY <1>16, <1>19

\* A rewritten projection is the rows.
LEMMA ReconcileGraph ==
    ASSUME IInv, TypeOK', RowsGoOn, DocsGoOn, CoreOK', Reconcile
    PROVE  GraphOK' /\ Complete'
<1> DEFINE N == {EntityNode(e) : e \in VisibleEntities} \cup {ChunkNode(c) : c \in CurrentChunks}
           R == {RelationEdge(r, rows.rels[r]) : r \in VisibleRelations}
           M == {MentionEdge(m) : m \in {n \in rows.mentions : MentionEdge(n).ends \subseteq N}}
<1>1. /\ graph' = Expected /\ rows.out = {} /\ tangled' = Tangles
      /\ UNCHANGED <<generation, dataset, doc, rows>>
  BY DEF Reconcile, Drained
<1>2. Expected = IF dataset = "active" THEN N \cup R \cup M ELSE {}
  BY DEF Expected, RebuildSnapshot
<1>3. RowsOK(rows) /\ TypeOK /\ EntsAhead /\ RelsAhead
  BY DEF IInv
<1>4. \A e \in VisibleEntities : /\ e \in DOMAIN rows.ents /\ rows.ents[e].active
                                 /\ EntityNode(e) \in N
  BY DEF VisibleEntities, Visible
<1>5. \A c \in CurrentChunks : c \in ChunkIds /\ Live(doc, c) /\ ChunkNode(c) \in N
  BY <1>3, CurrentIs
<1>6. \A r \in VisibleRelations :
         /\ r \in DOMAIN rows.rels /\ rows.rels[r].active
         /\ rows.rels[r].src \in VisibleEntities /\ rows.rels[r].dst \in VisibleEntities
         /\ RelationEdge(r, rows.rels[r]) \in R
  BY <1>3, VisibleIs
<1>7. \A m \in rows.mentions : MentionEdge(m).ends \subseteq N => MentionEdge(m) \in M
  OBVIOUS
<1>8. Of("upsert")' = {} /\ Of("delete")' = {} /\ Present' = graph'
  BY <1>1 DEF Of, Present
<1>9. ASSUME NEW x \in N \cup R \cup M
      PROVE  Stands(rows, doc, x) /\ (~IsNode(x) => x.ends \subseteq N)
  <2>1. CASE x \in N
    BY <1>4, <1>5, <2>1, NodesAre DEF Stands
  <2>2. CASE x \in R
    <3>1. PICK r \in VisibleRelations : x = RelationEdge(r, rows.rels[r])
      BY <2>2
    <3>2. x.ends = {EntityNode(rows.rels[r].src), EntityNode(rows.rels[r].dst)}
      BY <3>1, EdgesAre
    <3>3. QED
      BY <1>4, <1>6, <3>1, <3>2 DEF Stands
  <2>3. CASE x \in M
    BY <2>3 DEF Stands
  <2>4. QED
    BY <2>1, <2>2, <2>3
<1> HIDE DEF N, R, M
<1>10. GraphOK'
  <2>1. \A x \in graph' : ~IsNode(x) => x.ends \subseteq graph'
    BY <1>1, <1>2, <1>9
  <2>2. \A x \in graph' : Stands(rows', doc', x)
    BY <1>1, <1>2, <1>9
  <2>3. \A x \in graph' : WellFormed(rows', doc', x)
    BY <2>2, StandsIsWellAfter
  <2>4. QED
    BY <1>8, <2>1, <2>2, <2>3 DEF GraphOK
<1>11. ASSUME ~Tangles, NEW x, Due(rows, doc, generation, x) PROVE x \in Expected
  <2>1. ~tangled /\ NothingAhead
    BY <1>11, NotTangles
  <2>2. /\ \A e \in DOMAIN rows.ents : rows.ents[e].active => e \in VisibleEntities
        /\ \A r \in DOMAIN rows.rels : rows.rels[r].gen <= generation
    BY <1>3, <2>1, Settled
  <2>3. ASSUME NEW c \in ChunkIds, Live(doc, c), c[2] >= generation
        PROVE  c \in CurrentChunks /\ HasChunk(c[1], generation) /\ c[1] \in Sources
    <3>1. c[1] \in Sources /\ c[2] \in Generations /\ HasChunk(c[1], c[2])
      BY <1>3, <2>3, ActiveIs
    <3>2. ~ (c[2] > generation)
      BY <2>1, <3>1 DEF NothingAhead
    <3>3. c[2] \in Nat /\ generation \in Nat
      BY <1>3, <3>1, GenerationsAre DEF TypeOK
    <3>4. c[2] = generation
      BY <2>3, <3>2, <3>3
    <3>5. QED
      BY <1>3, <2>3, <3>1, <3>4, CurrentIs
  <2>4. CASE dataset = "active"
    <3>1. CASE \E e \in DOMAIN rows.ents : rows.ents[e].active /\ x = EntityNode(e)
      BY <1>2, <1>4, <2>2, <2>4, <3>1
    <3>2. CASE \E c \in ChunkIds : Live(doc, c) /\ c[2] >= generation /\ x = ChunkNode(c)
      BY <1>2, <1>5, <2>3, <2>4, <3>2
    <3>3. CASE \E m \in rows.mentions : /\ Live(doc, m.chunk) /\ m.chunk[2] >= generation
                                        /\ rows.ents[m.entity].active /\ x = MentionEdge(m)
      <4>1. PICK m \in rows.mentions : /\ Live(doc, m.chunk) /\ m.chunk[2] >= generation
                                       /\ rows.ents[m.entity].active /\ x = MentionEdge(m)
        BY <3>3
      <4>2. m.chunk \in ChunkIds /\ m.entity \in DOMAIN rows.ents
        BY <1>3 DEF RowsOK, RowsType, References, MentionRow
      <4>3. EntityNode(m.entity) \in N /\ ChunkNode(m.chunk) \in N
        BY <1>4, <1>5, <2>2, <2>3, <4>1, <4>2
      <4>4. MentionEdge(m).ends \subseteq N
        BY <4>3, EdgesAre
      <4>5. QED
        BY <1>2, <1>7, <2>4, <4>1, <4>4
    <3>4. CASE \E r \in DOMAIN rows.rels : /\ Connects(rows, r) /\ rows.rels[r].gen >= generation
                                           /\ x = RelationEdge(r, rows.rels[r])
      <4>1. PICK r \in DOMAIN rows.rels : /\ Connects(rows, r) /\ rows.rels[r].gen >= generation
                                          /\ x = RelationEdge(r, rows.rels[r])
        BY <3>4
      <4>2. rows.rels[r].gen = generation
        <5>1. rows.rels[r].gen \in Nat /\ generation \in Nat /\ rows.rels[r].gen <= generation
          BY <1>3, <2>2, RowTypes, GenerationsAre DEF TypeOK
        <5>2. QED
          BY <4>1, <5>1
      <4>3. rows.rels[r].src \in DOMAIN rows.ents /\ rows.rels[r].dst \in DOMAIN rows.ents
        BY <1>3 DEF RowsOK, References
      <4>4. rows.rels[r].src \in VisibleEntities /\ rows.rels[r].dst \in VisibleEntities
        BY <2>2, <4>1, <4>3 DEF Connects
      <4>5. r \in VisibleRelations
        BY <4>1, <4>2, <4>4 DEF VisibleRelations, VisibleEntities, Connects
      <4>6. QED
        BY <1>2, <1>6, <2>4, <4>1, <4>5
    <3>5. QED
      BY <1>11, <3>1, <3>2, <3>3, <3>4 DEF Due
  <2>5. CASE dataset # "active"
    <3>1. /\ \A s \in Sources : ~HasChunk(s, generation)
          /\ \A e \in DOMAIN rows.ents : ~rows.ents[e].active
      BY <2>1, <2>5 DEF IInv, Untangled, Idle
    <3>2. \A m \in rows.mentions : m.entity \in DOMAIN rows.ents
      BY <1>3 DEF RowsOK, References
    <3>3. \A r \in DOMAIN rows.rels : ~Connects(rows, r)
      BY <1>3, <3>1 DEF Connects, RowsOK, References
    <3>4. \A c \in ChunkIds : ~ (Live(doc, c) /\ c[2] >= generation)
      BY <2>3, <3>1
    <3>5. QED
      BY <1>11, <3>1, <3>2, <3>3, <3>4 DEF Due
  <2>6. QED
    BY <2>4, <2>5
<1>12. Complete'
  BY <1>1, <1>8, <1>11 DEF Complete
<1>13. QED
  BY <1>10, <1>12

-----------------------------------------------------------------------------
(* The theorems *)

\* Every step keeps the projection behind the rows.
LEMMA GraphStep ==
    ASSUME IInv, [Next]_vars, TypeOK', RowsGoOn, DocsGoOn, CoreOK'
    PROVE  GraphOK' /\ Complete'
<1>1. ASSUME NEW s \in Sources, Remember(s) PROVE GraphOK' /\ Complete'
  BY <1>1, RememberGraph
<1>2. ASSUME Cognify PROVE GraphOK' /\ Complete'
  <2>1. PICK ids \in {{}} \cup {{s} : s \in Sources} :
           \E rebuild \in BOOLEAN, failed \in SUBSET Sources :
              (rebuild => ids = {}) /\ ProcessSources(ids, rebuild, failed)
    BY <1>2 DEF Cognify
  <2>2. PICK rebuild \in BOOLEAN, failed \in SUBSET Sources :
              (rebuild => ids = {}) /\ ProcessSources(ids, rebuild, failed)
    BY <2>1
  <2>3. QED
    BY <2>2, ProcessGraph
<1>3. ASSUME NEW g \in Generations, ActivateGeneration(g) PROVE GraphOK' /\ Complete'
  BY <1>3, ActivateGraph
<1>4. ASSUME NEW g \in Generations, AbandonRebuild(g) PROVE GraphOK' /\ Complete'
  BY <1>4, StillGraph DEF AbandonRebuild
<1>5. ASSUME Summaries PROVE GraphOK' /\ Complete'
  BY <1>5, StillGraph DEF Summaries
<1>6. ASSUME Improve PROVE GraphOK' /\ Complete'
  BY <1>5, <1>6, MergeGraph, MaintainGraph, ReconcileGraph DEF Improve
<1>7. ASSUME NEW s \in Sources, FinishForgetSource(s) PROVE GraphOK' /\ Complete'
  BY <1>7, StillGraph DEF FinishForgetSource
<1>8. ASSUME FinishForgetDataset PROVE GraphOK' /\ Complete'
  BY <1>8, StillGraph DEF FinishForgetDataset
<1>9. ASSUME Forget PROVE GraphOK' /\ Complete'
  BY <1>7, <1>8, <1>9, ForgetSourceGraph, ForgetDatasetGraph DEF Forget
<1>10. ASSUME Drain PROVE GraphOK' /\ Complete'
  BY <1>10, DrainGraph
<1>11. ASSUME UNCHANGED vars PROVE GraphOK' /\ Complete'
  BY <1>11, StillGraph DEF vars
<1>12. QED
  BY <1>1, <1>2, <1>3, <1>4, <1>6, <1>9, <1>10, <1>11 DEF Next

\* A database without rows, and an empty graph.
LEMMA InitOK ==
    ASSUME Init
    PROVE  IInv
<1>1. /\ rows.ents = <<>> /\ rows.rels = <<>> /\ rows.mentions = {} /\ rows.evidence = {}
      /\ rows.out = {} /\ DOMAIN rows = {"ents", "rels", "mentions", "evidence", "out"}
  BY DEF Init
<1>2. /\ doc = [s \in Sources |-> [g \in Generations |-> NoDocument]]
      /\ generation = 1 /\ activation = {} /\ tangled = FALSE /\ graph = {}
      /\ dataset = "active" /\ source = [s \in Sources |-> "absent"]
      /\ summary = [g \in Generations |-> {}]
  BY DEF Init
<1>3. DOMAIN rows.ents = {} /\ DOMAIN rows.rels = {}
  BY <1>1
<1>4. NoDocument \in Document /\ ~NoDocument.active
  BY BoundsAssumption DEF NoDocument, Document
<1>5. \A s \in Sources, g \in Generations : doc[s][g] = NoDocument /\ ~HasChunk(s, g)
  BY <1>2, <1>4 DEF HasChunk
<1>6. TypeOK
  <2>1. 1 \in Generations
    BY BoundsAssumption DEF Generations
  <2>2. doc \in [Sources -> [Generations -> Document]]
    BY <1>2, <1>4
  <2>3. source \in [Sources -> SourceStatus]
    BY <1>2 DEF SourceStatus
  <2>4. summary \in [Generations -> SUBSET ChunkIds]
    BY <1>2
  <2>5. QED
    BY <1>1, <1>2, <2>1, <2>2, <2>3, <2>4 DEF TypeOK
<1>7. RowsOK(rows)
  <2>1. rows.ents \in Seq(EntityRow) /\ rows.rels \in Seq(RelationRow)
    BY <1>1
  <2>2. RowsType(rows)
    BY <1>1, <2>1 DEF RowsType
  <2>3. QED
    BY <1>1, <1>3, <2>2
       DEF RowsOK, References, KeyOnce, IdentityOnce, EvidenceNamed, MentionsKeyed
<1>8. DocsOK
  BY <1>4, <1>5 DEF DocsOK
<1>9. BornOnly /\ EntsAhead /\ RelsAhead
  BY <1>1, <1>3 DEF BornOnly, EntsAhead, RelsAhead
<1>10. SummaryOK
  BY <1>2, <1>6 DEF SummaryOK, TypeOK
<1>11. Untangled
  <2>1. \A g \in Generations : Sound(g)
    BY <1>3, <1>5 DEF Sound, SourcesKept, EntsNamed, RelsEvidenced, NamesBehind, Connects
  <2>2. QED
    BY <1>2, <2>1 DEF Untangled
<1>12. GraphOK
  BY <1>1, <1>2 DEF GraphOK, Present, Of
<1>13. Complete
  <2>1. ASSUME NEW c \in ChunkIds PROVE ~Live(doc, c)
    <3>1. c[1] \in Sources /\ c[2] \in Generations
      BY DEF ChunkIds
    <3>2. QED
      BY <1>4, <1>5, <3>1 DEF Live
  <2>2. QED
    BY <1>1, <1>3, <2>1 DEF Complete, Due
<1>14. QED
  BY <1>6, <1>7, <1>8, <1>9, <1>10, <1>11, <1>12, <1>13 DEF IInv

\* The invariant is inductive.
LEMMA Step ==
    ASSUME IInv, [Next]_vars
    PROVE  IInv'
<1>1. RowsGoOn
  BY RowsStep
<1>2. DocsGoOn
  BY DocsStep
<1>3. TypeOK'
  BY TypeStep
<1>4. CoreOK'
  BY <1>2, <1>3, CoreStep
<1>5. GraphOK' /\ Complete'
  BY <1>1, <1>2, <1>3, <1>4, GraphStep
<1>6. RowsOK(rows)'
  BY <1>1 DEF RowsGoOn
<1>7. QED
  BY <1>3, <1>4, <1>5, <1>6 DEF IInv, CoreOK

\* Rows, documents, chunks and projection agree in every reachable state.
THEOREM Invariance == Spec => []IInv
<1>1. Init => IInv
  BY InitOK
<1>2. IInv /\ [Next]_vars => IInv'
  BY Step
<1>3. QED
  BY <1>1, <1>2, PTL DEF Spec

\* Every variable has its type, and so do the rows.
THEOREM TypeCorrectness == Spec => [](TypeOK /\ RowsType(rows))
<1>1. IInv => TypeOK /\ RowsType(rows)
  BY DEF IInv, RowsOK
<1>2. QED
  BY <1>1, Invariance, PTL

-----------------------------------------------------------------------------

\* What is expected of the graph is due.
LEMMA ExpectedIsDue ==
    ASSUME IInv, NEW x \in Expected
    PROVE  Due(rows, doc, generation, x)
<1> DEFINE N == {EntityNode(e) : e \in VisibleEntities} \cup {ChunkNode(c) : c \in CurrentChunks}
           R == {RelationEdge(r, rows.rels[r]) : r \in VisibleRelations}
           M == {MentionEdge(m) : m \in {n \in rows.mentions : MentionEdge(n).ends \subseteq N}}
<1>1. x \in N \cup R \cup M
  BY DEF Expected, RebuildSnapshot
<1>2. RowsOK(rows) /\ TypeOK
  BY DEF IInv
<1>3. generation >= generation
  BY <1>2, GenerationsAre DEF TypeOK
<1>4. \A e \in VisibleEntities : e \in DOMAIN rows.ents /\ rows.ents[e].active
  BY DEF VisibleEntities, Visible
<1>5. \A c \in CurrentChunks : c \in ChunkIds /\ Live(doc, c) /\ c[2] >= generation
  BY <1>2, <1>3, CurrentIs
<1>6. \A r \in VisibleRelations :
         r \in DOMAIN rows.rels /\ Connects(rows, r) /\ rows.rels[r].gen >= generation
  BY <1>2, <1>3, <1>4, VisibleIs DEF Connects
<1>7. CASE x \in N
  BY <1>4, <1>5, <1>7 DEF Due
<1>8. CASE x \in R
  BY <1>6, <1>8 DEF Due
<1>9. CASE x \in M
  <2>1. PICK m \in rows.mentions : x = MentionEdge(m) /\ MentionEdge(m).ends \subseteq N
    BY <1>9
  <2>2. EntityNode(m.entity) \in N /\ ChunkNode(m.chunk) \in N
    BY <2>1, EdgesAre
  <2>3. m.entity \in VisibleEntities
    BY <2>2, NodesAre
  <2>4. m.chunk \in CurrentChunks
    BY <2>2, NodesAre
  <2>5. QED
    BY <1>4, <1>5, <2>1, <2>3, <2>4 DEF Due
<1>10. QED
  BY <1>1, <1>7, <1>8, <1>9

\* The ends of an edge are nodes.
LEMMA EndsAreNodes ==
    ASSUME NEW k, NEW d, NEW x, WellFormed(k, d, x), ~IsNode(x), NEW n \in x.ends
    PROVE  IsNode(n)
BY NodesAre, EdgesAre DEF WellFormed

\* An element of the graph that is not about to be deleted stands for a row:
\* no edge hangs on a node that is gone, the node would have to be there.
LEMMA GraphStands ==
    ASSUME IInv, Of("delete") = {}, Of("upsert") = {}, NEW x \in graph
    PROVE  Stands(rows, doc, x)
<1>1. \A y \in graph : /\ WellFormed(rows, doc, y)
                       /\ Stands(rows, doc, y) \/ Loose(rows, doc, y)
                       /\ ~IsNode(y) => y.ends \subseteq graph
  BY DEF IInv, GraphOK, Present
<1>2. ASSUME Loose(rows, doc, x) PROVE FALSE
  <2>1. PICK n \in x.ends : Gone(rows, doc, n)
    BY <1>2 DEF Loose
  <2>2. ~IsNode(x)
    BY <1>2 DEF Loose
  <2>3. n \in graph /\ IsNode(n)
    BY <1>1, <2>2, EndsAreNodes
  <2>4. Stands(rows, doc, n)
    BY <1>1, <2>3 DEF Loose
  <2>5. QED
    BY <2>1, <2>3, <2>4, NodeNotGone
<1>3. QED
  BY <1>1, <1>2

\* An empty outbox means a faithful graph: everything authoritative is in it,
\* and nothing in it stands for a row that is gone.
THEOREM Convergence == Spec => []GraphConverges
<1>1. ASSUME IInv, rows.out = {} PROVE ~tangled => Expected \subseteq graph
  <2>1. Of("upsert") = {}
    BY <1>1 DEF Of
  <2>2. Present = graph
    BY <2>1 DEF Present
  <2>3. QED
    BY <1>1, <2>2, ExpectedIsDue DEF IInv, Complete
<1>2. ASSUME IInv, rows.out = {}, NEW x \in graph
      PROVE  \/ x.kind = "entity" /\ rows.ents[x.id[1]].active
             \/ x.kind = "chunk" /\ x.id \in ActiveChunks
             \/ x.kind = "mention" /\ \E m \in rows.mentions : MentionEdge(m) = x
             \/ /\ x.kind = "relation" /\ rows.rels[x.id[1]].active
                /\ RelationEdge(x.id[1], rows.rels[x.id[1]]) = x
  <2>1. Of("upsert") = {} /\ Of("delete") = {}
    BY <1>2 DEF Of
  <2>2. Stands(rows, doc, x)
    BY <1>2, <2>1, GraphStands
  <2>3. CASE \E e \in DOMAIN rows.ents : rows.ents[e].active /\ x = EntityNode(e)
    BY <2>3, NodesAre
  <2>4. CASE \E c \in ChunkIds : Live(doc, c) /\ x = ChunkNode(c)
    <3>1. TypeOK
      BY <1>2 DEF IInv
    <3>2. x.kind = "chunk" /\ x.id \in ActiveChunks
      BY <2>4, <3>1, NodesAre, ActiveIs
    <3>3. QED
      BY <3>2
  <2>5. CASE \E m \in rows.mentions : x = MentionEdge(m)
    BY <2>5, EdgesAre
  <2>6. CASE \E r \in DOMAIN rows.rels : rows.rels[r].active /\ x = RelationEdge(r, rows.rels[r])
    BY <2>6, EdgesAre
  <2>7. QED
    BY <2>2, <2>3, <2>4, <2>5, <2>6 DEF Stands
<1>3. IInv => GraphConverges
  BY <1>1, <1>2 DEF GraphConverges
<1>4. QED
  BY <1>3, Invariance, PTL

\* Lookups, inserts and rewiring leave one active relation per identity.
THEOREM IdentityIsUnique == Spec => []OneRelationPerIdentity
<1>1. ASSUME IInv PROVE OneRelationPerIdentity
  <2>1. RowsOK(rows)
    BY <1>1 DEF IInv
  <2>2. QED
    BY <2>1, VisibleIs DEF OneRelationPerIdentity, RowsOK, IdentityOnce, SameIdentity
<1>2. QED
  BY <1>1, Invariance, PTL

\* Forget finds both endpoints of a relation by the mentions of its chunks,
\* also after merges.
THEOREM EvidenceHasMentions == Spec => []EvidenceIsMentioned
<1>1. ASSUME IInv PROVE EvidenceIsMentioned
  <2>1. RowsOK(rows)
    BY <1>1 DEF IInv
  <2>2. ASSUME NEW p \in rows.evidence, p[1] \in VisibleRelations
        PROVE  Endpoints(p[1]) \subseteq Mentioned({p[2]})
    <3>1. Connects(rows, p[1])
      BY <2>1, <2>2, VisibleIs DEF Connects, VisibleEntities, Visible
    <3>2. /\ Names(rows, p[2], rows.rels[p[1]].src)
          /\ Names(rows, p[2], rows.rels[p[1]].dst)
      BY <2>1, <3>1 DEF RowsOK, EvidenceNamed
    <3>3. \A e : Names(rows, p[2], e) => e \in Mentioned({p[2]})
      BY DEF Names, Mentioned, MentionsIn
    <3>4. QED
      BY <3>2, <3>3 DEF Endpoints
  <2>3. QED
    BY <2>2 DEF EvidenceIsMentioned
<1>2. QED
  BY <1>1, Invariance, PTL

\* What is authoritative of generation g, source by source.
LEMMA Authorities ==
    ASSUME TypeOK, dataset = "active", NEW s \in Sources, source[s] = "active",
           NEW g \in Generations, g = generation, HasChunk(s, g)
    PROVE  Chunk(s, g) \in AuthoritativeChunks
BY ActiveIs, CurrentIs

\* The summary and, in a dataset that was not rebuilt, everything visible is
\* of sources that were not forgotten.
THEOREM ForgottenStaysGone == Spec => []ForgottenIsGone
<1>1. ASSUME IInv PROVE summary[generation] \subseteq CurrentChunks
  BY <1>1 DEF IInv, SummaryOK
<1>2. ASSUME IInv, dataset = "active", ~tangled
      PROVE  /\ VisibleEntities \subseteq Mentioned(AuthoritativeChunks)
             /\ VisibleRelations \subseteq Evidenced(AuthoritativeChunks)
  <2>1. RowsOK(rows) /\ TypeOK
    BY <1>2 DEF IInv
  <2>2. PICK g \in Generations : g = generation
    BY <2>1 DEF TypeOK
  <2>3. Sound(g)
    BY <1>2, <2>2 DEF IInv, Untangled
  <2>4. \A s \in Sources : HasChunk(s, g) => Chunk(s, g) \in AuthoritativeChunks
    BY <1>2, <2>1, <2>2, <2>3, Authorities DEF Sound, SourcesKept
  <2>5. ASSUME NEW e \in VisibleEntities PROVE e \in Mentioned(AuthoritativeChunks)
    <3>1. g <= g
      BY <2>2, GenerationsAre
    <3>2. e \in DOMAIN rows.ents /\ rows.ents[e].active /\ rows.ents[e].gen <= g
      BY <2>2, <3>1 DEF VisibleEntities, Visible
    <3>3. PICK s \in Sources : HasChunk(s, g) /\ Names(rows, Chunk(s, g), e)
      BY <2>3, <3>2 DEF Sound, EntsNamed
    <3>4. QED
      BY <2>4, <3>3 DEF Names, Mentioned, MentionsIn
  <2>6. ASSUME NEW r \in VisibleRelations PROVE r \in Evidenced(AuthoritativeChunks)
    <3>1. r \in DOMAIN rows.rels /\ Connects(rows, r) /\ rows.rels[r].gen = g
      BY <2>1, <2>2, VisibleIs DEF Connects, VisibleEntities, Visible
    <3>2. PICK s \in Sources : HasChunk(s, g) /\ <<r, Chunk(s, g)>> \in rows.evidence
      BY <2>3, <3>1 DEF Sound, RelsEvidenced
    <3> DEFINE q == <<r, Chunk(s, g)>>
    <3>3. q \in rows.evidence /\ q[1] = r /\ q[2] \in AuthoritativeChunks
      BY <2>4, <3>2
    <3> HIDE DEF q
    <3>4. QED
      BY <3>3 DEF Evidenced
  <2>7. QED
    BY <2>5, <2>6
<1>3. IInv => ForgottenIsGone
  BY <1>1, <1>2 DEF ForgottenIsGone
<1>4. QED
  BY <1>3, Invariance, PTL

\* What a current chunk was found to say is visible, in the entities as they
\* were merged since, whatever else was forgotten.
THEOREM RememberedStays == Spec => []RememberedIsKept
<1>1. ASSUME IInv, ~tangled, NEW c \in AuthoritativeChunks
      PROVE  LET Named(key) == {m.entity : m \in {n \in MentionsIn({c}) : rows.ents[n.of].key = key}}
             IN  /\ \A key \in Keyed[c[1]] : \E e \in Named(key) : Visible(e)
                 /\ \A p \in Related[c[1]] :
                      \/ Named(p[1]) \cap Named(p[2]) # {}
                      \/ \E r \in VisibleRelations : /\ <<r, c>> \in rows.evidence
                                                     /\ rows.rels[r].src \in Named(p[1])
                                                     /\ rows.rels[r].dst \in Named(p[2])
  <2> DEFINE Named(key) == {m.entity : m \in {n \in MentionsIn({c}) : rows.ents[n.of].key = key}}
  <2>1. RowsOK(rows) /\ TypeOK /\ EntsAhead
    BY <1>1 DEF IInv
  <2>2. PICK s \in Sources, g \in Generations :
           s = c[1] /\ g = generation /\ HasChunk(s, g) /\ c = Chunk(s, g)
    BY <1>1, <2>1, ActiveIs, CurrentIs
  <2>3. Sound(g)
    BY <1>1, <2>2 DEF IInv, Untangled
  <2>4. Kept(rows, s, c, g)
    BY <2>2, <2>3 DEF Sound, SourcesKept
  <2>5. ASSUME NEW e \in DOMAIN rows.ents, rows.ents[e].active, NEW key, NamedBy(rows, c, key, e)
        PROVE  Visible(e)
    <3>1. Names(rows, Chunk(s, g), e)
      BY <2>2, <2>5 DEF NamedBy, Names
    <3>2. rows.ents[e].gen <= g /\ rows.ents[e].gen >= generation
      BY <2>1, <2>2, <2>3, <2>5, <3>1 DEF Sound, NamesBehind, EntsAhead
    <3>3. rows.ents[e].gen \in Nat /\ generation \in Nat
      BY <2>1, <2>5, RowTypes, GenerationsAre DEF TypeOK
    <3>4. QED
      BY <2>2, <2>5, <3>2, <3>3 DEF Visible
  <2>6. \A key, e : NamedBy(rows, c, key, e) => e \in Named(key)
    BY DEF NamedBy, MentionsIn
  <2> HIDE DEF Named
  <2>7. ASSUME NEW key \in Keyed[c[1]] PROVE \E e \in Named(key) : Visible(e)
    <3>1. PICK e \in DOMAIN rows.ents : NamedBy(rows, c, key, e) /\ rows.ents[e].active
      BY <2>2, <2>4 DEF Kept
    <3>2. QED
      BY <2>5, <2>6, <3>1
  <2>8. ASSUME NEW p \in Related[c[1]]
        PROVE  \/ Named(p[1]) \cap Named(p[2]) # {}
               \/ \E r \in VisibleRelations : /\ <<r, c>> \in rows.evidence
                                              /\ rows.rels[r].src \in Named(p[1])
                                              /\ rows.rels[r].dst \in Named(p[2])
    <3>1. Stated(rows, c, g, p)
      BY <2>2, <2>4 DEF Kept
    <3>2. CASE \E e \in DOMAIN rows.ents : NamedBy(rows, c, p[1], e) /\ NamedBy(rows, c, p[2], e)
      BY <2>6, <3>2
    <3>3. CASE \E r \in DOMAIN rows.rels :
                 /\ Connects(rows, r) /\ rows.rels[r].gen = g /\ <<r, c>> \in rows.evidence
                 /\ NamedBy(rows, c, p[1], rows.rels[r].src)
                 /\ NamedBy(rows, c, p[2], rows.rels[r].dst)
      <4>1. PICK r \in DOMAIN rows.rels :
                 /\ Connects(rows, r) /\ rows.rels[r].gen = g /\ <<r, c>> \in rows.evidence
                 /\ NamedBy(rows, c, p[1], rows.rels[r].src)
                 /\ NamedBy(rows, c, p[2], rows.rels[r].dst)
        BY <3>3
      <4>2. rows.rels[r].src \in DOMAIN rows.ents /\ rows.rels[r].dst \in DOMAIN rows.ents
        BY <2>1 DEF RowsOK, References
      <4>3. Visible(rows.rels[r].src) /\ Visible(rows.rels[r].dst)
        BY <2>5, <4>1, <4>2 DEF Connects
      <4>4. r \in VisibleRelations
        BY <2>2, <4>1, <4>3 DEF VisibleRelations, Connects
      <4>5. QED
        BY <2>6, <4>1, <4>4
    <3>4. QED
      BY <3>1, <3>2, <3>3 DEF Stated
  <2>9. QED
    BY <2>7, <2>8 DEF Named
<1>2. IInv => RememberedIsKept
  BY <1>1 DEF RememberedIsKept
<1>3. QED
  BY <1>2, Invariance, PTL
=============================================================================
