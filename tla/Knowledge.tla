------------------------------ MODULE Knowledge ------------------------------
(***************************************************************************)
(* What a dataset knows: documents, chunks, entities, relations, mentions, *)
(* evidence and the dataset summary, as the steps of the Cognify, Improve  *)
(* and Forget pipelines change them, and the Neo4j projection that follows *)
(* through the outbox.                                                     *)
(*                                                                         *)
(* One dataset.  A step's persist is one transaction and so one action:    *)
(* runs of a dataset execute one at a time (QueueClaim), but a run in      *)
(* back-off may be overtaken, so the steps of two runs interleave.  A      *)
(* document has one chunk.  Extraction is a function of the source: it     *)
(* names entities by their canonical key, and one predicate relates them.  *)
(* Row ids follow the order of creation.                                   *)
(***************************************************************************)
EXTENDS Integers, Sequences, FiniteSets, SequencesExt

CONSTANTS
    Sources,
    Keys,          \* canonical entity keys
    Keyed,         \* [Sources -> SUBSET Keys]: entities extracted from a source
    Related,       \* [Sources -> SUBSET (Keys \X Keys)]: relations between them
    Similar,       \* pairs of keys whose embeddings are close enough to merge
    MaxGeneration, \* bound: generations of the dataset
    MaxResets,     \* bound: memory-only forgets of a source
    MaxEntities,   \* bound: entity rows
    MaxFailures,   \* bound: sources that fail in a Cognify run
    MaxRuns,       \* bound: runs of Cognify, Forget and Improve's merges and summaries
    MaxBacklog     \* bound: commands in the outbox when a run starts

Generations == 1..MaxGeneration

ASSUME BoundsAssumption ==
    /\ MaxGeneration \in Nat \ {0} /\ MaxResets \in Nat
    /\ MaxEntities \in Nat /\ MaxFailures \in Nat
    /\ MaxRuns \in Nat /\ MaxBacklog \in Nat
ASSUME ExtractionAssumption ==
    /\ Keyed \in [Sources -> SUBSET Keys]
    /\ IsFiniteSet(Sources) /\ \A s \in Sources : IsFiniteSet(Keyed[s])
    /\ \A s \in Sources : Related[s] \subseteq Keyed[s] \X Keyed[s]
    /\ Similar \subseteq SUBSET Keys

VARIABLES
    generation, \* datasets.active_generation
    dataset,    \* datasets.status; "clearing" is deleting by a memory-only run
    source,     \* sources.status, likewise
    doc,        \* documents by source and generation, with their chunk
    rows,       \* entities, relations, entity_mentions, relation_evidence, graph_outbox
    summary,    \* by generation, the chunks the active dataset summary covers
    activation, \* target generations of rebuilds between their two steps
    graph,      \* the projection in Neo4j
    dead,       \* upserts at their attempt ceiling for want of an endpoint
    runs,       \* how many runs have started
    failures,   \* how many sources have failed
    tangled     \* history: a rebuild was not left alone (Tangles, ProcessSources)

vars == <<generation, dataset, source, doc, rows, summary, activation, graph, dead,
          runs, failures, tangled>>

-----------------------------------------------------------------------------
(* Documents and chunks *)

\* id: which of the documents the source had in the generation this is (a
\* memory-only forget replaces it).  chunked: its chunk exists, with the
\* extraction and the document summary complete.
Document == [id : 0..MaxResets + 1, active : BOOLEAN, chunked : BOOLEAN]
NoDocument == [id |-> 0, active |-> FALSE, chunked |-> FALSE]
PlannedDocument == [id |-> 1, active |-> TRUE, chunked |-> FALSE]

Chunk(s, g) == <<s, g, doc[s][g].id>>
HasChunk(s, g) == doc[s][g].active /\ doc[s][g].chunked
ActiveChunks == {Chunk(p[1], p[2]) : p \in {q \in Sources \X Generations : HasChunk(q[1], q[2])}}
CurrentChunks == {c \in ActiveChunks : c[2] = generation}
\* Joined with an active document, source and dataset.
AuthoritativeChunks == {c \in CurrentChunks : source[c[1]] = "active" /\ dataset = "active"}

(* Entities, relations and what supports them *)

Visible(e) == rows.ents[e].active /\ rows.ents[e].gen = generation
VisibleEntities == {e \in DOMAIN rows.ents : Visible(e)}
\* list_active_current_*: the endpoints are visible as well.
VisibleRelations ==
    {r \in DOMAIN rows.rels : /\ rows.rels[r].active /\ rows.rels[r].gen = generation
                              /\ Visible(rows.rels[r].src) /\ Visible(rows.rels[r].dst)}
MentionsIn(chunks) == {m \in rows.mentions : m.chunk \in chunks}
Mentioned(chunks) == {m.entity : m \in MentionsIn(chunks)}
Evidenced(chunks) == {p[1] : p \in {q \in rows.evidence : q[2] \in chunks}}
Endpoints(r) == {rows.rels[r].src, rows.rels[r].dst}

-----------------------------------------------------------------------------
(* The projection (GraphOutbox has it command by command) *)

EntityNode(e) == [kind |-> "entity", id |-> <<e>>]
ChunkNode(c) == [kind |-> "chunk", id |-> c]
\* The pattern an edge is merged by names its endpoints.
MentionEdge(m) == [kind |-> "mention", id |-> <<m.of, m.chunk>>,
                   ends |-> {EntityNode(m.entity), ChunkNode(m.chunk)}]
RelationEdge(r, row) == [kind |-> "relation", id |-> <<r>>,
                         ends |-> {EntityNode(row.src), EntityNode(row.dst)}]
IsNode(x) == x.kind \in {"entity", "chunk"}
\* An upsert of what the graph has renews data this module leaves out.
Upserts(elements) == {<<"upsert", x>> : x \in elements \ graph}
Deletes(elements) == {<<"delete", x>> : x \in elements}
Of(op) == {c[2] : c \in {d \in rows.out : d[1] = op}}

\* Nodes are upserted before the edges, and deletes are fenced behind them.
Drain ==
    /\ rows.out # {}
    /\ LET nodes == {x \in graph \cup Of("upsert") : IsNode(x)}
           edges == {x \in Of("upsert") : ~IsNode(x)}
           merged == {x \in edges : x.ends \subseteq nodes}
           kept == nodes \ Of("delete")
       IN  /\ graph' = kept \cup {x \in graph \cup merged :
                                    /\ ~IsNode(x) /\ x.ends \subseteq kept
                                    /\ x \notin Of("delete")}
           /\ dead' = dead \cup (edges \ merged)
    /\ rows' = [rows EXCEPT !.out = {}]
    /\ UNCHANGED <<generation, dataset, source, doc, summary, activation, runs, failures, tangled>>

\* What a rebuild of the graph makes of the rows of the active generation;
\* only of an active dataset are they loaded at all.
RebuildSnapshot ==
    LET nodes == {EntityNode(e) : e \in VisibleEntities}
                 \cup {ChunkNode(c) : c \in CurrentChunks}
    IN  nodes \cup {RelationEdge(r, rows.rels[r]) : r \in VisibleRelations}
        \cup {MentionEdge(m) : m \in {n \in rows.mentions : MentionEdge(n).ends \subseteq nodes}}
Expected == IF dataset = "active" THEN RebuildSnapshot ELSE {}

Diverges == graph # Expected

\* A run starts while a rebuild is between its two steps, or finds what one
\* left unactivated.  ProcessSources adds a rebuild in which a source fails and one
\* that follows a merge: the README says what is lost then.
Tangles == tangled \/ activation # {} \/ \E c \in ActiveChunks : c[2] > generation

\* graph_reconcile drains first; the dataset's projection is rewritten.
Drained == rows.out = {}
Reconcile ==
    /\ Drained /\ Diverges
    /\ graph' = Expected
    /\ tangled' = Tangles
    /\ UNCHANGED <<generation, dataset, source, doc, rows, summary, activation, dead, runs, failures>>

\* EntityMerge has run.
Merged == \E m \in rows.mentions : m.entity # m.of

StartsRun ==
    /\ Cardinality(rows.out) <= MaxBacklog
    /\ runs < MaxRuns /\ runs' = runs + 1

-----------------------------------------------------------------------------
(* Remember and Cognify *)

\* The last steps of Remember leave a normalized document behind.
Remember(s) ==
    /\ dataset = "active" /\ source[s] = "absent"
    /\ source' = [source EXCEPT ![s] = "pending"]
    /\ doc' = [doc EXCEPT ![s][generation] = PlannedDocument]
    /\ UNCHANGED <<generation, dataset, rows, summary, activation, graph, dead, runs, failures, tangled>>

ActiveByKey(ents, key) == {e \in DOMAIN ents : ents[e].key = key /\ ents[e].active}
Entity(ents, key) == CHOOSE e \in ActiveByKey(ents, key) : TRUE
ActiveByIdentity(rels, src, dst, g) ==
    {r \in DOMAIN rels : /\ rels[r].src = src /\ rels[r].dst = dst
                         /\ rels[r].gen = g /\ rels[r].active}
Relation(rels, src, dst, g) == CHOOSE r \in ActiveByIdentity(rels, src, dst, g) : TRUE

\* Entities are looked up by key whatever their generation, relations by
\* identity in the target generation.
WithEntities(ents, s, g) ==
    ents \o SetToSeq({[key |-> key, gen |-> g, active |-> TRUE] :
                         key \in {x \in Keyed[s] : ActiveByKey(ents, x) = {}}})
WithRelations(rels, pairs, g) ==
    rels \o SetToSeq({[src |-> p[1], dst |-> p[2], gen |-> g, active |-> TRUE] :
                         p \in {q \in pairs : ActiveByIdentity(rels, q[1], q[2], g) = {}}})

\* What an extraction comes to: the rows with those it adds, the entities it
\* mentions and the relations it is evidence of.
Resolve(k, s, g) ==
    LET ents == WithEntities(k.ents, s, g)
        pairs == {<<Entity(ents, p[1]), Entity(ents, p[2])>> : p \in Related[s]}
        rels == WithRelations(k.rels, pairs, g)
    IN  [ents |-> ents, rels |-> rels,
         used |-> {Entity(ents, key) : key \in Keyed[s]},
         stated |-> {Relation(rels, p[1], p[2], g) : p \in pairs}]

\* Mentions and evidence are added once.
PersistSource(k, s, g, chunk) ==
    LET plan == Resolve(k, s, g)
        used == plan.used
        stated == plan.stated
        mentions == {[of |-> e, chunk |-> chunk, entity |-> e] :
                       e \in {u \in used : \A m \in k.mentions : m.entity # u \/ m.chunk # chunk}}
    IN  [ents |-> plan.ents, rels |-> plan.rels,
         mentions |-> k.mentions \cup mentions,
         evidence |-> k.evidence \cup {<<r, chunk>> : r \in stated},
         out |-> k.out \cup Upserts({EntityNode(e) : e \in used} \cup {ChunkNode(chunk)}
                    \cup {MentionEdge(m) : m \in mentions}
                    \cup {RelationEdge(r, plan.rels[r]) : r \in stated})]

Selectable == {"active", "pending", "failed"}
Selected(ids, rebuild) ==
    {s \in Sources : /\ source[s] \in Selectable
                     /\ IF ids # {} THEN s \in ids ELSE rebuild \/ source[s] # "failed"}
\* _resolve_target_generation_document: a rebuild copies the current one.
Resolved(s, target, rebuild) == doc[s][target].active \/ (rebuild /\ doc[s][generation].active)
\* _decide_source_work_item: complete sources are only activated.
NeedsWork(s, target, ids, rebuild) ==
    /\ ~HasChunk(s, target)
    /\ source[s] = "failed" => rebuild \/ ids # {}
    /\ source[s] = "active" => rebuild

Missing(ids) == {s \in ids : source[s] = "absent"}
\* prepare_batch: one that is not there, or a selected source without a
\* document, refuses all of them.
Batch(ids, target, rebuild) ==
    [selected |-> Selected(ids, rebuild),
     work |-> {s \in Selected(ids, rebuild) : NeedsWork(s, target, ids, rebuild)},
     refused |-> \/ Missing(ids) # {}
                 \/ \E s \in Selected(ids, rebuild) : ~Resolved(s, target, rebuild)]

\* Reading, chunking, extraction, summary or embedding of a source fails.
SourcesFail(work, failed) ==
    failed \subseteq work /\ failures + Cardinality(failed) <= MaxFailures

\* persist_batch: one source after the other, in one transaction.
PersistBatch(built, target, document) ==
    LET order == SetToSeq(built)
        Persist(k, s) == PersistSource(k, s, target, <<s, target, document[s].id>>)
        after[n \in 0..Cardinality(built)] ==
            IF n = 0 THEN rows ELSE Persist(after[n - 1], order[n])
    IN  after[Cardinality(built)]

\* process_sources: a source that fails is marked and the others go on.
ProcessSources(ids, rebuild, failed) ==
    LET target == IF rebuild THEN generation + 1 ELSE generation
        batch == Batch(ids, target, rebuild)
        built == batch.work \ failed
        document == [s \in built |-> IF doc[s][target].active
                                     THEN doc[s][target] ELSE PlannedDocument]
    IN  /\ dataset = "active" /\ target \in Generations
        /\ batch.selected # {} /\ ~batch.refused
        /\ SourcesFail(batch.work, failed)
        /\ doc' = [s \in Sources |->
                     IF s \in built
                     THEN [doc[s] EXCEPT ![target] = [document[s] EXCEPT !.chunked = TRUE]]
                     ELSE doc[s]]
        /\ source' = [s \in Sources |->
                        IF s \in failed THEN "failed"
                        ELSE IF s \in built \/ (s \in batch.selected /\ HasChunk(s, target))
                             THEN "active" ELSE source[s]]
        /\ rows' = PersistBatch(built, target, document)
        /\ Len(rows'.ents) <= MaxEntities
        /\ activation' = IF rebuild THEN activation \cup {target} ELSE activation
        /\ failures' = failures + Cardinality(failed)
        /\ StartsRun
        /\ tangled' = (Tangles \/ (rebuild /\ (failed # {} \/ Merged)))
        /\ UNCHANGED <<generation, dataset, summary, graph, dead>>

\* The active entities of older generations come along.
Older(target) == {e \in DOMAIN rows.ents : rows.ents[e].active /\ rows.ents[e].gen < target}
ActivateGeneration(target) ==
    /\ target \in activation
    /\ activation' = activation \ {target}
    /\ generation' = IF generation < target THEN target ELSE generation
    /\ rows' = IF generation < target
               THEN [rows EXCEPT
                      !.ents = [e \in DOMAIN @ |-> IF e \in Older(target)
                                  THEN [@[e] EXCEPT !.gen = target] ELSE @[e]],
                      !.out = @ \cup Upserts({EntityNode(e) : e \in Older(target)})]
               ELSE rows
    /\ UNCHANGED <<dataset, source, doc, summary, graph, dead, runs, failures, tangled>>

\* A run that is cancelled, or fails, between the two steps.
AbandonRebuild(target) ==
    /\ target \in activation
    /\ activation' = activation \ {target}
    /\ UNCHANGED <<generation, dataset, source, doc, rows, summary, graph, dead, runs, failures, tangled>>

-----------------------------------------------------------------------------
(* Forget *)

\* What was deactivated: the deletes of forget_projection_commands.
ForgetCommands(chunks, mentions, rels, ents) ==
    Deletes({ChunkNode(c) : c \in chunks} \cup {MentionEdge(m) : m \in mentions}
            \cup {RelationEdge(r, rows.rels[r]) : r \in rels} \cup {EntityNode(e) : e \in ents})
Deactivated(table, ids) ==
    [i \in DOMAIN table |-> IF i \in ids THEN [table[i] EXCEPT !.active = FALSE] ELSE table[i]]

\* The current documents of these sources end; a memory-only forget leaves
\* one to be read again (reset_document_for_recognify).
Documents(sources, memory_only) ==
    [s \in Sources |->
       IF s \notin sources \/ ~doc[s][generation].active THEN doc[s]
       ELSE [doc[s] EXCEPT ![generation] =
               IF memory_only THEN [id |-> @.id + 1, active |-> TRUE, chunked |-> FALSE]
               ELSE [@ EXCEPT !.active = FALSE]]]
CanReset(sources) == \A s \in sources : doc[s][generation].id <= MaxResets

Begun(memory_only) == IF memory_only THEN "clearing" ELSE "deleting"
Ended(status) == IF status = "clearing" THEN "pending" ELSE "deleted"

\* The second flush: the relations that just went no longer count.
StillIncident_Unflushed(gone) == UNION {Endpoints(r) : r \in VisibleRelations}
StillIncident(gone) == UNION {Endpoints(r) : r \in VisibleRelations \ gone}
\* list_active_for_forget: the dataset summary goes with any of its documents.
SummaryForgotten(g) == [summary EXCEPT ![g] = {}]

\* authoritative_mutation of one source.  A relation stays while other
\* authoritative evidence does; an entity while it is mentioned elsewhere or
\* is an endpoint of a relation that stays.
ForgetSource(s, memory_only) ==
    LET chunks == {c \in CurrentChunks : c[1] = s}
        others == AuthoritativeChunks \ chunks
        rels == (VisibleRelations \cap Evidenced(chunks)) \ Evidenced(others)
        ents == ((VisibleEntities \cap Mentioned(chunks)) \ Mentioned(others))
                \ StillIncident(rels)
    IN  /\ dataset = "active" /\ source[s] \in Selectable
        /\ memory_only => source[s] # "pending" /\ CanReset({s})
        /\ source' = [source EXCEPT ![s] = Begun(memory_only)]
        /\ doc' = Documents({s}, memory_only)
        /\ rows' = [rows EXCEPT
             !.rels = Deactivated(@, rels), !.ents = Deactivated(@, ents),
             !.out = @ \cup ForgetCommands(chunks, MentionsIn(chunks), rels, ents)]
        /\ summary' = IF doc[s][generation].active
                      THEN SummaryForgotten(generation) ELSE summary
        /\ StartsRun /\ tangled' = Tangles
        /\ UNCHANGED <<generation, dataset, activation, graph, dead, failures>>

\* authoritative_mutation of the dataset: everything current.
ForgetDataset(memory_only) ==
    LET known == {s \in Sources : source[s] \notin {"absent", "deleted"}}
    IN  /\ dataset = "active"
        /\ memory_only => CanReset(known)
        /\ dataset' = Begun(memory_only)
        /\ source' = [s \in Sources |-> IF s \in known THEN Begun(memory_only) ELSE source[s]]
        /\ doc' = Documents(known, memory_only)
        /\ rows' = [rows EXCEPT
             !.rels = Deactivated(@, VisibleRelations), !.ents = Deactivated(@, VisibleEntities),
             !.out = @ \cup ForgetCommands(CurrentChunks, MentionsIn(CurrentChunks),
                                           VisibleRelations, VisibleEntities)]
        /\ summary' = SummaryForgotten(generation)
        /\ StartsRun /\ tangled' = Tangles
        /\ UNCHANGED <<generation, activation, graph, dead, failures>>

\* finalize_result, after projection and storage: of a source whatever has
\* become of the dataset, which a forget of its own may have taken over.
FinishForgetSource(s) ==
    /\ source[s] \in {"deleting", "clearing"}
    /\ source' = [source EXCEPT ![s] = Ended(@)]
    /\ UNCHANGED <<generation, dataset, doc, rows, summary, activation, graph, dead, runs, failures, tangled>>

FinishForgetDataset ==
    /\ dataset \in {"deleting", "clearing"}
    /\ dataset' = "active"
    /\ source' = [s \in Sources |-> IF source[s] \in {"deleting", "clearing"}
                                    THEN Ended(dataset) ELSE source[s]]
    /\ UNCHANGED <<generation, doc, rows, summary, activation, graph, dead, runs, failures, tangled>>
-----------------------------------------------------------------------------
(* Improve *)

\* plan_entity_merges: in order of creation an entity absorbs the similar ones
\* nobody has absorbed before; a chain is not followed further.  The step
\* before it has embedded every visible entity.
Near(d, e) == d # e /\ {rows.ents[d].key, rows.ents[e].key} \in Similar
Absorb(plan, e) ==
    LET near == {d \in VisibleEntities \ DOMAIN plan : Near(d, e)}
    IN  IF ~Visible(e) \/ e \in DOMAIN plan THEN plan
        ELSE [d \in DOMAIN plan \cup near |-> IF d \in near THEN e ELSE plan[d]]
MergePlan ==
    LET plan[e \in 0..Len(rows.ents)] == IF e = 0 THEN <<>> ELSE Absorb(plan[e - 1], e)
    IN  plan[Len(rows.ents)]

To(plan, e) == IF e \in DOMAIN plan THEN plan[e] ELSE e
Rewired(plan, r) == [rows.rels[r] EXCEPT !.src = To(plan, @), !.dst = To(plan, @)]
\* reassign_entity_mentions: all of them, in whatever chunk.
Moving_Authoritative(plan) ==
    {m \in MentionsIn(AuthoritativeChunks) : m.entity \in DOMAIN plan}
Moving(plan) == {m \in rows.mentions : m.entity \in DOMAIN plan}
\* plan_relation_merges: the relations that become one with r.
Group_Before(plan, r) == {q \in VisibleRelations : rows.rels[q] = rows.rels[r]}
Group(plan, r) == {q \in VisibleRelations : Rewired(plan, q) = Rewired(plan, r)}
\* Of them an unchanged one survives, then the oldest.
Survivor_Oldest(plan, r) == CHOOSE q \in Group(plan, r) : \A p \in Group(plan, r) : q <= p
Survivor(plan, r) ==
    LET same == {q \in Group(plan, r) : Rewired(plan, q) = rows.rels[q]}
        kept == IF same = {} THEN Group(plan, r) ELSE same
    IN  CHOOSE q \in kept : \A p \in kept : q <= p
CopiedEvidence_None(plan, losers) == {}
CopiedEvidence(plan, losers) ==
    {<<Survivor(plan, p[1]), p[2]>> : p \in {q \in rows.evidence : q[1] \in losers}}

\* entity_merge: duplicates become inactive, their mentions move to the
\* survivor, and current relations are rewired.  A relation that loses is an
\* edge of a deleted duplicate: it needs no delete of its own.
EntityMerge ==
    LET plan == MergePlan
        changed == {r \in VisibleRelations : Rewired(plan, r) # rows.rels[r]}
        loops == {r \in changed : Rewired(plan, r).src = Rewired(plan, r).dst}
        merging == UNION {Group(plan, r) : r \in changed \ loops}
        survivors == {Survivor(plan, r) : r \in merging}
        losers == merging \ survivors
        rels == [r \in DOMAIN rows.rels |->
                   IF r \in survivors THEN Rewired(plan, r) ELSE rows.rels[r]]
        moved == {[m EXCEPT !.entity = plan[m.entity]] : m \in Moving(plan)}
    IN  /\ dataset = "active" /\ plan # <<>>
        /\ rows' = [ents |-> Deactivated(rows.ents, DOMAIN plan),
                    rels |-> Deactivated(rels, loops \cup losers),
                    mentions |-> (rows.mentions \ Moving(plan)) \cup moved,
                    evidence |-> rows.evidence \cup CopiedEvidence(plan, losers),
                    out |-> rows.out \cup Deletes({EntityNode(e) : e \in DOMAIN plan})
                      \cup Upserts({MentionEdge(m) : m \in moved}
                                   \cup {RelationEdge(r, rels[r]) : r \in survivors})]
        /\ StartsRun /\ tangled' = Tangles
        /\ UNCHANGED <<generation, dataset, source, doc, summary, activation, graph, dead, failures>>

\* graph_maintain: relations without evidence go, other weights follow.
Unsupported == VisibleRelations \ Evidenced(AuthoritativeChunks)
\* Weights follow from the relations that stay.
Reweighted(gone) ==
    Upserts({EntityNode(e) : e \in VisibleEntities}
            \cup {RelationEdge(r, rows.rels[r]) : r \in VisibleRelations \ gone})
GraphMaintain ==
    LET gone == Unsupported
    IN  /\ dataset = "active"
        /\ rows' = [rows EXCEPT
             !.rels = Deactivated(@, gone),
             !.out = @ \cup Deletes({RelationEdge(r, rows.rels[r]) : r \in gone})
                       \cup Reweighted(gone)]
        /\ UNCHANGED <<generation, dataset, source, doc, summary, activation, graph, dead,
                       runs, failures, tangled>>

\* summaries: a missing dataset summary is made of the documents, which have
\* to be complete.
DocumentsComplete ==
    \A s \in Sources : source[s] = "active" /\ doc[s][generation].active => HasChunk(s, generation)
SummaryIsMissing == summary[generation] = {} \/ AuthoritativeChunks = {}
SummariesDue == dataset = "active" /\ DocumentsComplete /\ SummaryIsMissing
Summaries ==
    /\ SummariesDue
    /\ summary[generation] # AuthoritativeChunks
    /\ summary' = [summary EXCEPT ![generation] = AuthoritativeChunks]
    /\ StartsRun
    /\ UNCHANGED <<generation, dataset, source, doc, rows, activation, graph, dead,
                   failures, tangled>>

-----------------------------------------------------------------------------

Init ==
    /\ generation = 1
    /\ dataset = "active"
    /\ source = [s \in Sources |-> "absent"]
    /\ doc = [s \in Sources |-> [g \in Generations |-> NoDocument]]
    /\ rows = [ents |-> <<>>, rels |-> <<>>, mentions |-> {}, evidence |-> {}, out |-> {}]
    /\ summary = [g \in Generations |-> {}]
    /\ activation = {}
    /\ graph = {} /\ dead = {}
    /\ runs = 0 /\ failures = 0 /\ tangled = FALSE

Cognify ==
    \E ids \in {{}} \cup {{s} : s \in Sources}, rebuild \in BOOLEAN, failed \in SUBSET Sources :
        /\ rebuild => ids = {}
        /\ ProcessSources(ids, rebuild, failed)

Improve ==
    \/ EntityMerge
    \/ GraphMaintain
    \/ Summaries
    \/ Reconcile

Forget ==
    \/ \E s \in Sources, memory_only \in BOOLEAN : ForgetSource(s, memory_only)
    \/ \E memory_only \in BOOLEAN : ForgetDataset(memory_only)
    \/ \E s \in Sources : FinishForgetSource(s)
    \/ FinishForgetDataset

Next ==
    \/ \E s \in Sources : Remember(s)
    \/ Cognify
    \/ \E g \in Generations : ActivateGeneration(g) \/ AbandonRebuild(g)
    \/ Improve
    \/ Forget
    \/ Drain

Spec == Init /\ [][Next]_vars

-----------------------------------------------------------------------------
(* Properties *)

\* An empty outbox means a faithful graph: it has what is authoritative, and
\* nothing in it stands for a row that is no longer active.
GraphConverges ==
    rows.out = {} =>
      /\ ~tangled => Expected \subseteq graph
      /\ \A x \in graph :
           \/ x.kind = "entity" /\ rows.ents[x.id[1]].active
           \/ x.kind = "chunk" /\ x.id \in ActiveChunks
           \/ x.kind = "mention" /\ \E m \in rows.mentions : MentionEdge(m) = x
           \/ /\ x.kind = "relation" /\ rows.rels[x.id[1]].active
              /\ RelationEdge(x.id[1], rows.rels[x.id[1]]) = x

\* No constraint of the database says so: nothing but the order of lookups,
\* inserts and rewiring keeps two active relations from having one identity.
OneRelationPerIdentity ==
    \A r, q \in VisibleRelations :
        rows.rels[r].src = rows.rels[q].src /\ rows.rels[r].dst = rows.rels[q].dst => r = q

\* Forget finds the entities of a chunk by its mentions: a relation with
\* evidence in a chunk has both endpoints mentioned there, also after merges.
EvidenceIsMentioned ==
    \A p \in rows.evidence :
        p[1] \in VisibleRelations /\ p[2] \in CurrentChunks
            => Endpoints(p[1]) \subseteq Mentioned({p[2]})

\* Nothing more: the summary readers get was made only of chunks that stand
\* and, in a dataset that was not rebuilt, whatever is visible is still stated
\* by a source that was not forgotten.
ForgottenIsGone ==
    /\ summary[generation] \subseteq CurrentChunks
    /\ dataset = "active" /\ ~tangled =>
         /\ VisibleEntities \subseteq Mentioned(AuthoritativeChunks)
         /\ VisibleRelations \subseteq Evidenced(AuthoritativeChunks)

\* Nothing less: what a current chunk was found to say is there, in the
\* entities as they were merged since, whatever else was forgotten.
RememberedIsKept ==
    ~tangled => \A c \in AuthoritativeChunks :
        LET Named(key) == {m.entity : m \in {n \in MentionsIn({c}) : rows.ents[n.of].key = key}}
        IN  /\ \A key \in Keyed[c[1]] : \E e \in Named(key) : Visible(e)
            /\ \A p \in Related[c[1]] :
                 \/ Named(p[1]) \cap Named(p[2]) # {}
                 \/ \E r \in VisibleRelations : /\ <<r, c>> \in rows.evidence
                                                /\ rows.rels[r].src \in Named(p[1])
                                                /\ rows.rels[r].dst \in Named(p[2])

\* What the comment in prepare_batch says of rebuilds: they process again a
\* source that an earlier attempt left failed.
RebuildReprocesses ==
    dataset = "active" /\ generation < MaxGeneration =>
        \A s \in Selected({}, TRUE) :
            source[s] = "failed" => Resolved(s, generation + 1, TRUE)
=============================================================================
