-------------------------------- MODULE Recall --------------------------------
(***************************************************************************)
(* What readers of a dataset are served: Recall, the subgraph and the path *)
(* of the graph API, and provenance, with the registries beside them.      *)
(*                                                                         *)
(* A reader finds ids in the Neo4j projection, which lags, and shows only  *)
(* what PostgreSQL confirms, statement by statement, while a forget or a   *)
(* merge commits between two of its statements.  Facts and what makes them *)
(* visible (source, document, dataset, generation) are one: Knowledge has  *)
(* the tables behind them.  Ranking decides which chunks are hits.         *)
(***************************************************************************)
EXTENDS Registries

CONSTANTS
    Chunks, Entities,
    Mentions, \* pairs <<entity, chunk>> that extraction found
    Relations \* extracted relations: [id, from, to, chunk]

ASSUME KnowledgeAssumption ==
    /\ Mentions \subseteq Entities \X Chunks
    /\ \A x \in Relations : /\ DOMAIN x = {"id", "from", "to", "chunk"}
                            /\ {<<x.from, x.chunk>>, <<x.to, x.chunk>>} \subseteq Mentions

VARIABLE graph \* the projection in Neo4j

vars == <<registries, graph>>

-----------------------------------------------------------------------------
(* What is visible, and its projection *)

Live == db.dataset["dataset"].live
LiveChunks == IF Live THEN db.chunk ELSE {}
LiveEntities == IF Live THEN db.entity ELSE {}
\* A relation is served only between visible entities.
LiveRelations ==
    {x \in db.relation : Live /\ x.from \in db.entity /\ x.to \in db.entity}

Ids(relations) == {x.id : x \in relations}
AllIds == Chunks \cup Entities \cup Ids(Relations)
Visible == LiveChunks \cup LiveEntities \cup Ids(LiveRelations)

\* list_active_for_recall: evidence of relations in visible chunks.
EvidenceOf(ids) == {x.chunk : x \in {y \in db.relation : y.id \in ids}} \cap LiveChunks

Edge(x) == <<x.id, x.from, x.to>>
Projected ==
    [nodes |-> db.chunk \cup db.entity, mentions |-> db.mention,
     edges |-> {Edge(x) : x \in db.relation}]

\* The outbox (GraphOutbox) projects what changed, later and kind by kind;
\* a node is deleted with what hangs on it.
Project ==
    /\ area = "knowledge" /\ UNCHANGED registries
    /\ \/ LET nodes == graph.nodes \cap Projected.nodes
          IN  graph' = [nodes |-> nodes,
                        mentions |-> {m \in graph.mentions : {m[1], m[2]} \subseteq nodes},
                        edges |-> {e \in graph.edges : {e[2], e[3]} \subseteq nodes}]
       \/ graph' = [graph EXCEPT !.mentions = @ \cup Projected.mentions]
       \/ graph' = [graph EXCEPT !.edges = Projected.edges]

\* A forget of a source ends its chunk and what nothing else supports.
ForgetSource(c) ==
    LET mentioned == {m[1] : m \in {n \in db.mention : n[2] \in db.chunk \ {c}}}
    IN  /\ area = "knowledge" /\ c \in db.chunk /\ Live
        /\ db' = [db EXCEPT !.chunk = @ \ {c}, !.entity = @ \cap mentioned,
                            !.relation = {x \in @ : x.chunk # c}]
        /\ UNCHANGED <<area, req, failures, graph>>

\* Improve merges a duplicate into another entity.
Merge(loser, survivor) ==
    LET To(e) == IF e = loser THEN survivor ELSE e
    IN  /\ area = "knowledge" /\ Live /\ {loser, survivor} \subseteq db.entity
        /\ loser # survivor /\ db.entity = Entities
        /\ db' = [db EXCEPT
             !.entity = @ \ {loser},
             !.mention = {<<To(m[1]), m[2]>> : m \in @},
             !.relation = {y \in {[x EXCEPT !.from = To(@), !.to = To(@)] : x \in @} :
                             y.from # y.to}]
        /\ UNCHANGED <<area, req, failures, graph>>

-----------------------------------------------------------------------------
(* Recall *)

\* _resolve_datasets, and _require_active_dataset of the graph API.
Resolve(r) ==
    /\ At(r, "resolve", {"recall", "summaries"}) /\ Holds
    /\ IF ~Live THEN Refuse(r, "not_found") ELSE Go(r, "embed", Null, {}) /\ UNCHANGED db

Nothing == [hits |-> {}, entities |-> {}, relations |-> {}, evidence |-> {}]

\* Vector and lexical search, each in a transaction of its own, then their
\* fusion; ranking and top_k decide which hits are kept.
VectorSearch(r) ==
    /\ At(r, "search", {"recall"}) /\ Holds
    /\ \E hits \in SUBSET LiveChunks : Go(r, "lexical", [Nothing EXCEPT !.hits = hits], {})
    /\ UNCHANGED db
Fused(vector, lexical) == {hits \in SUBSET (vector \cup lexical) :
                             hits = {} => vector \cup lexical = {}}
LexicalSearch(r) ==
    /\ At(r, "lexical", {"recall"}) /\ Holds
    /\ \E lexical \in SUBSET LiveChunks : \E hits \in Fused(Seen(r).hits, lexical) :
         Go(r, IF hits = {} THEN "answer" ELSE "neighborhood", [Nothing EXCEPT !.hits = hits], {})
    /\ UNCHANGED db

\* mode=summaries: summaries of visible documents and nothing of the graph.
SearchSummaries(r) ==
    /\ At(r, "search", {"summaries"}) /\ Holds
    /\ \E hits \in SUBSET LiveChunks : Go(r, "audit", [Nothing EXCEPT !.hits = hits], {})
    /\ UNCHANGED db
AnswerSummaries(r) ==
    /\ At(r, "audit", {"summaries"}) /\ Holds
    /\ db' = [db EXCEPT !.query = Put(@, r, {})]
    /\ Reply(r, "ok", r, Seen(r).hits)

\* GRAPH_NEIGHBORHOOD_CYPHER: entities mentioned in the seeds, and the
\* relations and neighbours of those.
Neighborhood(r) ==
    LET seeds == {m[1] : m \in {n \in graph.mentions : n[2] \in Seen(r).hits}}
        edges == {e \in graph.edges : seeds \cap {e[2], e[3]} # {}}
    IN  /\ At(r, "neighborhood", {"recall"}) /\ Holds
        /\ Go(r, "entities", [Seen(r) EXCEPT
                 !.entities = seeds \cup UNION {{e[2], e[3]} : e \in edges},
                 !.relations = {e[1] : e \in edges}], {})
        /\ UNCHANGED db

\* _graph_hydration: what PostgreSQL no longer knows is dropped.
HydrateEntities_Trusting(r) ==
    /\ At(r, "entities", {"recall"}) /\ Holds
    /\ Go(r, "relations", Seen(r), {}) /\ UNCHANGED db
HydrateEntities(r) ==
    /\ At(r, "entities", {"recall"}) /\ Holds
    /\ Go(r, "relations", [Seen(r) EXCEPT !.entities = @ \cap LiveEntities], {})
    /\ UNCHANGED db
HydrateRelations(r) ==
    /\ At(r, "relations", {"recall"}) /\ Holds
    /\ Go(r, "evidence", [Seen(r) EXCEPT !.evidence = @ \cup Seen(r).relations,
                                         !.relations = @ \cap Ids(LiveRelations)], {})
    /\ UNCHANGED db
\* The evidence of every relation the graph named, then the model is asked.
HydrateEvidence(r) ==
    /\ At(r, "evidence", {"recall"}) /\ Holds
    /\ Go(r, "answer", [Seen(r) EXCEPT !.evidence = EvidenceOf(@)], {})
    /\ UNCHANGED db

\* recall_references, and the audit of the query before the answer goes out;
\* a model that does not answer leaves no audit.
Answer(r) ==
    LET references == Seen(r).hits \cup Seen(r).evidence
    IN  /\ At(r, "answer", {"recall"})
        /\ \/ Fails /\ Refuse(r, "unavailable")
           \/ /\ Holds
              /\ db' = [db EXCEPT !.query = Put(@, r, references)]
              /\ Reply(r, "ok", r, references \cup Seen(r).entities \cup Seen(r).relations)

RecallQuery(r) == \/ Resolve(r) \/ VectorSearch(r) \/ LexicalSearch(r) \/ SearchSummaries(r)
                  \/ AnswerSummaries(r) \/ Neighborhood(r) \/ HydrateEntities(r) \/ HydrateRelations(r)
                  \/ HydrateEvidence(r) \/ Answer(r)

-----------------------------------------------------------------------------
(* The graph API *)

\* The entities asked for must be visible.
FindRoot(r) ==
    /\ At(r, "resolve", {"subgraph"}) /\ Holds
    /\ IF On(r) \in LiveEntities THEN Go(r, "traverse", Nothing, {}) /\ UNCHANGED db
       ELSE Refuse(r, "not_found")

Near(ids) ==
    ids \cup UNION {{e[2], e[3]} : e \in {f \in graph.edges : ids \cap {f[2], f[3]} # {}}}

\* SUBGRAPH_ENTITY_IDS_CYPHER: two hops; the root is a candidate in any case.
Traverse(r) ==
    /\ At(r, "traverse", {"subgraph"}) /\ Holds
    /\ Go(r, "entities",
          [Nothing EXCEPT !.entities = {On(r)} \cup Near(Near({On(r)} \cap graph.nodes))], {})
    /\ UNCHANGED db
SubgraphEntities(r) ==
    /\ At(r, "entities", {"subgraph"}) /\ Holds
    /\ Go(r, "among", [Seen(r) EXCEPT !.entities = @ \cap LiveEntities], {})
    /\ UNCHANGED db
\* RELATIONS_AMONG_CYPHER.
RelationsAmong(r) ==
    /\ At(r, "among", {"subgraph"}) /\ Holds
    /\ Go(r, "relations", [Seen(r) EXCEPT !.relations =
             {e[1] : e \in {f \in graph.edges : {f[2], f[3]} \subseteq Seen(r).entities}}], {})
    /\ UNCHANGED db
\* Relations rewired meanwhile are kept only between entities of the answer.
SubgraphRelations(r) ==
    LET relations == {x \in LiveRelations : /\ x.id \in Seen(r).relations
                                            /\ {x.from, x.to} \subseteq Seen(r).entities}
    IN  /\ At(r, "relations", {"subgraph"}) /\ Holds
        /\ Reply(r, "ok", Null, Seen(r).entities \cup Ids(relations))
        /\ UNCHANGED db

FindEndpoints(r) ==
    /\ At(r, "resolve", {"path"}) /\ Holds
    /\ IF ~({On(r), Text(r)} \subseteq LiveEntities) THEN Refuse(r, "not_found")
       ELSE IF On(r) = Text(r) THEN Reply(r, "ok", Null, {On(r)}) /\ UNCHANGED db
       ELSE Go(r, "walk", Nothing, {}) /\ UNCHANGED db

\* SHORTEST_PATH_CYPHER, over at most two relations.
Joins(e, a, b) == {e[2], e[3]} = {a, b}
Direct(a, b) == {[entities |-> {a, b}, relations |-> {e[1]}] : e \in {f \in graph.edges : Joins(f, a, b)}}
Indirect(a, b) ==
    {[entities |-> {a, m, b}, relations |-> {p[1][1], p[2][1]}] :
       m \in Entities, p \in {q \in graph.edges \X graph.edges :
                                \E n \in Entities : Joins(q[1], a, n) /\ Joins(q[2], n, b)}}
Walk(r) ==
    LET direct == Direct(On(r), Text(r))
        paths == IF direct # {} THEN direct ELSE Indirect(On(r), Text(r))
    IN  /\ At(r, "walk", {"path"}) /\ Holds
        /\ \/ paths = {} /\ Reply(r, "ok", Null, {})
           \/ \E p \in paths : Go(r, "entities", p, {})
        /\ UNCHANGED db
\* A path of which a part is gone is no path.
PathEntities(r) ==
    /\ At(r, "entities", {"path"}) /\ Holds
    /\ Go(r, "relations", [Seen(r) EXCEPT !.entities =
             IF @ \subseteq LiveEntities THEN @ ELSE {}], {})
    /\ UNCHANGED db
PathRelations(r) ==
    /\ At(r, "relations", {"path"}) /\ Holds
    /\ IF Seen(r).entities # {} /\ Seen(r).relations \subseteq Ids(LiveRelations)
       THEN Reply(r, "ok", Null, Seen(r).entities \cup Seen(r).relations)
       ELSE Reply(r, "ok", Null, {})
    /\ UNCHANGED db

GraphRead(r) == \/ FindRoot(r) \/ Traverse(r) \/ SubgraphEntities(r) \/ RelationsAmong(r)
                \/ SubgraphRelations(r) \/ FindEndpoints(r) \/ Walk(r) \/ PathEntities(r)
                \/ PathRelations(r)

-----------------------------------------------------------------------------
(* Provenance *)

\* source: the source, its chunk, then what that chunk is evidence of.
FindSource(r) ==
    /\ At(r, "resolve", {"source"}) /\ Holds
    /\ IF On(r) \in LiveChunks THEN Go(r, "chunk", Nothing, {}) /\ UNCHANGED db
       ELSE Refuse(r, "not_found")
SourceChunk(r) ==
    /\ At(r, "chunk", {"source"}) /\ Holds
    /\ Go(r, "mentioned", [Nothing EXCEPT !.hits = {On(r)} \cap db.chunk], {})
    /\ UNCHANGED db
SourceEntities(r) ==
    /\ At(r, "mentioned", {"source"}) /\ Holds
    /\ Go(r, "evidenced", [Seen(r) EXCEPT !.entities =
             {m[1] : m \in {n \in db.mention : n[2] \in Seen(r).hits \cap LiveChunks}}
             \cap LiveEntities], {})
    /\ UNCHANGED db
SourceRelations(r) ==
    /\ At(r, "evidenced", {"source"}) /\ Holds
    /\ Reply(r, "ok", Null, Seen(r).hits \cup Seen(r).entities
               \cup Ids({x \in LiveRelations : x.chunk \in Seen(r).hits \cap LiveChunks}))
    /\ UNCHANGED db

\* relation: the relation if it is visible, then its evidence.
FindRelation(r) ==
    /\ At(r, "resolve", {"relation"}) /\ Holds
    /\ IF On(r) \in Ids(LiveRelations) THEN Go(r, "evidence", Nothing, {}) /\ UNCHANGED db
       ELSE Refuse(r, "not_found")
RelationEvidence(r) ==
    /\ At(r, "evidence", {"relation"}) /\ Holds
    /\ Reply(r, "ok", Null, {On(r)} \cup EvidenceOf({On(r)}))
    /\ UNCHANGED db

\* query: the references of an audited query that are still visible.
QueryReferences(r) ==
    /\ At(r, "resolve", {"query"}) /\ Holds
    /\ IF On(r) \notin DOMAIN db.query THEN Refuse(r, "not_found")
       ELSE Reply(r, "ok", On(r), db.query[On(r)] \cap LiveChunks) /\ UNCHANGED db

Provenance(r) == \/ FindSource(r) \/ SourceChunk(r) \/ SourceEntities(r) \/ SourceRelations(r)
                 \/ FindRelation(r) \/ RelationEvidence(r) \/ QueryReferences(r)

RecallAsks == [op : {"recall", "summaries"}, key : {Null}, on : {Null}, text : {Null}]
GraphAsks ==
    [op : {"subgraph"}, key : {Null}, on : Entities, text : {Null}]
    \cup [op : {"path"}, key : {Null}, on : Entities, text : Entities]
ProvenanceAsks ==
    [op : {"source"}, key : {Null}, on : Chunks, text : {Null}]
    \cup [op : {"relation"}, key : {Null}, on : Ids(Relations), text : {Null}]
    \cup [op : {"query"}, key : {Null}, on : DOMAIN db.query \cup {"unknown"}, text : {Null}]

-----------------------------------------------------------------------------
(* Specification *)

Init ==
    /\ area \in Areas /\ failures = 0
    /\ req = [r \in Requests |-> Idle]
    /\ LET text == CHOOSE t \in Texts : TRUE
       IN  db = [memory |-> [m \in {"memory"} |-> NewMemory(text)], ledger |-> <<>>,
                 session |-> [s \in {"session"} |-> NewSession],
                 skill |-> [s \in {"skill"} |-> NewSkill(text)], agent |-> {"agent"}, pin |-> <<>>,
                 member |-> {},
                 dataset |-> [d \in {"main", "dataset"} |-> [name |-> d, live |-> TRUE]],
                 chunk |-> Chunks, entity |-> Entities, mention |-> Mentions,
                 relation |-> Relations, query |-> [q \in {"query"} |-> Chunks]]
    /\ graph = Projected

Next ==
    \/ \E r \in Requests :
         /\ \/ Registry(r)
            \/ area = "knowledge" /\ Begin(r, RecallAsks \cup GraphAsks \cup ProvenanceAsks,
                                            AllIds \ Visible)
            \/ /\ RecallQuery(r) \/ GraphRead(r) \/ Provenance(r)
               /\ UNCHANGED area
         /\ UNCHANGED graph
    \/ \E d \in {"main", "dataset"} : Retire(d) /\ UNCHANGED graph
    \/ \E c \in Chunks : ForgetSource(c)
    \/ \E a, b \in Entities : Merge(a, b)
    \/ Project

Spec == Init /\ [][Next]_vars

-----------------------------------------------------------------------------
(* Properties *)

Answered(r, code) == req[r].out.code = code
Of(key) == {r \in Requests : Key(r) = key}

\* What an Idempotency-Key promises: one effect, one answer, a conflict only
\* for something else, and nothing kept by a request that was refused.
KeysDecide ==
    /\ \A r \in Requests : ~Answered(r, "internal")
    /\ \A key \in DOMAIN db.ledger :
         /\ Cardinality(Of(key) \cap DOMAIN db.memory) <= 1
         /\ db.ledger[key].result \in DOMAIN db.memory
         /\ \E r \in Of(key) : Answered(r, "ok") /\ Digest(r) = db.ledger[key].digest
    /\ area = "memory" => \A r \in Requests :
         /\ Key(r) # Null /\ Answered(r, "ok") /\ Op(r) # "typed_recall" =>
              /\ db.ledger[Key(r)].digest = Digest(r)
              /\ db.ledger[Key(r)].result = req[r].out.id
         /\ Answered(r, "conflict") => db.ledger[Key(r)].digest # Digest(r)
         /\ r \in DOMAIN db.memory => Answered(r, "ok")
    /\ \A s \in DOMAIN db.session : LET entries == ToSet(db.session[s].entries)
       IN  \A e, f \in entries : e.key = f.key /\ e.key # Null => e = f

\* A memory is superseded at most once: of a lineage at most the end is
\* active, every replacement hangs on what it replaced, and the content goes
\* with forgetting and with nothing else.
LineagesAreSound ==
    \A m \in DOMAIN db.memory :
        LET x == db.memory[m]
        IN  /\ x.text = Null <=> x.life = "forgotten"
            /\ x.life = "active" => x.by = Null
            /\ x.life = "superseded" => x.by # Null
            /\ x.by # Null => x.by \in Requests \cap DOMAIN db.memory /\ On(x.by) = m
            /\ m \in Requests /\ Op(m) = "supersede" => db.memory[On(m)].by = m

\* An archived session admits no entry, whatever was under way.
ArchiveFreezes ==
    [][\A s \in DOMAIN db.session :
         db.session[s].archived => db'.session[s].entries = db.session[s].entries]_db

\* Revisions are history: appended, never the same content twice; the current
\* one changes only to a new revision or to one somebody selects, and a pin
\* is on a revision that exists.
Selecting(s, i) ==
    \E r \in Requests : /\ req[r].pc = "apply" /\ req'[r].pc = "done"
                        /\ Op(r) = "select" /\ On(r) = s /\ Key(r) = i
RevisionsAreHistory ==
    [][/\ \A s \in DOMAIN db.skill :
            LET old == db.skill[s]
                new == db'.skill[s]
            IN  /\ IsPrefix(old.revisions, new.revisions)
                /\ IsInjective(new.revisions)
                /\ new.current # old.current =>
                     \/ new.current = Len(new.revisions) /\ new.current > Len(old.revisions)
                     \/ Selecting(s, new.current)
       /\ \A p \in DOMAIN db'.pin : db'.pin[p] \in 0..Len(db'.skill[p[2]].revisions)]_db

\* No answer shows what had been forgotten before it was asked for, although
\* the graph it is found in lags and the rows change under the reader.
ServedIsLive == \A r \in Requests : req[r].out.stale = {}
=============================================================================
