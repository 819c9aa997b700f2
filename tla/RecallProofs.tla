----------------------------- MODULE RecallProofs -----------------------------
(***************************************************************************)
(* Proofs about Registries and Recall, for every set of requests, keys,    *)
(* texts, chunks, entities and relations.                                  *)
(***************************************************************************)
EXTENDS Recall, FiniteSetTheorems, TLAPS

-----------------------------------------------------------------------------
(* What holds of every request, whatever it asks *)

DbFields == {"memory", "ledger", "session", "skill", "agent", "pin", "member", "dataset",
             "chunk", "entity", "mention", "relation", "query"}
ReqFields == {"ask", "pc", "seen", "gone", "locks", "out"}

Shape ==
    /\ DOMAIN db = DbFields /\ DOMAIN req = Requests
    /\ \A r \in Requests : DOMAIN req[r] = ReqFields

\* The operations of an area, and what a request for one of them carries.
MemoryOps == {"create", "supersede", "forget", "get", "typed_recall"}
SessionOps == {"create_session", "archive", "restore", "recall_in_session", "append"}
SkillOps == {"archive", "restore", "create_skill", "revise", "select", "create_agent",
             "pin", "unpin"}
AgentOps == {"create_agent", "associate", "dissociate"}
DatasetOps == {"create_dataset", "rename"}
KnowledgeOps == {"recall", "summaries", "subgraph", "path", "source", "relation", "query"}

MemoryAsked(r) ==
    /\ Op(r) \in MemoryOps /\ Key(r) \in Keys \cup {Null}
    /\ Op(r) \in {"create", "supersede"} => Text(r) \in Texts
    /\ Op(r) = "get" => Key(r) = Null
SessionAsked(r) ==
    /\ Op(r) \in SessionOps
    /\ Op(r) = "append" => Key(r) \in Keys \cup {Null} /\ Text(r) \in Texts
SkillAsked(r) ==
    /\ Op(r) \in SkillOps
    /\ Op(r) \in {"create_skill", "revise"} => Text(r) \in Texts
AskedOf(r) ==
    \/ area = "memory" /\ MemoryAsked(r)
    \/ area = "session" /\ SessionAsked(r)
    \/ area = "skill" /\ SkillAsked(r)
    \/ area = "agent" /\ Op(r) \in AgentOps
    \/ area = "dataset" /\ Op(r) \in DatasetOps
    \/ area = "knowledge" /\ Op(r) \in KnowledgeOps
Asked(r) ==
    \/ req[r] = Idle
    \/ /\ req[r].pc # "idle" /\ AskedOf(r)
       /\ req[r].pc = "done" => req[r].locks = {}

\* Nobody else has a lock a request has, but the one of no key.
Exclusive ==
    \A p, q \in Requests : p # q => req[p].locks \cap req[q].locks \subseteq {<<"key", Null>>}

Base == Shape /\ (\A r \in Requests : Asked(r)) /\ Exclusive

\* What a step of r does to the requests, field by field.
Others(r) == \A q \in Requests \ {r} : req'[q] = req[q]
Went(r, pc, seen, locks) ==
    /\ DOMAIN req' = Requests /\ Others(r) /\ DOMAIN req'[r] = ReqFields
    /\ req'[r].ask = req[r].ask /\ req'[r].pc = pc /\ req'[r].seen = seen
    /\ req'[r].gone = req[r].gone /\ req'[r].locks = req[r].locks \cup locks
    /\ req'[r].out = req[r].out
Ended(r, code, id, shown) ==
    /\ DOMAIN req' = Requests /\ Others(r) /\ DOMAIN req'[r] = ReqFields
    /\ req'[r].ask = req[r].ask /\ req'[r].pc = "done"
    /\ req'[r].gone = {} /\ req'[r].locks = {}
    /\ req'[r].out = [code |-> code, id |-> id, stale |-> shown \cap req[r].gone]
Began(r, asks, gone) ==
    /\ DOMAIN req' = Requests /\ Others(r) /\ DOMAIN req'[r] = ReqFields
    /\ req[r].pc = "idle" /\ req'[r].ask \in asks /\ req'[r].pc = First(req'[r].ask.op)
    /\ req'[r].gone = gone /\ req'[r].locks = {} /\ req'[r].out = Idle.out

LEMMA GoFields ==
    ASSUME Shape, NEW r \in Requests, NEW pc, NEW seen, NEW locks, Go(r, pc, seen, locks)
    PROVE  Went(r, pc, seen, locks)
<1> DEFINE s == [[[req[r] EXCEPT !.pc = pc] EXCEPT !.seen = seen]
                    EXCEPT !.locks = req[r].locks \cup locks]
<1>1. /\ DOMAIN s = ReqFields /\ s.ask = req[r].ask /\ s.pc = pc /\ s.seen = seen
      /\ s.gone = req[r].gone /\ s.locks = req[r].locks \cup locks /\ s.out = req[r].out
  <2>1. DOMAIN req[r] = ReqFields
    BY DEF Shape
  <2>2. QED BY <2>1 DEF ReqFields
<1>2. req' = [req EXCEPT ![r] = s]
  BY DEF Go, Shape, ReqFields
<1> HIDE DEF s
<1>3. req'[r] = s /\ DOMAIN req' = Requests /\ Others(r)
  BY <1>2 DEF Shape, Others
<1>4. QED BY <1>1, <1>3 DEF Went

LEMMA ReplyFields ==
    ASSUME Shape, NEW r \in Requests, NEW code, NEW id, NEW shown, Reply(r, code, id, shown)
    PROVE  Ended(r, code, id, shown)
BY DEF Shape, Reply, Ended, Others, ReqFields, Idle

LEMMA BeginFields ==
    ASSUME Shape, NEW r \in Requests, NEW asks, NEW gone, Begin(r, asks, gone)
    PROVE  Began(r, asks, gone) /\ area' = area /\ db' = db
BY DEF Shape, Begin, Began, Others, ReqFields, Idle

\* An answer, or a step on: with locks nobody else has.
Goes(r) ==
    \E pc, seen, locks :
        /\ Go(r, pc, seen, locks) /\ pc \notin {"idle", "done"}
        /\ \A l \in locks : Free(r, l) \/ l = <<"key", Null>>

\* Only a request for a memory may be told of an internal error.
Replies(r) ==
    \E code, id, shown : /\ Reply(r, code, id, shown)
                         /\ code = "internal" => Op(r) \in MemoryOps
Steps(r) == req[r].pc \notin {"idle", "done"} /\ (Goes(r) \/ Replies(r))

LEMMA StepsKeepBase ==
    ASSUME Base, NEW r \in Requests, Steps(r), UNCHANGED area, DOMAIN db' = DbFields
    PROVE  Base'
<1>1. CASE Goes(r)
  <2>1. PICK pc, seen, locks : /\ Go(r, pc, seen, locks) /\ pc \notin {"idle", "done"}
                               /\ \A l \in locks : Free(r, l) \/ l = <<"key", Null>>
    BY <1>1 DEF Goes
  <2>2. Went(r, pc, seen, locks)
    BY <2>1, GoFields DEF Base
  <2>3. Shape'
    BY <2>2 DEF Base, Shape, Went, Others
  <2>4. \A q \in Requests : Asked(q)'
    <3>1. req[r].pc \notin {"idle", "done"} /\ AskedOf(r)
      BY DEF Steps, Base, Asked, Idle
    <3>2. AskedOf(r)'
      BY <2>2, <3>1 DEF Went, AskedOf, MemoryAsked, SessionAsked, SkillAsked, Op, Key, Text
    <3>3. ASSUME NEW q \in Requests \ {r} PROVE Asked(q)'
      BY <2>2, Asked(q) DEF Went, Others, Base, Asked, AskedOf, MemoryAsked, SessionAsked, SkillAsked, Op, Key, Text
    <3>4. QED BY <2>1, <2>2, <3>2, <3>3 DEF Went, Asked
  <2>5. Exclusive'
    BY <2>1, <2>2 DEF Base, Exclusive, Went, Others, Free
  <2>6. QED BY <2>3, <2>4, <2>5 DEF Base
<1>2. CASE Replies(r)
  <2>1. PICK code, id, shown : Reply(r, code, id, shown)
    BY <1>2 DEF Replies
  <2>2. Ended(r, code, id, shown)
    BY <2>1, ReplyFields DEF Base
  <2>3. Shape'
    BY <2>2 DEF Base, Shape, Ended, Others
  <2>4. \A q \in Requests : Asked(q)'
    <3>1. req[r].pc \notin {"idle", "done"} /\ AskedOf(r)
      BY DEF Steps, Base, Asked, Idle
    <3>2. AskedOf(r)'
      BY <2>2, <3>1 DEF Ended, AskedOf, MemoryAsked, SessionAsked, SkillAsked, Op, Key, Text
    <3>3. ASSUME NEW q \in Requests \ {r} PROVE Asked(q)'
      BY <2>2, Asked(q) DEF Ended, Others, Base, Asked, AskedOf, MemoryAsked, SessionAsked, SkillAsked, Op, Key, Text
    <3>4. QED BY <2>2, <3>2, <3>3 DEF Ended, Asked
  <2>5. Exclusive'
    BY <2>2 DEF Base, Exclusive, Ended, Others
  <2>6. QED BY <2>3, <2>4, <2>5 DEF Base
<1>3. QED BY <1>1, <1>2 DEF Steps

\* A step writes these tables, and no other.
Writes(tables) ==
    /\ DOMAIN db' = DbFields
    /\ \A f \in DbFields \ tables : db'[f] = db[f]

LEMMA CommonSteps ==
    ASSUME Base, NEW r \in Requests, Embed(r) \/ LockRow(r) \/ Abort(r)
    PROVE  Steps(r) /\ db' = db
<1>1. CASE Embed(r)
  <2>1. CASE Go(r, AfterEmbedding(Op(r)), Null, {}) /\ UNCHANGED db
    BY <1>1, <2>1 DEF Embed, Steps, Goes, AfterEmbedding
  <2>2. CASE Refuse(r, "unavailable")
    BY <1>1, <2>2 DEF Embed, Refuse, Steps, Replies
  <2>3. QED BY <1>1, <2>1, <2>2 DEF Embed
<1>2. CASE LockRow(r)
  BY <1>2 DEF LockRow, At, Refuse, Steps, Goes, Replies
<1>3. CASE Abort(r)
  <2>1. req[r].pc \notin {"idle", "done"}
    BY <1>3 DEF Abort, Base, Asked, Idle
  <2>2. QED BY <1>3, <2>1 DEF Abort, Refuse, Steps, Replies
<1>4. QED BY <1>1, <1>2, <1>3

LEMMA MemorySteps ==
    ASSUME Base, NEW r \in Requests, Memory(r)
    PROVE  Steps(r) /\ Op(r) \in MemoryOps /\ Writes({"memory", "ledger"})
<1>1. CASE PreCheck(r)
  BY <1>1 DEF PreCheck, At, Replay, Hydrate, Refuse, Steps, Goes, Replies, Writes, Base, Shape, MemoryOps
<1>2. CASE ClaimKey(r)
  BY <1>2 DEF ClaimKey, At, Replay, Hydrate, Refuse, Steps, Goes, Replies, Writes, Base, Shape, MemoryOps
<1>3. CASE CreateMemory(r)
  BY <1>3 DEF CreateMemory, At, Done, Steps, Replies, Writes, Base, Shape, DbFields, MemoryOps
<1>4. CASE Supersede(r)
  BY <1>4 DEF Supersede, At, Done, Refuse, Steps, Replies, Writes, Base, Shape, DbFields, MemoryOps
<1>5. CASE Forget(r)
  BY <1>5 DEF Forget, At, Done, Steps, Replies, Writes, Base, Shape, DbFields, MemoryOps
<1>6. CASE GetMemory(r)
  BY <1>6 DEF GetMemory, At, Hydrate, Refuse, Steps, Replies, Writes, Base, Shape, MemoryOps
<1>7. CASE TypedRecall(r)
  BY <1>7 DEF TypedRecall, At, Steps, Replies, Writes, Base, Shape, MemoryOps
<1>8. QED BY <1>1, <1>2, <1>3, <1>4, <1>5, <1>6, <1>7 DEF Memory

LEMMA SessionSteps ==
    ASSUME Base, NEW r \in Requests, Session(r)
    PROVE  /\ Steps(r) /\ Op(r) \in SessionOps /\ Writes({"session"})
           /\ Op(r) \in {"archive", "restore"} => area = "session"
<1>1. CASE CreateSession(r)
  BY <1>1 DEF CreateSession, At, Done, Refuse, Steps, Replies, Writes, Base, Shape, DbFields, SessionOps
<1>2. CASE ArchiveSession(r)
  BY <1>2 DEF ArchiveSession, At, Done, Steps, Replies, Writes, Base, Shape, DbFields, SessionOps
<1>3. CASE RestoreSession(r)
  BY <1>3 DEF RestoreSession, At, Done, Steps, Replies, Writes, Base, Shape, DbFields, SessionOps
<1>4. CASE AppendEntry(r)
  BY <1>4 DEF AppendEntry, At, Done, Refuse, Steps, Replies, Writes, Base, Shape, DbFields, SessionOps
<1>5. CASE AdmitSession(r)
  BY <1>5 DEF AdmitSession, At, Done, Steps, Goes, Replies, Writes, Base, Shape, DbFields, SessionOps
<1>6. CASE AdmitLocked(r)
  BY <1>6 DEF AdmitLocked, At, Done, Refuse, Steps, Replies, Writes, Base, Shape, SessionOps
<1>7. QED BY <1>1, <1>2, <1>3, <1>4, <1>5, <1>6 DEF Session

LEMMA SkillSteps ==
    ASSUME Base, NEW r \in Requests, Skill(r)
    PROVE  /\ Steps(r) /\ Op(r) \in SkillOps /\ Writes({"skill", "pin"})
           /\ Op(r) \in {"archive", "restore"} => area = "skill"
<1>1. CASE CreateSkill(r)
  BY <1>1 DEF CreateSkill, At, Done, Refuse, Steps, Replies, Writes, Base, Shape, DbFields, SkillOps
<1>2. CASE ReadName(r)
  BY <1>2 DEF ReadName, At, Refuse, Steps, Goes, Replies, Writes, Base, Shape, SkillOps
<1>3. CASE Revise(r)
  BY <1>3 DEF Revise, At, Done, Steps, Replies, Writes, Base, Shape, DbFields, SkillOps
<1>4. CASE SelectRevision(r)
  BY <1>4 DEF SelectRevision, At, Done, Refuse, Steps, Replies, Writes, Base, Shape, DbFields, SkillOps
<1>5. CASE ArchiveSkill(r)
  BY <1>5 DEF ArchiveSkill, At, Done, Steps, Replies, Writes, Base, Shape, DbFields, SkillOps
<1>6. CASE RestoreSkill(r)
  BY <1>6 DEF RestoreSkill, At, Done, Steps, Replies, Writes, Base, Shape, DbFields, SkillOps
<1>7. CASE SetPin(r)
  BY <1>7 DEF SetPin, At, Done, Refuse, Steps, Replies, Writes, Base, Shape, DbFields, SkillOps
<1>8. CASE RemovePin(r)
  BY <1>8 DEF RemovePin, At, Done, Refuse, Steps, Replies, Writes, Base, Shape, DbFields, SkillOps
<1>9. QED BY <1>1, <1>2, <1>3, <1>4, <1>5, <1>6, <1>7, <1>8 DEF Skill

LEMMA AgentSteps ==
    ASSUME Base, NEW r \in Requests, Agent(r)
    PROVE  Steps(r) /\ Op(r) \in AgentOps /\ Writes({"agent", "member"})
<1>1. CASE CreateAgent(r)
  BY <1>1 DEF CreateAgent, At, Done, Refuse, Steps, Replies, Writes, Base, Shape, DbFields, AgentOps
<1>2. CASE Associate(r)
  BY <1>2 DEF Associate, At, Refuse, Steps, Goes, Replies, Writes, Base, Shape, AgentOps
<1>3. CASE Associated(r)
  BY <1>3 DEF Associated, At, Done, Refuse, Steps, Replies, Writes, Base, Shape, DbFields, AgentOps
<1>4. CASE Dissociate(r)
  BY <1>4 DEF Dissociate, At, Done, Refuse, Steps, Replies, Writes, Base, Shape, DbFields, AgentOps
<1>5. QED BY <1>1, <1>2, <1>3, <1>4 DEF Agent

LEMMA DatasetSteps ==
    ASSUME Base, NEW r \in Requests, Dataset(r)
    PROVE  Steps(r) /\ Op(r) \in DatasetOps /\ Writes({"dataset"})
<1>1. CASE CheckName(r)
  BY <1>1 DEF CheckName, At, Refuse, Steps, Goes, Replies, Writes, Base, Shape, DatasetOps
<1>2. CASE WriteName(r)
  BY <1>2 DEF WriteName, At, Done, Refuse, Steps, Replies, Writes, Base, Shape, DbFields, DatasetOps
<1>3. QED BY <1>1, <1>2 DEF Dataset

LEMMA RecallSteps ==
    ASSUME Base, NEW r \in Requests, RecallQuery(r)
    PROVE  Steps(r) /\ Op(r) \in {"recall", "summaries"} /\ Writes({"query"})
<1>1. CASE Resolve(r)
  BY <1>1 DEF Resolve, At, Refuse, Steps, Goes, Replies, Writes, Base, Shape
<1>2. CASE VectorSearch(r)
  BY <1>2 DEF VectorSearch, At, Steps, Goes, Writes, Base, Shape
<1>3. CASE LexicalSearch(r)
  BY <1>3 DEF LexicalSearch, At, Steps, Goes, Writes, Base, Shape
<1>4. CASE SearchSummaries(r)
  BY <1>4 DEF SearchSummaries, At, Steps, Goes, Writes, Base, Shape
<1>5. CASE AnswerSummaries(r)
  BY <1>5 DEF AnswerSummaries, At, Steps, Replies, Writes, Base, Shape, DbFields
<1>6. CASE Neighborhood(r)
  BY <1>6 DEF Neighborhood, At, Steps, Goes, Writes, Base, Shape
<1>7. CASE HydrateEntities(r)
  BY <1>7 DEF HydrateEntities, At, Steps, Goes, Writes, Base, Shape
<1>8. CASE HydrateRelations(r)
  BY <1>8 DEF HydrateRelations, At, Steps, Goes, Writes, Base, Shape
<1>9. CASE HydrateEvidence(r)
  BY <1>9 DEF HydrateEvidence, At, Steps, Goes, Writes, Base, Shape
<1>10. CASE Answer(r)
  BY <1>10 DEF Answer, At, Refuse, Steps, Replies, Writes, Base, Shape, DbFields
<1>11. QED
  BY <1>1, <1>2, <1>3, <1>4, <1>5, <1>6, <1>7, <1>8, <1>9, <1>10 DEF RecallQuery

LEMMA GraphSteps ==
    ASSUME Base, NEW r \in Requests, GraphRead(r)
    PROVE  Steps(r) /\ Op(r) \in {"subgraph", "path"} /\ db' = db
<1>1. CASE FindRoot(r)
  BY <1>1 DEF FindRoot, At, Refuse, Steps, Goes, Replies
<1>2. CASE Traverse(r)
  BY <1>2 DEF Traverse, At, Steps, Goes
<1>3. CASE SubgraphEntities(r)
  BY <1>3 DEF SubgraphEntities, At, Steps, Goes
<1>4. CASE RelationsAmong(r)
  BY <1>4 DEF RelationsAmong, At, Steps, Goes
<1>5. CASE SubgraphRelations(r)
  BY <1>5 DEF SubgraphRelations, At, Steps, Replies
<1>6. CASE FindEndpoints(r)
  BY <1>6 DEF FindEndpoints, At, Refuse, Steps, Goes, Replies
<1>7. CASE Walk(r)
  BY <1>7 DEF Walk, At, Steps, Goes, Replies
<1>8. CASE PathEntities(r)
  BY <1>8 DEF PathEntities, At, Steps, Goes
<1>9. CASE PathRelations(r)
  BY <1>9 DEF PathRelations, At, Steps, Replies
<1>10. QED BY <1>1, <1>2, <1>3, <1>4, <1>5, <1>6, <1>7, <1>8, <1>9 DEF GraphRead

LEMMA ProvenanceSteps ==
    ASSUME Base, NEW r \in Requests, Provenance(r)
    PROVE  Steps(r) /\ Op(r) \in {"source", "relation", "query"} /\ db' = db
<1>1. CASE FindSource(r)
  BY <1>1 DEF FindSource, At, Refuse, Steps, Goes, Replies
<1>2. CASE SourceChunk(r)
  BY <1>2 DEF SourceChunk, At, Steps, Goes
<1>3. CASE SourceEntities(r)
  BY <1>3 DEF SourceEntities, At, Steps, Goes
<1>4. CASE SourceRelations(r)
  BY <1>4 DEF SourceRelations, At, Steps, Replies
<1>5. CASE FindRelation(r)
  BY <1>5 DEF FindRelation, At, Refuse, Steps, Goes, Replies
<1>6. CASE RelationEvidence(r)
  BY <1>6 DEF RelationEvidence, At, Steps, Replies
<1>7. CASE QueryReferences(r)
  BY <1>7 DEF QueryReferences, At, Refuse, Steps, Replies
<1>8. QED BY <1>1, <1>2, <1>3, <1>4, <1>5, <1>6, <1>7 DEF Provenance

\* What a step may be, by the area of the behaviour.
Common(r) == Embed(r) \/ LockRow(r) \/ Abort(r)
Readers(r) == RecallQuery(r) \/ GraphRead(r) \/ Provenance(r)
ReaderAsks == RecallAsks \cup GraphAsks \cup ProvenanceAsks
StepOf(r) ==
    \/ Common(r)
    \/ area = "memory" /\ (Memory(r) \/ Begin(r, MemoryAsks, Erased))
    \/ area = "session" /\ (Session(r) \/ Begin(r, SessionAsks, {}))
    \/ area = "skill" /\ (Skill(r) \/ Agent(r) \/ Begin(r, SkillAsks, {}))
    \/ area = "agent" /\ (Agent(r) \/ Begin(r, AgentAsks, {}))
    \/ area = "dataset" /\ (Dataset(r) \/ Begin(r, DatasetAsks, {}))
    \/ area = "knowledge" /\ (Readers(r) \/ Begin(r, ReaderAsks, AllIds \ Visible))
Beside ==
    \/ (\E d \in {"main", "dataset"} : Retire(d)) /\ UNCHANGED graph
    \/ \E c \in Chunks : ForgetSource(c)
    \/ \E a, b \in Entities : Merge(a, b)
    \/ Project

LEMMA NextCases ==
    ASSUME Base, Next
    PROVE  area' = area /\ (Beside \/ (UNCHANGED graph /\ \E r \in Requests : StepOf(r)))
<1>1. CASE Beside
  BY <1>1 DEF Beside, Retire, ForgetSource, Merge, Project, registries
<1>2. CASE ~Beside
  <2>1. PICK r \in Requests :
          /\ \/ Registry(r)
             \/ area = "knowledge" /\ Begin(r, ReaderAsks, AllIds \ Visible)
             \/ Readers(r) /\ UNCHANGED area
          /\ UNCHANGED graph
    BY <1>2 DEF Next, Beside, Readers, ReaderAsks
  <2>2. req[r].pc # "idle" => AskedOf(r)
    BY DEF Base, Asked, Idle
  <2>3. CASE area = "memory" /\ Begin(r, MemoryAsks, Erased)
    BY <2>1, <2>3 DEF StepOf, Begin
  <2>4. CASE area = "session" /\ Begin(r, SessionAsks, {})
    BY <2>1, <2>4 DEF StepOf, Begin
  <2>5. CASE area = "skill" /\ Begin(r, SkillAsks, {})
    BY <2>1, <2>5 DEF StepOf, Begin
  <2>6. CASE area = "agent" /\ Begin(r, AgentAsks, {})
    BY <2>1, <2>6 DEF StepOf, Begin
  <2>7. CASE area = "dataset" /\ Begin(r, DatasetAsks, {})
    BY <2>1, <2>7 DEF StepOf, Begin
  <2>8. CASE area = "knowledge" /\ Begin(r, ReaderAsks, AllIds \ Visible)
    BY <2>1, <2>8 DEF StepOf, Begin
  <2>9. CASE Common(r) /\ UNCHANGED area
    BY <2>1, <2>9 DEF StepOf
  <2>10. CASE Memory(r) /\ UNCHANGED area
    <3>1. req[r].pc # "idle" /\ Op(r) \in MemoryOps
      BY <2>10, MemorySteps DEF Steps
    <3>2. area = "memory"
      BY <2>2, <3>1 DEF AskedOf, SessionAsked, SkillAsked, MemoryOps, SessionOps, SkillOps,
                        AgentOps, DatasetOps, KnowledgeOps
    <3>3. QED BY <2>1, <2>10, <3>2 DEF StepOf
  <2>11. CASE Session(r) /\ UNCHANGED area
    <3>1. /\ req[r].pc # "idle" /\ Op(r) \in SessionOps
          /\ Op(r) \in {"archive", "restore"} => area = "session"
      BY <2>11, SessionSteps DEF Steps
    <3>2. area = "session"
      BY <2>2, <3>1 DEF AskedOf, MemoryAsked, SkillAsked, MemoryOps, SessionOps, SkillOps,
                        AgentOps, DatasetOps, KnowledgeOps
    <3>3. QED BY <2>1, <2>11, <3>2 DEF StepOf
  <2>12. CASE Skill(r) /\ UNCHANGED area
    <3>1. /\ req[r].pc # "idle" /\ Op(r) \in SkillOps
          /\ Op(r) \in {"archive", "restore"} => area = "skill"
          /\ Op(r) # "create_agent"
      BY <2>12, SkillSteps DEF Steps, Skill, CreateSkill, ReadName, Revise, SelectRevision,
           ArchiveSkill, RestoreSkill, SetPin, RemovePin, At
    <3>2. area = "skill"
      BY <2>2, <3>1 DEF AskedOf, MemoryAsked, SessionAsked, MemoryOps, SessionOps, SkillOps,
                        AgentOps, DatasetOps, KnowledgeOps
    <3>3. QED BY <2>1, <2>12, <3>2 DEF StepOf
  <2>13. CASE Agent(r) /\ UNCHANGED area
    <3>1. req[r].pc # "idle" /\ Op(r) \in AgentOps
      BY <2>13, AgentSteps DEF Steps
    <3>2. area \in {"agent", "skill"}
      BY <2>2, <3>1 DEF AskedOf, MemoryAsked, SessionAsked, MemoryOps, SessionOps, SkillOps,
                        AgentOps, DatasetOps, KnowledgeOps
    <3>3. QED BY <2>1, <2>13, <3>2 DEF StepOf
  <2>14. CASE Dataset(r) /\ UNCHANGED area
    <3>1. req[r].pc # "idle" /\ Op(r) \in DatasetOps
      BY <2>14, DatasetSteps DEF Steps
    <3>2. area = "dataset"
      BY <2>2, <3>1 DEF AskedOf, MemoryAsked, SessionAsked, SkillAsked, MemoryOps, SessionOps,
                        SkillOps, AgentOps, DatasetOps, KnowledgeOps
    <3>3. QED BY <2>1, <2>14, <3>2 DEF StepOf
  <2>15. CASE Readers(r) /\ UNCHANGED area
    <3>1. req[r].pc # "idle" /\ Op(r) \in KnowledgeOps
      BY <2>15, RecallSteps, GraphSteps, ProvenanceSteps DEF Readers, Steps, KnowledgeOps
    <3>2. area = "knowledge"
      BY <2>2, <3>1 DEF AskedOf, MemoryAsked, SessionAsked, SkillAsked, MemoryOps, SessionOps,
                        SkillOps, AgentOps, DatasetOps, KnowledgeOps
    <3>3. QED BY <2>1, <2>15, <3>2 DEF StepOf
  <2>16. QED
    BY <2>1, <2>3, <2>4, <2>5, <2>6, <2>7, <2>8, <2>9, <2>10, <2>11, <2>12, <2>13, <2>14, <2>15
       DEF Registry, Common
<1>3. QED BY <1>1, <1>2

\* A step of a request leaves the others where they are.
LEMMA StepAlone ==
    ASSUME Base, NEW r \in Requests, StepOf(r)
    PROVE  Others(r)
<1>1. CASE Steps(r)
  BY <1>1, GoFields, ReplyFields DEF Steps, Goes, Replies, Base, Went, Ended
<1>2. ASSUME NEW asks, NEW gone, Begin(r, asks, gone) PROVE Others(r)
  BY <1>2, BeginFields DEF Base, Began
<1>3. QED
  BY <1>1, <1>2, CommonSteps, MemorySteps, SessionSteps, SkillSteps, AgentSteps, DatasetSteps,
     RecallSteps, GraphSteps, ProvenanceSteps DEF StepOf, Common, Readers

\* Each area writes tables of its own.
LEMMA Frame ==
    ASSUME Base, Next
    PROVE  /\ DOMAIN db' = DbFields
           /\ area # "memory" => db'.memory = db.memory /\ db'.ledger = db.ledger
           /\ area # "session" => db'.session = db.session
           /\ area # "skill" => db'.skill = db.skill /\ db'.pin = db.pin
<1>1. CASE Beside
  BY <1>1 DEF Beside, Retire, ForgetSource, Merge, Project, registries, Base, Shape, DbFields
<1>2. CASE \E r \in Requests : StepOf(r)
  <2>1. PICK r \in Requests : StepOf(r)
    BY <1>2
  <2>2. CASE Common(r)
    BY <2>2, CommonSteps DEF Common, Base, Shape
  <2>3. CASE area = "memory" /\ Memory(r)
    BY <2>3, MemorySteps DEF Writes, DbFields
  <2>4. CASE area = "session" /\ Session(r)
    BY <2>4, SessionSteps DEF Writes, DbFields
  <2>5. CASE area = "skill" /\ Skill(r)
    BY <2>5, SkillSteps DEF Writes, DbFields
  <2>6. CASE Agent(r)
    BY <2>6, AgentSteps DEF Writes, DbFields
  <2>7. CASE Dataset(r)
    BY <2>7, DatasetSteps DEF Writes, DbFields
  <2>8. CASE Readers(r)
    BY <2>8, RecallSteps, GraphSteps, ProvenanceSteps DEF Readers, Writes, DbFields, Base, Shape
  <2>9. CASE \E asks, gone : Begin(r, asks, gone)
    BY <2>9 DEF Begin, Base, Shape
  <2>10. QED BY <2>1, <2>2, <2>3, <2>4, <2>5, <2>6, <2>7, <2>8, <2>9 DEF StepOf
<1>3. QED BY <1>1, <1>2, NextCases

LEMMA FirstStep ==
    ASSUME NEW op PROVE First(op) \notin {"idle", "done", "apply"}
BY DEF First

LEMMA BaseKeeps ==
    ASSUME Base, Next
    PROVE  Base'
<1>1. CASE Beside
  <2>1. UNCHANGED <<area, req>> /\ DOMAIN db' = DbFields
    BY <1>1, Frame DEF Beside, Retire, ForgetSource, Merge, Project, registries
  <2>2. \A r \in Requests : Asked(r)'
    BY <2>1 DEF Base, Asked, AskedOf, MemoryAsked, SessionAsked, SkillAsked, Op, Key, Text
  <2>3. QED BY <2>1, <2>2 DEF Base, Shape, Exclusive
<1>2. CASE \E r \in Requests : StepOf(r)
  <2>1. PICK r \in Requests : StepOf(r)
    BY <1>2
  <2>2. CASE Steps(r)
    BY <2>2, StepsKeepBase, NextCases, Frame
  <2>3. ASSUME NEW asks, NEW gone, Begin(r, asks, gone), AskedOf(r)' PROVE Base'
    <3>1. Began(r, asks, gone) /\ area' = area /\ db' = db
      BY <2>3, BeginFields DEF Base
    <3>2. Shape'
      BY <3>1 DEF Base, Shape, Began, Others
    <3>3. \A q \in Requests : Asked(q)'
      <4>1. Asked(r)'
        BY <2>3, <3>1, FirstStep DEF Began, Asked
      <4>2. ASSUME NEW q \in Requests \ {r} PROVE Asked(q)'
        BY <3>1, Asked(q) DEF Began, Others, Base, Asked, AskedOf, MemoryAsked, SessionAsked, SkillAsked, Op, Key, Text
      <4>3. QED BY <4>1, <4>2
    <3>4. Exclusive'
      BY <3>1 DEF Base, Exclusive, Began, Others
    <3>5. QED BY <3>2, <3>3, <3>4 DEF Base
  <2>4. CASE area = "memory" /\ Begin(r, MemoryAsks, Erased)
    <3>1. Began(r, MemoryAsks, Erased) /\ area' = area
      BY <2>4, BeginFields DEF Base
    <3>2. AskedOf(r)'
      BY <2>4, <3>1 DEF Began, MemoryAsks, AskedOf, MemoryAsked, MemoryOps, Op, Key, Text
    <3>3. QED BY <2>3, <2>4, <3>2
  <2>5. CASE area = "session" /\ Begin(r, SessionAsks, {})
    <3>1. Began(r, SessionAsks, {}) /\ area' = area
      BY <2>5, BeginFields DEF Base
    <3>2. AskedOf(r)'
      BY <2>5, <3>1 DEF Began, SessionAsks, AskedOf, SessionAsked, SessionOps, Op, Key, Text
    <3>3. QED BY <2>3, <2>5, <3>2
  <2>6. CASE area = "skill" /\ Begin(r, SkillAsks, {})
    <3>1. Began(r, SkillAsks, {}) /\ area' = area
      BY <2>6, BeginFields DEF Base
    <3>2. AskedOf(r)'
      BY <2>6, <3>1 DEF Began, SkillAsks, AskedOf, SkillAsked, SkillOps, Op, Key, Text
    <3>3. QED BY <2>3, <2>6, <3>2
  <2>7. CASE area = "agent" /\ Begin(r, AgentAsks, {})
    <3>1. Began(r, AgentAsks, {}) /\ area' = area
      BY <2>7, BeginFields DEF Base
    <3>2. AskedOf(r)'
      BY <2>7, <3>1 DEF Began, AgentAsks, AskedOf, AgentOps, Op
    <3>3. QED BY <2>3, <2>7, <3>2
  <2>8. CASE area = "dataset" /\ Begin(r, DatasetAsks, {})
    <3>1. Began(r, DatasetAsks, {}) /\ area' = area
      BY <2>8, BeginFields DEF Base
    <3>2. AskedOf(r)'
      BY <2>8, <3>1 DEF Began, DatasetAsks, AskedOf, DatasetOps, Op
    <3>3. QED BY <2>3, <2>8, <3>2
  <2>9. CASE area = "knowledge" /\ Begin(r, ReaderAsks, AllIds \ Visible)
    <3>1. Began(r, ReaderAsks, AllIds \ Visible) /\ area' = area
      BY <2>9, BeginFields DEF Base
    <3>2. AskedOf(r)'
      BY <2>9, <3>1 DEF Began, ReaderAsks, RecallAsks, GraphAsks, ProvenanceAsks, AskedOf, KnowledgeOps, Op
    <3>3. QED BY <2>3, <2>9, <3>2
  <2>10. QED
    BY <2>1, <2>2, <2>4, <2>5, <2>6, <2>7, <2>8, <2>9, CommonSteps, MemorySteps, SessionSteps,
       SkillSteps, AgentSteps, DatasetSteps, RecallSteps, GraphSteps, ProvenanceSteps
       DEF StepOf, Common, Readers
<1>3. QED BY <1>1, <1>2, NextCases

-----------------------------------------------------------------------------
(* Cognitive memory: the inductive invariant *)

LEMMA PutFacts ==
    ASSUME NEW f, NEW x, NEW v
    PROVE  /\ DOMAIN Put(f, x, v) = DOMAIN f \cup {x} /\ Put(f, x, v)[x] = v
           /\ \A y \in DOMAIN f : y # x => Put(f, x, v)[y] = f[y]
BY DEF Put

\* A request that will write the row it names has locked it and knows it.
MemoryHeld(r) ==
    Op(r) \in {"supersede", "forget"} /\ req[r].pc \in {"insert", "apply"} =>
      /\ <<"memory", On(r)>> \in req[r].locks
      /\ On(r) \in DOMAIN db.memory /\ Seen(r) = db.memory[On(r)]

\* One that is past the claim of its key is alone with it, and first.
KeyHeld(r) ==
    req[r].pc = "apply" /\ Key(r) # Null =>
      <<"key", Key(r)>> \in req[r].locks /\ Key(r) \notin DOMAIN db.ledger

\* One that has not been answered has left nothing.
Fresh(r) == req[r].pc # "done" => r \notin DOMAIN db.memory /\ req[r].out.code = "none"

GoneErased(r) == req[r].gone \subseteq Erased

\* An answer agrees with the ledger.
Agrees(r) ==
    /\ req[r].out.code # "internal"
    /\ req[r].out.code = "ok" /\ Op(r) = "supersede" => On(r) \in DOMAIN db.memory
    /\ Key(r) # Null /\ req[r].out.code = "ok" /\ Op(r) # "typed_recall" =>
         /\ Key(r) \in DOMAIN db.ledger
         /\ db.ledger[Key(r)].digest = Digest(r) /\ db.ledger[Key(r)].result = req[r].out.id
    /\ req[r].out.code = "conflict" =>
         Key(r) # Null /\ Key(r) \in DOMAIN db.ledger /\ db.ledger[Key(r)].digest # Digest(r)

MemRows == [life : {"active", "superseded", "forgotten"}, text : Texts \cup {Null},
            by : Requests \cup {Null}]
MemoryRow(m) ==
    LET x == db.memory[m]
    IN  /\ x \in MemRows
        /\ x.text = Null <=> x.life = "forgotten"
        /\ x.life = "active" => x.by = Null
        /\ x.life = "superseded" => x.by # Null
        /\ x.by # Null => x.by \in DOMAIN db.memory /\ On(x.by) = m

\* The request that made a memory has been answered with it.
Creator(m) ==
    /\ req[m].out.code = "ok"
    /\ Key(m) # Null => Key(m) \in DOMAIN db.ledger /\ db.ledger[Key(m)].result = m
    /\ Op(m) = "supersede" => On(m) \in DOMAIN db.memory /\ db.memory[On(m)].by = m

LedgerRow(key) ==
    /\ key # Null /\ db.ledger[key].result \in DOMAIN db.memory
    /\ \E r \in Requests :
         Key(r) = key /\ req[r].out.code = "ok" /\ Digest(r) = db.ledger[key].digest

MemoryInv ==
    /\ DOMAIN db.memory \subseteq Requests \cup {"memory"}
    /\ \A r \in Requests : MemoryHeld(r)
    /\ \A r \in Requests : KeyHeld(r)
    /\ \A r \in Requests : Fresh(r)
    /\ \A r \in Requests : GoneErased(r)
    /\ \A r \in Requests : Agrees(r)
    /\ \A m \in DOMAIN db.memory : MemoryRow(m)
    /\ \A m \in DOMAIN db.memory \cap Requests : Creator(m)
    /\ \A key \in DOMAIN db.ledger : LedgerRow(key)

\* What a step of one request that writes nothing leaves of the invariant.
LEMMA MemoryAside ==
    ASSUME Base, MemoryInv, NEW r \in Requests, Others(r), db' = db,
           r \notin DOMAIN db.memory, req[r].out.code = "none"
    PROVE  /\ \A q \in Requests \ {r} :
                (/\ MemoryHeld(q) /\ KeyHeld(q) /\ Fresh(q) /\ GoneErased(q) /\ Agrees(q))'
           /\ \A m \in DOMAIN db.memory : MemoryRow(m)'
           /\ \A m \in DOMAIN db.memory \cap Requests : Creator(m)'
           /\ \A key \in DOMAIN db.ledger : LedgerRow(key)'
<1>1. ASSUME NEW q \in Requests \ {r}
      PROVE  (/\ MemoryHeld(q) /\ KeyHeld(q) /\ Fresh(q) /\ GoneErased(q) /\ Agrees(q))'
  <2>1. MemoryHeld(q) /\ KeyHeld(q) /\ Fresh(q) /\ GoneErased(q) /\ Agrees(q)
    BY DEF MemoryInv
  <2>2. req'[q] = req[q]
    BY DEF Others
  <2>3. QED
    BY <2>1, <2>2 DEF MemoryHeld, KeyHeld, Fresh, GoneErased, Erased, Agrees, Digest, Op, Key, On, Text, Seen
<1>2. ASSUME NEW m \in DOMAIN db.memory PROVE MemoryRow(m)'
  <2>1. MemoryRow(m)
    BY DEF MemoryInv
  <2>2. db.memory[m].by # Null => db.memory[m].by \in Requests \ {r}
    BY <2>1 DEF MemoryRow, MemRows
  <2>3. QED BY <2>1, <2>2 DEF MemoryRow, On, Others
<1>3. ASSUME NEW m \in DOMAIN db.memory \cap Requests PROVE Creator(m)'
  <2>1. Creator(m) /\ m # r
    BY DEF MemoryInv
  <2>2. QED BY <2>1 DEF Creator, Others, Op, Key, On
<1>4. ASSUME NEW key \in DOMAIN db.ledger PROVE LedgerRow(key)'
  <2>1. LedgerRow(key)
    BY DEF MemoryInv
  <2>2. PICK q \in Requests : Key(q) = key /\ req[q].out.code = "ok" /\ Digest(q) = db.ledger[key].digest
    BY <2>1 DEF LedgerRow
  <2>3. q # r /\ req'[q] = req[q]
    BY <2>2 DEF Others
  <2>4. QED BY <2>1, <2>2, <2>3 DEF LedgerRow, Digest, Op, Key, On, Text
<1>5. QED BY <1>1, <1>2, <1>3, <1>4

\* r is under way: nothing is known of it yet.
LEMMA Unanswered ==
    ASSUME MemoryInv, NEW r \in Requests, req[r].pc # "done"
    PROVE  r \notin DOMAIN db.memory /\ req[r].out.code = "none"
BY DEF MemoryInv, Fresh

LEMMA MemoryGoes ==
    ASSUME Base, MemoryInv, db' = db, NEW r \in Requests, NEW pc, NEW seen, NEW locks,
           Go(r, pc, seen, locks), req[r].pc # "done", pc # "done",
           Op(r) \in {"supersede", "forget"} /\ pc \in {"insert", "apply"} =>
             /\ <<"memory", On(r)>> \in req[r].locks \cup locks
             /\ On(r) \in DOMAIN db.memory /\ seen = db.memory[On(r)],
           pc = "apply" /\ Key(r) # Null =>
             <<"key", Key(r)>> \in locks /\ Key(r) \notin DOMAIN db.ledger
    PROVE  MemoryInv'
<1>1. Went(r, pc, seen, locks) /\ r \notin DOMAIN db.memory /\ req[r].out.code = "none"
  BY GoFields, Unanswered DEF Base
<1>2. /\ \A q \in Requests \ {r} :
           (/\ MemoryHeld(q) /\ KeyHeld(q) /\ Fresh(q) /\ GoneErased(q) /\ Agrees(q))'
      /\ \A m \in DOMAIN db.memory : MemoryRow(m)'
      /\ \A m \in DOMAIN db.memory \cap Requests : Creator(m)'
      /\ \A key \in DOMAIN db.ledger : LedgerRow(key)'
  BY <1>1, MemoryAside DEF Went
<1>3. MemoryHeld(r)' /\ KeyHeld(r)' /\ Fresh(r)'
  BY <1>1 DEF Went, MemoryHeld, KeyHeld, Fresh, Op, Key, On, Seen
<1>4. GoneErased(r)' /\ Agrees(r)'
  <2>1. GoneErased(r) /\ Agrees(r)
    BY DEF MemoryInv
  <2>2. QED BY <1>1, <2>1 DEF Went, GoneErased, Erased, Agrees, Op, Key, On
<1>5. QED BY <1>2, <1>3, <1>4 DEF MemoryInv

LEMMA MemoryReplies ==
    ASSUME Base, MemoryInv, db' = db, NEW r \in Requests, NEW code, NEW id, NEW shown,
           Reply(r, code, id, shown), req[r].pc # "done",
           code # "internal",
           code = "ok" /\ Op(r) = "supersede" => On(r) \in DOMAIN db.memory,
           Key(r) # Null /\ code = "ok" /\ Op(r) # "typed_recall" =>
             /\ Key(r) \in DOMAIN db.ledger
             /\ db.ledger[Key(r)].digest = Digest(r) /\ db.ledger[Key(r)].result = id,
           code = "conflict" =>
             Key(r) # Null /\ Key(r) \in DOMAIN db.ledger /\ db.ledger[Key(r)].digest # Digest(r)
    PROVE  MemoryInv'
<1>1. Ended(r, code, id, shown) /\ r \notin DOMAIN db.memory /\ req[r].out.code = "none"
  BY ReplyFields, Unanswered DEF Base
<1>2. /\ \A q \in Requests \ {r} :
           (/\ MemoryHeld(q) /\ KeyHeld(q) /\ Fresh(q) /\ GoneErased(q) /\ Agrees(q))'
      /\ \A m \in DOMAIN db.memory : MemoryRow(m)'
      /\ \A m \in DOMAIN db.memory \cap Requests : Creator(m)'
      /\ \A key \in DOMAIN db.ledger : LedgerRow(key)'
  BY <1>1, MemoryAside DEF Ended
<1>3. MemoryHeld(r)' /\ KeyHeld(r)' /\ Fresh(r)' /\ GoneErased(r)'
  BY <1>1 DEF Ended, MemoryHeld, KeyHeld, Fresh, GoneErased
<1>4. Agrees(r)'
  BY <1>1 DEF Ended, Agrees, Digest, Op, Key, On, Text
<1>5. QED BY <1>2, <1>3, <1>4 DEF MemoryInv

LEMMA MemoryBegins ==
    ASSUME Base, MemoryInv, NEW r \in Requests, NEW asks, Begin(r, asks, Erased)
    PROVE  MemoryInv'
<1>1. /\ Began(r, asks, Erased) /\ db' = db
      /\ r \notin DOMAIN db.memory /\ req[r].out.code = "none"
  BY BeginFields, Unanswered DEF Base, Began
<1>2. /\ \A q \in Requests \ {r} :
           (/\ MemoryHeld(q) /\ KeyHeld(q) /\ Fresh(q) /\ GoneErased(q) /\ Agrees(q))'
      /\ \A m \in DOMAIN db.memory : MemoryRow(m)'
      /\ \A m \in DOMAIN db.memory \cap Requests : Creator(m)'
      /\ \A key \in DOMAIN db.ledger : LedgerRow(key)'
  BY <1>1, MemoryAside DEF Began
<1>3. MemoryHeld(r)' /\ KeyHeld(r)'
  BY <1>1, FirstStep DEF Began, MemoryHeld, KeyHeld, First, Op
<1>4. Fresh(r)' /\ GoneErased(r)' /\ Agrees(r)'
  BY <1>1 DEF Began, Fresh, GoneErased, Erased, Agrees, Idle
<1>5. QED BY <1>1, <1>2, <1>3, <1>4 DEF MemoryInv

\* Everything a replay shows is there.
LEMMA MemoryReplayed ==
    ASSUME Base, MemoryInv, NEW r \in Requests, req[r].pc # "done",
           Op(r) \in {"create", "supersede", "forget"}, Known(Key(r)), Replay(r)
    PROVE  MemoryInv'
<1> DEFINE entry == db.ledger[Key(r)]
<1>1. Key(r) # Null /\ Key(r) \in DOMAIN db.ledger
  BY DEF Known
<1>2. CASE entry.digest # Digest(r)
  <2>1. Reply(r, "conflict", Null, {}) /\ db' = db
    BY <1>2 DEF Replay, Refuse
  <2>2. QED BY <1>1, <1>2, <2>1, MemoryReplies
<1>3. CASE entry.digest = Digest(r)
  <2>1. LedgerRow(Key(r))
    BY <1>1 DEF MemoryInv
  <2>2. PICK q \in Requests : req[q].out.code = "ok" /\ Digest(q) = entry.digest
    BY <2>1 DEF LedgerRow
  <2>3. Op(r) = "supersede" => On(r) \in DOMAIN db.memory
    <3>1. Op(q) = Op(r) /\ On(q) = On(r)
      BY <1>3, <2>2 DEF Digest
    <3>2. Agrees(q)
      BY DEF MemoryInv
    <3>3. QED BY <2>2, <3>1, <3>2 DEF Agrees
  <2>4. entry.result \in DOMAIN db.memory
    BY <2>1 DEF LedgerRow
  <2>5. \E shown : Reply(r, "ok", entry.result, shown) /\ db' = db
    BY <1>3, <2>3, <2>4 DEF Replay, Hydrate
  <2>6. QED BY <1>1, <1>3, <2>3, <2>5, MemoryReplies
<1>4. QED BY <1>2, <1>3

LEMMA MemoryReads ==
    ASSUME Base, MemoryInv, area = "memory", NEW r \in Requests,
           Common(r) \/ PreCheck(r) \/ ClaimKey(r) \/ GetMemory(r) \/ TypedRecall(r)
    PROVE  MemoryInv'
<1>0. req[r].pc \notin {"idle", "done"} /\ MemoryAsked(r)
  <2>1. Steps(r)
    BY CommonSteps, MemorySteps DEF Common, Memory
  <2>2. AskedOf(r)
    BY <2>1 DEF Steps, Base, Asked, Idle
  <2>3. QED BY <2>1, <2>2 DEF Steps, AskedOf
<1>1. CASE Embed(r)
  <2>1. CASE Go(r, AfterEmbedding(Op(r)), Null, {}) /\ UNCHANGED db
    <3>1. AfterEmbedding(Op(r)) \notin {"done", "apply"}
      BY DEF AfterEmbedding
    <3>2. Op(r) \in {"supersede", "forget"} => AfterEmbedding(Op(r)) # "insert"
      BY DEF AfterEmbedding
    <3>3. QED BY <1>0, <2>1, <3>1, <3>2, MemoryGoes
  <2>2. CASE Refuse(r, "unavailable")
    BY <1>0, <2>2, MemoryReplies DEF Refuse
  <2>3. QED BY <1>1, <2>1, <2>2 DEF Embed
<1>2. CASE LockRow(r)
  <2>1. CASE On(r) \notin DOMAIN db[area]
    BY <1>0, <1>2, <2>1, MemoryReplies DEF LockRow, Refuse
  <2>2. CASE On(r) \in DOMAIN db[area]
    <3>1. Go(r, "insert", db.memory[On(r)], {<<"memory", On(r)>>}) /\ db' = db
      BY <1>2, <2>2 DEF LockRow
    <3>2. On(r) \in DOMAIN db.memory
      BY <2>2
    <3>3. QED BY <1>0, <3>1, <3>2, MemoryGoes
  <2>3. QED BY <2>1, <2>2
<1>3. CASE Abort(r)
  BY <1>0, <1>3, MemoryReplies DEF Abort, Refuse
<1>4. CASE PreCheck(r)
  <2>1. Op(r) \in {"create", "supersede", "forget"}
    BY <1>4 DEF PreCheck, At
  <2>2. CASE Known(Key(r))
    BY <1>0, <1>4, <2>1, <2>2, MemoryReplayed DEF PreCheck
  <2>3. CASE ~Known(Key(r))
    <3>1. Go(r, IF Op(r) = "forget" THEN "lock" ELSE "embed", Null, {}) /\ db' = db
      BY <1>4, <2>3 DEF PreCheck
    <3>2. QED BY <1>0, <3>1, MemoryGoes
  <2>4. QED BY <2>2, <2>3
<1>5. CASE ClaimKey(r)
  <2>1. Op(r) \in {"create", "supersede", "forget"} /\ req[r].pc = "insert"
    BY <1>5 DEF ClaimKey, At
  <2>2. CASE Known(Key(r))
    BY <1>0, <1>5, <2>1, <2>2, MemoryReplayed DEF ClaimKey
  <2>3. CASE ~Known(Key(r))
    <3>1. Go(r, "apply", Seen(r), {<<"key", Key(r)>>}) /\ db' = db
      BY <1>5, <2>3 DEF ClaimKey
    <3>2. MemoryHeld(r)
      BY DEF MemoryInv
    <3>3. QED BY <1>0, <2>1, <2>3, <3>1, <3>2, MemoryGoes DEF MemoryHeld, Known
  <2>4. QED BY <2>2, <2>3
<1>6. CASE GetMemory(r)
  <2>1. Op(r) = "get" /\ Key(r) = Null
    BY <1>0, <1>6 DEF GetMemory, At, MemoryAsked
  <2>2. CASE On(r) \in DOMAIN db.memory
    <3>1. \E shown : Reply(r, "ok", On(r), shown) /\ db' = db
      BY <1>6, <2>1, <2>2 DEF GetMemory, Hydrate
    <3>2. QED BY <1>0, <2>1, <3>1, MemoryReplies
  <2>3. CASE On(r) \notin DOMAIN db.memory
    <3>1. Reply(r, "not_found", Null, {}) /\ db' = db
      BY <1>6, <2>3 DEF GetMemory, Refuse
    <3>2. QED BY <1>0, <3>1, MemoryReplies
  <2>4. QED BY <2>2, <2>3
<1>7. CASE TypedRecall(r)
  <2>1. Op(r) = "typed_recall"
    BY <1>7 DEF TypedRecall, At
  <2>2. \E shown : Reply(r, "ok", Null, shown) /\ db' = db
    BY <1>7 DEF TypedRecall
  <2>3. QED BY <1>0, <2>1, <2>2, MemoryReplies
<1>8. QED BY <1>1, <1>2, <1>3, <1>4, <1>5, <1>6, <1>7 DEF Common

\* A write of r, answered with id: the ledger row of its key, a memory of its

\* own, and the row it names and has locked.
LEMMA MemoryWrites ==
    ASSUME Base, MemoryInv, NEW r \in Requests, NEW id,
           req[r].pc = "apply", Reply(r, "ok", id, {}), Op(r) # "typed_recall",
           db'.ledger = Ledger(r, id), id \in DOMAIN db'.memory,
           DOMAIN db.memory \subseteq DOMAIN db'.memory,
           DOMAIN db'.memory \subseteq DOMAIN db.memory \cup {r},
           \A m \in DOMAIN db.memory :
             db'.memory[m] # db.memory[m] => m = On(r) /\ <<"memory", m>> \in req[r].locks,
           \A m \in DOMAIN db.memory : db.memory[m].text = Null => db'.memory[m].text = Null,
           \A m \in DOMAIN db.memory : db.memory[m].by # Null => db'.memory[m].by = db.memory[m].by,
           \A m \in DOMAIN db'.memory : MemoryRow(m)',
           r \in DOMAIN db'.memory => id = r,
           Op(r) = "supersede" => On(r) \in DOMAIN db.memory /\ db'.memory[On(r)].by = r
    PROVE  MemoryInv'
<1>1. /\ Ended(r, "ok", id, {}) /\ r \notin DOMAIN db.memory /\ req[r].out.code = "none"
  BY ReplyFields, Unanswered DEF Base
<1>2. KeyHeld(r)
  BY DEF MemoryInv
<1>3. /\ DOMAIN db'.ledger = DOMAIN db.ledger \cup (IF Key(r) = Null THEN {} ELSE {Key(r)})
      /\ \A key \in DOMAIN db.ledger : db'.ledger[key] = db.ledger[key]
      /\ Key(r) # Null => /\ Key(r) \in DOMAIN db'.ledger
                          /\ db'.ledger[Key(r)].digest = Digest(r)
                          /\ db'.ledger[Key(r)].result = id
  <2>1. CASE Key(r) = Null
    BY <2>1 DEF Ledger
  <2>2. CASE Key(r) # Null
    <3> DEFINE row == [digest |-> Digest(r), result |-> id]
    <3>1. row.digest = Digest(r) /\ row.result = id
      OBVIOUS
    <3>2. db'.ledger = Put(db.ledger, Key(r), row)
      BY <2>2 DEF Ledger
    <3> HIDE DEF row
    <3>3. Key(r) \notin DOMAIN db.ledger
      BY <1>2, <2>2 DEF KeyHeld
    <3>4. /\ DOMAIN db'.ledger = DOMAIN db.ledger \cup {Key(r)} /\ db'.ledger[Key(r)] = row
          /\ \A key \in DOMAIN db.ledger : key # Key(r) => db'.ledger[key] = db.ledger[key]
      BY <3>2 DEF Put
    <3>5. QED BY <2>2, <3>1, <3>3, <3>4
  <2>3. QED BY <2>1, <2>2
<1>4. /\ Op(r)' = Op(r) /\ Key(r)' = Key(r) /\ On(r)' = On(r) /\ Digest(r)' = Digest(r)
  BY <1>1 DEF Ended, Op, Key, On, Text, Digest
<1>5. \A q \in Requests \ {r} : /\ Op(q)' = Op(q) /\ Key(q)' = Key(q) /\ On(q)' = On(q)
                                /\ Digest(q)' = Digest(q) /\ Seen(q)' = Seen(q)
  BY <1>1 DEF Ended, Others, Op, Key, On, Text, Digest, Seen
<1>6. \A q \in Requests \ {r} : req'[q] = req[q]
  BY <1>1 DEF Ended, Others
<1>7. DOMAIN db'.memory \subseteq Requests \cup {"memory"}
  BY DEF MemoryInv
<1>8. \A q \in Requests : MemoryHeld(q)'
  <2>1. MemoryHeld(r)'
    BY <1>1 DEF Ended, MemoryHeld
  <2>2. ASSUME NEW q \in Requests \ {r} PROVE MemoryHeld(q)'
    <3>1. MemoryHeld(q)
      BY DEF MemoryInv
    <3>2. <<"memory", On(q)>> \in req[q].locks => <<"memory", On(q)>> \notin req[r].locks
      <4>1. <<"memory", On(q)>> # <<"key", Null>>
        OBVIOUS
      <4>2. QED BY <4>1 DEF Base, Exclusive
    <3>3. QED BY <1>5, <1>6, <3>1, <3>2 DEF MemoryHeld
  <2>3. QED BY <2>1, <2>2
<1>9. \A q \in Requests : KeyHeld(q)'
  <2>1. KeyHeld(r)'
    BY <1>1 DEF Ended, KeyHeld
  <2>2. ASSUME NEW q \in Requests \ {r} PROVE KeyHeld(q)'
    <3>1. KeyHeld(q)
      BY DEF MemoryInv
    <3>2. Key(q) # Null /\ <<"key", Key(q)>> \in req[q].locks => <<"key", Key(q)>> \notin req[r].locks
      <4>1. Key(q) # Null => <<"key", Key(q)>> # <<"key", Null>>
        OBVIOUS
      <4>2. QED BY <4>1 DEF Base, Exclusive
    <3>3. QED BY <1>2, <1>3, <1>5, <1>6, <3>1, <3>2 DEF KeyHeld
  <2>3. QED BY <2>1, <2>2
<1>10. \A q \in Requests : Fresh(q)'
  BY <1>1, <1>6 DEF MemoryInv, Fresh, Ended
<1>11. \A q \in Requests : GoneErased(q)'
  <2>1. Erased \subseteq Erased'
    BY DEF Erased
  <2>2. QED BY <1>1, <1>6, <2>1 DEF MemoryInv, GoneErased, Ended
<1>12. \A q \in Requests : Agrees(q)'
  <2>1. Agrees(r)'
    BY <1>1, <1>3, <1>4 DEF Agrees, Ended
  <2>2. ASSUME NEW q \in Requests \ {r} PROVE Agrees(q)'
    <3>1. Agrees(q)
      BY DEF MemoryInv
    <3>2. QED BY <1>3, <1>5, <1>6, <3>1 DEF Agrees
  <2>3. QED BY <2>1, <2>2
<1>13. \A m \in DOMAIN db'.memory \cap Requests : Creator(m)'
  <2>1. ASSUME r \in DOMAIN db'.memory PROVE Creator(r)'
    BY <1>1, <1>3, <1>4, <2>1 DEF Creator, Ended
  <2>2. ASSUME NEW m \in (DOMAIN db.memory \cap Requests) \ {r} PROVE Creator(m)'
    <3>1. Creator(m)
      BY DEF MemoryInv
    <3>2. m # Null
      BY RegistriesAssumption
    <3>3. QED BY <1>3, <1>5, <1>6, <3>1, <3>2 DEF Creator
  <2>3. QED BY <2>1, <2>2
<1>14. \A key \in DOMAIN db'.ledger : LedgerRow(key)'
  <2>1. ASSUME Key(r) # Null PROVE LedgerRow(Key(r))'
    <3>1. PICK key : key = Key(r)
      OBVIOUS
    <3>2. LedgerRow(key)'
      BY <1>1, <1>3, <1>4, <2>1, <3>1 DEF LedgerRow, Ended
    <3>3. QED BY <1>4, <3>1, <3>2
  <2>2. ASSUME NEW key \in DOMAIN db.ledger PROVE LedgerRow(key)'
    <3>1. LedgerRow(key)
      BY DEF MemoryInv
    <3>2. PICK q \in Requests : Key(q) = key /\ req[q].out.code = "ok" /\ Digest(q) = db.ledger[key].digest
      BY <3>1 DEF LedgerRow
    <3>3. q # r
      BY <1>1, <3>2
    <3>4. QED BY <1>3, <1>5, <1>6, <3>1, <3>2, <3>3 DEF LedgerRow
  <2>3. QED BY <1>3, <1>4, <2>1, <2>2
<1>15. QED
  BY <1>7, <1>8, <1>9, <1>10, <1>11, <1>12, <1>13, <1>14 DEF MemoryInv
LEMMA MemoryCreated ==
    ASSUME Base, MemoryInv, area = "memory", NEW r \in Requests, CreateMemory(r)
    PROVE  MemoryInv'
<1> DEFINE row == NewMemory(Text(r))
<1>1. /\ Op(r) = "create" /\ req[r].pc = "apply" /\ Reply(r, "ok", r, {})
      /\ db' = [db EXCEPT !.memory = Put(db.memory, r, row), !.ledger = Ledger(r, r)]
  BY DEF CreateMemory, At, Done
<1>2. r \notin DOMAIN db.memory
  BY <1>1, Unanswered
<1>3. row.life = "active" /\ row.by = Null /\ row.text = Text(r) /\ row \in MemRows /\ row.text # Null
  <2>1. AskedOf(r)
    BY <1>1 DEF Base, Asked, Idle
  <2>2. Text(r) \in Texts
    BY <1>1, <2>1 DEF AskedOf, MemoryAsked
  <2>3. QED BY <2>2, RegistriesAssumption DEF NewMemory, MemRows
<1> HIDE DEF row
<1>4. db'.ledger = Ledger(r, r) /\ db'.memory = Put(db.memory, r, row)
  BY <1>1 DEF Base, Shape, DbFields
<1>5. /\ DOMAIN db'.memory = DOMAIN db.memory \cup {r} /\ db'.memory[r] = row
      /\ \A m \in DOMAIN db.memory : db'.memory[m] = db.memory[m]
  BY <1>2, <1>4 DEF Put
<1>6. \A m \in DOMAIN db'.memory : MemoryRow(m)'
  <2>1. MemoryRow(r)'
    BY <1>3, <1>5 DEF MemoryRow
  <2>2. ASSUME NEW m \in DOMAIN db.memory PROVE MemoryRow(m)'
    <3>1. MemoryRow(m)
      BY DEF MemoryInv
    <3>2. db.memory[m].by # Null => db.memory[m].by \in Requests /\ db.memory[m].by # r
      BY <1>2, <3>1 DEF MemoryRow, MemRows
    <3>3. Others(r)
      BY <1>1, ReplyFields DEF Base, Ended
    <3>4. QED BY <1>5, <3>1, <3>2, <3>3 DEF MemoryRow, Others, On
  <2>3. QED BY <1>5, <2>1, <2>2
<1>7. QED BY <1>1, <1>2, <1>4, <1>5, <1>6, MemoryWrites

LEMMA MemorySuperseded ==
    ASSUME Base, MemoryInv, area = "memory", NEW r \in Requests, Supersede(r)
    PROVE  MemoryInv'
<1>1. Op(r) = "supersede" /\ req[r].pc = "apply"
  BY DEF Supersede, At
<1>2. CASE Seen(r).life # "active"
  <2>1. Reply(r, "state_conflict", Null, {}) /\ db' = db
    BY <1>2 DEF Supersede, Refuse
  <2>2. QED BY <1>1, <2>1, MemoryReplies
<1>3. CASE Seen(r).life = "active"
  <2> DEFINE old == [Seen(r) EXCEPT !.life = "superseded", !.by = r]
             new == NewMemory(Text(r))
  <2>1. /\ Reply(r, "ok", r, {})
        /\ db' = [db EXCEPT !.memory = Put(Put(db.memory, On(r), old), r, new),
                            !.ledger = Ledger(r, r)]
    BY <1>3 DEF Supersede, Done
  <2>2. r \notin DOMAIN db.memory
    BY <1>1, Unanswered
  <2>3. new.life = "active" /\ new.by = Null /\ new \in MemRows /\ new.text # Null
    <3>1. AskedOf(r)
      BY <1>1 DEF Base, Asked, Idle
    <3>2. Text(r) \in Texts
      BY <1>1, <3>1 DEF AskedOf, MemoryAsked
    <3>3. QED BY <3>2, RegistriesAssumption DEF NewMemory, MemRows
  <2>4. /\ On(r) \in DOMAIN db.memory /\ Seen(r) = db.memory[On(r)]
        /\ <<"memory", On(r)>> \in req[r].locks /\ MemoryRow(On(r))
    BY <1>1 DEF MemoryInv, MemoryHeld
  <2>5. /\ Seen(r) \in MemRows /\ Seen(r).by = Null /\ Seen(r).text # Null
    BY <1>3, <2>4 DEF MemoryRow
  <2>6. /\ old \in MemRows /\ old.life = "superseded" /\ old.by = r /\ old.text = Seen(r).text
    BY <2>5 DEF MemRows
  <2> HIDE DEF old, new
  <2>7. db'.ledger = Ledger(r, r) /\ db'.memory = Put(Put(db.memory, On(r), old), r, new)
    BY <2>1 DEF Base, Shape, DbFields
  <2>8. /\ DOMAIN db'.memory = DOMAIN db.memory \cup {r}
        /\ db'.memory[r] = new /\ db'.memory[On(r)] = old
        /\ \A m \in DOMAIN db.memory : m # On(r) => db'.memory[m] = db.memory[m]
    <3> DEFINE kept == Put(db.memory, On(r), old)
    <3>1. /\ DOMAIN kept = DOMAIN db.memory /\ kept[On(r)] = old
          /\ \A m \in DOMAIN db.memory : m # On(r) => kept[m] = db.memory[m]
      BY <2>4 DEF Put
    <3>2. db'.memory = Put(kept, r, new)
      BY <2>7
    <3> HIDE DEF kept
    <3>3. QED BY <2>2, <2>4, <3>1, <3>2 DEF Put
  <2>9. Others(r)
    BY <2>1, ReplyFields DEF Base, Ended
  <2>10. \A m \in DOMAIN db'.memory : MemoryRow(m)'
    <3>1. MemoryRow(r)'
      BY <2>3, <2>8 DEF MemoryRow
    <3>2. ASSUME NEW m \in DOMAIN db.memory, m = On(r) PROVE MemoryRow(m)'
      <4>1. On(r)' = On(r)
        BY <2>1, ReplyFields DEF Base, Ended, On
      <4>2. db'.memory[m] = old
        BY <2>8, <3>2
      <4>3. QED BY <2>5, <2>6, <2>8, <3>2, <4>1, <4>2, RegistriesAssumption DEF MemoryRow
    <3>3. ASSUME NEW m \in DOMAIN db.memory, m # On(r) PROVE MemoryRow(m)'
      <4>1. MemoryRow(m)
        BY DEF MemoryInv
      <4>2. db.memory[m].by # Null => db.memory[m].by \in Requests /\ db.memory[m].by # r
        BY <2>2, <4>1 DEF MemoryRow, MemRows
      <4>3. QED BY <2>8, <2>9, <3>3, <4>1, <4>2 DEF MemoryRow, Others, On
    <3>4. QED BY <2>8, <3>1, <3>2, <3>3
  <2>11. QED
    BY <1>1, <2>1, <2>2, <2>4, <2>5, <2>6, <2>7, <2>8, <2>10, MemoryWrites
<1>4. QED BY <1>2, <1>3

LEMMA MemoryForgotten ==
    ASSUME Base, MemoryInv, area = "memory", NEW r \in Requests, Forget(r)
    PROVE  MemoryInv'
<1> DEFINE row == [Seen(r) EXCEPT !.life = "forgotten", !.text = Null]
<1>1. /\ Op(r) = "forget" /\ req[r].pc = "apply" /\ Reply(r, "ok", On(r), {})
      /\ db' = [db EXCEPT !.memory = Put(db.memory, On(r), row), !.ledger = Ledger(r, On(r))]
  BY DEF Forget, At, Done
<1>2. r \notin DOMAIN db.memory
  BY <1>1, Unanswered
<1>3. /\ On(r) \in DOMAIN db.memory /\ Seen(r) = db.memory[On(r)]
      /\ <<"memory", On(r)>> \in req[r].locks /\ MemoryRow(On(r))
  BY <1>1 DEF MemoryInv, MemoryHeld
<1>4. row \in MemRows /\ row.life = "forgotten" /\ row.text = Null /\ row.by = Seen(r).by
  BY <1>3 DEF MemoryRow, MemRows
<1> HIDE DEF row
<1>5. db'.ledger = Ledger(r, On(r)) /\ db'.memory = Put(db.memory, On(r), row)
  BY <1>1 DEF Base, Shape, DbFields
<1>6. /\ DOMAIN db'.memory = DOMAIN db.memory /\ db'.memory[On(r)] = row
      /\ \A m \in DOMAIN db.memory : m # On(r) => db'.memory[m] = db.memory[m]
  BY <1>3, <1>5 DEF Put
<1>7. \A m \in DOMAIN db'.memory : MemoryRow(m)'
  <2>1. ASSUME NEW m \in DOMAIN db.memory PROVE MemoryRow(m)'
    <3>1. MemoryRow(m)
      BY DEF MemoryInv
    <3>2. db.memory[m].by # Null => db.memory[m].by \in Requests /\ db.memory[m].by # r
      BY <1>2, <3>1 DEF MemoryRow, MemRows
    <3>0. Others(r)
      BY <1>1, ReplyFields DEF Base, Ended
    <3>3. CASE m # On(r)
      BY <1>6, <3>0, <3>1, <3>2, <3>3 DEF MemoryRow, Others, On
    <3>4. CASE m = On(r)
      <4>1. db'.memory[m] = row /\ row.by = db.memory[m].by
        BY <1>3, <1>4, <1>6, <3>4
      <4>2. QED BY <1>4, <1>6, <3>0, <3>1, <3>2, <4>1 DEF MemoryRow, Others, On
    <3>5. QED BY <3>3, <3>4
  <2>2. QED BY <1>6, <2>1
<1>8. QED
  BY <1>1, <1>2, <1>3, <1>4, <1>5, <1>6, <1>7, MemoryWrites

\* What the areas other than memory find in its tables.
MemoryUntouched ==
    /\ DOMAIN db.memory = {"memory"} /\ DOMAIN db.ledger = {}
    /\ db.memory["memory"].life = "active" /\ db.memory["memory"].by = Null
    /\ db.memory["memory"].text # Null
    /\ \A r \in Requests : req[r].out.code # "internal"

MemoryPart == IF area = "memory" THEN MemoryInv ELSE MemoryUntouched

LEMMA MemoryKeeps ==
    ASSUME Base, MemoryInv, area = "memory", Next
    PROVE  MemoryInv'
<1>1. area' = area /\ (Beside \/ \E r \in Requests : StepOf(r))
  BY NextCases
<1>2. CASE Beside
  <2>1. UNCHANGED req /\ db' = db
    BY <1>2 DEF Beside, Retire, ForgetSource, Merge, Project, registries
  <2>2. \A r \in Requests : (/\ MemoryHeld(r) /\ KeyHeld(r) /\ Fresh(r) /\ GoneErased(r) /\ Agrees(r))'
    BY <2>1 DEF MemoryInv, MemoryHeld, KeyHeld, Fresh, GoneErased, Erased, Agrees, Digest, Op, Key, On, Text, Seen
  <2>3. \A m \in DOMAIN db.memory : MemoryRow(m)' /\ (m \in Requests => Creator(m)')
    BY <2>1 DEF MemoryInv, MemoryRow, Creator, Op, Key, On
  <2>4. \A key \in DOMAIN db.ledger : LedgerRow(key)'
    BY <2>1 DEF MemoryInv, LedgerRow, Digest, Op, Key, On, Text
  <2>5. QED BY <2>1, <2>2, <2>3, <2>4 DEF MemoryInv
<1>3. CASE \E r \in Requests : StepOf(r)
  <2>1. PICK r \in Requests : Common(r) \/ Memory(r) \/ Begin(r, MemoryAsks, Erased)
    BY <1>3 DEF StepOf
  <2>2. QED
    BY <2>1, MemoryReads, MemoryBegins, MemoryCreated, MemorySuperseded, MemoryForgotten DEF Memory
<1>4. QED BY <1>1, <1>2, <1>3

\* In memory nothing erased is shown: what had been erased stays erased.
LEMMA MemoryShowsLive ==
    ASSUME Base, MemoryInv, area = "memory", NEW r \in Requests, StepOf(r),
           req[r].out.stale = {}
    PROVE  req'[r].out.stale = {}
<1>1. req[r].gone \subseteq Erased
  BY DEF MemoryInv, GoneErased
<1>2. ASSUME NEW pc, NEW seen, NEW locks, Go(r, pc, seen, locks) PROVE req'[r].out.stale = {}
  BY <1>2, GoFields DEF Base, Went
<1>3. ASSUME NEW code, NEW id, NEW shown, Reply(r, code, id, shown), shown \cap Erased = {}
      PROVE  req'[r].out.stale = {}
  <2>1. req'[r].out = [code |-> code, id |-> id, stale |-> shown \cap req[r].gone]
    BY <1>3, ReplyFields DEF Base, Ended
  <2>2. QED BY <1>1, <1>3, <2>1
<1>4. ASSUME NEW id, Hydrate(r, id) PROVE req'[r].out.stale = {}
  <2>1. ASSUME NEW ids PROVE Shown(ids) \cap Erased = {}
    BY DEF Shown, Erased
  <2>2. CASE \E ids : Reply(r, "ok", id, Shown(ids))
    BY <1>3, <2>1, <2>2
  <2>3. CASE Reply(r, "internal", Null, {})
    BY <1>3, <2>3
  <2>4. QED BY <1>4, <2>2, <2>3 DEF Hydrate, Refuse
<1>5. ASSUME Replay(r) PROVE req'[r].out.stale = {}
  BY <1>3, <1>4, <1>5 DEF Replay, Refuse
<1>6. CASE Begin(r, MemoryAsks, Erased)
  BY <1>6, BeginFields DEF Base, Began, Idle
<1>7. CASE Common(r)
  BY <1>2, <1>3, <1>7 DEF Common, Embed, LockRow, Abort, Refuse
<1>8. CASE PreCheck(r)
  BY <1>2, <1>5, <1>8 DEF PreCheck
<1>9. CASE ClaimKey(r)
  BY <1>2, <1>5, <1>9 DEF ClaimKey
<1>10. CASE CreateMemory(r) \/ Supersede(r) \/ Forget(r)
  BY <1>3, <1>10 DEF CreateMemory, Supersede, Forget, Done, Refuse
<1>11. CASE GetMemory(r)
  BY <1>3, <1>4, <1>11 DEF GetMemory, Refuse
<1>12. CASE TypedRecall(r)
  <2>1. PICK hits : Reply(r, "ok", Null, Shown(hits))
    BY <1>12 DEF TypedRecall
  <2>2. Shown(hits) \cap Erased = {}
    BY DEF Shown, Erased
  <2>3. QED BY <1>3, <2>1, <2>2
<1>13. QED
  BY <1>6, <1>7, <1>8, <1>9, <1>10, <1>11, <1>12 DEF StepOf, Memory

LEMMA UntouchedKeeps ==
    ASSUME Base, MemoryUntouched, area # "memory", Next
    PROVE  MemoryUntouched'
<1>1. db'.memory = db.memory /\ db'.ledger = db.ledger
  BY Frame
<1>2. \A r \in Requests : req'[r].out.code # "internal"
  <2>1. CASE Beside
    BY <2>1 DEF Beside, Retire, ForgetSource, Merge, Project, registries, MemoryUntouched
  <2>2. CASE \E r \in Requests : StepOf(r)
    <3>1. PICK r \in Requests : StepOf(r)
      BY <2>2
    <3>2. CASE Steps(r)
      <4>0. AskedOf(r)
        BY <3>2 DEF Steps, Base, Asked, Idle
      <4>1. Op(r) \notin MemoryOps
        BY <4>0 DEF AskedOf, SessionAsked, SkillAsked, MemoryOps, SessionOps, SkillOps,
                    AgentOps, DatasetOps, KnowledgeOps
      <4>2. CASE Goes(r)
        BY <4>2, GoFields DEF Goes, Base, Went, Others, MemoryUntouched
      <4>3. CASE Replies(r)
        <5>1. PICK code, id, shown : Reply(r, code, id, shown) /\ (code = "internal" => Op(r) \in MemoryOps)
          BY <4>3 DEF Replies
        <5> Ended(r, code, id, shown)
          BY <5>1, ReplyFields DEF Base
        <5>2. Others(r) /\ req'[r].out.code = code
          BY DEF Ended
        <5>3. QED BY <4>1, <5>1, <5>2 DEF Others, MemoryUntouched
      <4>4. QED BY <3>2, <4>2, <4>3 DEF Steps
    <3>3. ASSUME NEW asks, NEW gone, Begin(r, asks, gone)
          PROVE  \A q \in Requests : req'[q].out.code # "internal"
      BY <3>3, BeginFields DEF Base, Began, Others, MemoryUntouched, Idle
    <3>4. QED
      BY <3>1, <3>2, <3>3, CommonSteps, SessionSteps, SkillSteps, AgentSteps, DatasetSteps,
         RecallSteps, GraphSteps, ProvenanceSteps DEF StepOf, Common, Readers
  <2>3. QED BY <2>1, <2>2, NextCases
<1>3. QED BY <1>1, <1>2 DEF MemoryUntouched

-----------------------------------------------------------------------------
(* Sessions *)

LEMMA AppendToSet ==
    ASSUME NEW S, NEW seq \in Seq(S), NEW e \in S
    PROVE  ToSet(Append(seq, e)) = ToSet(seq) \cup {e}
<1> DEFINE longer == Append(seq, e)
<1>1. Len(seq) \in Nat /\ DOMAIN seq = 1..Len(seq) /\ DOMAIN longer = 1..(Len(seq) + 1)
  OBVIOUS
<1>2. longer[Len(seq) + 1] = e /\ \A i \in 1..Len(seq) : longer[i] = seq[i]
  OBVIOUS
<1> HIDE DEF longer
<1>3. ToSet(longer) = ToSet(seq) \cup {e}
  <2>1. \A x \in ToSet(longer) : x \in ToSet(seq) \cup {e}
    BY <1>1, <1>2 DEF ToSet
  <2>2. \A x \in ToSet(seq) \cup {e} : x \in ToSet(longer)
    BY <1>1, <1>2 DEF ToSet
  <2>3. QED BY <2>1, <2>2
<1>4. QED BY <1>3 DEF longer

\* A request at its write has locked the session and knows its row.
SessionHeld(r) ==
    req[r].pc = "apply" =>
      /\ <<"session", On(r)>> \in req[r].locks
      /\ On(r) \in DOMAIN db.session /\ Seen(r) = db.session[On(r)]

EntryRows == [id : Requests, key : Keys \cup {Null}, text : Texts]
SessionRows == [archived : BOOLEAN, entries : Seq(EntryRows)]
UniqueKeys(x) ==
    \A e, f \in ToSet(x.entries) : e.key = f.key /\ e.key # Null => e = f
SessionsOK == \A s \in DOMAIN db.session : db.session[s] \in SessionRows /\ UniqueKeys(db.session[s])
SessionPart ==
    SessionsOK /\ (area = "session" => \A r \in Requests : SessionHeld(r))

\* What ArchiveFreezes says of a step.
Freezes ==
    \A s \in DOMAIN db.session :
      db.session[s].archived => db'.session[s].entries = db.session[s].entries

LEMMA SessionAside ==
    ASSUME Base, SessionPart, area = "session", area' = area, NEW r \in Requests,
           Others(r), db'.session = db.session, SessionHeld(r)'
    PROVE  SessionPart' /\ Freezes
<1>1. \A q \in Requests \ {r} : SessionHeld(q)'
  BY DEF SessionPart, SessionHeld, Others, On, Seen
<1>2. QED BY <1>1 DEF SessionPart, SessionsOK, Freezes

LEMMA SessionGoes ==
    ASSUME Base, SessionPart, area = "session", area' = area, NEW r \in Requests, db' = db,
           NEW pc, NEW seen, NEW locks, Go(r, pc, seen, locks),
           pc = "apply" => /\ <<"session", On(r)>> \in locks
                           /\ On(r) \in DOMAIN db.session /\ seen = db.session[On(r)]
    PROVE  SessionPart' /\ Freezes
<1>1. Went(r, pc, seen, locks)
  BY GoFields DEF Base
<1>2. SessionHeld(r)'
  BY <1>1 DEF Went, SessionHeld, On, Seen
<1>3. QED BY <1>1, <1>2, SessionAside DEF Went

LEMMA SessionReplies ==
    ASSUME Base, SessionPart, area = "session", area' = area, NEW r \in Requests, db' = db,
           NEW code, NEW id, NEW shown, Reply(r, code, id, shown)
    PROVE  SessionPart' /\ Freezes
<1>1. Ended(r, code, id, shown)
  BY ReplyFields DEF Base
<1>2. SessionHeld(r)'
  BY <1>1 DEF Ended, SessionHeld
<1>3. QED BY <1>1, <1>2, SessionAside DEF Ended

\* A new session.
LEMMA SessionAdds ==
    ASSUME Base, SessionPart, area = "session", area' = area, NEW r \in Requests,
           On(r) \notin DOMAIN db.session, Done(r, On(r)),
           db' = [db EXCEPT !.session = Put(@, On(r), NewSession)]
    PROVE  SessionPart' /\ Freezes
<1>1. Ended(r, "ok", On(r), {})
  BY ReplyFields DEF Base, Done
<1>2. db'.session = Put(db.session, On(r), NewSession)
  BY DEF Base, Shape, DbFields
<1>3. /\ DOMAIN db'.session = DOMAIN db.session \cup {On(r)}
      /\ db'.session[On(r)] = NewSession
      /\ \A s \in DOMAIN db.session : db'.session[s] = db.session[s]
  BY <1>2 DEF Put
<1>4. NewSession \in SessionRows /\ UniqueKeys(NewSession)
  BY DEF NewSession, SessionRows, UniqueKeys, ToSet
<1>5. SessionsOK'
  BY <1>3, <1>4 DEF SessionPart, SessionsOK, UniqueKeys
<1>6. \A q \in Requests : SessionHeld(q)'
  BY <1>1, <1>3 DEF SessionPart, SessionHeld, Ended, Others, On, Seen
<1>7. QED BY <1>3, <1>5, <1>6 DEF SessionPart, Freezes

\* A write of the row r has locked.
LEMMA SessionWrites ==
    ASSUME Base, SessionPart, area = "session", area' = area, NEW r \in Requests, NEW id,
           req[r].pc = "apply", Reply(r, "ok", id, {}), NEW row \in SessionRows,
           UniqueKeys(row), Seen(r).archived => row.entries = Seen(r).entries,
           db'.session = [db.session EXCEPT ![On(r)] = row]
    PROVE  SessionPart' /\ Freezes
<1>1. Ended(r, "ok", id, {})
  BY ReplyFields DEF Base
<1>2. SessionHeld(r)
  BY DEF SessionPart
<1>3. /\ DOMAIN db'.session = DOMAIN db.session /\ db'.session[On(r)] = row
      /\ \A s \in DOMAIN db.session : s # On(r) => db'.session[s] = db.session[s]
  BY <1>2 DEF SessionHeld
<1>4. SessionsOK'
  BY <1>3 DEF SessionPart, SessionsOK, UniqueKeys
<1>5. \A q \in Requests : SessionHeld(q)'
  <2>1. SessionHeld(r)'
    BY <1>1 DEF Ended, SessionHeld
  <2>2. ASSUME NEW q \in Requests \ {r} PROVE SessionHeld(q)'
    <3>1. SessionHeld(q)
      BY DEF SessionPart
    <3>2. req[q].pc = "apply" => On(q) # On(r)
      <4>1. <<"session", On(q)>> # <<"key", Null>>
        OBVIOUS
      <4>2. QED BY <1>2, <3>1, <4>1 DEF Base, Exclusive, SessionHeld
    <3>3. QED BY <1>1, <1>3, <3>1, <3>2 DEF SessionHeld, Ended, Others, On, Seen
  <2>3. QED BY <2>1, <2>2
<1>6. Freezes
  BY <1>2, <1>3 DEF Freezes, SessionHeld
<1>7. QED BY <1>4, <1>5, <1>6 DEF SessionPart

LEMMA SessionStepKeeps ==
    ASSUME Base, SessionPart, area = "session", area' = area, NEW r \in Requests, StepOf(r)
    PROVE  SessionPart' /\ Freezes
<1>1. CASE Begin(r, SessionAsks, {})
  <2>1. Began(r, SessionAsks, {}) /\ db' = db
    BY <1>1, BeginFields DEF Base
  <2>2. SessionHeld(r)'
    BY <2>1, FirstStep DEF Began, SessionHeld
  <2>3. QED BY <2>1, <2>2, SessionAside DEF Began
<1>2. CASE Embed(r)
  <2>1. AfterEmbedding(Op(r)) # "apply"
    BY DEF AfterEmbedding
  <2>2. QED BY <1>2, <2>1, SessionGoes, SessionReplies DEF Embed, Refuse
<1>3. CASE LockRow(r)
  <2>1. CASE On(r) \notin DOMAIN db[area]
    BY <1>3, <2>1, SessionReplies DEF LockRow, Refuse
  <2>2. CASE On(r) \in DOMAIN db[area]
    <3>1. Go(r, "apply", db.session[On(r)], {<<"session", On(r)>>}) /\ db' = db
      BY <1>3, <2>2 DEF LockRow
    <3>2. QED BY <2>2, <3>1, SessionGoes
  <2>3. QED BY <2>1, <2>2
<1>4. CASE Abort(r)
  BY <1>4, SessionReplies DEF Abort, Refuse
<1>5. CASE CreateSession(r)
  BY <1>5, SessionReplies, SessionAdds DEF CreateSession, Refuse
<1>6. CASE ArchiveSession(r) \/ RestoreSession(r)
  <2>1. PICK archived \in BOOLEAN :
          /\ req[r].pc = "apply" /\ Reply(r, "ok", On(r), {})
          /\ db' = [db EXCEPT !.session[On(r)] = [Seen(r) EXCEPT !.archived = archived]]
    BY <1>6 DEF ArchiveSession, RestoreSession, At, Done
  <2> DEFINE row == [Seen(r) EXCEPT !.archived = archived]
  <2>2. /\ Seen(r) \in SessionRows /\ UniqueKeys(Seen(r)) /\ On(r) \in DOMAIN db.session
    BY <2>1 DEF SessionPart, SessionHeld, SessionsOK
  <2>3. row \in SessionRows /\ row.entries = Seen(r).entries
    BY <2>2 DEF SessionRows
  <2>4. db'.session = [db.session EXCEPT ![On(r)] = row]
    BY <2>1 DEF Base, Shape, DbFields
  <2> HIDE DEF row
  <2>5. UniqueKeys(row)
    BY <2>2, <2>3 DEF UniqueKeys
  <2>6. QED BY <2>1, <2>3, <2>4, <2>5, SessionWrites
<1>7. CASE AppendEntry(r)
  <2> DEFINE same == {e \in ToSet(Seen(r).entries) : Key(r) # Null /\ e.key = Key(r)}
             entry == [id |-> r, key |-> Key(r), text |-> Text(r)]
  <2>1. req[r].pc = "apply" /\ Op(r) = "append"
    BY <1>7 DEF AppendEntry, At
  <2>2. CASE same # {} \/ Seen(r).archived
    BY <1>7, <2>2, SessionReplies DEF AppendEntry, Refuse, Done
  <2>3. CASE same = {} /\ ~Seen(r).archived
    <3>1. /\ db' = [db EXCEPT !.session[On(r)].entries = Append(@, entry)]
          /\ Reply(r, "ok", r, {})
      BY <1>7, <2>3 DEF AppendEntry, Done
    <3>2. /\ Seen(r) \in SessionRows /\ UniqueKeys(Seen(r)) /\ On(r) \in DOMAIN db.session
          /\ Seen(r) = db.session[On(r)]
      BY <2>1 DEF SessionPart, SessionHeld, SessionsOK
    <3>3. entry \in EntryRows /\ entry.key = Key(r)
      <4>1. AskedOf(r)
        BY <2>1 DEF Base, Asked, Idle
      <4>2. QED BY <2>1, <4>1 DEF AskedOf, SessionAsked, EntryRows
    <3>4. \A e \in ToSet(Seen(r).entries) : Key(r) # Null => e.key # Key(r)
      BY <2>3
    <3> HIDE DEF entry, same
    <3> DEFINE row == [Seen(r) EXCEPT !.entries = Append(Seen(r).entries, entry)]
    <3>5. db'.session = [db.session EXCEPT ![On(r)] = row]
      <4>1. db'.session = [db.session EXCEPT ![On(r)] =
                             [db.session[On(r)] EXCEPT !.entries = Append(db.session[On(r)].entries, entry)]]
        BY <3>1 DEF Base, Shape, DbFields
      <4>2. QED BY <3>2, <4>1
    <3>6. row \in SessionRows /\ row.entries = Append(Seen(r).entries, entry)
      <4> DEFINE longer == Append(Seen(r).entries, entry)
      <4>1. Seen(r).entries \in Seq(EntryRows)
        BY <3>2 DEF SessionRows
      <4>2. longer \in Seq(EntryRows)
        BY <3>3, <4>1
      <4> HIDE DEF longer
      <4>3. QED BY <3>2, <4>2 DEF SessionRows, longer
    <3> HIDE DEF row
    <3>7. ToSet(row.entries) = ToSet(Seen(r).entries) \cup {entry}
      BY <3>2, <3>6, AppendToSet DEF SessionRows
    <3>8. UniqueKeys(row)
      BY <3>2, <3>3, <3>4, <3>7 DEF UniqueKeys
    <3>9. QED BY <2>1, <2>3, <3>1, <3>5, <3>6, <3>8, SessionWrites
  <2>4. QED BY <2>2, <2>3
<1>8. CASE AdmitSession(r)
  BY <1>8, SessionGoes, SessionAdds DEF AdmitSession
<1>9. CASE AdmitLocked(r)
  BY <1>9, SessionReplies DEF AdmitLocked, Refuse, Done
<1>10. QED
  BY <1>1, <1>2, <1>3, <1>4, <1>5, <1>6, <1>7, <1>8, <1>9 DEF StepOf, Common, Session

LEMMA SessionKeeps ==
    ASSUME Base, SessionPart, Next
    PROVE  SessionPart' /\ Freezes
<1>1. CASE area = "session"
  <2>1. CASE Beside
    BY <1>1, <2>1 DEF Beside, Retire, ForgetSource, Merge, Project, registries, SessionPart,
       SessionsOK, SessionHeld, UniqueKeys, On, Seen, Freezes
  <2>2. CASE \E r \in Requests : StepOf(r)
    BY <1>1, <2>2, SessionStepKeeps, NextCases
  <2>3. QED BY <2>1, <2>2, NextCases
<1>2. CASE area # "session"
  BY <1>2, Frame, NextCases DEF SessionPart, SessionsOK, UniqueKeys, Freezes
<1>3. QED BY <1>1, <1>2

-----------------------------------------------------------------------------
(* Skills, their revisions and pins *)

LEMMA PrefixOfItself ==
    ASSUME NEW S, NEW seq \in Seq(S)
    PROVE  IsPrefix(seq, seq)
BY DEF IsPrefix

LEMMA PrefixOfLonger ==
    ASSUME NEW S, NEW seq \in Seq(S), NEW e \in S
    PROVE  IsPrefix(seq, Append(seq, e))
<1> DEFINE longer == Append(seq, e)
<1>1. longer \in Seq(S) /\ Len(longer) = Len(seq) + 1 /\ Len(seq) \in Nat
  OBVIOUS
<1>2. \A i \in 1..Len(seq) : longer[i] = seq[i]
  OBVIOUS
<1> HIDE DEF longer
<1>3. SubSeq(longer, 1, Len(seq)) = SubSeq(seq, 1, Len(seq))
  BY <1>1, <1>2
<1>4. IsPrefix(seq, longer)
  BY <1>1, <1>3 DEF IsPrefix
<1>5. QED BY <1>4 DEF longer

LEMMA LongerInjective ==
    ASSUME NEW S, NEW seq \in Seq(S), NEW e \in S, IsInjective(seq), e \notin ToSet(seq)
    PROVE  IsInjective(Append(seq, e))
<1> DEFINE longer == Append(seq, e)
<1>1. Len(seq) \in Nat /\ DOMAIN seq = 1..Len(seq) /\ DOMAIN longer = 1..(Len(seq) + 1)
  OBVIOUS
<1>2. longer[Len(seq) + 1] = e /\ \A i \in 1..Len(seq) : longer[i] = seq[i]
  OBVIOUS
<1>3. \A i \in 1..Len(seq) : seq[i] # e
  BY <1>1 DEF ToSet
<1> HIDE DEF longer
<1>4. ASSUME NEW i \in DOMAIN longer, NEW j \in DOMAIN longer, longer[i] = longer[j]
      PROVE  i = j
  <2>1. CASE i \in 1..Len(seq) /\ j \in 1..Len(seq)
    BY <1>1, <1>2, <1>4, <2>1 DEF IsInjective
  <2>2. CASE ~(i \in 1..Len(seq) /\ j \in 1..Len(seq))
    BY <1>1, <1>2, <1>3, <1>4, <2>2
  <2>3. QED BY <2>1, <2>2
<1>5. IsInjective(longer)
  BY <1>4 DEF IsInjective
<1>6. QED BY <1>5 DEF longer

\* A request at its write has locked the skill and knows its row.
SkillHeld(r) ==
    req[r].pc = "apply" =>
      /\ <<"skill", On(r)>> \in req[r].locks
      /\ On(r) \in DOMAIN db.skill /\ Seen(r) = db.skill[On(r)]

SkillRows == [archived : BOOLEAN, revisions : Seq(Texts), current : Nat]
SkillsOK ==
    \A s \in DOMAIN db.skill : db.skill[s] \in SkillRows /\ IsInjective(db.skill[s].revisions)
PinsOK ==
    \A p \in DOMAIN db.pin :
      p[2] \in DOMAIN db.skill /\ db.pin[p] \in 0..Len(db.skill[p[2]].revisions)
SkillPart ==
    SkillsOK /\ PinsOK /\ (area = "skill" => \A r \in Requests : SkillHeld(r))

\* What RevisionsAreHistory says of a step.
Reselects(s) ==
    LET old == db.skill[s]
        new == db'.skill[s]
    IN  new.current # old.current =>
          \/ new.current = Len(new.revisions) /\ new.current > Len(old.revisions)
          \/ Selecting(s, new.current)
History ==
    /\ \A s \in DOMAIN db.skill :
         IsPrefix(db.skill[s].revisions, db'.skill[s].revisions) /\ Reselects(s)

LEMMA SkillStays ==
    ASSUME SkillPart, NEW s \in DOMAIN db.skill, db'.skill[s] = db.skill[s]
    PROVE  IsPrefix(db.skill[s].revisions, db'.skill[s].revisions) /\ Reselects(s)
<1>1. db.skill[s].revisions \in Seq(Texts)
  BY DEF SkillPart, SkillsOK, SkillRows
<1>2. QED BY <1>1, PrefixOfItself DEF Reselects

LEMMA SkillAside ==
    ASSUME Base, SkillPart, area = "skill", area' = area, NEW r \in Requests,
           Others(r), db'.skill = db.skill, db'.pin = db.pin, SkillHeld(r)'
    PROVE  SkillPart' /\ History
<1>1. \A q \in Requests \ {r} : SkillHeld(q)'
  BY DEF SkillPart, SkillHeld, Others, On, Seen
<1>2. SkillPart'
  BY <1>1 DEF SkillPart, SkillsOK, PinsOK
<1>3. QED BY <1>2, SkillStays DEF History

LEMMA SkillGoes ==
    ASSUME Base, SkillPart, area = "skill", area' = area, NEW r \in Requests,
           db'.skill = db.skill, db'.pin = db.pin,
           NEW pc, NEW seen, NEW locks, Go(r, pc, seen, locks),
           pc = "apply" => /\ <<"skill", On(r)>> \in locks
                           /\ On(r) \in DOMAIN db.skill /\ seen = db.skill[On(r)]
    PROVE  SkillPart' /\ History
<1>1. Went(r, pc, seen, locks)
  BY GoFields DEF Base
<1>2. SkillHeld(r)'
  BY <1>1 DEF Went, SkillHeld, On, Seen
<1>3. QED BY <1>1, <1>2, SkillAside DEF Went

LEMMA SkillReplies ==
    ASSUME Base, SkillPart, area = "skill", area' = area, NEW r \in Requests,
           db'.skill = db.skill, db'.pin = db.pin,
           NEW code, NEW id, NEW shown, Reply(r, code, id, shown)
    PROVE  SkillPart' /\ History
<1>1. Ended(r, code, id, shown)
  BY ReplyFields DEF Base
<1>2. SkillHeld(r)'
  BY <1>1 DEF Ended, SkillHeld
<1>3. QED BY <1>1, <1>2, SkillAside DEF Ended

\* A write of the row r has locked.
LEMMA SkillWrites ==
    ASSUME Base, SkillPart, area = "skill", area' = area, NEW r \in Requests, NEW id,
           req[r].pc = "apply", Reply(r, "ok", id, {}), NEW row \in SkillRows,
           IsInjective(row.revisions), IsPrefix(Seen(r).revisions, row.revisions),
           row.current # Seen(r).current =>
             \/ row.current = Len(row.revisions) /\ row.current > Len(Seen(r).revisions)
             \/ Op(r) = "select" /\ row.current = Key(r),
           db'.skill = [db.skill EXCEPT ![On(r)] = row], db'.pin = db.pin
    PROVE  SkillPart' /\ History
<1>1. Ended(r, "ok", id, {})
  BY ReplyFields DEF Base
<1>2. /\ <<"skill", On(r)>> \in req[r].locks
      /\ On(r) \in DOMAIN db.skill /\ Seen(r) = db.skill[On(r)] /\ Seen(r) \in SkillRows
  BY DEF SkillPart, SkillHeld, SkillsOK
<1>3. /\ DOMAIN db'.skill = DOMAIN db.skill /\ db'.skill[On(r)] = row
      /\ \A s \in DOMAIN db.skill : s # On(r) => db'.skill[s] = db.skill[s]
  BY <1>2
<1>4. SkillsOK'
  BY <1>3 DEF SkillPart, SkillsOK
<1>5. PinsOK'
  <2>1. Len(Seen(r).revisions) <= Len(row.revisions)
    BY DEF IsPrefix
  <2>2. Len(Seen(r).revisions) \in Nat /\ Len(row.revisions) \in Nat
    BY <1>2 DEF SkillRows
  <2>3. ASSUME NEW p \in DOMAIN db.pin
        PROVE  p[2] \in DOMAIN db'.skill /\ db.pin[p] \in 0..Len(db'.skill[p[2]].revisions)
    <3>1. p[2] \in DOMAIN db.skill /\ db.pin[p] \in 0..Len(db.skill[p[2]].revisions)
      BY DEF SkillPart, PinsOK
    <3>2. CASE p[2] = On(r)
      BY <1>2, <1>3, <2>1, <2>2, <3>1, <3>2
    <3>3. CASE p[2] # On(r)
      BY <1>3, <3>1, <3>3
    <3>4. QED BY <3>2, <3>3
  <2>4. QED BY <2>3 DEF PinsOK
<1>6. \A q \in Requests : SkillHeld(q)'
  <2>1. SkillHeld(r)'
    BY <1>1 DEF Ended, SkillHeld
  <2>2. ASSUME NEW q \in Requests \ {r} PROVE SkillHeld(q)'
    <3>1. SkillHeld(q)
      BY DEF SkillPart
    <3>2. req[q].pc = "apply" => On(q) # On(r)
      <4>1. <<"skill", On(q)>> # <<"key", Null>>
        OBVIOUS
      <4>2. QED BY <1>2, <3>1, <4>1 DEF Base, Exclusive, SkillHeld
    <3>3. QED BY <1>1, <1>3, <3>1, <3>2 DEF SkillHeld, Ended, Others, On, Seen
  <2>3. QED BY <2>1, <2>2
<1>7. History
  <2>1. ASSUME NEW s \in DOMAIN db.skill
        PROVE  IsPrefix(db.skill[s].revisions, db'.skill[s].revisions) /\ Reselects(s)
    <3>1. CASE s # On(r)
      BY <1>3, <3>1, SkillStays
    <3>2. CASE s = On(r)
      <4>1. Op(r) = "select" => Selecting(On(r), Key(r))
        BY <1>1 DEF Selecting, Ended
      <4>2. QED BY <1>2, <1>3, <3>2, <4>1 DEF Reselects
    <3>3. QED BY <3>1, <3>2
  <2>2. QED BY <2>1 DEF History
<1>8. QED BY <1>4, <1>5, <1>6, <1>7 DEF SkillPart
LEMMA SkillStepKeeps ==
    ASSUME Base, SkillPart, area = "skill", area' = area, NEW r \in Requests, StepOf(r)
    PROVE  SkillPart' /\ History
<1>1. CASE Begin(r, SkillAsks, {})
  <2>1. Began(r, SkillAsks, {}) /\ db' = db
    BY <1>1, BeginFields DEF Base
  <2>2. SkillHeld(r)'
    BY <2>1, FirstStep DEF Began, SkillHeld
  <2>3. QED BY <2>1, <2>2, SkillAside DEF Began
<1>2. CASE Embed(r)
  <2>1. AfterEmbedding(Op(r)) # "apply"
    BY DEF AfterEmbedding
  <2>2. QED BY <1>2, <2>1, SkillGoes, SkillReplies DEF Embed, Refuse
<1>3. CASE LockRow(r)
  <2>1. CASE On(r) \notin DOMAIN db[area]
    BY <1>3, <2>1, SkillReplies DEF LockRow, Refuse
  <2>2. CASE On(r) \in DOMAIN db[area]
    <3>1. Go(r, "apply", db.skill[On(r)], {<<"skill", On(r)>>}) /\ db' = db
      BY <1>3, <2>2 DEF LockRow
    <3>2. QED BY <2>2, <3>1, SkillGoes
  <2>3. QED BY <2>1, <2>2
<1>4. CASE Abort(r)
  BY <1>4, SkillReplies DEF Abort, Refuse
<1>5. CASE CreateSkill(r)
  <2>1. CASE On(r) \in DOMAIN db.skill
    BY <1>5, <2>1, SkillReplies DEF CreateSkill, Refuse
  <2>2. CASE On(r) \notin DOMAIN db.skill
    <3> DEFINE row == NewSkill(Text(r))
    <3>1. db' = [db EXCEPT !.skill = Put(@, On(r), row)] /\ Reply(r, "ok", On(r), {})
      BY <1>5, <2>2 DEF CreateSkill, Done
    <3>2. Ended(r, "ok", On(r), {})
      BY <3>1, ReplyFields DEF Base
    <3>3. row \in SkillRows /\ IsInjective(row.revisions)
      <4>1. req[r].pc = "insert" /\ Op(r) = "create_skill"
        BY <1>5 DEF CreateSkill, At
      <4>2. AskedOf(r)
        BY <4>1 DEF Base, Asked, Idle
      <4>3. Text(r) \in Texts
        BY <4>1, <4>2 DEF AskedOf, SkillAsked
      <4>4. <<Text(r)>> \in Seq(Texts) /\ IsInjective(<<Text(r)>>)
        BY <4>3 DEF IsInjective
      <4>5. QED BY <4>4 DEF SkillRows, NewSkill
    <3> HIDE DEF row
    <3>4. db'.skill = Put(db.skill, On(r), row) /\ db'.pin = db.pin
      BY <3>1 DEF Base, Shape, DbFields
    <3>5. /\ DOMAIN db'.skill = DOMAIN db.skill \cup {On(r)} /\ db'.skill[On(r)] = row
          /\ \A s \in DOMAIN db.skill : db'.skill[s] = db.skill[s]
      BY <2>2, <3>4 DEF Put
    <3>6. SkillsOK'
      BY <3>3, <3>5 DEF SkillPart, SkillsOK
    <3>7. PinsOK'
      BY <3>4, <3>5 DEF SkillPart, PinsOK
    <3>8. \A q \in Requests : SkillHeld(q)'
      BY <3>2, <3>5 DEF SkillPart, SkillHeld, Ended, Others, On, Seen
    <3>9. QED BY <3>5, <3>6, <3>7, <3>8, SkillStays DEF SkillPart, History
  <2>3. QED BY <2>1, <2>2
<1>6. CASE ReadName(r)
  BY <1>6, SkillGoes, SkillReplies DEF ReadName, Refuse
<1>7. ASSUME req[r].pc = "apply"
      PROVE  /\ On(r) \in DOMAIN db.skill /\ Seen(r) = db.skill[On(r)]
             /\ Seen(r) \in SkillRows /\ IsInjective(Seen(r).revisions)
             /\ Seen(r).revisions \in Seq(Texts) /\ Len(Seen(r).revisions) \in Nat
  <2>1. On(r) \in DOMAIN db.skill /\ Seen(r) = db.skill[On(r)]
    BY <1>7 DEF SkillPart, SkillHeld
  <2>2. Seen(r) \in SkillRows /\ IsInjective(Seen(r).revisions)
    BY <2>1 DEF SkillPart, SkillsOK
  <2>3. Seen(r).revisions \in Seq(Texts)
    BY <2>2 DEF SkillRows
  <2>4. QED BY <2>1, <2>2, <2>3
<1>8. CASE Revise(r)
  <2> DEFINE revisions == Seen(r).revisions
             row == [Seen(r) EXCEPT !.revisions = Append(@, Text(r)), !.current = Len(revisions) + 1]
  <2>1. req[r].pc = "apply" /\ Op(r) = "revise" /\ Reply(r, "ok", On(r), {})
    BY <1>8 DEF Revise, At, Done
  <2>2. CASE Text(r) \in ToSet(revisions)
    BY <1>8, <2>1, <2>2, SkillReplies DEF Revise
  <2>3. CASE Text(r) \notin ToSet(revisions)
    <3>1. Text(r) \in Texts
      <4>1. AskedOf(r)
        BY <2>1 DEF Base, Asked, Idle
      <4>2. QED BY <2>1, <4>1 DEF AskedOf, SkillAsked
    <3>2. db'.skill = [db.skill EXCEPT ![On(r)] = row] /\ db'.pin = db.pin
      BY <1>8, <2>3 DEF Revise, Base, Shape, DbFields
    <3> DEFINE longer == Append(revisions, Text(r))
    <3>3. longer \in Seq(Texts) /\ Len(longer) = Len(revisions) + 1
      BY <1>7, <2>1, <3>1
    <3>4. IsInjective(longer) /\ IsPrefix(revisions, longer)
      BY <1>7, <2>1, <2>3, <3>1, LongerInjective, PrefixOfLonger
    <3>5. row.revisions = longer /\ row.current = Len(revisions) + 1
      BY <1>7, <2>1 DEF SkillRows
    <3>6. row \in SkillRows
      <4>1. row = [Seen(r) EXCEPT !.revisions = longer, !.current = Len(revisions) + 1]
        OBVIOUS
      <4>2. Len(revisions) + 1 \in Nat
        BY <1>7, <2>1
      <4> HIDE DEF longer, row, revisions
      <4>3. QED BY <1>7, <2>1, <3>3, <4>1, <4>2 DEF SkillRows
    <3> HIDE DEF row, longer
    <3>7. QED BY <1>7, <2>1, <3>2, <3>3, <3>4, <3>5, <3>6, SkillWrites
  <2>4. QED BY <2>2, <2>3
<1>9. CASE SelectRevision(r)
  <2> DEFINE row == [Seen(r) EXCEPT !.current = Key(r)]
  <2>1. req[r].pc = "apply" /\ Op(r) = "select"
    BY <1>9 DEF SelectRevision, At
  <2>2. CASE Key(r) \notin DOMAIN Seen(r).revisions
    BY <1>9, <2>2, SkillReplies DEF SelectRevision, Refuse
  <2>3. CASE Key(r) \in DOMAIN Seen(r).revisions
    <3>1. /\ db'.skill = [db.skill EXCEPT ![On(r)] = row] /\ db'.pin = db.pin
          /\ Reply(r, "ok", On(r), {})
      BY <1>9, <2>3 DEF SelectRevision, Done, Base, Shape, DbFields
    <3>2. Key(r) \in Nat
      BY <1>7, <2>1, <2>3
    <3>3. row \in SkillRows /\ row.revisions = Seen(r).revisions /\ row.current = Key(r)
      BY <1>7, <2>1, <3>2 DEF SkillRows
    <3> HIDE DEF row
    <3>4. IsPrefix(Seen(r).revisions, row.revisions)
      BY <1>7, <2>1, <3>3, PrefixOfItself
    <3>5. QED BY <1>7, <2>1, <3>1, <3>3, <3>4, SkillWrites
  <2>4. QED BY <2>2, <2>3
<1>10. CASE ArchiveSkill(r) \/ RestoreSkill(r)
  <2>1. PICK archived \in BOOLEAN :
          /\ req[r].pc = "apply" /\ Reply(r, "ok", On(r), {})
          /\ db' = [db EXCEPT !.skill[On(r)] = [Seen(r) EXCEPT !.archived = archived]]
    BY <1>10 DEF ArchiveSkill, RestoreSkill, At, Done
  <2> DEFINE row == [Seen(r) EXCEPT !.archived = archived]
  <2>2. db'.skill = [db.skill EXCEPT ![On(r)] = row] /\ db'.pin = db.pin
    BY <2>1 DEF Base, Shape, DbFields
  <2>3. row \in SkillRows /\ row.revisions = Seen(r).revisions /\ row.current = Seen(r).current
    BY <1>7, <2>1 DEF SkillRows
  <2> HIDE DEF row
  <2>4. IsPrefix(Seen(r).revisions, row.revisions)
    BY <1>7, <2>1, <2>3, PrefixOfItself
  <2>5. QED BY <1>7, <2>1, <2>2, <2>3, <2>4, SkillWrites
<1>11. CASE SetPin(r) \/ RemovePin(r)
  <2>1. CASE \E code : Refuse(r, code)
    BY <2>1, SkillReplies DEF Refuse
  <2>2. CASE ~\E code : Refuse(r, code)
    <3>1. Reply(r, "ok", On(r), {})
      BY <1>11, <2>2 DEF SetPin, RemovePin, Done
    <3>2. db'.skill = db.skill
      BY <1>11, <2>2 DEF SetPin, RemovePin, Base, Shape, DbFields
    <3>3. PinsOK'
      <4>1. CASE SetPin(r)
        <5>1. /\ db'.pin = Put(db.pin, <<Text(r), On(r)>>, Key(r)) /\ On(r) \in DOMAIN db.skill
              /\ Key(r) \in 0..Len(db.skill[On(r)].revisions)
          BY <2>2, <4>1 DEF SetPin, Base, Shape, DbFields
        <5>2. QED BY <3>2, <5>1 DEF Put, SkillPart, PinsOK
      <4>2. CASE RemovePin(r)
        <5>1. db'.pin = [p \in DOMAIN db.pin \ {<<Text(r), On(r)>>} |-> db.pin[p]]
          BY <2>2, <4>2 DEF RemovePin, Base, Shape, DbFields
        <5>2. QED BY <3>2, <5>1 DEF SkillPart, PinsOK
      <4>3. QED BY <1>11, <4>1, <4>2
    <3>4. Ended(r, "ok", On(r), {})
      BY <3>1, ReplyFields DEF Base
    <3>5. \A q \in Requests : SkillHeld(q)'
      BY <3>2, <3>4 DEF SkillPart, SkillHeld, Ended, Others, On, Seen
    <3>6. QED BY <3>2, <3>3, <3>5, SkillStays DEF SkillPart, SkillsOK, History
  <2>3. QED BY <2>1, <2>2
<1>12. CASE Agent(r)
  <2>1. db'.skill = db.skill /\ db'.pin = db.pin
    BY <1>12, AgentSteps DEF Writes, DbFields
  <2>2. CASE CreateAgent(r) \/ Dissociate(r) \/ Associated(r)
    BY <2>1, <2>2, SkillReplies DEF CreateAgent, Dissociate, Associated, Done, Refuse
  <2>3. CASE Associate(r)
    BY <2>1, <2>3, SkillGoes, SkillReplies DEF Associate, Refuse
  <2>4. QED BY <1>12, <2>2, <2>3 DEF Agent
<1>13. QED
  BY <1>1, <1>2, <1>3, <1>4, <1>5, <1>6, <1>8, <1>9, <1>10, <1>11, <1>12 DEF StepOf, Common, Skill

LEMMA SkillKeeps ==
    ASSUME Base, SkillPart, Next
    PROVE  SkillPart' /\ History
<1>1. CASE area = "skill"
  <2>1. CASE Beside
    <3>1. db' = db /\ req' = req /\ area' = area
      BY <1>1, <2>1, NextCases DEF Beside, Retire, ForgetSource, Merge, Project, registries
    <3>2. SkillPart'
      BY <1>1, <3>1 DEF SkillPart, SkillsOK, PinsOK, SkillHeld, On, Seen
    <3>3. QED BY <3>1, <3>2, SkillStays DEF History
  <2>2. CASE \E r \in Requests : StepOf(r)
    BY <1>1, <2>2, SkillStepKeeps, NextCases
  <2>3. QED BY <2>1, <2>2, NextCases
<1>2. CASE area # "skill"
  <2>1. db'.skill = db.skill /\ db'.pin = db.pin /\ area' = area
    BY <1>2, Frame, NextCases
  <2>2. SkillPart'
    BY <1>2, <2>1 DEF SkillPart, SkillsOK, PinsOK
  <2>3. QED BY <2>1, <2>2, SkillStays DEF History
<1>3. QED BY <1>1, <1>2

-----------------------------------------------------------------------------
(* What readers are served *)

RelationFields == {"id", "from", "to", "chunk"}
KnowledgeRows ==
    /\ \A x \in db.relation : DOMAIN x = RelationFields /\ {x.from, x.to} \subseteq Entities
    /\ "dataset" \in DOMAIN db.dataset /\ "live" \in DOMAIN db.dataset["dataset"]

\* Nothing that had gone when a request began is in what it has confirmed:

\* op, on, pc, seen and gone are the request's.
Parts == {"hits", "entities", "relations", "evidence"}
RecallSeen(pc, seen, gone) ==
    /\ pc \in {"lexical", "neighborhood", "entities", "relations", "evidence", "answer"} =>
         DOMAIN seen = Parts /\ seen.hits \cap gone = {}
    /\ pc \in {"relations", "evidence", "answer"} => seen.entities \cap gone = {}
    /\ pc \in {"evidence", "answer"} => seen.relations \cap gone = {}
    /\ pc = "answer" => seen.evidence \cap gone = {}
SubgraphSeen(pc, seen, gone) ==
    /\ pc \in {"entities", "among", "relations"} => DOMAIN seen = Parts
    /\ pc \in {"among", "relations"} => seen.entities \cap gone = {}
PathSeen(pc, seen, gone) ==
    /\ pc \in {"entities", "relations"} => DOMAIN seen = {"entities", "relations"}
    /\ pc = "relations" => seen.entities \cap gone = {}
SourceSeen(on, pc, seen, gone) ==
    /\ pc \in {"chunk", "mentioned", "evidenced"} => on \notin gone
    /\ pc \in {"mentioned", "evidenced"} => DOMAIN seen = Parts /\ seen.hits \cap gone = {}
    /\ pc = "evidenced" => seen.entities \cap gone = {}
SeenLive(op, on, pc, seen, gone) ==
    /\ op = "recall" => RecallSeen(pc, seen, gone)
    /\ op = "summaries" /\ pc = "audit" => seen.hits \cap gone = {}
    /\ op = "subgraph" => SubgraphSeen(pc, seen, gone)
    /\ op = "path" => PathSeen(pc, seen, gone)
    /\ op = "source" => SourceSeen(on, pc, seen, gone)
    /\ op = "relation" /\ pc = "evidence" => on \notin gone

ReaderInv(r) ==
    /\ req[r].gone \cap Visible = {}
    /\ SeenLive(Op(r), On(r), req[r].pc, Seen(r), req[r].gone)
KnowledgePart == area = "knowledge" => KnowledgeRows /\ \A r \in Requests : ReaderInv(r)

\* What is visible is never visible again once it is not.
LEMMA VisibleShrinks ==
    ASSUME Base, area = "knowledge", KnowledgeRows, Beside
    PROVE  Visible' \subseteq Visible /\ KnowledgeRows'
<1>1. CASE \E d \in {"main", "dataset"} : Retire(d)
  <2>1. db' = [db EXCEPT !.dataset["dataset"].live = FALSE]
    BY <1>1 DEF Retire
  <2>2. ~db'.dataset["dataset"].live /\ DOMAIN db'.dataset = DOMAIN db.dataset
    BY <2>1 DEF Base, Shape, DbFields, KnowledgeRows
  <2>3. DOMAIN db'.dataset["dataset"] = DOMAIN db.dataset["dataset"] /\ db'.relation = db.relation
    BY <2>1 DEF Base, Shape, DbFields, KnowledgeRows
  <2>4. Visible' = {}
    BY <2>2 DEF Visible, LiveChunks, LiveEntities, LiveRelations, Live, Ids
  <2>5. QED BY <2>2, <2>3, <2>4 DEF KnowledgeRows
<1>2. ASSUME NEW c, ForgetSource(c) PROVE Visible' \subseteq Visible /\ KnowledgeRows'
  <2>1. /\ db'.chunk \subseteq db.chunk /\ db'.entity \subseteq db.entity
        /\ db'.relation \subseteq db.relation /\ db'.dataset = db.dataset
    BY <1>2 DEF ForgetSource, Base, Shape, DbFields
  <2>2. QED
    BY <2>1 DEF Visible, LiveChunks, LiveEntities, LiveRelations, Live, Ids, KnowledgeRows
<1>3. ASSUME NEW a \in Entities, NEW b \in Entities, Merge(a, b)
      PROVE  Visible' \subseteq Visible /\ KnowledgeRows'
  <2> DEFINE To(e) == IF e = a THEN b ELSE e
             moved(x) == [x EXCEPT !.from = To(x.from), !.to = To(x.to)]
  <2>1. /\ db'.chunk = db.chunk /\ db'.entity \subseteq db.entity /\ db'.dataset = db.dataset
        /\ db'.relation \subseteq {moved(x) : x \in db.relation} /\ db.entity = Entities /\ Live
    BY <1>3 DEF Merge, Base, Shape, DbFields
  <2>2. \A x \in db.relation : /\ moved(x).id = x.id /\ DOMAIN moved(x) = RelationFields
                              /\ {moved(x).from, moved(x).to} \subseteq Entities
    BY DEF KnowledgeRows, RelationFields
  <2> HIDE DEF moved
  <2>3. KnowledgeRows'
    BY <2>1, <2>2 DEF KnowledgeRows
  <2>4. Ids(db'.relation) \subseteq Ids(db.relation)
    BY <2>1, <2>2 DEF Ids
  <2>5. LiveRelations = db.relation
    BY <2>1 DEF LiveRelations, KnowledgeRows
  <2>6. Ids(LiveRelations)' \subseteq Ids(LiveRelations)
    BY <2>4, <2>5 DEF Ids, LiveRelations
  <2>7. QED
    BY <2>1, <2>3, <2>6 DEF Visible, LiveChunks, LiveEntities, Live
<1>4. CASE Project
  BY <1>4 DEF Project, registries, Visible, LiveChunks, LiveEntities, LiveRelations, Live, Ids,
              KnowledgeRows
<1>5. QED BY <1>1, <1>2, <1>3, <1>4 DEF Beside

\* A step of a request leaves what is visible.
SameVisible == Visible' = Visible /\ (KnowledgeRows => KnowledgeRows')

LEMMA StepSameVisible ==
    ASSUME Base, area = "knowledge", NEW r \in Requests, StepOf(r)
    PROVE  SameVisible
<1>1. /\ db'.chunk = db.chunk /\ db'.entity = db.entity /\ db'.dataset = db.dataset
      /\ db'.relation = db.relation
  <2>1. CASE Common(r)
    BY <2>1, CommonSteps DEF Common
  <2>2. CASE Readers(r)
    BY <2>2, RecallSteps, GraphSteps, ProvenanceSteps DEF Readers, Writes, DbFields
  <2>3. CASE Begin(r, ReaderAsks, AllIds \ Visible)
    BY <2>3 DEF Begin
  <2>4. QED BY <2>1, <2>2, <2>3 DEF StepOf
<1>2. QED
  BY <1>1 DEF SameVisible, Visible, LiveChunks, LiveEntities, LiveRelations, Live, Ids, KnowledgeRows

ServedAll == \A r \in Requests : req[r].out.stale = {}

LEMMA ReaderGoes ==
    ASSUME Base, area = "knowledge", area' = area, KnowledgePart, ServedAll, SameVisible,
           NEW r \in Requests, NEW pc, NEW seen, NEW locks, Go(r, pc, seen, locks),
           SeenLive(Op(r), On(r), pc, seen, req[r].gone)
    PROVE  KnowledgePart' /\ ServedAll'
<1>1. Went(r, pc, seen, locks)
  BY GoFields DEF Base
<1>2. ReaderInv(r)'
  BY <1>1 DEF KnowledgePart, ReaderInv, SameVisible, Went, Op, On, Seen
<1>3. \A q \in Requests \ {r} : ReaderInv(q)'
  BY <1>1 DEF KnowledgePart, ReaderInv, SameVisible, Went, Others, Op, On, Seen
<1>4. QED
  BY <1>1, <1>2, <1>3 DEF KnowledgePart, SameVisible, ServedAll, Went, Others

LEMMA ReaderReplies ==
    ASSUME Base, area = "knowledge", area' = area, KnowledgePart, ServedAll, SameVisible,
           NEW r \in Requests, NEW code, NEW id, NEW shown, Reply(r, code, id, shown),
           shown \cap req[r].gone = {}
    PROVE  KnowledgePart' /\ ServedAll'
<1>1. Ended(r, code, id, shown)
  BY ReplyFields DEF Base
<1>2. ReaderInv(r)'
  BY <1>1 DEF ReaderInv, Ended, SeenLive, RecallSeen, SubgraphSeen, PathSeen, SourceSeen
<1>3. \A q \in Requests \ {r} : ReaderInv(q)'
  BY <1>1 DEF KnowledgePart, ReaderInv, SameVisible, Ended, Others, Op, On, Seen
<1>4. req'[r].out.stale = {}
  BY <1>1 DEF Ended
<1>5. QED
  BY <1>1, <1>2, <1>3, <1>4 DEF KnowledgePart, SameVisible, ServedAll, Ended, Others

LEMMA ReaderBegins ==
    ASSUME Base, area = "knowledge", area' = area, KnowledgePart, ServedAll, SameVisible,
           NEW r \in Requests, Begin(r, ReaderAsks, AllIds \ Visible)
    PROVE  KnowledgePart' /\ ServedAll'
<1>1. Began(r, ReaderAsks, AllIds \ Visible)
  BY BeginFields DEF Base
<1>2. req'[r].pc = "resolve"
  BY <1>1 DEF Began, ReaderAsks, RecallAsks, GraphAsks, ProvenanceAsks, First
<1>3. ReaderInv(r)'
  BY <1>1, <1>2 DEF Began, ReaderInv, SameVisible, SeenLive, RecallSeen, SubgraphSeen, PathSeen, SourceSeen
<1>4. \A q \in Requests \ {r} : ReaderInv(q)'
  BY <1>1 DEF KnowledgePart, ReaderInv, SameVisible, Began, Others, Op, On, Seen
<1>5. req'[r].out.stale = {}
  BY <1>1 DEF Began, Idle
<1>6. QED
  BY <1>1, <1>3, <1>4, <1>5 DEF KnowledgePart, SameVisible, ServedAll, Began, Others

\* What a request confirms now had not gone when it began.
LEMMA ConfirmedNow ==
    ASSUME NEW r \in Requests, ReaderInv(r)
    PROVE  /\ LiveChunks \cap req[r].gone = {} /\ LiveEntities \cap req[r].gone = {}
           /\ Ids(LiveRelations) \cap req[r].gone = {}
           /\ \A ids : EvidenceOf(ids) \cap req[r].gone = {}
BY DEF ReaderInv, Visible, EvidenceOf

LEMMA RecallKeeps ==
    ASSUME Base, area = "knowledge", area' = area, KnowledgePart, ServedAll, SameVisible,
           NEW r \in Requests, RecallQuery(r)
    PROVE  KnowledgePart' /\ ServedAll'
<1> DEFINE gone == req[r].gone
<1>1. ReaderInv(r)
  BY DEF KnowledgePart
<1>2. /\ LiveChunks \cap gone = {} /\ LiveEntities \cap gone = {}
      /\ Ids(LiveRelations) \cap gone = {} /\ \A ids : EvidenceOf(ids) \cap gone = {}
  BY <1>1, ConfirmedNow
<1>3. ASSUME Op(r) = "recall" PROVE RecallSeen(req[r].pc, Seen(r), gone)
  BY <1>1, <1>3 DEF ReaderInv, SeenLive
<1>4. ASSUME Op(r) = "recall", NEW pc, NEW seen, Go(r, pc, seen, {}), RecallSeen(pc, seen, gone)
      PROVE  KnowledgePart' /\ ServedAll'
  <2>1. SeenLive(Op(r), On(r), pc, seen, gone)
    BY <1>4 DEF SeenLive
  <2>2. QED BY <1>4, <2>1, ReaderGoes
<1>5. CASE Resolve(r)
  <2>1. CASE Refuse(r, "not_found")
    BY <2>1, ReaderReplies DEF Refuse
  <2>2. CASE Go(r, "embed", Null, {})
    <3>1. SeenLive(Op(r), On(r), "embed", Null, gone)
      BY DEF SeenLive, RecallSeen, SubgraphSeen, PathSeen, SourceSeen
    <3>2. QED BY <2>2, <3>1, ReaderGoes
  <2>3. QED BY <1>5, <2>1, <2>2 DEF Resolve
<1>6. CASE VectorSearch(r)
  <2>1. PICK hits \in SUBSET LiveChunks : Go(r, "lexical", [Nothing EXCEPT !.hits = hits], {})
    BY <1>6 DEF VectorSearch
  <2>2. RecallSeen("lexical", [Nothing EXCEPT !.hits = hits], gone)
    BY <1>2, <2>1 DEF RecallSeen, Nothing, Parts
  <2>3. QED BY <1>4, <1>6, <2>1, <2>2 DEF VectorSearch, At
<1>7. CASE LexicalSearch(r)
  <2>1. PICK lexical \in SUBSET LiveChunks : \E hits \in Fused(Seen(r).hits, lexical) :
          Go(r, IF hits = {} THEN "answer" ELSE "neighborhood", [Nothing EXCEPT !.hits = hits], {})
    BY <1>7 DEF LexicalSearch
  <2>2. PICK hits \in Fused(Seen(r).hits, lexical) :
          Go(r, IF hits = {} THEN "answer" ELSE "neighborhood", [Nothing EXCEPT !.hits = hits], {})
    BY <2>1
  <2>3. hits \cap gone = {}
    <3>1. Seen(r).hits \cap gone = {}
      BY <1>3, <1>7 DEF LexicalSearch, At, RecallSeen
    <3>2. hits \subseteq Seen(r).hits \cup lexical
      BY <2>2 DEF Fused
    <3>3. QED BY <1>2, <3>1, <3>2
  <2>4. \A pc \in {"answer", "neighborhood"} : RecallSeen(pc, [Nothing EXCEPT !.hits = hits], gone)
    BY <2>3 DEF RecallSeen, Nothing, Parts
  <2>5. QED BY <1>4, <1>7, <2>2, <2>4 DEF LexicalSearch, At
<1>8. CASE SearchSummaries(r)
  <2>1. PICK hits \in SUBSET LiveChunks : Go(r, "audit", [Nothing EXCEPT !.hits = hits], {})
    BY <1>8 DEF SearchSummaries
  <2>2. SeenLive("summaries", On(r), "audit", [Nothing EXCEPT !.hits = hits], gone)
    BY <1>2, <2>1 DEF SeenLive, Nothing
  <2>3. QED BY <1>8, <2>1, <2>2, ReaderGoes DEF SearchSummaries, At
<1>9. CASE AnswerSummaries(r)
  <2>1. Seen(r).hits \cap gone = {}
    BY <1>1, <1>9 DEF AnswerSummaries, At, ReaderInv, SeenLive
  <2>2. QED BY <1>9, <2>1, ReaderReplies DEF AnswerSummaries
<1>10. CASE Neighborhood(r)
  <2> DEFINE seeds == {m[1] : m \in {n \in graph.mentions : n[2] \in Seen(r).hits}}
             edges == {e \in graph.edges : seeds \cap {e[2], e[3]} # {}}
             near == seeds \cup UNION {{e[2], e[3]} : e \in edges}
             among == {e[1] : e \in edges}
             seen == [Seen(r) EXCEPT !.entities = near, !.relations = among]
  <2>1. Op(r) = "recall" /\ req[r].pc = "neighborhood" /\ Go(r, "entities", seen, {})
    BY <1>10 DEF Neighborhood, At
  <2> HIDE DEF near, among
  <2>2. RecallSeen("entities", seen, gone)
    BY <1>3, <2>1 DEF RecallSeen, Parts
  <2>3. QED BY <1>4, <2>1, <2>2
<1>11. CASE HydrateEntities(r)
  <2> DEFINE seen == [Seen(r) EXCEPT !.entities = Seen(r).entities \cap LiveEntities]
  <2>1. Op(r) = "recall" /\ req[r].pc = "entities" /\ Go(r, "relations", seen, {})
    BY <1>11 DEF HydrateEntities, At
  <2>2. RecallSeen("relations", seen, gone)
    BY <1>2, <1>3, <2>1 DEF RecallSeen, Parts
  <2>3. QED BY <1>4, <2>1, <2>2
<1>12. CASE HydrateRelations(r)
  <2> DEFINE seen == [Seen(r) EXCEPT !.evidence = Seen(r).evidence \cup Seen(r).relations,
                                     !.relations = Seen(r).relations \cap Ids(LiveRelations)]
  <2>1. Op(r) = "recall" /\ req[r].pc = "relations" /\ Go(r, "evidence", seen, {})
    BY <1>12 DEF HydrateRelations, At
  <2>2. RecallSeen("evidence", seen, gone)
    BY <1>2, <1>3, <2>1 DEF RecallSeen, Parts
  <2>3. QED BY <1>4, <2>1, <2>2
<1>13. CASE HydrateEvidence(r)
  <2> DEFINE seen == [Seen(r) EXCEPT !.evidence = EvidenceOf(Seen(r).evidence)]
  <2>1. Op(r) = "recall" /\ req[r].pc = "evidence" /\ Go(r, "answer", seen, {})
    BY <1>13 DEF HydrateEvidence, At
  <2>2. RecallSeen("answer", seen, gone)
    BY <1>2, <1>3, <2>1 DEF RecallSeen, Parts
  <2>3. QED BY <1>4, <2>1, <2>2
<1>14. CASE Answer(r)
  <2>1. RecallSeen("answer", Seen(r), gone)
    BY <1>3, <1>14 DEF Answer, At
  <2>2. (Seen(r).hits \cup Seen(r).evidence \cup Seen(r).entities \cup Seen(r).relations) \cap gone = {}
    BY <2>1 DEF RecallSeen
  <2>3. QED BY <1>14, <2>2, ReaderReplies DEF Answer, Refuse
<1>15. QED
  BY <1>5, <1>6, <1>7, <1>8, <1>9, <1>10, <1>11, <1>12, <1>13, <1>14 DEF RecallQuery

LEMMA GraphReadKeeps ==
    ASSUME Base, area = "knowledge", area' = area, KnowledgePart, ServedAll, SameVisible,
           NEW r \in Requests, GraphRead(r)
    PROVE  KnowledgePart' /\ ServedAll'
<1> DEFINE gone == req[r].gone
<1>1. ReaderInv(r)
  BY DEF KnowledgePart
<1>2. /\ LiveChunks \cap gone = {} /\ LiveEntities \cap gone = {}
      /\ Ids(LiveRelations) \cap gone = {}
  BY <1>1, ConfirmedNow
<1>3. CASE FindRoot(r)
  <2>1. CASE Refuse(r, "not_found")
    BY <2>1, ReaderReplies DEF Refuse
  <2>2. CASE Op(r) = "subgraph" /\ Go(r, "traverse", Nothing, {})
    <3>1. SeenLive("subgraph", On(r), "traverse", Nothing, gone)
      BY DEF SeenLive, SubgraphSeen
    <3>2. QED BY <2>2, <3>1, ReaderGoes
  <2>3. QED BY <1>3, <2>1, <2>2 DEF FindRoot, At
<1>4. CASE Traverse(r)
  <2> DEFINE near == {On(r)} \cup Near(Near({On(r)} \cap graph.nodes))
             seen == [Nothing EXCEPT !.entities = near]
  <2>1. Op(r) = "subgraph" /\ Go(r, "entities", seen, {})
    BY <1>4 DEF Traverse, At
  <2> HIDE DEF near
  <2>2. SeenLive("subgraph", On(r), "entities", seen, gone)
    BY DEF SeenLive, SubgraphSeen, Nothing, Parts
  <2>3. QED BY <2>1, <2>2, ReaderGoes
<1>5. CASE SubgraphEntities(r)
  <2> DEFINE seen == [Seen(r) EXCEPT !.entities = Seen(r).entities \cap LiveEntities]
  <2>1. Op(r) = "subgraph" /\ req[r].pc = "entities" /\ Go(r, "among", seen, {})
    BY <1>5 DEF SubgraphEntities, At
  <2>2. SubgraphSeen("entities", Seen(r), gone)
    BY <1>1, <2>1 DEF ReaderInv, SeenLive
  <2>3. SubgraphSeen("among", seen, gone)
    BY <1>2, <2>2 DEF SubgraphSeen, Parts
  <2>4. SeenLive("subgraph", On(r), "among", seen, gone)
    BY <2>3 DEF SeenLive
  <2>5. QED BY <2>1, <2>4, ReaderGoes
<1>6. CASE RelationsAmong(r)
  <2> DEFINE among == {e[1] : e \in {f \in graph.edges : {f[2], f[3]} \subseteq Seen(r).entities}}
             seen == [Seen(r) EXCEPT !.relations = among]
  <2>1. Op(r) = "subgraph" /\ req[r].pc = "among" /\ Go(r, "relations", seen, {})
    BY <1>6 DEF RelationsAmong, At
  <2>2. SubgraphSeen("among", Seen(r), gone)
    BY <1>1, <2>1 DEF ReaderInv, SeenLive
  <2> HIDE DEF among
  <2>3. SubgraphSeen("relations", seen, gone)
    BY <2>2 DEF SubgraphSeen, Parts
  <2>4. SeenLive("subgraph", On(r), "relations", seen, gone)
    BY <2>3 DEF SeenLive
  <2>5. QED BY <2>1, <2>4, ReaderGoes
<1>7. CASE SubgraphRelations(r)
  <2> DEFINE relations == {x \in LiveRelations : /\ x.id \in Seen(r).relations
                                                 /\ {x.from, x.to} \subseteq Seen(r).entities}
  <2>1. /\ Op(r) = "subgraph" /\ req[r].pc = "relations"
        /\ Reply(r, "ok", Null, Seen(r).entities \cup Ids(relations))
    BY <1>7 DEF SubgraphRelations, At
  <2>2. Seen(r).entities \cap gone = {}
    BY <1>1, <2>1 DEF ReaderInv, SeenLive, SubgraphSeen
  <2>3. Ids(relations) \subseteq Ids(LiveRelations)
    BY DEF Ids
  <2> HIDE DEF relations
  <2>4. QED BY <1>2, <2>1, <2>2, <2>3, ReaderReplies
<1>8. CASE FindEndpoints(r)
  <2>1. CASE Refuse(r, "not_found")
    BY <2>1, ReaderReplies DEF Refuse
  <2>2. CASE On(r) \in LiveEntities /\ Reply(r, "ok", Null, {On(r)})
    BY <1>2, <2>2, ReaderReplies
  <2>3. CASE Op(r) = "path" /\ Go(r, "walk", Nothing, {})
    <3>1. SeenLive("path", On(r), "walk", Nothing, gone)
      BY DEF SeenLive, PathSeen
    <3>2. QED BY <2>3, <3>1, ReaderGoes
  <2>4. QED BY <1>8, <2>1, <2>2, <2>3 DEF FindEndpoints, At
<1>9. CASE Walk(r)
  <2>1. CASE Reply(r, "ok", Null, {})
    BY <2>1, ReaderReplies
  <2>2. CASE \E p \in Direct(On(r), Text(r)) \cup Indirect(On(r), Text(r)) : Go(r, "entities", p, {})
    <3>1. PICK p \in Direct(On(r), Text(r)) \cup Indirect(On(r), Text(r)) : Go(r, "entities", p, {})
      BY <2>2
    <3>2. DOMAIN p = {"entities", "relations"}
      BY <3>1 DEF Direct, Indirect
    <3>3. SeenLive("path", On(r), "entities", p, gone)
      BY <3>2 DEF SeenLive, PathSeen
    <3>4. QED BY <1>9, <3>1, <3>3, ReaderGoes DEF Walk, At
  <2>3. QED BY <1>9, <2>1, <2>2 DEF Walk
<1>10. CASE PathEntities(r)
  <2> DEFINE seen == [Seen(r) EXCEPT !.entities =
                        IF Seen(r).entities \subseteq LiveEntities THEN Seen(r).entities ELSE {}]
  <2>1. Op(r) = "path" /\ req[r].pc = "entities" /\ Go(r, "relations", seen, {})
    BY <1>10 DEF PathEntities, At
  <2>2. PathSeen("entities", Seen(r), gone)
    BY <1>1, <2>1 DEF ReaderInv, SeenLive
  <2>3. PathSeen("relations", seen, gone)
    BY <1>2, <2>2 DEF PathSeen
  <2>4. SeenLive("path", On(r), "relations", seen, gone)
    BY <2>3 DEF SeenLive
  <2>5. QED BY <2>1, <2>4, ReaderGoes
<1>11. CASE PathRelations(r)
  <2>1. Seen(r).entities \cap gone = {}
    BY <1>1, <1>11 DEF PathRelations, At, ReaderInv, SeenLive, PathSeen
  <2>2. CASE Seen(r).relations \subseteq Ids(LiveRelations) /\ Reply(r, "ok", Null, Seen(r).entities \cup Seen(r).relations)
    BY <1>2, <2>1, <2>2, ReaderReplies
  <2>3. CASE Reply(r, "ok", Null, {})
    BY <2>3, ReaderReplies
  <2>4. QED BY <1>11, <2>2, <2>3 DEF PathRelations
<1>12. QED
  BY <1>3, <1>4, <1>5, <1>6, <1>7, <1>8, <1>9, <1>10, <1>11 DEF GraphRead

LEMMA ProvenanceKeeps ==
    ASSUME Base, area = "knowledge", area' = area, KnowledgePart, ServedAll, SameVisible,
           NEW r \in Requests, Provenance(r)
    PROVE  KnowledgePart' /\ ServedAll'
<1> DEFINE gone == req[r].gone
<1>1. ReaderInv(r)
  BY DEF KnowledgePart
<1>2. /\ LiveChunks \cap gone = {} /\ LiveEntities \cap gone = {}
      /\ Ids(LiveRelations) \cap gone = {} /\ \A ids : EvidenceOf(ids) \cap gone = {}
  BY <1>1, ConfirmedNow
<1>3. CASE FindSource(r)
  <2>1. CASE Refuse(r, "not_found")
    BY <2>1, ReaderReplies DEF Refuse
  <2>2. CASE Op(r) = "source" /\ On(r) \in LiveChunks /\ Go(r, "chunk", Nothing, {})
    <3>1. SeenLive("source", On(r), "chunk", Nothing, gone)
      BY <1>2, <2>2 DEF SeenLive, SourceSeen
    <3>2. QED BY <2>2, <3>1, ReaderGoes
  <2>3. QED BY <1>3, <2>1, <2>2 DEF FindSource, At
<1>4. CASE SourceChunk(r)
  <2> DEFINE hits == {On(r)} \cap db.chunk
             seen == [Nothing EXCEPT !.hits = hits]
  <2>1. Op(r) = "source" /\ req[r].pc = "chunk" /\ Go(r, "mentioned", seen, {})
    BY <1>4 DEF SourceChunk, At
  <2>2. On(r) \notin gone
    BY <1>1, <2>1 DEF ReaderInv, SeenLive, SourceSeen
  <2>3. SeenLive("source", On(r), "mentioned", seen, gone)
    BY <2>2 DEF SeenLive, SourceSeen, Nothing, Parts
  <2>4. QED BY <2>1, <2>3, ReaderGoes
<1>5. CASE SourceEntities(r)
  <2> DEFINE named == {m[1] : m \in {n \in db.mention : n[2] \in Seen(r).hits \cap LiveChunks}}
             seen == [Seen(r) EXCEPT !.entities = named \cap LiveEntities]
  <2>1. Op(r) = "source" /\ req[r].pc = "mentioned" /\ Go(r, "evidenced", seen, {})
    BY <1>5 DEF SourceEntities, At
  <2>2. SourceSeen(On(r), "mentioned", Seen(r), gone)
    BY <1>1, <2>1 DEF ReaderInv, SeenLive
  <2> HIDE DEF named
  <2>3. SeenLive("source", On(r), "evidenced", seen, gone)
    BY <1>2, <2>2 DEF SeenLive, SourceSeen, Parts
  <2>4. QED BY <2>1, <2>3, ReaderGoes
<1>6. CASE SourceRelations(r)
  <2> DEFINE relations == {x \in LiveRelations : x.chunk \in Seen(r).hits \cap LiveChunks}
  <2>1. /\ Op(r) = "source" /\ req[r].pc = "evidenced"
        /\ Reply(r, "ok", Null, Seen(r).hits \cup Seen(r).entities \cup Ids(relations))
    BY <1>6 DEF SourceRelations, At
  <2>2. Seen(r).hits \cap gone = {} /\ Seen(r).entities \cap gone = {}
    BY <1>1, <2>1 DEF ReaderInv, SeenLive, SourceSeen
  <2>3. Ids(relations) \subseteq Ids(LiveRelations)
    BY DEF Ids
  <2> HIDE DEF relations
  <2>4. QED BY <1>2, <2>1, <2>2, <2>3, ReaderReplies
<1>7. CASE FindRelation(r)
  <2>1. CASE Refuse(r, "not_found")
    BY <2>1, ReaderReplies DEF Refuse
  <2>2. CASE Op(r) = "relation" /\ On(r) \in Ids(LiveRelations) /\ Go(r, "evidence", Nothing, {})
    <3>1. SeenLive("relation", On(r), "evidence", Nothing, gone)
      BY <1>2, <2>2 DEF SeenLive
    <3>2. QED BY <2>2, <3>1, ReaderGoes
  <2>3. QED BY <1>7, <2>1, <2>2 DEF FindRelation, At
<1>8. CASE RelationEvidence(r)
  <2>1. On(r) \notin gone
    BY <1>1, <1>8 DEF RelationEvidence, At, ReaderInv, SeenLive
  <2>2. QED BY <1>2, <1>8, <2>1, ReaderReplies DEF RelationEvidence
<1>9. CASE QueryReferences(r)
  <2>1. CASE Refuse(r, "not_found")
    BY <2>1, ReaderReplies DEF Refuse
  <2>2. CASE Reply(r, "ok", On(r), db.query[On(r)] \cap LiveChunks)
    BY <1>2, <2>2, ReaderReplies
  <2>3. QED BY <1>9, <2>1, <2>2 DEF QueryReferences
<1>10. QED
  BY <1>3, <1>4, <1>5, <1>6, <1>7, <1>8, <1>9 DEF Provenance

\* The steps every request has: an embedding computed before the search, or a

\* failure; no reader locks a row.
LEMMA ReaderCommon ==
    ASSUME Base, area = "knowledge", area' = area, KnowledgePart, ServedAll, SameVisible,
           NEW r \in Requests, Common(r)
    PROVE  KnowledgePart' /\ ServedAll'
<1>1. req[r].pc \notin {"idle", "done"} /\ Op(r) \in KnowledgeOps
  <2>1. req[r].pc \notin {"idle", "done"}
    BY CommonSteps DEF Common, Steps
  <2>2. AskedOf(r)
    BY <2>1 DEF Base, Asked, Idle
  <2>3. QED BY <2>1, <2>2 DEF AskedOf
<1>2. CASE Embed(r)
  <2>1. CASE Go(r, AfterEmbedding(Op(r)), Null, {})
    <3>1. SeenLive(Op(r), On(r), "search", Null, req[r].gone)
      BY DEF SeenLive, RecallSeen, SubgraphSeen, PathSeen, SourceSeen
    <3>2. AfterEmbedding(Op(r)) = "search"
      BY <1>1 DEF AfterEmbedding, KnowledgeOps
    <3>3. QED BY <2>1, <3>1, <3>2, ReaderGoes
  <2>2. CASE Refuse(r, "unavailable")
    BY <2>2, ReaderReplies DEF Refuse
  <2>3. QED BY <1>2, <2>1, <2>2 DEF Embed
<1>3. CASE LockRow(r)
  <2>1. Op(r) \in LockedOps
    BY <1>3 DEF LockRow, At
  <2>2. QED BY <1>1, <2>1 DEF LockedOps, KnowledgeOps
<1>4. CASE Abort(r)
  BY <1>4, ReaderReplies DEF Abort, Refuse
<1>5. QED BY <1>2, <1>3, <1>4 DEF Common

LEMMA KnowledgeKeeps ==
    ASSUME Base, area = "knowledge", KnowledgePart, ServedAll, Next
    PROVE  KnowledgePart' /\ ServedAll'
<1>1. area' = area
  BY NextCases
<1>2. CASE Beside
  <2>1. req' = req
    BY <1>2 DEF Beside, Retire, ForgetSource, Merge, Project, registries
  <2>2. Visible' \subseteq Visible /\ KnowledgeRows'
    BY <1>2, VisibleShrinks DEF KnowledgePart
  <2>3. \A r \in Requests : ReaderInv(r)'
    BY <2>1, <2>2 DEF KnowledgePart, ReaderInv, Op, On, Seen
  <2>4. QED BY <2>1, <2>2, <2>3 DEF KnowledgePart, ServedAll
<1>3. ASSUME NEW r \in Requests, StepOf(r) PROVE KnowledgePart' /\ ServedAll'
  <2>1. SameVisible
    BY <1>3, StepSameVisible
  <2>2. CASE Common(r)
    BY <1>1, <2>1, <2>2, ReaderCommon
  <2>3. CASE RecallQuery(r)
    BY <1>1, <2>1, <2>3, RecallKeeps
  <2>4. CASE GraphRead(r)
    BY <1>1, <2>1, <2>4, GraphReadKeeps
  <2>5. CASE Provenance(r)
    BY <1>1, <2>1, <2>5, ProvenanceKeeps
  <2>6. CASE Begin(r, ReaderAsks, AllIds \ Visible)
    BY <1>1, <2>1, <2>6, ReaderBegins
  <2>7. QED BY <1>3, <2>2, <2>3, <2>4, <2>5, <2>6 DEF StepOf, Readers
<1>4. QED BY <1>2, <1>3, NextCases

\* In the other areas nothing has been erased for a request to show.
QuietPart ==
    area \notin {"memory", "knowledge"} => \A r \in Requests : req[r].gone = {}

LEMMA QuietKeeps ==
    ASSUME Base, QuietPart, ServedAll, area \notin {"memory", "knowledge"}, Next
    PROVE  QuietPart' /\ ServedAll'
<1>1. CASE Beside
  BY <1>1 DEF Beside, Retire, ForgetSource, Merge, Project, registries, QuietPart, ServedAll
<1>2. ASSUME NEW r \in Requests, StepOf(r) PROVE QuietPart' /\ ServedAll'
  <2>1. CASE Steps(r)
    <3>1. CASE Goes(r)
      BY <3>1, GoFields DEF Goes, Base, Went, Others, QuietPart, ServedAll
    <3>2. CASE Replies(r)
      <4>1. PICK code, id, shown : Reply(r, code, id, shown)
        BY <3>2 DEF Replies
      <4>2. Ended(r, code, id, shown)
        BY <4>1, ReplyFields DEF Base
      <4>3. QED BY <4>2 DEF Ended, Others, QuietPart, ServedAll
    <3>3. QED BY <2>1, <3>1, <3>2 DEF Steps
  <2>2. ASSUME NEW asks, Begin(r, asks, {}) PROVE QuietPart' /\ ServedAll'
    <3>1. Began(r, asks, {})
      BY <2>2, BeginFields DEF Base
    <3>2. QED BY <3>1 DEF Began, Others, QuietPart, ServedAll, Idle
  <2>3. QED
    BY <1>2, <2>1, <2>2, CommonSteps, SessionSteps, SkillSteps, AgentSteps, DatasetSteps
       DEF StepOf, Common
<1>3. QED BY <1>1, <1>2, NextCases

-----------------------------------------------------------------------------
(* The inductive invariant *)

IInv == /\ Base /\ MemoryPart /\ SessionPart /\ SkillPart /\ KnowledgePart
        /\ QuietPart /\ ServedAll

LEMMA InitInvariant == Init => IInv
<1> SUFFICES ASSUME Init PROVE IInv
  OBVIOUS
<1> DEFINE text == CHOOSE t \in Texts : TRUE
<1>1. text \in Texts /\ text # Null /\ "memory" \notin Requests
  BY RegistriesAssumption
<1>2. \A r \in Requests : req[r] = Idle
  BY DEF Init
<1>3. /\ DOMAIN db = DbFields
      /\ db.memory = [m \in {"memory"} |-> NewMemory(text)] /\ db.ledger = <<>>
      /\ db.session = [s \in {"session"} |-> NewSession]
      /\ db.skill = [s \in {"skill"} |-> NewSkill(text)] /\ db.pin = <<>>
      /\ db.dataset = [d \in {"main", "dataset"} |-> [name |-> d, live |-> TRUE]]
      /\ db.relation = Relations
  BY DEF Init, DbFields
<1> HIDE DEF text
<1>4. Base
  BY <1>2, <1>3 DEF Base, Shape, Asked, Exclusive, Init, Idle, ReqFields
<1>5. MemoryPart
  <2>1. DOMAIN db.ledger = {} /\ DOMAIN db.memory = {"memory"}
    BY <1>3
  <2>2. db.memory["memory"] = [life |-> "active", text |-> text, by |-> Null]
    BY <1>3 DEF NewMemory
  <2>3. \A r \in Requests : /\ MemoryHeld(r) /\ KeyHeld(r) /\ Fresh(r) /\ GoneErased(r)
                           /\ Agrees(r) /\ req[r].out.code # "internal"
    BY <1>1, <1>2, <2>1 DEF Idle, MemoryHeld, KeyHeld, Fresh, GoneErased, Agrees
  <2>4. MemoryRow("memory")
    BY <1>1, <2>2 DEF MemoryRow, MemRows
  <2>5. QED
    BY <1>1, <2>1, <2>2, <2>3, <2>4 DEF MemoryPart, MemoryInv, MemoryUntouched
<1>6. SessionPart
  <2>1. NewSession \in SessionRows /\ ToSet(NewSession.entries) = {}
    BY DEF NewSession, SessionRows, ToSet
  <2>2. \A r \in Requests : SessionHeld(r)
    BY <1>2 DEF SessionHeld, Idle
  <2>3. QED BY <1>3, <2>1, <2>2 DEF SessionPart, SessionsOK, UniqueKeys
<1>7. SkillPart
  <2>1. NewSkill(text) \in SkillRows
    BY <1>1 DEF NewSkill, SkillRows
  <2>2. IsInjective(NewSkill(text).revisions)
    BY DEF NewSkill, IsInjective
  <2>3. \A r \in Requests : SkillHeld(r)
    BY <1>2 DEF SkillHeld, Idle
  <2>4. DOMAIN db.pin = {}
    BY <1>3
  <2>5. QED BY <1>3, <2>1, <2>2, <2>3, <2>4 DEF SkillPart, SkillsOK, PinsOK
<1>8. KnowledgePart
  <2>1. KnowledgeRows
    <3>1. \A x \in Relations :
            DOMAIN x = RelationFields /\ <<x.from, x.chunk>> \in Mentions /\ <<x.to, x.chunk>> \in Mentions
      BY KnowledgeAssumption DEF RelationFields
    <3>2. \A a, c : <<a, c>> \in Mentions => a \in Entities
      BY KnowledgeAssumption
    <3>3. db.relation = Relations /\ "dataset" \in DOMAIN db.dataset
      BY <1>3
    <3>4. "live" \in DOMAIN db.dataset["dataset"]
      BY <1>3
    <3>5. QED BY <3>1, <3>2, <3>3, <3>4 DEF KnowledgeRows
  <2>2. \A r \in Requests : ReaderInv(r)
    BY <1>2 DEF ReaderInv, Idle, SeenLive, RecallSeen, SubgraphSeen, PathSeen, SourceSeen, Op
  <2>3. QED BY <2>1, <2>2 DEF KnowledgePart
<1>9. QuietPart /\ ServedAll
  BY <1>2 DEF QuietPart, ServedAll, Idle
<1>10. QED BY <1>4, <1>5, <1>6, <1>7, <1>8, <1>9 DEF IInv

LEMMA NextInvariant == IInv /\ [Next]_vars => IInv'
<1> SUFFICES ASSUME IInv, [Next]_vars PROVE IInv'
  OBVIOUS
<1>1. CASE Next
  <2>1. Base' /\ area' = area
    BY <1>1, BaseKeeps, NextCases DEF IInv
  <2>2. MemoryPart'
    BY <1>1, <2>1, MemoryKeeps, UntouchedKeeps DEF IInv, MemoryPart
  <2>3. SessionPart' /\ SkillPart'
    BY <1>1, SessionKeeps, SkillKeeps DEF IInv
  <2>4. KnowledgePart'
    BY <1>1, <2>1, KnowledgeKeeps DEF IInv, KnowledgePart
  <2>5. QuietPart'
    BY <1>1, <2>1, QuietKeeps DEF IInv, QuietPart
  <2>6. ServedAll'
    <3>1. CASE area \notin {"memory", "knowledge"}
      BY <1>1, <3>1, QuietKeeps DEF IInv
    <3>2. CASE area = "knowledge"
      BY <1>1, <3>2, KnowledgeKeeps DEF IInv
    <3>3. CASE area = "memory"
      <4>1. CASE Beside
        BY <4>1 DEF Beside, Retire, ForgetSource, Merge, Project, registries, IInv, ServedAll
      <4>2. ASSUME NEW r \in Requests, StepOf(r) PROVE ServedAll'
        <5>1. req'[r].out.stale = {}
          BY <3>3, <4>2, MemoryShowsLive DEF IInv, MemoryPart, ServedAll
        <5>2. Others(r)
          BY <4>2, StepAlone DEF IInv
        <5>3. QED BY <5>1, <5>2 DEF IInv, ServedAll, Others
      <4>3. QED BY <1>1, <4>1, <4>2, NextCases DEF IInv
    <3>4. QED BY <3>1, <3>2, <3>3
  <2>7. QED BY <2>1, <2>2, <2>3, <2>4, <2>5, <2>6 DEF IInv
<1>2. CASE UNCHANGED vars
  <2>1. area' = area /\ db' = db /\ req' = req
    BY <1>2 DEF vars, registries
  <2>2. Base'
    BY <2>1 DEF IInv, Base, Shape, Asked, AskedOf, MemoryAsked, SessionAsked, SkillAsked,
                Exclusive, Op, Key, Text
  <2>3. MemoryPart'
    <3>1. MemoryInv => MemoryInv'
      BY <2>1 DEF MemoryInv, MemoryHeld, KeyHeld, Fresh, GoneErased, Erased, Agrees, MemoryRow,
                  Creator, LedgerRow, Digest, Op, Key, On, Text, Seen
    <3>2. QED BY <2>1, <3>1 DEF IInv, MemoryPart, MemoryUntouched
  <2>4. SessionPart'
    BY <2>1 DEF IInv, SessionPart, SessionsOK, SessionHeld, On, Seen
  <2>5. SkillPart'
    BY <2>1 DEF IInv, SkillPart, SkillsOK, PinsOK, SkillHeld, On, Seen
  <2>6. KnowledgePart'
    BY <2>1 DEF IInv, KnowledgePart, KnowledgeRows, ReaderInv, Visible, LiveChunks,
                LiveEntities, LiveRelations, Live, Ids, Op, On, Seen
  <2>7. QuietPart' /\ ServedAll'
    BY <2>1 DEF IInv, QuietPart, ServedAll
  <2>8. QED BY <2>2, <2>3, <2>4, <2>5, <2>6, <2>7 DEF IInv
<1>3. QED BY <1>1, <1>2

\* No skill goes away.
LEMMA SkillsRemain ==
    ASSUME Base, SkillPart, Next
    PROVE  DOMAIN db.skill \subseteq DOMAIN db'.skill
<1>1. CASE area # "skill"
  BY <1>1, Frame
<1>2. CASE area = "skill" /\ Beside
  BY <1>2 DEF Beside, Retire, ForgetSource, Merge, Project, registries
<1>3. ASSUME area = "skill", NEW r \in Requests, StepOf(r)
      PROVE  DOMAIN db.skill \subseteq DOMAIN db'.skill
  <2>1. CASE Common(r) \/ Agent(r) \/ Begin(r, SkillAsks, {})
    BY <2>1, CommonSteps, AgentSteps DEF Common, Begin, Writes, DbFields
  <2>2. CASE Skill(r)
    <3>1. CASE CreateSkill(r)
      BY <3>1 DEF CreateSkill, Refuse, Put, Base, Shape, DbFields
    <3>2. CASE ReadName(r)
      BY <3>2 DEF ReadName, Refuse
    <3>3. CASE Revise(r)
      BY <3>3 DEF Revise, Base, Shape, DbFields
    <3>4. CASE SelectRevision(r) \/ ArchiveSkill(r) \/ RestoreSkill(r)
      BY <3>4 DEF SelectRevision, ArchiveSkill, RestoreSkill, Refuse, Base, Shape, DbFields
    <3>5. CASE SetPin(r) \/ RemovePin(r)
      BY <3>5 DEF SetPin, RemovePin, Refuse, Base, Shape, DbFields
    <3>6. QED BY <2>2, <3>1, <3>2, <3>3, <3>4, <3>5 DEF Skill
  <2>3. QED BY <1>3, <2>1, <2>2 DEF StepOf
<1>4. QED BY <1>1, <1>2, <1>3, NextCases

-----------------------------------------------------------------------------
(* What follows from the invariant *)

LEMMA KeysFollow == IInv => KeysDecide
<1> SUFFICES ASSUME IInv PROVE KeysDecide
  OBVIOUS
<1>1. \A r \in Requests : ~Answered(r, "internal")
  BY DEF IInv, MemoryPart, MemoryInv, MemoryUntouched, Agrees, Answered
<1>2. ASSUME NEW key \in DOMAIN db.ledger
      PROVE  /\ Cardinality(Of(key) \cap DOMAIN db.memory) <= 1
             /\ db.ledger[key].result \in DOMAIN db.memory
             /\ \E r \in Of(key) : Answered(r, "ok") /\ Digest(r) = db.ledger[key].digest
  <2>1. MemoryInv
    BY <1>2 DEF IInv, MemoryPart, MemoryUntouched
  <2>2. LedgerRow(key)
    BY <1>2, <2>1 DEF MemoryInv
  <2>3. Of(key) \cap DOMAIN db.memory \subseteq {db.ledger[key].result}
    BY <2>1, <2>2 DEF Of, MemoryInv, Creator, LedgerRow
  <2>4. Cardinality(Of(key) \cap DOMAIN db.memory) <= 1
    <3>1. /\ IsFiniteSet({db.ledger[key].result})
          /\ Cardinality({db.ledger[key].result}) = 1
      BY FS_Singleton
    <3>2. /\ IsFiniteSet(Of(key) \cap DOMAIN db.memory)
          /\ Cardinality(Of(key) \cap DOMAIN db.memory) <= 1
      BY <2>3, <3>1, FS_Subset
    <3>3. QED BY <3>2
  <2>5. QED BY <2>2, <2>4 DEF LedgerRow, Of, Answered
<1>3. ASSUME area = "memory", NEW r \in Requests
      PROVE  /\ Key(r) # Null /\ Answered(r, "ok") /\ Op(r) # "typed_recall" =>
                  /\ db.ledger[Key(r)].digest = Digest(r)
                  /\ db.ledger[Key(r)].result = req[r].out.id
             /\ Answered(r, "conflict") => db.ledger[Key(r)].digest # Digest(r)
             /\ r \in DOMAIN db.memory => Answered(r, "ok")
  <2>1. MemoryInv
    BY <1>3 DEF IInv, MemoryPart
  <2>2. Agrees(r) /\ (r \in DOMAIN db.memory => Creator(r))
    BY <2>1 DEF MemoryInv
  <2>3. QED BY <2>2 DEF Agrees, Creator, Answered
<1>4. ASSUME NEW s \in DOMAIN db.session PROVE UniqueKeys(db.session[s])
  BY DEF IInv, SessionPart, SessionsOK
<1>5. QED BY <1>1, <1>2, <1>3, <1>4 DEF KeysDecide, UniqueKeys

LEMMA LineagesFollow == IInv => LineagesAreSound
<1> SUFFICES ASSUME IInv, NEW m \in DOMAIN db.memory
             PROVE  /\ db.memory[m].text = Null <=> db.memory[m].life = "forgotten"
                    /\ db.memory[m].life = "active" => db.memory[m].by = Null
                    /\ db.memory[m].life = "superseded" => db.memory[m].by # Null
                    /\ db.memory[m].by # Null =>
                         db.memory[m].by \in Requests \cap DOMAIN db.memory /\ On(db.memory[m].by) = m
                    /\ m \in Requests /\ Op(m) = "supersede" => db.memory[On(m)].by = m
  BY DEF LineagesAreSound
<1>1. CASE area = "memory"
  <2>1. MemoryRow(m) /\ (m \in Requests => Creator(m))
    BY <1>1 DEF IInv, MemoryPart, MemoryInv
  <2>2. QED BY <2>1 DEF MemoryRow, MemRows, Creator
<1>2. CASE area # "memory"
  <2>1. /\ m = "memory" /\ db.memory[m].life = "active" /\ db.memory[m].by = Null
        /\ db.memory[m].text # Null
    BY <1>2 DEF IInv, MemoryPart, MemoryUntouched
  <2>2. QED BY <2>1, RegistriesAssumption
<1>3. QED BY <1>1, <1>2

LEMMA StepFreezes == IInv /\ [Next]_vars => [Freezes]_db
BY SessionKeeps DEF IInv, vars, registries

LEMMA StepIsHistory ==
    ASSUME IInv, Next
    PROVE  /\ \A s \in DOMAIN db.skill :
                LET old == db.skill[s]
                    new == db'.skill[s]
                IN  /\ IsPrefix(old.revisions, new.revisions)
                    /\ IsInjective(new.revisions)
                    /\ new.current # old.current =>
                         \/ new.current = Len(new.revisions) /\ new.current > Len(old.revisions)
                         \/ Selecting(s, new.current)
           /\ \A p \in DOMAIN db'.pin : db'.pin[p] \in 0..Len(db'.skill[p[2]].revisions)
<1>1. SkillPart' /\ History /\ DOMAIN db.skill \subseteq DOMAIN db'.skill
  BY SkillKeeps, SkillsRemain DEF IInv
<1>2. ASSUME NEW s \in DOMAIN db.skill
      PROVE  /\ IsPrefix(db.skill[s].revisions, db'.skill[s].revisions)
             /\ IsInjective(db'.skill[s].revisions) /\ Reselects(s)
  BY <1>1 DEF History, SkillPart, SkillsOK
<1>3. \A p \in DOMAIN db'.pin : db'.pin[p] \in 0..Len(db'.skill[p[2]].revisions)
  BY <1>1 DEF SkillPart, PinsOK
<1>4. QED BY <1>2, <1>3 DEF Reselects

-----------------------------------------------------------------------------
(* Theorems *)

\* The invariant that the theorems below rest on: whoever writes a row has
\* locked it and knows it as it is, a claimed key is nobody else's, and what a
\* reader keeps was visible after it began.
THEOREM Invariance == Spec => []IInv
BY InitInvariant, NextInvariant, PTL DEF Spec

\* An Idempotency-Key decides: one memory, one answer that every later use of
\* the key repeats, a conflict only for something else, whatever is under way.
THEOREM KeysDecideAlways == Spec => []KeysDecide
BY Invariance, KeysFollow, PTL

\* A memory is superseded at most once, its lineage is linked both ways, and
\* its content goes with forgetting only (supersede and forget of cognitive
\* memory).
THEOREM LineagesAreSoundAlways == Spec => []LineagesAreSound
BY Invariance, LineagesFollow, PTL

\* No answer shows what had been forgotten before it was asked for: recall,
\* summaries, subgraph, path, provenance and the memories.
THEOREM ServedIsLiveAlways == Spec => []ServedIsLive
<1>1. IInv => ServedIsLive
  BY DEF IInv, ServedAll, ServedIsLive
<1>2. QED BY <1>1, Invariance, PTL

\* Once a session is archived no append that was under way adds an entry.
THEOREM ArchiveFreezesAlways == Spec => ArchiveFreezes
<1>1. IInv /\ [Next]_vars =>
        [\A s \in DOMAIN db.session :
           db.session[s].archived => db'.session[s].entries = db.session[s].entries]_db
  BY StepFreezes DEF Freezes
<1>2. QED BY <1>1, Invariance, PTL DEF Spec, ArchiveFreezes

\* The revisions of a skill are only appended to and never repeat a content,
\* the current one moves only to a new or a selected one, and no pin is on a
\* revision that does not exist.
THEOREM RevisionsAreHistoryAlways == Spec => RevisionsAreHistory
<1>1. IInv /\ [Next]_vars =>
        [/\ \A s \in DOMAIN db.skill :
              LET old == db.skill[s]
                  new == db'.skill[s]
              IN  /\ IsPrefix(old.revisions, new.revisions)
                  /\ IsInjective(new.revisions)
                  /\ new.current # old.current =>
                       \/ new.current = Len(new.revisions) /\ new.current > Len(old.revisions)
                       \/ Selecting(s, new.current)
         /\ \A p \in DOMAIN db'.pin : db'.pin[p] \in 0..Len(db'.skill[p[2]].revisions)]_db
  BY StepIsHistory DEF vars, registries
<1>2. QED BY <1>1, Invariance, PTL DEF Spec, RevisionsAreHistory
===============================================================================
