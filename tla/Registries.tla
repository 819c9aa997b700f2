------------------------------ MODULE Registries ------------------------------
(***************************************************************************)
(* The registries the API keeps without a pipeline: cognitive memories     *)
(* with their idempotency ledger, sessions and their entries, skills with  *)
(* their revisions, agents with their pins and sessions, and datasets.     *)
(*                                                                         *)
(* A request is a coroutine of its own: between two of its actions others  *)
(* take theirs.  Row locks (SELECT ... FOR UPDATE) and an unfinished       *)
(* insert of a unique key are locks held until the transaction ends; what  *)
(* a transaction writes is written by the action that commits it, so a     *)
(* rollback leaves nothing.  An insert alone in its transaction is atomic. *)
(* The registries share no rows: the requests of a behaviour are all of    *)
(* one area.  A row is named by the request that creates it, a session,    *)
(* skill, agent or dataset by its unique name.                             *)
(***************************************************************************)
EXTENDS Integers, Sequences, FiniteSets, SequencesExt

CONSTANTS
    Requests,
    Keys,        \* idempotency keys, external ids
    Texts,       \* contents
    Null,
    MaxRequests, \* bound: requests of a behaviour, by area
    MaxFailures  \* bound: calls and transactions that fail

Areas == DOMAIN MaxRequests

ASSUME RegistriesAssumption ==
    /\ MaxRequests \in [Areas -> Nat]
    /\ MaxFailures \in Nat
    /\ Null \notin Requests \cup Keys \cup Texts
    /\ Null \notin {"memory", "unknown"} /\ "memory" \notin Requests
    /\ Texts # {}

VARIABLES
    area,    \* what this behaviour is about
    db,      \* the tables of PostgreSQL
    req,     \* the requests: what is asked, where they are, what they know
    failures \* how many calls and transactions have failed

registries == <<area, db, req, failures>>

-----------------------------------------------------------------------------
(* Requests and transactions *)

Idle == [ask |-> [op |-> "none", key |-> Null, on |-> Null, text |-> Null],
         pc |-> "idle", seen |-> Null, gone |-> {}, locks |-> {},
         out |-> [code |-> "none", id |-> Null, stale |-> {}]]

Op(r) == req[r].ask.op
Key(r) == req[r].ask.key
On(r) == req[r].ask.on
Text(r) == req[r].ask.text
Seen(r) == req[r].seen

\* The table f with the row v at x, inserted or replaced.
Put(f, x, v) == [y \in DOMAIN f \cup {x} |-> IF y = x THEN v ELSE f[y]]

\* The request takes the step pc of an operation in ops.
At(r, pc, ops) == req[r].pc = pc /\ Op(r) \in ops
Free_Ignored(r, lock) == TRUE
Free(r, lock) == \A q \in Requests \ {r} : lock \notin req[q].locks

\* On to the next step of the same transaction, or of the same handler.
Go(r, pc, seen, locks) ==
    req' = [req EXCEPT ![r].pc = pc, ![r].seen = seen, ![r].locks = @ \cup locks]

\* The answer ends the transaction.  Of what it shows, what had been erased
\* before the request began is remembered.
Reply(r, code, id, shown) ==
    req' = [req EXCEPT ![r] =
      [Idle EXCEPT !.ask = req[r].ask, !.pc = "done",
                   !.out = [code |-> code, id |-> id, stale |-> shown \cap req[r].gone]]]
Refuse(r, code) == Reply(r, code, Null, {}) /\ UNCHANGED db
Done(r, id) == Reply(r, "ok", id, {})

Fails == failures < MaxFailures /\ failures' = failures + 1
Holds == UNCHANGED failures

\* Leaving a unit of work without commit rolls it back.
Abort(r) ==
    /\ req[r].locks # {}
    /\ Fails /\ Refuse(r, "failed")

\* An embedding is computed before the transaction that uses it begins.
AfterEmbedding(op) ==
    CASE op \in {"create", "create_skill"} -> "insert"
      [] op \in {"supersede", "revise"} -> "lock"
      [] OTHER -> "search"
Embed(r) ==
    /\ req[r].pc = "embed"
    /\ \/ Holds /\ Go(r, AfterEmbedding(Op(r)), Null, {}) /\ UNCHANGED db
       \/ Fails /\ Refuse(r, "unavailable")

\* get_by_id_for_update of the row the request names.
LockedOps == {"supersede", "forget", "archive", "restore", "append", "revise", "select"}
LockRow(r) ==
    LET row == <<area, On(r)>>
    IN  /\ At(r, "lock", LockedOps) /\ Holds
        /\ IF On(r) \notin DOMAIN db[area] THEN Refuse(r, "not_found")
           ELSE /\ Free(r, row)
                /\ Go(r, IF area = "memory" THEN "insert" ELSE "apply",
                      db[area][On(r)], {row})
                /\ UNCHANGED db

-----------------------------------------------------------------------------
(* Cognitive memory *)

NewMemory(text) == [life |-> "active", text |-> text, by |-> Null]

\* _digest_for: the operation, its target and its payload.
Digest(r) == <<Op(r), On(r), Text(r)>>
Known(key) == key # Null /\ key \in DOMAIN db.ledger

\* memory_item_result: a forgotten memory is shown as a tombstone.
Shown(ids) == {m \in ids : db.memory[m].text # Null}

\* _hydrate: a replay answers with the rows as they are now.
Hydrate(r, result) ==
    LET ids == IF Op(r) = "supersede" THEN {On(r), result} ELSE {result}
    IN  IF ids \subseteq DOMAIN db.memory
        THEN Reply(r, "ok", result, Shown(ids)) /\ UNCHANGED db
        ELSE Refuse(r, "internal")

\* _require_same_operation_and_digest, and the replay.
Replay(r) ==
    LET entry == db.ledger[Key(r)]
    IN  IF entry.digest # Digest(r) THEN Refuse(r, "conflict") ELSE Hydrate(r, entry.result)

\* _pre_check: the committed ledger, read in a transaction of its own.
PreCheck(r) ==
    /\ At(r, "precheck", {"create", "supersede", "forget"}) /\ Holds
    /\ IF Known(Key(r)) THEN Replay(r)
       ELSE Go(r, IF Op(r) = "forget" THEN "lock" ELSE "embed", Null, {}) /\ UNCHANGED db

\* The insert of the ledger row in a savepoint waits for whoever is inserting
\* the same key; _resolve_existing_winner answers for the one who committed.
ClaimKey_NoWait(r) ==
    /\ At(r, "insert", {"create", "supersede", "forget"}) /\ Holds
    /\ IF Known(Key(r)) THEN Replay(r) ELSE Go(r, "apply", Seen(r), {}) /\ UNCHANGED db
ClaimKey(r) ==
    LET lock == <<"key", Key(r)>>
    IN  /\ At(r, "insert", {"create", "supersede", "forget"}) /\ Holds
        /\ Key(r) # Null => Free(r, lock)
        /\ IF Known(Key(r)) THEN Replay(r)
           ELSE Go(r, "apply", Seen(r), {lock}) /\ UNCHANGED db

\* The ledger row and the memory it names are committed together.
Ledger(r, result) ==
    IF Key(r) = Null THEN db.ledger
    ELSE Put(db.ledger, Key(r), [digest |-> Digest(r), result |-> result])

CreateMemory(r) ==
    /\ At(r, "apply", {"create"}) /\ Holds
    /\ db' = [db EXCEPT !.memory = Put(@, r, NewMemory(Text(r))), !.ledger = Ledger(r, r)]
    /\ Done(r, r)

\* Only an active memory is superseded: one that is not gives the key back.
Supersede(r) ==
    /\ At(r, "apply", {"supersede"}) /\ Holds
    /\ IF Seen(r).life # "active" THEN Refuse(r, "state_conflict")
       ELSE /\ db' = [db EXCEPT
                 !.memory = Put(Put(@, On(r), [Seen(r) EXCEPT !.life = "superseded", !.by = r]),
                                r, NewMemory(Text(r))),
                 !.ledger = Ledger(r, r)]
            /\ Done(r, r)

\* Forgetting erases the content and keeps what superseded it.
Forget(r) ==
    /\ At(r, "apply", {"forget"}) /\ Holds
    /\ db' = [db EXCEPT
         !.memory = Put(@, On(r), [Seen(r) EXCEPT !.life = "forgotten", !.text = Null]),
         !.ledger = Ledger(r, On(r))]
    /\ Done(r, On(r))

GetMemory(r) ==
    /\ At(r, "read", {"get"}) /\ Holds
    /\ IF On(r) \in DOMAIN db.memory THEN Hydrate(r, On(r)) ELSE Refuse(r, "not_found")

\* typed_recall: one statement, of what is not forgotten (ask.key: also of
\* what was superseded).
Recallable(m) ==
    /\ db.memory[m].life # "forgotten" /\ db.memory[m].text # Null
TypedRecall(r) ==
    LET hits == {m \in DOMAIN db.memory :
                   Recallable(m) /\ (Key(r) # Null \/ db.memory[m].life = "active")}
    IN  /\ At(r, "search", {"typed_recall"}) /\ Holds
        /\ Reply(r, "ok", Null, Shown(hits)) /\ UNCHANGED db

Memory(r) == \/ PreCheck(r) \/ ClaimKey(r) \/ CreateMemory(r) \/ Supersede(r)
             \/ Forget(r) \/ GetMemory(r) \/ TypedRecall(r)

MemoryAsks ==
    LET keys == Keys \cup {Null}
        known == DOMAIN db.memory \cup {"unknown"}
    IN  [op : {"create"}, key : keys, on : {Null}, text : Texts]
        \cup [op : {"supersede"}, key : keys, on : known, text : Texts]
        \cup [op : {"forget"}, key : keys, on : known, text : {Null}]
        \cup [op : {"get"}, key : {Null}, on : known, text : {Null}]
        \cup [op : {"typed_recall"}, key : keys, on : {Null}, text : {Null}]

-----------------------------------------------------------------------------
(* Sessions *)

NewSession == [archived |-> FALSE, entries |-> <<>>]

\* create_session: the key is unique.
CreateSession(r) ==
    /\ At(r, "insert", {"create_session"}) /\ Holds
    /\ IF On(r) \in DOMAIN db.session THEN Refuse(r, "conflict")
       ELSE db' = [db EXCEPT !.session = Put(@, On(r), NewSession)] /\ Done(r, On(r))

ArchiveSession(r) ==
    /\ area = "session" /\ At(r, "apply", {"archive"}) /\ Holds
    /\ db' = [db EXCEPT !.session[On(r)] = [Seen(r) EXCEPT !.archived = TRUE]]
    /\ Done(r, On(r))
RestoreSession(r) ==
    /\ area = "session" /\ At(r, "apply", {"restore"}) /\ Holds
    /\ db' = [db EXCEPT !.session[On(r)] = [Seen(r) EXCEPT !.archived = FALSE]]
    /\ Done(r, On(r))

\* append_entry, under the row lock: a replay is answered also when the
\* session is archived, anything new is not.
AppendEntry(r) ==
    LET same == {e \in ToSet(Seen(r).entries) : Key(r) # Null /\ e.key = Key(r)}
        entry == [id |-> r, key |-> Key(r), text |-> Text(r)]
    IN  /\ At(r, "apply", {"append"}) /\ Holds
        /\ IF same # {}
           THEN IF \A e \in same : e.text = Text(r)
                THEN (\E e \in same : Done(r, e.id)) /\ UNCHANGED db
                ELSE Refuse(r, "conflict")
           ELSE IF Seen(r).archived THEN Refuse(r, "archived")
           ELSE /\ db' = [db EXCEPT !.session[On(r)].entries = Append(@, entry)]
                /\ Done(r, r)

\* _admit_session of Recall: the session is created when there is none.  One
\* that exists is loaded without a lock, then selected again FOR UPDATE; its
\* status is the one loaded first.
AdmitSession(r) ==
    /\ At(r, "admit", {"recall_in_session"}) /\ Holds
    /\ IF On(r) \in DOMAIN db.session
       THEN Go(r, "admit_locked", db.session[On(r)], {}) /\ UNCHANGED db
       ELSE db' = [db EXCEPT !.session = Put(@, On(r), NewSession)] /\ Done(r, On(r))
AdmitLocked(r) ==
    /\ At(r, "admit_locked", {"recall_in_session"}) /\ Holds
    /\ Free(r, <<"session", On(r)>>)
    /\ IF Seen(r).archived THEN Refuse(r, "archived") ELSE Done(r, On(r)) /\ UNCHANGED db

Session(r) == \/ CreateSession(r) \/ ArchiveSession(r) \/ RestoreSession(r)
              \/ AppendEntry(r) \/ AdmitSession(r) \/ AdmitLocked(r)

SessionNames == {"session", "other"}
SessionAsks ==
    [op : {"create_session", "archive", "restore", "recall_in_session"}, key : {Null},
     on : SessionNames, text : {Null}]
    \cup [op : {"append"}, key : Keys \cup {Null}, on : SessionNames, text : Texts]

-----------------------------------------------------------------------------
(* Skills, agents and pins *)

NewSkill(text) == [archived |-> FALSE, revisions |-> <<text>>, current |-> 1]

\* create_skill and import_skill: the name is unique.
CreateSkill(r) ==
    /\ At(r, "insert", {"create_skill"}) /\ Holds
    /\ IF On(r) \in DOMAIN db.skill THEN Refuse(r, "conflict")
       ELSE db' = [db EXCEPT !.skill = Put(@, On(r), NewSkill(Text(r)))] /\ Done(r, On(r))

\* create_revision and import_revision read the name, then embed.
ReadName(r) ==
    /\ At(r, "name", {"revise"}) /\ Holds
    /\ IF On(r) \in DOMAIN db.skill THEN Go(r, "embed", Null, {}) /\ UNCHANGED db
       ELSE Refuse(r, "not_found")

\* create_skill_revision: content the skill already has is a replay, which
\* leaves current_revision where it is.
Revise_Reselects(r) ==
    LET revisions == Seen(r).revisions
    IN  /\ At(r, "apply", {"revise"}) /\ Holds
        /\ IF Text(r) \in ToSet(revisions)
           THEN db' = [db EXCEPT !.skill[On(r)].current =
                         CHOOSE i \in DOMAIN revisions : revisions[i] = Text(r)]
           ELSE db' = [db EXCEPT !.skill[On(r)] =
                  [Seen(r) EXCEPT !.revisions = Append(@, Text(r)), !.current = Len(revisions) + 1]]
        /\ Done(r, On(r))
Revise(r) ==
    LET revisions == Seen(r).revisions
    IN  /\ At(r, "apply", {"revise"}) /\ Holds
        /\ IF Text(r) \in ToSet(revisions) THEN UNCHANGED db
           ELSE db' = [db EXCEPT !.skill[On(r)] =
                  [Seen(r) EXCEPT !.revisions = Append(@, Text(r)), !.current = Len(revisions) + 1]]
        /\ Done(r, On(r))

\* update_skill: the current revision becomes the one asked for (ask.key).
SelectRevision(r) ==
    /\ At(r, "apply", {"select"}) /\ Holds
    /\ IF Key(r) \notin DOMAIN Seen(r).revisions THEN Refuse(r, "invalid")
       ELSE /\ db' = [db EXCEPT !.skill[On(r)] = [Seen(r) EXCEPT !.current = Key(r)]]
            /\ Done(r, On(r))

ArchiveSkill(r) ==
    /\ area = "skill" /\ At(r, "apply", {"archive"}) /\ Holds
    /\ db' = [db EXCEPT !.skill[On(r)] = [Seen(r) EXCEPT !.archived = TRUE]]
    /\ Done(r, On(r))
RestoreSkill(r) ==
    /\ area = "skill" /\ At(r, "apply", {"restore"}) /\ Holds
    /\ db' = [db EXCEPT !.skill[On(r)] = [Seen(r) EXCEPT !.archived = FALSE]]
    /\ Done(r, On(r))

\* create_agent, with its unique name.
CreateAgent(r) ==
    /\ At(r, "insert", {"create_agent"}) /\ Holds
    /\ IF On(r) \in db.agent THEN Refuse(r, "conflict")
       ELSE db' = [db EXCEPT !.agent = @ \cup {On(r)}] /\ Done(r, On(r))

\* set_skill reads agent, skill and revision without a lock and upserts the
\* pin (0: none); its foreign key waits for whoever has locked the skill.
SetPin(r) ==
    /\ At(r, "pin", {"pin"}) /\ Holds
    /\ IF Text(r) \notin db.agent \/ On(r) \notin DOMAIN db.skill THEN Refuse(r, "not_found")
       ELSE IF Key(r) \notin 0..Len(db.skill[On(r)].revisions) THEN Refuse(r, "invalid")
       ELSE /\ Free(r, <<"skill", On(r)>>)
            /\ db' = [db EXCEPT !.pin = Put(@, <<Text(r), On(r)>>, Key(r))]
            /\ Done(r, On(r))
RemovePin(r) ==
    /\ At(r, "pin", {"unpin"}) /\ Holds
    /\ IF Text(r) \notin db.agent \/ On(r) \notin DOMAIN db.skill THEN Refuse(r, "not_found")
       ELSE /\ db' = [db EXCEPT !.pin =
                 [p \in DOMAIN @ \ {<<Text(r), On(r)>>} |-> @[p]]]
            /\ Done(r, On(r))

\* associate_session: an insert that does nothing when the pair is there, then
\* the pair is read to answer with it.  An unfinished insert of it is waited
\* for; a row that is there already is not locked.
Associate(r) ==
    LET pair == <<Text(r), On(r)>>
    IN  /\ At(r, "ensure", {"associate"}) /\ Holds
        /\ IF Text(r) \notin db.agent \/ On(r) \notin DOMAIN db.session
           THEN Refuse(r, "not_found")
           ELSE /\ Free(r, pair)
                /\ Go(r, "confirm", pair \in db.member,
                      IF pair \in db.member THEN {} ELSE {pair})
                /\ UNCHANGED db
\* A pair removed in between is reported as a session that does not exist.
Associated(r) ==
    LET pair == <<Text(r), On(r)>>
    IN  /\ At(r, "confirm", {"associate"}) /\ Holds
        /\ IF Seen(r) /\ pair \notin db.member THEN Refuse(r, "not_found")
           ELSE db' = [db EXCEPT !.member = @ \cup {pair}] /\ Done(r, On(r))
Dissociate(r) ==
    /\ At(r, "ensure", {"dissociate"}) /\ Holds
    /\ IF Text(r) \notin db.agent THEN Refuse(r, "not_found")
       ELSE db' = [db EXCEPT !.member = @ \ {<<Text(r), On(r)>>}] /\ Done(r, On(r))

Agent(r) == CreateAgent(r) \/ Associate(r) \/ Associated(r) \/ Dissociate(r)

Skill(r) == \/ CreateSkill(r) \/ ReadName(r) \/ Revise(r) \/ SelectRevision(r)
            \/ ArchiveSkill(r) \/ RestoreSkill(r) \/ SetPin(r) \/ RemovePin(r)

SkillNames == {"skill", "other"}
Agents == {"agent", "other"}
SkillAsks ==
    [op : {"archive", "restore"}, key : {Null}, on : {"skill"}, text : {Null}]
    \cup [op : {"create_skill", "revise"}, key : {Null}, on : SkillNames, text : Texts]
    \cup [op : {"select"}, key : 1..3, on : {"skill"}, text : {Null}]
    \cup [op : {"create_agent"}, key : {Null}, on : {"other"}, text : {Null}]
    \cup [op : {"pin"}, key : {0, 2}, on : SkillNames, text : Agents]
    \cup [op : {"unpin"}, key : {Null}, on : {"skill"}, text : {"agent"}]
AgentAsks ==
    [op : {"create_agent"}, key : {Null}, on : {"other"}, text : {Null}]
    \cup [op : {"associate", "dissociate"}, key : {Null}, on : SessionNames, text : Agents]

-----------------------------------------------------------------------------
(* Datasets *)

\* A dataset is named by its slug; a retired one keeps slug and name.
NamedBy(name) == {d \in DOMAIN db.dataset : db.dataset[d].name = name}

\* ensure_dataset_name_and_slug_available.
Taken(r) ==
    \/ NamedBy(Text(r)) \ {On(r)} # {}
    \/ Op(r) = "create_dataset" /\ On(r) \in DOMAIN db.dataset

\* create_dataset and rename_dataset look first and write later.
CheckName(r) ==
    /\ At(r, "check", {"create_dataset", "rename"}) /\ Holds
    /\ IF Op(r) = "create_dataset" /\ On(r) = "main" THEN Refuse(r, "invalid")
       ELSE IF Op(r) = "rename" /\ On(r) \notin DOMAIN db.dataset THEN Refuse(r, "not_found")
       ELSE IF Op(r) = "rename" /\ ~db.dataset[On(r)].live THEN Refuse(r, "invalid")
       ELSE IF Taken(r) THEN Refuse(r, "conflict")
       ELSE Go(r, "write", Null, {}) /\ UNCHANGED db

\* A name or slug taken meanwhile is an IntegrityError, and a conflict.
WriteName(r) ==
    /\ At(r, "write", {"create_dataset", "rename"}) /\ Holds
    /\ IF Taken(r) THEN Refuse(r, "conflict")
       ELSE /\ db' = [db EXCEPT !.dataset =
                 Put(@, On(r), [name |-> Text(r),
                                live |-> Op(r) = "create_dataset" \/ db.dataset[On(r)].live])]
            /\ Done(r, On(r))

\* A forget or a delete of the dataset begins.
Retire(d) ==
    /\ \/ area = "dataset"
       \/ area = "knowledge" /\ d = "dataset"
    /\ db.dataset[d].live
    /\ db' = [db EXCEPT !.dataset[d].live = FALSE]
    /\ UNCHANGED <<area, req, failures>>

Dataset(r) == CheckName(r) \/ WriteName(r)

DatasetAsks ==
    [op : {"create_dataset", "rename"}, key : {Null}, on : {"main", "dataset", "unknown"},
     text : Texts]

-----------------------------------------------------------------------------
\* Where a request starts, by what it asks.
First(op) ==
    CASE op \in {"create", "supersede", "forget"} -> "precheck"
      [] op = "get" -> "read"
      [] op \in {"typed_recall", "create_skill"} -> "embed"
      [] op \in {"create_session", "create_agent"} -> "insert"
      [] op \in {"archive", "restore", "append", "select"} -> "lock"
      [] op = "recall_in_session" -> "admit"
      [] op = "revise" -> "name"
      [] op \in {"pin", "unpin"} -> "pin"
      [] op \in {"associate", "dissociate"} -> "ensure"
      [] op \in {"create_dataset", "rename"} -> "check"
      [] OTHER -> "resolve"

\* A request arrives, once; gone is what had been erased by then.
Begin(r, asks, gone) ==
    /\ req[r].pc = "idle"
    /\ Cardinality({q \in Requests : req[q].pc # "idle"}) < MaxRequests[area]
    /\ \E ask \in asks :
         req' = [req EXCEPT ![r] = [Idle EXCEPT !.ask = ask, !.pc = First(ask.op), !.gone = gone]]
    /\ UNCHANGED <<area, db, failures>>

Erased == {m \in DOMAIN db.memory : db.memory[m].text = Null}

Registry(r) ==
    \/ area = "memory" /\ Begin(r, MemoryAsks, Erased)
    \/ area = "session" /\ Begin(r, SessionAsks, {})
    \/ area = "skill" /\ Begin(r, SkillAsks, {})
    \/ area = "agent" /\ Begin(r, AgentAsks, {})
    \/ area = "dataset" /\ Begin(r, DatasetAsks, {})
    \/ /\ Embed(r) \/ LockRow(r) \/ Abort(r)
          \/ Memory(r) \/ Session(r) \/ Skill(r) \/ Agent(r) \/ Dataset(r)
       /\ UNCHANGED area
=============================================================================
