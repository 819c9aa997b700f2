---------------------------- MODULE SourcesProofs ----------------------------
(***************************************************************************)
(* Proofs about Sources, for every number of versions and of runs, every   *)
(* set of requests and any number of faults.                               *)
(* The argument has two layers.  Of the runs (RunsInv): one is executed at *)
(* a time, and the deletes under way are one lineage.  Of the bytes        *)
(* (BytesInv): a source is stored by one run, whose bytes are in the       *)
(* ingress or under their final name; what is in use, or will be again     *)
(* (Meant), is readable; what was noted as cleared is gone; and a pass of  *)
(* convergence never acts on a snapshot that is no longer true.            *)
(***************************************************************************)
EXTENDS Sources, FiniteSetTheorems, WellFoundedInduction, TLAPS

-----------------------------------------------------------------------------
(* What holds of the runs *)

Pass == [at : {"idle", "scan", "copied", "moved"}, todo : SUBSET Sources,
         snap : [Sources -> Source], cur : Sources \cup {None}, failed : SUBSET Sources,
         d43 : SUBSET Sources, lineage : SUBSET Runs, again : BOOLEAN]

TypeOK ==
    /\ phase \in {"operational", "converging", "down"} /\ backend \in {"file", "s3"}
    /\ dataset \in {"active", "deleting", "deleted"}
    /\ source \in [Sources -> Source]
    /\ local \subseteq Sources /\ s3 \subseteq Sources /\ ingress \subseteq Runs
    /\ run \in [Runs -> Run]
    /\ pass \in Pass /\ (pass.at \in {"copied", "moved"} => pass.cur \in Sources)
    /\ lost \subseteq Sources /\ crossed \subseteq Sources

\* Versions and runs are numbered as they come.
Numbered ==
    /\ \E n \in 0..MaxSources : Known = 1..n
    /\ \E n \in 0..MaxRuns : Created = 1..n

Length(r) == IF IsDelete(r) THEN 5 ELSE 3

RunShape(r) ==
    /\ run[r].of # None => /\ run[r].of \in Created /\ run[run[r].of].status = "failed"
                           /\ run[run[r].of].ask = run[r].ask
    /\ run[r].status = "succeeded" <=> run[r].step > Length(r)
    /\ run[r].conflict => run[r].status = "failed" /\ run[r].step = 1
    /\ run[r].rows # "none" => IsDelete(r) /\ run[r].step = 3
    /\ Kind(r) = "forget_source" => run[r].ask.target \in Known
    /\ Kind(r) = "remember" => IF run[r].step = 1 THEN run[r].src = None /\ ~run[r].dedup
                               ELSE run[r].src \in Known

OneAtATime ==
    \A q, r \in Runs : run[q].status = "running" /\ run[r].status = "running" => q = r

\* While storage converges only what has mutated its targets is executed.
ConvergingRuns ==
    phase = "converging" => \A r \in Runs : run[r].status = "running" => Mutated(r)

DeleteKeepsDataset == DeleteOwnsDataset => dataset # "active"

\* The deletes under way, and the one that waits for its manual retry.
Open(r) ==
    /\ r \in Created /\ IsDelete(r)
    /\ \/ Nonterminal(r)
       \/ /\ run[r].status = "failed" /\ run[r].step > 1
          /\ \A q \in Created : run[q].of # r
OneLineage == RetriedAnew \/ \A q, r \in Runs : Open(q) /\ Open(r) => q = r

RunsInv ==
    /\ TypeOK /\ Numbered
    /\ \A r \in Created : RunShape(r)
    /\ OneAtATime /\ ConvergingRuns /\ DeleteKeepsDataset /\ OneLineage

-----------------------------------------------------------------------------
(* The names of steps *)

LEMMA Kinds ==
    ASSUME TypeOK, NEW r \in Runs
    PROVE  /\ Kind(r) \in {"remember", "dataset_delete", "forget_source", "forget_dataset",
                           "everything"}
           /\ IsForget(r) <=> Kind(r) \in {"forget_source", "forget_dataset", "everything"}
           /\ IsDelete(r) <=> Kind(r) = "dataset_delete"
           /\ Length(r) = Len(Plan(Kind(r)))
           /\ run[r].step \in 1..6
BY DEF TypeOK, Run, Ask, ForgetKinds, Kind, IsForget, IsDelete, Length, Plan

LEMMA StepNames ==
    ASSUME TypeOK, NEW r \in Runs, run[r].step <= Length(r)
    PROVE  /\ Step(r) = "ingest" => Kind(r) = "remember" /\ run[r].step = 1
           /\ Step(r) = "store" <=> Kind(r) = "remember" /\ run[r].step = 2
           /\ Step(r) = "cognify" => Kind(r) = "remember" /\ run[r].step = 3
           /\ Step(r) = "begin" => IsDelete(r) /\ run[r].step = 1
           /\ Step(r) = "deactivate" => IsDelete(r) /\ run[r].step = 2
           /\ Step(r) = "converge" => IsDelete(r) /\ run[r].step = 3
           /\ Step(r) = "delete" => (IsDelete(r) /\ run[r].step = 4) \/ (IsForget(r) /\ run[r].step = 2)
           /\ Step(r) = "tombstone" => IsDelete(r) /\ run[r].step = 5
           /\ Step(r) = "mutate" => IsForget(r) /\ run[r].step = 1
           /\ Step(r) = "finalize" => IsForget(r) /\ run[r].step = 3
<1>1. CASE Kind(r) = "remember"
  <2>1. run[r].step \in {1, 2, 3} /\ Step(r) = <<"ingest", "store", "cognify">>[run[r].step]
    BY <1>1, Kinds DEF Length, Step, Plan
  <2>2. QED BY <1>1, <2>1
<1>2. CASE Kind(r) = "dataset_delete"
  <2>1. /\ run[r].step \in {1, 2, 3, 4, 5} /\ IsDelete(r)
        /\ Step(r) = <<"begin", "deactivate", "converge", "delete", "tombstone">>[run[r].step]
    BY <1>2, Kinds DEF Length, Step, Plan
  <2>2. QED BY <1>2, <2>1
<1>3. CASE Kind(r) \in {"forget_source", "forget_dataset", "everything"}
  <2>1. /\ run[r].step \in {1, 2, 3} /\ IsForget(r)
        /\ Step(r) = <<"mutate", "delete", "finalize">>[run[r].step]
    BY <1>3, Kinds DEF Length, Step, Plan
  <2>2. QED BY <1>3, <2>1
<1>4. QED BY <1>1, <1>2, <1>3, Kinds

LEMMA PlanPasses ==
    ASSUME NEW kind, NEW n \in 1..6
    PROVE  /\ kind = "dataset_delete" =>
                ((\E i \in 1..Len(Plan(kind)) : i < n /\ Plan(kind)[i] = "begin") <=> n > 1)
           /\ kind = "dataset_delete" =>
                ((\E i \in 1..Len(Plan(kind)) : i < n /\ Plan(kind)[i] = "deactivate") <=> n > 2)
           /\ kind \in ForgetKinds =>
                ((\E i \in 1..Len(Plan(kind)) : i < n /\ Plan(kind)[i] = "mutate") <=> n > 1)
<1>1. CASE kind = "dataset_delete"
  <2>1. Plan(kind) = <<"begin", "deactivate", "converge", "delete", "tombstone">>
    BY <1>1 DEF Plan
  <2>2. kind \notin ForgetKinds
    BY <1>1 DEF ForgetKinds
  <2>3. /\ Len(Plan(kind)) = 5
        /\ \A i \in 1..5 : /\ Plan(kind)[i] = "begin" <=> i = 1
                           /\ Plan(kind)[i] = "deactivate" <=> i = 2
    BY <2>1
  <2>4. (\E i \in 1..5 : i < n /\ i = 1) <=> n > 1
    OBVIOUS
  <2>5. (\E i \in 1..5 : i < n /\ i = 2) <=> n > 2
    OBVIOUS
  <2>6. QED BY <2>2, <2>3, <2>4, <2>5
<1>2. CASE kind \in ForgetKinds
  <2>1. Plan(kind) = <<"mutate", "delete", "finalize">> /\ kind # "dataset_delete"
    BY <1>2 DEF Plan, ForgetKinds
  <2>2. Len(Plan(kind)) = 3 /\ \A i \in 1..3 : Plan(kind)[i] = "mutate" <=> i = 1
    BY <2>1
  <2>3. QED BY <2>1, <2>2
<1>3. QED BY <1>1, <1>2

LEMMA Passing ==
    ASSUME TypeOK, NEW r \in Runs
    PROVE  /\ IsDelete(r) => (Passed(r, "begin") <=> run[r].step > 1)
           /\ Mutated(r) <=> (IsForget(r) /\ run[r].step > 1) \/ (IsDelete(r) /\ run[r].step > 2)
<1>1. run[r].step \in 1..6
  BY DEF TypeOK, Run
<1>2. IsDelete(r) => (Passed(r, "begin") <=> run[r].step > 1)
  <2> SUFFICES ASSUME IsDelete(r) PROVE Passed(r, "begin") <=> run[r].step > 1
    OBVIOUS
  <2> DEFINE kind == run[r].ask.kind  at == run[r].step
  <2>1. kind = "dataset_delete" /\ at \in 1..6
    BY <1>1 DEF IsDelete, Kind
  <2>2. Passed(r, "begin") <=> \E i \in 1..Len(Plan(kind)) : i < at /\ Plan(kind)[i] = "begin"
    BY DEF Passed, Kind
  <2>3. (\E i \in 1..Len(Plan(kind)) : i < at /\ Plan(kind)[i] = "begin") <=> at > 1
    <3> HIDE DEF kind, at
    <3>1. QED BY <2>1, PlanPasses
  <2>4. QED BY <2>2, <2>3
<1>3. IsDelete(r) => (Passed(r, "deactivate") <=> run[r].step > 2)
  <2> SUFFICES ASSUME IsDelete(r) PROVE Passed(r, "deactivate") <=> run[r].step > 2
    OBVIOUS
  <2> DEFINE kind == run[r].ask.kind  at == run[r].step
  <2>1. kind = "dataset_delete" /\ at \in 1..6
    BY <1>1 DEF IsDelete, Kind
  <2>2. Passed(r, "deactivate") <=> \E i \in 1..Len(Plan(kind)) : i < at /\ Plan(kind)[i] = "deactivate"
    BY DEF Passed, Kind
  <2>3. (\E i \in 1..Len(Plan(kind)) : i < at /\ Plan(kind)[i] = "deactivate") <=> at > 2
    <3> HIDE DEF kind, at
    <3>1. QED BY <2>1, PlanPasses
  <2>4. QED BY <2>2, <2>3
<1>4. IsForget(r) => (Passed(r, "mutate") <=> run[r].step > 1)
  <2> SUFFICES ASSUME IsForget(r) PROVE Passed(r, "mutate") <=> run[r].step > 1
    OBVIOUS
  <2> DEFINE kind == run[r].ask.kind  at == run[r].step
  <2>1. kind \in ForgetKinds /\ at \in 1..6
    BY <1>1 DEF IsForget, Kind
  <2>2. Passed(r, "mutate") <=> \E i \in 1..Len(Plan(kind)) : i < at /\ Plan(kind)[i] = "mutate"
    BY DEF Passed, Kind
  <2>3. (\E i \in 1..Len(Plan(kind)) : i < at /\ Plan(kind)[i] = "mutate") <=> at > 1
    <3> HIDE DEF kind, at
    <3>1. QED BY <2>1, PlanPasses
  <2>4. QED BY <2>2, <2>3
<1>5. QED BY <1>1, <1>2, <1>3, <1>4 DEF Mutated

LEMMA PassingThen ==
    ASSUME TypeOK', NEW r \in Runs
    PROVE  /\ run'[r].step \in 1..6
           /\ IsDelete(r)' => (Passed(r, "begin")' <=> run'[r].step > 1)
           /\ Mutated(r)' <=> (IsForget(r)' /\ run'[r].step > 1) \/ (IsDelete(r)' /\ run'[r].step > 2)
<1>1. run'[r].step \in 1..6
  BY DEF TypeOK, Run
<1>2. IsDelete(r)' => (Passed(r, "begin")' <=> run'[r].step > 1)
  <2> SUFFICES ASSUME IsDelete(r)' PROVE Passed(r, "begin")' <=> run'[r].step > 1
    OBVIOUS
  <2> DEFINE kind == run'[r].ask.kind  at == run'[r].step
  <2>1. kind = "dataset_delete" /\ at \in 1..6
    BY <1>1 DEF IsDelete, Kind
  <2>2. Passed(r, "begin")' <=> \E i \in 1..Len(Plan(kind)) : i < at /\ Plan(kind)[i] = "begin"
    BY DEF Passed, Kind
  <2>3. (\E i \in 1..Len(Plan(kind)) : i < at /\ Plan(kind)[i] = "begin") <=> at > 1
    <3> HIDE DEF kind, at
    <3>1. QED BY <2>1, PlanPasses
  <2>4. QED BY <2>2, <2>3
<1>3. IsDelete(r)' => (Passed(r, "deactivate")' <=> run'[r].step > 2)
  <2> SUFFICES ASSUME IsDelete(r)' PROVE Passed(r, "deactivate")' <=> run'[r].step > 2
    OBVIOUS
  <2> DEFINE kind == run'[r].ask.kind  at == run'[r].step
  <2>1. kind = "dataset_delete" /\ at \in 1..6
    BY <1>1 DEF IsDelete, Kind
  <2>2. Passed(r, "deactivate")' <=> \E i \in 1..Len(Plan(kind)) : i < at /\ Plan(kind)[i] = "deactivate"
    BY DEF Passed, Kind
  <2>3. (\E i \in 1..Len(Plan(kind)) : i < at /\ Plan(kind)[i] = "deactivate") <=> at > 2
    <3> HIDE DEF kind, at
    <3>1. QED BY <2>1, PlanPasses
  <2>4. QED BY <2>2, <2>3
<1>4. IsForget(r)' => (Passed(r, "mutate")' <=> run'[r].step > 1)
  <2> SUFFICES ASSUME IsForget(r)' PROVE Passed(r, "mutate")' <=> run'[r].step > 1
    OBVIOUS
  <2> DEFINE kind == run'[r].ask.kind  at == run'[r].step
  <2>1. kind \in ForgetKinds /\ at \in 1..6
    BY <1>1 DEF IsForget, Kind
  <2>2. Passed(r, "mutate")' <=> \E i \in 1..Len(Plan(kind)) : i < at /\ Plan(kind)[i] = "mutate"
    BY DEF Passed, Kind
  <2>3. (\E i \in 1..Len(Plan(kind)) : i < at /\ Plan(kind)[i] = "mutate") <=> at > 1
    <3> HIDE DEF kind, at
    <3>1. QED BY <2>1, PlanPasses
  <2>4. QED BY <2>2, <2>3
<1>5. QED BY <1>1, <1>2, <1>3, <1>4 DEF Mutated

\* The step a run is at, for the actions of a step.
LEMMA AtStep ==
    ASSUME RunsInv, NEW r \in Runs, NEW name, Runs_(r, name)
    PROVE  /\ r \in Created /\ run[r].status = "running" /\ Step(r) = name
           /\ run[r].step \in 1..Length(r) /\ run[r].step \in 1..5 /\ phase # "down"
BY Kinds DEF RunsInv, Runs_, Created, RunShape, Length

-----------------------------------------------------------------------------
(* A step of one run *)

Only(r) == \A q \in Runs \ {r} : run'[q] = run[q]

\* The row of r after a step of the engine: what no step but the first of
\* Remember touches stays.
RowIs(r, status, step) ==
    /\ run' \in [Runs -> Run] /\ Only(r)
    /\ run'[r].ask = run[r].ask /\ run'[r].of = run[r].of
    /\ run'[r].status = status /\ run'[r].step = step /\ run'[r].pc = "ready"
    /\ run'[r].uri = run[r].uri /\ run'[r].results = run[r].results
    /\ run'[r].conflict = run[r].conflict
SameSource(r) == run'[r].src = run[r].src /\ run'[r].dedup = run[r].dedup
SameRows(r) == run'[r].rows = run[r].rows

LEMMA FailFields ==
    ASSUME TypeOK, NEW r \in Runs, FailPermanently(r)
    PROVE  RowIs(r, "failed", run[r].step) /\ SameSource(r) /\ SameRows(r)
<1> DEFINE new == [run[r] EXCEPT !.status = "failed", !.pc = "ready"]
<1>1. run' = [run EXCEPT ![r] = new]
  BY DEF FailPermanently, TypeOK
<1>2. run[r] \in Run
  BY DEF TypeOK
<1>3. new \in Run
  BY <1>2 DEF Run
<1>4. /\ new.ask = run[r].ask /\ new.step = run[r].step /\ new.pc = "ready"
      /\ new.of = run[r].of /\ new.src = run[r].src /\ new.dedup = run[r].dedup
      /\ new.uri = run[r].uri /\ new.results = run[r].results /\ new.rows = run[r].rows
      /\ new.conflict = run[r].conflict /\ new.status = "failed"
  BY <1>2 DEF Run
<1> HIDE DEF new
<1>5. QED BY <1>1, <1>3, <1>4 DEF TypeOK, RowIs, Only, SameSource, SameRows

Next_(r) == IF run[r].step = Length(r) THEN "succeeded" ELSE "running"

LEMMA AdvancedFields ==
    ASSUME TypeOK, NEW r \in Runs, run[r].status = "running", run[r].step \in 1..5,
           NEW row \in Run, row.ask = run[r].ask, row.step = run[r].step, row.status = "running",
           Persist(r, row)
    PROVE  /\ run' \in [Runs -> Run] /\ Only(r)
           /\ run'[r].ask = run[r].ask /\ run'[r].status = Next_(r)
           /\ run'[r].step = run[r].step + 1 /\ run'[r].pc = "ready"
           /\ run'[r].of = row.of /\ run'[r].src = row.src /\ run'[r].dedup = row.dedup
           /\ run'[r].uri = row.uri /\ run'[r].results = row.results
           /\ run'[r].rows = row.rows /\ run'[r].conflict = row.conflict
<1> DEFINE new == [row EXCEPT !.step = row.step + 1, !.pc = "ready",
                              !.status = IF row.step = Len(Plan(row.ask.kind)) THEN "succeeded" ELSE @]
<1>1. run' = [run EXCEPT ![r] = new]
  BY DEF Persist, Advanced
<1>2. new \in Run
  <2> DEFINE st == IF row.step = Len(Plan(row.ask.kind)) THEN "succeeded" ELSE row.status
             at == row.step + 1
  <2>1. at \in 1..6 /\ st \in {"running", "succeeded"}
    OBVIOUS
  <2>2. new = [row EXCEPT !.step = at, !.pc = "ready", !.status = st]
    OBVIOUS
  <2> HIDE DEF new, st, at
  <2>3. QED BY <2>1, <2>2 DEF Run
<1>3. /\ new.ask = row.ask /\ new.step = row.step + 1 /\ new.pc = "ready"
      /\ new.of = row.of /\ new.src = row.src /\ new.dedup = row.dedup /\ new.uri = row.uri
      /\ new.results = row.results /\ new.rows = row.rows /\ new.conflict = row.conflict
      /\ new.status = IF row.step = Len(Plan(row.ask.kind)) THEN "succeeded" ELSE "running"
  BY DEF Run
<1>4. new.status = Next_(r)
  BY <1>3, Kinds DEF Next_, Kind
<1> HIDE DEF new
<1>5. QED BY <1>1, <1>2, <1>3, <1>4 DEF TypeOK, Only

LEMMA PersistFields ==
    ASSUME TypeOK, NEW r \in Runs, run[r].status = "running", run[r].step \in 1..5,
           Persist(r, run[r])
    PROVE  RowIs(r, Next_(r), run[r].step + 1) /\ SameSource(r) /\ SameRows(r)
BY AdvancedFields DEF TypeOK, RowIs, SameSource, SameRows

LEMMA ForgottenFields ==
    ASSUME NEW row \in Run
    PROVE  /\ Forgotten(row) \in Run
           /\ Forgotten(row).ask = row.ask /\ Forgotten(row).of = row.of
           /\ Forgotten(row).status = row.status /\ Forgotten(row).step = row.step
           /\ Forgotten(row).src = row.src /\ Forgotten(row).dedup = row.dedup
           /\ Forgotten(row).rows = row.rows /\ Forgotten(row).conflict = row.conflict
           /\ row.status = "running" => Forgotten(row).pc = "ready"
           /\ row.status # "running" => Forgotten(row) = row
           /\ \A s \in Sources : Forgotten(row).results[s] \in {row.results[s], "none"}
<1> DEFINE new == [row EXCEPT !.pc = "ready", !.uri = IF Plan(row.ask.kind)[row.step] = "store"
                                                      THEN "none" ELSE @,
                              !.results = IF Plan(row.ask.kind)[row.step] = "delete"
                                          THEN [s \in Sources |-> "none"] ELSE @]
<1>1. CASE row.status # "running"
  BY <1>1 DEF Forgotten, Run, Results
<1>2. CASE row.status = "running"
  <2>1. Forgotten(row) = new
    BY <1>2 DEF Forgotten
  <2>2. /\ new.ask = row.ask /\ new.of = row.of /\ new.status = row.status
        /\ new.step = row.step /\ new.src = row.src /\ new.dedup = row.dedup
        /\ new.rows = row.rows /\ new.conflict = row.conflict /\ new.pc = "ready"
        /\ new.uri \in {row.uri, "none"}
        /\ new.results \in {row.results, [s \in Sources |-> "none"]}
    BY DEF Run
  <2>3. [s \in Sources |-> "none"] \in [Sources -> Results]
    BY DEF Results
  <2>4. new \in Run
    BY <2>3 DEF Run
  <2> HIDE DEF new
  <2>5. QED BY <1>2, <2>1, <2>2, <2>4
<1>3. QED BY <1>1, <1>2

-----------------------------------------------------------------------------
(* The runs' invariant *)

\* One run under way moves on by itself.
Turn(r) ==
    /\ r \in Created /\ Only(r) /\ run'[r].status # "absent"
    /\ run[r].status \notin {"failed", "succeeded"}
    /\ run'[r].ask = run[r].ask /\ run'[r].of = run[r].of
    /\ run'[r].step >= run[r].step
    /\ IsDelete(r) /\ run'[r].step > 1 => run[r].step > 1
    /\ run'[r].status = "running" =>
          \/ run[r].status = "running"
          \/ /\ \A q \in Created : run[q].status # "running"
             /\ phase = "converging" => Mutated(r)

\* The rest of what a step of the engine leaves as the runs' invariant has it.
Around ==
    /\ phase' = phase
    /\ \E n \in 0..MaxSources : Known' = 1..n
    /\ Known \subseteq Known'
    /\ DeleteOwnsDataset /\ dataset # "active" => dataset' # "active"

LEMMA TurnOthers ==
    ASSUME TypeOK, TypeOK', NEW r \in Runs, Turn(r)
    PROVE  /\ Created' = Created
           /\ \A q \in Runs : /\ run'[q].ask = run[q].ask /\ run'[q].of = run[q].of
                              /\ run'[q].step >= run[q].step
                              /\ run[q].status = "failed" => run'[q] = run[q]
           /\ \A q \in Runs : Mutated(q) => Mutated(q)'
<1>1. \A q \in Runs : q # r => run'[q] = run[q]
  BY DEF Turn, Only
<1>2. ASSUME NEW q \in Runs
      PROVE  /\ run'[q].ask = run[q].ask /\ run'[q].of = run[q].of
             /\ run'[q].step >= run[q].step
             /\ run'[q].status = "absent" <=> run[q].status = "absent"
             /\ run[q].status = "failed" => run'[q] = run[q]
  <2>1. run[q].step \in 1..6
    BY Kinds
  <2>2. QED BY <1>1, <2>1 DEF Turn, Created
<1>3. Created' = Created
  BY <1>2 DEF Created
<1>4. ASSUME NEW q \in Runs, Mutated(q) PROVE Mutated(q)'
  <2>1. /\ Mutated(q) <=> (IsForget(q) /\ run[q].step > 1) \/ (IsDelete(q) /\ run[q].step > 2)
        /\ Mutated(q)' <=> (IsForget(q)' /\ run'[q].step > 1) \/ (IsDelete(q)' /\ run'[q].step > 2)
    BY Passing, PassingThen
  <2>2. run[q].step \in 1..6 /\ run'[q].step \in 1..6
    BY Kinds, PassingThen
  <2>3. IsForget(q)' = IsForget(q) /\ IsDelete(q)' = IsDelete(q)
    BY <1>2 DEF Kind, IsForget, IsDelete
  <2>4. QED BY <1>2, <1>4, <2>1, <2>2, <2>3
<1>5. QED BY <1>2, <1>3, <1>4

LEMMA TurnKeeps ==
    ASSUME RunsInv, TypeOK', NEW r \in Runs, Turn(r), Around, RunShape(r)'
    PROVE  RunsInv'
<1>0. /\ TypeOK /\ Numbered /\ OneAtATime /\ ConvergingRuns /\ DeleteKeepsDataset /\ OneLineage
      /\ \A q \in Created : RunShape(q)
      /\ \A q \in Runs \ {r} : run'[q] = run[q]
  BY DEF RunsInv, Turn, Only
<1>1. Created' = Created
  BY <1>0, TurnOthers
<1>9. Created \subseteq Runs
  BY DEF Created
<1>10. \A q \in Runs : /\ run'[q].ask = run[q].ask /\ run'[q].of = run[q].of
                       /\ run'[q].step >= run[q].step
                       /\ run[q].status = "failed" => run'[q] = run[q]
  BY <1>0, TurnOthers
<1>2. Numbered'
  BY <1>0, <1>1, <1>9, <1>10 DEF Numbered, Around
<1>3. ASSUME NEW q \in Created PROVE RunShape(q)'
  <2>1. CASE q # r
    <3>1. q \in Runs /\ run'[q] = run[q] /\ RunShape(q)
      BY <1>0, <2>1 DEF Created
    <3>2. run[q].of # None => /\ run[q].of \in Created /\ run[q].of \in Runs
                              /\ run[run[q].of].status = "failed"
                              /\ run[run[q].of].ask = run[q].ask
      BY <3>1 DEF RunShape, Created
    <3>3. run[q].of # None => /\ run[q].of \in Created' /\ run'[run[q].of].status = "failed"
                              /\ run'[run[q].of].ask = run'[q].ask
      BY <3>2, <1>1, <1>9, <1>10
    <3>4. /\ Kind(q)' = Kind(q) /\ IsDelete(q)' = IsDelete(q) /\ Length(q)' = Length(q)
          /\ Known \subseteq Known'
      BY <3>1, <1>1, <1>9, <1>10 DEF Around, Kind, IsDelete, Length
    <3>5. QED BY <3>1, <3>3, <3>4 DEF RunShape
  <2>2. QED BY <2>1
<1>11. run'[r].status = "running" =>
          \/ run[r].status = "running"
          \/ /\ \A q \in Runs : run[q].status # "running"
             /\ phase = "converging" => Mutated(r)
  BY DEF Turn, Created
<1>4. OneAtATime'
  BY <1>0, <1>11 DEF OneAtATime
<1>5. ConvergingRuns'
  <2>1. \A q \in Runs : q # r => run'[q].status = run[q].status
    BY <1>0
  <2>2. \A q \in Runs : Mutated(q) => Mutated(q)'
    BY <1>0, TurnOthers
  <2>3. QED BY <1>0, <1>11, <2>1, <2>2 DEF ConvergingRuns, Around
<1>6. DeleteKeepsDataset'
  <2>1. DeleteOwnsDataset' => DeleteOwnsDataset
    <3> SUFFICES ASSUME NEW q \in Created', IsDelete(q)', Passed(q, "begin")' PROVE DeleteOwnsDataset
      BY DEF DeleteOwnsDataset
    <3>1. q \in Runs /\ q \in Created /\ IsDelete(q) /\ run'[q].step > 1
      <4>1. q \in Runs /\ q \in Created /\ IsDelete(q)
        BY <1>1, <1>9, <1>10 DEF IsDelete, Kind
      <4>2. QED BY <4>1, PassingThen
    <3>2. run[q].step > 1
      BY <1>0, <3>1 DEF Turn
    <3>3. QED BY <1>0, <3>1, <3>2, Passing DEF DeleteOwnsDataset
  <2>2. QED BY <1>0, <2>1 DEF DeleteKeepsDataset, Around
<1>7. OneLineage'
  <2>1. RetriedAnew => RetriedAnew'
    <3> SUFFICES ASSUME NEW q \in Created, IsDelete(q), run[q].of # None, run[run[q].of].step = 1
                 PROVE  RetriedAnew'
      BY DEF RetriedAnew
    <3>1. q \in Runs /\ run[q].of \in Runs /\ run[run[q].of].status = "failed"
      BY <1>0 DEF RunShape, Created
    <3>2. run'[run[q].of] = run[run[q].of] /\ run'[q].of = run[q].of /\ IsDelete(q)'
      BY <1>1, <1>9, <1>10, <3>1 DEF IsDelete, Kind
    <3>3. QED BY <1>1, <1>9, <1>10, <3>1, <3>2 DEF RetriedAnew, IsDelete, Kind
  <2>2. \A q \in Runs : Open(q)' => Open(q)
    <3> SUFFICES ASSUME NEW q \in Runs, Open(q)' PROVE Open(q)
      OBVIOUS
    <3>1. CASE q = r
      <4>1. Nonterminal(r)
        <5>1. run[r].status \in {"absent", "queued", "backoff", "running", "succeeded", "failed"}
          BY <1>0 DEF TypeOK, Run
        <5>2. QED BY <5>1 DEF Turn, Nonterminal, Waiting, Created
      <4>2. QED BY <1>1, <1>9, <1>10, <3>1, <4>1 DEF Open, Turn, IsDelete, Kind
    <3>2. CASE q # r
      <4>1. run'[q] = run[q] /\ Created' = Created /\ IsDelete(q)' = IsDelete(q)
        BY <1>0, <1>1, <1>9, <1>10, <3>2 DEF IsDelete, Kind
      <4>2. \A p \in Created : run'[p].of = run[p].of
        BY <1>1, <1>9, <1>10 DEF Created
      <4>3. QED BY <4>1, <4>2 DEF Open, Nonterminal, IsDelete, Kind
    <3>3. QED BY <3>1, <3>2
  <2>3. QED BY <1>0, <2>1, <2>2 DEF OneLineage
<1>12. QED BY <1>0, <1>1, <1>2, <1>3, <1>4, <1>5, <1>6, <1>7 DEF RunsInv

LEMMA AroundSame ==
    ASSUME RunsInv,
           \A s \in Sources : source'[s].status = "absent" <=> source[s].status = "absent"
    PROVE  Known' = Known /\ \E n \in 0..MaxSources : Known' = 1..n
<1>1. Known' = Known
  BY DEF Known, Exists
<1>2. QED BY <1>1 DEF RunsInv, Numbered

LEMMA Turned ==
    ASSUME RunsInv, TypeOK', NEW r \in Runs, Turn(r), Around,
           run'[r].status = "succeeded" <=> run'[r].step > Length(r),
           run'[r].conflict => run'[r].status = "failed" /\ run'[r].step = 1,
           run'[r].rows # "none" => IsDelete(r) /\ run'[r].step = 3,
           Kind(r) = "remember" => IF run'[r].step = 1 THEN run'[r].src = None /\ ~run'[r].dedup
                                   ELSE run'[r].src \in Known'
    PROVE  RunsInv'
<1>0. /\ TypeOK /\ RunShape(r) /\ r \in Created /\ run'[r].ask = run[r].ask /\ run'[r].of = run[r].of
      /\ \A q \in Runs \ {r} : run'[q] = run[q]
      /\ run[r].status # "failed"
  BY DEF RunsInv, Turn, Only
<1>1. Created' = Created
  BY <1>0, TurnOthers
<1>2. run[r].of # None => run[r].of \in Runs \ {r} /\ run[r].of \in Created
                          /\ run[run[r].of].status = "failed"
                          /\ run[run[r].of].ask = run[r].ask
  BY <1>0 DEF RunShape, Created
<1>3. run'[r].of # None => /\ run'[r].of \in Created' /\ run'[run'[r].of].status = "failed"
                           /\ run'[run'[r].of].ask = run'[r].ask
  BY <1>0, <1>1, <1>2
<1>4. /\ Kind(r)' = Kind(r) /\ IsDelete(r)' = IsDelete(r) /\ Length(r)' = Length(r)
      /\ Known \subseteq Known'
  BY <1>0 DEF Kind, IsDelete, Length, Around
<1>5. RunShape(r)'
  BY <1>0, <1>3, <1>4 DEF RunShape
<1>6. QED BY <1>5, TurnKeeps

\* The run stays at its step.
LEMMA StayKeeps ==
    ASSUME RunsInv, TypeOK', NEW r \in Created, Only(r), Around,
           run[r].status \notin {"failed", "succeeded"},
           run'[r].status \notin {"absent", "succeeded"},
           run'[r].status = "running" => run[r].status = "running",
           run'[r].ask = run[r].ask, run'[r].of = run[r].of, run'[r].step = run[r].step,
           SameSource(r), run'[r].conflict = run[r].conflict,
           run'[r].rows # "none" => run[r].rows # "none"
    PROVE  RunsInv'
<1>1. r \in Runs /\ RunShape(r) /\ TypeOK
  BY DEF Created, RunsInv
<1>2. run[r].step \in 1..6
  BY <1>1 DEF TypeOK, Run
<1>3. Turn(r)
  BY <1>1, <1>2 DEF Turn
<1>4. Known \subseteq Known'
  BY DEF Around
<1>5. QED BY <1>1, <1>3, <1>4, Turned DEF RunShape, SameSource

\* The run goes on to the step after.
LEMMA MoveOnKeeps ==
    ASSUME RunsInv, TypeOK', NEW r \in Created, Only(r), Around,
           run[r].status = "running", run'[r].status = Next_(r),
           run'[r].ask = run[r].ask, run'[r].of = run[r].of, run'[r].step = run[r].step + 1,
           run'[r].conflict = run[r].conflict,
           ~(IsDelete(r) /\ run[r].step = 1),
           run'[r].rows # "none" => IsDelete(r) /\ run[r].step = 2,
           Kind(r) = "remember" => run'[r].src \in Known'
    PROVE  RunsInv'
<1>1. r \in Runs /\ RunShape(r) /\ TypeOK
  BY DEF Created, RunsInv
<1>2. run[r].step \in 1..6 /\ Length(r) \in {3, 5}
  BY <1>1 DEF TypeOK, Run, Length
<1>3. run[r].step <= Length(r) /\ ~run[r].conflict
  BY <1>1, <1>2 DEF RunShape
<1>4. Turn(r)
  BY <1>1, <1>2 DEF Turn, Next_
<1>5. run'[r].status = "succeeded" <=> run'[r].step > Length(r)
  BY <1>2, <1>3 DEF Next_
<1>6. QED BY <1>1, <1>2, <1>3, <1>4, <1>5, Turned

\* Nothing but the sources changes.
LEMMA QuietKeeps ==
    ASSUME RunsInv, TypeOK', run' = run, dataset' = dataset,
           \A s \in Sources : source'[s].status = "absent" <=> source[s].status = "absent",
           phase' = "converging" => phase = "converging"
    PROVE  RunsInv'
<1>1. Known' = Known /\ Numbered'
  <2>1. Created' = Created
    BY DEF Created
  <2>2. QED BY <2>1, AroundSame DEF RunsInv, Numbered
<1>2. /\ Created' = Created /\ RetriedAnew' = RetriedAnew
      /\ DeleteOwnsDataset' = DeleteOwnsDataset
      /\ \A q \in Runs : /\ Mutated(q)' = Mutated(q) /\ Open(q)' = Open(q)
                         /\ Kind(q)' = Kind(q) /\ IsDelete(q)' = IsDelete(q)
                         /\ Length(q)' = Length(q)
  BY DEF Created, RetriedAnew, DeleteOwnsDataset, Mutated, Passed, Open, Nonterminal, Kind,
         IsDelete, IsForget, Length
<1>3. ASSUME NEW q \in Created' PROVE RunShape(q)'
  <2>1. q \in Created /\ q \in Runs /\ RunShape(q)
    BY <1>2 DEF RunsInv, Created
  <2>2. QED BY <1>1, <1>2, <2>1 DEF RunShape
<1>4. OneAtATime' /\ ConvergingRuns' /\ DeleteKeepsDataset' /\ OneLineage'
  BY <1>2 DEF RunsInv, OneAtATime, ConvergingRuns, DeleteKeepsDataset, OneLineage
<1>5. QED BY <1>1, <1>3, <1>4 DEF RunsInv

-----------------------------------------------------------------------------
(* The engine's steps keep it *)

LEMMA TypeKept ==
    ASSUME TypeOK, run' \in [Runs -> Run], source' \in [Sources -> Source],
           local' \subseteq Sources, s3' \subseteq Sources, ingress' \subseteq Runs,
           dataset' \in {"active", "deleting", "deleted"}, crossed' \subseteq Sources,
           lost' = lost, phase' = phase, backend' = backend, pass' = pass
    PROVE  TypeOK'
BY DEF TypeOK, Pass

LEMMA Fails ==
    ASSUME RunsInv, NEW r \in Created, run[r].status = "running", FailPermanently(r),
           UNCHANGED <<dataset, source, stores, process, histories>>
    PROVE  RunsInv'
<1>1. TypeOK /\ r \in Runs
  BY DEF RunsInv, Created
<1>2. RowIs(r, "failed", run[r].step) /\ SameSource(r) /\ SameRows(r)
  BY <1>1, FailFields
<1>3. TypeOK'
  BY <1>1, <1>2, TypeKept DEF TypeOK, RowIs, stores, process, histories
<1>4. Around
  BY AroundSame DEF Around, process
<1>5. QED BY <1>2, <1>3, <1>4, StayKeeps DEF RowIs, SameRows

LEMMA Persists ==
    ASSUME RunsInv, NEW r \in Created, run[r].status = "running", Persist(r, run[r]),
           Around, run[r].rows = "none", run[r].step > 1,
           source' \in [Sources -> Source], dataset' \in {"active", "deleting", "deleted"},
           crossed' \subseteq Sources, lost' = lost, UNCHANGED <<stores, process>>
    PROVE  RunsInv'
<1>1. TypeOK /\ r \in Runs /\ RunShape(r)
  BY DEF RunsInv, Created
<1>2. run[r].step \in 1..5
  BY <1>1 DEF TypeOK, Run, RunShape, Length
<1>3. RowIs(r, Next_(r), run[r].step + 1) /\ SameSource(r) /\ SameRows(r)
  BY <1>1, <1>2, PersistFields
<1>4. TypeOK'
  BY <1>1, <1>3, TypeKept DEF TypeOK, RowIs, stores, process
<1>5. Kind(r) = "remember" => run'[r].src \in Known'
  <2>1. Kind(r) = "remember" => run[r].src \in Known
    BY <1>1, <1>2 DEF RunShape
  <2>2. Known \subseteq Known'
    BY DEF Around
  <2>3. run'[r].src = run[r].src
    BY <1>3 DEF SameSource
  <2>4. QED BY <2>1, <2>2, <2>3
<1>6. QED BY <1>2, <1>3, <1>4, <1>5, MoveOnKeeps DEF RowIs, SameRows

LEMMA ClaimKeeps ==
    ASSUME RunsInv, NEW r \in Runs, Claim(r)
    PROVE  RunsInv'
<1>0. TypeOK /\ run[r].status = "queued" /\ run[r] \in Run /\ r \in Created /\ RunShape(r)
  BY DEF RunsInv, TypeOK, Claim, Created
<1> DEFINE new == [run[r] EXCEPT !.status = "running"]
<1>1. run' = [run EXCEPT ![r] = new]
  BY <1>0 DEF Claim, TypeOK
<1>2. /\ new \in Run /\ new.ask = run[r].ask /\ new.step = run[r].step
      /\ new.of = run[r].of /\ new.src = run[r].src /\ new.dedup = run[r].dedup
      /\ new.rows = run[r].rows /\ new.conflict = run[r].conflict /\ new.status = "running"
  BY <1>0 DEF Run
<1> HIDE DEF new
<1>3. run'[r] = new /\ Only(r) /\ run' \in [Runs -> Run]
  BY <1>0, <1>1, <1>2 DEF TypeOK, Only
<1>4. TypeOK'
  BY <1>0, <1>3, TypeKept DEF TypeOK, Claim, stores, process, histories
<1>5. Around
  BY AroundSame DEF Around, Claim, process
<1>6. Turn(r)
  <2>1. phase = "converging" => Mutated(r)
    BY DEF Claim, RecoveryMayClaim
  <2>2. \A q \in Created : run[q].status # "running"
    BY DEF Claim
  <2>3. run[r].step \in 1..6
    BY <1>0 DEF Run
  <2>4. QED BY <1>0, <1>2, <1>3, <2>1, <2>2, <2>3 DEF Turn
<1>7. Known \subseteq Known'
  BY <1>5 DEF Around
<1>8. QED BY <1>0, <1>2, <1>3, <1>4, <1>5, <1>6, <1>7, Turned DEF RunShape

LEMMA BackoffElapsesKeeps ==
    ASSUME RunsInv, NEW r \in Runs, BackoffElapses(r)
    PROVE  RunsInv'
<1>0. TypeOK /\ run[r].status = "backoff" /\ run[r] \in Run /\ r \in Created
  BY DEF RunsInv, TypeOK, BackoffElapses, Created
<1> DEFINE new == [run[r] EXCEPT !.status = "queued"]
<1>1. run' = [run EXCEPT ![r] = new]
  BY <1>0 DEF BackoffElapses, TypeOK
<1>2. /\ new \in Run /\ new.ask = run[r].ask /\ new.step = run[r].step
      /\ new.of = run[r].of /\ new.src = run[r].src /\ new.dedup = run[r].dedup
      /\ new.rows = run[r].rows /\ new.conflict = run[r].conflict /\ new.status = "queued"
  BY <1>0 DEF Run
<1> HIDE DEF new
<1>3. run'[r] = new /\ Only(r) /\ run' \in [Runs -> Run]
  BY <1>0, <1>1, <1>2 DEF TypeOK, Only
<1>4. TypeOK'
  BY <1>0, <1>3, TypeKept DEF TypeOK, BackoffElapses, stores, process, histories
<1>5. Around
  BY AroundSame DEF Around, BackoffElapses, process
<1>6. QED BY <1>0, <1>2, <1>3, <1>4, <1>5, StayKeeps DEF SameSource

\* What a step that is retried, or not persisted yet, leaves of its run.
RowStays(r) ==
    /\ run' \in [Runs -> Run] /\ Only(r)
    /\ run'[r].ask = run[r].ask /\ run'[r].of = run[r].of /\ run'[r].step = run[r].step
    /\ SameSource(r) /\ run'[r].conflict = run[r].conflict

LEMMA Stays ==
    ASSUME RunsInv, NEW r \in Created, run[r].status = "running", RowStays(r),
           run'[r].status \in {"running", "backoff", "failed"},
           run'[r].rows # "none" => run[r].rows # "none",
           local' \subseteq Sources, s3' \subseteq Sources, ingress' \subseteq Runs,
           crossed' \subseteq Sources, lost' = lost, UNCHANGED <<dataset, source, process>>
    PROVE  RunsInv'
<1>1. TypeOK /\ r \in Runs
  BY DEF RunsInv, Created
<1>2. TypeOK'
  BY <1>1, TypeKept DEF TypeOK, RowStays, process
<1>3. Around
  BY AroundSame DEF Around, process
<1>4. QED BY <1>2, <1>3, StayKeeps DEF RowStays

LEMMA FetchUrlKeeps ==
    ASSUME RunsInv, NEW r \in Runs, FetchUrl(r)
    PROVE  RunsInv'
<1>1. TypeOK'
  BY TypeKept DEF RunsInv, TypeOK, FetchUrl, process, histories
<1>2. QED BY <1>1, QuietKeeps DEF FetchUrl, process

LEMMA IngestFailsKeeps ==
    ASSUME RunsInv, NEW r \in Runs, IngestFails(r)
    PROVE  RunsInv'
<1>1. Runs_(r, "ingest")
  BY DEF IngestFails
<1>2. r \in Created /\ run[r].status = "running"
  BY <1>1, AtStep
<1>3. QED BY <1>2, Fails DEF IngestFails

\* What prepare_and_ingest leaves: a source that is there, or the next version.
LEMMA IngestFields ==
    ASSUME RunsInv, NEW r \in Runs, Ingest(r)
    PROVE  /\ r \in Created /\ run[r].status = "running" /\ run[r].step = 1 /\ Kind(r) = "remember"
           /\ run' \in [Runs -> Run] /\ Only(r)
           /\ run'[r].ask = run[r].ask /\ run'[r].status = "running" /\ run'[r].step = 2
           /\ run'[r].pc = "ready" /\ run'[r].of = run[r].of /\ run'[r].uri = run[r].uri
           /\ run'[r].results = run[r].results /\ run'[r].rows = run[r].rows
           /\ run'[r].conflict = run[r].conflict
           /\ \/ run'[r].src \in Known /\ run'[r].dedup /\ source' = source
              \/ /\ run'[r].src \in Sources \ Known /\ ~run'[r].dedup
                 /\ source' = [source EXCEPT ![run'[r].src] =
                                  [status |-> "pending", uri |-> "none", doc |-> TRUE]]
                 /\ Known' = Known \cup {run'[r].src}
           /\ \E n \in 0..MaxSources : Known' = 1..n
<1>0. /\ TypeOK /\ Numbered /\ Runs_(r, "ingest") /\ run[r] \in Run
      /\ \A q \in Created : RunShape(q)
  BY DEF RunsInv, TypeOK, Ingest
<1>1. /\ r \in Created /\ run[r].status = "running" /\ Step(r) = "ingest"
      /\ run[r].step \in 1..Length(r)
  BY <1>0, AtStep
<1>2. Kind(r) = "remember" /\ run[r].step = 1 /\ RunShape(r)
  BY <1>0, <1>1, StepNames
<1>3. PICK n \in 0..MaxSources : Known = 1..n
  BY <1>0 DEF Numbered
<1>4. Latest = n
  <2>1. IsFiniteSet(1..n) /\ Cardinality(1..n) = n
    BY <1>3, FS_Interval, BoundsAssumption
  <2>2. QED BY <1>3, <2>1 DEF Latest
<1>5. run[r].src = None /\ ~run[r].dedup
  BY <1>2 DEF RunShape
<1>6. DedupTarget(r) # None => DedupTarget(r) \in Known
  <2>1. CASE RetrySource(r) # None
    <3>1. run[r].of # None /\ RetrySource(r) = run[run[r].of].src
      BY <2>1 DEF RetrySource
    <3>2. run[r].of \in Created /\ run[r].of \in Runs /\ RunShape(run[r].of)
      BY <1>0, <1>2, <3>1 DEF RunShape, Created
    <3>3. Kind(run[r].of) = "remember"
      BY <1>2, <3>1 DEF RunShape, Kind
    <3>4. QED BY <2>1, <3>1, <3>2, <3>3 DEF RunShape, DedupTarget
  <2>2. CASE RetrySource(r) = None
    BY <1>3, <1>4, <2>2, BoundsAssumption DEF DedupTarget
  <2>3. QED BY <2>1, <2>2
<1>7. CASE DedupTarget(r) # None
  <2> DEFINE row == [run[r] EXCEPT !.src = DedupTarget(r), !.dedup = TRUE]
             t == DedupTarget(r)
  <2>1. Persist(r, row) /\ source' = source
    BY <1>7 DEF Ingest
  <2>2. t \in Sources
    BY <1>6, <1>7 DEF Known
  <2>3. row = [run[r] EXCEPT !.src = t, !.dedup = TRUE]
    OBVIOUS
  <2> HIDE DEF t
  <2>4. /\ row \in Run /\ row.ask = run[r].ask /\ row.step = run[r].step /\ row.status = run[r].status
        /\ row.of = run[r].of /\ row.uri = run[r].uri /\ row.results = run[r].results
        /\ row.rows = run[r].rows /\ row.conflict = run[r].conflict
        /\ row.src = t /\ row.dedup
    BY <1>0, <2>2, <2>3 DEF Run
  <2> HIDE DEF row
  <2>5. /\ run' \in [Runs -> Run] /\ Only(r)
        /\ run'[r].ask = run[r].ask /\ run'[r].status = Next_(r)
        /\ run'[r].step = run[r].step + 1 /\ run'[r].pc = "ready"
        /\ run'[r].of = row.of /\ run'[r].src = row.src /\ run'[r].dedup = row.dedup
        /\ run'[r].uri = row.uri /\ run'[r].results = row.results
        /\ run'[r].rows = row.rows /\ run'[r].conflict = row.conflict
    <3>1. run[r].step \in 1..5 /\ row.status = "running" /\ Persist(r, row)
      BY <1>1, <1>2, <2>1, <2>4
    <3>2. QED BY <1>0, <1>1, <2>4, <3>1, AdvancedFields
  <2>6. Next_(r) = "running"
    BY <1>2 DEF Next_, Length, IsDelete
  <2>7. t \in Known /\ Known' = Known
    BY <1>6, <1>7, <2>1 DEF t, Known, Exists
  <2>8. QED BY <1>1, <1>2, <1>3, <2>1, <2>4, <2>5, <2>6, <2>7
<1>8. CASE DedupTarget(r) = None
  <2> DEFINE row == [run[r] EXCEPT !.src = Latest + 1]
             t == Latest + 1
  <2>1. /\ Persist(r, row) /\ Latest < MaxSources
        /\ source' = [source EXCEPT ![t] = [status |-> "pending", uri |-> "none", doc |-> TRUE]]
    BY <1>8 DEF Ingest
  <2>2. t \in Sources /\ t \notin Known /\ t = n + 1 /\ n + 1 \in 0..MaxSources
    BY <1>3, <1>4, <2>1, BoundsAssumption DEF Sources
  <2>3. row = [run[r] EXCEPT !.src = t]
    OBVIOUS
  <2> HIDE DEF t
  <2>4. /\ row \in Run /\ row.ask = run[r].ask /\ row.step = run[r].step /\ row.status = run[r].status
        /\ row.of = run[r].of /\ row.uri = run[r].uri /\ row.results = run[r].results
        /\ row.rows = run[r].rows /\ row.conflict = run[r].conflict
        /\ row.src = t /\ row.dedup = run[r].dedup
    BY <1>0, <2>2, <2>3 DEF Run
  <2> HIDE DEF row
  <2>5. /\ run' \in [Runs -> Run] /\ Only(r)
        /\ run'[r].ask = run[r].ask /\ run'[r].status = Next_(r)
        /\ run'[r].step = run[r].step + 1 /\ run'[r].pc = "ready"
        /\ run'[r].of = row.of /\ run'[r].src = row.src /\ run'[r].dedup = row.dedup
        /\ run'[r].uri = row.uri /\ run'[r].results = row.results
        /\ run'[r].rows = row.rows /\ run'[r].conflict = row.conflict
    <3>1. run[r].step \in 1..5 /\ row.status = "running" /\ Persist(r, row)
      BY <1>1, <1>2, <2>1, <2>4
    <3>2. QED BY <1>0, <1>1, <2>4, <3>1, AdvancedFields
  <2>6. Next_(r) = "running"
    BY <1>2 DEF Next_, Length, IsDelete
  <2>7. Known' = Known \cup {t}
    BY <1>0, <2>1, <2>2 DEF Known, Exists, TypeOK
  <2>8. Known' = 1..(n + 1)
    BY <1>3, <2>2, <2>7
  <2>9. QED BY <1>1, <1>2, <1>5, <2>1, <2>2, <2>4, <2>5, <2>6, <2>7, <2>8
<1>9. QED BY <1>7, <1>8

LEMMA IngestKeeps ==
    ASSUME RunsInv, NEW r \in Runs, Ingest(r)
    PROVE  RunsInv'
<1>1. TypeOK /\ RunShape(r) /\ r \in Created
  BY IngestFields DEF RunsInv
<1>2. source' \in [Sources -> Source]
  <2>1. [status |-> "pending", uri |-> "none", doc |-> TRUE] \in Source
    BY DEF Source
  <2>2. QED BY <1>1, <2>1, IngestFields DEF TypeOK
<1>3. TypeOK'
  BY <1>1, <1>2, IngestFields, TypeKept DEF TypeOK, Ingest, stores, process, histories
<1>4. /\ phase' = phase /\ dataset' = dataset
      /\ Known \subseteq Known' /\ run'[r].src \in Known'
  <2>1. phase' = phase /\ dataset' = dataset
    BY DEF Ingest, process
  <2>2. CASE run'[r].src \in Known /\ source' = source
    BY <2>1, <2>2 DEF Known, Exists
  <2>3. CASE Known' = Known \cup {run'[r].src}
    BY <2>1, <2>3
  <2>4. QED BY <2>2, <2>3, IngestFields
<1>5. Around
  BY <1>4, IngestFields DEF Around
<1>6. run[r].rows = "none"
  BY <1>1, IngestFields DEF RunShape
<1>7. Next_(r) = "running"
  BY IngestFields DEF Next_, Length, IsDelete
<1>8. ~IsDelete(r)
  BY IngestFields DEF IsDelete
<1>9. QED BY <1>1, <1>3, <1>4, <1>5, <1>6, <1>7, <1>8, IngestFields, MoveOnKeeps

\* A change of the row that leaves it at its step.
LEMMA StaysBy ==
    ASSUME TypeOK, NEW r \in Runs, NEW new \in Run, run' = [run EXCEPT ![r] = new],
           new.ask = run[r].ask, new.of = run[r].of, new.step = run[r].step,
           new.src = run[r].src, new.dedup = run[r].dedup, new.conflict = run[r].conflict
    PROVE  RowStays(r) /\ run'[r] = new
BY DEF TypeOK, RowStays, SameSource, Only

LEMMA StoreObjectFields ==
    ASSUME RunsInv, NEW r \in Runs, StoreObject(r)
    PROVE  /\ r \in Created /\ run[r].status = "running" /\ run[r].step = 2 /\ Kind(r) = "remember"
           /\ ~run[r].dedup /\ run[r].pc = "ready" /\ run[r].src \in Known
           /\ \/ /\ FailPermanently(r) /\ local' = local /\ s3' = s3
              \/ /\ RowStays(r) /\ run'[r].status = "running" /\ run'[r].pc = "ready"
                 /\ run'[r].results = run[r].results /\ run'[r].rows = run[r].rows
                 /\ \/ backend = "file" /\ local' = local \cup {run[r].src} /\ s3' = s3
                    \/ backend = "s3" /\ s3' = s3 \cup {run[r].src} /\ local' = local
<1>0. TypeOK /\ run[r] \in Run /\ Runs_(r, "store") /\ run[r].pc = "ready" /\ ~run[r].dedup
  BY DEF RunsInv, TypeOK, StoreObject
<1>1. /\ r \in Created /\ run[r].status = "running" /\ Step(r) = "store"
      /\ run[r].step \in 1..Length(r)
  BY <1>0, AtStep
<1>2. Kind(r) = "remember" /\ run[r].step = 2 /\ RunShape(r)
  BY <1>0, <1>1, StepNames DEF RunsInv
<1>3. run[r].src \in Known
  BY <1>2 DEF RunShape
<1>4. CASE ~Bytes(r)
  BY <1>0, <1>1, <1>2, <1>3, <1>4 DEF StoreObject
<1>5. CASE Bytes(r)
  <2> DEFINE new == [run[r] EXCEPT !.uri = backend]
  <2>1. run' = [run EXCEPT ![r] = new] /\ Store(run[r].src)
    BY <1>5, <1>0 DEF StoreObject, TypeOK
  <2>2. /\ new \in Run /\ new.ask = run[r].ask /\ new.of = run[r].of /\ new.step = run[r].step
        /\ new.src = run[r].src /\ new.dedup = run[r].dedup /\ new.conflict = run[r].conflict
        /\ new.status = run[r].status /\ new.pc = run[r].pc /\ new.results = run[r].results
        /\ new.rows = run[r].rows
    BY <1>0 DEF Run, TypeOK
  <2> HIDE DEF new
  <2>3. RowStays(r) /\ run'[r] = new
    BY <1>0, <2>1, <2>2, StaysBy
  <2>4. \/ backend = "file" /\ local' = local \cup {run[r].src} /\ s3' = s3
        \/ backend = "s3" /\ s3' = s3 \cup {run[r].src} /\ local' = local
    BY <1>0, <2>1 DEF Store, WriteFile, PutObject, TypeOK
  <2>5. QED BY <1>0, <1>1, <1>2, <1>3, <2>2, <2>3, <2>4
<1>6. QED BY <1>4, <1>5

LEMMA StoreObjectKeeps ==
    ASSUME RunsInv, NEW r \in Runs, StoreObject(r)
    PROVE  RunsInv'
<1>1. CASE FailPermanently(r) /\ local' = local /\ s3' = s3
  BY <1>1, StoreObjectFields, Fails DEF StoreObject, stores
<1>2. CASE RowStays(r) /\ run'[r].status = "running" /\ run'[r].rows = run[r].rows
           /\ local' \subseteq local \cup {run[r].src} /\ s3' \subseteq s3 \cup {run[r].src}
  <2>1. run[r].src \in Sources /\ local \subseteq Sources /\ s3 \subseteq Sources
        /\ ingress \subseteq Runs /\ crossed \subseteq Sources
    BY StoreObjectFields DEF Known, RunsInv, TypeOK
  <2>2. local' \subseteq Sources /\ s3' \subseteq Sources
    BY <1>2, <2>1
  <2>3. /\ ingress' \subseteq Runs /\ crossed' \subseteq Sources /\ lost' = lost
        /\ UNCHANGED <<dataset, source, process>>
    BY <2>1 DEF StoreObject, histories
  <2>4. QED BY <1>2, <2>2, <2>3, StoreObjectFields, Stays
<1>3. QED BY <1>1, <1>2, StoreObjectFields

LEMMA DropIngressFields ==
    ASSUME RunsInv, NEW r \in Runs, DropIngress(r)
    PROVE  /\ r \in Created /\ run[r].status = "running" /\ run[r].step = 2 /\ Kind(r) = "remember"
           /\ ~run[r].dedup /\ run[r].src \in Known
           /\ RowStays(r) /\ run'[r].status = "running" /\ run'[r].pc = "done"
           /\ run'[r].uri = backend
           /\ run'[r].results = run[r].results /\ run'[r].rows = run[r].rows
<1>0. TypeOK /\ run[r] \in Run /\ Runs_(r, "store") /\ ~run[r].dedup
  BY DEF RunsInv, TypeOK, DropIngress
<1>1. /\ r \in Created /\ run[r].status = "running" /\ Step(r) = "store"
      /\ run[r].step \in 1..Length(r)
  BY <1>0, AtStep
<1>2. Kind(r) = "remember" /\ run[r].step = 2 /\ RunShape(r)
  BY <1>0, <1>1, StepNames DEF RunsInv
<1>3. run[r].src \in Known
  BY <1>2 DEF RunShape
<1> DEFINE new == [run[r] EXCEPT !.pc = "done", !.uri = backend]
<1>4. run' = [run EXCEPT ![r] = new]
  BY <1>0 DEF DropIngress, TypeOK
<1>5. /\ new \in Run /\ new.ask = run[r].ask /\ new.of = run[r].of /\ new.step = run[r].step
      /\ new.src = run[r].src /\ new.dedup = run[r].dedup /\ new.conflict = run[r].conflict
      /\ new.status = run[r].status /\ new.pc = "done" /\ new.results = run[r].results
      /\ new.rows = run[r].rows /\ new.uri = backend
  BY <1>0 DEF Run, TypeOK
<1> HIDE DEF new
<1>6. RowStays(r) /\ run'[r] = new
  BY <1>0, <1>4, <1>5, StaysBy
<1>7. QED BY <1>0, <1>1, <1>2, <1>3, <1>5, <1>6

LEMMA DropIngressKeeps ==
    ASSUME RunsInv, NEW r \in Runs, DropIngress(r)
    PROVE  RunsInv'
<1>1. /\ local' \subseteq Sources /\ s3' \subseteq Sources /\ ingress' \subseteq Runs
      /\ crossed' \subseteq Sources /\ lost' = lost /\ UNCHANGED <<dataset, source, process>>
  BY DEF DropIngress, RunsInv, TypeOK, histories
<1>2. QED BY <1>1, DropIngressFields, Stays

LEMMA FinalizeStorageFields ==
    ASSUME RunsInv, NEW r \in Runs, FinalizeStorage(r)
    PROVE  /\ r \in Created /\ run[r].status = "running" /\ run[r].step = 2 /\ Kind(r) = "remember"
           /\ run[r].src \in Known /\ Persist(r, run[r])
           /\ run[r].dedup \/ run[r].pc = "done"
           /\ source' \in [Sources -> Source]
           /\ \A s \in Sources :
                 /\ source'[s].status = source[s].status /\ source'[s].doc = source[s].doc
                 /\ source'[s].uri = IF s = run[r].src /\ ~run[r].dedup /\ source[s].uri = "none"
                                     THEN run[r].uri ELSE source[s].uri
<1>0. TypeOK /\ run[r] \in Run /\ Runs_(r, "store") /\ Persist(r, run[r])
  BY DEF RunsInv, TypeOK, FinalizeStorage
<1>1. /\ r \in Created /\ run[r].status = "running" /\ Step(r) = "store"
      /\ run[r].step \in 1..Length(r)
  BY <1>0, AtStep
<1>2. Kind(r) = "remember" /\ run[r].step = 2 /\ RunShape(r)
  BY <1>0, <1>1, StepNames DEF RunsInv
<1>3. run[r].src \in Known /\ run[r].src \in Sources
  BY <1>2 DEF RunShape, Known
<1>4. CASE run[r].dedup \/ source[run[r].src].uri # "none"
  <2>1. source' = source
    BY <1>4 DEF FinalizeStorage
  <2>2. QED BY <1>0, <1>1, <1>2, <1>3, <1>4, <2>1 DEF FinalizeStorage, TypeOK
<1>5. CASE ~(run[r].dedup \/ source[run[r].src].uri # "none")
  <2> DEFINE t == run[r].src  new == [source[t] EXCEPT !.uri = run[r].uri]
  <2>1. source' = [source EXCEPT ![t] = new]
    BY <1>0, <1>3, <1>5 DEF FinalizeStorage, TypeOK
  <2>2. new \in Source /\ new.status = source[t].status /\ new.doc = source[t].doc
        /\ new.uri = run[r].uri
    BY <1>0, <1>3 DEF TypeOK, Source, Run
  <2> HIDE DEF new
  <2>3. source' \in [Sources -> Source] /\ source'[t] = new
        /\ \A s \in Sources : s # t => source'[s] = source[s]
    BY <1>0, <1>3, <2>1, <2>2 DEF TypeOK
  <2>4. QED BY <1>0, <1>1, <1>2, <1>3, <1>5, <2>2, <2>3 DEF FinalizeStorage
<1>6. QED BY <1>4, <1>5

LEMMA FinalizeStorageKeeps ==
    ASSUME RunsInv, NEW r \in Runs, FinalizeStorage(r)
    PROVE  RunsInv'
<1>1. RunShape(r) /\ TypeOK
  BY FinalizeStorageFields DEF RunsInv
<1>2. run[r].rows = "none"
  BY <1>1, FinalizeStorageFields DEF RunShape
<1>3. /\ dataset' = dataset /\ phase' = phase /\ lost' = lost /\ UNCHANGED <<stores, process>>
  BY DEF FinalizeStorage, process
<1>4. crossed' \subseteq Sources
  <2>1. crossed' \in {crossed, crossed \cup {run[r].src}}
    BY DEF FinalizeStorage
  <2>2. run[r].src \in Sources /\ crossed \subseteq Sources
    BY <1>1, FinalizeStorageFields DEF TypeOK, Known
  <2>3. QED BY <2>1, <2>2
<1>5. Around
  <2>1. \A s \in Sources : source'[s].status = "absent" <=> source[s].status = "absent"
    BY FinalizeStorageFields
  <2>2. QED BY <1>3, <2>1, AroundSame DEF Around
<1>6. dataset' \in {"active", "deleting", "deleted"}
  BY <1>1, <1>3 DEF TypeOK
<1>7. QED BY <1>2, <1>3, <1>4, <1>5, <1>6, FinalizeStorageFields, Persists

LEMMA CognifyFields ==
    ASSUME RunsInv, NEW r \in Runs, Cognify(r)
    PROVE  /\ r \in Created /\ run[r].status = "running" /\ run[r].step = 3 /\ Kind(r) = "remember"
           /\ run[r].src \in Known
           /\ \/ FailPermanently(r) /\ source' = source
              \/ /\ Persist(r, run[r]) /\ source' \in [Sources -> Source]
                 /\ \A s \in Sources :
                       \/ source'[s] = source[s]
                       \/ /\ source[s].status = "pending" /\ source'[s].status = "active"
                          /\ source'[s].uri = source[s].uri /\ source'[s].doc = source[s].doc
<1>0. TypeOK /\ run[r] \in Run /\ Runs_(r, "cognify")
  BY DEF RunsInv, TypeOK, Cognify
<1>1. /\ r \in Created /\ run[r].status = "running" /\ Step(r) = "cognify"
      /\ run[r].step \in 1..Length(r)
  BY <1>0, AtStep
<1>2. Kind(r) = "remember" /\ run[r].step = 3 /\ RunShape(r)
  BY <1>0, <1>1, StepNames DEF RunsInv
<1>3. run[r].src \in Known /\ run[r].src \in Sources
  BY <1>2 DEF RunShape, Known
<1>4. \/ FailPermanently(r) /\ source' = source
      \/ Persist(r, run[r]) /\ source' = source
      \/ Persist(r, run[r]) /\ source[run[r].src].status = "pending"
         /\ source' = [source EXCEPT ![run[r].src].status = "active"]
  BY DEF Cognify
<1>5. CASE source' = source
  BY <1>0, <1>1, <1>2, <1>3, <1>4, <1>5 DEF TypeOK
<1>6. CASE /\ Persist(r, run[r]) /\ source[run[r].src].status = "pending"
           /\ source' = [source EXCEPT ![run[r].src].status = "active"]
  <2> DEFINE t == run[r].src  new == [source[t] EXCEPT !.status = "active"]
  <2>1. source' = [source EXCEPT ![t] = new]
    BY <1>0, <1>3, <1>6 DEF TypeOK
  <2>2. new \in Source /\ new.status = "active" /\ new.doc = source[t].doc /\ new.uri = source[t].uri
    BY <1>0, <1>3 DEF TypeOK, Source
  <2> HIDE DEF new
  <2>3. source' \in [Sources -> Source] /\ source'[t] = new
        /\ \A s \in Sources : s # t => source'[s] = source[s]
    BY <1>0, <1>3, <2>1, <2>2 DEF TypeOK
  <2>4. QED BY <1>1, <1>2, <1>3, <1>6, <2>2, <2>3
<1>7. QED BY <1>4, <1>5, <1>6

LEMMA CognifyKeeps ==
    ASSUME RunsInv, NEW r \in Runs, Cognify(r)
    PROVE  RunsInv'
<1>1. RunShape(r) /\ TypeOK
  BY CognifyFields DEF RunsInv
<1>2. run[r].rows = "none"
  BY <1>1, CognifyFields DEF RunShape, IsDelete
<1>3. /\ dataset' = dataset /\ phase' = phase /\ lost' = lost /\ crossed' \subseteq Sources
      /\ UNCHANGED <<stores, process>>
  BY <1>1 DEF Cognify, process, histories, TypeOK
<1>4. CASE FailPermanently(r) /\ source' = source
  BY <1>4, CognifyFields, Fails DEF Cognify
<1>5. CASE /\ Persist(r, run[r]) /\ source' \in [Sources -> Source]
           /\ \A s \in Sources : \/ source'[s] = source[s]
                                 \/ source[s].status = "pending" /\ source'[s].status = "active"
  <2>1. \A s \in Sources : source'[s].status = "absent" <=> source[s].status = "absent"
    BY <1>5
  <2>2. Around
    BY <1>3, <2>1, AroundSame DEF Around
  <2>3. dataset' \in {"active", "deleting", "deleted"}
    BY <1>1, <1>3 DEF TypeOK
  <2>4. QED BY <1>2, <1>3, <1>5, <2>2, <2>3, CognifyFields, Persists
<1>6. QED BY <1>4, <1>5, CognifyFields

LEMMA MarkFields ==
    ASSUME TypeOK, NEW r \in Runs, NEW S, source' = Mark(S, r)
    PROVE  /\ source' \in [Sources -> Source]
           /\ \A s \in Sources :
                 IF s \notin S THEN source'[s] = source[s]
                 ELSE /\ source'[s].status = "deleting" /\ source'[s].uri = source[s].uri
                      /\ source'[s].doc => source[s].doc /\ run[r].ask.memory_only
<1> DEFINE doc(s) == source[s].doc /\ run[r].ask.memory_only
           new(s) == [source[s] EXCEPT !.status = "deleting", !.doc = doc(s)]
<1>1. source' = [s \in Sources |-> IF s \notin S THEN source[s] ELSE new(s)]
  BY DEF Mark
<1>2. \A s \in Sources : source[s] \in Source
  BY DEF TypeOK
<1>3. \A s \in Sources : doc(s) \in BOOLEAN /\ (doc(s) => source[s].doc /\ run[r].ask.memory_only)
  OBVIOUS
<1> HIDE DEF doc
<1>4. \A s \in Sources : /\ new(s) \in Source /\ new(s).status = "deleting"
                         /\ new(s).uri = source[s].uri /\ new(s).doc = doc(s)
  BY <1>2, <1>3 DEF Source
<1> HIDE DEF new
<1>5. QED BY <1>1, <1>2, <1>3, <1>4

LEMMA FinalizedFields ==
    ASSUME TypeOK, NEW r \in Runs, NEW T, source' = Finalized(r, T)
    PROVE  /\ source' \in [Sources -> Source]
           /\ \A s \in Sources :
                 IF s \notin T THEN source'[s] = source[s]
                 ELSE /\ source'[s].doc = source[s].doc
                      /\ IF IsForget(r) /\ run[r].ask.memory_only
                         THEN source'[s].status = "pending" /\ source'[s].uri = source[s].uri
                         ELSE /\ source'[s].status = "deleted"
                              /\ source'[s].uri = IF run[r].results[s] = "cleared" THEN "none"
                                                  ELSE source[s].uri
<1> DEFINE uri(s) == IF run[r].results[s] = "cleared" THEN "none" ELSE source[s].uri
           reset(s) == [source[s] EXCEPT !.status = "pending"]
           gone(s) == [source[s] EXCEPT !.status = "deleted", !.uri = uri(s)]
<1>1. source' = [s \in Sources |-> IF s \notin T THEN source[s]
                                   ELSE IF IsForget(r) /\ run[r].ask.memory_only
                                   THEN reset(s) ELSE gone(s)]
  BY DEF Finalized
<1>2. \A s \in Sources : source[s] \in Source
  BY DEF TypeOK
<1>3. \A s \in Sources : uri(s) \in {"none", "file", "s3"}
  BY <1>2 DEF Source
<1>4. \A s \in Sources : /\ reset(s) \in Source /\ reset(s).status = "pending"
                         /\ reset(s).uri = source[s].uri /\ reset(s).doc = source[s].doc
  BY <1>2 DEF Source
<1>5. \A s \in Sources : /\ gone(s) \in Source /\ gone(s).status = "deleted"
                         /\ gone(s).uri = uri(s) /\ gone(s).doc = source[s].doc
  <2> HIDE DEF uri
  <2>1. QED BY <1>2, <1>3 DEF Source
<1> HIDE DEF reset, gone
<1>6. QED BY <1>1, <1>2, <1>4, <1>5

LEMMA ConflictsFields ==
    ASSUME TypeOK, NEW r \in Runs, Conflicts(r)
    PROVE  /\ run' \in [Runs -> Run] /\ Only(r)
           /\ run'[r].ask = run[r].ask /\ run'[r].of = run[r].of /\ run'[r].step = run[r].step
           /\ run'[r].status = "failed" /\ run'[r].conflict /\ run'[r].pc = run[r].pc
           /\ run'[r].uri = run[r].uri /\ run'[r].results = run[r].results
           /\ SameSource(r) /\ SameRows(r)
<1> DEFINE new == [run[r] EXCEPT !.status = "failed", !.conflict = TRUE]
<1>1. run' = [run EXCEPT ![r] = new]
  BY DEF Conflicts, TypeOK
<1>2. run[r] \in Run
  BY DEF TypeOK
<1>3. /\ new \in Run /\ new.ask = run[r].ask /\ new.step = run[r].step /\ new.pc = run[r].pc
      /\ new.of = run[r].of /\ new.src = run[r].src /\ new.dedup = run[r].dedup
      /\ new.uri = run[r].uri /\ new.results = run[r].results /\ new.rows = run[r].rows
      /\ new.conflict /\ new.status = "failed"
  BY <1>2 DEF Run
<1> HIDE DEF new
<1>4. QED BY <1>1, <1>3 DEF TypeOK, Only, SameSource, SameRows

\* A forget of everything passes over the dataset.
Skipped(r) ==
    run' = [run EXCEPT ![r].status = "succeeded", ![r].step = 4]

LEMMA SkippedFields ==
    ASSUME TypeOK, NEW r \in Runs, Skipped(r)
    PROVE  /\ run' \in [Runs -> Run] /\ Only(r)
           /\ run'[r].ask = run[r].ask /\ run'[r].of = run[r].of /\ run'[r].step = 4
           /\ run'[r].status = "succeeded" /\ run'[r].conflict = run[r].conflict
           /\ run'[r].pc = run[r].pc
           /\ run'[r].uri = run[r].uri /\ run'[r].results = run[r].results
           /\ SameSource(r) /\ SameRows(r)
<1> DEFINE new == [run[r] EXCEPT !.status = "succeeded", !.step = 4]
<1>1. run' = [run EXCEPT ![r] = new]
  BY DEF Skipped, TypeOK
<1>2. run[r] \in Run
  BY DEF TypeOK
<1>3. /\ new \in Run /\ new.ask = run[r].ask /\ new.step = 4 /\ new.pc = run[r].pc
      /\ new.of = run[r].of /\ new.src = run[r].src /\ new.dedup = run[r].dedup
      /\ new.uri = run[r].uri /\ new.results = run[r].results /\ new.rows = run[r].rows
      /\ new.conflict = run[r].conflict /\ new.status = "succeeded"
  <2>1. 4 \in 1..6
    OBVIOUS
  <2>2. QED BY <1>2, <2>1 DEF Run
<1> HIDE DEF new
<1>4. QED BY <1>1, <1>3 DEF TypeOK, Only, SameSource, SameRows

\* A forget's first step, of one source or of the dataset: the run fails, in
\* conflict or not, passes over the dataset, finds its work done, or marks S.
LEMMA MutateFields ==
    ASSUME RunsInv, NEW r \in Runs, MutateSource(r) \/ MutateDataset(r)
    PROVE  /\ r \in Created /\ run[r].status = "running" /\ run[r].step = 1 /\ IsForget(r)
           /\ UNCHANGED <<stores, process, histories>>
           /\ \/ /\ source' = source /\ dataset' = dataset
                 /\ FailPermanently(r) \/ Conflicts(r) \/ Skipped(r) \/ Persist(r, run[r])
              \/ /\ Persist(r, run[r]) /\ Kind(r) = "forget_source" /\ dataset' = dataset
                 /\ Live(run[r].ask.target) /\ source' = Mark({run[r].ask.target}, r)
              \/ /\ Persist(r, run[r]) /\ Kind(r) # "forget_source"
                 /\ dataset = "active" /\ dataset' = "deleting" /\ source' = Mark(Undeleted, r)
<1>0. Runs_(r, "mutate")
  BY DEF MutateSource, MutateDataset
<1>1. /\ r \in Created /\ run[r].status = "running" /\ Step(r) = "mutate"
      /\ run[r].step \in 1..Length(r)
  BY <1>0, AtStep
<1>2. IsForget(r) /\ run[r].step = 1
  BY <1>1, StepNames DEF RunsInv
<1>3. CASE MutateSource(r)
  BY <1>1, <1>2, <1>3 DEF MutateSource
<1>4. CASE MutateDataset(r)
  BY <1>1, <1>2, <1>4 DEF MutateDataset, Skipped
<1>5. QED BY <1>3, <1>4

LEMMA MutateKeeps ==
    ASSUME RunsInv, NEW r \in Runs, MutateSource(r) \/ MutateDataset(r)
    PROVE  RunsInv'
<1>1. /\ TypeOK /\ RunShape(r) /\ r \in Created /\ run[r].status = "running" /\ run[r].step = 1
      /\ IsForget(r) /\ ~IsDelete(r) /\ Kind(r) # "remember" /\ Length(r) = 3
      /\ UNCHANGED <<stores, process, histories>>
  BY MutateFields DEF RunsInv, IsForget, IsDelete, ForgetKinds, Length
<1>2. run[r].rows = "none"
  BY <1>1 DEF RunShape
<1>3. /\ local' \subseteq Sources /\ s3' \subseteq Sources /\ ingress' \subseteq Runs
      /\ crossed' \subseteq Sources /\ lost' = lost /\ phase' = phase
      /\ backend' = backend /\ pass' = pass
  BY <1>1 DEF stores, process, histories, TypeOK
<1>4. CASE source' = source /\ dataset' = dataset
  <2>1. Around
    BY <1>3, <1>4, AroundSame DEF Around
  <2>2. CASE FailPermanently(r)
    BY <1>1, <1>4, <2>2, Fails
  <2>3. CASE Conflicts(r)
    <3>1. TypeOK'
      BY <1>1, <1>3, <1>4, <2>3, ConflictsFields, TypeKept DEF TypeOK
    <3>2. Turn(r)
      BY <1>1, <2>3, ConflictsFields DEF Turn
    <3>3. QED BY <1>1, <1>2, <2>1, <2>3, <3>1, <3>2, ConflictsFields, Turned DEF SameRows
  <2>4. CASE Skipped(r)
    <3>1. TypeOK'
      BY <1>1, <1>3, <1>4, <2>4, SkippedFields, TypeKept DEF TypeOK
    <3>2. Turn(r)
      BY <1>1, <2>4, SkippedFields DEF Turn
    <3>3. run[r].conflict = FALSE
      BY <1>1 DEF RunShape, TypeOK, Run
    <3>4. QED BY <1>1, <1>2, <2>1, <2>4, <3>1, <3>2, <3>3, SkippedFields, Turned DEF SameRows
  <2>5. CASE Persist(r, run[r])
    <3>1. RowIs(r, Next_(r), run[r].step + 1) /\ SameSource(r) /\ SameRows(r)
      BY <1>1, <2>5, PersistFields
    <3>2. TypeOK'
      BY <1>1, <1>3, <1>4, <3>1, TypeKept DEF TypeOK, RowIs
    <3>3. QED BY <1>1, <1>2, <2>1, <3>1, <3>2, MoveOnKeeps DEF RowIs, SameRows
  <2>6. QED BY <1>4, <2>2, <2>3, <2>4, <2>5, MutateFields
<1>5. ASSUME NEW S, S \subseteq Known, Persist(r, run[r]), source' = Mark(S, r),
             dataset' = dataset \/ dataset' = "deleting"
      PROVE  RunsInv'
  <2>1. RowIs(r, Next_(r), run[r].step + 1) /\ SameSource(r) /\ SameRows(r)
    BY <1>1, <1>5, PersistFields
  <2>2. TypeOK'
    BY <1>1, <1>3, <1>5, <2>1, MarkFields, TypeKept DEF TypeOK, RowIs
  <2>3. \A s \in Sources : source'[s].status = "absent" <=> source[s].status = "absent"
    BY <1>1, <1>5, MarkFields DEF Known, Exists
  <2>4. Around
    BY <1>3, <1>5, <2>3, AroundSame DEF Around
  <2>5. QED BY <1>1, <1>2, <2>1, <2>2, <2>4, MoveOnKeeps DEF RowIs, SameRows
<1>6. Undeleted \subseteq Known
  BY DEF Undeleted
<1>7. Kind(r) = "forget_source" => run[r].ask.target \in Known
  BY <1>1 DEF RunShape
<1>8. QED BY <1>4, <1>5, <1>6, <1>7, MutateFields

\* The two steps that clear locations, and what one object's deletion is.
DeleteResult(r, s, result) ==
    /\ r \in Created /\ run[r].status = "running" /\ (IsForget(r) \/ IsDelete(r))
    /\ Runs_(r, "delete") /\ s \in ToDelete(r) /\ s \in Deleting
    /\ RowStays(r) /\ run'[r].status = "running" /\ run'[r].pc = run[r].pc
    /\ run'[r].uri = run[r].uri /\ run'[r].rows = run[r].rows
    /\ \A t \in Sources : run'[r].results[t] = IF t = s THEN result ELSE run[r].results[t]

LEMMA DeleteResultFields ==
    ASSUME RunsInv, NEW r \in Runs, NEW s \in Sources, NEW result \in Results,
           Runs_(r, "delete"), s \in ToDelete(r),
           run' = [run EXCEPT ![r].results[s] = result]
    PROVE  DeleteResult(r, s, result)
<1>0. TypeOK /\ run[r] \in Run
  BY DEF RunsInv, TypeOK
<1>1. /\ r \in Created /\ run[r].status = "running" /\ Step(r) = "delete"
      /\ run[r].step \in 1..Length(r)
  BY AtStep
<1>2. IsForget(r) \/ IsDelete(r)
  BY <1>0, <1>1, StepNames
<1>3. s \in Deleting
  BY DEF ToDelete, DeleteTargets, ForgetTargets
<1> DEFINE results == [run[r].results EXCEPT ![s] = result]
           new == [run[r] EXCEPT !.results = results]
<1>4. run' = [run EXCEPT ![r] = new]
  BY <1>0 DEF TypeOK
<1>5. /\ results \in [Sources -> Results]
      /\ \A t \in Sources : results[t] = IF t = s THEN result ELSE run[r].results[t]
  BY <1>0 DEF Run
<1> HIDE DEF results
<1>6. /\ new \in Run /\ new.ask = run[r].ask /\ new.of = run[r].of /\ new.step = run[r].step
      /\ new.src = run[r].src /\ new.dedup = run[r].dedup /\ new.conflict = run[r].conflict
      /\ new.status = run[r].status /\ new.pc = run[r].pc /\ new.uri = run[r].uri
      /\ new.rows = run[r].rows /\ new.results = results
  BY <1>0, <1>5 DEF Run
<1> HIDE DEF new
<1>7. RowStays(r) /\ run'[r] = new
  BY <1>0, <1>4, <1>6, StaysBy
<1>8. QED BY <1>1, <1>2, <1>3, <1>5, <1>6, <1>7 DEF DeleteResult

LEMMA DeleteObjectKeeps ==
    ASSUME RunsInv, NEW r \in Runs, NEW s \in Sources, DeleteObject(r, s)
    PROVE  DeleteResult(r, s, "cleared") /\ RunsInv'
<1>1. DeleteResult(r, s, "cleared")
  <2>1. "cleared" \in Results
    BY DEF Results
  <2>2. QED BY <2>1, DeleteResultFields DEF DeleteObject
<1>2. /\ local' \subseteq local /\ s3' \subseteq s3
      /\ crossed' \in {crossed, crossed \cup {s}} /\ ingress' = ingress /\ lost' = lost
      /\ UNCHANGED <<dataset, source, process>>
  BY DEF DeleteObject, Remove, UnlinkFile, RemoveObject, Crossing
<1>3. /\ local' \subseteq Sources /\ s3' \subseteq Sources /\ ingress' \subseteq Runs
      /\ crossed' \subseteq Sources
  BY <1>2 DEF RunsInv, TypeOK
<1>4. RunsInv'
  BY <1>1, <1>2, <1>3, Stays DEF DeleteResult
<1>5. QED BY <1>1, <1>4

LEMMA DeleteUnresolvedKeeps ==
    ASSUME RunsInv, NEW r \in Runs, NEW s \in Sources, DeleteUnresolved(r, s)
    PROVE  DeleteResult(r, s, "unresolved") /\ RunsInv'
<1>1. DeleteResult(r, s, "unresolved")
  <2>1. "unresolved" \in Results
    BY DEF Results
  <2>2. QED BY <2>1, DeleteResultFields DEF DeleteUnresolved
<1>2. /\ local' = local /\ s3' \subseteq s3
      /\ crossed' \in {crossed, crossed \cup {s}} /\ ingress' = ingress /\ lost' = lost
      /\ UNCHANGED <<dataset, source, process>>
  BY DEF DeleteUnresolved, Crossing
<1>3. /\ local' \subseteq Sources /\ s3' \subseteq Sources /\ ingress' \subseteq Runs
      /\ crossed' \subseteq Sources
  BY <1>2 DEF RunsInv, TypeOK
<1>4. RunsInv'
  BY <1>1, <1>2, <1>3, Stays DEF DeleteResult
<1>5. QED BY <1>1, <1>4

LEMMA StorageDeletedKeeps ==
    ASSUME RunsInv, NEW r \in Runs, StorageDeleted(r)
    PROVE  /\ RunsInv' /\ Persist(r, run[r]) /\ r \in Created /\ run[r].status = "running"
           /\ IsForget(r) \/ IsDelete(r)
           /\ run[r].step > 1
<1>1. TypeOK /\ Runs_(r, "delete")
  BY DEF RunsInv, StorageDeleted
<1>2. /\ r \in Created /\ run[r].status = "running" /\ Step(r) = "delete" /\ RunShape(r)
      /\ run[r].step \in 1..Length(r)
  BY <1>1, AtStep DEF RunsInv
<1>3. (IsDelete(r) /\ run[r].step = 4) \/ (IsForget(r) /\ run[r].step = 2)
  BY <1>1, <1>2, StepNames
<1>4. run[r].rows = "none"
  BY <1>2, <1>3 DEF RunShape
<1>5. Around
  BY AroundSame DEF Around, StorageDeleted, process
<1>6. /\ source' \in [Sources -> Source] /\ dataset' \in {"active", "deleting", "deleted"}
      /\ crossed' \subseteq Sources /\ lost' = lost /\ UNCHANGED <<stores, process>>
  BY <1>1 DEF StorageDeleted, histories, TypeOK
<1>7. Persist(r, run[r])
  BY DEF StorageDeleted
<1>8. QED BY <1>2, <1>3, <1>4, <1>5, <1>6, <1>7, Persists

LEMMA FinalizeTargetFields ==
    ASSUME RunsInv, NEW r \in Runs, FinalizeTarget(r)
    PROVE  /\ r \in Created /\ run[r].status = "running" /\ run[r].step = 3 /\ IsForget(r)
           /\ UNCHANGED <<stores, process, lost, faults>>
           /\ \/ FailPermanently(r) /\ UNCHANGED <<dataset, source, crossed>>
              \/ \E T \in SUBSET Deleting :
                    /\ ~ResultsMissing(r, T) /\ Persist(r, run[r])
                    /\ source' = Finalized(r, T) /\ dataset' = DatasetAfterForget(r)
                    /\ crossed' = IF run[r].ask.memory_only
                                  THEN crossed \cup {s \in T : ~source[s].doc} ELSE crossed
<1>0. Runs_(r, "finalize")
  BY DEF FinalizeTarget
<1>1. /\ r \in Created /\ run[r].status = "running" /\ Step(r) = "finalize"
      /\ run[r].step \in 1..Length(r)
  BY <1>0, AtStep
<1>2. IsForget(r) /\ run[r].step = 3
  BY <1>1, StepNames DEF RunsInv
<1> DEFINE T == IF Kind(r) = "forget_source" THEN Deleting \cap {run[r].ask.target} ELSE Deleting
<1>3. T \in SUBSET Deleting
  OBVIOUS
<1>4. /\ UNCHANGED <<stores, process, lost, faults>>
      /\ \/ FailPermanently(r) /\ UNCHANGED <<dataset, source, crossed>>
         \/ /\ ~ResultsMissing(r, T) /\ Persist(r, run[r])
            /\ source' = Finalized(r, T) /\ dataset' = DatasetAfterForget(r)
            /\ crossed' = IF run[r].ask.memory_only
                          THEN crossed \cup {s \in T : ~source[s].doc} ELSE crossed
  BY DEF FinalizeTarget
<1> HIDE DEF T
<1>5. QED BY <1>1, <1>2, <1>3, <1>4

LEMMA FinalizeTargetKeeps ==
    ASSUME RunsInv, NEW r \in Runs, FinalizeTarget(r)
    PROVE  RunsInv'
<1>1. /\ TypeOK /\ RunShape(r) /\ r \in Created /\ run[r].status = "running" /\ run[r].step = 3
      /\ IsForget(r) /\ ~IsDelete(r) /\ UNCHANGED <<stores, process, lost, faults>>
  BY FinalizeTargetFields DEF RunsInv, IsForget, IsDelete, ForgetKinds
<1>2. run[r].rows = "none"
  BY <1>1 DEF RunShape
<1>3. CASE FailPermanently(r) /\ UNCHANGED <<dataset, source, crossed>>
  BY <1>1, <1>3, Fails DEF histories
<1>4. CASE \E T \in SUBSET Deleting :
              /\ Persist(r, run[r])
              /\ source' = Finalized(r, T) /\ dataset' = DatasetAfterForget(r)
              /\ crossed' = IF run[r].ask.memory_only
                            THEN crossed \cup {s \in T : ~source[s].doc} ELSE crossed
  <2>1. PICK T \in SUBSET Deleting :
              /\ Persist(r, run[r])
              /\ source' = Finalized(r, T) /\ dataset' = DatasetAfterForget(r)
              /\ crossed' = IF run[r].ask.memory_only
                            THEN crossed \cup {s \in T : ~source[s].doc} ELSE crossed
    BY <1>4
  <2>2. source' \in [Sources -> Source]
    BY <1>1, <2>1, FinalizedFields
  <2>3. \A s \in Sources : source'[s].status = "absent" <=> source[s].status = "absent"
    BY <1>1, <2>1, FinalizedFields DEF Deleting
  <2>4. dataset' \in {"active", "deleting", "deleted"}
    BY <1>1, <2>1 DEF DatasetAfterForget, TypeOK
  <2>5. Around
    BY <1>1, <2>1, <2>3, AroundSame DEF Around, process, DatasetAfterForget
  <2>6. crossed' \subseteq Sources
    BY <1>1, <2>1 DEF TypeOK, Deleting, Known
  <2>7. QED BY <1>1, <1>2, <2>1, <2>2, <2>4, <2>5, <2>6, Persists
<1>5. QED BY <1>3, <1>4, FinalizeTargetFields

LEMMA DeactivateFields ==
    ASSUME RunsInv, NEW r \in Runs, Deactivate(r)
    PROVE  /\ r \in Created /\ run[r].status = "running" /\ run[r].step = 2 /\ IsDelete(r)
           /\ UNCHANGED <<dataset, stores, process, histories>>
           /\ \/ FailPermanently(r) /\ source' = source
              \/ /\ source' = Mark(Undeleted, r) /\ run' \in [Runs -> Run] /\ Only(r)
                 /\ run'[r].ask = run[r].ask /\ run'[r].status = "running" /\ run'[r].step = 3
                 /\ run'[r].pc = "ready" /\ run'[r].of = run[r].of /\ run'[r].uri = run[r].uri
                 /\ run'[r].results = run[r].results /\ run'[r].conflict = run[r].conflict
                 /\ SameSource(r)
<1>0. TypeOK /\ run[r] \in Run /\ Runs_(r, "deactivate")
  BY DEF RunsInv, TypeOK, Deactivate
<1>1. /\ r \in Created /\ run[r].status = "running" /\ Step(r) = "deactivate"
      /\ run[r].step \in 1..Length(r)
  BY <1>0, AtStep
<1>2. IsDelete(r) /\ run[r].step = 2
  BY <1>0, <1>1, StepNames
<1>3. CASE dataset # "deleting"
  BY <1>1, <1>2, <1>3 DEF Deactivate
<1>4. CASE dataset = "deleting"
  <2> DEFINE rows == IF Projected THEN "pending" ELSE "none"
             row == [run[r] EXCEPT !.rows = rows]
  <2>1. Persist(r, row) /\ source' = Mark(Undeleted, r)
    BY <1>4 DEF Deactivate
  <2>2. rows \in {"none", "pending", "dead"}
    OBVIOUS
  <2> HIDE DEF rows
  <2>3. /\ row \in Run /\ row.ask = run[r].ask /\ row.step = run[r].step /\ row.status = run[r].status
        /\ row.of = run[r].of /\ row.uri = run[r].uri /\ row.results = run[r].results
        /\ row.conflict = run[r].conflict /\ row.src = run[r].src /\ row.dedup = run[r].dedup
    BY <1>0, <2>2 DEF Run
  <2> HIDE DEF row
  <2>4. /\ run' \in [Runs -> Run] /\ Only(r)
        /\ run'[r].ask = run[r].ask /\ run'[r].status = Next_(r)
        /\ run'[r].step = run[r].step + 1 /\ run'[r].pc = "ready"
        /\ run'[r].of = row.of /\ run'[r].src = row.src /\ run'[r].dedup = row.dedup
        /\ run'[r].uri = row.uri /\ run'[r].results = row.results
        /\ run'[r].rows = row.rows /\ run'[r].conflict = row.conflict
    <3>1. run[r].step \in 1..5 /\ row.status = "running" /\ Persist(r, row)
      BY <1>1, <1>2, <2>1, <2>3
    <3>2. QED BY <1>0, <1>1, <2>3, <3>1, AdvancedFields
  <2>5. Next_(r) = "running"
    BY <1>2 DEF Next_, Length
  <2>6. QED BY <1>1, <1>2, <2>1, <2>3, <2>4, <2>5 DEF Deactivate, SameSource
<1>5. QED BY <1>3, <1>4

LEMMA DeactivateKeeps ==
    ASSUME RunsInv, NEW r \in Runs, Deactivate(r)
    PROVE  RunsInv'
<1>1. /\ TypeOK /\ r \in Created /\ run[r].status = "running" /\ run[r].step = 2
      /\ IsDelete(r) /\ Kind(r) # "remember" /\ UNCHANGED <<dataset, stores, process, histories>>
  BY DeactivateFields DEF RunsInv, IsDelete
<1>2. CASE FailPermanently(r) /\ source' = source
  BY <1>1, <1>2, Fails
<1>3. CASE /\ source' = Mark(Undeleted, r) /\ run' \in [Runs -> Run] /\ Only(r)
           /\ run'[r].ask = run[r].ask /\ run'[r].status = "running" /\ run'[r].step = 3
           /\ run'[r].of = run[r].of /\ run'[r].conflict = run[r].conflict
  <2>1. TypeOK'
    BY <1>1, <1>3, MarkFields, TypeKept DEF TypeOK, stores, process, histories
  <2>2. \A s \in Sources : source'[s].status = "absent" <=> source[s].status = "absent"
    BY <1>1, <1>3, MarkFields DEF Undeleted, Known, Exists
  <2>3. Around
    BY <1>1, <2>2, AroundSame DEF Around, process
  <2>4. Next_(r) = "running"
    BY <1>1 DEF Next_, Length
  <2>5. QED BY <1>1, <1>3, <2>1, <2>3, <2>4, MoveOnKeeps
<1>4. QED BY <1>2, <1>3, DeactivateFields

LEMMA ConvergeProjectionKeeps ==
    ASSUME RunsInv, NEW r \in Runs, ConvergeProjection(r)
    PROVE  /\ RunsInv' /\ r \in Created /\ run[r].status = "running" /\ run[r].step = 3
           /\ IsDelete(r) /\ run' \in [Runs -> Run] /\ Only(r)
           /\ run'[r].ask = run[r].ask /\ run'[r].of = run[r].of /\ run'[r].pc = "ready"
           /\ run'[r].uri = run[r].uri /\ run'[r].results = run[r].results /\ SameSource(r)
           /\ run'[r].step >= run[r].step /\ run'[r].status # "absent"
           /\ UNCHANGED <<dataset, source, stores, process, histories>>
<1>0. TypeOK /\ run[r] \in Run /\ Runs_(r, "converge")
  BY DEF RunsInv, TypeOK, ConvergeProjection
<1>1. /\ r \in Created /\ run[r].status = "running" /\ Step(r) = "converge"
      /\ run[r].step \in 1..Length(r)
  BY <1>0, AtStep
<1>2. IsDelete(r) /\ run[r].step = 3 /\ Kind(r) # "remember"
  BY <1>0, <1>1, StepNames DEF IsDelete
<1>3. UNCHANGED <<dataset, source, stores, process, histories>>
  BY DEF ConvergeProjection
<1>4. CASE run[r].rows = "dead"
  <2>1. FailPermanently(r)
    BY <1>4 DEF ConvergeProjection
  <2>2. RowIs(r, "failed", run[r].step) /\ SameSource(r)
    BY <1>0, <2>1, FailFields
  <2>3. RunsInv'
    BY <1>1, <1>3, <2>1, Fails
  <2>4. QED BY <1>1, <1>2, <1>3, <2>2, <2>3 DEF RowIs
<1>5. CASE run[r].rows # "dead"
  <2> DEFINE row == [run[r] EXCEPT !.rows = "none"]
  <2>1. Persist(r, row)
    BY <1>5 DEF ConvergeProjection
  <2>2. /\ row \in Run /\ row.ask = run[r].ask /\ row.step = run[r].step /\ row.status = run[r].status
        /\ row.of = run[r].of /\ row.uri = run[r].uri /\ row.results = run[r].results
        /\ row.conflict = run[r].conflict /\ row.src = run[r].src /\ row.dedup = run[r].dedup
        /\ row.rows = "none"
    BY <1>0 DEF Run
  <2> HIDE DEF row
  <2>3. /\ run' \in [Runs -> Run] /\ Only(r)
        /\ run'[r].ask = run[r].ask /\ run'[r].status = Next_(r)
        /\ run'[r].step = run[r].step + 1 /\ run'[r].pc = "ready"
        /\ run'[r].of = row.of /\ run'[r].src = row.src /\ run'[r].dedup = row.dedup
        /\ run'[r].uri = row.uri /\ run'[r].results = row.results
        /\ run'[r].rows = row.rows /\ run'[r].conflict = row.conflict
    <3>1. run[r].step \in 1..5 /\ row.status = "running" /\ Persist(r, row)
      BY <1>1, <1>2, <2>1, <2>2
    <3>2. QED BY <1>0, <1>1, <2>2, <3>1, AdvancedFields
  <2>4. TypeOK'
    BY <1>0, <1>3, <2>3, TypeKept DEF TypeOK, stores, process, histories
  <2>5. Around
    BY <1>3, AroundSame DEF Around, process
  <2>6. RunsInv'
    BY <1>1, <1>2, <2>2, <2>3, <2>4, <2>5, MoveOnKeeps
  <2>7. Next_(r) = "running"
    BY <1>2 DEF Next_, Length
  <2>8. QED BY <1>1, <1>2, <1>3, <2>2, <2>3, <2>6, <2>7 DEF SameSource
<1>6. QED BY <1>4, <1>5

LEMMA RowsDieKeeps ==
    ASSUME RunsInv, NEW r \in Runs, RowsDie(r)
    PROVE  /\ RunsInv' /\ r \in Created /\ RowStays(r)
           /\ run'[r].pc = run[r].pc /\ run'[r].uri = run[r].uri /\ run'[r].results = run[r].results
           /\ run'[r].status = run[r].status
<1>0. TypeOK /\ run[r] \in Run /\ Runs_(r, "converge") /\ run[r].rows = "pending"
  BY DEF RunsInv, TypeOK, RowsDie
<1>1. r \in Created /\ run[r].status = "running"
  BY <1>0, AtStep
<1> DEFINE new == [run[r] EXCEPT !.rows = "dead"]
<1>2. run' = [run EXCEPT ![r] = new]
  BY <1>0 DEF RowsDie, TypeOK
<1>3. /\ new \in Run /\ new.ask = run[r].ask /\ new.of = run[r].of /\ new.step = run[r].step
      /\ new.src = run[r].src /\ new.dedup = run[r].dedup /\ new.conflict = run[r].conflict
      /\ new.status = run[r].status /\ new.pc = run[r].pc /\ new.results = run[r].results
      /\ new.uri = run[r].uri
  BY <1>0 DEF Run
<1> HIDE DEF new
<1>4. RowStays(r) /\ run'[r] = new
  BY <1>0, <1>2, <1>3, StaysBy
<1>5. /\ local' \subseteq Sources /\ s3' \subseteq Sources /\ ingress' \subseteq Runs
      /\ crossed' \subseteq Sources /\ lost' = lost /\ UNCHANGED <<dataset, source, process>>
  BY <1>0 DEF RowsDie, stores, TypeOK
<1>6. RunsInv'
  BY <1>0, <1>1, <1>3, <1>4, <1>5, Stays
<1>7. QED BY <1>1, <1>3, <1>4, <1>6

LEMMA TombstoneFields ==
    ASSUME RunsInv, NEW r \in Runs, Tombstone(r)
    PROVE  /\ r \in Created /\ run[r].status = "running" /\ run[r].step = 5 /\ IsDelete(r)
           /\ UNCHANGED <<stores, process, histories>>
           /\ \/ FailPermanently(r) /\ UNCHANGED <<dataset, source>>
              \/ /\ ~ResultsMissing(r, Deleting) /\ Persist(r, run[r])
                 /\ source' = Finalized(r, Deleting)
                 /\ dataset' = IF dataset = "deleting" THEN "deleted" ELSE dataset
<1>0. Runs_(r, "tombstone")
  BY DEF Tombstone
<1>1. /\ r \in Created /\ run[r].status = "running" /\ Step(r) = "tombstone"
      /\ run[r].step \in 1..Length(r)
  BY <1>0, AtStep
<1>2. IsDelete(r) /\ run[r].step = 5
  BY <1>1, StepNames DEF RunsInv
<1>3. QED BY <1>1, <1>2 DEF Tombstone

LEMMA TombstoneKeeps ==
    ASSUME RunsInv, NEW r \in Runs, Tombstone(r)
    PROVE  RunsInv'
<1>1. /\ TypeOK /\ RunShape(r) /\ r \in Created /\ run[r].status = "running" /\ run[r].step = 5
      /\ IsDelete(r) /\ UNCHANGED <<stores, process, histories>>
  BY TombstoneFields DEF RunsInv
<1>2. run[r].rows = "none"
  BY <1>1 DEF RunShape
<1>3. CASE FailPermanently(r) /\ UNCHANGED <<dataset, source>>
  BY <1>1, <1>3, Fails
<1>4. CASE /\ Persist(r, run[r]) /\ source' = Finalized(r, Deleting)
           /\ dataset' = IF dataset = "deleting" THEN "deleted" ELSE dataset
  <2>1. source' \in [Sources -> Source]
    BY <1>1, <1>4, FinalizedFields
  <2>2. \A s \in Sources : source'[s].status = "absent" <=> source[s].status = "absent"
    BY <1>1, <1>4, FinalizedFields DEF Deleting
  <2>3. dataset' \in {"active", "deleting", "deleted"}
    BY <1>1, <1>4 DEF TypeOK
  <2>4. Around
    BY <1>1, <1>4, <2>2, AroundSame DEF Around, process
  <2>5. crossed' \subseteq Sources /\ lost' = lost
    BY <1>1 DEF TypeOK, histories
  <2>6. QED BY <1>1, <1>2, <1>4, <2>1, <2>3, <2>4, <2>5, Persists
<1>5. QED BY <1>3, <1>4, TombstoneFields

\* A step that failed and is tried again, or ends its run.
Dropped(r) ==
    /\ r \in Created /\ run[r].status = "running" /\ RowStays(r)
    /\ run'[r].status \in {"backoff", "failed"}
    /\ run'[r].rows = run[r].rows /\ run'[r].pc = "ready"
    /\ \A s \in Sources : run'[r].results[s] \in {run[r].results[s], "none"}

LEMMA DroppedFields ==
    ASSUME RunsInv, NEW r \in Runs, run[r].status = "running",
           NEW status \in {"backoff", "failed"},
           run' = [run EXCEPT ![r] = [Forgotten(run[r]) EXCEPT !.status = status]]
    PROVE  Dropped(r)
<1>0. TypeOK /\ run[r] \in Run /\ r \in Created
  BY DEF RunsInv, TypeOK, Created
<1> DEFINE row == Forgotten(run[r])
           new == [row EXCEPT !.status = status]
<1>1. /\ row \in Run
      /\ row.ask = run[r].ask /\ row.of = run[r].of /\ row.step = run[r].step
      /\ row.src = run[r].src /\ row.dedup = run[r].dedup
      /\ row.rows = run[r].rows /\ row.conflict = run[r].conflict /\ row.pc = "ready"
      /\ \A s \in Sources : row.results[s] \in {run[r].results[s], "none"}
  BY <1>0, ForgottenFields
<1> HIDE DEF row
<1>3. /\ new \in Run /\ new.ask = row.ask /\ new.of = row.of /\ new.step = row.step
      /\ new.src = row.src /\ new.dedup = row.dedup /\ new.conflict = row.conflict
      /\ new.status = status /\ new.pc = row.pc /\ new.results = row.results
      /\ new.rows = row.rows
  BY <1>1 DEF Run
<1> HIDE DEF new
<1>2. run' = [run EXCEPT ![r] = new]
  BY DEF row, new
<1>4. RowStays(r) /\ run'[r] = new
  <2>1. /\ new \in Run /\ new.ask = run[r].ask /\ new.of = run[r].of /\ new.step = run[r].step
        /\ new.src = run[r].src /\ new.dedup = run[r].dedup /\ new.conflict = run[r].conflict
    BY <1>1, <1>3
  <2>2. QED BY <1>0, <1>2, <2>1, StaysBy
<1>5. QED BY <1>0, <1>1, <1>3, <1>4 DEF Dropped

LEMMA RunFailsKeeps ==
    ASSUME RunsInv, NEW r \in Runs, RunFails(r)
    PROVE  RunsInv' /\ Dropped(r)
<1>1. PICK status \in {"backoff", "failed"} :
          run' = [run EXCEPT ![r] = [Forgotten(run[r]) EXCEPT !.status = status]]
  BY DEF RunFails
<1>2. run[r].status = "running"
  BY DEF RunFails
<1>3. Dropped(r)
  BY <1>1, <1>2, DroppedFields
<1>4. /\ local' \subseteq Sources /\ s3' \subseteq Sources /\ ingress' \subseteq Runs
      /\ crossed' \subseteq Sources /\ lost' = lost /\ UNCHANGED <<dataset, source, process>>
  BY DEF RunFails, stores, RunsInv, TypeOK
<1>5. QED BY <1>3, <1>4, Stays DEF Dropped

LEMMA PutUnconfirmedKeeps ==
    ASSUME RunsInv, NEW r \in Runs, PutUnconfirmed(r)
    PROVE  /\ RunsInv' /\ Dropped(r) /\ Kind(r) = "remember" /\ run[r].step = 2 /\ ~run[r].dedup
           /\ run[r].src \in Known
<1>1. /\ run' = [run EXCEPT ![r] = [Forgotten(run[r]) EXCEPT !.status = "backoff"]]
      /\ Runs_(r, "store") /\ run[r].status = "running" /\ ~run[r].dedup
  BY DEF PutUnconfirmed, Runs_
<1>2. Dropped(r)
  BY <1>1, DroppedFields
<1>3. Kind(r) = "remember" /\ run[r].step = 2 /\ RunShape(r)
  BY <1>1, AtStep, StepNames DEF RunsInv
<1>4. run[r].src \in Known /\ run[r].src \in Sources
  BY <1>3 DEF RunShape, Known
<1>5. /\ local' \subseteq Sources /\ ingress' \subseteq Runs
      /\ crossed' \subseteq Sources /\ lost' = lost /\ UNCHANGED <<dataset, source, process>>
  BY DEF PutUnconfirmed, RunsInv, TypeOK
<1>6. s3' \subseteq Sources
  BY <1>4 DEF PutUnconfirmed, RunsInv, TypeOK
<1>7. QED BY <1>1, <1>2, <1>3, <1>4, <1>5, <1>6, Stays DEF Dropped

\* Every run keeps its step, or begins its delete, and may stop being worked on.
RowsKept ==
    \A q \in Runs :
        /\ run'[q].ask = run[q].ask /\ run'[q].of = run[q].of /\ run'[q].src = run[q].src
        /\ run'[q].dedup = run[q].dedup /\ run'[q].rows = run[q].rows
        /\ run'[q].conflict = run[q].conflict
        /\ \/ run'[q].step = run[q].step
           \/ /\ IsDelete(q) /\ run[q].step = 1 /\ run'[q].step = 2
              /\ run[q].status = "running" /\ run'[q].status = "running"
        /\ \/ run'[q].status = run[q].status
           \/ /\ run'[q].status \in {"backoff", "failed"}
              /\ run[q].status \in {"queued", "backoff", "running"}

LEMMA RowsKeptKeeps ==
    ASSUME RunsInv, TypeOK', RowsKept, source' = source,
           phase' = "converging" =>
               phase = "converging" \/ \A q \in Runs : run'[q].status # "running",
           DeleteOwnsDataset' => dataset' # "active"
    PROVE  RunsInv'
<1>0. /\ TypeOK /\ Numbered /\ OneAtATime /\ ConvergingRuns /\ OneLineage
      /\ \A q \in Created : RunShape(q)
  BY DEF RunsInv
<1>1. Created' = Created /\ Created \subseteq Runs /\ Known' = Known
  BY DEF RowsKept, Created, Known, Exists
<1>2. \A q \in Runs : /\ Kind(q)' = Kind(q) /\ IsDelete(q)' = IsDelete(q)
                      /\ IsForget(q)' = IsForget(q) /\ Length(q)' = Length(q)
                      /\ run[q].step \in 1..6 /\ run'[q].step >= run[q].step
                      /\ run[q].status = "failed" => run'[q].status = "failed"
                                                     /\ run'[q].step = run[q].step
  BY <1>0 DEF RowsKept, Kind, IsDelete, IsForget, Length, TypeOK, Run
<1>3. Numbered'
  BY <1>0, <1>1 DEF Numbered
<1>4. ASSUME NEW q \in Created PROVE RunShape(q)'
  <2>1. q \in Runs /\ RunShape(q)
    BY <1>0, <1>1
  <2>2. run'[q].of # None => /\ run'[q].of \in Created' /\ run'[run'[q].of].status = "failed"
                             /\ run'[run'[q].of].ask = run'[q].ask
    <3>1. run[q].of # None => /\ run[q].of \in Created /\ run[q].of \in Runs
                              /\ run[run[q].of].status = "failed"
                              /\ run[run[q].of].ask = run[q].ask
      BY <1>1, <2>1 DEF RunShape
    <3>2. QED BY <1>1, <1>2, <2>1, <3>1 DEF RowsKept
  <2>3. run'[q].status = "succeeded" <=> run'[q].step > Length(q)
    <3>1. run[q].status = "succeeded" <=> run[q].step > Length(q)
      BY <2>1 DEF RunShape
    <3>2. Length(q) \in {3, 5}
      BY DEF Length
    <3>3. CASE run'[q].step = run[q].step
      BY <2>1, <3>1, <3>3 DEF RowsKept
    <3>4. CASE run'[q].step # run[q].step
      BY <2>1, <3>1, <3>2, <3>4 DEF RowsKept
    <3>5. QED BY <3>3, <3>4
  <2>4. run'[q].conflict => run'[q].status = "failed" /\ run'[q].step = 1
    BY <1>2, <2>1 DEF RowsKept, RunShape
  <2>5. run'[q].rows # "none" => IsDelete(q) /\ run'[q].step = 3
    BY <2>1 DEF RowsKept, RunShape
  <2>6. Kind(q) = "forget_source" => run'[q].ask.target \in Known'
    BY <1>1, <2>1 DEF RowsKept, RunShape
  <2>7. Kind(q) = "remember" => IF run'[q].step = 1 THEN run'[q].src = None /\ ~run'[q].dedup
                                ELSE run'[q].src \in Known'
    BY <1>1, <2>1 DEF RowsKept, RunShape, IsDelete
  <2>8. QED BY <1>2, <2>1, <2>2, <2>3, <2>4, <2>5, <2>6, <2>7 DEF RunShape
<1>5. \A q \in Runs : run'[q].status = "running" => run[q].status = "running"
  BY DEF RowsKept
<1>6. OneAtATime'
  BY <1>0, <1>5 DEF OneAtATime
<1>7. ConvergingRuns'
  <2> SUFFICES ASSUME phase' = "converging", NEW q \in Runs, run'[q].status = "running"
               PROVE  Mutated(q)'
    BY DEF ConvergingRuns
  <2>1. Mutated(q)
    BY <1>0, <1>5 DEF ConvergingRuns
  <2>2. (IsForget(q) /\ run[q].step > 1) \/ (IsDelete(q) /\ run[q].step > 2)
    BY <1>0, <2>1, Passing
  <2>3. /\ Mutated(q)' <=> (IsForget(q)' /\ run'[q].step > 1) \/ (IsDelete(q)' /\ run'[q].step > 2)
        /\ run'[q].step \in 1..6
    BY PassingThen
  <2>4. QED BY <1>2, <2>2, <2>3
<1>8. OneLineage'
  <2>1. RetriedAnew => RetriedAnew'
    <3> SUFFICES ASSUME NEW q \in Created, IsDelete(q), run[q].of # None, run[run[q].of].step = 1
                 PROVE  RetriedAnew'
      BY DEF RetriedAnew
    <3>1. q \in Runs /\ run[q].of \in Runs /\ run[run[q].of].status = "failed"
      BY <1>0 DEF RunShape, Created
    <3>2. run'[run[q].of].step = 1 /\ run'[q].of = run[q].of /\ IsDelete(q)'
      BY <1>2, <3>1 DEF RowsKept
    <3>3. QED BY <1>1, <3>2 DEF RetriedAnew
  <2>2. ASSUME NEW q \in Runs, Open(q)' PROVE Open(q)
    <3>1. q \in Created /\ IsDelete(q)
      BY <1>1, <1>2, <2>2 DEF Open
    <3>2. CASE Nonterminal(q)'
      BY <3>1, <3>2 DEF Open, RowsKept, Nonterminal, Waiting
    <3>3. CASE /\ run'[q].status = "failed" /\ run'[q].step > 1
               /\ \A p \in Created' : run'[p].of # q
      <4>1. CASE run[q].status = "failed"
        BY <1>1, <1>2, <3>1, <3>3, <4>1 DEF Open, RowsKept
      <4>2. CASE run[q].status # "failed"
        BY <3>1, <3>3, <4>2 DEF Open, RowsKept, Nonterminal, Waiting
      <4>3. QED BY <4>1, <4>2
    <3>4. QED BY <2>2, <3>2, <3>3 DEF Open
  <2>3. QED BY <1>0, <2>1, <2>2 DEF OneLineage
<1>9. DeleteKeepsDataset'
  BY DEF DeleteKeepsDataset
<1>10. QED BY <1>1, <1>3, <1>4, <1>6, <1>7, <1>8, <1>9 DEF RunsInv

LEMMA BeginDeleteKeeps ==
    ASSUME RunsInv, NEW r \in Runs, BeginDelete(r)
    PROVE  RunsInv'
<1>0. TypeOK /\ run[r] \in Run /\ Runs_(r, "begin")
  BY DEF RunsInv, TypeOK, BeginDelete
<1>1. /\ r \in Created /\ run[r].status = "running" /\ Step(r) = "begin"
      /\ run[r].step \in 1..Length(r)
  BY <1>0, AtStep
<1>2. IsDelete(r) /\ run[r].step = 1
  BY <1>0, <1>1, StepNames
<1>3. CASE dataset = "deleted"
  BY <1>1, <1>3, Fails DEF BeginDelete
<1>4. CASE dataset # "deleted"
  <2> DEFINE dropped(q) == [run[q] EXCEPT !.status = "failed"]
             after(q) == IF q = r THEN Advanced(run[r])
                         ELSE IF run[q].status \in Waiting /\ ~IsDelete(q) /\ Kind(q) # "everything"
                              THEN dropped(q) ELSE run[q]
  <2>1. /\ dataset' = "deleting" /\ run' = [q \in Runs |-> after(q)]
        /\ UNCHANGED <<source, stores, process, histories>>
    BY <1>4 DEF BeginDelete
  <2>2. /\ Advanced(run[r]) \in Run
        /\ Advanced(run[r]).ask = run[r].ask /\ Advanced(run[r]).of = run[r].of
        /\ Advanced(run[r]).src = run[r].src /\ Advanced(run[r]).dedup = run[r].dedup
        /\ Advanced(run[r]).rows = run[r].rows /\ Advanced(run[r]).conflict = run[r].conflict
        /\ Advanced(run[r]).step = 2 /\ Advanced(run[r]).status = "running"
    <3> DEFINE st == IF run[r].step = Len(Plan(run[r].ask.kind)) THEN "succeeded" ELSE run[r].status
               at == run[r].step + 1
    <3>1. Advanced(run[r]) = [run[r] EXCEPT !.step = at, !.pc = "ready", !.status = st]
      BY DEF Advanced
    <3>2. at = 2 /\ at \in 1..6
      BY <1>2
    <3>3. st = "running"
      <4>1. Len(Plan(Kind(r))) = 5
        BY <1>0, <1>2, Kinds DEF Length
      <4>2. Len(Plan(run[r].ask.kind)) = 5
        BY <4>1 DEF Kind
      <4>3. QED BY <1>1, <1>2, <4>2
    <3> HIDE DEF at, st
    <3>4. QED BY <1>0, <3>1, <3>2, <3>3 DEF Run
  <2>3. \A q \in Runs : /\ dropped(q) \in Run /\ dropped(q).ask = run[q].ask
                        /\ dropped(q).of = run[q].of /\ dropped(q).src = run[q].src
                        /\ dropped(q).dedup = run[q].dedup /\ dropped(q).rows = run[q].rows
                        /\ dropped(q).conflict = run[q].conflict
                        /\ dropped(q).step = run[q].step /\ dropped(q).status = "failed"
    BY <1>0 DEF TypeOK, Run
  <2> HIDE DEF dropped
  <2>4. run' \in [Runs -> Run]
    BY <1>0, <2>1, <2>2, <2>3 DEF TypeOK
  <2>5. RowsKept
    BY <1>0, <1>1, <1>2, <2>1, <2>2, <2>3 DEF RowsKept, Waiting
  <2>6. TypeOK'
    BY <1>0, <2>1, <2>4, TypeKept DEF TypeOK, stores, process, histories
  <2>7. QED BY <2>1, <2>5, <2>6, RowsKeptKeeps DEF process
<1>5. QED BY <1>3, <1>4

LEMMA CrashKeeps ==
    ASSUME RunsInv, Crash
    PROVE  /\ RunsInv' /\ RowsKept
           /\ \A q \in Runs :
                 /\ run'[q].step = run[q].step /\ run'[q].status = run[q].status
                 /\ run[q].status = "running" => run'[q].pc = "ready"
                 /\ run[q].status # "running" => run'[q] = run[q]
                 /\ \A s \in Sources : run'[q].results[s] \in {run[q].results[s], "none"}
<1>0. TypeOK /\ \A q \in Runs : run[q] \in Run
  BY DEF RunsInv, TypeOK
<1>1. \A q \in Runs :
         /\ run'[q] \in Run
         /\ run'[q].ask = run[q].ask /\ run'[q].of = run[q].of
         /\ run'[q].status = run[q].status /\ run'[q].step = run[q].step
         /\ run'[q].src = run[q].src /\ run'[q].dedup = run[q].dedup
         /\ run'[q].rows = run[q].rows /\ run'[q].conflict = run[q].conflict
         /\ run[q].status = "running" => run'[q].pc = "ready"
         /\ run[q].status # "running" => run'[q] = run[q]
         /\ \A s \in Sources : run'[q].results[s] \in {run[q].results[s], "none"}
  BY <1>0, ForgottenFields DEF Crash
<1>2. run' \in [Runs -> Run]
  BY <1>1 DEF Crash
<1>3. RowsKept
  BY <1>1 DEF RowsKept
<1>4. TypeOK'
  <2>1. NoPass \in Pass /\ NoPass.at = "idle"
    BY DEF NoPass, Pass, NoSource, Source
  <2>2. QED BY <1>0, <1>2, <2>1 DEF TypeOK, Crash, stores
<1>5. DeleteOwnsDataset' => dataset' # "active"
  <2>1. DeleteOwnsDataset' => DeleteOwnsDataset
    BY <1>1 DEF DeleteOwnsDataset, Created, IsDelete, Kind, Passed
  <2>2. QED BY <2>1 DEF Crash, RunsInv, DeleteKeepsDataset
<1>6. RunsInv'
  BY <1>3, <1>4, <1>5, RowsKeptKeeps DEF Crash
<1>7. QED BY <1>1, <1>3, <1>6

LEMMA BootKeeps ==
    ASSUME RunsInv, NEW b \in {"file", "s3"}, Boot(b)
    PROVE  /\ RunsInv' /\ RowsKept
           /\ \A q \in Runs :
                 /\ run'[q].step = run[q].step /\ run'[q].pc = run[q].pc
                 /\ run'[q].results = run[q].results /\ run'[q].uri = run[q].uri
                 /\ run'[q].status = IF run[q].status = "running" THEN "backoff"
                                     ELSE run[q].status
<1>0. TypeOK /\ \A q \in Runs : run[q] \in Run
  BY DEF RunsInv, TypeOK
<1> DEFINE new(q) == [run[q] EXCEPT !.status = "backoff"]
<1>1. run' = [q \in Runs |-> IF run[q].status = "running" THEN new(q) ELSE run[q]]
  BY DEF Boot
<1>2. \A q \in Runs : /\ new(q) \in Run /\ new(q).ask = run[q].ask /\ new(q).of = run[q].of
                      /\ new(q).src = run[q].src /\ new(q).dedup = run[q].dedup
                      /\ new(q).rows = run[q].rows /\ new(q).conflict = run[q].conflict
                      /\ new(q).step = run[q].step /\ new(q).status = "backoff"
                      /\ new(q).pc = run[q].pc /\ new(q).results = run[q].results
                      /\ new(q).uri = run[q].uri
  BY <1>0 DEF Run
<1> HIDE DEF new
<1>3. run' \in [Runs -> Run]
  BY <1>0, <1>1, <1>2
<1>4. RowsKept
  BY <1>0, <1>1, <1>2 DEF RowsKept
<1>5. TypeOK'
  BY <1>0, <1>3 DEF TypeOK, Pass, Boot, stores, histories
<1>6. DeleteOwnsDataset' => dataset' # "active"
  <2>1. DeleteOwnsDataset' => DeleteOwnsDataset
    BY <1>1, <1>2 DEF DeleteOwnsDataset, Created, IsDelete, Kind, Passed
  <2>2. QED BY <2>1 DEF Boot, RunsInv, DeleteKeepsDataset
<1>7. \A q \in Runs : run'[q].status # "running"
  BY <1>1, <1>2
<1>8. RunsInv'
  BY <1>4, <1>5, <1>6, <1>7, RowsKeptKeeps DEF Boot
<1>9. QED BY <1>1, <1>2, <1>4, <1>8

LEMMA LoseObjectKeeps ==
    ASSUME RunsInv, NEW s \in Sources, LoseObject(s)
    PROVE  RunsInv'
<1>1. TypeOK'
  BY DEF RunsInv, TypeOK, Pass, LoseObject, process
<1>2. QED BY <1>1, QuietKeeps DEF LoseObject, process

\* A pass of the convergence leaves everything but the sources' locations.
PassMoves ==
    /\ pass' \in Pass /\ (pass'.at \in {"copied", "moved"} => pass'.cur \in Sources)
    /\ source' \in [Sources -> Source]
    /\ \A s \in Sources : source'[s].status = source[s].status /\ source'[s].doc = source[s].doc
    /\ local' \subseteq Sources /\ s3' \subseteq Sources
    /\ phase' = phase \/ (phase = "converging" /\ phase' = "operational")
    /\ UNCHANGED others

LEMMA PassMovesKeeps ==
    ASSUME RunsInv, PassMoves
    PROVE  RunsInv'
<1>1. TypeOK'
  BY DEF RunsInv, TypeOK, PassMoves, others
<1>2. QED BY <1>1, QuietKeeps DEF PassMoves, others

\* The records a pass goes through.
LEMMA PassRecords ==
    ASSUME TypeOK, NEW s \in Sources
    PROVE  /\ NoPass \in Pass
           /\ DoneWith(s).at = "scan" /\ DoneWith(s).todo = pass.todo \ {s}
           /\ DoneWith(s).snap = pass.snap /\ DoneWith(s).cur = None
           /\ DoneWith(s).failed = pass.failed /\ DoneWith(s).d43 = pass.d43
           /\ DoneWith(s).lineage = pass.lineage /\ DoneWith(s).again = pass.again
           /\ DoneWith(s) \in Pass
  BY DEF TypeOK, Pass, DoneWith, NoPass, NoSource, Source

\* The lineage the convergence names is one of those it has found.
LEMMA LineageFound ==
    ASSUME NEW s \in Sources, Lineages(s) # {}
    PROVE  LineageOf(s) \in Lineages(s)
<1>1. Lineages(s) \subseteq Runs
  BY DEF Lineages, Created
<1> DEFINE away == {MaxRuns - r : r \in Lineages(s)}
<1>2. away \subseteq Nat /\ away # {}
  BY <1>1, BoundsAssumption DEF Runs
<1>3. PICK n \in away : \A m \in away : n <= m
  <2> DEFINE less == OpToRel(<, Nat)
  <2>1. IsWellFoundedOn(less, Nat)
    BY NatLessThanWellFounded, Zenon
  <2>2. \A m, k \in Nat : <<m, k>> \in less <=> m < k
    BY DEF OpToRel
  <2> HIDE DEF less, away
  <2>3. PICK n \in away : \A m \in away : <<m, n>> \notin less
    BY <1>2, <2>1, WFMin
  <2>4. ASSUME NEW m \in away PROVE n <= m
    <3>1. m \in Nat /\ n \in Nat
      BY <1>2
    <3>2. ~(m < n)
      BY <2>2, <2>3, <3>1
    <3>3. QED BY <3>1, <3>2
  <2>5. QED BY <2>4
<1>4. PICK r \in Lineages(s) : n = MaxRuns - r
  BY <1>3
<1>5. \A q \in Lineages(s) : q <= r
  BY <1>1, <1>3, <1>4, BoundsAssumption DEF Runs
<1>6. QED BY <1>4, <1>5 DEF LineageOf

\* What the convergence's steps make of its pass.
LEMMA PassResults ==
    ASSUME TypeOK, NEW s \in Sources
    PROVE  /\ [DoneWith(s) EXCEPT !.failed = @ \cup {s}] \in Pass
           /\ [DoneWith(s) EXCEPT !.failed = @ \cup {s}, !.d43 = @ \cup {s}] \in Pass
           /\ [DoneWith(s) EXCEPT !.again = TRUE] \in Pass
           /\ [pass EXCEPT !.at = "copied", !.cur = s] \in Pass
           /\ [pass EXCEPT !.at = "moved"] \in Pass
           /\ [NoPass EXCEPT !.at = "scan", !.todo = Known, !.snap = source] \in Pass
           /\ Lineages(s) # {} =>
                 [DoneWith(s) EXCEPT !.lineage = @ \cup {LineageOf(s)},
                                     !.again = @ \/ Nonterminal(LineageOf(s))] \in Pass
<1>1. pass \in Pass /\ NoPass \in Pass /\ Known \subseteq Sources /\ source \in [Sources -> Source]
  BY PassRecords DEF TypeOK, Known
<1>2. DoneWith(s) \in Pass
  BY PassRecords
<1>3. /\ [pass EXCEPT !.at = "copied", !.cur = s] \in Pass
      /\ [pass EXCEPT !.at = "moved"] \in Pass
  BY <1>1 DEF Pass
<1>4. [NoPass EXCEPT !.at = "scan", !.todo = Known, !.snap = source] \in Pass
  BY <1>1 DEF Pass
<1> DEFINE done == DoneWith(s)
<1>5. done \in Pass
  BY <1>2
<1> HIDE DEF done
<1>6. /\ [done EXCEPT !.failed = @ \cup {s}] \in Pass
      /\ [done EXCEPT !.failed = @ \cup {s}, !.d43 = @ \cup {s}] \in Pass
      /\ [done EXCEPT !.again = TRUE] \in Pass
  BY <1>5 DEF Pass
<1>7. Lineages(s) # {} =>
         [done EXCEPT !.lineage = @ \cup {LineageOf(s)},
                      !.again = @ \/ Nonterminal(LineageOf(s))] \in Pass
  <2>1. Lineages(s) # {} => LineageOf(s) \in Runs
    BY LineageFound DEF Lineages, Created
  <2> DEFINE l == LineageOf(s)  again == Nonterminal(LineageOf(s))
  <2>2. again \in BOOLEAN
    BY DEF Nonterminal
  <2>3. Lineages(s) # {} => l \in Runs
    BY <2>1
  <2> HIDE DEF l, again
  <2>4. Lineages(s) # {} =>
            [done EXCEPT !.lineage = @ \cup {l}, !.again = @ \/ again] \in Pass
    BY <1>5, <2>2, <2>3 DEF Pass
  <2>5. QED BY <2>4 DEF l, again
<1>8. QED BY <1>3, <1>4, <1>6, <1>7 DEF done

LEMMA PassSame ==
    ASSUME TypeOK, UNCHANGED others
    PROVE  /\ source' = source /\ local' = local /\ s3' = s3 /\ phase' = phase
              /\ pass' \in Pass /\ pass'.at \notin {"copied", "moved"} => PassMoves
           /\ source' = source /\ local' \subseteq Sources /\ s3' \subseteq Sources /\ phase' = phase
              /\ pass' \in Pass /\ pass'.cur \in Sources => PassMoves
           /\ source' = source /\ local' \subseteq Sources /\ s3' \subseteq Sources /\ phase' = phase
              /\ pass' \in Pass /\ pass'.at = "scan" => PassMoves
BY DEF TypeOK, PassMoves

LEMMA StartPassMoves ==
    ASSUME TypeOK, StartPass
    PROVE  /\ PassMoves /\ pass'.at = "scan" /\ pass'.todo = Known /\ pass'.snap = source
           /\ pass'.failed = {} /\ pass'.d43 = {} /\ phase = "converging"
<1>1. pass' = [NoPass EXCEPT !.at = "scan", !.todo = Known, !.snap = source]
  BY DEF StartPass
<1>2. /\ pass'.at = "scan" /\ pass'.todo = Known /\ pass'.snap = source
      /\ pass'.failed = {} /\ pass'.d43 = {}
  BY <1>1 DEF NoPass
<1>3. pass' \in Pass
  <2>1. PICK s \in Sources : TRUE
    BY BoundsAssumption DEF Sources
  <2>2. QED BY <1>1, <2>1, PassResults
<1>4. PassMoves
  BY <1>2, <1>3, PassSame DEF StartPass
<1>5. QED BY <1>2, <1>4 DEF StartPass, Converging

LEMMA JudgeMoves ==
    ASSUME TypeOK, NEW s \in Sources, Judge(s)
    PROVE  /\ PassMoves /\ source' = source /\ local' = local /\ s3' = s3 /\ phase' = phase
           /\ phase = "converging" /\ pass'.at = "scan" /\ pass'.todo \subseteq pass.todo
           /\ pass'.snap = pass.snap /\ pass'.d43 = pass.d43 /\ s \in pass.todo
           /\ \/ pass'.failed = pass.failed
              \/ Snap(s).status = "deleting" /\ Lineages(s) = {}
<1>1. pass \in Pass
  BY DEF TypeOK
<1> DEFINE done == DoneWith(s)
<1>2. /\ done.at = "scan" /\ done.todo = pass.todo \ {s} /\ done.snap = pass.snap
      /\ done.failed = pass.failed /\ done.d43 = pass.d43 /\ done \in Pass
  BY PassRecords
<1> HIDE DEF done
<1>3. \/ pass' = done
      \/ /\ Snap(s).status = "deleting" /\ Lineages(s) = {}
         /\ pass' = [done EXCEPT !.failed = @ \cup {s}]
      \/ /\ Lineages(s) # {}
         /\ pass' = [done EXCEPT !.lineage = @ \cup {LineageOf(s)},
                                 !.again = @ \/ Nonterminal(LineageOf(s))]
  BY DEF Judge, done
<1>4. pass' \in Pass
  BY <1>2, <1>3, PassResults DEF done
<1>5. /\ pass'.at = "scan" /\ pass'.todo \subseteq pass.todo /\ pass'.snap = pass.snap
      /\ pass'.d43 = pass.d43
      /\ pass'.failed = pass.failed \/ (Snap(s).status = "deleting" /\ Lineages(s) = {})
  BY <1>2, <1>3 DEF Pass
<1>6. source' = source /\ local' = local /\ s3' = s3 /\ phase' = phase /\ UNCHANGED others
      /\ phase = "converging" /\ s \in pass.todo
  BY DEF Judge, Converging
<1>7. PassMoves
  BY <1>4, <1>5, <1>6, PassSame
<1>8. QED BY <1>5, <1>6, <1>7

LEMMA MigrateMoves ==
    ASSUME TypeOK, NEW s \in Sources, Migrate(s) \/ MigrateFails(s)
    PROVE  /\ PassMoves /\ source' = source /\ local' = local /\ s3' \in {s3, s3 \cup {s}}
           /\ phase' = phase /\ phase = "converging" /\ s \in pass.todo /\ pass.at = "scan"
           /\ LiveSnap(s) /\ Snap(s).uri = "file"
           /\ pass'.todo \subseteq pass.todo /\ pass'.snap = pass.snap /\ pass'.d43 = pass.d43
           /\ \/ pass'.at = "scan" /\ pass'.failed = pass.failed
              \/ pass'.at = "scan" /\ s \notin local /\ pass'.failed = pass.failed \cup {s}
              \/ /\ pass'.at = "copied" /\ pass'.cur = s /\ s \in s3' /\ s \in pass'.todo
                 /\ pass'.failed = pass.failed
<1>1. pass \in Pass
  BY DEF TypeOK
<1> DEFINE done == DoneWith(s)
<1>2. /\ done.at = "scan" /\ done.todo = pass.todo \ {s} /\ done.snap = pass.snap
      /\ done.failed = pass.failed /\ done.d43 = pass.d43 /\ done \in Pass
  BY PassRecords
<1> HIDE DEF done
<1>3. \/ pass' = [done EXCEPT !.again = TRUE]
      \/ s \notin local /\ pass' = [done EXCEPT !.failed = @ \cup {s}]
      \/ /\ pass' = [pass EXCEPT !.at = "copied", !.cur = s] /\ s3' = s3 \cup {s}
  BY DEF Migrate, MigrateFails, done
<1>4. pass' \in Pass
  BY <1>2, <1>3, PassResults DEF done
<1>5. /\ source' = source /\ local' = local /\ s3' \in {s3, s3 \cup {s}}
      /\ phase' = phase /\ phase = "converging" /\ s \in pass.todo /\ pass.at = "scan"
      /\ LiveSnap(s) /\ Snap(s).uri = "file" /\ UNCHANGED others
  BY DEF Migrate, MigrateFails, Converging
<1>6. /\ pass'.todo \subseteq pass.todo /\ pass'.snap = pass.snap /\ pass'.d43 = pass.d43
      /\ \/ pass'.at = "scan" /\ pass'.failed = pass.failed
         \/ pass'.at = "scan" /\ s \notin local /\ pass'.failed = pass.failed \cup {s}
         \/ /\ pass'.at = "copied" /\ pass'.cur = s /\ s \in s3' /\ s \in pass'.todo
            /\ pass'.failed = pass.failed
  BY <1>1, <1>2, <1>3, <1>5 DEF Pass
<1>7. local' \subseteq Sources /\ s3' \subseteq Sources
  BY <1>5 DEF TypeOK
<1>8. PassMoves
  BY <1>4, <1>5, <1>6, <1>7, PassSame
<1>9. QED BY <1>5, <1>6, <1>8

LEMMA RepointMoves ==
    ASSUME TypeOK, Repoint
    PROVE  /\ PassMoves /\ local' = local /\ s3' = s3 /\ phase' = phase /\ phase = "converging"
           /\ pass.at = "copied" /\ pass.cur \in Sources
           /\ pass'.todo \subseteq pass.todo /\ pass'.snap = pass.snap
           /\ \/ /\ pass'.at = "moved" /\ pass'.cur = pass.cur /\ pass'.todo = pass.todo
                 /\ pass'.failed = pass.failed /\ pass'.d43 = pass.d43
                 /\ source[pass.cur].uri = "s3" /\ source' = source
              \/ /\ pass'.at = "scan" /\ source' = source
                 /\ source[pass.cur].status # Snap(pass.cur).status
                    \/ source[pass.cur].uri # Snap(pass.cur).uri
              \/ /\ pass'.at = "moved" /\ pass'.cur = pass.cur /\ pass'.todo = pass.todo
                 /\ pass'.failed = pass.failed /\ pass'.d43 = pass.d43
                 /\ source[pass.cur].status = Snap(pass.cur).status
                 /\ \A t \in Sources : IF t = pass.cur THEN source'[t].uri = "s3"
                                       ELSE source'[t] = source[t]
<1>1. pass \in Pass /\ pass.at = "copied" /\ pass.cur \in Sources /\ phase = "converging"
  BY DEF TypeOK, Repoint, Converging
<1> DEFINE s == pass.cur  done == DoneWith(s)
<1>2. s \in Sources
  BY <1>1
<1>3. /\ done.at = "scan" /\ done.todo = pass.todo \ {s} /\ done.snap = pass.snap
      /\ done \in Pass
  BY <1>2, PassRecords
<1> DEFINE moved == [pass EXCEPT !.at = "moved"]
<1>4. /\ moved \in Pass /\ moved.at = "moved" /\ moved.cur = s /\ moved.todo = pass.todo
      /\ moved.failed = pass.failed /\ moved.d43 = pass.d43 /\ moved.snap = pass.snap
  BY <1>1 DEF Pass
<1> HIDE DEF done, moved
<1>5. local' = local /\ s3' = s3 /\ phase' = phase /\ UNCHANGED others
  BY DEF Repoint
<1>6. \/ source[s].uri = "s3" /\ pass' = moved /\ source' = source
      \/ /\ source[s].status # Snap(s).status \/ source[s].uri # Snap(s).uri
         /\ source' = source
         /\ \/ pass' = [done EXCEPT !.failed = @ \cup {s}, !.d43 = @ \cup {s}]
            \/ pass' = done
            \/ pass' = [done EXCEPT !.failed = @ \cup {s}]
      \/ /\ source[s].status = Snap(s).status /\ pass' = moved
         /\ source' = [source EXCEPT ![s].uri = "s3"]
  BY DEF Repoint, done, moved
<1>7. CASE source[s].uri = "s3" /\ pass' = moved /\ source' = source
  <2>1. PassMoves
    BY <1>2, <1>4, <1>5, <1>7 DEF PassMoves, TypeOK
  <2>2. QED BY <1>1, <1>4, <1>5, <1>7, <2>1
<1>8. CASE /\ source[s].status # Snap(s).status \/ source[s].uri # Snap(s).uri
           /\ source' = source
           /\ \/ pass' = [done EXCEPT !.failed = @ \cup {s}, !.d43 = @ \cup {s}]
              \/ pass' = done
              \/ pass' = [done EXCEPT !.failed = @ \cup {s}]
  <2>1. pass' \in Pass
    BY <1>2, <1>3, <1>8, PassResults DEF done
  <2>2. pass'.at = "scan" /\ pass'.todo \subseteq pass.todo /\ pass'.snap = pass.snap
    BY <1>3, <1>8 DEF Pass
  <2>3. PassMoves
    BY <1>5, <1>8, <2>1, <2>2, PassSame DEF PassMoves, TypeOK
  <2>4. QED BY <1>1, <1>5, <1>8, <2>2, <2>3
<1>9. CASE /\ source[s].status = Snap(s).status /\ pass' = moved
           /\ source' = [source EXCEPT ![s].uri = "s3"]
  <2> DEFINE new == [source[s] EXCEPT !.uri = "s3"]
  <2>1. new \in Source /\ new.status = source[s].status /\ new.doc = source[s].doc /\ new.uri = "s3"
    BY <1>2 DEF TypeOK, Source
  <2>2. source' = [source EXCEPT ![s] = new]
    BY <1>2, <1>9 DEF TypeOK
  <2> HIDE DEF new
  <2>3. source' \in [Sources -> Source] /\ source'[s] = new
        /\ \A t \in Sources : t # s => source'[t] = source[t]
    BY <1>2, <2>1, <2>2 DEF TypeOK
  <2>4. PassMoves
    BY <1>2, <1>4, <1>5, <1>9, <2>1, <2>3 DEF PassMoves, TypeOK
  <2>5. QED BY <1>1, <1>4, <1>5, <1>9, <2>1, <2>3, <2>4
<1>10. QED BY <1>6, <1>7, <1>8, <1>9

LEMMA CleanUpMoves ==
    ASSUME TypeOK, NEW s \in Sources, CleanUp(s) \/ CleanUpDeferred(s)
    PROVE  /\ PassMoves /\ source' = source /\ local' \in {local, local \ {s}} /\ s3' = s3
           /\ local' = local \/ s \in s3
           /\ phase' = phase /\ phase = "converging" /\ pass'.at = "scan"
           /\ InCleanUp(s) /\ pass'.todo \subseteq pass.todo \ {s} /\ pass'.snap = pass.snap
           /\ pass'.failed = pass.failed /\ pass'.d43 = pass.d43
<1> DEFINE done == DoneWith(s)
<1>1. /\ done.at = "scan" /\ done.todo = pass.todo \ {s} /\ done.snap = pass.snap
      /\ done.failed = pass.failed /\ done.d43 = pass.d43 /\ done \in Pass
  BY PassRecords
<1> HIDE DEF done
<1>2. /\ source' = source /\ local' \in {local, local \ {s}} /\ s3' = s3
      /\ local' = local \/ s \in s3
      /\ phase' = phase /\ phase = "converging" /\ InCleanUp(s) /\ UNCHANGED others
      /\ pass' = done
  BY DEF CleanUp, CleanUpDeferred, InCleanUp, Converging, done
<1>3. local' \subseteq Sources /\ s3' \subseteq Sources
  BY <1>2 DEF TypeOK
<1>4. PassMoves
  BY <1>1, <1>2, <1>3, PassSame
<1>5. QED BY <1>1, <1>2, <1>4

LEMMA EndPassMoves ==
    ASSUME TypeOK, EndPass
    PROVE  PassMoves /\ pass' = NoPass /\ source' = source /\ local' = local /\ s3' = s3
<1>1. NoPass \in Pass /\ NoPass.at = "idle"
  <2>1. NoPass \in Pass
    BY DEF NoPass, Pass, NoSource, Source
  <2>2. QED BY <2>1 DEF NoPass
<1>2. QED BY <1>1 DEF EndPass, PassMoves, TypeOK, Converging

-----------------------------------------------------------------------------
(* A run is created *)

LEMMA NewRunFields ==
    ASSUME RunsInv, NEW a \in Ask, NEW o \in Runs \cup {None}, NextRun \in Runs,
           run' = [run EXCEPT ![NextRun] = NewRun("queued", a, o)]
    PROVE  /\ NextRun \notin Created /\ Created' = Created \cup {NextRun}
           /\ \E n \in 0..MaxRuns : Created' = 1..n
           /\ run' \in [Runs -> Run] /\ \A q \in Runs \ {NextRun} : run'[q] = run[q]
           /\ run'[NextRun].status = "queued" /\ run'[NextRun].ask = a /\ run'[NextRun].of = o
           /\ run'[NextRun].step = 1 /\ run'[NextRun].pc = "ready" /\ run'[NextRun].src = None
           /\ ~run'[NextRun].dedup /\ run'[NextRun].rows = "none" /\ ~run'[NextRun].conflict
           /\ \A s \in Sources : run'[NextRun].results[s] = "none"
<1>0. TypeOK /\ Numbered
  BY DEF RunsInv
<1> DEFINE new == NewRun("queued", a, o)
<1>1. /\ new \in Run /\ new.status = "queued" /\ new.ask = a /\ new.of = o
      /\ new.step = 1 /\ new.pc = "ready" /\ new.src = None
      /\ ~new.dedup /\ new.rows = "none" /\ ~new.conflict
      /\ \A s \in Sources : new.results[s] = "none"
  <2>1. [s \in Sources |-> "none"] \in [Sources -> Results] /\ 1 \in 1..6
    BY DEF Results
  <2>2. QED BY <2>1 DEF NewRun, Run
<1> HIDE DEF new
<1>2. run' = [run EXCEPT ![NextRun] = new]
  BY DEF new
<1>3. PICK n \in 0..MaxRuns : Created = 1..n
  BY <1>0 DEF Numbered
<1>4. NextRun = n + 1
  <2>1. IsFiniteSet(1..n) /\ Cardinality(1..n) = n
    BY <1>3, FS_Interval, BoundsAssumption
  <2>2. QED BY <1>3, <2>1 DEF NextRun
<1>5. n + 1 \in 0..MaxRuns /\ NextRun \notin Created
  BY <1>3, <1>4, BoundsAssumption DEF Runs
<1>6. /\ run' \in [Runs -> Run] /\ run'[NextRun] = new
      /\ \A q \in Runs \ {NextRun} : run'[q] = run[q]
  BY <1>0, <1>1, <1>2 DEF TypeOK
<1>7. Created' = Created \cup {NextRun}
  BY <1>1, <1>6 DEF Created
<1>8. Created' = 1..(n + 1)
  BY <1>3, <1>4, <1>5, <1>7
<1>9. QED BY <1>1, <1>5, <1>6, <1>7, <1>8

LEMMA NewRunKeeps ==
    ASSUME RunsInv, NEW a \in Ask, NEW o \in Runs \cup {None}, NEW r \in Runs, r = NextRun,
           run' = [run EXCEPT ![r] = NewRun("queued", a, o)],
           o # None => o \in Created /\ run[o].status = "failed" /\ run[o].ask = a,
           a.kind = "forget_source" => a.target \in Known,
           a.kind = "dataset_delete" =>
               \/ o # None /\ run[o].step = 1
               \/ RetriedAnew
               \/ \A q \in Runs : Open(q) => q = o,
           ingress' \subseteq Runs, UNCHANGED <<dataset, source, local, s3, process, histories>>
    PROVE  RunsInv'
<1>0. /\ TypeOK /\ Numbered /\ OneAtATime /\ ConvergingRuns /\ OneLineage /\ DeleteKeepsDataset
      /\ \A q \in Created : RunShape(q)
  BY DEF RunsInv
<1>1. /\ r \in Runs /\ r \notin Created /\ Created' = Created \cup {r} /\ Created \subseteq Runs
      /\ \E n \in 0..MaxRuns : Created' = 1..n
      /\ run' \in [Runs -> Run] /\ \A q \in Runs \ {r} : run'[q] = run[q]
      /\ run'[r].status = "queued" /\ run'[r].ask = a /\ run'[r].of = o
      /\ run'[r].step = 1 /\ run'[r].src = None
      /\ ~run'[r].dedup /\ run'[r].rows = "none" /\ ~run'[r].conflict
  <2>1. NextRun \in Runs /\ run' = [run EXCEPT ![NextRun] = NewRun("queued", a, o)]
    OBVIOUS
  <2>2. Created \subseteq Runs
    BY DEF Created
  <2>3. QED BY <2>1, <2>2, NewRunFields
<1>2. Known' = Known /\ Numbered'
  BY <1>0, <1>1 DEF Numbered, Known, Exists
<1>3. TypeOK'
  BY <1>0, <1>1, TypeKept DEF TypeOK, process, histories
<1>4. \A q \in Created : /\ q \in Runs /\ run'[q] = run[q] /\ Kind(q)' = Kind(q)
                         /\ IsDelete(q)' = IsDelete(q) /\ IsForget(q)' = IsForget(q)
                         /\ Length(q)' = Length(q)
  BY <1>1 DEF Kind, IsDelete, IsForget, Length
<1>5. ASSUME NEW q \in Created' PROVE RunShape(q)'
  <2>1. CASE q = r
    <3>1. /\ IsDelete(r)' = (a.kind = "dataset_delete") /\ Kind(r)' = a.kind
          /\ Length(r)' \in {3, 5}
      BY <1>1 DEF IsDelete, Kind, Length
    <3>2. o # None => o \in Created' /\ run'[o].status = "failed" /\ run'[o].ask = a
      BY <1>1, <1>4
    <3>3. QED BY <1>1, <1>2, <2>1, <3>1, <3>2 DEF RunShape
  <2>2. CASE q # r
    <3>1. q \in Created /\ RunShape(q)
      BY <1>0, <1>1, <2>2
    <3>2. run[q].of # None => /\ run[q].of \in Created' /\ run'[run[q].of].status = "failed"
                              /\ run'[run[q].of].ask = run[q].ask
      BY <1>1, <1>4, <3>1 DEF RunShape
    <3>3. QED BY <1>2, <1>4, <3>1, <3>2 DEF RunShape
  <2>3. QED BY <2>1, <2>2
<1>6. OneAtATime'
  BY <1>0, <1>1 DEF OneAtATime
<1>7. ConvergingRuns'
  <2> SUFFICES ASSUME phase' = "converging", NEW q \in Runs, run'[q].status = "running"
               PROVE  Mutated(q)'
    BY DEF ConvergingRuns
  <2>1. q # r /\ run'[q] = run[q] /\ phase = "converging"
    BY <1>1 DEF process
  <2>2. Mutated(q)
    BY <1>0, <2>1 DEF ConvergingRuns
  <2>3. QED BY <2>1, <2>2 DEF Mutated, Passed, IsForget, IsDelete, Kind
<1>8. DeleteKeepsDataset'
  <2>1. ASSUME NEW q \in Created', IsDelete(q)', Passed(q, "begin")' PROVE DeleteOwnsDataset
    <3>1. q \in Runs /\ run'[q].step > 1
      BY <1>1, <1>3, <2>1, PassingThen
    <3>2. q \in Created /\ run'[q] = run[q]
      BY <1>1, <3>1
    <3>3. IsDelete(q) /\ Passed(q, "begin")
      BY <2>1, <3>2 DEF Passed, IsDelete, Kind
    <3>4. QED BY <3>2, <3>3 DEF DeleteOwnsDataset
  <2>2. QED BY <1>0, <2>1 DEF DeleteKeepsDataset, DeleteOwnsDataset
<1>9. OneLineage'
  <2>1. RetriedAnew => RetriedAnew'
    <3> SUFFICES ASSUME NEW q \in Created, IsDelete(q), run[q].of # None, run[run[q].of].step = 1
                 PROVE  RetriedAnew'
      BY DEF RetriedAnew
    <3>1. run[q].of \in Created
      BY <1>0 DEF RunShape
    <3>2. QED BY <1>1, <1>4, <3>1 DEF RetriedAnew
  <2>2. ASSUME NEW q \in Created, Open(q)' PROVE Open(q) /\ q # o
    <3>1. run'[q] = run[q] /\ IsDelete(q) /\ q \in Runs
      BY <1>4, <2>2 DEF Open
    <3>2. Open(q)
      BY <1>1, <1>4, <2>2, <3>1 DEF Open, Nonterminal
    <3>3. q # o
      <4>1. ASSUME q = o PROVE FALSE
        <5>1. run'[q].status = "failed" /\ r \in Created' /\ run'[r].of = q
          BY <1>1, <3>1, <4>1, BoundsAssumption DEF None, Runs
        <5>2. QED BY <2>2, <5>1 DEF Open, Nonterminal, Waiting
      <4>2. QED BY <4>1
    <3>4. QED BY <3>2, <3>3
  <2>3. \A q \in Runs : Open(q)' => q = r \/ (q \in Created /\ Open(q) /\ q # o)
    BY <1>1, <2>2 DEF Open
  <2>4. CASE a.kind # "dataset_delete"
    <3>1. ~Open(r)'
      BY <1>1, <2>4 DEF Open, IsDelete, Kind
    <3>2. QED BY <1>0, <2>1, <2>3, <3>1 DEF OneLineage
  <2>5. CASE a.kind = "dataset_delete" /\ o # None /\ run[o].step = 1
    <3>1. r \in Created' /\ IsDelete(r)' /\ run'[r].of = o /\ run'[o] = run[o]
      BY <1>1, <1>4, <2>5 DEF IsDelete, Kind
    <3>2. QED BY <2>5, <3>1 DEF RetriedAnew, OneLineage
  <2>6. CASE RetriedAnew
    BY <2>1, <2>6 DEF OneLineage
  <2>7. CASE \A q \in Runs : Open(q) => q = o
    BY <2>3, <2>7 DEF OneLineage
  <2>8. QED BY <2>4, <2>5, <2>6, <2>7
<1>10. QED BY <1>2, <1>3, <1>5, <1>6, <1>7, <1>8, <1>9 DEF RunsInv

LEMMA SubmitKeeps ==
    ASSUME RunsInv, NEW a \in Asks, Submit(a)
    PROVE  RunsInv'
<1>1. /\ a \in Ask /\ NextRun \in Runs /\ run' = [run EXCEPT ![NextRun] = NewRun("queued", a, None)]
      /\ ingress' \subseteq ingress \cup {NextRun} /\ Admitted(a)
      /\ UNCHANGED <<dataset, source, local, s3, process, histories>>
  BY AsksAssumption DEF Submit, CanCreate
<1>2. a.kind = "forget_source" => a.target \in Known
  BY <1>1 DEF Admitted
<1>3. a.kind = "dataset_delete" => \A q \in Runs : ~Open(q)
  <2> SUFFICES ASSUME a.kind = "dataset_delete", NEW q \in Runs, Open(q) PROVE FALSE
    OBVIOUS
  <2>1. dataset = "active" /\ ~Blocked
    BY <1>1 DEF Admitted
  <2>2. q \in Created /\ IsDelete(q) /\ ~Nonterminal(q)
    BY <2>1 DEF Blocked, Open
  <2>3. run[q].step > 1
    BY <2>2 DEF Open
  <2>4. DeleteOwnsDataset
    BY <2>2, <2>3, Passing DEF DeleteOwnsDataset, RunsInv
  <2>5. QED BY <2>1, <2>4 DEF RunsInv, DeleteKeepsDataset
<1>4. ingress' \subseteq Runs
  BY <1>1 DEF RunsInv, TypeOK
<1>5. PICK r \in Runs : r = NextRun
  BY <1>1
<1>6. None \in Runs \cup {None} /\ run' = [run EXCEPT ![r] = NewRun("queued", a, None)]
  BY <1>1, <1>5
<1>7. QED BY <1>1, <1>2, <1>3, <1>4, <1>5, <1>6, NewRunKeeps

LEMMA RetryKeeps ==
    ASSUME RunsInv, NEW o \in Runs, Retry(o)
    PROVE  RunsInv'
<1>1. /\ NextRun \in Runs /\ run' = [run EXCEPT ![NextRun] = NewRun("queued", run[o].ask, o)]
      /\ ingress' \subseteq ingress \cup {NextRun}
      /\ UNCHANGED <<dataset, source, local, s3, process, histories>>
      /\ o \in Created /\ run[o].status = "failed" /\ \A r \in Created : run[r].of # o
  BY DEF Retry, CanCreate
<1>2. run[o].ask \in Ask /\ RunShape(o) /\ run[o].step \in 1..6
  BY <1>1 DEF RunsInv, TypeOK, Run
<1>3. run[o].ask.kind = "forget_source" => run[o].ask.target \in Known
  BY <1>2 DEF RunShape, Kind
<1>4. run[o].ask.kind = "dataset_delete" =>
          run[o].step = 1 \/ RetriedAnew \/ \A q \in Runs : Open(q) => q = o
  <2> SUFFICES ASSUME run[o].ask.kind = "dataset_delete", run[o].step # 1
               PROVE  RetriedAnew \/ \A q \in Runs : Open(q) => q = o
    OBVIOUS
  <2>1. Open(o)
    BY <1>1, <1>2 DEF Open, IsDelete, Kind
  <2>2. QED BY <2>1 DEF RunsInv, OneLineage
<1>5. ingress' \subseteq Runs /\ o # None
  BY <1>1, BoundsAssumption DEF RunsInv, TypeOK, Runs, None
<1>6. PICK r \in Runs : r = NextRun
  BY <1>1
<1>7. PICK a \in Ask : a = run[o].ask
  BY <1>2
<1>8. run' = [run EXCEPT ![r] = NewRun("queued", a, o)]
  BY <1>1, <1>6, <1>7
<1>9. /\ o \in Created /\ run[o].status = "failed" /\ run[o].ask = a
      /\ UNCHANGED <<dataset, source, local, s3, process, histories>>
  BY <1>1, <1>7
<1>10. a.kind = "forget_source" => a.target \in Known
  BY <1>3, <1>7
<1>11. a.kind = "dataset_delete" =>
          \/ o # None /\ run[o].step = 1
          \/ RetriedAnew
          \/ \A q \in Runs : Open(q) => q = o
  BY <1>4, <1>5, <1>7
<1>12. NextRun \in Runs /\ o \in Runs \cup {None} /\ ingress' \subseteq Runs
  BY <1>1, <1>5
<1>13. QED BY <1>6, <1>8, <1>9, <1>10, <1>11, <1>12, NewRunKeeps

-----------------------------------------------------------------------------
(* What holds of the bytes *)

\* The runs that have a source to store, or have stored it.
Stores(r) == r \in Created /\ Kind(r) = "remember" /\ run[r].step > 1 /\ ~run[r].dedup

\* Every source is stored by one run, and has no location before.
OneStores == \A q, r \in Runs : Stores(q) /\ Stores(r) /\ run[q].src = run[r].src => q = r
StoredOnce ==
    \A r \in Runs : Stores(r) =>
        IF run[r].step = 2 THEN source[run[r].src].uri = "none"
        ELSE source[run[r].src].uri # "none" \/ source[run[r].src].status = "deleted"

\* The ingress is dropped when the object is there, in the process that stored it.
Written ==
    \A r \in Runs : run[r].pc = "done" =>
        /\ run[r].status = "running" /\ phase # "down" /\ Stores(r) /\ run[r].step = 2
        /\ run[r].uri = backend /\ run[r].src \in Objects(backend) \cup lost

\* What an accepted Remember has to store is in the ingress or stored.
BytesKept ==
    \A r \in Created : Kind(r) = "remember" /\ Nonterminal(r) =>
        /\ run[r].step = 1 => r \in ingress \/ run[r].ask.url
        /\ run[r].step = 2 /\ ~run[r].dedup =>
              run[r].src \in Objects(backend) \cup lost \cup (stranded \cap s3) \/ Bytes(r)

Held == OneStores /\ StoredOnce /\ Written /\ BytesKept

\* A source in use, or one that a memory-only forget will put back in use.
Meant(s) == Live(s) \/ (source[s].status = "deleting" /\ source[s].doc)
OriginalsKept ==
    \A s \in Sources :
        Meant(s) /\ source[s].uri # "none" => Readable(s) \/ s \in lost \cup crossed

\* What a run reports as cleared is being deleted, and its object is gone.
Gone(s) ==
    /\ source[s].status \in {"deleting", "deleted"} /\ ~source[s].doc
    /\ source[s].status = "deleting" /\ source[s].uri # "none" => s \notin Objects(source[s].uri)
ClearedIsGone ==
    \A r \in Created, s \in Sources : run[r].results[s] = "cleared" => Gone(s) \/ s \in crossed

\* What is being deleted has a run that does so, or is retried to.
DeletersKnown == \A s \in Deleting : Lineages(s) # {}

\* The snapshot of a pass is good for the sources it has still to look at:
\* nothing that runs meanwhile touches a live source.
InPass(s) ==
    /\ LiveSnap(s) =>
          /\ source[s].status = Snap(s).status
          /\ source[s].uri = IF pass.at = "moved" /\ s = pass.cur THEN "s3" ELSE Snap(s).uri
    /\ Snap(s).status = "deleting" => Lineages(s) # {}
PassSound ==
    /\ pass.at # "idle" => phase = "converging"
    /\ pass.at = "idle" => pass.todo = {}
    /\ pass.at \in {"copied", "moved"} =>
          /\ pass.cur \in pass.todo /\ LiveSnap(pass.cur) /\ Snap(pass.cur).uri = "file"
          /\ pass.cur \in s3
    /\ \A s \in pass.todo : InPass(s)
    /\ pass.failed \subseteq lost \cup crossed /\ pass.d43 = {}

BytesInv == Held /\ OriginalsKept /\ ClearedIsGone /\ DeletersKnown /\ PassSound
Inv == RunsInv /\ BytesInv

-----------------------------------------------------------------------------
(* What each part of it needs of a step *)

\* A run that was there is there, and further on.
Moves ==
    \A q \in Created : /\ q \in Created' /\ run'[q].ask = run[q].ask
                       /\ run'[q].step >= run[q].step

LEMMA LineagesGrow ==
    ASSUME RunsInv, RunsInv', Moves, NEW s \in Sources, Lineages(s) # {}
    PROVE  Lineages(s)' # {}
<1>1. PICK r \in Created : /\ Mutated(r) /\ ~run[r].conflict
                           /\ Kind(r) = "forget_source" => run[r].ask.target = s
  BY DEF Lineages
<1>2. r \in Runs /\ r \in Created' /\ run'[r].ask = run[r].ask /\ run'[r].step >= run[r].step
      /\ run[r].step \in 1..6 /\ run'[r].step \in 1..6
  BY DEF Created, Moves, RunsInv, TypeOK, Run
<1>3. (IsForget(r) /\ run[r].step > 1) \/ (IsDelete(r) /\ run[r].step > 2)
  BY <1>1, <1>2, Passing DEF RunsInv
<1>4. IsForget(r)' = IsForget(r) /\ IsDelete(r)' = IsDelete(r) /\ Kind(r)' = Kind(r)
  BY <1>2 DEF IsForget, IsDelete, Kind
<1>5. Mutated(r)'
  <2>1. (IsForget(r)' /\ run'[r].step > 1) \/ (IsDelete(r)' /\ run'[r].step > 2)
    BY <1>2, <1>3, <1>4
  <2>2. QED BY <1>2, <2>1, PassingThen DEF RunsInv
<1>6. ~run'[r].conflict
  <2>1. RunShape(r)'
    BY <1>2 DEF RunsInv
  <2>2. run'[r].step > 1
    BY <1>2, <1>3
  <2>3. QED BY <2>1, <2>2 DEF RunShape
<1>7. r \in Lineages(s)'
  BY <1>1, <1>2, <1>4, <1>5, <1>6 DEF Lineages
<1>8. QED BY <1>7

\* The rows keep what they have to store and go past it only when it is stored.
RowsFrame ==
    /\ Created' = Created
    /\ \A q \in Runs :
          /\ run'[q].ask = run[q].ask /\ run'[q].src = run[q].src /\ run'[q].dedup = run[q].dedup
          /\ \/ run'[q].step = run[q].step
             \/ /\ run'[q].step > run[q].step
                /\ Kind(q) # "remember" \/ run[q].step >= 3 \/ (run[q].dedup /\ run[q].step = 2)
          /\ Nonterminal(q)' => Nonterminal(q)
          /\ run'[q].pc = "ready" \/ (run'[q] = run[q] /\ phase' = phase)

\* A location comes of a store, and goes with the source.
LocationsFrame ==
    \A s \in Sources :
        /\ source[s].uri = "none" => source'[s].uri = "none"
        /\ source[s].uri # "none" => source'[s].uri # "none" \/ source'[s].status = "deleted"
        /\ source[s].status = "deleted" => source'[s].status = "deleted"

\* What has no location yet is not taken away.
UnlocatedFrame ==
    /\ \A s \in Sources : source[s].uri = "none" =>
          /\ s \in local => s \in local' \cup lost'
          /\ s \in s3 => s \in s3'
    /\ ingress \subseteq ingress' /\ lost \subseteq lost' /\ backend' = backend
    /\ stranded \subseteq stranded'

LEMMA FrameMoves ==
    ASSUME TypeOK, TypeOK', RowsFrame
    PROVE  Moves
<1>1. \A q \in Runs : run[q].step \in 1..6 /\ run'[q].step \in 1..6
  BY DEF TypeOK, Run
<1>2. QED BY <1>1 DEF RowsFrame, Moves, Created

LEMMA HeldKept ==
    ASSUME RunsInv, RunsInv', Held, RowsFrame, LocationsFrame, UnlocatedFrame
    PROVE  Held'
<1>0. TypeOK /\ TypeOK' /\ \A q \in Created : RunShape(q)
  BY DEF RunsInv
<1>1. \A q \in Runs : run[q].step \in 1..6 /\ run'[q].step \in 1..6 /\ Kind(q)' = Kind(q)
  BY <1>0 DEF TypeOK, Run, RowsFrame, Kind
<1>2. \A q \in Runs : /\ Stores(q)' = Stores(q) /\ run'[q].src = run[q].src
                      /\ Stores(q) => run[q].src \in Sources
  <2>1. ASSUME NEW q \in Runs PROVE Stores(q)' = Stores(q) /\ run'[q].src = run[q].src
    BY <1>1 DEF Stores, RowsFrame
  <2>2. ASSUME NEW q \in Runs, Stores(q) PROVE run[q].src \in Sources
    BY <1>0, <2>2 DEF Stores, RunShape, Known
  <2>3. QED BY <2>1, <2>2
<1>3. OneStores'
  BY <1>2 DEF OneStores, Held
<1>4. StoredOnce'
  <2> SUFFICES ASSUME NEW q \in Runs, Stores(q)'
               PROVE  IF run'[q].step = 2 THEN source'[run'[q].src].uri = "none"
                      ELSE source'[run'[q].src].uri # "none" \/ source'[run'[q].src].status = "deleted"
    BY DEF StoredOnce
  <2>1. Stores(q) /\ run[q].src \in Sources /\ run'[q].src = run[q].src
    BY <1>2
  <2>2. run'[q].step = 2 <=> run[q].step = 2
    BY <1>1, <2>1 DEF RowsFrame, Stores
  <2>3. IF run[q].step = 2 THEN source[run[q].src].uri = "none"
        ELSE source[run[q].src].uri # "none" \/ source[run[q].src].status = "deleted"
    BY <2>1 DEF Held, StoredOnce
  <2>4. QED BY <2>1, <2>2, <2>3 DEF LocationsFrame
<1>5. ASSUME NEW q \in Runs, Stores(q), run[q].step = 2
      PROVE  /\ run[q].src \in Objects(backend) \cup lost => run[q].src \in Objects(backend)' \cup lost'
             /\ run[q].src \in local => run[q].src \in local' \cup lost'
             /\ run[q].src \in stranded \cap s3 => run[q].src \in stranded' \cap s3'
  <2>1. run[q].src \in Sources /\ source[run[q].src].uri = "none"
    BY <1>2, <1>5 DEF Held, StoredOnce
  <2>2. QED BY <2>1 DEF UnlocatedFrame, Objects
<1>6. Written'
  <2> SUFFICES ASSUME NEW q \in Runs, run'[q].pc = "done"
               PROVE  /\ run'[q].status = "running" /\ phase' # "down" /\ Stores(q)' /\ run'[q].step = 2
                      /\ run'[q].uri = backend' /\ run'[q].src \in Objects(backend)' \cup lost'
    BY DEF Written
  <2>1. run'[q] = run[q] /\ phase' = phase /\ backend' = backend
    BY DEF RowsFrame, UnlocatedFrame
  <2>2. /\ run[q].status = "running" /\ phase # "down" /\ Stores(q) /\ run[q].step = 2
        /\ run[q].uri = backend /\ run[q].src \in Objects(backend) \cup lost
    BY <2>1 DEF Held, Written
  <2>3. QED BY <1>2, <1>5, <2>1, <2>2
<1>7. BytesKept'
  <2> SUFFICES ASSUME NEW q \in Created', Kind(q)' = "remember", Nonterminal(q)'
               PROVE  /\ run'[q].step = 1 => q \in ingress' \/ run'[q].ask.url
                      /\ run'[q].step = 2 /\ ~run'[q].dedup =>
                            run'[q].src \in Objects(backend)' \cup lost' \cup (stranded' \cap s3') \/ Bytes(q)'
    BY DEF BytesKept
  <2>1. q \in Created /\ q \in Runs /\ Kind(q) = "remember" /\ Nonterminal(q)
        /\ run'[q].ask = run[q].ask /\ run'[q].src = run[q].src /\ run'[q].dedup = run[q].dedup
    BY <1>1 DEF RowsFrame, Created
  <2>2. /\ run[q].step = 1 => q \in ingress \/ run[q].ask.url
        /\ run[q].step = 2 /\ ~run[q].dedup =>
              run[q].src \in Objects(backend) \cup lost \cup (stranded \cap s3) \/ Bytes(q)
    BY <2>1 DEF Held, BytesKept
  <2>3. run'[q].step = 1 => run[q].step = 1
    BY <1>1, <2>1 DEF RowsFrame
  <2>4. run'[q].step = 2 /\ ~run'[q].dedup => run[q].step = 2
    BY <1>1, <2>1 DEF RowsFrame
  <2>5. CASE run'[q].step = 1
    BY <2>1, <2>2, <2>3, <2>5 DEF UnlocatedFrame
  <2>6. CASE run'[q].step = 2 /\ ~run'[q].dedup
    <3>1. run[q].step = 2 /\ ~run[q].dedup /\ Stores(q)
      BY <2>1, <2>4, <2>6 DEF Stores
    <3>2. CASE run[q].src \in Objects(backend) \cup lost
      BY <1>5, <2>1, <2>6, <3>1, <3>2
    <3>3. CASE q \in ingress
      BY <2>6, <3>3 DEF Bytes, UnlocatedFrame
    <3>4. CASE backend = "s3" /\ run[q].src \in local
      <4>1. run'[q].src \in local' \cup lost' /\ backend' = "s3"
        BY <1>5, <2>1, <3>1, <3>4 DEF UnlocatedFrame
      <4>2. QED BY <2>6, <4>1 DEF Bytes
    <3>5. CASE run[q].src \in stranded \cap s3
      BY <1>5, <2>1, <2>6, <3>1, <3>5
    <3>6. QED BY <2>2, <3>1, <3>2, <3>3, <3>4, <3>5 DEF Bytes
  <2>7. QED BY <2>5, <2>6
<1>8. QED BY <1>3, <1>4, <1>6, <1>7 DEF Held

\* A source meant to be read keeps its location and what is there.
OriginalsFrame ==
    /\ lost \subseteq lost' /\ crossed \subseteq crossed'
    /\ \A s \in Sources : Meant(s)' /\ source'[s].uri # "none" =>
          \/ s \in lost' \cup crossed'
          \/ Readable(s)'
          \/ Meant(s) /\ source[s].uri # "none" /\ (Readable(s) => Readable(s)')

LEMMA OriginalsStep ==
    ASSUME OriginalsKept, OriginalsFrame
    PROVE  OriginalsKept'
<1> SUFFICES ASSUME NEW s \in Sources, Meant(s)', source'[s].uri # "none"
             PROVE  Readable(s)' \/ s \in lost' \cup crossed'
  BY DEF OriginalsKept
<1>1. CASE Meant(s) /\ source[s].uri # "none" /\ (Readable(s) => Readable(s)')
  BY <1>1 DEF OriginalsKept, OriginalsFrame
<1>2. QED BY <1>1 DEF OriginalsFrame

\* A cleared result is an old one, or of an object that is gone.
GoneFrame ==
    /\ crossed \subseteq crossed' /\ Created' = Created
    /\ \A q \in Created, s \in Sources : run'[q].results[s] = "cleared" =>
          \/ run[q].results[s] = "cleared"
          \/ Gone(s)' \/ s \in crossed'
    /\ \A s \in Sources : Gone(s) => Gone(s)' \/ s \in crossed'

LEMMA ClearedStep ==
    ASSUME ClearedIsGone, GoneFrame
    PROVE  ClearedIsGone'
<1> SUFFICES ASSUME NEW q \in Created', NEW s \in Sources, run'[q].results[s] = "cleared"
             PROVE  Gone(s)' \/ s \in crossed'
  BY DEF ClearedIsGone
<1>1. q \in Created
  BY DEF GoneFrame
<1>2. CASE run[q].results[s] = "cleared"
  <2>1. Gone(s) \/ s \in crossed
    BY <1>1, <1>2 DEF ClearedIsGone
  <2>2. QED BY <2>1 DEF GoneFrame
<1>3. QED BY <1>1, <1>2 DEF GoneFrame

LEMMA DeletersStep ==
    ASSUME RunsInv, RunsInv', Moves, DeletersKnown,
           \A s \in Deleting' : s \in Deleting \/ Lineages(s)' # {}
    PROVE  DeletersKnown'
<1> SUFFICES ASSUME NEW s \in Deleting' PROVE Lineages(s)' # {}
  BY DEF DeletersKnown
<1>1. s \in Sources
  BY DEF Deleting, Known
<1>2. CASE s \in Deleting
  BY <1>1, <1>2, LineagesGrow DEF DeletersKnown
<1>3. QED BY <1>2

\* While a pass is under way nothing else touches a live source.
PassFrame ==
    /\ pass' = pass /\ phase' = phase /\ lost \subseteq lost' /\ crossed \subseteq crossed'
    /\ phase = "converging" => \A s \in Sources : Live(s) =>
          /\ source'[s].status = source[s].status /\ source'[s].uri = source[s].uri
          /\ s \in s3 => s \in s3'

LEMMA PassStep ==
    ASSUME RunsInv, RunsInv', Moves, PassSound, PassFrame
    PROVE  PassSound'
<1>1. CASE pass.at = "idle"
  BY <1>1 DEF PassSound, PassFrame
<1>2. CASE pass.at # "idle"
  <2>1. phase = "converging" /\ pass' = pass /\ phase' = phase
    BY <1>2 DEF PassSound, PassFrame
  <2>2. pass.todo \subseteq Sources /\ \A s \in pass.todo : InPass(s)
    BY DEF PassSound, RunsInv, TypeOK, Pass
  <2>3. ASSUME NEW s \in pass.todo, LiveSnap(s)
        PROVE  /\ source[s].status = Snap(s).status /\ source'[s].status = source[s].status
               /\ source'[s].uri = source[s].uri
               /\ s \in s3 => s \in s3'
    <3>1. s \in Sources /\ source[s].status = Snap(s).status
      BY <2>2, <2>3 DEF InPass
    <3>2. Live(s)
      BY <2>3, <3>1 DEF LiveSnap, Live, Snap
    <3>3. QED BY <2>1, <3>1, <3>2 DEF PassFrame
  <2>4. ASSUME NEW s \in pass.todo PROVE InPass(s)'
    <3>1. s \in Sources /\ InPass(s)
      BY <2>2
    <3>2. LiveSnap(s)' = LiveSnap(s) /\ Snap(s)' = Snap(s)
      BY <2>1 DEF LiveSnap, Snap
    <3>3. Lineages(s) # {} => Lineages(s)' # {}
      BY <3>1, LineagesGrow
    <3>4. LiveSnap(s) =>
            /\ source'[s].status = Snap(s).status
            /\ source'[s].uri = IF pass.at = "moved" /\ s = pass.cur THEN "s3" ELSE Snap(s).uri
      BY <2>3, <3>1 DEF InPass
    <3>5. QED BY <2>1, <3>1, <3>2, <3>3, <3>4 DEF InPass
  <2>5. pass.at \in {"copied", "moved"} =>
          /\ pass.cur \in pass.todo /\ LiveSnap(pass.cur) /\ Snap(pass.cur).uri = "file"
          /\ pass.cur \in s3'
    BY <2>3 DEF PassSound
  <2>6. /\ pass'.failed \subseteq lost' \cup crossed' /\ pass'.d43 = {}
    BY <2>1 DEF PassSound, PassFrame
  <2>7. QED BY <1>2, <2>1, <2>4, <2>5, <2>6 DEF PassSound, LiveSnap, Snap
<1>3. QED BY <1>1, <1>2

\* What only a run's row is changed by.
LEMMA RowOnly ==
    ASSUME Inv, RunsInv', RowsFrame,
           \A q \in Created, s \in Sources : run'[q].results[s] \in {run[q].results[s], "none"},
           UNCHANGED <<source, stores, process, lost, crossed>>
    PROVE  BytesInv'
<1>0. /\ RunsInv /\ Held /\ OriginalsKept /\ ClearedIsGone /\ DeletersKnown /\ PassSound
      /\ source' = source /\ local' = local /\ s3' = s3 /\ ingress' = ingress /\ lost' = lost
      /\ stranded' = stranded
      /\ crossed' = crossed /\ backend' = backend /\ phase' = phase /\ pass' = pass
  BY DEF Inv, BytesInv, stores, process
<1>1. Moves
  BY <1>0, FrameMoves DEF RunsInv
<1>2. LocationsFrame /\ UnlocatedFrame
  BY <1>0 DEF LocationsFrame, UnlocatedFrame
<1>3. Held'
  BY <1>0, <1>2, HeldKept
<1>4. \A s \in Sources : /\ Meant(s)' = Meant(s) /\ Readable(s)' = Readable(s) /\ Gone(s)' = Gone(s)
  BY <1>0 DEF Meant, Live, Readable, HasFile, HasObject, Gone, Objects
<1>5. OriginalsKept'
  BY <1>0, <1>4, OriginalsStep DEF OriginalsFrame
<1>6. ClearedIsGone'
  <2>1. GoneFrame
    BY <1>0, <1>4 DEF GoneFrame, RowsFrame
  <2>2. QED BY <1>0, <2>1, ClearedStep
<1>7. DeletersKnown'
  <2>1. Deleting' = Deleting
    BY <1>0 DEF Deleting, Known, Exists
  <2>2. QED BY <1>0, <1>1, <2>1, DeletersStep
<1>8. PassSound'
  BY <1>0, <1>1, PassStep DEF PassFrame
<1>9. QED BY <1>3, <1>5, <1>6, <1>7, <1>8 DEF BytesInv

LEMMA PcReady ==
    ASSUME Inv, NEW r \in Runs,
           run[r].status # "running" \/ Kind(r) # "remember" \/ run[r].step # 2
    PROVE  run[r].pc = "ready"
<1>1. run[r].pc \in {"ready", "done"}
  BY DEF Inv, RunsInv, TypeOK, Run
<1>2. QED BY <1>1 DEF Inv, BytesInv, Held, Written, Stores

LEMMA OneRow ==
    ASSUME RunsInv, NEW r \in Created, Only(r), phase' = phase, run'[r].status # "absent",
           run'[r].ask = run[r].ask, SameSource(r), run'[r].pc = "ready",
           \/ run'[r].step = run[r].step
           \/ /\ run'[r].step > run[r].step
              /\ Kind(r) # "remember" \/ run[r].step >= 3 \/ (run[r].dedup /\ run[r].step = 2),
           Nonterminal(r)' => Nonterminal(r)
    PROVE  RowsFrame
<1>1. r \in Runs /\ \A q \in Runs : q # r => run'[q] = run[q]
  BY DEF Only, Created
<1>2. Created' = Created
  BY <1>1 DEF Created
<1>3. QED BY <1>1, <1>2 DEF RowsFrame, SameSource, Nonterminal

\* The row fails, is persisted or waits, and nothing else changes.
LEMMA RowDone ==
    ASSUME Inv, NEW r \in Created, run[r].status = "running",
           FailPermanently(r)
           \/ (Persist(r, run[r])
               /\ (Kind(r) # "remember" \/ run[r].step >= 3 \/ (run[r].dedup /\ run[r].step = 2))),
           phase' = phase
    PROVE  /\ RowsFrame
           /\ \A q \in Created, s \in Sources : run'[q].results[s] = run[q].results[s]
<1>0. TypeOK /\ r \in Runs /\ RunShape(r) /\ RunsInv
  BY DEF Inv, RunsInv, Created
<1>1. run[r].step \in 1..5
  BY <1>0 DEF RunShape, TypeOK, Run, Length
<1>2. CASE FailPermanently(r)
  <2>1. RowIs(r, "failed", run[r].step) /\ SameSource(r)
    BY <1>0, <1>2, FailFields
  <2>2. RowsFrame
    BY <1>0, <2>1, OneRow DEF RowIs, Nonterminal, Waiting
  <2>3. QED BY <1>0, <2>1, <2>2 DEF RowIs, Only, Created
<1>3. CASE Persist(r, run[r])
           /\ (Kind(r) # "remember" \/ run[r].step >= 3 \/ (run[r].dedup /\ run[r].step = 2))
  <2>1. RowIs(r, Next_(r), run[r].step + 1) /\ SameSource(r)
    BY <1>0, <1>1, <1>3, PersistFields
  <2>2. RowsFrame
    BY <1>0, <1>1, <1>3, <2>1, OneRow DEF RowIs, Nonterminal, Waiting, Next_
  <2>3. QED BY <1>0, <2>1, <2>2 DEF RowIs, Only, Created
<1>4. QED BY <1>2, <1>3

LEMMA RowDoneOnly ==
    ASSUME Inv, RunsInv', NEW r \in Created, run[r].status = "running",
           FailPermanently(r)
           \/ (Persist(r, run[r])
               /\ (Kind(r) # "remember" \/ run[r].step >= 3 \/ (run[r].dedup /\ run[r].step = 2))),
           UNCHANGED <<source, stores, process, lost, crossed>>
    PROVE  BytesInv'
<1>1. phase' = phase
  BY DEF process
<1>2. QED BY <1>1, RowDone, RowOnly

LEMMA ClaimBytes ==
    ASSUME Inv, NEW r \in Runs, Claim(r) \/ BackoffElapses(r)
    PROVE  BytesInv'
<1>0. TypeOK /\ run[r] \in Run /\ r \in Created /\ RunsInv /\ run[r].status \in {"queued", "backoff"}
  BY DEF Inv, RunsInv, TypeOK, Claim, BackoffElapses, Created
<1>1. PICK status \in {"running", "queued"} : run' = [run EXCEPT ![r].status = status]
  BY DEF Claim, BackoffElapses
<1> DEFINE new == [run[r] EXCEPT !.status = status]
<1>2. run' = [run EXCEPT ![r] = new]
  BY <1>0, <1>1 DEF TypeOK
<1>3. /\ new.ask = run[r].ask /\ new.step = run[r].step /\ new.pc = run[r].pc
      /\ new.src = run[r].src /\ new.dedup = run[r].dedup /\ new.results = run[r].results
      /\ new.status = status
  BY <1>0 DEF Run
<1> HIDE DEF new
<1>4. run'[r] = new /\ Only(r)
  BY <1>0, <1>2 DEF TypeOK, Only
<1>5. run[r].pc = "ready"
  BY <1>0, PcReady
<1>6. UNCHANGED <<source, stores, process, lost, crossed>>
  BY DEF Claim, BackoffElapses, histories
<1>7. RowsFrame
  <2>1. phase' = phase
    BY <1>6 DEF process
  <2>2. QED BY <1>0, <1>3, <1>4, <1>5, <2>1, OneRow DEF SameSource, Nonterminal, Waiting
<1>8. \A q \in Created, s \in Sources : run'[q].results[s] = run[q].results[s]
  BY <1>3, <1>4 DEF Only, Created
<1>9. RunsInv'
  BY <1>0, ClaimKeeps, BackoffElapsesKeeps
<1>10. QED BY <1>6, <1>7, <1>8, <1>9, RowOnly

LEMMA FetchUrlBytes ==
    ASSUME Inv, NEW r \in Runs, FetchUrl(r)
    PROVE  BytesInv'
<1>0. /\ RunsInv /\ Held /\ OriginalsKept /\ ClearedIsGone /\ DeletersKnown /\ PassSound
      /\ source' = source /\ local' = local /\ s3' = s3 /\ lost' = lost
      /\ stranded' = stranded /\ run' = run
      /\ crossed' = crossed /\ backend' = backend /\ phase' = phase /\ pass' = pass
      /\ ingress \subseteq ingress'
  BY DEF Inv, BytesInv, FetchUrl, process, histories
<1>1. RunsInv'
  BY <1>0, FetchUrlKeeps
<1>2. Created' = Created /\ RowsFrame
  BY <1>0 DEF RowsFrame, Created, Nonterminal
<1>3. Moves
  BY <1>0, <1>1, <1>2, FrameMoves DEF RunsInv
<1>4. Held'
  BY <1>0, <1>1, <1>2, HeldKept DEF LocationsFrame, UnlocatedFrame
<1>5. \A s \in Sources : /\ Meant(s)' = Meant(s) /\ Readable(s)' = Readable(s) /\ Gone(s)' = Gone(s)
  BY <1>0 DEF Meant, Live, Readable, HasFile, HasObject, Gone, Objects
<1>6. OriginalsKept' /\ ClearedIsGone'
  BY <1>0, <1>2, <1>5, OriginalsStep, ClearedStep DEF OriginalsFrame, GoneFrame
<1>7. DeletersKnown'
  <2>1. Deleting' = Deleting
    BY <1>0 DEF Deleting, Known, Exists
  <2>2. QED BY <1>0, <1>1, <1>3, <2>1, DeletersStep
<1>8. PassSound'
  BY <1>0, <1>1, <1>3, PassStep DEF PassFrame
<1>9. QED BY <1>4, <1>6, <1>7, <1>8 DEF BytesInv

\* Only what has mutated its targets runs while storage converges.
LEMMA NotConverging ==
    ASSUME Inv, NEW r \in Created, run[r].status = "running",
           \/ Kind(r) = "remember"
           \/ run[r].step = 1
           \/ IsDelete(r) /\ run[r].step = 2
    PROVE  phase # "converging"
<1>1. r \in Runs /\ TypeOK /\ ConvergingRuns
  BY DEF Created, Inv, RunsInv
<1>2. ~Mutated(r)
  BY <1>1, Passing, Kinds DEF ForgetKinds, IsForget, IsDelete
<1>3. QED BY <1>1, <1>2 DEF ConvergingRuns

LEMMA Framed ==
    ASSUME Inv, RunsInv', RowsFrame, LocationsFrame, UnlocatedFrame, OriginalsFrame, GoneFrame,
           PassFrame, \A s \in Deleting' : s \in Deleting \/ Lineages(s)' # {}
    PROVE  BytesInv'
<1>0. /\ RunsInv /\ Held /\ OriginalsKept /\ ClearedIsGone /\ DeletersKnown /\ PassSound
      /\ TypeOK /\ TypeOK'
  BY DEF Inv, BytesInv, RunsInv
<1>1. Moves
  BY <1>0, FrameMoves
<1>2. Held'
  BY <1>0, HeldKept
<1>3. OriginalsKept' /\ ClearedIsGone'
  BY <1>0, OriginalsStep, ClearedStep
<1>4. DeletersKnown'
  BY <1>0, <1>1, DeletersStep
<1>5. PassSound'
  BY <1>0, <1>1, PassStep
<1>6. QED BY <1>2, <1>3, <1>4, <1>5 DEF BytesInv

LEMMA IngestFailsBytes ==
    ASSUME Inv, NEW r \in Runs, IngestFails(r)
    PROVE  BytesInv'
<1>1. RunsInv /\ Runs_(r, "ingest")
  BY DEF Inv, IngestFails
<1>2. r \in Created /\ run[r].status = "running"
  BY <1>1, AtStep
<1>3. FailPermanently(r) /\ UNCHANGED <<source, stores, process, lost, crossed>>
  BY DEF IngestFails, histories
<1>4. QED BY <1>1, <1>2, <1>3, IngestFailsKeeps, RowDoneOnly

LEMMA StorageDeletedBytes ==
    ASSUME Inv, NEW r \in Runs, StorageDeleted(r)
    PROVE  BytesInv'
<1>1. RunsInv /\ TypeOK
  BY DEF Inv, RunsInv
<1>2. /\ RunsInv' /\ Persist(r, run[r]) /\ r \in Created /\ run[r].status = "running"
      /\ IsForget(r) \/ IsDelete(r)
  BY <1>1, StorageDeletedKeeps
<1>3. Kind(r) # "remember"
  BY <1>1, <1>2, Kinds
<1>4. UNCHANGED <<source, stores, process, lost, crossed>>
  BY DEF StorageDeleted, histories
<1>5. QED BY <1>2, <1>3, <1>4, RowDoneOnly

LEMMA ConvergeProjectionBytes ==
    ASSUME Inv, NEW r \in Runs, ConvergeProjection(r)
    PROVE  BytesInv'
<1>1. RunsInv /\ TypeOK /\ TypeOK'
  BY ConvergeProjectionKeeps DEF Inv, RunsInv
<1>2. /\ RunsInv' /\ r \in Created /\ run[r].status = "running" /\ run[r].step = 3
      /\ IsDelete(r) /\ run' \in [Runs -> Run] /\ Only(r)
      /\ run'[r].ask = run[r].ask /\ run'[r].pc = "ready"
      /\ run'[r].results = run[r].results /\ SameSource(r)
      /\ run'[r].step >= run[r].step /\ run'[r].status # "absent"
      /\ UNCHANGED <<source, stores, process, histories>>
  BY <1>1, ConvergeProjectionKeeps
<1>3. Kind(r) # "remember" /\ Nonterminal(r) /\ run'[r].step \in 1..6
  BY <1>1, <1>2 DEF IsDelete, Nonterminal, TypeOK, Run
<1>4. phase' = phase /\ UNCHANGED <<source, stores, process, lost, crossed>>
  BY <1>2 DEF process, histories
<1>5. RowsFrame
  BY <1>1, <1>2, <1>3, <1>4, OneRow
<1>6. \A q \in Created, s \in Sources : run'[q].results[s] = run[q].results[s]
  BY <1>2 DEF Only, Created
<1>7. QED BY <1>2, <1>4, <1>5, <1>6, RowOnly

LEMMA RowsDieBytes ==
    ASSUME Inv, NEW r \in Runs, RowsDie(r)
    PROVE  BytesInv'
<1>1. RunsInv /\ TypeOK /\ Runs_(r, "converge")
  BY DEF Inv, RunsInv, RowsDie
<1>2. /\ RunsInv' /\ r \in Created /\ RowStays(r)
      /\ run'[r].pc = run[r].pc /\ run'[r].results = run[r].results
      /\ run'[r].status = run[r].status
  BY <1>1, RowsDieKeeps
<1>3. Kind(r) # "remember" /\ run[r].status = "running"
  BY <1>1, AtStep, StepNames DEF IsDelete
<1>4. run[r].pc = "ready"
  BY <1>3, PcReady
<1>5. phase' = phase /\ UNCHANGED <<source, stores, process, lost, crossed>>
  BY DEF RowsDie, process
<1>6. RowsFrame
  BY <1>1, <1>2, <1>3, <1>4, <1>5, OneRow DEF RowStays, Nonterminal
<1>7. \A q \in Created, s \in Sources : run'[q].results[s] = run[q].results[s]
  BY <1>2 DEF RowStays, Only, Created
<1>8. QED BY <1>2, <1>5, <1>6, <1>7, RowOnly

LEMMA DroppedFrame ==
    ASSUME RunsInv, NEW r \in Runs, Dropped(r), phase' = phase
    PROVE  /\ RowsFrame
           /\ \A q \in Created, s \in Sources : run'[q].results[s] \in {run[q].results[s], "none"}
<1>1. RowsFrame
  BY OneRow DEF Dropped, RowStays, Nonterminal
<1>2. \A q \in Created, s \in Sources : run'[q].results[s] \in {run[q].results[s], "none"}
  BY DEF Dropped, RowStays, Only, Created
<1>3. QED BY <1>1, <1>2

LEMMA RunFailsBytes ==
    ASSUME Inv, NEW r \in Runs, RunFails(r)
    PROVE  BytesInv'
<1>1. RunsInv
  BY DEF Inv
<1>2. phase' = phase /\ UNCHANGED <<source, stores, process, lost, crossed>>
  BY DEF RunFails, process
<1>3. QED BY <1>1, <1>2, RunFailsKeeps, DroppedFrame, RowOnly

LEMMA BeginDeleteBytes ==
    ASSUME Inv, NEW r \in Runs, BeginDelete(r)
    PROVE  BytesInv'
<1>0. RunsInv /\ TypeOK /\ run[r] \in Run /\ Runs_(r, "begin") /\ RunsInv'
  BY BeginDeleteKeeps DEF Inv, RunsInv, TypeOK, BeginDelete
<1>1. /\ r \in Created /\ run[r].status = "running" /\ IsDelete(r) /\ run[r].step = 1
  BY <1>0, AtStep, StepNames
<1>2. UNCHANGED <<source, stores, process, lost, crossed>> /\ phase' = phase
  BY DEF BeginDelete, process, histories
<1>3. CASE dataset = "deleted"
  BY <1>0, <1>1, <1>2, <1>3, RowDoneOnly DEF BeginDelete
<1>4. CASE dataset # "deleted"
  <2> DEFINE dropped(q) == [run[q] EXCEPT !.status = "failed"]
             after(q) == IF q = r THEN Advanced(run[r])
                         ELSE IF run[q].status \in Waiting /\ ~IsDelete(q) /\ Kind(q) # "everything"
                              THEN dropped(q) ELSE run[q]
  <2>1. run' = [q \in Runs |-> after(q)]
    BY <1>4 DEF BeginDelete
  <2>2. /\ Advanced(run[r]).ask = run[r].ask /\ Advanced(run[r]).pc = "ready"
        /\ Advanced(run[r]).src = run[r].src /\ Advanced(run[r]).dedup = run[r].dedup
        /\ Advanced(run[r]).results = run[r].results
        /\ Advanced(run[r]).step = 2 /\ Advanced(run[r]).status # "absent"
    <3> DEFINE st == IF run[r].step = Len(Plan(run[r].ask.kind)) THEN "succeeded" ELSE run[r].status
               at == run[r].step + 1
    <3>1. Advanced(run[r]) = [run[r] EXCEPT !.step = at, !.pc = "ready", !.status = st]
      BY DEF Advanced
    <3>2. at = 2 /\ st # "absent"
      BY <1>1
    <3> HIDE DEF at, st
    <3>3. QED BY <1>0, <3>1, <3>2 DEF Run
  <2>3. \A q \in Runs : /\ dropped(q).ask = run[q].ask /\ dropped(q).pc = run[q].pc
                        /\ dropped(q).src = run[q].src
                        /\ dropped(q).dedup = run[q].dedup /\ dropped(q).results = run[q].results
                        /\ dropped(q).step = run[q].step /\ dropped(q).status = "failed"
    BY <1>0 DEF TypeOK, Run
  <2> HIDE DEF dropped
  <2>4. Created' = Created
    BY <1>1, <2>1, <2>2, <2>3 DEF Created, Waiting
  <2>5. \A q \in Runs : run[q].status \in Waiting => run[q].pc = "ready"
    BY PcReady DEF Waiting
  <2>6. ASSUME NEW q \in Runs
        PROVE  /\ run'[q].ask = run[q].ask /\ run'[q].src = run[q].src /\ run'[q].dedup = run[q].dedup
               /\ run'[q].results = run[q].results
               /\ \/ run'[q].step = run[q].step
                  \/ run'[q].step > run[q].step /\ Kind(q) # "remember"
               /\ Nonterminal(q)' => Nonterminal(q)
               /\ run'[q].pc = "ready" \/ run'[q] = run[q]
    <3>1. CASE q = r
      BY <1>1, <2>1, <2>2, <3>1 DEF IsDelete, Nonterminal
    <3>2. CASE q # r /\ run[q].status \in Waiting /\ ~IsDelete(q) /\ Kind(q) # "everything"
      BY <2>1, <2>3, <2>5, <3>2 DEF Nonterminal
    <3>3. CASE q # r /\ ~(run[q].status \in Waiting /\ ~IsDelete(q) /\ Kind(q) # "everything")
      BY <2>1, <3>3 DEF Nonterminal
    <3>4. QED BY <3>1, <3>2, <3>3
  <2>7. RowsFrame
    BY <1>2, <2>4, <2>6 DEF RowsFrame
  <2>8. \A q \in Created, s \in Sources : run'[q].results[s] \in {run[q].results[s], "none"}
    BY <2>6 DEF Created
  <2>9. QED BY <1>0, <1>2, <2>7, <2>8, RowOnly
<1>5. QED BY <1>3, <1>4

-----------------------------------------------------------------------------
(* Remember *)

LEMMA IngestBytes ==
    ASSUME Inv, NEW r \in Runs, Ingest(r)
    PROVE  BytesInv'
<1>0. /\ RunsInv /\ RunsInv' /\ Held /\ OriginalsKept /\ ClearedIsGone /\ DeletersKnown /\ PassSound
      /\ TypeOK /\ TypeOK'
  BY IngestKeeps DEF Inv, BytesInv, RunsInv
<1>1. /\ r \in Created /\ run[r].status = "running" /\ run[r].step = 1 /\ Kind(r) = "remember"
      /\ Only(r)
      /\ run'[r].ask = run[r].ask /\ run'[r].status = "running" /\ run'[r].step = 2
      /\ run'[r].pc = "ready" /\ run'[r].results = run[r].results
      /\ \/ run'[r].src \in Known /\ run'[r].dedup /\ source' = source
         \/ /\ run'[r].src \in Sources \ Known /\ ~run'[r].dedup
            /\ source' = [source EXCEPT ![run'[r].src] =
                             [status |-> "pending", uri |-> "none", doc |-> TRUE]]
  BY <1>0, IngestFields
<1>2. /\ local' = local /\ s3' = s3 /\ ingress' = ingress /\ lost' = lost
      /\ stranded' = stranded /\ crossed' = crossed
      /\ backend' = backend /\ phase' = phase /\ pass' = pass /\ r \in ingress
  BY DEF Ingest, stores, process, histories
<1>3. /\ \A q \in Runs : q # r => run'[q] = run[q]
      /\ Created' = Created
  BY <1>1 DEF Only, Created
<1> DEFINE fresh(s) == s \in Sources \ Known /\ ~run'[r].dedup /\ s = run'[r].src
<1>4. \A s \in Sources :
         IF fresh(s) THEN source'[s] = [status |-> "pending", uri |-> "none", doc |-> TRUE]
         ELSE source'[s] = source[s]
  BY <1>0, <1>1 DEF TypeOK, Known
<1> HIDE DEF fresh
<1>5. \A q \in Runs : q # r => Stores(q)' = Stores(q)
  BY <1>3 DEF Stores, Kind
<1>6. ~Stores(r) /\ (Stores(r)' => fresh(run'[r].src))
  BY <1>1 DEF Stores, fresh
<1>7. \A q \in Runs : Stores(q) => run[q].src \in Known
  BY <1>0 DEF Stores, RunsInv, RunShape
<1>8. \A s \in Known : s \in Sources /\ ~fresh(s)
  BY DEF fresh, Known
<1>9. OneStores'
  <2> SUFFICES ASSUME NEW p \in Runs, NEW q \in Runs, Stores(p)', Stores(q)', run'[p].src = run'[q].src
               PROVE  p = q
    BY DEF OneStores
  <2>1. CASE p # r /\ q # r
    BY <1>0, <1>3, <1>5, <2>1 DEF Held, OneStores
  <2>2. CASE p = r /\ q # r
    BY <1>3, <1>5, <1>6, <1>7, <1>8, <2>2
  <2>3. CASE p # r /\ q = r
    BY <1>3, <1>5, <1>6, <1>7, <1>8, <2>3
  <2>4. QED BY <2>1, <2>2, <2>3
<1>10. StoredOnce'
  <2> SUFFICES ASSUME NEW q \in Runs, Stores(q)'
               PROVE  IF run'[q].step = 2 THEN source'[run'[q].src].uri = "none"
                      ELSE source'[run'[q].src].uri # "none" \/ source'[run'[q].src].status = "deleted"
    BY DEF StoredOnce
  <2>1. CASE q = r
    <3>1. fresh(run'[r].src) /\ run'[r].src \in Sources
      BY <1>6, <2>1 DEF fresh
    <3>2. QED BY <1>1, <1>4, <2>1, <3>1
  <2>2. CASE q # r
    <3>1. Stores(q) /\ run'[q] = run[q] /\ run[q].src \in Known
      BY <1>3, <1>5, <1>7, <2>2
    <3>2. source'[run[q].src] = source[run[q].src]
      BY <1>4, <1>8, <3>1
    <3>3. QED BY <1>0, <3>1, <3>2 DEF Held, StoredOnce
  <2>3. QED BY <2>1, <2>2
<1>11. Written'
  BY <1>0, <1>1, <1>2, <1>3, <1>5 DEF Held, Written, Objects
<1>12. BytesKept'
  <2> SUFFICES ASSUME NEW q \in Created', Kind(q)' = "remember", Nonterminal(q)'
               PROVE  /\ run'[q].step = 1 => q \in ingress' \/ run'[q].ask.url
                      /\ run'[q].step = 2 /\ ~run'[q].dedup =>
                            run'[q].src \in Objects(backend)' \cup lost' \cup (stranded' \cap s3') \/ Bytes(q)'
    BY DEF BytesKept
  <2>1. CASE q = r
    BY <1>1, <1>2, <2>1 DEF Bytes
  <2>2. CASE q # r
    <3>1. q \in Created /\ run'[q] = run[q] /\ Kind(q) = "remember" /\ Nonterminal(q)
      BY <1>3, <2>2 DEF Created, Kind, Nonterminal
    <3>2. QED BY <1>0, <1>2, <3>1 DEF Held, BytesKept, Objects, Bytes
  <2>3. QED BY <2>1, <2>2
<1>13. OriginalsKept'
  <2>1. \A s \in Sources : Meant(s)' /\ source'[s].uri # "none" =>
           Meant(s) /\ source[s].uri # "none" /\ (Readable(s) => Readable(s)')
    <3> SUFFICES ASSUME NEW s \in Sources, Meant(s)', source'[s].uri # "none"
                 PROVE  Meant(s) /\ source[s].uri # "none" /\ (Readable(s) => Readable(s)')
      OBVIOUS
    <3>1. source'[s] = source[s]
      BY <1>4
    <3>2. QED BY <1>2, <3>1 DEF Meant, Live, Readable, HasFile, HasObject
  <2>2. QED BY <1>0, <1>2, <2>1, OriginalsStep DEF OriginalsFrame
<1>14. ClearedIsGone'
  <2>1. \A q \in Created, s \in Sources : run'[q].results[s] = run[q].results[s]
    BY <1>1, <1>3 DEF Created
  <2>2. \A s \in Sources : Gone(s) => Gone(s)'
    <3> SUFFICES ASSUME NEW s \in Sources, Gone(s) PROVE Gone(s)'
      OBVIOUS
    <3>1. s \in Known
      BY DEF Gone, Known, Exists
    <3>2. source'[s] = source[s]
      BY <1>4, <1>8, <3>1
    <3>3. QED BY <1>2, <3>2 DEF Gone, Objects
  <2>3. QED BY <1>0, <1>2, <1>3, <2>1, <2>2, ClearedStep DEF GoneFrame
<1>15. Moves
  <2>1. \A q \in Runs : run[q].step \in 1..6
    BY <1>0 DEF TypeOK, Run
  <2>2. QED BY <1>1, <1>3, <2>1 DEF Moves, Created
<1>16. DeletersKnown'
  <2>1. \A s \in Deleting' : s \in Deleting
    <3> SUFFICES ASSUME NEW s \in Sources, source'[s].status = "deleting"
                 PROVE  source[s].status = "deleting"
      BY DEF Deleting, Known, Exists
    <3>1. QED BY <1>4
  <2>2. QED BY <1>0, <1>15, <2>1, DeletersStep
<1>17. PassSound'
  <2>1. phase # "converging"
    BY <1>1, NotConverging
  <2>2. QED BY <1>0, <1>2, <1>15, <2>1, PassStep DEF PassFrame
<1>18. QED BY <1>9, <1>10, <1>11, <1>12, <1>13, <1>14, <1>16, <1>17 DEF BytesInv, Held

LEMMA StoreObjectBytes ==
    ASSUME Inv, NEW r \in Runs, StoreObject(r)
    PROVE  BytesInv'
<1>0. RunsInv /\ RunsInv' /\ Held /\ TypeOK
  BY StoreObjectKeeps DEF Inv, BytesInv, RunsInv
<1>1. /\ r \in Created /\ run[r].status = "running" /\ run[r].step = 2 /\ Kind(r) = "remember"
      /\ ~run[r].dedup /\ run[r].src \in Known
      /\ \/ /\ FailPermanently(r) /\ local' = local /\ s3' = s3
         \/ /\ RowStays(r) /\ run'[r].status = "running" /\ run'[r].pc = "ready"
            /\ run'[r].results = run[r].results
            /\ \/ backend = "file" /\ local' = local \cup {run[r].src} /\ s3' = s3
               \/ backend = "s3" /\ s3' = s3 \cup {run[r].src} /\ local' = local
  BY <1>0, StoreObjectFields
<1>2. /\ source' = source /\ ingress' = ingress /\ lost' = lost
      /\ stranded' = stranded /\ crossed' = crossed
      /\ UNCHANGED process /\ backend' = backend /\ phase' = phase /\ pass' = pass
  BY DEF StoreObject, process, histories
<1>3. CASE FailPermanently(r) /\ local' = local /\ s3' = s3
  BY <1>0, <1>1, <1>2, <1>3, RowDoneOnly DEF stores
<1>4. CASE /\ RowStays(r) /\ run'[r].status = "running" /\ run'[r].pc = "ready"
           /\ run'[r].results = run[r].results
           /\ \/ backend = "file" /\ local' = local \cup {run[r].src} /\ s3' = s3
              \/ backend = "s3" /\ s3' = s3 \cup {run[r].src} /\ local' = local
  <2>1. RowsFrame
    BY <1>0, <1>1, <1>2, <1>4, OneRow DEF RowStays, Nonterminal
  <2>2. LocationsFrame /\ UnlocatedFrame
    BY <1>2, <1>4 DEF LocationsFrame, UnlocatedFrame
  <2>3. source[run[r].src].uri = "none"
    BY <1>0, <1>1 DEF Held, StoredOnce, Stores
  <2>4. OriginalsFrame
    BY <1>2, <1>4 DEF OriginalsFrame, Meant, Live, Readable, HasFile, HasObject
  <2>5. GoneFrame
    <3>1. \A q \in Created, s \in Sources : run'[q].results[s] = run[q].results[s]
      BY <1>4 DEF RowStays, Only, Created
    <3>2. ASSUME NEW s \in Sources, Gone(s) PROVE Gone(s)'
      <4>1. CASE s = run[r].src
        BY <1>2, <2>3, <3>2, <4>1 DEF Gone
      <4>2. CASE s # run[r].src
        BY <1>2, <1>4, <3>2, <4>2 DEF Gone, Objects
      <4>3. QED BY <4>1, <4>2
    <3>3. QED BY <1>2, <2>1, <3>1, <3>2 DEF GoneFrame, RowsFrame
  <2>6. PassFrame
    BY <1>1, <1>2, NotConverging DEF PassFrame
  <2>7. Deleting' = Deleting
    BY <1>2 DEF Deleting, Known, Exists
  <2>8. QED BY <1>0, <2>1, <2>2, <2>4, <2>5, <2>6, <2>7, Framed
<1>5. QED BY <1>1, <1>3, <1>4

LEMMA DropIngressBytes ==
    ASSUME Inv, NEW r \in Runs, DropIngress(r)
    PROVE  BytesInv'
<1>0. /\ RunsInv /\ RunsInv' /\ Held /\ OriginalsKept /\ ClearedIsGone /\ DeletersKnown /\ PassSound
      /\ TypeOK
  BY DropIngressKeeps DEF Inv, BytesInv, RunsInv
<1>1. /\ r \in Created /\ run[r].status = "running" /\ run[r].step = 2 /\ Kind(r) = "remember"
      /\ ~run[r].dedup
      /\ RowStays(r) /\ run'[r].status = "running" /\ run'[r].uri = backend
      /\ run'[r].results = run[r].results
  BY <1>0, DropIngressFields
<1>2. /\ source' = source /\ local' = local /\ s3' = s3 /\ lost' = lost
      /\ stranded' = stranded /\ crossed' = crossed
      /\ backend' = backend /\ phase' = phase /\ pass' = pass
      /\ ingress' = ingress \ {r} /\ run[r].src \in Objects(backend) /\ phase # "down"
  BY DEF DropIngress, process, histories, Runs_
<1>3. /\ \A q \in Runs : q # r => run'[q] = run[q]
      /\ \A q \in Runs : run'[q].ask = run[q].ask /\ run'[q].step = run[q].step
                         /\ run'[q].src = run[q].src /\ run'[q].dedup = run[q].dedup
                         /\ run'[q].status = run[q].status
      /\ Created' = Created
  BY <1>1 DEF RowStays, Only, SameSource, Created
<1>4. \A q \in Runs : Stores(q)' = Stores(q)
  BY <1>3 DEF Stores, Kind
<1>5. OneStores' /\ StoredOnce'
  BY <1>0, <1>2, <1>3, <1>4 DEF Held, OneStores, StoredOnce
<1>6. Written'
  <2> SUFFICES ASSUME NEW q \in Runs, run'[q].pc = "done"
               PROVE  /\ run'[q].status = "running" /\ phase' # "down" /\ Stores(q)' /\ run'[q].step = 2
                      /\ run'[q].uri = backend' /\ run'[q].src \in Objects(backend)' \cup lost'
    BY DEF Written
  <2>1. CASE q = r
    <3>1. Stores(r)
      BY <1>1 DEF Stores
    <3>2. QED BY <1>1, <1>2, <1>3, <1>4, <2>1, <3>1 DEF Objects
  <2>2. CASE q # r
    BY <1>0, <1>2, <1>3, <1>4, <2>2 DEF Held, Written, Objects
  <2>3. QED BY <2>1, <2>2
<1>7. BytesKept'
  <2> SUFFICES ASSUME NEW q \in Created', Kind(q)' = "remember", Nonterminal(q)'
               PROVE  /\ run'[q].step = 1 => q \in ingress' \/ run'[q].ask.url
                      /\ run'[q].step = 2 /\ ~run'[q].dedup =>
                            run'[q].src \in Objects(backend)' \cup lost' \cup (stranded' \cap s3') \/ Bytes(q)'
    BY DEF BytesKept
  <2>1. CASE q = r
    BY <1>1, <1>2, <1>3, <2>1 DEF Objects
  <2>2. CASE q # r
    <3>1. q \in Created /\ run'[q] = run[q] /\ Kind(q) = "remember" /\ Nonterminal(q)
      BY <1>3, <2>2 DEF Created, Kind, Nonterminal
    <3>2. QED BY <1>0, <1>2, <2>2, <3>1 DEF Held, BytesKept, Objects, Bytes
  <2>3. QED BY <2>1, <2>2
<1>8. \A s \in Sources : /\ Meant(s)' = Meant(s) /\ Readable(s)' = Readable(s) /\ Gone(s)' = Gone(s)
  BY <1>2 DEF Meant, Live, Readable, HasFile, HasObject, Gone, Objects
<1>9. \A q \in Created, s \in Sources : run'[q].results[s] = run[q].results[s]
  BY <1>1, <1>3 DEF Created
<1>10. OriginalsKept' /\ ClearedIsGone'
  BY <1>0, <1>2, <1>3, <1>8, <1>9, OriginalsStep, ClearedStep DEF OriginalsFrame, GoneFrame
<1>11. Moves
  <2>1. \A q \in Runs : run[q].step \in 1..6
    BY <1>0 DEF TypeOK, Run
  <2>2. QED BY <1>3, <2>1 DEF Moves, Created
<1>12. DeletersKnown'
  <2>1. Deleting' = Deleting
    BY <1>2 DEF Deleting, Known, Exists
  <2>2. QED BY <1>0, <1>11, <2>1, DeletersStep
<1>13. PassSound'
  BY <1>0, <1>2, <1>11, PassStep DEF PassFrame
<1>14. QED BY <1>5, <1>6, <1>7, <1>10, <1>12, <1>13 DEF BytesInv, Held

LEMMA FinalizeStorageBytes ==
    ASSUME Inv, NEW r \in Runs, FinalizeStorage(r)
    PROVE  BytesInv'
<1>0. /\ RunsInv /\ RunsInv' /\ Held /\ OriginalsKept /\ ClearedIsGone /\ DeletersKnown /\ PassSound
      /\ TypeOK
  BY FinalizeStorageKeeps DEF Inv, BytesInv, RunsInv
<1>1. /\ r \in Created /\ run[r].status = "running" /\ run[r].step = 2 /\ Kind(r) = "remember"
      /\ run[r].src \in Known /\ Persist(r, run[r])
      /\ run[r].dedup \/ run[r].pc = "done"
      /\ \A s \in Sources :
            /\ source'[s].status = source[s].status /\ source'[s].doc = source[s].doc
            /\ source'[s].uri = IF s = run[r].src /\ ~run[r].dedup /\ source[s].uri = "none"
                                THEN run[r].uri ELSE source[s].uri
  BY <1>0, FinalizeStorageFields
<1>2. /\ UNCHANGED <<stores, process, lost>>
      /\ local' = local /\ s3' = s3 /\ ingress' = ingress /\ lost' = lost /\ stranded' = stranded
      /\ backend' = backend /\ phase' = phase /\ pass' = pass
      /\ crossed' = IF run[r].dedup \/ Live(run[r].src) THEN crossed
                    ELSE crossed \cup {run[r].src}
  BY DEF FinalizeStorage, process, stores
<1>3. CASE run[r].dedup
  <2>1. source' = source
    BY <1>3 DEF FinalizeStorage
  <2>2. QED BY <1>0, <1>1, <1>2, <1>3, <2>1, RowDoneOnly
<1>4. CASE ~run[r].dedup
  <2> DEFINE src == run[r].src
  <2>1. /\ run[r].pc = "done" /\ Stores(r) /\ run[r].uri = backend
        /\ src \in Objects(backend) \cup lost /\ source[src].uri = "none"
        /\ src \in Sources
    BY <1>0, <1>1, <1>4 DEF Held, Written, StoredOnce, Known
  <2>2. RowIs(r, Next_(r), run[r].step + 1) /\ SameSource(r)
    BY <1>0, <1>1, PersistFields
  <2>3. /\ run'[r].status = "running" /\ run'[r].step = 3 /\ run'[r].pc = "ready"
        /\ run'[r].ask = run[r].ask
        /\ \A q \in Runs : /\ q # r => run'[q] = run[q]
                           /\ run'[q].src = run[q].src /\ run'[q].results = run[q].results
        /\ Created' = Created
    <3>1. run'[r].status = "running" /\ run'[r].step = 3
      BY <1>1, <2>2 DEF RowIs, Next_, Length, IsDelete
    <3>2. QED BY <1>1, <2>2, <3>1 DEF RowIs, Only, SameSource, Created
  <2>4. \A q \in Runs : Stores(q)' = Stores(q)
    <3>1. Stores(r)'
      BY <1>1, <1>4, <2>2, <2>3 DEF Stores, Kind, SameSource
    <3>2. QED BY <2>1, <2>3, <3>1 DEF Stores, Kind
  <2>5. OneStores'
    BY <1>0, <2>3, <2>4 DEF Held, OneStores
  <2>6. backend \in {"file", "s3"}
    BY <1>0 DEF TypeOK
  <2>7. StoredOnce'
    <3> SUFFICES ASSUME NEW q \in Runs, Stores(q)'
                 PROVE  IF run'[q].step = 2 THEN source'[run'[q].src].uri = "none"
                        ELSE source'[run'[q].src].uri # "none" \/ source'[run'[q].src].status = "deleted"
      BY DEF StoredOnce
    <3>1. CASE q = r
      BY <1>1, <1>4, <2>1, <2>3, <2>6, <3>1
    <3>2. CASE q # r
      <4>1. Stores(q) /\ run'[q] = run[q] /\ run[q].src # src
        BY <1>0, <2>1, <2>3, <2>4, <3>2 DEF Held, OneStores
      <4>2. run[q].src \in Sources
        BY <1>0, <4>1 DEF RunsInv, RunShape, Stores, Known
      <4>3. source'[run[q].src].uri = source[run[q].src].uri
            /\ source'[run[q].src].status = source[run[q].src].status
        BY <1>1, <4>1, <4>2
      <4>4. QED BY <1>0, <4>1, <4>3 DEF Held, StoredOnce
    <3>3. QED BY <3>1, <3>2
  <2>8. Written'
    BY <1>0, <1>2, <2>3, <2>4 DEF Held, Written, Objects
  <2>9. BytesKept'
    <3> SUFFICES ASSUME NEW q \in Created', Kind(q)' = "remember", Nonterminal(q)'
                 PROVE  /\ run'[q].step = 1 => q \in ingress' \/ run'[q].ask.url
                        /\ run'[q].step = 2 /\ ~run'[q].dedup =>
                              run'[q].src \in Objects(backend)' \cup lost' \cup (stranded' \cap s3') \/ Bytes(q)'
      BY DEF BytesKept
    <3>1. CASE q = r
      BY <2>3, <3>1
    <3>2. CASE q # r
      <4>1. q \in Created /\ run'[q] = run[q] /\ Kind(q) = "remember" /\ Nonterminal(q)
        BY <2>3, <3>2 DEF Created, Kind, Nonterminal
      <4>2. QED BY <1>0, <1>2, <4>1 DEF Held, BytesKept, Objects, Bytes
    <3>3. QED BY <3>1, <3>2
  <2>10. OriginalsKept'
    <3>1. ASSUME NEW s \in Sources, Meant(s)', source'[s].uri # "none"
          PROVE  \/ s \in lost' \cup crossed'
                 \/ Readable(s)'
                 \/ Meant(s) /\ source[s].uri # "none" /\ (Readable(s) => Readable(s)')
      <4>1. CASE s = src
        <5>1. source'[s].uri = backend
          BY <1>1, <1>4, <2>1, <4>1
        <5>2. QED BY <1>2, <2>1, <2>6, <4>1, <5>1 DEF Readable, HasFile, HasObject, Objects
      <4>2. CASE s # src
        BY <1>1, <1>2, <3>1, <4>2 DEF Meant, Live, Readable, HasFile, HasObject
      <4>3. QED BY <4>1, <4>2
    <3>2. QED BY <1>0, <1>2, <3>1, OriginalsStep DEF OriginalsFrame
  <2>11. ClearedIsGone'
    <3>1. \A q \in Created, s \in Sources : run'[q].results[s] = run[q].results[s]
      BY <2>3 DEF Created
    <3>2. ASSUME NEW s \in Sources, Gone(s) PROVE Gone(s)' \/ s \in crossed'
      <4>1. CASE s = src
        BY <1>2, <1>4, <3>2, <4>1 DEF Gone, Live
      <4>2. CASE s # src
        <5>1. /\ source'[s].status = source[s].status /\ source'[s].doc = source[s].doc
              /\ source'[s].uri = source[s].uri
          BY <1>1, <4>2
        <5>2. QED BY <1>2, <3>2, <5>1 DEF Gone, Objects
      <4>3. QED BY <4>1, <4>2
    <3>3. QED BY <1>0, <1>2, <2>3, <3>1, <3>2, ClearedStep DEF GoneFrame
  <2>12. Moves
    <3>1. \A q \in Runs : run[q].step \in 1..6
      BY <1>0 DEF TypeOK, Run
    <3>2. QED BY <1>1, <2>3, <3>1 DEF Moves, Created
  <2>13. DeletersKnown'
    <3>1. Deleting' = Deleting
      BY <1>1 DEF Deleting, Known, Exists
    <3>2. QED BY <1>0, <2>12, <3>1, DeletersStep
  <2>14. PassSound'
    <3>1. phase # "converging"
      BY <1>1, NotConverging
    <3>2. QED BY <1>0, <1>2, <2>12, <3>1, PassStep DEF PassFrame
  <2>15. QED BY <2>5, <2>7, <2>8, <2>9, <2>10, <2>11, <2>13, <2>14 DEF BytesInv, Held
<1>5. QED BY <1>3, <1>4

LEMMA CognifyBytes ==
    ASSUME Inv, NEW r \in Runs, Cognify(r)
    PROVE  BytesInv'
<1>0. RunsInv /\ RunsInv' /\ TypeOK
  BY CognifyKeeps DEF Inv, RunsInv
<1>1. /\ r \in Created /\ run[r].status = "running" /\ run[r].step = 3 /\ Kind(r) = "remember"
      /\ \/ FailPermanently(r) /\ source' = source
         \/ /\ Persist(r, run[r])
            /\ \A s \in Sources :
                  \/ source'[s] = source[s]
                  \/ /\ source[s].status = "pending" /\ source'[s].status = "active"
                     /\ source'[s].uri = source[s].uri /\ source'[s].doc = source[s].doc
  BY <1>0, CognifyFields
<1>2. /\ UNCHANGED <<stores, process, lost, crossed>>
      /\ local' = local /\ s3' = s3 /\ ingress' = ingress /\ lost' = lost
      /\ stranded' = stranded /\ crossed' = crossed
      /\ backend' = backend /\ phase' = phase /\ pass' = pass
  BY DEF Cognify, process, stores, histories
<1>3. CASE FailPermanently(r) /\ source' = source
  BY <1>0, <1>1, <1>2, <1>3, RowDoneOnly
<1>4. CASE /\ Persist(r, run[r])
           /\ \A s \in Sources :
                  \/ source'[s] = source[s]
                  \/ /\ source[s].status = "pending" /\ source'[s].status = "active"
                     /\ source'[s].uri = source[s].uri /\ source'[s].doc = source[s].doc
  <2>1. RowsFrame /\ \A q \in Created, s \in Sources : run'[q].results[s] = run[q].results[s]
    BY <1>0, <1>1, <1>2, <1>4, RowDone
  <2>2. LocationsFrame /\ UnlocatedFrame
    BY <1>2, <1>4 DEF LocationsFrame, UnlocatedFrame
  <2>3. OriginalsFrame
    BY <1>2, <1>4 DEF OriginalsFrame, Meant, Live, Readable, HasFile, HasObject
  <2>4. GoneFrame
    <3>1. \A s \in Sources : Gone(s) => Gone(s)'
      BY <1>2, <1>4 DEF Gone, Objects
    <3>2. QED BY <1>2, <2>1, <3>1 DEF GoneFrame, RowsFrame
  <2>5. PassFrame
    BY <1>1, <1>2, NotConverging DEF PassFrame
  <2>6. \A s \in Deleting' : s \in Deleting
    BY <1>4 DEF Deleting, Known, Exists
  <2>7. QED BY <1>0, <2>1, <2>2, <2>3, <2>4, <2>5, <2>6, Framed
<1>5. QED BY <1>1, <1>3, <1>4

-----------------------------------------------------------------------------
(* Marking, deleting and finalizing *)

LEMMA MarkBytes ==
    ASSUME Inv, RunsInv', NEW r \in Created, NEW S \in SUBSET Undeleted, source' = Mark(S, r),
           RowsFrame, \A q \in Created, s \in Sources : run'[q].results[s] = run[q].results[s],
           UNCHANGED <<stores, process, lost, crossed>>, phase # "converging",
           Mutated(r)', ~run'[r].conflict,
           Kind(r) = "forget_source" => S \subseteq {run[r].ask.target}
    PROVE  BytesInv'
<1>0. /\ TypeOK /\ r \in Runs /\ r \in Created' /\ Kind(r)' = Kind(r)
      /\ run'[r].ask = run[r].ask
      /\ local' = local /\ s3' = s3 /\ ingress' = ingress /\ lost' = lost
      /\ stranded' = stranded /\ crossed' = crossed
      /\ backend' = backend /\ phase' = phase /\ pass' = pass
  BY DEF Inv, RunsInv, Created, RowsFrame, Kind, stores, process
<1>1. \A s \in Sources :
         IF s \notin S THEN source'[s] = source[s]
         ELSE /\ source'[s].status = "deleting" /\ source'[s].uri = source[s].uri
              /\ source'[s].doc => source[s].doc
              /\ source[s].status \in {"pending", "active", "deleting"}
  <2>1. \A s \in Sources :
           IF s \notin S THEN source'[s] = source[s]
           ELSE /\ source'[s].status = "deleting" /\ source'[s].uri = source[s].uri
                /\ source'[s].doc => source[s].doc /\ run[r].ask.memory_only
    BY <1>0, MarkFields
  <2>2. \A s \in S : s \in Sources /\ source[s].status \in {"pending", "active", "deleting"}
    BY <1>0 DEF Undeleted, Known, Exists, TypeOK, Source
  <2>3. QED BY <2>1, <2>2
<1>2. LocationsFrame /\ UnlocatedFrame
  BY <1>0, <1>1 DEF LocationsFrame, UnlocatedFrame
<1>3. OriginalsFrame
  <2>1. ASSUME NEW s \in Sources, Meant(s)', source'[s].uri # "none"
        PROVE  Meant(s) /\ source[s].uri # "none" /\ (Readable(s) => Readable(s)')
    BY <1>0, <1>1, <2>1 DEF Meant, Live, Readable, HasFile, HasObject
  <2>2. QED BY <1>0, <2>1 DEF OriginalsFrame
<1>4. GoneFrame
  <2>1. ASSUME NEW s \in Sources, Gone(s) PROVE Gone(s)'
    BY <1>0, <1>1, <2>1 DEF Gone, Objects, TypeOK, Source
  <2>2. QED BY <1>0, <2>1 DEF GoneFrame, RowsFrame
<1>5. PassFrame
  BY <1>0 DEF PassFrame
<1>6. ASSUME NEW s \in Deleting' PROVE s \in Deleting \/ Lineages(s)' # {}
  <2>1. s \in Sources /\ source'[s].status = "deleting"
    BY DEF Deleting, Known
  <2>2. CASE s \in S
    <3>1. r \in Lineages(s)'
      BY <1>0, <2>2 DEF Lineages
    <3>2. QED BY <3>1
  <2>3. CASE s \notin S
    BY <1>1, <2>1, <2>3 DEF Deleting, Known, Exists
  <2>4. QED BY <2>2, <2>3
<1>7. QED BY <1>2, <1>3, <1>4, <1>5, <1>6, Framed

LEMMA MutateBytes ==
    ASSUME Inv, NEW r \in Runs, MutateSource(r) \/ MutateDataset(r)
    PROVE  BytesInv'
<1>0. RunsInv /\ RunsInv' /\ TypeOK /\ TypeOK'
  BY MutateKeeps DEF Inv, RunsInv
<1>1. /\ r \in Created /\ run[r].status = "running" /\ run[r].step = 1 /\ IsForget(r)
      /\ UNCHANGED <<stores, process, histories>>
      /\ \/ /\ source' = source
            /\ FailPermanently(r) \/ Conflicts(r) \/ Skipped(r) \/ Persist(r, run[r])
         \/ /\ Persist(r, run[r]) /\ Kind(r) = "forget_source"
            /\ Live(run[r].ask.target) /\ source' = Mark({run[r].ask.target}, r)
         \/ /\ Persist(r, run[r]) /\ Kind(r) # "forget_source"
            /\ source' = Mark(Undeleted, r)
  BY <1>0, MutateFields
<1>2. UNCHANGED <<stores, process, lost, crossed>> /\ phase' = phase
  BY <1>1 DEF histories, process
<1>3. Kind(r) # "remember" /\ phase # "converging" /\ run[r].pc = "ready" /\ Nonterminal(r)
  BY <1>0, <1>1, NotConverging, Kinds, PcReady DEF Nonterminal
<1>4. CASE source' = source /\ (FailPermanently(r) \/ Persist(r, run[r]))
  BY <1>0, <1>1, <1>2, <1>3, <1>4, RowDoneOnly
<1>5. CASE source' = source /\ (Conflicts(r) \/ Skipped(r))
  <2>1. /\ Only(r) /\ run'[r].ask = run[r].ask /\ run'[r].pc = "ready" /\ SameSource(r)
        /\ run'[r].status # "absent" /\ run'[r].results = run[r].results
        /\ run'[r].step = run[r].step \/ run'[r].step > run[r].step
    BY <1>0, <1>1, <1>3, <1>5, ConflictsFields, SkippedFields
  <2>2. RowsFrame
    BY <1>0, <1>1, <1>2, <1>3, <2>1, OneRow
  <2>3. \A q \in Created, s \in Sources : run'[q].results[s] = run[q].results[s]
    BY <2>1 DEF Only, Created
  <2>4. QED BY <1>0, <1>2, <1>5, <2>2, <2>3, RowOnly
<1>6. CASE Persist(r, run[r])
           /\ \/ /\ Kind(r) = "forget_source"
                 /\ Live(run[r].ask.target) /\ source' = Mark({run[r].ask.target}, r)
              \/ /\ Kind(r) # "forget_source"
                 /\ source' = Mark(Undeleted, r)
  <2>1. RowsFrame /\ \A q \in Created, s \in Sources : run'[q].results[s] = run[q].results[s]
    BY <1>0, <1>1, <1>2, <1>3, <1>6, RowDone
  <2>2. RowIs(r, Next_(r), run[r].step + 1)
    BY <1>0, <1>1, <1>6, PersistFields
  <2>3. run'[r].step = 2 /\ run'[r].ask = run[r].ask /\ r \in Created'
    BY <1>1, <2>1, <2>2 DEF RowIs, RowsFrame
  <2>4. Mutated(r)'
    <3>1. IsForget(r)'
      BY <1>1, <2>3 DEF IsForget, Kind
    <3>2. QED BY <1>0, <2>3, <3>1, PassingThen
  <2>5. ~run'[r].conflict
    BY <1>0, <2>3 DEF RunsInv, RunShape
  <2>6. CASE Kind(r) = "forget_source" /\ Live(run[r].ask.target) /\ source' = Mark({run[r].ask.target}, r)
    <3>1. {run[r].ask.target} \in SUBSET Undeleted
      BY <1>0, <1>1, <2>6 DEF RunsInv, RunShape, Undeleted, Live
    <3>2. QED BY <1>0, <1>1, <1>2, <1>3, <2>1, <2>4, <2>5, <2>6, <3>1, MarkBytes
  <2>7. CASE Kind(r) # "forget_source" /\ source' = Mark(Undeleted, r)
    BY <1>0, <1>1, <1>2, <1>3, <2>1, <2>4, <2>5, <2>7, MarkBytes
  <2>8. QED BY <1>6, <2>6, <2>7
<1>7. QED BY <1>1, <1>4, <1>5, <1>6

LEMMA DeactivateBytes ==
    ASSUME Inv, NEW r \in Runs, Deactivate(r)
    PROVE  BytesInv'
<1>0. RunsInv /\ RunsInv' /\ TypeOK /\ TypeOK'
  BY DeactivateKeeps DEF Inv, RunsInv
<1>1. /\ r \in Created /\ run[r].status = "running" /\ run[r].step = 2 /\ IsDelete(r)
      /\ UNCHANGED <<stores, process, histories>>
      /\ \/ FailPermanently(r) /\ source' = source
         \/ /\ source' = Mark(Undeleted, r) /\ Only(r)
            /\ run'[r].ask = run[r].ask /\ run'[r].status = "running" /\ run'[r].step = 3
            /\ run'[r].pc = "ready" /\ run'[r].results = run[r].results
            /\ run'[r].conflict = run[r].conflict /\ SameSource(r)
  BY <1>0, DeactivateFields
<1>2. UNCHANGED <<stores, process, lost, crossed>> /\ phase' = phase
  BY <1>1 DEF histories, process
<1>3. Kind(r) # "remember" /\ Kind(r) # "forget_source" /\ phase # "converging" /\ Nonterminal(r)
  BY <1>0, <1>1, NotConverging DEF Nonterminal, IsDelete
<1>4. CASE FailPermanently(r) /\ source' = source
  BY <1>0, <1>1, <1>2, <1>4, RowDoneOnly
<1>5. CASE /\ source' = Mark(Undeleted, r) /\ Only(r)
           /\ run'[r].ask = run[r].ask /\ run'[r].status = "running" /\ run'[r].step = 3
           /\ run'[r].pc = "ready" /\ run'[r].results = run[r].results
           /\ run'[r].conflict = run[r].conflict /\ SameSource(r)
  <2>1. RowsFrame
    BY <1>0, <1>1, <1>2, <1>3, <1>5, OneRow
  <2>2. \A q \in Created, s \in Sources : run'[q].results[s] = run[q].results[s]
    BY <1>5 DEF Only, Created
  <2>3. Mutated(r)'
    <3>1. IsDelete(r)'
      BY <1>1, <1>5 DEF IsDelete, Kind
    <3>2. QED BY <1>0, <1>5, <3>1, PassingThen
  <2>4. ~run'[r].conflict
    BY <1>0, <1>1, <2>1, <1>5 DEF RunsInv, RunShape, RowsFrame
  <2>5. QED BY <1>0, <1>1, <1>2, <1>3, <1>5, <2>1, <2>2, <2>3, <2>4, MarkBytes
<1>6. QED BY <1>1, <1>4, <1>5

LEMMA FinalizedBytes ==
    ASSUME Inv, RunsInv', NEW r \in Created, NEW T \in SUBSET Deleting, source' = Finalized(r, T),
           RowsFrame, \A q \in Created, s \in Sources : run'[q].results[s] = run[q].results[s],
           UNCHANGED <<stores, process, lost>>, crossed \subseteq crossed',
           IsForget(r) /\ run[r].ask.memory_only => {s \in T : ~source[s].doc} \subseteq crossed'
    PROVE  BytesInv'
<1>0. /\ TypeOK /\ r \in Runs
      /\ local' = local /\ s3' = s3 /\ ingress' = ingress /\ lost' = lost /\ stranded' = stranded
      /\ backend' = backend /\ phase' = phase /\ pass' = pass
  BY DEF Inv, RunsInv, Created, stores, process
<1>1. \A s \in T : s \in Sources /\ source[s].status = "deleting"
  BY DEF Deleting, Known
<1>2. \A s \in Sources :
         IF s \notin T THEN source'[s] = source[s]
         ELSE /\ source'[s].doc = source[s].doc
              /\ \/ /\ source'[s].status = "pending" /\ source'[s].uri = source[s].uri
                    /\ ~source[s].doc => s \in crossed'
                 \/ /\ source'[s].status = "deleted"
                    /\ source'[s].uri \in {"none", source[s].uri}
  <2>1. \A s \in Sources :
           IF s \notin T THEN source'[s] = source[s]
           ELSE /\ source'[s].doc = source[s].doc
                /\ IF IsForget(r) /\ run[r].ask.memory_only
                   THEN source'[s].status = "pending" /\ source'[s].uri = source[s].uri
                   ELSE /\ source'[s].status = "deleted"
                        /\ source'[s].uri = IF run[r].results[s] = "cleared" THEN "none"
                                            ELSE source[s].uri
    BY <1>0, FinalizedFields
  <2>2. QED BY <2>1
<1>3. LocationsFrame /\ UnlocatedFrame
  BY <1>0, <1>1, <1>2 DEF LocationsFrame, UnlocatedFrame
<1>4. OriginalsFrame
  <2>1. ASSUME NEW s \in Sources, Meant(s)', source'[s].uri # "none"
        PROVE  \/ s \in crossed'
               \/ Meant(s) /\ source[s].uri # "none" /\ (Readable(s) => Readable(s)')
    <3>1. CASE s \in T
      <4>1. /\ source'[s].status = "pending" /\ source'[s].uri = source[s].uri
            /\ ~source[s].doc => s \in crossed'
        BY <1>2, <2>1, <3>1 DEF Meant, Live
      <4>2. QED BY <1>0, <1>1, <2>1, <3>1, <4>1 DEF Meant, Readable, HasFile, HasObject
    <3>2. CASE s \notin T
      BY <1>0, <1>2, <2>1, <3>2 DEF Meant, Live, Readable, HasFile, HasObject
    <3>3. QED BY <3>1, <3>2
  <2>2. QED BY <1>0, <2>1 DEF OriginalsFrame
<1>5. GoneFrame
  <2>1. ASSUME NEW s \in Sources, Gone(s) PROVE Gone(s)' \/ s \in crossed'
    BY <1>0, <1>2, <2>1 DEF Gone, Objects
  <2>2. QED BY <1>0, <2>1 DEF GoneFrame, RowsFrame
<1>6. PassFrame
  <2>1. \A s \in Sources : Live(s) => source'[s] = source[s]
    BY <1>1, <1>2 DEF Live
  <2>2. QED BY <1>0, <2>1 DEF PassFrame
<1>7. \A s \in Deleting' : s \in Deleting
  BY <1>2 DEF Deleting, Known, Exists
<1>8. QED BY <1>3, <1>4, <1>5, <1>6, <1>7, Framed

LEMMA FinalizeTargetBytes ==
    ASSUME Inv, NEW r \in Runs, FinalizeTarget(r)
    PROVE  BytesInv'
<1>0. RunsInv /\ RunsInv' /\ TypeOK
  BY FinalizeTargetKeeps DEF Inv, RunsInv
<1>1. /\ r \in Created /\ run[r].status = "running" /\ run[r].step = 3 /\ IsForget(r)
      /\ UNCHANGED <<stores, process, lost, faults>>
      /\ \/ FailPermanently(r) /\ UNCHANGED <<dataset, source, crossed>>
         \/ \E T \in SUBSET Deleting :
               /\ ~ResultsMissing(r, T) /\ Persist(r, run[r])
               /\ source' = Finalized(r, T) /\ dataset' = DatasetAfterForget(r)
               /\ crossed' = IF run[r].ask.memory_only
                             THEN crossed \cup {s \in T : ~source[s].doc} ELSE crossed
  BY <1>0, FinalizeTargetFields
<1>2. phase' = phase /\ Kind(r) # "remember"
  BY <1>0, <1>1, Kinds DEF process
<1>3. CASE FailPermanently(r) /\ UNCHANGED <<dataset, source, crossed>>
  BY <1>0, <1>1, <1>3, RowDoneOnly
<1>4. ASSUME NEW T \in SUBSET Deleting, Persist(r, run[r]), source' = Finalized(r, T),
             crossed' = IF run[r].ask.memory_only
                        THEN crossed \cup {s \in T : ~source[s].doc} ELSE crossed
      PROVE  BytesInv'
  <2>1. RowsFrame /\ \A q \in Created, s \in Sources : run'[q].results[s] = run[q].results[s]
    BY <1>0, <1>1, <1>2, <1>4, RowDone
  <2>2. /\ crossed \subseteq crossed'
        /\ run[r].ask.memory_only => {s \in T : ~source[s].doc} \subseteq crossed'
    BY <1>4
  <2>3. QED BY <1>0, <1>1, <1>4, <2>1, <2>2, FinalizedBytes
<1>5. QED BY <1>1, <1>3, <1>4

LEMMA TombstoneBytes ==
    ASSUME Inv, NEW r \in Runs, Tombstone(r)
    PROVE  BytesInv'
<1>0. RunsInv /\ RunsInv' /\ TypeOK
  BY TombstoneKeeps DEF Inv, RunsInv
<1>1. /\ r \in Created /\ run[r].status = "running" /\ run[r].step = 5 /\ IsDelete(r)
      /\ UNCHANGED <<stores, process, histories>>
      /\ \/ FailPermanently(r) /\ UNCHANGED <<dataset, source>>
         \/ /\ ~ResultsMissing(r, Deleting) /\ Persist(r, run[r])
            /\ source' = Finalized(r, Deleting)
            /\ dataset' = IF dataset = "deleting" THEN "deleted" ELSE dataset
  BY <1>0, TombstoneFields
<1>2. /\ phase' = phase /\ Kind(r) # "remember" /\ ~IsForget(r)
      /\ UNCHANGED <<stores, process, lost, crossed>> /\ crossed \subseteq crossed'
  BY <1>0, <1>1, Kinds DEF process, histories
<1>3. CASE FailPermanently(r) /\ UNCHANGED <<dataset, source>>
  BY <1>0, <1>1, <1>2, <1>3, RowDoneOnly
<1>4. CASE Persist(r, run[r]) /\ source' = Finalized(r, Deleting)
  <2>1. RowsFrame /\ \A q \in Created, s \in Sources : run'[q].results[s] = run[q].results[s]
    BY <1>0, <1>1, <1>2, <1>4, RowDone
  <2>2. QED BY <1>0, <1>1, <1>2, <1>4, <2>1, FinalizedBytes
<1>5. QED BY <1>1, <1>3, <1>4

LEMMA DeletedBytes ==
    ASSUME Inv, RunsInv', NEW r \in Runs, NEW s \in Sources, NEW result \in Results,
           DeleteResult(r, s, result), source' = source,
           local' \in {local, local \ {s}}, s3' \in {s3, s3 \ {s}},
           source[s].uri = "none" => local' = local /\ s3' = s3,
           result = "cleared" /\ source[s].uri # "none" => s \notin Objects(source[s].uri)',
           crossed' = Crossing(s), UNCHANGED <<ingress, process, lost>>
    PROVE  BytesInv'
<1>0. /\ RunsInv /\ TypeOK /\ ingress' = ingress /\ lost' = lost /\ stranded' = stranded
      /\ backend' = backend /\ phase' = phase /\ pass' = pass
  BY DEF Inv, RunsInv, process
<1>1. /\ r \in Created /\ run[r].status = "running" /\ s \in Deleting
      /\ RowStays(r) /\ run'[r].status = "running" /\ run'[r].pc = run[r].pc
      /\ \A t \in Sources : run'[r].results[t] = IF t = s THEN result ELSE run[r].results[t]
      /\ Kind(r) # "remember"
  BY <1>0, Kinds DEF DeleteResult
<1>2. run[r].pc = "ready"
  BY <1>1, PcReady
<1>3. RowsFrame
  BY <1>0, <1>1, <1>2, OneRow DEF RowStays, Nonterminal
<1>4. LocationsFrame /\ UnlocatedFrame
  <2>1. \A t \in Sources : source[t].uri = "none" =>
           /\ t \in local => t \in local'
           /\ t \in s3 => t \in s3'
    OBVIOUS
  <2>2. QED BY <1>0, <2>1 DEF LocationsFrame, UnlocatedFrame
<1>5. source[s].status = "deleting" /\ (source[s].doc => s \in crossed') /\ crossed \subseteq crossed'
  BY <1>1 DEF Deleting, Crossing
<1>6. OriginalsFrame
  <2>1. ASSUME NEW t \in Sources, Meant(t)'
        PROVE  t \in crossed' \/ (Meant(t) /\ (Readable(t) => Readable(t)'))
    <3>1. CASE t = s
      BY <1>5, <2>1, <3>1 DEF Meant, Live
    <3>2. CASE t # s
      BY <2>1, <3>2 DEF Meant, Live, Readable, HasFile, HasObject
    <3>3. QED BY <3>1, <3>2
  <2>2. QED BY <1>0, <1>5, <2>1 DEF OriginalsFrame
<1>7. GoneFrame
  <2>1. ASSUME NEW t \in Sources, Gone(t) PROVE Gone(t)'
    BY <2>1 DEF Gone, Objects
  <2>2. ASSUME NEW q \in Created, NEW t \in Sources, run'[q].results[t] = "cleared"
        PROVE  run[q].results[t] = "cleared" \/ Gone(t)' \/ t \in crossed'
    <3>1. CASE q = r /\ t = s
      <4>1. result = "cleared"
        BY <1>1, <2>2, <3>1
      <4>2. source[s].uri # "none" => s \notin Objects(source[s].uri)'
        BY <4>1
      <4>3. QED BY <1>5, <3>1, <4>2 DEF Gone, Objects
    <3>2. CASE q = r /\ t # s
      BY <1>1, <2>2, <3>2
    <3>3. CASE q # r
      BY <1>1, <2>2, <3>3 DEF RowStays, Only, Created
    <3>4. QED BY <3>1, <3>2, <3>3
  <2>3. QED BY <1>3, <1>5, <2>1, <2>2 DEF GoneFrame, RowsFrame
<1>8. PassFrame
  <2>1. \A t \in Sources : Live(t) => (t \in s3 => t \in s3')
    BY <1>5 DEF Live
  <2>2. QED BY <1>0, <1>5, <2>1 DEF PassFrame
<1>9. Deleting' = Deleting
  BY DEF Deleting, Known, Exists
<1>10. QED BY <1>3, <1>4, <1>6, <1>7, <1>8, <1>9, Framed

LEMMA DeleteObjectBytes ==
    ASSUME Inv, NEW r \in Runs, NEW s \in Sources, DeleteObject(r, s)
    PROVE  BytesInv'
<1>1. RunsInv /\ TypeOK
  BY DEF Inv, RunsInv
<1>2. DeleteResult(r, s, "cleared") /\ RunsInv' /\ "cleared" \in Results
  BY <1>1, DeleteObjectKeeps DEF Results
<1>3. source' = source /\ crossed' = Crossing(s) /\ UNCHANGED <<ingress, process, lost>> /\ Remove(s)
  BY DEF DeleteObject
<1>4. source[s].uri \in {"none", "file", "s3"}
  BY <1>1 DEF TypeOK, Source
<1>5. /\ local' \in {local, local \ {s}} /\ s3' \in {s3, s3 \ {s}}
      /\ source[s].uri = "none" => local' = local /\ s3' = s3
      /\ source[s].uri # "none" => s \notin Objects(source[s].uri)'
  <2>1. CASE source[s].uri = "none"
    BY <1>3, <2>1 DEF Remove
  <2>2. CASE source[s].uri = "file"
    BY <1>3, <2>2 DEF Remove, UnlinkFile, Objects
  <2>3. CASE source[s].uri = "s3"
    BY <1>3, <2>3 DEF Remove, RemoveObject, Objects
  <2>4. QED BY <1>4, <2>1, <2>2, <2>3
<1>6. QED BY <1>2, <1>3, <1>5, DeletedBytes

LEMMA DeleteUnresolvedBytes ==
    ASSUME Inv, NEW r \in Runs, NEW s \in Sources, DeleteUnresolved(r, s)
    PROVE  BytesInv'
<1>1. RunsInv
  BY DEF Inv
<1>2. DeleteResult(r, s, "unresolved") /\ RunsInv' /\ "unresolved" \in Results
  BY <1>1, DeleteUnresolvedKeeps DEF Results
<1>3. /\ source' = source /\ crossed' = Crossing(s) /\ UNCHANGED <<ingress, process, lost>>
      /\ local' = local /\ s3' \in {s3, s3 \ {s}} /\ source[s].uri = "s3"
  BY DEF DeleteUnresolved
<1>4. QED BY <1>2, <1>3, DeletedBytes

-----------------------------------------------------------------------------
(* The process and its environment *)

LEMMA PutUnconfirmedBytes ==
    ASSUME Inv, NEW r \in Runs, PutUnconfirmed(r)
    PROVE  BytesInv'
<1>0. RunsInv /\ TypeOK /\ Held
  BY DEF Inv, RunsInv, BytesInv
<1>1. /\ RunsInv' /\ Dropped(r) /\ Kind(r) = "remember" /\ run[r].step = 2 /\ ~run[r].dedup
      /\ r \in Created /\ run[r].status = "running"
  BY <1>0, PutUnconfirmedKeeps DEF Dropped
<1>2. /\ source' = source /\ local' = local /\ ingress' = ingress /\ lost' = lost
      /\ stranded' = stranded
      /\ crossed' = crossed /\ backend' = backend /\ phase' = phase /\ pass' = pass
      /\ s3' \in {s3, s3 \cup {run[r].src}}
  BY DEF PutUnconfirmed, process
<1>3. /\ RowsFrame
      /\ \A q \in Created, s \in Sources : run'[q].results[s] \in {run[q].results[s], "none"}
  BY <1>0, <1>1, <1>2, DroppedFrame
<1>4. LocationsFrame /\ UnlocatedFrame
  BY <1>2 DEF LocationsFrame, UnlocatedFrame
<1>5. source[run[r].src].uri = "none"
  BY <1>0, <1>1 DEF Held, StoredOnce, Stores
<1>6. OriginalsFrame
  BY <1>2 DEF OriginalsFrame, Meant, Live, Readable, HasFile, HasObject
<1>7. GoneFrame
  <2>1. ASSUME NEW s \in Sources, Gone(s) PROVE Gone(s)'
    <3>1. CASE s = run[r].src
      BY <1>2, <1>5, <2>1, <3>1 DEF Gone
    <3>2. CASE s # run[r].src
      BY <1>2, <2>1, <3>2 DEF Gone, Objects
    <3>3. QED BY <3>1, <3>2
  <2>2. QED BY <1>2, <1>3, <2>1 DEF GoneFrame, RowsFrame
<1>8. PassFrame
  BY <1>1, <1>2, NotConverging DEF PassFrame
<1>9. Deleting' = Deleting
  BY <1>2 DEF Deleting, Known, Exists
<1>10. QED BY <1>1, <1>3, <1>4, <1>6, <1>7, <1>8, <1>9, Framed

LEMMA LoseObjectBytes ==
    ASSUME Inv, NEW s \in Sources, LoseObject(s)
    PROVE  BytesInv'
<1>0. RunsInv /\ RunsInv'
  BY LoseObjectKeeps DEF Inv
<1>1. /\ source' = source /\ local' = local \ {s} /\ s3' = s3 /\ ingress' = ingress
      /\ lost' = lost \cup {s} /\ stranded' = stranded /\ run' = run
      /\ crossed' = crossed /\ backend' = backend /\ phase' = phase /\ pass' = pass
  BY DEF LoseObject, process
<1>2. RowsFrame /\ Created' = Created
  BY <1>1 DEF RowsFrame, Created, Nonterminal
<1>3. LocationsFrame /\ UnlocatedFrame
  BY <1>1 DEF LocationsFrame, UnlocatedFrame
<1>4. OriginalsFrame
  BY <1>1 DEF OriginalsFrame, Meant, Live, Readable, HasFile, HasObject
<1>5. GoneFrame
  <2>1. \A t \in Sources : Gone(t) => Gone(t)'
    BY <1>1 DEF Gone, Objects
  <2>2. QED BY <1>1, <1>2, <2>1 DEF GoneFrame
<1>6. PassFrame
  BY <1>1 DEF PassFrame
<1>7. Deleting' = Deleting
  BY <1>1 DEF Deleting, Known, Exists
<1>8. QED BY <1>0, <1>2, <1>3, <1>4, <1>5, <1>6, <1>7, Framed

\* A process that ends takes its pass with it.
LEMMA CrashBytes ==
    ASSUME Inv, Crash
    PROVE  BytesInv'
<1>0. /\ RunsInv /\ Held /\ OriginalsKept /\ ClearedIsGone /\ DeletersKnown
      /\ TypeOK
  BY DEF Inv, BytesInv, RunsInv
<1>1. /\ RunsInv' /\ TypeOK' /\ RowsKept
      /\ \A q \in Runs :
            /\ run'[q].step = run[q].step /\ run'[q].status = run[q].status
            /\ run[q].status = "running" => run'[q].pc = "ready"
            /\ run[q].status # "running" => run'[q] = run[q]
            /\ \A s \in Sources : run'[q].results[s] \in {run[q].results[s], "none"}
  BY <1>0, CrashKeeps DEF RunsInv
<1>2. /\ source' = source /\ local' = local /\ s3' = s3 /\ ingress' = ingress /\ lost' = lost
      /\ stranded' = stranded
      /\ crossed' = crossed /\ backend' = backend /\ pass' = NoPass
  BY DEF Crash, stores
<1>3. Created' = Created
  BY <1>1 DEF Created
<1>4. \A q \in Runs : run'[q].pc = "ready"
  <2>1. \A q \in Runs : run[q].status # "running" => run[q].pc = "ready"
    BY PcReady
  <2>2. QED BY <1>1, <2>1
<1>5. RowsFrame
  BY <1>1, <1>3, <1>4 DEF RowsFrame, RowsKept, Nonterminal
<1>6. Moves
  BY <1>0, <1>1, <1>5, FrameMoves
<1>7. Held'
  BY <1>0, <1>1, <1>2, <1>5, HeldKept DEF LocationsFrame, UnlocatedFrame
<1>8. \A s \in Sources : /\ Meant(s)' = Meant(s) /\ Readable(s)' = Readable(s) /\ Gone(s)' = Gone(s)
  BY <1>2 DEF Meant, Live, Readable, HasFile, HasObject, Gone, Objects
<1>9. OriginalsKept'
  BY <1>0, <1>2, <1>8, OriginalsStep DEF OriginalsFrame
<1>10. ClearedIsGone'
  <2>1. GoneFrame
    BY <1>1, <1>2, <1>3, <1>8 DEF GoneFrame, Created
  <2>2. QED BY <1>0, <2>1, ClearedStep
<1>11. DeletersKnown'
  <2>1. Deleting' = Deleting
    BY <1>2 DEF Deleting, Known, Exists
  <2>2. QED BY <1>0, <1>1, <1>6, <2>1, DeletersStep
<1>12. PassSound'
  BY <1>2 DEF PassSound, NoPass
<1>13. QED BY <1>7, <1>9, <1>10, <1>11, <1>12 DEF BytesInv

\* The next one may store its objects elsewhere.  On S3 it finds those on the
\* file system again; on the file system it looks for none in S3.
LEMMA BootBytes ==
    ASSUME Inv, NEW b \in {"file", "s3"}, Boot(b)
    PROVE  BytesInv'
<1>0. /\ RunsInv /\ Held /\ OriginalsKept /\ ClearedIsGone /\ DeletersKnown /\ PassSound
      /\ TypeOK
  BY DEF Inv, BytesInv, RunsInv
<1>1. /\ RunsInv' /\ TypeOK' /\ RowsKept
      /\ \A q \in Runs :
            /\ run'[q].step = run[q].step /\ run'[q].pc = run[q].pc
            /\ run'[q].results = run[q].results
            /\ run'[q].status = IF run[q].status = "running" THEN "backoff" ELSE run[q].status
  BY <1>0, BootKeeps DEF RunsInv
<1>2. /\ source' = source /\ local' = local /\ s3' = s3 /\ ingress' = ingress /\ lost' = lost
      /\ crossed' = crossed /\ pass' = pass /\ phase = "down"
      /\ backend' \in {"file", "s3"} /\ phase' \in {"converging", "operational"}
      /\ stranded' = IF backend = "s3" /\ backend' = "file" THEN stranded \cup OnlyInS3 ELSE stranded
  BY DEF Boot, stores, histories
<1>3. Created' = Created
  BY <1>1 DEF Created
<1>4. \A q \in Runs : run[q].pc = "ready"
  BY <1>0, <1>2 DEF Held, Written, TypeOK, Run
<1>5. \A q \in Runs : /\ run'[q].ask = run[q].ask /\ run'[q].src = run[q].src
                      /\ run'[q].dedup = run[q].dedup /\ Stores(q)' = Stores(q)
                      /\ Kind(q)' = Kind(q) /\ (Nonterminal(q)' => Nonterminal(q))
  BY <1>1, <1>3 DEF RowsKept, Stores, Kind, Nonterminal, Waiting
<1>6. OneStores' /\ StoredOnce' /\ Written'
  <2>1. OneStores' /\ StoredOnce'
    BY <1>0, <1>1, <1>2, <1>5 DEF Held, OneStores, StoredOnce
  <2>2. Written'
    BY <1>1, <1>4 DEF Written
  <2>3. QED BY <2>1, <2>2
<1>7. BytesKept'
  <2> SUFFICES ASSUME NEW q \in Created', Kind(q)' = "remember", Nonterminal(q)'
               PROVE  /\ run'[q].step = 1 => q \in ingress' \/ run'[q].ask.url
                      /\ run'[q].step = 2 /\ ~run'[q].dedup =>
                            run'[q].src \in Objects(backend)' \cup lost' \cup (stranded' \cap s3') \/ Bytes(q)'
    BY DEF BytesKept
  <2>1. q \in Created /\ q \in Runs /\ Kind(q) = "remember" /\ Nonterminal(q)
    BY <1>3, <1>5 DEF Created
  <2>2. /\ run[q].step = 1 => q \in ingress \/ run[q].ask.url
        /\ run[q].step = 2 /\ ~run[q].dedup =>
              run[q].src \in Objects(backend) \cup lost \cup (stranded \cap s3) \/ Bytes(q)
    BY <1>0, <2>1 DEF Held, BytesKept
  <2>3. run'[q].step = 1 => q \in ingress' \/ run'[q].ask.url
    BY <1>1, <1>2, <1>5, <2>1, <2>2
  <2>4. ASSUME run'[q].step = 2, ~run'[q].dedup
        PROVE  run'[q].src \in Objects(backend)' \cup lost' \cup (stranded' \cap s3') \/ Bytes(q)'
    <3>1. run[q].src \in Objects(backend) \cup lost \cup (stranded \cap s3) \/ Bytes(q)
      BY <1>1, <1>5, <2>1, <2>2, <2>4
    <3>2. backend \in {"file", "s3"} /\ run'[q].src = run[q].src
      BY <1>0, <1>5, <2>1 DEF TypeOK
    <3>3. CASE backend' = backend
      BY <1>2, <3>1, <3>2, <3>3 DEF Objects, Bytes
    <3>4. CASE backend' = "s3" /\ backend = "file"
      BY <1>2, <3>1, <3>2, <3>4 DEF Objects, Bytes
    <3>5. CASE backend' = "file" /\ backend = "s3"
      <4>1. CASE run[q].src \in s3 /\ q \notin ingress /\ run[q].src \notin local
        <5>1. Step(q) = "store"
          BY <1>0, <1>1, <2>1, <2>4 DEF Step, Plan, Kind
        <5>2. Uncommitted(q)
          BY <1>5, <2>1, <2>4, <5>1 DEF Uncommitted
        <5>3. run[q].src \in OnlyInS3
          BY <2>1, <4>1, <5>2 DEF OnlyInS3
        <5>4. QED BY <1>2, <3>2, <3>5, <4>1, <5>3
      <4>2. CASE run[q].src \in lost \/ q \in ingress \/ run[q].src \in local
        BY <1>2, <3>2, <3>5, <4>2 DEF Objects, Bytes
      <4>3. QED BY <3>1, <3>5, <4>1, <4>2 DEF Objects, Bytes
    <3>6. QED BY <1>2, <3>2, <3>3, <3>4, <3>5
  <2>5. QED BY <2>3, <2>4
<1>8. \A s \in Sources : /\ Meant(s)' = Meant(s) /\ Readable(s)' = Readable(s) /\ Gone(s)' = Gone(s)
  BY <1>2 DEF Meant, Live, Readable, HasFile, HasObject, Gone, Objects
<1>9. OriginalsKept'
  BY <1>0, <1>2, <1>8, OriginalsStep DEF OriginalsFrame
<1>10. ClearedIsGone'
  <2>1. GoneFrame
    BY <1>1, <1>2, <1>3, <1>8 DEF GoneFrame, Created
  <2>2. QED BY <1>0, <2>1, ClearedStep
<1>11. Moves
  <2>1. \A q \in Runs : run[q].step \in 1..6
    BY <1>0 DEF TypeOK, Run
  <2>2. QED BY <1>1, <1>3, <1>5, <2>1 DEF Moves, Created
<1>12. DeletersKnown'
  <2>1. Deleting' = Deleting
    BY <1>2 DEF Deleting, Known, Exists
  <2>2. QED BY <1>0, <1>1, <1>11, <2>1, DeletersStep
<1>13. PassSound'
  <2>1. pass.at = "idle" /\ pass.todo = {}
    BY <1>0, <1>2 DEF PassSound
  <2>2. QED BY <1>0, <1>2, <2>1 DEF PassSound
<1>14. QED BY <1>6, <1>7, <1>9, <1>10, <1>12, <1>13 DEF BytesInv, Held

-----------------------------------------------------------------------------
(* The convergence *)

LEMMA NothingDone ==
    ASSUME Inv, phase = "converging", NEW r \in Runs
    PROVE  run[r].pc = "ready"
<1> SUFFICES ASSUME run[r].pc # "ready" PROVE FALSE
  OBVIOUS
<1>1. run[r].pc = "done"
  BY DEF Inv, RunsInv, TypeOK, Run
<1>2. run[r].status = "running" /\ Stores(r)
  BY <1>1 DEF Inv, BytesInv, Held, Written
<1>3. r \in Created /\ Kind(r) = "remember"
  BY <1>2 DEF Stores
<1>4. QED BY <1>2, <1>3, NotConverging

\* All but the pass itself, of a step that keeps what there is to read.
LEMMA PassBytes ==
    ASSUME Inv, PassMoves, phase = "converging",
           \A s \in Sources :
              /\ source[s].uri = "none" <=> source'[s].uri = "none"
              /\ source[s].uri = "none" => /\ s \in local => s \in local'
                                           /\ s \in s3 => s \in s3'
              /\ Meant(s) /\ source[s].uri # "none" /\ Readable(s) => Readable(s)'
              /\ Gone(s) => Gone(s)'
    PROVE  RunsInv' /\ Moves /\ (PassSound' => BytesInv')
<1>0. /\ RunsInv /\ RunsInv' /\ Held /\ OriginalsKept /\ ClearedIsGone /\ DeletersKnown
      /\ TypeOK /\ TypeOK'
  BY PassMovesKeeps DEF Inv, BytesInv, RunsInv
<1>1. /\ run' = run /\ ingress' = ingress /\ backend' = backend /\ lost' = lost
      /\ stranded' = stranded
      /\ crossed' = crossed
      /\ \A s \in Sources : source'[s].status = source[s].status /\ source'[s].doc = source[s].doc
  BY DEF PassMoves, others
<1>2. Created' = Created
  BY <1>1 DEF Created
<1>3. RowsFrame
  BY <1>1, <1>2, NothingDone DEF RowsFrame, Nonterminal
<1>4. Moves
  BY <1>0, <1>3, FrameMoves
<1>5. LocationsFrame /\ UnlocatedFrame
  BY <1>1 DEF LocationsFrame, UnlocatedFrame
<1>6. Held'
  BY <1>0, <1>3, <1>5, HeldKept
<1>7. OriginalsKept'
  <2>1. \A s \in Sources : Meant(s)' = Meant(s)
    BY <1>1 DEF Meant, Live
  <2>2. QED BY <1>0, <1>1, <2>1, OriginalsStep DEF OriginalsFrame
<1>8. ClearedIsGone'
  BY <1>0, <1>1, <1>2, ClearedStep DEF GoneFrame
<1>9. DeletersKnown'
  <2>1. Deleting' = Deleting
    BY <1>1 DEF Deleting, Known, Exists
  <2>2. QED BY <1>0, <1>4, <2>1, DeletersStep
<1>10. QED BY <1>0, <1>4, <1>6, <1>7, <1>8, <1>9 DEF BytesInv

LEMMA StartPassBytes ==
    ASSUME Inv, StartPass
    PROVE  BytesInv'
<1>0. RunsInv /\ TypeOK /\ DeletersKnown
  BY DEF Inv, BytesInv, RunsInv
<1>1. /\ PassMoves /\ pass'.at = "scan" /\ pass'.todo = Known /\ pass'.snap = source
      /\ pass'.failed = {} /\ pass'.d43 = {} /\ phase = "converging"
      /\ source' = source /\ local' = local /\ s3' = s3 /\ phase' = phase
  BY <1>0, StartPassMoves DEF StartPass
<1>2. RunsInv' /\ Moves /\ (PassSound' => BytesInv')
  BY <1>1, PassBytes DEF Readable, HasFile, HasObject, Gone, Objects
<1>3. ASSUME NEW s \in pass'.todo PROVE InPass(s)'
  <2>1. s \in Sources /\ s \in Known /\ Snap(s)' = source[s]
    BY <1>1 DEF Known, Snap
  <2>2. source[s].status = "deleting" => Lineages(s)' # {}
    <3>1. source[s].status = "deleting" => Lineages(s) # {}
      BY <1>0, <2>1 DEF DeletersKnown, Deleting
    <3>2. QED BY <1>0, <1>2, <2>1, <3>1, LineagesGrow
  <2>3. QED BY <1>1, <2>1, <2>2 DEF InPass
<1>4. PassSound'
  BY <1>1, <1>3 DEF PassSound
<1>5. QED BY <1>2, <1>4

LEMMA PassKept ==
    ASSUME Inv, RunsInv', Moves, pass'.snap = pass.snap, NEW s \in pass.todo,
           source'[s].status = source[s].status,
           LiveSnap(s) => /\ pass.at = "moved" => s # pass.cur
                          /\ pass'.at = "moved" => s # pass'.cur
                          /\ source'[s].uri = source[s].uri
    PROVE  InPass(s)'
<1>1. s \in Sources /\ InPass(s) /\ RunsInv
  BY DEF Inv, BytesInv, PassSound, RunsInv, TypeOK, Pass
<1>2. Snap(s)' = Snap(s) /\ LiveSnap(s)' = LiveSnap(s)
  BY DEF Snap, LiveSnap
<1>3. Lineages(s) # {} => Lineages(s)' # {}
  BY <1>1, LineagesGrow
<1>4. QED BY <1>1, <1>2, <1>3 DEF InPass

LEMMA JudgeBytes ==
    ASSUME Inv, NEW s \in Sources, Judge(s)
    PROVE  BytesInv'
<1>0. RunsInv /\ TypeOK /\ PassSound /\ pass.at = "scan"
  BY DEF Inv, BytesInv, RunsInv, Judge, Converging
<1>1. /\ PassMoves /\ source' = source /\ local' = local /\ s3' = s3 /\ phase' = phase
      /\ phase = "converging" /\ pass'.at = "scan" /\ pass'.todo \subseteq pass.todo
      /\ pass'.snap = pass.snap /\ pass'.d43 = pass.d43 /\ s \in pass.todo
      /\ \/ pass'.failed = pass.failed
         \/ Snap(s).status = "deleting" /\ Lineages(s) = {}
  BY <1>0, JudgeMoves
<1>2. RunsInv' /\ Moves /\ (PassSound' => BytesInv')
  BY <1>1, PassBytes DEF Readable, HasFile, HasObject, Gone, Objects
<1>3. pass'.failed = pass.failed
  <2>1. InPass(s)
    BY <1>0, <1>1 DEF PassSound
  <2>2. QED BY <1>1, <2>1 DEF InPass
<1>4. \A t \in pass'.todo : InPass(t)'
  BY <1>0, <1>1, <1>2, PassKept
<1>5. PassSound'
  <2>1. lost' = lost /\ stranded' = stranded /\ crossed' = crossed
    BY <1>1 DEF PassMoves, others
  <2>2. QED BY <1>0, <1>1, <1>3, <1>4, <2>1 DEF PassSound
<1>6. QED BY <1>2, <1>5

LEMMA MigrateBytes ==
    ASSUME Inv, NEW s \in Sources, Migrate(s) \/ MigrateFails(s)
    PROVE  BytesInv'
<1>0. RunsInv /\ TypeOK /\ PassSound /\ OriginalsKept
  BY DEF Inv, BytesInv, RunsInv
<1>1. /\ PassMoves /\ source' = source /\ local' = local /\ s3' \in {s3, s3 \cup {s}}
      /\ phase' = phase /\ phase = "converging" /\ s \in pass.todo /\ pass.at = "scan"
      /\ LiveSnap(s) /\ Snap(s).uri = "file"
      /\ pass'.todo \subseteq pass.todo /\ pass'.snap = pass.snap /\ pass'.d43 = pass.d43
      /\ \/ pass'.at = "scan" /\ pass'.failed = pass.failed
         \/ pass'.at = "scan" /\ s \notin local /\ pass'.failed = pass.failed \cup {s}
         \/ /\ pass'.at = "copied" /\ pass'.cur = s /\ s \in s3' /\ s \in pass'.todo
            /\ pass'.failed = pass.failed
  BY <1>0, MigrateMoves
<1>2. InPass(s)
  BY <1>0, <1>1 DEF PassSound
<1>3. Live(s) /\ source[s].uri = "file"
  BY <1>1, <1>2 DEF InPass, LiveSnap, Live, Snap
<1>4. RunsInv' /\ Moves /\ (PassSound' => BytesInv')
  <2>1. \A t \in Sources : Readable(t) => Readable(t)'
    BY <1>1 DEF Readable, HasFile, HasObject
  <2>2. \A t \in Sources : Gone(t) => Gone(t)'
    <3> SUFFICES ASSUME NEW t \in Sources, Gone(t) PROVE Gone(t)'
      OBVIOUS
    <3>1. t # s
      BY <1>3 DEF Gone, Live
    <3>2. QED BY <1>1, <3>1 DEF Gone, Objects
  <2>3. \A t \in Sources : (t \in local => t \in local') /\ (t \in s3 => t \in s3')
    BY <1>1
  <2>4. QED BY <1>1, <2>1, <2>2, <2>3, PassBytes
<1>5. lost' = lost /\ stranded' = stranded /\ crossed' = crossed
  BY <1>1 DEF PassMoves, others
<1>6. pass'.failed \subseteq lost' \cup crossed'
  <2>1. s \notin local => s \in lost \cup crossed
    BY <1>0, <1>3 DEF OriginalsKept, Meant, Readable, HasFile
  <2>2. QED BY <1>0, <1>1, <1>5, <2>1 DEF PassSound
<1>7. \A t \in pass'.todo : InPass(t)'
  BY <1>1, <1>4, PassKept
<1>8. LiveSnap(s)' /\ Snap(s)' = Snap(s)
  BY <1>1 DEF LiveSnap, Snap
<1>9. PassSound'
  <2>1. pass'.at \in {"copied", "moved"} =>
           pass'.cur = s /\ s \in s3' /\ s \in pass'.todo
    BY <1>1
  <2>2. pass'.at # "idle"
    BY <1>1
  <2>3. pass'.d43 = {} /\ phase' = "converging"
    BY <1>0, <1>1 DEF PassSound
  <2>4. LiveSnap(s)' /\ Snap(s)'.uri = "file"
    BY <1>1, <1>8
  <2>5. pass'.at \in {"copied", "moved"} =>
           LiveSnap(pass.cur)' /\ Snap(pass.cur)'.uri = "file"
    BY <1>1, <2>1, <2>4 DEF LiveSnap, Snap
  <2>6. QED BY <1>6, <1>7, <2>1, <2>2, <2>3, <2>5 DEF PassSound
<1>10. QED BY <1>4, <1>9

LEMMA RepointBytes ==
    ASSUME Inv, Repoint
    PROVE  BytesInv'
<1>0. RunsInv /\ TypeOK /\ PassSound
  BY DEF Inv, BytesInv, RunsInv
<1>1. /\ PassMoves /\ local' = local /\ s3' = s3 /\ phase' = phase /\ phase = "converging"
      /\ pass.at = "copied" /\ pass.cur \in Sources
      /\ pass'.todo \subseteq pass.todo /\ pass'.snap = pass.snap
      /\ \/ source[pass.cur].uri = "s3"
         \/ \/ source[pass.cur].status # Snap(pass.cur).status
            \/ source[pass.cur].uri # Snap(pass.cur).uri
         \/ /\ pass'.at = "moved" /\ pass'.cur = pass.cur /\ pass'.todo = pass.todo
            /\ pass'.failed = pass.failed /\ pass'.d43 = pass.d43
            /\ \A t \in Sources : IF t = pass.cur THEN source'[t].uri = "s3"
                                  ELSE source'[t] = source[t]
  BY <1>0, RepointMoves
<1> DEFINE s == pass.cur
<1>2. /\ s \in pass.todo /\ LiveSnap(s) /\ Snap(s).uri = "file" /\ s \in s3 /\ InPass(s)
      /\ s \in Sources
  BY <1>0, <1>1 DEF PassSound
<1>3. source[s].status = Snap(s).status /\ source[s].uri = "file" /\ Live(s)
  BY <1>1, <1>2 DEF InPass, LiveSnap, Live, Snap
<1>4. /\ pass'.at = "moved" /\ pass'.cur = pass.cur /\ pass'.todo = pass.todo
      /\ pass'.failed = pass.failed /\ pass'.d43 = pass.d43
      /\ \A t \in Sources : IF t = pass.cur THEN source'[t].uri = "s3"
                            ELSE source'[t] = source[t]
  <2>1. /\ source[pass.cur].uri = "file" /\ source[pass.cur].status = Snap(pass.cur).status
        /\ Snap(pass.cur).uri = "file"
    BY <1>2, <1>3
  <2>2. QED BY <1>1, <2>1
<1>5. RunsInv' /\ Moves /\ (PassSound' => BytesInv')
  <2>1. ASSUME NEW t \in Sources
        PROVE  /\ source[t].uri = "none" <=> source'[t].uri = "none"
               /\ Readable(t) => Readable(t)'
               /\ Gone(t) => Gone(t)'
    <3>1. CASE t = s
      <4>1. source'[t].uri = "s3" /\ source[t].uri = "file" /\ t \in s3' /\ ~Gone(t)
        BY <1>1, <1>2, <1>3, <1>4, <3>1 DEF Gone, Live
      <4>2. QED BY <4>1 DEF Readable, HasObject
    <3>2. CASE t # s
      <4>1. source'[t] = source[t]
        BY <1>4, <3>2
      <4>2. QED BY <1>1, <4>1 DEF Readable, HasFile, HasObject, Gone, Objects
    <3>3. QED BY <3>1, <3>2
  <2>2. QED BY <1>1, <2>1, PassBytes
<1>6. InPass(s)'
  <2>1. Snap(s)' = Snap(s) /\ LiveSnap(s)' = LiveSnap(s)
    BY <1>1, <1>4 DEF Snap, LiveSnap
  <2>2. source'[s].status = source[s].status /\ source'[s].uri = "s3"
    BY <1>1, <1>2, <1>4 DEF PassMoves
  <2>3. Snap(s).status # "deleting"
    BY <1>2 DEF LiveSnap, Snap
  <2>4. pass'.at = "moved" /\ pass'.cur = pass.cur
    BY <1>4
  <2>5. QED BY <1>2, <1>3, <2>1, <2>2, <2>3, <2>4 DEF InPass
<1>7. ASSUME NEW t \in pass'.todo, t # s PROVE InPass(t)'
  <2>1. t \in pass.todo /\ t \in Sources /\ source'[t] = source[t]
    BY <1>0, <1>1, <1>4, <1>7 DEF TypeOK, Pass
  <2>2. pass.at # "moved" /\ t # pass'.cur
    BY <1>1, <1>4, <1>7
  <2>3. QED BY <1>1, <1>5, <2>1, <2>2, PassKept
<1>8. PassSound'
  <2>1. lost' = lost /\ stranded' = stranded /\ crossed' = crossed
    BY <1>1 DEF PassMoves, others
  <2>2. \A t \in pass'.todo : InPass(t)'
    <3>1. \A t \in pass'.todo : t # s => InPass(t)'
      BY <1>7
    <3>2. QED BY <1>6, <3>1, <1>4
  <2>3. /\ pass'.cur \in pass'.todo /\ LiveSnap(pass.cur)' /\ Snap(pass.cur)'.uri = "file"
        /\ pass'.cur \in s3'
    BY <1>1, <1>2, <1>4 DEF LiveSnap, Snap
  <2>4. pass'.failed \subseteq lost' \cup crossed' /\ pass'.d43 = {} /\ phase' = "converging"
    BY <1>0, <1>1, <1>4, <2>1 DEF PassSound
  <2>5. pass'.at # "idle"
    BY <1>4
  <2>6. QED BY <2>2, <2>3, <2>4, <2>5 DEF PassSound
<1>9. QED BY <1>5, <1>8

LEMMA CleanUpBytes ==
    ASSUME Inv, NEW s \in Sources, CleanUp(s) \/ CleanUpDeferred(s)
    PROVE  BytesInv'
<1>0. RunsInv /\ TypeOK /\ PassSound
  BY DEF Inv, BytesInv, RunsInv
<1>1. /\ PassMoves /\ source' = source /\ local' \in {local, local \ {s}} /\ s3' = s3
      /\ local' = local \/ s \in s3
      /\ phase' = phase /\ phase = "converging" /\ pass'.at = "scan"
      /\ InCleanUp(s) /\ pass'.todo \subseteq pass.todo \ {s} /\ pass'.snap = pass.snap
      /\ pass'.failed = pass.failed /\ pass'.d43 = pass.d43
  BY <1>0, CleanUpMoves
<1>2. source[s].uri = "s3"
  <2>1. CASE pass.at = "moved" /\ s = pass.cur
    <3>1. InPass(s) /\ LiveSnap(s)
      BY <1>0, <2>1 DEF PassSound
    <3>2. QED BY <2>1, <3>1 DEF InPass
  <2>2. CASE pass.at = "scan" /\ s \in pass.todo /\ LiveSnap(s) /\ Snap(s).uri = "s3"
    <3>1. InPass(s)
      BY <1>0, <2>2 DEF PassSound
    <3>2. QED BY <2>2, <3>1 DEF InPass
  <2>3. QED BY <1>1, <2>1, <2>2 DEF InCleanUp, Converging
<1>3. RunsInv' /\ Moves /\ (PassSound' => BytesInv')
  <2>1. \A t \in Sources : Readable(t) => Readable(t)'
    BY <1>1, <1>2 DEF Readable, HasFile, HasObject
  <2>2. \A t \in Sources : Gone(t) => Gone(t)'
    BY <1>1 DEF Gone, Objects
  <2>3. \A t \in Sources : source[t].uri = "none" =>
           (t \in local => t \in local') /\ (t \in s3 => t \in s3')
    BY <1>1, <1>2
  <2>4. QED BY <1>1, <2>1, <2>2, <2>3, PassBytes
<1>4. ASSUME NEW t \in pass'.todo PROVE InPass(t)'
  <2>1. t \in pass.todo /\ t # s
    BY <1>1
  <2>2. pass.at = "moved" => t # pass.cur
    BY <1>1, <2>1 DEF InCleanUp, Converging
  <2>3. QED BY <1>1, <1>3, <2>1, <2>2, PassKept
<1>5. PassSound'
  <2>1. lost' = lost /\ stranded' = stranded /\ crossed' = crossed
    BY <1>1 DEF PassMoves, others
  <2>2. QED BY <1>0, <1>1, <1>4, <2>1 DEF PassSound
<1>6. QED BY <1>3, <1>5

LEMMA EndPassBytes ==
    ASSUME Inv, EndPass
    PROVE  BytesInv'
<1>0. TypeOK /\ phase = "converging"
  BY DEF Inv, RunsInv, EndPass, Converging
<1>1. PassMoves /\ pass' = NoPass /\ source' = source /\ local' = local /\ s3' = s3
  BY <1>0, EndPassMoves
<1>2. RunsInv' /\ Moves /\ (PassSound' => BytesInv')
  BY <1>0, <1>1, PassBytes DEF Readable, HasFile, HasObject, Gone, Objects
<1>3. PassSound'
  BY <1>1 DEF PassSound, NoPass
<1>4. QED BY <1>2, <1>3

-----------------------------------------------------------------------------
(* Submission and manual retry *)

LEMMA NewRunBytes ==
    ASSUME Inv, RunsInv', NEW a \in Ask, NEW o \in Runs \cup {None}, NEW r \in Runs, r = NextRun,
           run' = [run EXCEPT ![r] = NewRun("queued", a, o)],
           ingress \subseteq ingress', a.kind = "remember" => r \in ingress' \/ a.url,
           UNCHANGED <<dataset, source, local, s3, process, histories>>
    PROVE  BytesInv'
<1>0. /\ RunsInv /\ Held /\ OriginalsKept /\ ClearedIsGone /\ DeletersKnown /\ PassSound
      /\ TypeOK
  BY DEF Inv, BytesInv, RunsInv
<1>1. /\ source' = source /\ local' = local /\ s3' = s3 /\ lost' = lost
      /\ stranded' = stranded /\ crossed' = crossed
      /\ backend' = backend /\ phase' = phase /\ pass' = pass
  BY DEF process, histories
<1>2. /\ r \notin Created /\ Created' = Created \cup {r}
      /\ \A q \in Runs : q # r => run'[q] = run[q]
      /\ run'[r].ask = a /\ run'[r].step = 1 /\ run'[r].pc = "ready"
      /\ \A s \in Sources : run'[r].results[s] = "none"
  <2>1. NextRun \in Runs /\ run' = [run EXCEPT ![NextRun] = NewRun("queued", a, o)]
    OBVIOUS
  <2>2. /\ NextRun \notin Created /\ Created' = Created \cup {NextRun}
        /\ \A q \in Runs \ {NextRun} : run'[q] = run[q]
        /\ run'[NextRun].ask = a
        /\ run'[NextRun].step = 1 /\ run'[NextRun].pc = "ready"
        /\ \A s \in Sources : run'[NextRun].results[s] = "none"
    BY <1>0, <2>1, NewRunFields
  <2>3. QED BY <2>2
<1>3. /\ \A q \in Runs : q # r => Stores(q)' = Stores(q)
      /\ ~Stores(r)'
  BY <1>2 DEF Stores, Kind
<1>4. OneStores' /\ StoredOnce'
  BY <1>0, <1>1, <1>2, <1>3 DEF Held, OneStores, StoredOnce
<1>5. Written'
  BY <1>0, <1>1, <1>2, <1>3 DEF Held, Written, Objects
<1>6. BytesKept'
  <2> SUFFICES ASSUME NEW q \in Created', Kind(q)' = "remember", Nonterminal(q)'
               PROVE  /\ run'[q].step = 1 => q \in ingress' \/ run'[q].ask.url
                      /\ run'[q].step = 2 /\ ~run'[q].dedup =>
                            run'[q].src \in Objects(backend)' \cup lost' \cup (stranded' \cap s3') \/ Bytes(q)'
    BY DEF BytesKept
  <2>1. CASE q = r
    BY <1>2, <2>1 DEF Kind
  <2>2. CASE q # r
    <3>1. q \in Created /\ run'[q] = run[q] /\ Kind(q) = "remember" /\ Nonterminal(q)
      BY <1>2, <2>2 DEF Created, Kind, Nonterminal
    <3>2. QED BY <1>0, <1>1, <3>1 DEF Held, BytesKept, Objects, Bytes
  <2>3. QED BY <2>1, <2>2
<1>7. \A s \in Sources : /\ Meant(s)' = Meant(s) /\ Readable(s)' = Readable(s) /\ Gone(s)' = Gone(s)
  BY <1>1 DEF Meant, Live, Readable, HasFile, HasObject, Gone, Objects
<1>8. OriginalsKept'
  BY <1>0, <1>1, <1>7, OriginalsStep DEF OriginalsFrame
<1>9. ClearedIsGone'
  BY <1>0, <1>1, <1>2, <1>7 DEF ClearedIsGone, Created
<1>10. Moves
  <2>1. \A q \in Runs : run[q].step \in 1..6
    BY <1>0 DEF TypeOK, Run
  <2>2. \A q \in Created : q \in Runs /\ q # r
    BY <1>2 DEF Created
  <2>3. QED BY <1>2, <2>1, <2>2 DEF Moves
<1>11. DeletersKnown'
  <2>1. Deleting' = Deleting
    BY <1>1 DEF Deleting, Known, Exists
  <2>2. QED BY <1>0, <1>10, <2>1, DeletersStep
<1>12. PassSound'
  BY <1>0, <1>1, <1>10, PassStep DEF PassFrame
<1>13. QED BY <1>4, <1>5, <1>6, <1>8, <1>9, <1>11, <1>12 DEF BytesInv, Held

LEMMA SubmitBytes ==
    ASSUME Inv, NEW a \in Asks, Submit(a)
    PROVE  BytesInv'
<1>1. /\ a \in Ask /\ NextRun \in Runs /\ run' = [run EXCEPT ![NextRun] = NewRun("queued", a, None)]
      /\ ingress' = IF a.kind = "remember" /\ ~a.url THEN ingress \cup {NextRun} ELSE ingress
      /\ UNCHANGED <<dataset, source, local, s3, process, histories>>
  BY AsksAssumption DEF Submit, CanCreate
<1>2. RunsInv'
  BY SubmitKeeps DEF Inv
<1>3. PICK r \in Runs : r = NextRun
  BY <1>1
<1>4. /\ None \in Runs \cup {None} /\ run' = [run EXCEPT ![r] = NewRun("queued", a, None)]
      /\ ingress \subseteq ingress' /\ (a.kind = "remember" => r \in ingress' \/ a.url)
  BY <1>1, <1>3
<1>5. QED BY <1>1, <1>2, <1>3, <1>4, NewRunBytes

LEMMA RetryBytes ==
    ASSUME Inv, NEW o \in Runs, Retry(o)
    PROVE  BytesInv'
<1>0. TypeOK /\ RunsInv'
  BY RetryKeeps DEF Inv, RunsInv
<1> DEFINE staged == o \in ingress \/ (run[o].src # None /\ Readable(run[o].src))
<1>1. /\ NextRun \in Runs /\ run' = [run EXCEPT ![NextRun] = NewRun("queued", run[o].ask, o)]
      /\ ingress' = IF Kind(o) = "remember" /\ staged THEN ingress \cup {NextRun} ELSE ingress
      /\ Kind(o) = "remember" => staged \/ run[o].ask.url
      /\ UNCHANGED <<dataset, source, local, s3, process, histories>>
  BY DEF Retry, CanCreate
<1> HIDE DEF staged
<1>2. PICK r \in Runs : r = NextRun
  BY <1>1
<1>3. PICK a \in Ask : a = run[o].ask
  BY <1>0 DEF TypeOK, Run
<1>4. /\ run' = [run EXCEPT ![r] = NewRun("queued", a, o)] /\ o \in Runs \cup {None}
      /\ ingress \subseteq ingress' /\ (a.kind = "remember" => r \in ingress' \/ a.url)
  BY <1>1, <1>2, <1>3 DEF Kind
<1>5. QED BY <1>0, <1>1, <1>2, <1>4, NewRunBytes

-----------------------------------------------------------------------------
(* The invariant *)

LEMMA InitInv ==
    ASSUME Init
    PROVE  Inv
<1>1. NewRun("absent", NoAsk, None) \in Run
  BY DEF NewRun, NoAsk, Run, Ask, ForgetKinds, Results
<1>2. NoPass \in Pass /\ NoPass.at = "idle" /\ NoPass.todo = {} /\ NoPass.failed = {} /\ NoPass.d43 = {}
  BY DEF NoPass, Pass, NoSource, Source
<1>3. /\ \A r \in Runs : /\ run[r].status = "absent" /\ run[r].pc = "ready"
      /\ \A s \in Sources : source[s].status = "absent" /\ source[s].uri = "none"
      /\ phase = "operational" /\ pass = NoPass
  BY DEF Init, NewRun, NoSource
<1>4. TypeOK
  <2>1. source \in [Sources -> Source]
    BY DEF Init, NoSource, Source
  <2>2. run \in [Runs -> Run]
    BY <1>1 DEF Init
  <2>3. QED BY <1>2, <2>1, <2>2 DEF Init, TypeOK
<1>5. Created = {} /\ Known = {} /\ Deleting = {}
  BY <1>3 DEF Created, Known, Exists, Deleting
<1>6. Numbered
  <2>1. 0 \in 0..MaxSources /\ 0 \in 0..MaxRuns /\ {} = 1..0
    BY BoundsAssumption
  <2>2. QED BY <1>5, <2>1 DEF Numbered
<1>7. RunsInv
  BY <1>3, <1>4, <1>5, <1>6
     DEF RunsInv, OneAtATime, ConvergingRuns, DeleteKeepsDataset, DeleteOwnsDataset, OneLineage, Open
<1>8. Held
  BY <1>3, <1>5 DEF Held, OneStores, StoredOnce, Written, BytesKept, Stores
<1>9. OriginalsKept /\ ClearedIsGone /\ DeletersKnown
  BY <1>3, <1>5 DEF OriginalsKept, ClearedIsGone, DeletersKnown
<1>10. PassSound
  BY <1>2, <1>3 DEF PassSound
<1>11. QED BY <1>7, <1>8, <1>9, <1>10 DEF Inv, BytesInv

LEMMA StutterInv ==
    ASSUME Inv, UNCHANGED vars
    PROVE  Inv'
<1>1. /\ phase' = phase /\ backend' = backend /\ dataset' = dataset /\ source' = source
      /\ local' = local /\ s3' = s3 /\ ingress' = ingress /\ run' = run /\ owned' = owned
      /\ pass' = pass /\ lost' = lost /\ stranded' = stranded /\ crossed' = crossed
  BY DEF vars
<1>2. RunsInv'
  <2>1. TypeOK'
    BY <1>1 DEF Inv, RunsInv, TypeOK
  <2>2. QED BY <1>1, <2>1, QuietKeeps DEF Inv
<1>3. RowsFrame
  <2>1. Created' = Created
    BY <1>1 DEF Created
  <2>2. QED BY <1>1, <2>1 DEF RowsFrame, Nonterminal
<1>4. BytesInv'
  BY <1>1, <1>2, <1>3, RowOnly DEF stores, process
<1>5. QED BY <1>2, <1>4 DEF Inv

LEMMA ExecuteInv ==
    ASSUME Inv, NEW r \in Runs, Execute(r)
    PROVE  Inv'
<1> RunsInv
  BY DEF Inv
<1>1. CASE Claim(r) \/ BackoffElapses(r)
  BY <1>1, ClaimKeeps, BackoffElapsesKeeps, ClaimBytes DEF Inv
<1>2. CASE FetchUrl(r) \/ IngestFails(r) \/ Ingest(r)
  BY <1>2, FetchUrlKeeps, IngestFailsKeeps, IngestKeeps, FetchUrlBytes, IngestFailsBytes,
     IngestBytes DEF Inv
<1>3. CASE StoreObject(r) \/ DropIngress(r)
  BY <1>3, StoreObjectKeeps, DropIngressKeeps, StoreObjectBytes, DropIngressBytes DEF Inv
<1>4. CASE FinalizeStorage(r) \/ Cognify(r)
  BY <1>4, FinalizeStorageKeeps, CognifyKeeps, FinalizeStorageBytes, CognifyBytes DEF Inv
<1>5. CASE MutateSource(r) \/ MutateDataset(r)
  BY <1>5, MutateKeeps, MutateBytes DEF Inv
<1>6. CASE StorageDeleted(r) \/ FinalizeTarget(r)
  BY <1>6, StorageDeletedKeeps, FinalizeTargetKeeps, StorageDeletedBytes, FinalizeTargetBytes DEF Inv
<1>7. ASSUME NEW s \in Sources, DeleteObject(r, s) PROVE Inv'
  BY <1>7, DeleteObjectKeeps, DeleteObjectBytes DEF Inv
<1>8. CASE BeginDelete(r) \/ Deactivate(r)
  BY <1>8, BeginDeleteKeeps, DeactivateKeeps, BeginDeleteBytes, DeactivateBytes DEF Inv
<1>9. CASE ConvergeProjection(r) \/ Tombstone(r)
  BY <1>9, ConvergeProjectionKeeps, TombstoneKeeps, ConvergeProjectionBytes, TombstoneBytes DEF Inv
<1>10. QED BY <1>1, <1>2, <1>3, <1>4, <1>5, <1>6, <1>7, <1>8, <1>9
          DEF Execute, Remember, Forget, DatasetDelete

LEMMA ConvergeInv ==
    ASSUME Inv, Converge \/ \E s \in Sources : MigrateFails(s) \/ CleanUpDeferred(s)
    PROVE  Inv'
<1>0. RunsInv /\ TypeOK
  BY DEF Inv, RunsInv
<1>1. PassMoves => RunsInv'
  BY <1>0, PassMovesKeeps
<1>2. CASE StartPass \/ Repoint \/ EndPass
  <2>1. PassMoves
    BY <1>0, <1>2, StartPassMoves, RepointMoves, EndPassMoves
  <2>2. BytesInv'
    BY <1>2, StartPassBytes, RepointBytes, EndPassBytes
  <2>3. QED BY <1>1, <2>1, <2>2 DEF Inv
<1>3. ASSUME NEW s \in Sources, Judge(s) PROVE Inv'
  BY <1>0, <1>1, <1>3, JudgeMoves, JudgeBytes DEF Inv
<1>4. ASSUME NEW s \in Sources, Migrate(s) \/ MigrateFails(s) PROVE Inv'
  BY <1>0, <1>1, <1>4, MigrateMoves, MigrateBytes DEF Inv
<1>5. ASSUME NEW s \in Sources, CleanUp(s) \/ CleanUpDeferred(s) PROVE Inv'
  BY <1>0, <1>1, <1>5, CleanUpMoves, CleanUpBytes DEF Inv
<1>6. QED BY <1>2, <1>3, <1>4, <1>5 DEF Converge

LEMMA NextInv ==
    ASSUME Inv, Next
    PROVE  Inv'
<1> RunsInv
  BY DEF Inv
<1>1. ASSUME NEW a \in Asks, Submit(a) PROVE Inv'
  BY <1>1, SubmitKeeps, SubmitBytes DEF Inv
<1>2. ASSUME NEW r \in Runs, Retry(r) PROVE Inv'
  BY <1>2, RetryKeeps, RetryBytes DEF Inv
<1>3. ASSUME NEW r \in Runs, Execute(r) PROVE Inv'
  BY <1>3, ExecuteInv
<1>4. ASSUME NEW b \in {"file", "s3"}, Boot(b) PROVE Inv'
  BY <1>4, BootKeeps, BootBytes DEF Inv
<1>5. CASE Converge \/ \E s \in Sources : MigrateFails(s) \/ CleanUpDeferred(s)
  BY <1>5, ConvergeInv
<1>6. CASE Crash
  BY <1>6, CrashKeeps, CrashBytes DEF Inv
<1>7. ASSUME NEW r \in Runs, RunFails(r) PROVE Inv'
  BY <1>7, RunFailsKeeps, RunFailsBytes DEF Inv
<1>8. ASSUME NEW r \in Runs, PutUnconfirmed(r) PROVE Inv'
  BY <1>8, PutUnconfirmedKeeps, PutUnconfirmedBytes DEF Inv
<1>9. ASSUME NEW r \in Runs, RowsDie(r) PROVE Inv'
  BY <1>9, RowsDieKeeps, RowsDieBytes DEF Inv
<1>10. ASSUME NEW s \in Sources, LoseObject(s) PROVE Inv'
  BY <1>10, LoseObjectKeeps, LoseObjectBytes DEF Inv
<1>11. ASSUME NEW r \in Runs, NEW s \in Sources, DeleteUnresolved(r, s) PROVE Inv'
  BY <1>11, DeleteUnresolvedKeeps, DeleteUnresolvedBytes DEF Inv
<1>12. QED BY <1>1, <1>2, <1>3, <1>4, <1>5, <1>6, <1>7, <1>8, <1>9, <1>10, <1>11
          DEF Next, Environment

\* What is known of the runs, their sources and the bytes is kept by every
\* step the program takes.
THEOREM Invariance == Spec => []Inv
<1>1. Init => Inv
  BY InitInv
<1>2. Inv /\ [Next]_vars => Inv'
  BY NextInv, StutterInv
<1>3. QED BY <1>1, <1>2, PTL DEF Spec

-----------------------------------------------------------------------------
(* The theorems *)

LEMMA InvLive ==
    ASSUME Inv
    PROVE  LiveSourcesReadable
<1> SUFFICES ASSUME NEW s \in Known, Live(s), source[s].uri # "none"
             PROVE  Readable(s) \/ s \in lost \cup crossed
  BY DEF LiveSourcesReadable
<1>1. s \in Sources /\ Meant(s)
  BY DEF Known, Meant
<1>2. QED BY <1>1 DEF Inv, BytesInv, OriginalsKept

\* No interruption, retry, deletion, clean-up or move to S3 leaves a source in
\* use with a location and nothing behind it.
THEOREM LiveSourcesReadableAlways == Spec => []LiveSourcesReadable
BY Invariance, InvLive, PTL

LEMMA InvAccepted ==
    ASSUME Inv
    PROVE  AcceptedBytesKept
<1> SUFFICES ASSUME NEW r \in Created, Kind(r) = "remember", Nonterminal(r)
             PROVE  CASE Step(r) = "ingest" -> r \in ingress \/ run[r].ask.url
                      [] Step(r) = "store" ->
                            run[r].dedup \/ run[r].src \in Objects(backend) \cup lost \/ Bytes(r)
                            \/ run[r].src \in stranded \cap s3
                      [] OTHER -> run[r].dedup \/ ~Live(run[r].src)
                                  \/ Readable(run[r].src) \/ run[r].src \in lost \cup crossed
  BY DEF AcceptedBytesKept
<1>1. /\ TypeOK /\ RunShape(r) /\ r \in Runs /\ run[r].step \in 1..6
      /\ Held /\ OriginalsKept
  BY DEF Inv, RunsInv, BytesInv, TypeOK, Run, Created
<1>2. run[r].step <= Length(r) /\ run[r].step \in 1..3
  BY <1>1 DEF RunShape, Nonterminal, Waiting, Length, IsDelete
<1>3. CASE Step(r) = "ingest"
  <2>1. run[r].step = 1
    BY <1>1, <1>2, <1>3, StepNames
  <2>2. r \in ingress \/ run[r].ask.url
    BY <1>1, <2>1 DEF Held, BytesKept
  <2>3. QED BY <1>3, <2>2
<1>4. CASE Step(r) = "store"
  <2>1. run[r].step = 2
    BY <1>1, <1>2, <1>4, StepNames
  <2>2. run[r].dedup \/ run[r].src \in Objects(backend) \cup lost \/ Bytes(r)
        \/ run[r].src \in stranded \cap s3
    BY <1>1, <2>1 DEF Held, BytesKept
  <2>3. QED BY <1>4, <2>2
<1>5. CASE Step(r) # "ingest" /\ Step(r) # "store"
  <2>1. run[r].step = 3
    <3>1. run[r].step # 1
      BY <1>5 DEF Step, Plan
    <3>2. run[r].step # 2
      BY <1>1, <1>2, <1>5, StepNames
    <3>3. QED BY <1>2, <3>1, <3>2
  <2>2. ASSUME ~run[r].dedup, Live(run[r].src)
        PROVE  Readable(run[r].src) \/ run[r].src \in lost \cup crossed
    <3>1. Stores(r) /\ run[r].src \in Sources
      BY <1>1, <2>1, <2>2 DEF Stores, RunShape, Known
    <3>2. source[run[r].src].uri # "none"
      BY <1>1, <2>1, <2>2, <3>1 DEF Held, StoredOnce, Live
    <3>3. QED BY <1>1, <2>2, <3>1, <3>2 DEF OriginalsKept, Meant
  <2>3. QED BY <1>5, <2>2
<1>6. QED BY <1>3, <1>4, <1>5

\* What a Remember has accepted is found again until its location is
\* committed, whatever has crashed and however often the process has moved to
\* S3 and back, but for what was in S3 alone when it came back to the file
\* system: that is in S3 still, and found again on S3.
THEOREM AcceptedBytesKeptAlways == Spec => []AcceptedBytesKept
BY Invariance, InvAccepted, PTL

LEMMA InvReported ==
    ASSUME Inv
    PROVE  OnlyRealLossIsReported
BY DEF Inv, BytesInv, PassSound, OnlyRealLossIsReported

\* The convergence refuses to start the service only for an object that is
\* really gone, and never meets a deletion under a migration.
THEOREM OnlyRealLossIsReportedAlways == Spec => []OnlyRealLossIsReported
BY Invariance, InvReported, PTL

\* What a step may make of a source, and of the dataset.
SourcesEnd ==
    \A s \in Sources : source'[s].status = "deleted" =>
        \/ source[s].status = "deleted"
        \/ /\ source[s].status = "deleting"
           /\ \E r \in Created :
                 source'[s].uri = IF run[r].results[s] = "cleared" THEN "none" ELSE source[s].uri
DatasetTurns ==
    \/ dataset' = dataset
    \/ dataset' = "deleting"
    \/ dataset' = "active" /\ ~DeleteOwnsDataset
    \/ dataset' = "deleted" /\ \E r \in Created : /\ IsDelete(r) /\ run[r].status = "running"
                                                 /\ run[r].step = 5

LEMMA SameTurns ==
    ASSUME \A s \in Sources : source'[s].status = "deleted" => source[s].status = "deleted",
           dataset' = dataset
    PROVE  SourcesEnd /\ DatasetTurns
BY DEF SourcesEnd, DatasetTurns

LEMMA MarkEnds ==
    ASSUME TypeOK, NEW r \in Runs, NEW S, source' = Mark(S, r)
    PROVE  SourcesEnd
<1>1. \A s \in Sources :
         IF s \notin S THEN source'[s] = source[s] ELSE source'[s].status = "deleting"
  BY MarkFields
<1>2. QED BY <1>1 DEF SourcesEnd

LEMMA FinalizedEnds ==
    ASSUME TypeOK, NEW r \in Created, NEW T \in SUBSET Deleting, source' = Finalized(r, T)
    PROVE  SourcesEnd
<1>1. r \in Runs
  BY DEF Created
<1>2. \A s \in Sources :
         IF s \notin T THEN source'[s] = source[s]
         ELSE IF IsForget(r) /\ run[r].ask.memory_only
              THEN source'[s].status = "pending"
              ELSE source'[s].uri = IF run[r].results[s] = "cleared" THEN "none" ELSE source[s].uri
  BY <1>1, FinalizedFields
<1>3. \A s \in T : source[s].status = "deleting"
  BY DEF Deleting
<1>4. QED BY <1>2, <1>3 DEF SourcesEnd

LEMMA ExecuteTurns ==
    ASSUME Inv, NEW r \in Runs, Execute(r)
    PROVE  SourcesEnd /\ DatasetTurns
<1>0. RunsInv /\ TypeOK
  BY DEF Inv, RunsInv
<1>1. CASE Claim(r) \/ BackoffElapses(r) \/ FetchUrl(r) \/ IngestFails(r)
  BY <1>1, SameTurns DEF Claim, BackoffElapses, FetchUrl, IngestFails
<1>2. CASE StoreObject(r) \/ DropIngress(r) \/ StorageDeleted(r)
  BY <1>2, SameTurns DEF StoreObject, DropIngress, StorageDeleted
<1>3. ASSUME NEW s \in Sources, DeleteObject(r, s) PROVE SourcesEnd /\ DatasetTurns
  BY <1>3, SameTurns DEF DeleteObject
<1>4. CASE Ingest(r)
  <2>1. \/ source' = source
        \/ source' = [source EXCEPT ![run'[r].src] =
                         [status |-> "pending", uri |-> "none", doc |-> TRUE]]
    BY <1>0, <1>4, IngestFields
  <2>2. \A s \in Sources : source'[s].status = "deleted" => source[s].status = "deleted"
    BY <1>0, <2>1 DEF TypeOK
  <2>3. QED BY <1>4, <2>2, SameTurns DEF Ingest
<1>5. CASE FinalizeStorage(r)
  <2>1. \A s \in Sources : source'[s].status = source[s].status
    BY <1>0, <1>5, FinalizeStorageFields
  <2>2. QED BY <1>5, <2>1, SameTurns DEF FinalizeStorage
<1>6. CASE Cognify(r)
  <2>1. \A s \in Sources : source'[s].status = "deleted" => source[s].status = "deleted"
    BY <1>0, <1>6, CognifyFields
  <2>2. QED BY <1>6, <2>1, SameTurns DEF Cognify
<1>7. CASE MutateSource(r) \/ MutateDataset(r)
  <2>1. /\ dataset' = dataset \/ dataset' = "deleting"
        /\ source' = source \/ \E S \in {{run[r].ask.target}, Undeleted} : source' = Mark(S, r)
    BY <1>0, <1>7, MutateFields
  <2>2. SourcesEnd
    BY <1>0, <2>1, MarkEnds DEF SourcesEnd
  <2>3. QED BY <2>1, <2>2 DEF DatasetTurns
<1>8. CASE Deactivate(r)
  <2>1. dataset' = dataset /\ (source' = source \/ source' = Mark(Undeleted, r))
    BY <1>0, <1>8, DeactivateFields
  <2>2. SourcesEnd
    BY <1>0, <2>1, MarkEnds DEF SourcesEnd
  <2>3. QED BY <2>1, <2>2 DEF DatasetTurns
<1>9. CASE BeginDelete(r) \/ ConvergeProjection(r)
  <2>1. source' = source /\ (dataset' = dataset \/ dataset' = "deleting")
    BY <1>9 DEF BeginDelete, ConvergeProjection
  <2>2. QED BY <2>1 DEF SourcesEnd, DatasetTurns
<1>10. CASE FinalizeTarget(r)
  <2>1. /\ r \in Created
        /\ \/ UNCHANGED <<dataset, source>>
           \/ /\ dataset' = DatasetAfterForget(r)
              /\ \E T \in SUBSET Deleting : source' = Finalized(r, T)
    BY <1>0, <1>10, FinalizeTargetFields
  <2>2. SourcesEnd
    BY <1>0, <2>1, FinalizedEnds DEF SourcesEnd
  <2>3. DatasetTurns
    BY <2>1 DEF DatasetTurns, DatasetAfterForget
  <2>4. QED BY <2>2, <2>3
<1>11. CASE Tombstone(r)
  <2>1. /\ r \in Created /\ run[r].status = "running" /\ run[r].step = 5 /\ IsDelete(r)
        /\ \/ UNCHANGED <<dataset, source>>
           \/ /\ source' = Finalized(r, Deleting)
              /\ dataset' = IF dataset = "deleting" THEN "deleted" ELSE dataset
    BY <1>0, <1>11, TombstoneFields
  <2>2. SourcesEnd
    BY <1>0, <2>1, FinalizedEnds DEF SourcesEnd
  <2>3. DatasetTurns
    BY <2>1 DEF DatasetTurns
  <2>4. QED BY <2>2, <2>3
<1>12. QED BY <1>1, <1>2, <1>3, <1>4, <1>5, <1>6, <1>7, <1>8, <1>9, <1>10, <1>11
          DEF Execute, Remember, Forget, DatasetDelete

LEMMA NextTurns ==
    ASSUME Inv, Next
    PROVE  SourcesEnd /\ DatasetTurns
<1>0. RunsInv /\ TypeOK
  BY DEF Inv, RunsInv
<1>1. ASSUME NEW a \in Asks, Submit(a) PROVE SourcesEnd /\ DatasetTurns
  BY <1>1, SameTurns DEF Submit
<1>2. ASSUME NEW r \in Runs, Retry(r) \/ RunFails(r) \/ PutUnconfirmed(r) \/ RowsDie(r)
      PROVE  SourcesEnd /\ DatasetTurns
  BY <1>2, SameTurns DEF Retry, RunFails, PutUnconfirmed, RowsDie
<1>3. ASSUME NEW r \in Runs, Execute(r) PROVE SourcesEnd /\ DatasetTurns
  BY <1>3, ExecuteTurns
<1>4. ASSUME NEW b \in {"file", "s3"}, Boot(b) PROVE SourcesEnd /\ DatasetTurns
  BY <1>4, SameTurns DEF Boot
<1>5. CASE Crash
  BY <1>5, SameTurns DEF Crash
<1>6. ASSUME NEW s \in Sources, LoseObject(s) PROVE SourcesEnd /\ DatasetTurns
  BY <1>6, SameTurns DEF LoseObject
<1>7. ASSUME NEW r \in Runs, NEW s \in Sources, DeleteUnresolved(r, s)
      PROVE  SourcesEnd /\ DatasetTurns
  BY <1>7, SameTurns DEF DeleteUnresolved
<1>8. CASE Converge \/ \E s \in Sources : MigrateFails(s) \/ CleanUpDeferred(s)
  <2>1. PassMoves
    BY <1>0, <1>8, StartPassMoves, RepointMoves, EndPassMoves, JudgeMoves, MigrateMoves, CleanUpMoves
       DEF Converge
  <2>2. QED BY <2>1, SameTurns DEF PassMoves, others
<1>9. QED BY <1>1, <1>2, <1>3, <1>4, <1>5, <1>6, <1>7, <1>8 DEF Next, Environment

LEMMA NextComplete ==
    ASSUME Inv, Next
    PROVE  /\ \A s \in Sources :
                 /\ source[s].status # "deleted" /\ source'[s].status = "deleted"
                 /\ source[s].uri # "none" /\ source'[s].uri = "none"
                 => s \notin Objects(source[s].uri) \/ s \in crossed
           /\ dataset # "deleted" /\ dataset' = "deleted" /\ ~RetriedAnew
                 => \A r \in Created : run[r].rows = "none" \/ run[r].status = "failed"
<1>0. SourcesEnd /\ DatasetTurns
  BY NextTurns
<1>1. ASSUME NEW s \in Sources, source[s].status # "deleted", source'[s].status = "deleted",
             source[s].uri # "none", source'[s].uri = "none"
      PROVE  s \notin Objects(source[s].uri) \/ s \in crossed
  <2>1. PICK r \in Created :
           source'[s].uri = IF run[r].results[s] = "cleared" THEN "none" ELSE source[s].uri
    BY <1>0, <1>1 DEF SourcesEnd
  <2>2. source[s].status = "deleting" /\ run[r].results[s] = "cleared"
    BY <1>0, <1>1, <2>1 DEF SourcesEnd
  <2>3. Gone(s) \/ s \in crossed
    BY <2>2 DEF Inv, BytesInv, ClearedIsGone
  <2>4. QED BY <1>1, <2>2, <2>3 DEF Gone
<1>2. ASSUME dataset # "deleted", dataset' = "deleted", ~RetriedAnew, NEW q \in Created,
             run[q].rows # "none", run[q].status # "failed"
      PROVE  FALSE
  <2>1. PICK r \in Created : IsDelete(r) /\ run[r].status = "running" /\ run[r].step = 5
    BY <1>0, <1>2 DEF DatasetTurns
  <2>2. q \in Runs /\ r \in Runs /\ RunShape(q) /\ TypeOK /\ OneLineage
    BY DEF Inv, RunsInv, Created
  <2>3. IsDelete(q) /\ run[q].step = 3
    BY <1>2, <2>2 DEF RunShape
  <2>4. run[q].status # "succeeded"
    BY <2>2, <2>3 DEF RunShape, Length
  <2>5. Nonterminal(q)
    BY <1>2, <2>2, <2>4 DEF Nonterminal, Waiting, TypeOK, Run, Created
  <2>6. Open(q) /\ Open(r)
    BY <2>1, <2>3, <2>5 DEF Open, Nonterminal
  <2>7. q = r
    BY <1>2, <2>2, <2>6 DEF OneLineage
  <2>8. QED BY <2>1, <2>3, <2>7
<1>3. QED BY <1>1, <1>2

\* A deletion that ends has deleted: a source loses its location only when its
\* object is gone, and a dataset is deleted only when nothing of it is left to
\* project.
THEOREM DeletionIsCompleteAlways == Spec => DeletionIsComplete
<1>1. Inv /\ [Next]_vars =>
        [/\ \A s \in Sources :
               /\ source[s].status # "deleted" /\ source'[s].status = "deleted"
               /\ source[s].uri # "none" /\ source'[s].uri = "none"
               => s \notin Objects(source[s].uri) \/ s \in crossed
         /\ dataset # "deleted" /\ dataset' = "deleted" /\ ~RetriedAnew
               => \A r \in Created : run[r].rows = "none" \/ run[r].status = "failed"]_vars
  BY NextComplete
<1>2. QED BY <1>1, Invariance, PTL DEF Spec, DeletionIsComplete

LEMMA NextFinal ==
    ASSUME Inv, Next, DeleteOwnsDataset, dataset # "active"
    PROVE  dataset' # "active"
BY NextTurns DEF DatasetTurns

\* Whatever forgets are still under way, a dataset whose deletion has begun is
\* never made active again.
THEOREM AdministrativeDeleteIsFinalAlways == Spec => AdministrativeDeleteIsFinal
<1>1. Inv /\ [Next]_vars => [DeleteOwnsDataset /\ dataset # "active" => dataset' # "active"]_vars
  BY NextFinal
<1>2. QED BY <1>1, Invariance, PTL DEF Spec, AdministrativeDeleteIsFinal
=============================================================================
