---------------------------- MODULE MCGraphOutbox ----------------------------
(* A small instance of GraphOutbox for TLC: one dataset, a chunk k and a       *)
(* mention m in it (whose entity is always projected).                        *)
EXTENDS GraphOutbox

CONSTANTS k, m, c1, c2, d1, p1, p2, ds

KindOf == [e \in Elements |-> CASE e = k -> "chunk" [] OTHER -> "entity_mention"]
Joined == [e \in Elements |-> IF e = m THEN {k} ELSE {}]
OneDataset == [e \in Elements |-> ds]
Home == [p \in Consumers \cup Drains |-> IF p = c2 THEN p2 ELSE p1]

Do(op, e) == [op |-> op, target |-> e]
\* A mention projected and forgotten; then a merge of its entity says it once
\* more, while the delete of its chunk is still to come.
ForgottenAndMerged ==
    <<Do("upsert", k), Do("upsert", m), Do("delete", m), Do("upsert", m)>>
=============================================================================
