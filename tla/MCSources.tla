------------------------------ MODULE MCSources ------------------------------
(* Small instances of Sources for TLC. *)
EXTENDS Sources

Remembering(force, url, full) ==
    [kind |-> "remember", target |-> None, memory_only |-> FALSE,
     force |-> force, url |-> url, full |-> full]
Forgetting(kind, target, memory_only) ==
    [kind |-> kind, target |-> target, memory_only |-> memory_only,
     force |-> FALSE, url |-> FALSE, full |-> FALSE]

\* What clients ask for.  A full forget of the dataset is left to Everything,
\* which does the same to the one dataset there is.
Mixed == {Remembering(TRUE, FALSE, TRUE), Remembering(FALSE, TRUE, FALSE),
          Forgetting("forget_source", 1, FALSE), Forgetting("forget_source", 1, TRUE),
          Forgetting("forget_dataset", None, TRUE),
          Forgetting("everything", None, FALSE), Forgetting("dataset_delete", None, FALSE)}
=============================================================================
