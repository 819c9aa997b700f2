---------------------------- MODULE MCSubmission -----------------------------
(* Small instances of Submission for TLC. *)
EXTENDS Submission, TLC

CONSTANTS k, a, b, p1, p2, p3

Ask(op, key, work, ses, wait) ==
    [op |-> op, key |-> key, work |-> work, session |-> ses, wait |-> wait]

\* Two pieces of work under one key, one of them waited for, an unkeyed URL, a
\* forget, retries and deletes.
Mixed == {Ask("text", k, a, FALSE, FALSE), Ask("url", k, b, TRUE, TRUE),
          Ask("forget_dataset", None, a, FALSE, FALSE),
          Ask("retry", None, a, FALSE, FALSE), Ask("delete", None, a, FALSE, FALSE)}

RequestSymmetry == Permutations(Requests)
=============================================================================
