----------------------------- MODULE MCKnowledge -----------------------------
(* Two sources that share one entity and relate it to one of their own; and *)
(* the cutting of texts, which has no state, beside them.                   *)
EXTENDS Knowledge, Chunking

CONSTANTS s1, s2, a, b, c

TwoKeyed == (s1 :> {a, c}) @@ (s2 :> {b, c})
TwoRelated == (s1 :> {<<a, c>>}) @@ (s2 :> {<<b, c>>})
Chain == {{a, b}, {b, c}}

\* chunk_document_text: the chunks of every text cover it in order and fit.  It
\* depends on no state, so it is asked once, before the first run.
ChunksCoverAndFit ==
    runs = 0 => \A t \in Texts, p \in Settings : CutsSoundly(t, p)
=============================================================================
