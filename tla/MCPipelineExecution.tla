------------------------- MODULE MCPipelineExecution -------------------------
(* Small instances of PipelineExecution for TLC. *)
EXTENDS PipelineExecution, TLC

CONSTANTS r1, r2, r3, d1, w1, w2, w3

\* Every run on one dataset; r2 global.
OneDataset == [r \in Runs |-> d1]
SecondGlobal == [r \in Runs |-> IF r = r2 THEN Global ELSE d1]

WorkerSymmetry == Permutations(Workers)
=============================================================================
