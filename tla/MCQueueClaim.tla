---------------------------- MODULE MCQueueClaim -----------------------------
(* Small instances of QueueClaim for TLC. *)
EXTENDS QueueClaim, TLC

CONSTANTS r1, r2, r3, r4, d1, d2, c1, c2

\* Two runs on one dataset, and a global one.
SharedAndGlobal == (r1 :> d1) @@ (r2 :> d1) @@ (r3 :> Global)
\* Two runs on one dataset, a third on its own, and a global one.
SharedApartAndGlobal == (r1 :> d1) @@ (r2 :> d1) @@ (r3 :> d2) @@ (r4 :> Global)
ByName == (r1 :> 1) @@ (r2 :> 2) @@ (r3 :> 3)
FourByName == ByName @@ (r4 :> 4)

ClaimerSymmetry == Permutations(Claimers)
=============================================================================
