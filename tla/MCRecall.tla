------------------------------- MODULE MCRecall -------------------------------
(* Three requests; two chunks that share an entity, with one relation each. *)
EXTENDS Recall

CONSTANTS p1, p2, p3, c1, c2, a, b, c, k, t, u

Bounds == [memory |-> 3, session |-> 3, skill |-> 3, agent |-> 3, dataset |-> 3, knowledge |-> 1]
Chain == {<<a, c1>>, <<b, c1>>, <<b, c2>>, <<c, c2>>}
Links == {[id |-> "ab", from |-> a, to |-> b, chunk |-> c1],
          [id |-> "bc", from |-> b, to |-> c, chunk |-> c2]}
Symmetry == Permutations(Requests)
=============================================================================
