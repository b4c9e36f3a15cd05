-------------------------------- MODULE MCGc --------------------------------
(* An instance of MrubyGc for TLC. *)
EXTENDS MrubyGc, TLC

CONSTANTS o1, o2, o3, p1

MCPageOf == (o1 :> p1) @@ (o2 :> p1) @@ (o3 :> p1)

\* At most MaxRoots references outside the heap.
CONSTANT MaxRoots
FewRoots == Cardinality(stack) + Cardinality(slots) <= MaxRoots

Symmetric == Permutations({o1, o2, o3})

=============================================================================
