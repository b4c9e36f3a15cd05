------------------------------- MODULE MCHash -------------------------------
(* An instance of MrubyHash for TLC: four keys, three of which collide. *)
EXTENDS MrubyHash, TLC

CONSTANTS k1, k2, k3, k4

MCHashOf == (k1 :> 1) @@ (k2 :> 1) @@ (k3 :> 5) @@ (k4 :> 3)

=============================================================================
