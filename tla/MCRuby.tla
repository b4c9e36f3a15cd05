------------------------------- MODULE MCRuby -------------------------------
(* Instances of Rowset for TLC. *)
EXTENDS Rowset, TLC

CONSTANTS q1, q2, a, b, c

MCColumns == (Empty :> <<>>) @@ (q1 :> <<a, b, a>>) @@ (q2 :> <<b, c>>)

\* 9 does not fit where int ends at 7.
MCTable == (Empty :> <<>>) @@ (q1 :> <<<<7, b, -8>>, <<9, c, 1>>>>) @@ (q2 :> <<<<a, 2>>>>)

Symmetric == Permutations(Conn) \cup Permutations(Stmt) \cup Permutations(Handle)

=============================================================================
