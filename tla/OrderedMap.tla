----------------------------- MODULE OrderedMap -----------------------------
(***************************************************************************)
(* What a Ruby program expects of a Hash: a map that remembers the order   *)
(* in which its keys were first stored.                                    *)
(***************************************************************************)
EXTENDS Naturals, Sequences

CONSTANTS Key, Val

VARIABLE pairs   \* sequence of <<key, value>>, in the order of Hash#keys

Place(k) == {i \in 1..Len(pairs) : pairs[i][1] = k}
Has(k) == Place(k) # {}

Without(i) == [m \in 1..(Len(pairs) - 1) |-> pairs[IF m < i THEN m ELSE m + 1]]

Store(k, v) ==
    pairs' = IF Has(k) THEN [i \in 1..Len(pairs) |-> IF i \in Place(k) THEN <<k, v>> ELSE pairs[i]]
             ELSE Append(pairs, <<k, v>>)

Delete(k) == \E i \in Place(k) : pairs' = Without(i)

Clear == pairs' = <<>>

MapInit == pairs = <<>>

MapSpec ==
    /\ MapInit
    /\ [][Clear \/ \E k \in Key : Delete(k) \/ \E v \in Val : Store(k, v)]_pairs

=============================================================================
