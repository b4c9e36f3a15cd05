---------------------------- MODULE MCGateSystem ----------------------------
(* Small instances of GateSystem. *)
EXTENDS GateSystem, TLC

R(s, e, n, m, c) == [st |-> s, et |-> e, start |-> n, end |-> m, code |-> c]

\* Tables an administrator may have left: nothing; an indexed and an unindexed
\* block; the README's allowing row next to a bad text; a half indexed row; a
\* row without a text behind one that can be indexed.
MixedTables ==
    { <<>>,
      << R(1, 1, 1, 1, 404), R(2, 2, Null, Null, 404) >>,
      << R(1, 1, 1, 1, 200), R(BadText, 1, Empty, Null, 404) >>,
      << R(1, 2, Empty, 2, 404), R(2, 2, 2, 2, 404) >>,
      << R(1, 1, Null, Null, 404), R(Null, 2, Null, 2, 404) >> }

FewTables == { << R(1, 1, Null, Null, 404), R(BadText, 1, Empty, 1, 404) >> }

RangeTables == { << R(1, 3, 1, 3, 404) >> }

Children == Permutations(Workers)
Tools == Permutations(Dbs) \cup Permutations(Logs)
=============================================================================
