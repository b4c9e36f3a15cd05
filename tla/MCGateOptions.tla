--------------------------- MODULE MCGateOptions ---------------------------
(* Short command lines of every kind of argument, and longer ones of the few *)
(* that make permute_args exchange blocks of different lengths.              *)
EXTENDS GateOptions

Word(w) == [kind |-> "word", text |-> w]
Short(letters) == [kind |-> "short", letters |-> letters]
Long(names, eq) == [kind |-> "long", names |-> names, eq |-> eq]

SomeArgs ==
    {Word("p"), Word("q"), [kind |-> "end"],
     Short(<<"v">>), Short(<<"x", "v">>), Short(<<"v", "c">>), Short(<<"x", "i">>),
     Short(<<"h">>), Long({"v"}, FALSE), Long({"v"}, TRUE), Long({"l"}, FALSE),
     Long({"h"}, TRUE), Long({}, FALSE), Long(Options, TRUE)}

PermutedArgs == {Word("p"), Word("q"), Short(<<"v">>), Short(<<"x">>)}

UpTo(n, S) == UNION {[1..k -> S] : k \in 0..n}

SomeLines == UpTo(3, SomeArgs) \cup UpTo(6, PermutedArgs)
=============================================================================
