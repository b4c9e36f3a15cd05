---------------------------- MODULE MCGateConfig ----------------------------
(* Small instances of GateConfig. *)
EXTENDS GateConfig, TLC

TwoDirs == <<"outer", "inner">>

\* Three kinds of files: all directives in the main server and one section of
\* it; nested sections, without settings; and shorter ones with a virtual host,
\* without these and without defaults.
InServer(s) == \A i \in DOMAIN read : read[i].server = s
Outside(contexts, names) ==
    \A i \in DOMAIN read : read[i].context \notin contexts /\ read[i].name \notin names

OneKind ==
    \/ InServer(Main) /\ Outside({2}, {})
    \/ InServer(Main) /\ Outside({}, {"GateConfig", "GateEnv"})
    \/ Len(read) < MaxDirectives /\ Outside({2}, {"GateConfig", "GateEnv", "GateDefaultDatabase"})

Symmetric == Permutations(Names)
=============================================================================
