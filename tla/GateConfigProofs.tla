-------------------------- MODULE GateConfigProofs --------------------------
(***************************************************************************)
(* Proofs about the directives and the database they choose, for any       *)
(* servers, sections, handlers and files of any length.                    *)
(***************************************************************************)
EXTENDS GateConfig, Recursion

-----------------------------------------------------------------------------
(* Tables. *)

TableOf(Keys, Values) == UNION {[K -> Values] : K \in SUBSET Keys}

\* What a table is made of.
LEMMA TableFacts ==
    ASSUME NEW Keys, NEW Values, NEW t \in TableOf(Keys, Values)
    PROVE  /\ DOMAIN t \in SUBSET Keys /\ t \in [DOMAIN t -> Values]
           /\ \A k \in DOMAIN t : t[k] \in Values
  BY DEF TableOf

\* A function on some of the keys is a table.
LEMMA TableIs ==
    ASSUME NEW Keys, NEW Values, NEW K \in SUBSET Keys, NEW t \in [K -> Values]
    PROVE  t \in TableOf(Keys, Values)
  BY DEF TableOf

\* apr_table_make gives a table without entries.
LEMMA EmptyIsTable ==
    ASSUME NEW Keys, NEW Values
    PROVE  EmptyTable \in TableOf(Keys, Values) /\ DOMAIN EmptyTable = {}
           /\ \A k : Get(EmptyTable, k) = NoValue
<1>1. EmptyTable \in [{} -> Values] /\ DOMAIN EmptyTable = {}
  BY DEF EmptyTable
<1> QED
  BY ZenonT(40), <1>1, TableIs DEF Get

\* apr_table_set changes one entry and leaves the others.
LEMMA SetFacts ==
    ASSUME NEW Keys, NEW Values, NEW t \in TableOf(Keys, Values), NEW k \in Keys, NEW v \in Values
    PROVE  /\ Set(t, k, v) \in TableOf(Keys, Values)
           /\ DOMAIN Set(t, k, v) = DOMAIN t \cup {k}
           /\ Set(t, k, v)[k] = v
           /\ \A j \in DOMAIN t : j # k => Set(t, k, v)[j] = t[j]
           /\ \A j : Get(Set(t, k, v), j) = IF j = k THEN v ELSE Get(t, j)
<1>1. DOMAIN t \cup {k} \in SUBSET Keys /\ \A j \in DOMAIN t : t[j] \in Values
  BY TableFacts
<1>2. Set(t, k, v) \in [DOMAIN t \cup {k} -> Values]
  BY <1>1 DEF Set
<1>3. Set(t, k, v) \in TableOf(Keys, Values)
  BY ZenonT(40), <1>1, <1>2, TableIs
<1>4. /\ DOMAIN Set(t, k, v) = DOMAIN t \cup {k} /\ Set(t, k, v)[k] = v
      /\ \A j \in DOMAIN t : j # k => Set(t, k, v)[j] = t[j]
  BY DEF Set
<1>5. \A j : Get(Set(t, k, v), j) = IF j = k THEN v ELSE Get(t, j)
  BY <1>4 DEF Get
<1> QED
  BY <1>3, <1>4, <1>5

\* apr_table_overlay: the entries of the second table hide those of the first.
LEMMA OverlayFacts ==
    ASSUME NEW Keys, NEW Values, NEW t \in TableOf(Keys, Values), NEW u \in TableOf(Keys, Values)
    PROVE  /\ Overlay(t, u) \in TableOf(Keys, Values)
           /\ DOMAIN Overlay(t, u) = DOMAIN t \cup DOMAIN u
           /\ \A j : Get(Overlay(t, u), j) = IF j \in DOMAIN u THEN u[j] ELSE Get(t, j)
<1>1. /\ DOMAIN t \cup DOMAIN u \in SUBSET Keys
      /\ (\A j \in DOMAIN t : t[j] \in Values) /\ (\A j \in DOMAIN u : u[j] \in Values)
  BY TableFacts
<1>2. Overlay(t, u) \in [DOMAIN t \cup DOMAIN u -> Values]
  BY <1>1 DEF Overlay
<1>3. Overlay(t, u) \in TableOf(Keys, Values)
  BY <1>1, <1>2, TableIs
<1>4. /\ DOMAIN Overlay(t, u) = DOMAIN t \cup DOMAIN u
      /\ \A j \in DOMAIN t \cup DOMAIN u : Overlay(t, u)[j] = IF j \in DOMAIN u THEN u[j] ELSE t[j]
  BY DEF Overlay
<1>5. \A j : Get(Overlay(t, u), j) = IF j \in DOMAIN u THEN u[j] ELSE Get(t, j)
  BY <1>4 DEF Get
<1> QED
  BY <1>3, <1>4, <1>5

-----------------------------------------------------------------------------
(* The directives read so far. *)

Words == Names \cup Paths \cup UserKeys \cup UserValues

Directives ==
    [server : Servers, context : Contexts,
     name : {"GateDefaultDatabase", "GateConfig", "GateEnv", "Gate", "GateDeclare", "GateDatabase"},
     args : Seq(Words) \ {<<>>}]

\* LastSaid, of the directives sq.
Latest(sq, S, a) ==
    IF S = {} THEN NoValue ELSE sq[CHOOSE i \in S : \A j \in S : j <= i].args[a]

\* The last word of the files, as a function of the list of directives.
LEMMA LastIsLatest == \A S, a : LastSaid(S, a) = Latest(read, S, a)
  BY DEF LastSaid, Latest

\* The greatest index of a set of them exists.
LEMMA GreatestOf ==
    ASSUME NEW n \in Nat, NEW S \in SUBSET (1..n), S # {}
    PROVE  LET m == CHOOSE i \in S : \A j \in S : j <= i
           IN  m \in S /\ \A j \in S : j <= m
<1>1. S \in SUBSET (0..n)
  OBVIOUS
<1>2. \E i \in S : \A j \in S : j <= i
  BY ZenonT(40), <1>1, GreatestBelow
<1> QED
  BY ZenonT(40), <1>2

\* One more directive is the last word on what it speaks of, and on nothing else.
LEMMA LatestGrows ==
    ASSUME NEW sq \in Seq(Directives), NEW r \in Directives,
           NEW S \in SUBSET (1..Len(sq)), NEW a
    PROVE  /\ Latest(Append(sq, r), S, a) = Latest(sq, S, a)
           /\ Latest(Append(sq, r), S \cup {Len(sq) + 1}, a) = r.args[a]
<1> DEFINE n == Len(sq)
           q == Append(sq, r)
<1>1. n \in Nat /\ q[n + 1] = r /\ \A i \in 1..n : q[i] = sq[i]
  OBVIOUS
<1>2. Latest(q, S, a) = Latest(sq, S, a)
  <2>1. CASE S = {}
    BY <2>1 DEF Latest
  <2>2. CASE S # {}
    <3> DEFINE m == CHOOSE i \in S : \A j \in S : j <= i
    <3>1. m \in S
      BY ZenonT(40), <1>1, <2>2, GreatestOf
    <3> HIDE DEF q, n, m
    <3>2. q[m] = sq[m]
      BY <1>1, <3>1 DEF n
    <3>3. Latest(q, S, a) = q[m].args[a]
      BY ZenonT(40), <2>2 DEF Latest, m
    <3>4. Latest(sq, S, a) = sq[m].args[a]
      BY ZenonT(40), <2>2 DEF Latest, m
    <3> QED
      BY <3>2, <3>3, <3>4, Zenon
  <2> QED
    BY <2>1, <2>2
<1>3. Latest(q, S \cup {n + 1}, a) = r.args[a]
  <2> DEFINE U == S \cup {n + 1}
             m == CHOOSE i \in U : \A j \in U : j <= i
  <2>1. U \in SUBSET (1..(n + 1)) /\ U # {} /\ n + 1 \in Nat /\ n + 1 \in U
    <3>1. S \in SUBSET (1..n)
      OBVIOUS
    <3> HIDE DEF n
    <3>2. \A i \in 1..n : i \in 1..(n + 1)
      BY <1>1
    <3>3. n + 1 \in 1..(n + 1) /\ n + 1 \in Nat
      BY <1>1
    <3> QED
      BY <3>1, <3>2, <3>3, Zenon
  <2>2. m \in U /\ \A j \in U : j <= m
    <3> HIDE DEF U, n
    <3> QED
      BY ZenonT(40), <2>1, GreatestOf
  <2>3. m = n + 1
    <3> HIDE DEF U, m, n
    <3> QED
      BY <1>1, <2>1, <2>2
  <2> HIDE DEF q, n, m
  <2>4. q[m] = r
    BY <1>1, <2>3
  <2> QED
    BY <2>1, <2>4 DEF Latest, m
<1> QED
  BY <1>2, <1>3

Declared(s) ==
    {h \in Names : \E i \in DOMAIN read : /\ read[i].server = s
                                          /\ read[i].name = "GateDeclare" /\ read[i].args[1] = h}

Mentioned(s) == \E i \in DOMAIN read : read[i].server = s

\* What one more directive adds to what has been said.
LEMMA DirectiveSaid ==
    ASSUME read \in Seq(Directives), NEW s \in Servers, NEW c \in Contexts, NEW name, NEW args,
           [server |-> s, context |-> c, name |-> name, args |-> args] \in Directives,
           Directive(s, c, name, args), NEW t \in Servers
    PROVE  /\ read' \in Seq(Directives)
           /\ Mentioned(t)' = (t = s \/ Mentioned(t))
           /\ Declared(t)' = Declared(t) \cup
                  {h \in Names : t = s /\ name = "GateDeclare" /\ args[1] = h}
           /\ \A d : LastSaid(Gates(t, d), 1)' =
                  IF t = s /\ d = c /\ name = "Gate" THEN args[1] ELSE LastSaid(Gates(t, d), 1)
           /\ \A h : LastSaid(Databases(t, h), 2)' =
                  IF t = s /\ name = "GateDatabase" /\ args[1] = h THEN args[2]
                  ELSE LastSaid(Databases(t, h), 2)
           /\ \A h : ~(t = s /\ name = "GateDatabase" /\ args[1] = h) =>
                  Databases(t, h)' = Databases(t, h)
<1> DEFINE r == [server |-> s, context |-> c, name |-> name, args |-> args]
           n == Len(read)
<1>1. read' = Append(read, r)
  BY DEF Directive
<1>2. r.server = s /\ r.context = c /\ r.name = name /\ r.args = args
  OBVIOUS
<1>3. r \in Directives
  OBVIOUS
<1> HIDE DEF r
<1>4. /\ read' \in Seq(Directives) /\ n \in Nat /\ DOMAIN read = 1..n
      /\ DOMAIN read' = 1..(n + 1) /\ read'[n + 1] = r /\ \A i \in 1..n : read'[i] = read[i]
  BY <1>1, <1>3
<1>5. /\ DOMAIN read' = DOMAIN read \cup {n + 1} /\ n + 1 \notin DOMAIN read
      /\ \A i \in DOMAIN read : read'[i] = read[i]
  BY <1>4
<1> HIDE DEF n
<1>6. Mentioned(t)' = (t = s \/ Mentioned(t))
  BY ZenonT(40), <1>2, <1>4, <1>5 DEF Mentioned
<1>7. Declared(t)' = Declared(t) \cup {h \in Names : t = s /\ name = "GateDeclare" /\ args[1] = h}
  BY <1>2, <1>4, <1>5 DEF Declared
<1>8. ASSUME NEW d
      PROVE  Gates(t, d)' = IF t = s /\ d = c /\ name = "Gate"
                            THEN Gates(t, d) \cup {n + 1} ELSE Gates(t, d)
  BY <1>2, <1>4, <1>5, Zenon DEF Gates
<1>9. ASSUME NEW h
      PROVE  Databases(t, h)' = IF t = s /\ name = "GateDatabase" /\ args[1] = h
                                THEN Databases(t, h) \cup {n + 1} ELSE Databases(t, h)
  BY <1>2, <1>4, <1>5 DEF Databases
<1>10. ASSUME NEW S \in SUBSET (1..n), NEW a
       PROVE  Latest(read', S, a) = Latest(read, S, a) /\ Latest(read', S \cup {n + 1}, a) = args[a]
  <2>1. S \in SUBSET (1..Len(read))
    BY DEF n
  <2>2. /\ Latest(Append(read, r), S, a) = Latest(read, S, a)
        /\ Latest(Append(read, r), S \cup {Len(read) + 1}, a) = r.args[a]
    BY ZenonT(40), <1>3, <2>1, LatestGrows
  <2> QED
    BY <1>1, <1>2, <2>2, Zenon DEF n
<1>11. ASSUME NEW d
       PROVE  LastSaid(Gates(t, d), 1)' =
                  IF t = s /\ d = c /\ name = "Gate" THEN args[1] ELSE LastSaid(Gates(t, d), 1)
  <2>1. Gates(t, d) \in SUBSET (1..n)
    BY <1>4 DEF Gates
  <2>2. LastSaid(Gates(t, d), 1)' = Latest(read', Gates(t, d)', 1)
    BY DEF LastSaid, Latest
  <2> QED
    BY ZenonT(40), <2>1, <2>2, <1>8, <1>10, LastIsLatest
<1>12. ASSUME NEW h
       PROVE  LastSaid(Databases(t, h), 2)' =
                  IF t = s /\ name = "GateDatabase" /\ args[1] = h THEN args[2]
                  ELSE LastSaid(Databases(t, h), 2)
  <2>1. Databases(t, h) \in SUBSET (1..n)
    BY <1>4 DEF Databases
  <2>2. LastSaid(Databases(t, h), 2)' = Latest(read', Databases(t, h)', 2)
    BY DEF LastSaid, Latest
  <2>3. LastSaid(Databases(t, h), 2) = Latest(read, Databases(t, h), 2)
    BY LastIsLatest
  <2>4. /\ Latest(read', Databases(t, h), 2) = Latest(read, Databases(t, h), 2)
        /\ Latest(read', Databases(t, h) \cup {n + 1}, 2) = args[2]
    BY ZenonT(40), <2>1, <1>10
  <2> QED
    BY <2>2, <2>3, <2>4, <1>9, Zenon
<1> QED
  BY <1>4, <1>6, <1>7, <1>9, <1>11, <1>12

-----------------------------------------------------------------------------
(* The invariant. *)

HandlerTable == TableOf(UserKeys \cup {"GateDatabase"}, Paths \cup UserValues)
SectionTable == TableOf(UserKeys \cup {"Gate", "GateDatabase"}, Names \cup Paths \cup UserValues)

ServerRec ==
    [handler : Names \cup {NoValue}, default_database : Paths \cup {NoValue},
     options : TableOf(UserKeys, UserValues), handlers : TableOf(Names, HandlerTable),
     made : BOOLEAN]

Types ==
    /\ phase \in {"reading", "running", "failed"}
    /\ config \in [Servers -> ServerRec]
    /\ options \in [Servers -> [Sections -> SectionTable]]
    /\ read \in Seq(Directives)

\* What the tables hold for server s is what the directives say.
Agrees(s) ==
    /\ config[s].made <=> s = Main \/ Mentioned(s)
    /\ ~config[s].made => config[s] = NoConfig
    /\ config[s].handler = LastSaid(Gates(s, OutsideSections), 1)
    /\ DOMAIN config[s].handlers = Declared(s)
    /\ \A h \in Declared(s) :
           Get(config[s].handlers[h], "GateDatabase") = LastSaid(Databases(s, h), 2)
    /\ \A h : h \notin Declared(s) => Databases(s, h) = {}
    /\ \A d \in Sections : Get(options[s][d], "Gate") = LastSaid(Gates(s, d), 1)

Agreement == phase # "failed" => \A s \in Servers : Agrees(s)

IInv ==
    /\ Types /\ Agreement
    /\ phase # "running" => request = NoRequest
    /\ ResolvesAsWritten /\ NotesNameDatabase

\* A server's record before and after create_config.
LEMMA BlankServer == NoConfig \in ServerRec /\ create_config \in ServerRec
<1>1. /\ EmptyTable \in TableOf(UserKeys, UserValues)
      /\ EmptyTable \in TableOf(Names, HandlerTable)
  BY EmptyIsTable
<1> QED
  BY ZenonT(40), <1>1 DEF NoConfig, create_config, ServerRec

\* create_config runs at the first directive and changes no table that says something.
LEMMA MadeFacts ==
    ASSUME Types, NEW s \in Servers, Agrees(s)
    PROVE  /\ Made(s) \in ServerRec /\ Made(s).made
           /\ Made(s).handler = config[s].handler /\ Made(s).handlers = config[s].handlers
           /\ Made(s).options = config[s].options
<1>1. config[s] \in ServerRec
  BY DEF Types
<1>2. CASE config[s].made
  BY <1>1, <1>2 DEF Made
<1>3. CASE ~config[s].made
  <2>1. config[s] = NoConfig /\ Made(s) = create_config
    BY <1>3 DEF Made, Agrees
  <2> QED
    BY <2>1, BlankServer DEF NoConfig, create_config
<1> QED
  BY <1>2, <1>3

\* The tables after a directive agree with it, if they have taken it in.
LEMMA Settled ==
    ASSUME Types, Agreement, phase = "reading", phase' = phase,
           NEW s \in Servers, NEW c \in Contexts, NEW name, NEW args,
           [server |-> s, context |-> c, name |-> name, args |-> args] \in Directives,
           Directive(s, c, name, args),
           \A t \in Servers \ {s} : config'[t] = config[t] /\ options'[t] = options[t],
           config'[s].made,
           config'[s].handler = IF c = OutsideSections /\ name = "Gate" THEN args[1]
                                ELSE config[s].handler,
           DOMAIN config'[s].handlers =
               DOMAIN config[s].handlers \cup {h \in Names : name = "GateDeclare" /\ args[1] = h},
           \A h \in DOMAIN config'[s].handlers :
               Get(config'[s].handlers[h], "GateDatabase") =
                   IF name = "GateDatabase" /\ args[1] = h THEN args[2]
                   ELSE IF h \in DOMAIN config[s].handlers
                   THEN Get(config[s].handlers[h], "GateDatabase") ELSE NoValue,
           name = "GateDatabase" => args[1] \in DOMAIN config[s].handlers,
           \A d \in Sections :
               Get(options'[s][d], "Gate") = IF d = c /\ name = "Gate" THEN args[1]
                                             ELSE Get(options[s][d], "Gate")
    PROVE  Agreement'
<1>1. \A t \in Servers : Agrees(t)
  BY DEF Agreement
<1>2. read \in Seq(Directives)
  BY DEF Types
<1>3. ASSUME NEW t \in Servers
      PROVE  /\ Mentioned(t)' = (t = s \/ Mentioned(t))
             /\ Declared(t)' = Declared(t) \cup
                  {h \in Names : t = s /\ name = "GateDeclare" /\ args[1] = h}
             /\ \A d : LastSaid(Gates(t, d), 1)' =
                  IF t = s /\ d = c /\ name = "Gate" THEN args[1] ELSE LastSaid(Gates(t, d), 1)
             /\ \A h : LastSaid(Databases(t, h), 2)' =
                  IF t = s /\ name = "GateDatabase" /\ args[1] = h THEN args[2]
                  ELSE LastSaid(Databases(t, h), 2)
             /\ \A h : ~(t = s /\ name = "GateDatabase" /\ args[1] = h) =>
                  Databases(t, h)' = Databases(t, h)
  BY <1>2, DirectiveSaid
<1>4. ASSUME NEW t \in Servers, t # s PROVE Agrees(t)'
  <2>1. Mentioned(t)' <=> Mentioned(t)
    BY <1>3, <1>4, ZenonT(40) DEF Mentioned
  <2>2. Declared(t)' = Declared(t)
    <3>1. {h \in Names : t = s /\ name = "GateDeclare" /\ args[1] = h} = {}
      BY <1>4
    <3>2. Declared(t)' = Declared(t) \cup
            {h \in Names : t = s /\ name = "GateDeclare" /\ args[1] = h}
      BY <1>3, Zenon
    <3> QED
      BY <3>1, <3>2
  <2>3. \A d : LastSaid(Gates(t, d), 1)' = LastSaid(Gates(t, d), 1)
    BY <1>3, <1>4
  <2>4. \A h : LastSaid(Databases(t, h), 2)' = LastSaid(Databases(t, h), 2)
    BY <1>3, <1>4
  <2>5. \A h : Databases(t, h)' = Databases(t, h)
    BY <1>3, <1>4
  <2>6. config'[t] = config[t] /\ options'[t] = options[t] /\ Agrees(t)
    BY <1>1, <1>4
  <2>7. \A d \in Sections : Get(options'[t][d], "Gate") = LastSaid(Gates(t, d), 1)'
    BY <2>3, <2>6 DEF Agrees
  <2>8. \A h \in Declared(t)' :
           Get(config'[t].handlers[h], "GateDatabase") = LastSaid(Databases(t, h), 2)'
    BY <2>2, <2>4, <2>6 DEF Agrees
  <2>9. \A h : h \notin Declared(t)' => Databases(t, h)' = {}
    <3>1. \A h : h \notin Declared(t) => Databases(t, h) = {}
      BY Zenon, <2>6 DEF Agrees
    <3> QED
      BY <2>2, <2>5, <3>1
  <2>10. /\ config'[t].made <=> t = Main \/ Mentioned(t)'
         /\ ~config'[t].made => config'[t] = NoConfig
         /\ config'[t].handler = LastSaid(Gates(t, OutsideSections), 1)'
         /\ DOMAIN config'[t].handlers = Declared(t)'
    BY ZenonT(40), <2>1, <2>2, <2>3, <2>6 DEF Agrees
  <2> QED
    BY <2>7, <2>8, <2>9, <2>10 DEF Agrees
<1>5. Agrees(s)'
  <2>1. /\ Agrees(s)
        /\ Mentioned(s)'
        /\ Declared(s)' = Declared(s) \cup {h \in Names : name = "GateDeclare" /\ args[1] = h}
    BY ZenonT(40), <1>1, <1>3
  <2>2. \A d : LastSaid(Gates(s, d), 1)' =
                  IF d = c /\ name = "Gate" THEN args[1] ELSE LastSaid(Gates(s, d), 1)
    BY <1>3
  <2>3. \A h : LastSaid(Databases(s, h), 2)' =
                  IF name = "GateDatabase" /\ args[1] = h THEN args[2]
                  ELSE LastSaid(Databases(s, h), 2)
    BY <1>3
  <2>4. \A h : ~(name = "GateDatabase" /\ args[1] = h) => Databases(s, h)' = Databases(s, h)
    BY <1>3
  <2>5. config'[s].handler = LastSaid(Gates(s, OutsideSections), 1)'
    BY <2>1, <2>2 DEF Agrees
  <2>6. DOMAIN config'[s].handlers = Declared(s)'
    BY <2>1 DEF Agrees
  <2>7. ASSUME NEW h \in Declared(s)'
        PROVE  Get(config'[s].handlers[h], "GateDatabase") = LastSaid(Databases(s, h), 2)'
    <3>1. h \in DOMAIN config'[s].handlers
      BY <2>6
    <3>2. CASE name = "GateDatabase" /\ args[1] = h
      BY <2>3, <3>1, <3>2
    <3>3. CASE ~(name = "GateDatabase" /\ args[1] = h)
      <4>1. LastSaid(Databases(s, h), 2)' = LastSaid(Databases(s, h), 2)
        BY <2>3, <3>3
      <4>2. CASE h \in DOMAIN config[s].handlers
        BY <2>1, <3>1, <3>3, <4>1, <4>2 DEF Agrees
      <4>3. CASE h \notin DOMAIN config[s].handlers
        <5>1. Databases(s, h) = {}
          BY <2>1, <4>3 DEF Agrees
        <5>2. LastSaid(Databases(s, h), 2) = NoValue
          BY Zenon, <5>1 DEF LastSaid
        <5> QED
          BY ZenonT(40), <3>1, <3>3, <4>1, <4>3, <5>2
      <4> QED
        BY <4>2, <4>3
    <3> QED
      BY <3>2, <3>3
  <2>8. ASSUME NEW h, h \notin Declared(s)' PROVE Databases(s, h)' = {}
    <3>1. h \notin Declared(s) /\ ~(name = "GateDatabase" /\ args[1] = h)
      BY ZenonT(40), <2>1, <2>8 DEF Agrees
    <3> QED
      BY ZenonT(40), <2>1, <2>4, <3>1 DEF Agrees
  <2>9. ASSUME NEW d \in Sections PROVE Get(options'[s][d], "Gate") = LastSaid(Gates(s, d), 1)'
    BY <2>1, <2>2 DEF Agrees
  <2> QED
    BY <2>1, <2>5, <2>6, <2>7, <2>8, <2>9 DEF Agrees
<1> QED
  BY <1>4, <1>5 DEF Agreement

-----------------------------------------------------------------------------
(* One directive. *)

\* A directive that leaves the sections alone and makes cfg the gate_config.
LEMMA InServer ==
    ASSUME Types, Agreement, phase = "reading", phase' = phase, options' = options,
           NEW s \in Servers, NEW c \in Contexts, NEW name, NEW args,
           [server |-> s, context |-> c, name |-> name, args |-> args] \in Directives,
           Directive(s, c, name, args),
           config' = [config EXCEPT ![s] = config'[s]], config'[s] \in ServerRec, config'[s].made,
           name = "Gate" => c = OutsideSections,
           config'[s].handler = IF name = "Gate" THEN args[1] ELSE config[s].handler,
           DOMAIN config'[s].handlers =
               DOMAIN config[s].handlers \cup {h \in Names : name = "GateDeclare" /\ args[1] = h},
           \A h \in DOMAIN config'[s].handlers :
               Get(config'[s].handlers[h], "GateDatabase") =
                   IF name = "GateDatabase" /\ args[1] = h THEN args[2]
                   ELSE IF h \in DOMAIN config[s].handlers
                   THEN Get(config[s].handlers[h], "GateDatabase") ELSE NoValue,
           name = "GateDatabase" => args[1] \in DOMAIN config[s].handlers
    PROVE  Types' /\ Agreement'
<1>1. \A t \in Servers \ {s} : config'[t] = config[t] /\ options'[t] = options[t]
  BY DEF Types
<1>2. config' \in [Servers -> ServerRec]
  BY ZenonT(40) DEF Types
<1>3. read' \in Seq(Directives)
  BY DirectiveSaid DEF Types
<1>4. Types'
  BY <1>2, <1>3 DEF Types
<1>5. \A d \in Sections :
         Get(options'[s][d], "Gate") = IF d = c /\ name = "Gate" THEN args[1]
                                       ELSE Get(options[s][d], "Gate")
  <2>1. OutsideSections \notin Sections
    BY ConfigAssumption DEF OutsideSections, Sections
  <2> QED
    BY <2>1
<1>6. config'[s].handler = IF c = OutsideSections /\ name = "Gate" THEN args[1]
                           ELSE config[s].handler
  BY ZenonT(40), <1>1
<1>7. Agreement'
  BY <1>1, <1>5, <1>6, Settled
<1> QED
  BY <1>4, <1>7

\* A directive in a section, that sets key to value there.
LEMMA InSection ==
    ASSUME Types, Agreement, phase = "reading",
           NEW s \in Servers, NEW c \in Sections, NEW name, NEW args,
           [server |-> s, context |-> c, name |-> name, args |-> args] \in Directives,
           Directive(s, c, name, args),
           NEW key \in UserKeys \cup {"Gate", "GateDatabase"},
           NEW value \in Names \cup Paths \cup UserValues,
           SetSection(s, c, key, value),
           name \notin {"GateDeclare", "GateDatabase"},
           key = "Gate" <=> name = "Gate", name = "Gate" => args[1] = value
    PROVE  Types' /\ Agreement'
<1> DEFINE m == Made(s)
<1>0. c \in Contexts /\ c # OutsideSections
  BY ConfigAssumption DEF Contexts, OutsideSections, Sections
<1>1. /\ m \in ServerRec /\ m.made /\ m.handler = config[s].handler
      /\ m.handlers = config[s].handlers
  BY MadeFacts DEF Agreement
<1>2. /\ phase' = phase /\ config' = [config EXCEPT ![s] = m]
      /\ options' = [options EXCEPT ![s][c] = Set(@, key, value)]
  BY DEF SetSection
<1> HIDE DEF m
<1>3. options[s][c] \in SectionTable
  BY DEF Types
<1>4. /\ Set(options[s][c], key, value) \in SectionTable
      /\ \A j : Get(Set(options[s][c], key, value), j) =
                   IF j = key THEN value ELSE Get(options[s][c], j)
  <2> DEFINE Keys == UserKeys \cup {"Gate", "GateDatabase"}
             Values == Names \cup Paths \cup UserValues
             table == options[s][c]
  <2>1. table \in TableOf(Keys, Values) /\ key \in Keys /\ value \in Values
    BY <1>3 DEF SectionTable
  <2>2. TableOf(Keys, Values) = SectionTable
    BY DEF SectionTable
  <2> HIDE DEF Keys, Values, table
  <2>3. Set(table, key, value) \in TableOf(Keys, Values)
    BY <2>1, SetFacts, Zenon
  <2>4. \A j : Get(Set(table, key, value), j) = IF j = key THEN value ELSE Get(table, j)
    BY DEF Set, Get
  <2> QED
    BY <2>2, <2>3, <2>4 DEF table
<1>5. /\ config'[s] = m /\ config' \in [Servers -> ServerRec]
      /\ \A t \in Servers \ {s} : config'[t] = config[t] /\ options'[t] = options[t]
  BY <1>1, <1>2 DEF Types
<1>6. options'[s] = [options[s] EXCEPT ![c] = Set(options[s][c], key, value)]
  BY <1>2 DEF Types
<1>7. options[s] \in [Sections -> SectionTable]
  BY ZenonT(40) DEF Types
<1>8. /\ options'[s] \in [Sections -> SectionTable]
      /\ options'[s][c] = Set(options[s][c], key, value)
      /\ \A d \in Sections \ {c} : options'[s][d] = options[s][d]
  BY <1>4, <1>6, <1>7
<1>9. options' \in [Servers -> [Sections -> SectionTable]]
  <2>1. DOMAIN options' = Servers /\ options' = [t \in Servers |-> options'[t]]
    BY ZenonT(40), <1>2 DEF Types
  <2>2. \A t \in Servers : options'[t] \in [Sections -> SectionTable]
    BY <1>5, <1>8 DEF Types
  <2> QED
    BY <2>1, <2>2, Zenon
<1>10. read' \in Seq(Directives)
  BY <1>0, DirectiveSaid DEF Types
<1>11. Types'
  BY <1>2, <1>5, <1>9, <1>10 DEF Types
<1>12. \A d \in Sections :
          Get(options'[s][d], "Gate") = IF d = c /\ name = "Gate" THEN args[1]
                                        ELSE Get(options[s][d], "Gate")
  BY ZenonT(40), <1>4, <1>8
<1>13. config'[s].handler = IF c = OutsideSections /\ name = "Gate" THEN args[1]
                            ELSE config[s].handler
  BY <1>0, <1>1, <1>5
<1>14. DOMAIN config'[s].handlers =
           DOMAIN config[s].handlers \cup {h \in Names : name = "GateDeclare" /\ args[1] = h}
  <2>1. {h \in Names : name = "GateDeclare" /\ args[1] = h} = {}
    BY ZenonT(40)
  <2> QED
    BY <1>1, <1>5, <2>1
<1>15. \A h \in DOMAIN config'[s].handlers :
           Get(config'[s].handlers[h], "GateDatabase") =
               IF name = "GateDatabase" /\ args[1] = h THEN args[2]
               ELSE IF h \in DOMAIN config[s].handlers
               THEN Get(config[s].handlers[h], "GateDatabase") ELSE NoValue
  BY <1>1, <1>5
<1>16. Agreement'
  BY <1>0, <1>1, <1>2, <1>5, <1>12, <1>13, <1>14, <1>15, Settled
<1> QED
  BY <1>11, <1>16

\* What a directive of httpd.conf adds to the list is a directive.
LEMMA Spoken ==
    ASSUME NEW s \in Servers, NEW c \in Contexts, NEW w1 \in Words, NEW w2 \in Words,
           NEW w3 \in Words,
           NEW name \in {"GateDefaultDatabase", "GateConfig", "GateEnv", "Gate", "GateDeclare",
                         "GateDatabase"}
    PROVE  /\ [server |-> s, context |-> c, name |-> name, args |-> <<w1>>] \in Directives
           /\ [server |-> s, context |-> c, name |-> name, args |-> <<w1, w2>>] \in Directives
           /\ [server |-> s, context |-> c, name |-> name, args |-> <<w1, w2, w3>>] \in Directives
<1>1. <<w1>> \in Seq(Words) \ {<<>>}
  OBVIOUS
<1>2. <<w1, w2>> \in Seq(Words) \ {<<>>}
  OBVIOUS
<1>3. <<w1, w2, w3>> \in Seq(Words) \ {<<>>}
  OBVIOUS
<1> QED
  BY <1>1, <1>2, <1>3 DEF Directives

\* A directive stands in a section or outside all.
LEMMA SectionOrNot == \A c \in Contexts : c # OutsideSections => c \in Sections
  BY DEF Contexts

\* One lemma for each directive: the tables agree with the files afterwards, too.
LEMMA AfterDefaultDatabase ==
    ASSUME Types, Agreement, NEW s \in Servers, NEW c \in Contexts, NEW p \in Paths,
           set_gate_default_database(s, c, p)
    PROVE  Types' /\ Agreement'
<1> DEFINE args == <<p>>
           m == Made(s)
           cfg == [m EXCEPT !.default_database = p]
           name == "GateDefaultDatabase"
<1>1. Directive(s, c, name, args) /\ phase = "reading"
  BY DEF set_gate_default_database, Directive
<1>2. [server |-> s, context |-> c, name |-> name, args |-> args] \in Directives
  BY ZenonT(40), Spoken DEF Words
<1>3. /\ m \in ServerRec /\ m.made /\ m.handler = config[s].handler
      /\ m.handlers = config[s].handlers
  BY <1>1, MadeFacts DEF Agreement
<1>4. CASE c = OutsideSections
  <2>1. /\ phase' = phase /\ options' = options /\ config' = [config EXCEPT ![s] = cfg]
    BY <1>4 DEF set_gate_default_database, SetServer
  <2> HIDE DEF m
  <2>4. /\ cfg \in ServerRec /\ cfg.made /\ cfg.handler = config[s].handler
        /\ cfg.handlers = config[s].handlers
    BY <1>3 DEF ServerRec
  <2>5. config'[s] = cfg
    BY <2>1 DEF Types
  <2> HIDE DEF cfg, args
  <2>6. config' = [config EXCEPT ![s] = config'[s]]
    BY ZenonT(40), <2>1, <2>5
  <2>7. config'[s] \in ServerRec /\ config'[s].made
    BY <2>4, <2>5
  <2>8. name # "Gate" /\ name # "GateDeclare" /\ name # "GateDatabase"
    OBVIOUS
  <2> HIDE DEF name
  <2>9. config'[s].handler = IF name = "Gate" THEN args[1] ELSE config[s].handler
    BY <2>4, <2>5, <2>8
  <2>10. DOMAIN config'[s].handlers =
           DOMAIN config[s].handlers \cup {h \in Names : name = "GateDeclare" /\ args[1] = h}
    BY <2>4, <2>5, <2>8
  <2>11. \A h \in DOMAIN config'[s].handlers :
           Get(config'[s].handlers[h], "GateDatabase") =
               IF name = "GateDatabase" /\ args[1] = h THEN args[2]
               ELSE IF h \in DOMAIN config[s].handlers
               THEN Get(config[s].handlers[h], "GateDatabase") ELSE NoValue
    BY <2>4, <2>5, <2>8
  <2> QED
    BY <1>1, <1>2, <2>1, <2>6, <2>7, <2>8, <2>9, <2>10, <2>11, InServer, Zenon
<1>5. CASE c # OutsideSections
  <2>1. SetSection(s, c, "GateDatabase", p) /\ c \in Sections
    BY <1>5, SectionOrNot DEF set_gate_default_database
  <2> HIDE DEF args
  <2> QED
    BY <1>1, <1>2, <2>1, InSection
<1> QED
  BY <1>4, <1>5

LEMMA AfterConfigVar ==
    ASSUME Types, Agreement, NEW s \in Servers, NEW c \in Contexts,
           NEW k \in UserKeys, NEW v \in UserValues, set_gate_config_var(s, c, k, v)
    PROVE  Types' /\ Agreement'
<1> DEFINE args == <<k, v>>
           m == Made(s)
           table == Set(m.options, k, v)
           cfg == [m EXCEPT !.options = table]
           name == "GateConfig"
<1>1. Directive(s, c, name, args) /\ phase = "reading"
  BY DEF set_gate_config_var, Directive
<1>2. [server |-> s, context |-> c, name |-> name, args |-> args] \in Directives
  BY ZenonT(40), Spoken DEF Words
<1>3. /\ m \in ServerRec /\ m.made /\ m.handler = config[s].handler
      /\ m.handlers = config[s].handlers
  BY <1>1, MadeFacts DEF Agreement
<1>4. CASE c = OutsideSections
  <2>1. /\ phase' = phase /\ options' = options /\ config' = [config EXCEPT ![s] = cfg]
    BY <1>4 DEF set_gate_config_var, SetServer
  <2> HIDE DEF m
  <2>2. m.options \in TableOf(UserKeys, UserValues)
    BY <1>3 DEF ServerRec
  <2>3. table \in TableOf(UserKeys, UserValues)
    BY <2>2, SetFacts, Zenon
  <2> HIDE DEF table
  <2>4. /\ cfg \in ServerRec /\ cfg.made /\ cfg.handler = config[s].handler
        /\ cfg.handlers = config[s].handlers
    BY <1>3, <2>3 DEF ServerRec
  <2>5. config'[s] = cfg
    BY <2>1 DEF Types
  <2> HIDE DEF cfg, args
  <2>6. config' = [config EXCEPT ![s] = config'[s]]
    BY ZenonT(40), <2>1, <2>5
  <2>7. config'[s] \in ServerRec /\ config'[s].made
    BY <2>4, <2>5
  <2>8. name # "Gate" /\ name # "GateDeclare" /\ name # "GateDatabase"
    OBVIOUS
  <2> HIDE DEF name
  <2>9. config'[s].handler = IF name = "Gate" THEN args[1] ELSE config[s].handler
    BY <2>4, <2>5, <2>8
  <2>10. DOMAIN config'[s].handlers =
           DOMAIN config[s].handlers \cup {h \in Names : name = "GateDeclare" /\ args[1] = h}
    BY <2>4, <2>5, <2>8
  <2>11. \A h \in DOMAIN config'[s].handlers :
           Get(config'[s].handlers[h], "GateDatabase") =
               IF name = "GateDatabase" /\ args[1] = h THEN args[2]
               ELSE IF h \in DOMAIN config[s].handlers
               THEN Get(config[s].handlers[h], "GateDatabase") ELSE NoValue
    BY <2>4, <2>5, <2>8
  <2> QED
    BY <1>1, <1>2, <2>1, <2>6, <2>7, <2>8, <2>9, <2>10, <2>11, InServer, Zenon
<1>5. CASE c # OutsideSections
  <2>1. SetSection(s, c, k, v) /\ c \in Sections
    BY <1>5, SectionOrNot DEF set_gate_config_var
  <2>2. k # "Gate"
    BY ConfigAssumption
  <2> HIDE DEF args
  <2> QED
    BY <1>1, <1>2, <2>1, <2>2, InSection
<1> QED
  BY <1>4, <1>5

LEMMA AfterEnvVar ==
    ASSUME Types, Agreement, NEW s \in Servers, NEW c \in Contexts,
           NEW k \in UserKeys, NEW v \in UserValues, set_gate_env_var(s, c, k, v)
    PROVE  Types' /\ Agreement'
<1> DEFINE args == <<k, v>>
           cfg == Made(s)
           name == "GateEnv"
<1>1. Directive(s, c, name, args) /\ phase = "reading"
  BY DEF set_gate_env_var, Directive
<1>2. [server |-> s, context |-> c, name |-> name, args |-> args] \in Directives
  BY ZenonT(40), Spoken DEF Words
<1>3. /\ cfg \in ServerRec /\ cfg.made /\ cfg.handler = config[s].handler
      /\ cfg.handlers = config[s].handlers
  BY <1>1, MadeFacts DEF Agreement
<1>4. phase' = phase /\ options' = options /\ config' = [config EXCEPT ![s] = cfg]
  BY DEF set_gate_env_var
<1>5. config'[s] = cfg
  BY <1>4 DEF Types
<1> HIDE DEF cfg, args
<1>6. config' = [config EXCEPT ![s] = config'[s]]
  BY ZenonT(40), <1>4, <1>5
<1>7. config'[s] \in ServerRec /\ config'[s].made
  BY <1>3, <1>5
<1>8. name # "Gate" /\ name # "GateDeclare" /\ name # "GateDatabase"
  OBVIOUS
<1> HIDE DEF name
<1>9. config'[s].handler = IF name = "Gate" THEN args[1] ELSE config[s].handler
  BY <1>3, <1>5, <1>8
<1>10. DOMAIN config'[s].handlers =
         DOMAIN config[s].handlers \cup {h \in Names : name = "GateDeclare" /\ args[1] = h}
  BY <1>3, <1>5, <1>8
<1>11. \A h \in DOMAIN config'[s].handlers :
         Get(config'[s].handlers[h], "GateDatabase") =
             IF name = "GateDatabase" /\ args[1] = h THEN args[2]
             ELSE IF h \in DOMAIN config[s].handlers
             THEN Get(config[s].handlers[h], "GateDatabase") ELSE NoValue
  BY <1>3, <1>5, <1>8
<1> QED
  BY <1>1, <1>2, <1>4, <1>6, <1>7, <1>8, <1>9, <1>10, <1>11, InServer, Zenon

LEMMA AfterGate ==
    ASSUME Types, Agreement, NEW s \in Servers, NEW c \in Contexts, NEW g \in Names,
           set_gate_filter(s, c, g)
    PROVE  Types' /\ Agreement'
<1> DEFINE args == <<g>>
           m == Made(s)
           cfg == [m EXCEPT !.handler = g]
           name == "Gate"
<1>1. Directive(s, c, name, args) /\ phase = "reading"
  BY DEF set_gate_filter, Directive
<1>2. [server |-> s, context |-> c, name |-> name, args |-> args] \in Directives
  BY ZenonT(40), Spoken DEF Words
<1>3. /\ m \in ServerRec /\ m.made /\ m.handlers = config[s].handlers
  BY <1>1, MadeFacts DEF Agreement
<1>a. args[1] = g
  OBVIOUS
<1>4. CASE c = OutsideSections
  <2>1. phase' = phase /\ options' = options /\ config' = [config EXCEPT ![s] = cfg]
    BY <1>4 DEF set_gate_filter, SetServer
  <2> HIDE DEF m
  <2>4. cfg \in ServerRec /\ cfg.made /\ cfg.handler = g /\ cfg.handlers = config[s].handlers
    BY <1>3 DEF ServerRec
  <2>5. config'[s] = cfg
    BY <2>1 DEF Types
  <2> HIDE DEF cfg, args
  <2>6. config' = [config EXCEPT ![s] = config'[s]]
    BY ZenonT(40), <2>1, <2>5
  <2>7. config'[s] \in ServerRec /\ config'[s].made
    BY <2>4, <2>5
  <2>8. name # "GateDeclare" /\ name # "GateDatabase"
    OBVIOUS
  <2>9. config'[s].handler = IF name = "Gate" THEN args[1] ELSE config[s].handler
    BY <1>a, <2>4, <2>5
  <2> HIDE DEF name
  <2>10. DOMAIN config'[s].handlers =
           DOMAIN config[s].handlers \cup {h \in Names : name = "GateDeclare" /\ args[1] = h}
    BY <2>4, <2>5, <2>8
  <2>11. \A h \in DOMAIN config'[s].handlers :
           Get(config'[s].handlers[h], "GateDatabase") =
               IF name = "GateDatabase" /\ args[1] = h THEN args[2]
               ELSE IF h \in DOMAIN config[s].handlers
               THEN Get(config[s].handlers[h], "GateDatabase") ELSE NoValue
    BY <2>4, <2>5, <2>8
  <2> QED
    BY <1>1, <1>2, <1>4, <2>1, <2>6, <2>7, <2>8, <2>9, <2>10, <2>11, InServer, Zenon
<1>5. CASE c # OutsideSections
  <2>1. SetSection(s, c, "Gate", g) /\ c \in Sections
    BY <1>5, SectionOrNot DEF set_gate_filter
  <2> HIDE DEF args
  <2> QED
    BY <1>1, <1>2, <1>a, <2>1, InSection
<1> QED
  BY <1>4, <1>5

\* A directive refused.
LEMMA AfterRefusal ==
    ASSUME Types, Refuse, NEW s \in Servers, NEW c \in Contexts, NEW name, NEW args,
           [server |-> s, context |-> c, name |-> name, args |-> args] \in Directives,
           Directive(s, c, name, args)
    PROVE  Types' /\ Agreement'
<1>1. read' \in Seq(Directives)
  BY DirectiveSaid DEF Types
<1> QED
  BY <1>1 DEF Types, Agreement, Refuse

LEMMA AfterDeclare ==
    ASSUME Types, Agreement, NEW s \in Servers, NEW c \in Contexts, NEW g \in Names,
           set_gate_filter_declare(s, c, g)
    PROVE  Types' /\ Agreement'
<1> DEFINE args == <<g>>
           m == Made(s)
           table == Set(m.handlers, g, EmptyTable)
           cfg == IF g \in DOMAIN m.handlers THEN m ELSE [m EXCEPT !.handlers = table]
           name == "GateDeclare"
<1>1. Directive(s, c, name, args) /\ phase = "reading"
  BY DEF set_gate_filter_declare, Directive
<1>2. [server |-> s, context |-> c, name |-> name, args |-> args] \in Directives
  BY ZenonT(40), Spoken DEF Words
<1>3. /\ m \in ServerRec /\ m.made /\ m.handler = config[s].handler
      /\ m.handlers = config[s].handlers
  BY <1>1, MadeFacts DEF Agreement
<1>a. args[1] = g
  OBVIOUS
<1>4. CASE c = OutsideSections /\ SetServer(s, cfg)
  <2>1. phase' = phase /\ options' = options /\ config' = [config EXCEPT ![s] = cfg]
    BY <1>4 DEF SetServer
  <2> HIDE DEF m
  <2>2. m.handlers \in TableOf(Names, HandlerTable) /\ EmptyTable \in HandlerTable
    BY <1>3, EmptyIsTable DEF ServerRec, HandlerTable
  <2>3. table \in TableOf(Names, HandlerTable) /\ DOMAIN table = DOMAIN m.handlers \cup {g}
        /\ table[g] = EmptyTable /\ \A h \in DOMAIN m.handlers : h # g => table[h] = m.handlers[h]
    <3>1. table \in TableOf(Names, HandlerTable)
      BY <2>2, SetFacts, Zenon
    <3> QED
      BY <3>1 DEF Set
  <2> HIDE DEF table
  <2>4. cfg \in ServerRec /\ cfg.made /\ cfg.handler = config[s].handler
    BY <1>3, <2>3 DEF ServerRec
  <2>5. DOMAIN cfg.handlers = DOMAIN m.handlers \cup {g}
    BY <1>3, <2>3 DEF ServerRec
  <2>6. \A h \in DOMAIN cfg.handlers :
            cfg.handlers[h] = IF h \in DOMAIN m.handlers THEN m.handlers[h] ELSE EmptyTable
    BY <1>3, <2>3 DEF ServerRec
  <2>7. config'[s] = cfg
    BY <2>1 DEF Types
  <2> HIDE DEF cfg, args
  <2>8. config' = [config EXCEPT ![s] = config'[s]] /\ config'[s] \in ServerRec /\ config'[s].made
    BY ZenonT(40), <2>1, <2>4, <2>7
  <2>9. name # "Gate" /\ name # "GateDatabase"
    OBVIOUS
  <2>10. DOMAIN config'[s].handlers =
           DOMAIN config[s].handlers \cup {h \in Names : name = "GateDeclare" /\ args[1] = h}
    BY <1>3, <1>a, <2>5, <2>7
  <2> HIDE DEF name
  <2>11. config'[s].handler = IF name = "Gate" THEN args[1] ELSE config[s].handler
    BY <2>4, <2>7, <2>9
  <2>12. \A h \in DOMAIN config'[s].handlers :
           Get(config'[s].handlers[h], "GateDatabase") =
               IF name = "GateDatabase" /\ args[1] = h THEN args[2]
               ELSE IF h \in DOMAIN config[s].handlers
               THEN Get(config[s].handlers[h], "GateDatabase") ELSE NoValue
    BY <1>3, <2>6, <2>7, <2>9, EmptyIsTable
  <2> QED
    BY <1>1, <1>2, <2>1, <2>8, <2>9, <2>10, <2>11, <2>12, InServer, Zenon
<1>5. CASE Refuse
  <2> HIDE DEF args
  <2> QED
    BY <1>1, <1>2, <1>5, AfterRefusal
<1> QED
  BY <1>4, <1>5 DEF set_gate_filter_declare

\* GateDatabase and a handler's GateConfig share gate_filter_set_params.
LEMMA AfterParams ==
    ASSUME Types, Agreement, NEW s \in Servers, NEW c \in Contexts, NEW g \in Names,
           NEW key \in UserKeys \cup {"GateDatabase"}, NEW value \in Paths \cup UserValues,
           NEW name, name # "Gate", name # "GateDeclare", NEW args, args[1] = g,
           [server |-> s, context |-> c, name |-> name, args |-> args] \in Directives,
           Directive(s, c, name, args),
           key = "GateDatabase" <=> name = "GateDatabase",
           name = "GateDatabase" => args[2] = value,
           gate_filter_set_params(s, c, key, g, value)
    PROVE  Types' /\ Agreement'
<1> DEFINE m == Made(s)
           table == Set(m.handlers[g], key, value)
           cfg == [m EXCEPT !.handlers[g] = table]
<1>1. phase = "reading"
  BY ZenonT(40) DEF Directive
<1>3. /\ m \in ServerRec /\ m.made /\ m.handler = config[s].handler
      /\ m.handlers = config[s].handlers
  BY <1>1, MadeFacts DEF Agreement
<1>4. CASE g \in DOMAIN m.handlers /\ SetServer(s, cfg)
  <2>1. phase' = phase /\ options' = options /\ config' = [config EXCEPT ![s] = cfg]
    BY <1>4 DEF SetServer
  <2> HIDE DEF m
  <2>2. m.handlers \in TableOf(Names, HandlerTable)
    BY ZenonT(40), <1>3 DEF ServerRec
  <2>3. DOMAIN m.handlers \in SUBSET Names /\ m.handlers \in [DOMAIN m.handlers -> HandlerTable]
        /\ m.handlers[g] \in HandlerTable
    <3> DEFINE t == m.handlers
    <3> HIDE DEF t
    <3>1. t \in TableOf(Names, HandlerTable) /\ g \in DOMAIN t
      BY <1>4, <2>2 DEF t
    <3>2. DOMAIN t \in SUBSET Names /\ t \in [DOMAIN t -> HandlerTable]
      BY <3>1, TableFacts, Zenon
    <3>3. t[g] \in HandlerTable
      BY <3>1, <3>2
    <3> QED
      BY ZenonT(40), <3>2, <3>3 DEF t
  <2>4. table \in HandlerTable
    <3> DEFINE Keys == UserKeys \cup {"GateDatabase"}
               Values == Paths \cup UserValues
    <3>1. m.handlers[g] \in TableOf(Keys, Values) /\ key \in Keys /\ value \in Values
      BY ZenonT(40), <2>3 DEF HandlerTable
    <3>2. HandlerTable = TableOf(Keys, Values)
      BY DEF HandlerTable
    <3> HIDE DEF Keys, Values
    <3> QED
      BY <3>1, <3>2, SetFacts, ZenonT(40)
  <2>5. \A j : Get(table, j) = IF j = key THEN value ELSE Get(m.handlers[g], j)
    BY Zenon DEF Set, Get
  <2> HIDE DEF table
  <2> DEFINE all == [m.handlers EXCEPT ![g] = table]
  <2>6. /\ all \in [DOMAIN m.handlers -> HandlerTable] /\ DOMAIN all = DOMAIN m.handlers
        /\ all[g] = table /\ \A h \in DOMAIN m.handlers : h # g => all[h] = m.handlers[h]
    BY <1>4, <2>3, <2>4
  <2>7. all \in TableOf(Names, HandlerTable)
    BY <2>3, <2>6, TableIs, Zenon
  <2>8. cfg = [m EXCEPT !.handlers = all]
    BY <1>3 DEF ServerRec
  <2> HIDE DEF all, cfg
  <2>9. cfg \in ServerRec /\ cfg.made /\ cfg.handler = config[s].handler /\ cfg.handlers = all
    BY <1>3, <2>7, <2>8 DEF ServerRec
  <2>10. config'[s] = cfg
    BY <2>1 DEF Types
  <2>11. config' = [config EXCEPT ![s] = config'[s]] /\ config'[s] \in ServerRec /\ config'[s].made
    BY ZenonT(40), <2>1, <2>9, <2>10
  <2>12. DOMAIN config'[s].handlers =
           DOMAIN config[s].handlers \cup {h \in Names : name = "GateDeclare" /\ args[1] = h}
    BY ZenonT(40), <1>3, <2>6, <2>9, <2>10
  <2>13. config'[s].handler = IF name = "Gate" THEN args[1] ELSE config[s].handler
    BY <2>9, <2>10
  <2>14. ASSUME NEW h \in DOMAIN config'[s].handlers
         PROVE  Get(config'[s].handlers[h], "GateDatabase") =
                   IF name = "GateDatabase" /\ args[1] = h THEN args[2]
                   ELSE IF h \in DOMAIN config[s].handlers
                   THEN Get(config[s].handlers[h], "GateDatabase") ELSE NoValue
    <3>1. h \in DOMAIN m.handlers /\ config'[s].handlers[h] = all[h] /\ h \in DOMAIN config[s].handlers
      BY ZenonT(40), <1>3, <2>6, <2>9, <2>10
    <3>2. CASE h = g
      BY <1>3, <2>5, <2>6, <3>1, <3>2
    <3>3. CASE h # g
      BY ZenonT(40), <1>3, <2>6, <3>1, <3>3
    <3> QED
      BY Zenon, <3>2, <3>3
  <2>15. args[1] \in DOMAIN config[s].handlers
    BY ZenonT(40), <1>3, <1>4
  <2> QED
    <3>1. \A h \in DOMAIN config'[s].handlers :
            Get(config'[s].handlers[h], "GateDatabase") =
               IF name = "GateDatabase" /\ args[1] = h THEN args[2]
               ELSE IF h \in DOMAIN config[s].handlers
               THEN Get(config[s].handlers[h], "GateDatabase") ELSE NoValue
      BY <2>14
    <3> QED
      BY <1>1, <2>1, <2>11, <2>12, <2>13, <3>1, <2>15, InServer, ZenonT(40)
<1>5. CASE Refuse
  BY <1>5, AfterRefusal
<1> QED
  BY <1>4, <1>5 DEF gate_filter_set_params

LEMMA AfterDatabase ==
    ASSUME Types, Agreement, NEW s \in Servers, NEW c \in Contexts, NEW g \in Names,
           NEW p \in Paths, set_gate_filter_database(s, c, g, p)
    PROVE  Types' /\ Agreement'
<1> DEFINE args == <<g, p>>
<1>1. args[1] = g /\ args[2] = p
  OBVIOUS
<1>2. [server |-> s, context |-> c, name |-> "GateDatabase", args |-> args] \in Directives
  BY ZenonT(40), Spoken DEF Words
<1>3. /\ Directive(s, c, "GateDatabase", args)
      /\ gate_filter_set_params(s, c, "GateDatabase", g, p)
  BY DEF set_gate_filter_database
<1> HIDE DEF args
<1> QED
  BY <1>1, <1>2, <1>3, AfterParams

LEMMA AfterHandlerConfig ==
    ASSUME Types, Agreement, NEW s \in Servers, NEW c \in Contexts, NEW g \in Names,
           NEW k \in UserKeys, NEW v \in UserValues, set_gate_filter_config(s, c, g, k, v)
    PROVE  Types' /\ Agreement'
<1> DEFINE args == <<g, k, v>>
<1>1. args[1] = g /\ k # "GateDatabase"
  BY ConfigAssumption
<1>2. [server |-> s, context |-> c, name |-> "GateConfig", args |-> args] \in Directives
  BY ZenonT(40), Spoken DEF Words
<1>3. /\ Directive(s, c, "GateConfig", args)
      /\ gate_filter_set_params(s, c, k, g, v)
  BY DEF set_gate_filter_config
<1> HIDE DEF args
<1> QED
  BY <1>1, <1>2, <1>3, AfterParams

-----------------------------------------------------------------------------
(* The sections on a request's path. *)

\* A section's own table has the type the merge expects.
LEMMA OwnTable ==
    ASSUME Types, NEW s \in Servers, NEW d \in Sections
    PROVE  options[s][d] \in SectionTable
  BY DEF Types

\* merge_dir_conf: what the inner section says hides what the outer one says.
LEMMA MergeFacts ==
    ASSUME NEW t \in SectionTable, NEW u \in SectionTable
    PROVE  /\ merge_dir_conf(t, u) \in SectionTable
           /\ \A j : Get(merge_dir_conf(t, u), j) = IF j \in DOMAIN u THEN u[j] ELSE Get(t, j)
<1> DEFINE Keys == UserKeys \cup {"Gate", "GateDatabase"}
           Values == Names \cup Paths \cup UserValues
<1>1. SectionTable = TableOf(Keys, Values)
  BY DEF SectionTable
<1> HIDE DEF Keys, Values
<1>2. Overlay(t, u) \in SectionTable
  BY <1>1, OverlayFacts, Zenon
<1>3. \A j : Get(Overlay(t, u), j) = IF j \in DOMAIN u THEN u[j] ELSE Get(t, j)
  BY DEF Overlay, Get
<1> QED
  BY <1>2, <1>3 DEF merge_dir_conf

\* The table after section d, and what it has taken from where.
LEMMA Merged ==
    ASSUME Types, NEW s \in Servers, NEW n \in Nat, n <= Len(Dirs)
    PROVE  \E f \in [0..n -> SectionTable] :
               /\ f[0] = EmptyTable /\ DirectoryOptions(s, n) = f[n]
               /\ \A d \in 1..n : \A j :
                    Get(f[d], j) = IF j \in DOMAIN options[s][d] THEN options[s][d][j]
                                   ELSE IF j \in DOMAIN options[Main][d] THEN options[Main][d][j]
                                   ELSE Get(f[d - 1], j)
<1> DEFINE After(d, t) == LET outer == merge_dir_conf(t, options[Main][d])
                          IN  IF s = Main THEN outer ELSE merge_dir_conf(outer, options[s][d])
           step == [d \in 1..n |-> [t \in SectionTable |-> After(d, t)]]
           m == CHOOSE f : f = [d \in 0..n |-> IF d = 0 THEN EmptyTable ELSE After(d, f[d - 1])]
<1>1. \A d \in 1..n : d \in Sections
  <2>1. Len(Dirs) \in Nat /\ Sections = 1..Len(Dirs)
    BY ConfigAssumption DEF Sections
  <2> QED
    BY <2>1
<1>2. Main \in Servers /\ EmptyTable \in SectionTable
  BY ZenonT(40), EmptyIsTable DEF Servers, SectionTable
<1>3. ASSUME NEW d \in 1..n, NEW t \in SectionTable
      PROVE  /\ After(d, t) \in SectionTable
             /\ \A j : Get(After(d, t), j) = IF j \in DOMAIN options[s][d] THEN options[s][d][j]
                                   ELSE IF j \in DOMAIN options[Main][d] THEN options[Main][d][j]
                                   ELSE Get(t, j)
  <2>1. options[Main][d] \in SectionTable /\ options[s][d] \in SectionTable
    BY <1>1, <1>2, OwnTable
  <2> DEFINE outer == merge_dir_conf(t, options[Main][d])
  <2>2. /\ outer \in SectionTable
        /\ \A j : Get(outer, j) = IF j \in DOMAIN options[Main][d] THEN options[Main][d][j]
                                  ELSE Get(t, j)
    BY <2>1, MergeFacts
  <2> HIDE DEF outer
  <2>3. CASE s = Main
    <3>1. After(d, t) = outer
      BY <2>3 DEF outer
    <3> QED
      BY <2>2, <2>3, <3>1
  <2>4. CASE s # Main
    <3> DEFINE both == merge_dir_conf(outer, options[s][d])
    <3>1. After(d, t) = both
      BY <2>4 DEF outer
    <3>2. /\ both \in SectionTable
          /\ \A j : Get(both, j) = IF j \in DOMAIN options[s][d] THEN options[s][d][j]
                                   ELSE Get(outer, j)
      BY <2>1, <2>2, MergeFacts
    <3> HIDE DEF both
    <3> QED
      BY <2>2, <3>1, <3>2
  <2> QED
    BY <2>3, <2>4
<1>4. DirectoryOptions(s, n) = m[n]
  BY DEF DirectoryOptions
<1> HIDE DEF After
<1>5. \A k \in 1..n, t \in SectionTable : step[k][t] \in SectionTable
  BY <1>3
<1>6. PICK f \in [0..n -> SectionTable] : f[0] = EmptyTable /\ \A k \in 1..n : f[k] = step[k][f[k - 1]]
  <2> HIDE DEF step
  <2>1. \E f : Iterates(f, n, SectionTable, EmptyTable, step)
    BY <1>2, <1>5, Iteration, Zenon
  <2> QED
    BY <2>1, Zenon DEF Iterates
<1>7. f = [d \in 0..n |-> IF d = 0 THEN EmptyTable ELSE After(d, f[d - 1])]
  <2>1. ASSUME NEW d \in 0..n, d # 0 PROVE f[d] = After(d, f[d - 1])
    <3>1. d \in 1..n /\ d - 1 \in 0..n
      BY <2>1
    <3>2. f[d] = step[d][f[d - 1]] /\ f[d - 1] \in SectionTable
      BY <1>6, <3>1
    <3> QED
      BY <3>1, <3>2
  <2> QED
    BY <1>6, <2>1
<1>8. m = [d \in 0..n |-> IF d = 0 THEN EmptyTable ELSE After(d, m[d - 1])]
  BY <1>7, Zenon
<1> HIDE DEF m
<1>9. /\ m[0] = EmptyTable /\ \A d \in 1..n : m[d] = After(d, m[d - 1])
  <2>1. 0 \in 0..n /\ \A d \in 1..n : d \in 0..n /\ d # 0
    OBVIOUS
  <2> QED
    BY <1>8, <2>1, Zenon
<1>10. 0..n \subseteq {k \in 0..n : m[k] \in SectionTable}
  <2> DEFINE T == {k \in 0..n : m[k] \in SectionTable}
  <2>1. 0 \in T
    BY <1>2, <1>9
  <2>2. \A k \in T : k \in 0..(n - 1) => k + 1 \in T
    <3> TAKE k \in T
    <3> HAVE k \in 0..(n - 1)
    <3>1. k + 1 \in 1..n /\ (k + 1) - 1 = k /\ k + 1 \in 0..n /\ m[k] \in SectionTable
      OBVIOUS
    <3>2. m[k + 1] = After(k + 1, m[k])
      BY <1>9, <3>1
    <3> QED
      BY <1>3, <3>1, <3>2
  <2> HIDE DEF T
  <2>3. 0..n \subseteq T
    BY <2>1, <2>2, BoundedInduction
  <2> QED
    BY <2>3 DEF T
<1>11. m \in [0..n -> SectionTable]
  <2>1. \A k \in 0..n : m[k] \in SectionTable
    BY <1>10, Zenon
  <2>2. DOMAIN m = 0..n /\ m = [k \in 0..n |-> m[k]]
    BY <1>8
  <2> QED
    BY <2>1, <2>2, Zenon
<1>12. \A d \in 1..n : \A j :
          Get(m[d], j) = IF j \in DOMAIN options[s][d] THEN options[s][d][j]
                         ELSE IF j \in DOMAIN options[Main][d] THEN options[Main][d][j]
                         ELSE Get(m[d - 1], j)
  <2> TAKE d \in 1..n
  <2> TAKE j
  <2>1. d - 1 \in 0..n
    OBVIOUS
  <2>2. m[d - 1] \in SectionTable /\ m[d] = After(d, m[d - 1])
    BY <1>9, <1>10, <2>1
  <2> QED
    BY <1>3, <2>2
<1> QED
  BY ZenonT(40), <1>4, <1>9, <1>11, <1>12

\* The first argument of a directive is a word.
LEMMA DirectiveWords == ASSUME NEW r \in Directives PROVE r.args[1] \in Words
<1>1. r.args \in Seq(Words) /\ r.args # <<>>
  BY DEF Directives
<1> HIDE DEF Directives
<1> DEFINE a == r.args
<1> HIDE DEF a
<1>2. a \in Seq(Words) /\ a # <<>>
  BY <1>1 DEF a
<1>3. Len(a) \in Nat /\ Len(a) # 0 /\ \A i \in 1..Len(a) : a[i] \in Words
  BY <1>2
<1>4. a[1] \in Words
  BY <1>3
<1> QED
  BY <1>4 DEF a

\* Where Gate is said, a name is.
LEMMA SaidIsValue ==
    ASSUME read \in Seq(Directives), NEW s, NEW c, Gates(s, c) # {}
    PROVE  LastSaid(Gates(s, c), 1) # NoValue
<1> DEFINE S == Gates(s, c)
           m == CHOOSE i \in S : \A j \in S : j <= i
<1>1. S \in SUBSET (1..Len(read)) /\ Len(read) \in Nat
  BY DEF Gates
<1>2. m \in S
  BY ZenonT(40), <1>1, GreatestOf
<1>3. LastSaid(S, 1) = read[m].args[1]
  BY DEF LastSaid
<1> HIDE DEF m, S
<1>4. read[m] \in Directives
  BY <1>1, <1>2
<1>5. read[m].args[1] \in Words
  BY <1>4, DirectiveWords
<1>6. NoValue \notin Words
  BY ConfigAssumption DEF Words
<1> QED
  BY <1>3, <1>5, <1>6 DEF S

\* A section has a Gate if the files have one there.
LEMMA SectionGate ==
    ASSUME Types, NEW s \in Servers, NEW d \in Sections, Agrees(s)
    PROVE  /\ "Gate" \in DOMAIN options[s][d] <=> Gates(s, d) # {}
           /\ Gates(s, d) # {} => options[s][d]["Gate"] = LastSaid(Gates(s, d), 1)
<1> DEFINE t == options[s][d]
<1>1. t \in SectionTable /\ Get(t, "Gate") = LastSaid(Gates(s, d), 1) /\ read \in Seq(Directives)
  BY OwnTable DEF Agrees, Types
<1> HIDE DEF t
<1>2. "Gate" \in DOMAIN t => t["Gate"] # NoValue
  <2> DEFINE Values == Names \cup Paths \cup UserValues
  <2>1. NoValue \notin Values
    BY ConfigAssumption
  <2>2. \A j \in DOMAIN t : t[j] \in Values
    BY <1>1, TableFacts DEF SectionTable
  <2> HIDE DEF Values
  <2> QED
    BY <2>1, <2>2
<1>3. CASE Gates(s, d) = {}
  <2>1. Get(t, "Gate") = NoValue
    BY <1>1, <1>3 DEF LastSaid
  <2> QED
    BY <1>2, <1>3, <2>1 DEF Get, t
<1>4. CASE Gates(s, d) # {}
  <2>1. Get(t, "Gate") # NoValue
    BY <1>1, <1>4, SaidIsValue
  <2> QED
    BY <1>1, <1>4, <2>1 DEF Get, t
<1> QED
  BY <1>3, <1>4

\* The directories on the path that have a Gate, and the one said there.
GateDepths(s, n) == {d \in 1..n : Gates(s, d) \cup Gates(Main, d) # {}}

GateAt(s, d) == LastSaid(IF Gates(s, d) # {} THEN Gates(s, d) ELSE Gates(Main, d), 1)

InnermostOf(s, D) ==
    IF D = {} THEN NoValue ELSE GateAt(s, CHOOSE d \in D : \A e \in D : e <= d)

InnermostGate(s, n) == InnermostOf(s, GateDepths(s, n))

\* What the files say is the gate of the innermost section that names one.
LEMMA SaidGateIs ==
    \A s, n : SaidGate(s, n) = IF GateDepths(s, n) = {} THEN LastSaid(Gates(Owner(s), OutsideSections), 1)
                               ELSE InnermostGate(s, n)
  BY DEF SaidGate, InnermostGate, InnermostOf, GateDepths, GateAt

\* One more section on the path hides the outer ones if it names a gate.
LEMMA InnermostNext ==
    ASSUME NEW s, NEW k \in Nat
    PROVE  InnermostGate(s, k + 1) = IF Gates(s, k + 1) \cup Gates(Main, k + 1) # {}
                                     THEN GateAt(s, k + 1) ELSE InnermostGate(s, k)
<1>1. CASE Gates(s, k + 1) \cup Gates(Main, k + 1) # {}
  <2> DEFINE D == GateDepths(s, k + 1)
             m == CHOOSE d \in D : \A e \in D : e <= d
  <2>1. D \in SUBSET (1..(k + 1)) /\ k + 1 \in D /\ k + 1 \in Nat
    BY <1>1 DEF GateDepths
  <2>2. D # {} /\ m \in D /\ \A j \in D : j <= m
    <3> HIDE DEF D
    <3>1. D # {} /\ D \in SUBSET (1..(k + 1)) /\ k + 1 \in Nat
      BY <2>1
    <3>2. m \in D /\ \A j \in D : j <= m
      BY <3>1, GreatestOf, Zenon
    <3> QED
      BY <3>1, <3>2
  <2> HIDE DEF m, D
  <2>3. m = k + 1
    BY <2>1, <2>2
  <2>4. InnermostGate(s, k + 1) = GateAt(s, m)
    BY <2>2 DEF InnermostGate, InnermostOf, D, m
  <2> QED
    BY <1>1, <2>3, <2>4
<1>2. CASE Gates(s, k + 1) \cup Gates(Main, k + 1) = {}
  <2>1. \A d : d \in 1..(k + 1) <=> d \in 1..k \/ d = k + 1
    OBVIOUS
  <2>2. GateDepths(s, k + 1) = GateDepths(s, k)
    BY <1>2, <2>1, ZenonT(40) DEF GateDepths
  <2> QED
    BY <1>2, <2>2 DEF InnermostGate
<1> QED
  BY <1>1, <1>2

\* The Gate of the merged sections is that of the innermost one.
LEMMA MergedGate ==
    ASSUME Types, \A t \in Servers : Agrees(t), NEW s \in Servers, NEW n \in Nat, n <= Len(Dirs)
    PROVE  Get(DirectoryOptions(s, n), "Gate") = InnermostGate(s, n)
<1>1. PICK f \in [0..n -> SectionTable] :
               /\ f[0] = EmptyTable /\ DirectoryOptions(s, n) = f[n]
               /\ \A d \in 1..n : \A j :
                    Get(f[d], j) = IF j \in DOMAIN options[s][d] THEN options[s][d][j]
                                   ELSE IF j \in DOMAIN options[Main][d] THEN options[Main][d][j]
                                   ELSE Get(f[d - 1], j)
  BY Merged
<1> DEFINE T == {k \in 0..n : Get(f[k], "Gate") = InnermostGate(s, k)}
<1>2. 0 \in T
  <2>1. GateDepths(s, 0) = {}
    BY DEF GateDepths
  <2>2. InnermostGate(s, 0) = NoValue
    BY <2>1 DEF InnermostGate, InnermostOf
  <2>3. Get(f[0], "Gate") = NoValue
    BY <1>1, EmptyIsTable
  <2>4. 0 \in 0..n
    OBVIOUS
  <2> QED
    BY <2>2, <2>3, <2>4, Zenon
<1>3. ASSUME NEW k \in T, k \in 0..(n - 1) PROVE k + 1 \in T
  <2>1. /\ k \in Nat /\ k + 1 \in 1..n /\ (k + 1) - 1 = k /\ k + 1 \in 0..n
        /\ Get(f[k], "Gate") = InnermostGate(s, k)
    BY <1>3
  <2> DEFINE d == k + 1
  <2>2. d \in Sections
    <3>1. Len(Dirs) \in Nat /\ Sections = 1..Len(Dirs)
      BY ConfigAssumption DEF Sections
    <3> QED
      BY <2>1, <3>1
  <2>3. Get(f[d], "Gate") = IF "Gate" \in DOMAIN options[s][d] THEN options[s][d]["Gate"]
                            ELSE IF "Gate" \in DOMAIN options[Main][d] THEN options[Main][d]["Gate"]
                            ELSE InnermostGate(s, k)
    BY <1>1, <2>1
  <2>4. InnermostGate(s, d) = IF Gates(s, d) \cup Gates(Main, d) # {}
                              THEN GateAt(s, d) ELSE InnermostGate(s, k)
    BY Zenon, <2>1, InnermostNext
  <2>5. Main \in Servers
    BY DEF Servers
  <2> HIDE DEF d
  <2>6. /\ "Gate" \in DOMAIN options[s][d] <=> Gates(s, d) # {}
        /\ Gates(s, d) # {} => options[s][d]["Gate"] = LastSaid(Gates(s, d), 1)
        /\ "Gate" \in DOMAIN options[Main][d] <=> Gates(Main, d) # {}
        /\ Gates(Main, d) # {} => options[Main][d]["Gate"] = LastSaid(Gates(Main, d), 1)
    BY ZenonT(40), <2>2, <2>5, SectionGate
  <2>7. Get(f[d], "Gate") = InnermostGate(s, d)
    BY <2>3, <2>4, <2>6 DEF GateAt
  <2> QED
    BY <2>1, <2>7 DEF d
<1> HIDE DEF T
<1>4. 0..n \subseteq T
  BY <1>2, <1>3, BoundedInduction
<1>5. n \in T
  BY <1>4
<1> QED
  BY <1>1, <1>5 DEF T

-----------------------------------------------------------------------------
(* A request. *)

\* Types and Agreement are about the configuration and the files alone.
LEMMA SameFiles ==
    ASSUME Types, Agreement, UNCHANGED <<config, options, read>>,
           phase' \in {"reading", "running"}, phase # "failed"
    PROVE  Types' /\ Agreement'
<1>1. Types'
  BY DEF Types
<1>2. ASSUME NEW t \in Servers PROVE Agrees(t)'
  <2>1. Agrees(t)
    BY DEF Agreement
  <2>2. /\ Mentioned(t)' <=> Mentioned(t)
        /\ Declared(t)' = Declared(t)
    BY DEF Mentioned, Declared
  <2>3. \A c : Gates(t, c)' = Gates(t, c)
    BY DEF Gates
  <2>4. \A h : Databases(t, h)' = Databases(t, h)
    BY DEF Databases
  <2>5. ASSUME NEW c PROVE LastSaid(Gates(t, c), 1)' = LastSaid(Gates(t, c), 1)
    <3>1. LastSaid(Gates(t, c), 1)' = Latest(read', Gates(t, c)', 1)
      BY DEF LastSaid, Latest
    <3> QED
      BY <2>3, <3>1, LastIsLatest, ZenonT(40)
  <2>6. ASSUME NEW h PROVE LastSaid(Databases(t, h), 2)' = LastSaid(Databases(t, h), 2)
    <3>1. LastSaid(Databases(t, h), 2)' = Latest(read', Databases(t, h)', 2)
      BY DEF LastSaid, Latest
    <3> QED
      BY <2>4, <3>1, LastIsLatest, Zenon
  <2>7. config'[t] = config[t] /\ options'[t] = options[t]
    OBVIOUS
  <2> QED
    BY ZenonT(40), <2>1, <2>2, <2>4, <2>5, <2>6, <2>7 DEF Agrees
<1> QED
  BY <1>1, <1>2 DEF Agreement

\* A server resolves with the record of its owner, which agrees with the owner's files.
LEMMA OwnerConfig ==
    ASSUME Types, \A t \in Servers : Agrees(t), NEW s \in Servers
    PROVE  /\ Owner(s) \in Servers /\ ServerConfig(s) = config[Owner(s)]
           /\ Agrees(Owner(s)) /\ ServerConfig(s) \in ServerRec
<1>1. Main \in Servers
  BY ZenonT(40) DEF Servers
<1>2. config[s].made <=> s = Main \/ Mentioned(s)
  BY DEF Agrees
<1>3. Owner(s) = IF Mentioned(s) THEN s ELSE Main
  BY DEF Owner, Mentioned
<1>4. Owner(s) \in Servers
  BY <1>1, <1>3
<1>5. ServerConfig(s) = config[Owner(s)]
  BY <1>2, <1>3 DEF ServerConfig
<1>6. config[Owner(s)] \in ServerRec
  BY <1>4 DEF Types
<1> QED
  BY <1>4, <1>5, <1>6

\* The Gate in the notes is the one the files say.
LEMMA NotesGate ==
    ASSUME Types, \A t \in Servers : Agrees(t), NEW s \in Servers, NEW n \in Nat, n <= Len(Dirs)
    PROVE  Get(MergedNotes(s, n), "Gate") = SaidGate(s, n)
<1> DEFINE cfg == ServerConfig(s)
           dir == DirectoryOptions(s, n)
           copied == Overlay(cfg.options, dir)
           defaulted == merge_var(dir, copied, "GateDefaultDatabase", cfg.default_database)
           merged == merge_var(dir, defaulted, "Gate", cfg.handler)
<1>1. /\ cfg \in ServerRec /\ cfg = config[Owner(s)]
      /\ cfg.handler = LastSaid(Gates(Owner(s), OutsideSections), 1)
  BY ZenonT(40), OwnerConfig DEF Agrees
<1>2. Get(dir, "Gate") = InnermostGate(s, n)
  BY MergedGate
<1>3. dir \in SectionTable
  <2>1. PICK f \in [0..n -> SectionTable] : dir = f[n]
    BY Merged
  <2> QED
    BY <2>1
<1>4. MergedNotes(s, n) = merged
  BY DEF MergedNotes
<1> HIDE DEF dir, cfg
<1>5. "Gate" \notin DOMAIN cfg.options
  <2>1. cfg.options \in TableOf(UserKeys, UserValues)
    BY <1>1 DEF ServerRec
  <2>2. DOMAIN cfg.options \in SUBSET UserKeys
    BY <2>1 DEF TableOf
  <2> QED
    BY <2>2, ConfigAssumption
<1>6. "Gate" \in DOMAIN dir <=> GateDepths(s, n) # {}
  <2>1. "Gate" \in DOMAIN dir => dir["Gate"] # NoValue
    <3> DEFINE Values == Names \cup Paths \cup UserValues
    <3>1. NoValue \notin Values
      BY ConfigAssumption
    <3>2. \A j \in DOMAIN dir : dir[j] \in Values
      BY <1>3, TableFacts DEF SectionTable
    <3> HIDE DEF Values
    <3> QED
      BY <3>1, <3>2
  <2>2. CASE GateDepths(s, n) = {}
    <3>1. Get(dir, "Gate") = NoValue
      BY <1>2, <2>2 DEF InnermostGate, InnermostOf
    <3> QED
      BY <2>1, <2>2, <3>1 DEF Get
  <2>3. CASE GateDepths(s, n) # {}
    <3> DEFINE D == GateDepths(s, n)
               d == CHOOSE d \in D : \A e \in D : e <= d
    <3>1. D \in SUBSET (1..n) /\ D # {}
      BY <2>3 DEF GateDepths
    <3>2. d \in D
      <4> HIDE DEF D
      <4> QED
        BY ZenonT(40), <3>1, GreatestOf
    <3>3. Get(dir, "Gate") = GateAt(s, d)
      BY <1>2, <2>3 DEF InnermostGate, InnermostOf
    <3> HIDE DEF d
    <3>4. Gates(s, d) # {} \/ Gates(Main, d) # {}
      BY <3>2 DEF GateDepths
    <3>5. GateAt(s, d) # NoValue
      BY <3>4, SaidIsValue DEF GateAt, Types
    <3> QED
      BY <2>3, <3>3, <3>5 DEF Get
  <2> QED
    BY <2>2, <2>3
<1>7. Get(copied, "Gate") = Get(dir, "Gate")
  BY <1>5 DEF Get, Overlay
<1> HIDE DEF copied
<1>8. Get(defaulted, "Gate") = Get(copied, "Gate")
  BY DEF Get, Set, merge_var
<1> HIDE DEF defaulted
<1>9. Get(merged, "Gate") = IF "Gate" \in DOMAIN dir THEN Get(dir, "Gate") ELSE cfg.handler
  <2>1. CASE "Gate" \in DOMAIN dir
    BY <2>1 DEF Get, Set, merge_var
  <2>2. CASE "Gate" \notin DOMAIN dir
    <3>1. Get(defaulted, "Gate") = NoValue
      BY <1>7, <1>8, <2>2 DEF Get
    <3> QED
      BY <2>2, <3>1 DEF Get, Set, merge_var
  <2> QED
    BY <2>1, <2>2
<1> QED
  BY <1>1, <1>2, <1>4, <1>6, <1>9, SaidGateIs

\* A request finds the database the files name, and its notes name it too.
LEMMA Resolves ==
    ASSUME Types, \A t \in Servers : Agrees(t), NEW s \in Servers, NEW n \in Nat, n <= Len(Dirs),
           NEW init \in InitConfiguration(s, n)
    PROVE  LET said == SaidDatabase(s, SaidGate(s, n))
               got == GetHandler(s, init.notes)
               database == IF init.ok THEN got.database ELSE NoValue
               notes == IF init.ok THEN got.notes ELSE init.notes
           IN  /\ database = IF said \in Readable THEN said ELSE NoValue
               /\ database # NoValue => Get(notes, "GateDatabase") = database
<1> DEFINE merged == MergedNotes(s, n)
           name == Get(merged, "Gate")
           handler == HandlerConfig(s, name)
           o == Owner(s)
           said == SaidDatabase(s, SaidGate(s, n))
           got == GetHandler(s, init.notes)
           database == IF init.ok THEN got.database ELSE NoValue
           notes == IF init.ok THEN got.notes ELSE init.notes
<1>1. /\ o \in Servers /\ ServerConfig(s) = config[o] /\ Agrees(o) /\ ServerConfig(s) \in ServerRec
  BY OwnerConfig
<1>2. name = SaidGate(s, n)
  BY NotesGate
<1>3. said = LastSaid(Databases(o, name), 2)
  BY <1>2 DEF SaidDatabase
<1>4. NoValue \notin Readable /\ NoValue \notin Names
  BY ConfigAssumption
<1>5. IF ~HasHandler(s, name) THEN init = [ok |-> TRUE, notes |-> merged]
      ELSE \E keys \in Copied(handler) :
             init = [ok |-> ~Unreadable(handler), notes |-> Overlay(merged, Restrict(handler, keys))]
  BY ZenonT(40) DEF InitConfiguration
<1>6. HasHandler(s, name) <=> name \in Declared(o)
  BY ZenonT(40), <1>1 DEF HasHandler, Agrees
<1> HIDE DEF merged, name, o, said
<1>7. CASE ~HasHandler(s, name)
  <2>1. init.ok /\ init.notes = merged
    BY <1>5, <1>7
  <2>2. said = NoValue
    BY ZenonT(40), <1>1, <1>3, <1>6, <1>7 DEF Agrees, LastSaid
  <2>3. got.database = NoValue
    BY <1>7, <2>1 DEF GetHandler, name
  <2> HIDE DEF got
  <2>4. database = NoValue
    BY <2>1, <2>3
  <2> QED
    BY ZenonT(40), <1>4, <2>2, <2>4 DEF got, said
<1>8. CASE HasHandler(s, name)
  <2>1. PICK keys \in Copied(handler) :
             init = [ok |-> ~Unreadable(handler), notes |-> Overlay(merged, Restrict(handler, keys))]
    BY ZenonT(40), <1>5, <1>8
  <2>2. handler = config[o].handlers[name] /\ name \in DOMAIN config[o].handlers
    BY <1>1, <1>8 DEF HandlerConfig, HasHandler
  <2>3. Get(handler, "GateDatabase") = said
    BY ZenonT(40), <1>1, <1>3, <1>6, <1>8, <2>2 DEF Agrees
  <2>4. handler \in HandlerTable /\ name \in Names
    <3> DEFINE t == config[o].handlers
    <3>1. t \in TableOf(Names, HandlerTable)
      BY <1>1 DEF ServerRec
    <3> HIDE DEF t
    <3>2. DOMAIN t \in SUBSET Names /\ t \in [DOMAIN t -> HandlerTable]
      BY <3>1, TableFacts, Zenon
    <3>3. name \in DOMAIN t /\ handler = t[name]
      BY <2>2 DEF t
    <3> HIDE DEF handler
    <3> QED
      BY ZenonT(40), <3>2, <3>3
  <2> HIDE DEF handler
  <2>5. DOMAIN handler \in SUBSET (UserKeys \cup {"GateDatabase"})
    BY <2>4, TableFacts DEF HandlerTable
  <2>6. "Gate" \notin DOMAIN handler
    BY <2>5, ConfigAssumption
  <2>7. keys \in SUBSET DOMAIN handler
    BY <2>1 DEF Copied
  <2>8. /\ init.ok <=> ~Unreadable(handler)
        /\ init.notes = Overlay(merged, Restrict(handler, keys))
    BY ZenonT(40), <2>1
  <2>9. Get(init.notes, "Gate") = name
    BY ZenonT(40), <2>6, <2>7, <2>8 DEF Get, Overlay, Restrict, name
  <2>10. CASE Unreadable(handler)
    <3>1. said \notin Readable
      BY <2>3, <2>10 DEF Unreadable, Get
    <3>2. database = NoValue
      BY ZenonT(40), <2>8, <2>10
    <3> QED
      BY <1>4, <3>1, <3>2 DEF said
  <2>11. CASE ~Unreadable(handler)
    <3>1. init.ok /\ keys = DOMAIN handler
      BY ZenonT(40), <2>1, <2>8, <2>11 DEF Copied
    <3>2. got.database = said
      BY ZenonT(40), <1>8, <2>3, <2>9 DEF GetHandler, handler
    <3>3. said \in Readable \/ said = NoValue
      BY <2>3, <2>11 DEF Unreadable, Get
    <3>4. "Gate" \in DOMAIN init.notes
      BY ZenonT(40), <1>4, <2>4, <2>9 DEF Get
    <3>5. got.notes = init.notes
      BY <3>4 DEF GetHandler
    <3> HIDE DEF got
    <3>6. said # NoValue => Get(init.notes, "GateDatabase") = said
      BY <2>3, <2>8, <3>1 DEF Get, Overlay, Restrict
    <3>7. database = said /\ notes = init.notes
      BY ZenonT(40), <3>1, <3>2, <3>5
    <3> QED
      BY <1>4, <3>3, <3>6, <3>7 DEF got, said
  <2> QED
    BY ZenonT(40), <2>10, <2>11
<1> QED
  BY ZenonT(40), <1>7, <1>8

\* SaidDatabase and SaidGate as functions of the list of directives.
SaidIn(sq, s, n) ==
    LET owner == IF \E i \in DOMAIN sq : sq[i].server = s THEN s ELSE Main
        gates(t, c) ==
            {i \in DOMAIN sq : sq[i].server = t /\ sq[i].context = c /\ sq[i].name = "Gate"}
        databases(t, h) ==
            {i \in DOMAIN sq : /\ sq[i].server = t
                               /\ sq[i].name = "GateDatabase" /\ sq[i].args[1] = h}
        Depths == {d \in 1..n : gates(s, d) \cup gates(Main, d) # {}}
        gate == IF Depths = {} THEN Latest(sq, gates(owner, OutsideSections), 1)
                ELSE LET d == CHOOSE d \in Depths : \A e \in Depths : e <= d
                     IN  Latest(sq, IF gates(s, d) # {} THEN gates(s, d) ELSE gates(Main, d), 1)
    IN  Latest(sq, databases(owner, gate), 2)

\* What the files say does not change once they are read.
LEMMA SaidStays ==
    ASSUME read' = read, NEW s, NEW n
    PROVE  SaidDatabase(s, SaidGate(s, n))' = SaidDatabase(s, SaidGate(s, n))
<1>1. SaidDatabase(s, SaidGate(s, n)) = SaidIn(read, s, n)
  BY ZenonT(40) DEF SaidDatabase, SaidGate, Owner, Gates, Databases, LastSaid, Latest, SaidIn
<1>2. SaidDatabase(s, SaidGate(s, n))' = SaidIn(read', s, n)
  BY Zenon DEF SaidDatabase, SaidGate, Owner, Gates, Databases, LastSaid, Latest, SaidIn
<1> QED
  BY <1>1, <1>2, Zenon

\* Requests are resolved as the files say, and the notes agree.
LEMMA RequestResolves ==
    ASSUME IInv, NEW s \in Servers, NEW n \in 0..Len(Dirs), gate_request_handler(s, n)
    PROVE  IInv'
<1>1. /\ phase = "running" /\ UNCHANGED <<phase, config, options, env, read>>
      /\ Types /\ \A t \in Servers : Agrees(t)
  BY ZenonT(40) DEF gate_request_handler, IInv, Agreement
<1>2. n \in Nat /\ n <= Len(Dirs)
  <2>1. Len(Dirs) \in Nat
    BY ConfigAssumption
  <2> QED
    BY <2>1
<1>3. PICK init \in InitConfiguration(s, n) :
         LET got == GetHandler(s, init.notes)
         IN  request' = [server |-> s, depth |-> n,
                         notes |-> IF init.ok THEN got.notes ELSE init.notes,
                         database |-> IF init.ok THEN got.database ELSE NoValue]
  BY ZenonT(40) DEF gate_request_handler
<1> DEFINE said == SaidDatabase(s, SaidGate(s, n))
           got == GetHandler(s, init.notes)
           database == IF init.ok THEN got.database ELSE NoValue
           notes == IF init.ok THEN got.notes ELSE init.notes
<1>4. /\ database = IF said \in Readable THEN said ELSE NoValue
      /\ database # NoValue => Get(notes, "GateDatabase") = database
  BY ZenonT(40), <1>1, <1>2, Resolves
<1>5. request' = [server |-> s, depth |-> n, notes |-> notes, database |-> database]
  BY <1>3
<1> HIDE DEF notes, database
<1>6. /\ request'.server = s /\ request'.depth = n /\ request'.notes = notes
      /\ request'.database = database
  BY <1>5
<1>7. said' = said
  BY <1>1, SaidStays, Zenon
<1>8. ResolvesAsWritten'
  <2>1. SaidDatabase(request.server, SaidGate(request.server, request.depth))' = said'
    BY <1>6, ZenonT(40)
  <2> HIDE DEF said
  <2> QED
    BY <1>4, <1>6, <1>7, <2>1 DEF ResolvesAsWritten
<1>9. NotesNameDatabase'
  BY <1>4, <1>6 DEF NotesNameDatabase
<1>10. Types' /\ Agreement'
  BY <1>1, SameFiles DEF IInv
<1> QED
  BY Zenon, <1>1, <1>8, <1>9, <1>10 DEF IInv

-----------------------------------------------------------------------------
(* The theorems. *)

LEMMA InitHolds ==
    ASSUME Init
    PROVE  IInv
<1>1. /\ phase = "reading" /\ request = NoRequest /\ read = <<>>
      /\ config = [s \in Servers |-> IF s = Main THEN create_config ELSE NoConfig]
      /\ options = [s \in Servers |-> [d \in Sections |-> EmptyTable]]
  BY DEF Init
<1>2. EmptyTable \in SectionTable /\ \A k : Get(EmptyTable, k) = NoValue
  BY EmptyIsTable DEF SectionTable
<1>3. Types
  <2>1. config \in [Servers -> ServerRec]
    BY <1>1, BlankServer
  <2>2. options \in [Servers -> [Sections -> SectionTable]]
    BY <1>1, <1>2
  <2>3. read \in Seq(Directives)
    BY <1>1
  <2> QED
    BY <1>1, <2>1, <2>2, <2>3 DEF Types
<1>4. DOMAIN read = {}
  <2>1. read = <<>>
    BY <1>1, ZenonT(40)
  <2> QED
    BY <2>1
<1>5. ASSUME NEW s \in Servers PROVE Agrees(s)
  <2>1. /\ ~Mentioned(s) /\ Declared(s) = {} /\ \A c : Gates(s, c) = {}
    BY <1>4 DEF Mentioned, Declared, Gates
  <2>2. \A h : Databases(s, h) = {}
    BY <1>4 DEF Databases
  <2>3. \A c : LastSaid(Gates(s, c), 1) = NoValue
    BY <2>1 DEF LastSaid
  <2>4. config[s] = (IF s = Main THEN create_config ELSE NoConfig)
    BY <1>1
  <2>5. /\ config[s].made <=> s = Main
        /\ ~config[s].made => config[s] = NoConfig
        /\ config[s].handler = NoValue /\ config[s].handlers = EmptyTable
    <3>1. CASE s = Main
      BY <2>4, <3>1 DEF create_config, NoConfig
    <3>2. CASE s # Main
      BY <2>4, <3>2 DEF NoConfig
    <3> QED
      BY <3>1, <3>2
  <2>6. DOMAIN EmptyTable = {}
    BY DEF EmptyTable
  <2>7. \A d \in Sections : Get(options[s][d], "Gate") = NoValue
    BY <1>1, <1>2
  <2> QED
    BY <2>1, <2>2, <2>3, <2>5, <2>6, <2>7 DEF Agrees
<1>6. ResolvesAsWritten /\ NotesNameDatabase
  BY <1>1 DEF ResolvesAsWritten, NotesNameDatabase, NoRequest
<1> QED
  BY <1>1, <1>3, <1>5, <1>6 DEF IInv, Agreement

\* Before a request is served nothing is claimed of one.
LEMMA NoRequestNext ==
    ASSUME request' = NoRequest
    PROVE  ResolvesAsWritten' /\ NotesNameDatabase'
  BY DEF ResolvesAsWritten, NotesNameDatabase, NoRequest

\* While directives are read there is no request to resolve.
LEMMA DirectiveHolds ==
    ASSUME IInv, NEW s, NEW c, NEW name, NEW args, Directive(s, c, name, args), Types', Agreement'
    PROVE  IInv'
<1>1. request' = NoRequest
  BY DEF IInv, Directive
<1> QED
  BY <1>1, NoRequestNext DEF IInv

LEMMA NextHolds ==
    ASSUME IInv, Next
    PROVE  IInv'
<1>0. Types /\ Agreement
  BY DEF IInv
<1>1. ASSUME NEW s \in Servers, NEW c \in Contexts, NEW p \in Paths,
             set_gate_default_database(s, c, p)
      PROVE  IInv'
  BY <1>0, <1>1, AfterDefaultDatabase, DirectiveHolds DEF set_gate_default_database
<1>2. ASSUME NEW s \in Servers, NEW c \in Contexts, NEW k \in UserKeys, NEW v \in UserValues,
             set_gate_config_var(s, c, k, v)
      PROVE  IInv'
  BY <1>0, <1>2, AfterConfigVar, DirectiveHolds DEF set_gate_config_var
<1>3. ASSUME NEW s \in Servers, NEW c \in Contexts, NEW k \in UserKeys, NEW v \in UserValues,
             set_gate_env_var(s, c, k, v)
      PROVE  IInv'
  BY ZenonT(40), <1>0, <1>3, AfterEnvVar, DirectiveHolds DEF set_gate_env_var
<1>4. ASSUME NEW s \in Servers, NEW c \in Contexts, NEW h \in Names, set_gate_filter(s, c, h)
      PROVE  IInv'
  BY <1>0, <1>4, AfterGate, DirectiveHolds DEF set_gate_filter
<1>5. ASSUME NEW s \in Servers, NEW c \in Contexts, NEW h \in Names, set_gate_filter_declare(s, c, h)
      PROVE  IInv'
  BY <1>0, <1>5, AfterDeclare, DirectiveHolds DEF set_gate_filter_declare
<1>6. ASSUME NEW s \in Servers, NEW c \in Contexts, NEW h \in Names, NEW p \in Paths,
             set_gate_filter_database(s, c, h, p)
      PROVE  IInv'
  BY <1>0, <1>6, AfterDatabase, DirectiveHolds DEF set_gate_filter_database
<1>7. ASSUME NEW s \in Servers, NEW c \in Contexts, NEW h \in Names,
             NEW k \in UserKeys, NEW v \in UserValues, set_gate_filter_config(s, c, h, k, v)
      PROVE  IInv'
  BY <1>0, <1>7, AfterHandlerConfig, DirectiveHolds DEF set_gate_filter_config
<1>8. CASE StartServing
  <2>1. /\ request' = NoRequest /\ UNCHANGED <<config, options, read>>
        /\ phase = "reading" /\ phase' = "running"
    BY <1>8 DEF StartServing, IInv
  <2> QED
    BY <1>0, <2>1, SameFiles, NoRequestNext DEF IInv
<1>9. ASSUME NEW s \in Servers, NEW n \in 0..Len(Dirs), gate_request_handler(s, n)
      PROVE  IInv'
  BY <1>9, RequestResolves
<1> QED
  BY <1>1, <1>2, <1>3, <1>4, <1>5, <1>6, <1>7, <1>8, <1>9 DEF Next

LEMMA StutterHolds ==
    ASSUME IInv, UNCHANGED vars
    PROVE  IInv'
<1>1. UNCHANGED <<phase, config, options, request, read>>
  BY DEF vars
<1>2. Types' /\ Agreement'
  <2>1. CASE phase = "failed"
    BY <1>1, <2>1 DEF IInv, Types, Agreement
  <2>2. CASE phase # "failed"
    BY <1>1, <2>2, SameFiles DEF IInv, Types
  <2> QED
    BY <2>1, <2>2
<1>3. ResolvesAsWritten'
  <2>1. PICK s, n : s = request.server /\ n = request.depth
    BY Zenon
  <2> DEFINE said == SaidDatabase(s, SaidGate(s, n))
  <2>2. said' = said
    BY <1>1, SaidStays, Zenon
  <2>3. /\ SaidDatabase(request.server, SaidGate(request.server, request.depth)) = said
        /\ SaidDatabase(request.server, SaidGate(request.server, request.depth))' = said'
    BY <1>1, <2>1, Zenon
  <2> HIDE DEF said
  <2> QED
    BY <1>1, <2>2, <2>3 DEF IInv, ResolvesAsWritten
<1>4. NotesNameDatabase'
  BY <1>1 DEF IInv, NotesNameDatabase
<1> QED
  BY <1>1, <1>2, <1>3, <1>4 DEF IInv

LEMMA Invariance == Spec => []IInv
<1>1. Init => IInv
  BY InitHolds
<1>2. IInv /\ [Next]_vars => IInv'
  BY NextHolds, StutterHolds
<1> QED
  BY <1>1, <1>2, PTL DEF Spec

\* A request is looked up in the database that the configuration files name
\* for it, through every table the directives build and the request merges.
THEOREM RequestsResolveAsWritten == Spec => []ResolvesAsWritten
<1>1. IInv => ResolvesAsWritten
  BY DEF IInv
<1> QED
  BY <1>1, Invariance, PTL

\* The notes that gate_request_get_handler leaves name the database it opens.
THEOREM NotesAgree == Spec => []NotesNameDatabase
<1>1. IInv => NotesNameDatabase
  BY DEF IInv
<1> QED
  BY <1>1, Invariance, PTL

\* gate_handler_config finds a handler for a server exactly if the files of
\* the server that decides for it declare it.
THEOREM HandlersComeFromDeclarations == Spec => []HandlersAreDeclared
<1>1. ASSUME IInv PROVE HandlersAreDeclared
  <2> SUFFICES ASSUME phase = "running", NEW s \in Servers, NEW h \in Names
               PROVE  HasHandler(s, h) <=>
                        \E i \in DOMAIN read :
                            /\ read[i].server = Owner(s)
                            /\ read[i].name = "GateDeclare" /\ read[i].args[1] = h
    BY DEF HandlersAreDeclared
  <2>1. Types /\ \A t \in Servers : Agrees(t)
    BY <1>1 DEF IInv, Agreement
  <2>2. ServerConfig(s) = config[Owner(s)] /\ Agrees(Owner(s))
    BY <2>1, OwnerConfig
  <2>3. HasHandler(s, h) <=> h \in Declared(Owner(s))
    BY ZenonT(40), <2>2 DEF HasHandler, Agrees
  <2> QED
    BY <2>3 DEF Declared
<1> QED
  BY <1>1, Invariance, PTL

=============================================================================
