-------------------------- MODULE GateSystemProofs --------------------------
(* Theorems about GateSystem, for any number of processes, addresses and rows. *)
EXTENDS GateSystem, TLAPS

-----------------------------------------------------------------------------
(* Types *)

LEMMA RowTypes ==
    /\ \A r \in Row, g \in Addr : r.st # Null /\ r.et # Null => Reindexed(r, g) \in Row
    /\ \A t \in Addr \cup {BadText, Null} : BlockRow(t) \in Row
    /\ \A r \in Row : r.code \in Nat
  BY DEF Row, Text, Number, BlockRow, Reindexed

LEMMA EmptyTable == <<>> \in Seq(Row)
  OBVIOUS

LEMMA ElementTypes ==
    ASSUME NEW s \in Seq(Row), NEW i \in DOMAIN s
    PROVE  i \in Nat \ {0} /\ s[i] \in Row
  OBVIOUS

LEMMA ExceptTypes ==
    ASSUME NEW s \in Seq(Row), NEW i \in DOMAIN s, NEW r \in Row
    PROVE  [s EXCEPT ![i] = r] \in Seq(Row)
  <1>1. DOMAIN s = 1..Len(s) /\ Len(s) \in Nat
    OBVIOUS
  <1>2. [s EXCEPT ![i] = r] \in [1..Len(s) -> Row]
    BY <1>1
  <1> QED BY <1>1, <1>2

LEMMA AppendTypes ==
    ASSUME NEW s \in Seq(Row), NEW r \in Row
    PROVE  /\ Append(s, r) \in Seq(Row) /\ Len(Append(s, r)) = Len(s) + 1
           /\ \A i \in 1..Len(s) : Append(s, r)[i] = s[i]
           /\ Append(s, r)[Len(s) + 1] = r
  OBVIOUS

LEMMA LookupTypeOK ==
    ASSUME TypeOK, NEW w \in Workers, LookupNext(w), UNCHANGED <<dbVars, logVars>>
    PROVE  TypeOK'
  <1> SUFFICES FileTypes' /\ ConnTypes' /\ ChildTypes'
    BY DEF TypeOK, DbTypes, LogTypes, dbVars, logVars
  <1> FileTypes /\ ConnTypes /\ ChildTypes
    BY DEF TypeOK
  <1> USE DEF FileTypes, ConnTypes, ChildTypes, Conns, fileVars, connVars, Points, Causes,
              Goto, Return, KeepAnswer, KeepRequest, HTTP_OK
  <1>1. CASE \E a \in Addr \cup {NotV4}, u \in Agents \cup {NIL} : Arrive(w, a, u)
    <2>1. \A a : Listed(a) \in BOOLEAN
      BY DEF Listed
    <2> QED BY <1>1, <2>1 DEF Arrive
  <1>2. CASE InitConfiguration(w)
    BY ZenonT(40), <1>2 DEF InitConfiguration
  <1>3. CASE Connect(w)
    BY <1>3 DEF Connect, Open, SchemaStates
  <1>4. CASE ConnectFails(w)
    BY <1>4 DEF ConnectFails
  <1>5. CASE ConvertAddress(w)
    BY ZenonT(40), <1>5 DEF ConvertAddress
  <1>6. CASE PrepareQuery(w)
    BY <1>6 DEF PrepareQuery, Prepare
  <1>7. CASE PrepareThrows(w)
    BY <1>7 DEF PrepareThrows
  <1>8. CASE StepRow(w)
    <2>1. PICK i \in DOMAIN rows :
            /\ record' = [record EXCEPT ![w] = i]
            /\ status' = [status EXCEPT ![w] = rows[i].code]
            /\ \/ Return(w, "step", "finalize", "DECLINED", "allow")
               \/ Return(w, "step", "finalize", "OK", "block")
      BY ZenonT(40), <1>8 DEF StepRow
    <2>2. i \in Nat /\ rows[i].code \in Nat
      BY ElementTypes, RowTypes
    <2>3. StepToRow(w) /\ KeepRequest
      BY <1>8 DEF StepRow
    <2> QED BY ZenonT(40), <2>1, <2>2, <2>3 DEF StepToRow
  <1>9. CASE StepDone(w)
    BY <1>9 DEF StepDone, StepToEnd
  <1>10. CASE StepBusy(w)
    BY <1>10 DEF StepBusy
  <1>11. CASE FinalizeQuery(w)
    BY <1>11 DEF FinalizeQuery, Finalize
  <1>12. CASE CloseHandler(w)
    BY <1>12 DEF CloseHandler, Close
  <1>13. CASE Respond(w)
    BY <1>13 DEF Respond
  <1> QED BY ZenonT(40), <1>1, <1>2, <1>3, <1>4, <1>5, <1>6, <1>7, <1>8, <1>9, <1>10, <1>11,
             <1>12, <1>13 DEF LookupNext, HandlerStep

LEMMA DbTypeOK ==
    ASSUME TypeOK, NEW d \in Dbs, DbNext(d), UNCHANGED <<lookupVars, logVars>>
    PROVE  TypeOK'
  <1> SUFFICES FileTypes' /\ ConnTypes' /\ DbTypes'
    BY DEF TypeOK, ChildTypes, LogTypes, lookupVars, logVars
  <1> FileTypes /\ ConnTypes /\ DbTypes
    BY DEF TypeOK
  <1> USE DEF FileTypes, ConnTypes, DbTypes, Conns, fileVars, connVars, DbPoints,
              Commands, DbGoto, DbReturn, Gone
  <1>1. CASE \E cmd \in Commands \ {"none"} : Start(d, cmd)
    BY <1>1 DEF Start
  <1>2. CASE CheckAbsent(d)
    BY ZenonT(40), <1>2 DEF CheckAbsent
  <1>3. CASE OpenDatabase(d)
    BY <1>3 DEF OpenDatabase, Open, SchemaStates
  <1>4. CASE OpenDatabaseFails(d)
    BY <1>4 DEF OpenDatabaseFails
  <1>5. CASE CreateUa(d)
    BY ZenonT(40), <1>5 DEF CreateUa, SchemaStates
  <1>6. CASE CreateIp(d)
    BY ZenonT(40), <1>6 DEF CreateIp, SchemaStates
  <1>7. CASE IndexBegin(d)
    BY <1>7 DEF IndexBegin, BeginExclusive
  <1>8. CASE DbPrepare(d)
    BY <1>8 DEF DbPrepare, Prepare
  <1>9. CASE DbPrepareThrows(d) \/ IndexFaults(d) \/ Kill(d)
    <2>1. Abort(d)
      BY <1>9 DEF DbPrepareThrows, IndexFaults, Kill
    <2> QED BY <2>1, EmptyTable DEF Abort, Die
  <1>10. CASE DbStepRow(d)
    <2>1. PICK i \in DOMAIN rows :
            /\ cursor' = [cursor EXCEPT ![d] = i]
            /\ \/ DbGoto(d, "step", "step") /\ reported' = [reported EXCEPT ![d] = @ \cup {i}]
               \/ DbGoto(d, "step", "update") /\ UNCHANGED reported
      BY ZenonT(40), <1>10 DEF DbStepRow
    <2>2. i \in Nat
      BY ElementTypes
    <2>3. StepToRow(d) /\ UNCHANGED <<command, exit>>
      BY <1>10 DEF DbStepRow
    <2>4. reported' \in [Dbs -> SUBSET Nat]
      <3>1. reported[d] \cup {i} \in SUBSET Nat
        BY <2>2
      <3>2. [reported EXCEPT ![d] = reported[d] \cup {i}] \in [Dbs -> SUBSET Nat]
        <4>1. reported \in [Dbs -> SUBSET Nat]
          OBVIOUS
        <4> HIDE DEF DbTypes
        <4> DEFINE U == reported[d] \cup {i}
        <4>2. U \in SUBSET Nat
          BY <3>1
        <4> HIDE DEF U
        <4>3. [reported EXCEPT ![d] = U] \in [Dbs -> SUBSET Nat]
          BY <4>1, <4>2
        <4> QED BY <4>3 DEF U
      <3> QED BY ZenonT(40), <2>1, <3>2
    <2> QED BY ZenonT(40), <2>1, <2>2, <2>3, <2>4 DEF StepToRow
  <1>11. CASE DbStepEnd(d)
    BY ZenonT(40), <1>11 DEF DbStepEnd, StepToEnd
  <1>12. CASE IndexUpdate(d)
    <2>1. PICK garbage \in Addr :
            rows' = IF CanWrite(d)
                      THEN [rows EXCEPT ![cursor[d]] = Reindexed(@, garbage)]
                      ELSE rows
      BY <1>12 DEF IndexUpdate
    <2>2. rows' \in Seq(Row)
      <3>1. CASE cursor[d] \in DOMAIN rows
        <4>1. Reindexed(rows[cursor[d]], garbage) \in Row
          BY <1>12, <3>1, ElementTypes, RowTypes DEF IndexUpdate
        <4> QED BY <2>1, <3>1, <4>1, ExceptTypes
      <3>2. CASE cursor[d] \notin DOMAIN rows
        <4>1. \A r : [rows EXCEPT ![cursor[d]] = r] = [i \in DOMAIN rows |-> rows[i]]
          BY <3>2
        <4>2. rows = [i \in DOMAIN rows |-> rows[i]]
          OBVIOUS
        <4> QED BY ZenonT(40), <2>1, <4>1, <4>2
      <3> QED BY <3>1, <3>2
    <2> QED BY <1>12, <2>2 DEF IndexUpdate
  <1>13. CASE IndexCommit(d)
    BY <1>13, EmptyTable DEF IndexCommit, Commit
  <1>14. CASE DbExit(d)
    BY <1>14 DEF DbExit, Disconnect
  <1> QED BY ZenonT(40), <1>1, <1>2, <1>3, <1>4, <1>5, <1>6, <1>7, <1>8, <1>9, <1>10, <1>11,
             <1>12, <1>13, <1>14 DEF DbNext, DbStep

LEMMA LogTypeOK ==
    ASSUME TypeOK, NEW g \in Logs, LogNext(g), UNCHANGED <<lookupVars, dbVars>>
    PROVE  TypeOK'
  <1> SUFFICES FileTypes' /\ ConnTypes' /\ LogTypes'
    BY DEF TypeOK, ChildTypes, DbTypes, lookupVars, dbVars
  <1> FileTypes /\ ConnTypes /\ LogTypes
    BY DEF TypeOK
  <1> USE DEF FileTypes, ConnTypes, LogTypes, Conns, fileVars, connVars, LogPoints, LogGoto
  <1>1. CASE LogOpen(g)
    BY <1>1 DEF LogOpen, Open, SchemaStates
  <1>2. CASE LogBegin(g)
    BY <1>2 DEF LogBegin, BeginExclusive
  <1>3. CASE LogLine(g)
    BY <1>3 DEF LogLine
  <1>4. CASE BlockCount(g)
    BY <1>4 DEF BlockCount
  <1>5. CASE BlockCountFails(g) \/ LogFails(g)
    <2>1. LogDies(g)
      BY <1>5 DEF BlockCountFails, LogFails
    <2> QED BY <2>1, EmptyTable DEF LogDies, Die
  <1>6. CASE BlockInsert(g)
    <2>1. BlockRow(ip[g]) \in Row
      BY RowTypes
    <2>2. Append(rows, BlockRow(ip[g])) \in Seq(Row)
      BY <2>1, AppendTypes
    <2> QED BY <1>6, <2>2 DEF BlockInsert
  <1>7. CASE LogEnd(g)
    BY <1>7 DEF LogEnd
  <1>8. CASE LogCommit(g)
    BY <1>8, EmptyTable DEF LogCommit, Commit
  <1>9. CASE LogExit(g)
    BY <1>9 DEF LogExit, Disconnect
  <1> QED BY ZenonT(40), <1>1, <1>2, <1>3, <1>4, <1>5, <1>6, <1>7, <1>8, <1>9 DEF LogNext

LEMMA InitTypeOK == Init => TypeOK
  <1> SUFFICES ASSUME Init PROVE TypeOK
    OBVIOUS
  <1>1. rows \in Seq(Row)
    BY ZenonT(40), InitialTablesAssumption, EmptyTable DEF Init, SqliteInit
  <1> QED BY <1>1, EmptyTable
       DEF Init, SqliteInit, LookupInit, DbInit, LogInit, TypeOK, FileTypes, ConnTypes,
           ChildTypes, DbTypes, LogTypes, SchemaStates, Conns,
           Points, Causes, DbPoints, Commands, LogPoints, HTTP_OK

\* Every variable keeps its type in every run of the whole system.
THEOREM TypeCorrect == Spec => []TypeOK
  <1>1. Init => TypeOK
    BY InitTypeOK
  <1>2. TypeOK /\ [Next]_vars => TypeOK'
    <2> SUFFICES ASSUME TypeOK, [Next]_vars PROVE TypeOK'
      OBVIOUS
    <2>1. CASE UNCHANGED vars
      BY <2>1 DEF TypeOK, FileTypes, ConnTypes, ChildTypes, DbTypes, LogTypes, vars, fileVars,
             connVars, lookupVars, dbVars, logVars
    <2> QED BY <2>1, LookupTypeOK, DbTypeOK, LogTypeOK DEF Next
  <1> QED BY <1>1, <1>2, PTL DEF Spec

-----------------------------------------------------------------------------
(* What a step does to the table *)

\* The five things a step of connection c may do to it: nothing, begin, commit,
\* roll back, write.
TableEffect(c) ==
    \/ UNCHANGED <<rows, journal, exclusive>>
    \/ exclusive = NoConn /\ exclusive' = c /\ journal' = rows /\ rows' = rows
    \/ exclusive = c /\ exclusive' = NoConn /\ journal' = <<>> /\ rows' = rows
    \/ exclusive = c /\ exclusive' = NoConn /\ journal' = <<>> /\ rows' = journal
    \/ /\ CanWrite(c) /\ UNCHANGED <<journal, exclusive>>
       /\ Extends(rows, rows') /\ \A i \in DOMAIN rows' : Faithful(rows'[i])

LEMMA ExtendsReflexive == \A t : Extends(t, t)
  BY DEF Extends

LEMMA ExtendsTransitive ==
    ASSUME NEW t, NEW u, NEW v, Extends(t, u), Extends(u, v)
    PROVE  Extends(t, v)
  BY DEF Extends, Indexed

LEMMA ReindexedRow ==
    ASSUME NEW r \in Row, NEW g \in Addr, r.st # Null, r.et # Null
    PROVE  LET q == Reindexed(r, g)
           IN  /\ q.st = r.st /\ q.et = r.et /\ q.code = r.code
               /\ Faithful(q) /\ ~NeedsIndex(q)
  BY ValuesAssumption DEF Reindexed, Faithful, Indexed, NeedsIndex, Row, Text

LEMMA BlockRowFaithful == \A t : Faithful(BlockRow(t))
  BY ValuesAssumption DEF BlockRow, Faithful, Indexed

LEMMA NeedsIndexNotIndexed == \A r : NeedsIndex(r) => ~Indexed(r)
  BY ZenonT(40), ValuesAssumption DEF NeedsIndex, Indexed

LEMMA LookupEffect ==
    ASSUME NEW w \in Workers, LookupNext(w)
    PROVE  UNCHANGED <<rows, journal, exclusive>> /\ (HasIpTable => HasIpTable')
  BY DEF LookupNext, HandlerStep, fileVars, connVars, Arrive, InitConfiguration, Connect,
         Open, ConnectFails, ConvertAddress, PrepareQuery, Prepare, PrepareThrows, StepRow,
         StepToRow, StepDone, StepToEnd, StepBusy, FinalizeQuery, Finalize, CloseHandler,
         Close, Respond, HasIpTable

LEMMA IndexUpdateEffect ==
    ASSUME TypeOK, TablesOK, NEW d \in Dbs, IndexerOK(d), IndexUpdate(d)
    PROVE  /\ UNCHANGED <<journal, exclusive>>
           /\ \/ rows' = rows
              \/ /\ CanWrite(d) /\ DOMAIN rows' = DOMAIN rows
                 /\ ~NeedsIndex(rows'[cursor[d]])
                 /\ \A i \in DOMAIN rows : i # cursor[d] => rows'[i] = rows[i]
                 /\ Extends(rows, rows')
                 /\ \A i \in DOMAIN rows' : Faithful(rows'[i])
  <1> DEFINE i == cursor[d]
             r == rows[i]
  <1>1. /\ dpc[d] = "update" /\ r.st # Null /\ r.et # Null
        /\ UNCHANGED <<journal, exclusive>>
    BY ZenonT(40) DEF IndexUpdate, DbGoto
  <1>2. i \in DOMAIN rows /\ NeedsIndex(r) /\ ~Indexed(r)
    BY <1>1, NeedsIndexNotIndexed DEF IndexerOK
  <1>3. r \in Row
    BY ZenonT(40), <1>2, ElementTypes DEF TypeOK, FileTypes
  <1>4. PICK g \in Addr :
          rows' = IF CanWrite(d) THEN [rows EXCEPT ![i] = Reindexed(@, g)] ELSE rows
    BY ZenonT(40) DEF IndexUpdate
  <1>5. CASE ~CanWrite(d)
    BY ZenonT(40), <1>1, <1>4, <1>5
  <1>6. CASE CanWrite(d)
    <2> DEFINE q == Reindexed(r, g)
    <2>1. /\ q.st = r.st /\ q.et = r.et /\ q.code = r.code
          /\ Faithful(q) /\ ~NeedsIndex(q)
      BY <1>1, <1>3, ReindexedRow
    <2> HIDE DEF q
    <2>2. rows' = [rows EXCEPT ![i] = q]
      BY <1>4, <1>6 DEF q
    <2>3. DOMAIN rows' = DOMAIN rows /\ rows'[i] = q
      BY <1>2, <2>2
    <2>4. \A j \in DOMAIN rows : j # i => rows'[j] = rows[j]
      BY <2>2
    <2>5. Extends(rows, rows')
      BY <1>2, <2>1, <2>3, <2>4 DEF Extends
    <2>6. \A j \in DOMAIN rows' : Faithful(rows'[j])
      BY <2>1, <2>3, <2>4 DEF TablesOK
    <2> QED BY ZenonT(40), <1>1, <1>6, <2>1, <2>3, <2>4, <2>5, <2>6
  <1> QED BY ZenonT(40), <1>5, <1>6

LEMMA InsertEffect ==
    ASSUME TypeOK, TablesOK, NEW g \in Logs, BlockInsert(g)
    PROVE  /\ UNCHANGED <<journal, exclusive>>
           /\ \/ rows' = rows
              \/ /\ CanWrite(g)
                 /\ Extends(rows, rows')
                 /\ \A i \in DOMAIN rows' : Faithful(rows'[i])
  <1> rows \in Seq(Row) /\ ip[g] \in Addr \cup {BadText, Null}
    BY DEF TypeOK, FileTypes, LogTypes
  <1> DEFINE r == BlockRow(ip[g])
  <1>1. UNCHANGED <<journal, exclusive>>
    BY DEF BlockInsert
  <1>2. CASE ~CanInsert(g)
    BY <1>1, <1>2 DEF BlockInsert
  <1>3. CASE CanInsert(g)
    <2>1. r \in Row /\ Faithful(r)
      BY RowTypes, BlockRowFaithful
    <2>2. rows' = Append(rows, r)
      BY <1>3 DEF BlockInsert
    <2> HIDE DEF r
    <2>3. /\ Len(rows') = Len(rows) + 1 /\ rows' \in Seq(Row)
          /\ \A i \in 1..Len(rows) : rows'[i] = rows[i]
          /\ rows'[Len(rows) + 1] = r
      BY <2>1, <2>2, AppendTypes
    <2>4. DOMAIN rows = 1..Len(rows) /\ DOMAIN rows' = 1..(Len(rows) + 1)
      BY <2>3
    <2>5. Extends(rows, rows')
      BY <2>3, <2>4 DEF Extends
    <2>6. \A i \in DOMAIN rows' : Faithful(rows'[i])
      <3> SUFFICES ASSUME NEW i \in DOMAIN rows' PROVE Faithful(rows'[i])
        OBVIOUS
      <3>1. i \in DOMAIN rows \/ i = Len(rows) + 1
        BY <2>4
      <3>2. CASE i \in DOMAIN rows
        <4>1. rows'[i] = rows[i] /\ Faithful(rows[i])
          BY <2>3, <2>4, <3>2 DEF TablesOK
        <4> QED BY <4>1
      <3>3. CASE i = Len(rows) + 1
        <4>1. rows'[i] = r
          BY <2>3, <3>3
        <4> QED BY <2>1, <4>1
      <3> QED BY <3>1, <3>2, <3>3
    <2> QED BY <1>1, <1>3, <2>5, <2>6 DEF CanInsert
  <1> QED BY <1>2, <1>3

LEMMA DbEffect ==
    ASSUME TypeOK, TablesOK, NEW d \in Dbs, IndexerOK(d), DbNext(d)
    PROVE  TableEffect(d) /\ (HasIpTable => HasIpTable')
  <1> USE DEF TableEffect, HasIpTable, fileVars, connVars
  <1>1. CASE IndexUpdate(d)
    BY ZenonT(40), <1>1, IndexUpdateEffect DEF IndexUpdate
  <1>2. CASE DbPrepareThrows(d) \/ IndexFaults(d) \/ Kill(d)
    BY ZenonT(40), <1>2 DEF DbPrepareThrows, IndexFaults, Kill, Abort, Die
  <1>3. CASE IndexBegin(d)
    BY <1>3 DEF IndexBegin, BeginExclusive, CanBegin
  <1>4. CASE IndexCommit(d)
    BY <1>4 DEF IndexCommit, Commit
  <1>5. CASE \/ \E cmd \in Commands \ {"none"} : Start(d, cmd)
             \/ CheckAbsent(d) \/ OpenDatabase(d) \/ OpenDatabaseFails(d)
             \/ CreateUa(d) \/ CreateIp(d)
    BY <1>5 DEF Start, CheckAbsent, OpenDatabase, Open, OpenDatabaseFails, CreateUa, CreateIp
  <1>6. CASE DbPrepare(d) \/ DbStepRow(d) \/ DbStepEnd(d) \/ DbExit(d)
    BY ZenonT(40), <1>6 DEF DbPrepare, Prepare, DbStepRow, StepToRow, DbStepEnd, StepToEnd, DbExit, Disconnect
  <1> QED BY ZenonT(40), <1>1, <1>2, <1>3, <1>4, <1>5, <1>6 DEF DbNext, DbStep

LEMMA LogEffect ==
    ASSUME TypeOK, TablesOK, NEW g \in Logs, LogNext(g)
    PROVE  TableEffect(g) /\ (HasIpTable => HasIpTable')
  <1> USE DEF TableEffect, HasIpTable, fileVars, connVars
  <1>1. CASE BlockInsert(g)
    BY <1>1, InsertEffect DEF BlockInsert
  <1>2. CASE BlockCountFails(g) \/ LogFails(g)
    BY <1>2 DEF BlockCountFails, LogFails, LogDies, Die
  <1>3. CASE LogBegin(g)
    BY <1>3 DEF LogBegin, BeginExclusive, CanBegin
  <1>4. CASE LogCommit(g)
    BY <1>4 DEF LogCommit, Commit
  <1>5. CASE LogOpen(g) \/ LogLine(g) \/ BlockCount(g) \/ LogEnd(g) \/ LogExit(g)
    BY ZenonT(40), <1>5 DEF LogOpen, Open, LogLine, BlockCount, LogEnd, LogExit, Disconnect
  <1> QED BY ZenonT(40), <1>1, <1>2, <1>3, <1>4, <1>5 DEF LogNext

\* Whatever a step does to the table, the committed rows stay and the table
\* invariant holds again.
LEMMA EffectKeepsTables ==
    ASSUME TypeOK, TablesOK, NEW c \in Conns, TableEffect(c)
    PROVE  TablesOK' /\ Extends(Committed, Committed')
  <1> USE DEF TablesOK, Committed
  <1>0. NoConn # c
    BY ConnsAssumption DEF Conns
  <1>1. CASE UNCHANGED <<rows, journal, exclusive>>
    BY <1>1, ExtendsReflexive
  <1>2. CASE exclusive = NoConn /\ exclusive' = c /\ journal' = rows /\ rows' = rows
    BY <1>0, <1>2, ExtendsReflexive
  <1>3. CASE exclusive = c /\ exclusive' = NoConn /\ journal' = <<>> /\ rows' = rows
    BY <1>0, <1>3
  <1>4. CASE exclusive = c /\ exclusive' = NoConn /\ journal' = <<>> /\ rows' = journal
    BY <1>0, <1>4, ExtendsReflexive
  <1>5. CASE /\ CanWrite(c) /\ UNCHANGED <<journal, exclusive>>
             /\ Extends(rows, rows') /\ \A i \in DOMAIN rows' : Faithful(rows'[i])
    <2>1. exclusive # NoConn => Extends(journal, rows')
      BY <1>5, ExtendsTransitive
    <2> QED BY <1>5, <2>1, ExtendsReflexive
  <1> QED BY ZenonT(40), <1>1, <1>2, <1>3, <1>4, <1>5 DEF TableEffect

-----------------------------------------------------------------------------
(* Locks *)

LEMMA LookupLocks ==
    ASSUME TypeOK, ReadersExcludeWriters, NEW w \in Workers, LookupNext(w)
    PROVE  ReadersExcludeWriters'
  <1> USE DEF ReadersExcludeWriters
  <1>1. exclusive' = exclusive /\ exclusive # w
    BY LookupEffect, ConnsAssumption DEF TypeOK, FileTypes
  <1>2. CASE StepRow(w)
    BY <1>1, <1>2 DEF StepRow, StepToRow, CanRead
  <1>3. CASE ~StepRow(w)
    <2>1. shared' \subseteq shared
      BY <1>3 DEF LookupNext, HandlerStep, fileVars, connVars, Arrive, InitConfiguration,
             Connect, Open, ConnectFails, ConvertAddress, PrepareQuery, Prepare,
             PrepareThrows, StepDone, StepToEnd, StepBusy, FinalizeQuery, Finalize,
             CloseHandler, Close, Respond
    <2> QED BY ZenonT(40), <1>1, <2>1
  <1> QED BY <1>2, <1>3

LEMMA DbLocks ==
    ASSUME TypeOK, ReadersExcludeWriters, NEW d \in Dbs, DbNext(d)
    PROVE  ReadersExcludeWriters'
  <1> USE DEF ReadersExcludeWriters, fileVars, connVars
  <1>1. CASE IndexBegin(d)
    BY <1>1 DEF IndexBegin, BeginExclusive, CanBegin
  <1>2. CASE DbStepRow(d)
    BY <1>2 DEF DbStepRow, StepToRow, CanRead
  <1>3. CASE IndexCommit(d)
    BY <1>3 DEF IndexCommit, Commit
  <1>4. CASE DbPrepareThrows(d) \/ IndexFaults(d) \/ Kill(d)
    BY <1>4 DEF DbPrepareThrows, IndexFaults, Kill, Abort, Die
  <1>5. CASE \/ \E cmd \in Commands \ {"none"} : Start(d, cmd)
             \/ CheckAbsent(d) \/ OpenDatabase(d) \/ OpenDatabaseFails(d)
             \/ CreateUa(d) \/ CreateIp(d) \/ DbPrepare(d) \/ IndexUpdate(d)
    BY <1>5 DEF Start, CheckAbsent, OpenDatabase, Open, OpenDatabaseFails, CreateUa,
           CreateIp, DbPrepare, Prepare, IndexUpdate
  <1>6. CASE DbStepEnd(d) \/ DbExit(d)
    BY ZenonT(40), <1>6 DEF DbStepEnd, StepToEnd, DbExit, Disconnect
  <1> QED BY <1>1, <1>2, <1>3, <1>4, <1>5, <1>6 DEF DbNext, DbStep

LEMMA LogLocks ==
    ASSUME TypeOK, ReadersExcludeWriters, NEW g \in Logs, LogNext(g)
    PROVE  ReadersExcludeWriters'
  <1> USE DEF ReadersExcludeWriters, fileVars, connVars
  <1>1. CASE LogBegin(g)
    BY <1>1 DEF LogBegin, BeginExclusive, CanBegin
  <1>2. CASE LogCommit(g)
    BY <1>2 DEF LogCommit, Commit
  <1>3. CASE BlockCountFails(g) \/ LogFails(g)
    BY <1>3 DEF BlockCountFails, LogFails, LogDies, Die
  <1>4. CASE LogExit(g)
    BY <1>4 DEF LogExit, Disconnect
  <1>5. CASE LogOpen(g) \/ LogLine(g) \/ BlockCount(g) \/ BlockInsert(g) \/ LogEnd(g)
    BY <1>5 DEF LogOpen, Open, LogLine, BlockCount, BlockInsert, LogEnd
  <1> QED BY <1>1, <1>2, <1>3, <1>4, <1>5 DEF LogNext

-----------------------------------------------------------------------------
(* A step of one process leaves what the others hold and know alone. *)

OthersKeepConnections(c) ==
    \A x \in Conns \ {c} : /\ x \in shared' <=> x \in shared
                           /\ handle'[x] = handle[x] /\ stmt'[x] = stmt[x]

OthersKeepRequests(w) ==
    \A x \in Workers \ {w} :
        /\ pc'[x] = pc[x] /\ addr'[x] = addr[x] /\ ret'[x] = ret[x]
        /\ status'[x] = status[x] /\ record'[x] = record[x]
        /\ cause'[x] = cause[x] /\ listed'[x] = listed[x]

OthersKeepCommands(d) ==
    \A x \in Dbs \ {d} :
        /\ dpc'[x] = dpc[x] /\ command'[x] = command[x]
        /\ cursor'[x] = cursor[x] /\ exit'[x] = exit[x]

OthersKeepLines(g) == \A x \in Logs \ {g} : lpc'[x] = lpc[x] /\ ip'[x] = ip[x]

\* What the turn of the handler's loop does, with the row and the two values it
\* returns named.
LEMMA StepRowEffect ==
    ASSUME NEW w \in Workers, StepRow(w)
    PROVE  /\ pc[w] = "step" /\ pc' = [pc EXCEPT ![w] = "finalize"]
           /\ CanRead(w) /\ StepToRow(w) /\ KeepRequest
           /\ \E i \in DOMAIN rows, value \in {"OK", "DECLINED"}, why \in {"allow", "block"} :
                /\ record' = [record EXCEPT ![w] = i]
                /\ status' = [status EXCEPT ![w] = rows[i].code]
                /\ ret' = [ret EXCEPT ![w] = value]
                /\ cause' = [cause EXCEPT ![w] = why]
                /\ rows[i].code = HTTP_OK => value = "DECLINED" /\ why = "allow"
                /\ rows[i].code # HTTP_OK => value = "OK" /\ why = "block"
  <1>1. pc[w] = "step" /\ CanRead(w) /\ StepToRow(w) /\ KeepRequest
    BY ZenonT(40) DEF StepRow
  <1>2. PICK i \in DOMAIN rows :
          /\ record' = [record EXCEPT ![w] = i]
          /\ status' = [status EXCEPT ![w] = rows[i].code]
          /\ IF rows[i].code = HTTP_OK
               THEN Return(w, "step", "finalize", "DECLINED", "allow")
               ELSE Return(w, "step", "finalize", "OK", "block")
    BY ZenonT(40) DEF StepRow
  <1>3. CASE rows[i].code = HTTP_OK
    <2>1. Return(w, "step", "finalize", "DECLINED", "allow")
      BY <1>2, <1>3
    <2> QED BY ZenonT(40), <1>1, <1>2, <1>3, <2>1 DEF Return, Goto
  <1>4. CASE rows[i].code # HTTP_OK
    <2>1. Return(w, "step", "finalize", "OK", "block")
      BY <1>2, <1>4
    <2> QED BY ZenonT(40), <1>1, <1>2, <1>4, <2>1 DEF Return, Goto
  <1> QED BY ZenonT(40), <1>3, <1>4

LEMMA LookupKeepsOthers ==
    ASSUME TypeOK, NEW w \in Workers, LookupNext(w)
    PROVE  OthersKeepConnections(w) /\ OthersKeepRequests(w)
  <1> ConnTypes /\ ChildTypes
    BY DEF TypeOK
  <1> USE DEF OthersKeepConnections, OthersKeepRequests, ConnTypes, ChildTypes, fileVars, connVars, Conns
  <1>1. CASE StepRow(w)
    <2>1. /\ pc' = [pc EXCEPT ![w] = "finalize"]
          /\ StepToRow(w) /\ KeepRequest
      BY ZenonT(40), <1>1, StepRowEffect
    <2>2. PICK i \in DOMAIN rows, value \in {"OK", "DECLINED"}, why \in {"allow", "block"} :
            /\ record' = [record EXCEPT ![w] = i]
            /\ status' = [status EXCEPT ![w] = rows[i].code]
            /\ ret' = [ret EXCEPT ![w] = value]
            /\ cause' = [cause EXCEPT ![w] = why]
            /\ rows[i].code = HTTP_OK => value = "DECLINED" /\ why = "allow"
            /\ rows[i].code # HTTP_OK => value = "OK" /\ why = "block"
      BY ZenonT(40), <1>1, StepRowEffect
    <2>3. OthersKeepConnections(w)
      BY ZenonT(40), <2>1 DEF StepToRow
    <2>4. OthersKeepRequests(w)
      BY <2>1, <2>2 DEF KeepRequest
    <2> QED BY ZenonT(40), <2>3, <2>4
  <1>2. CASE \E a \in Addr \cup {NotV4}, u \in Agents \cup {NIL} : Arrive(w, a, u)
    BY ZenonT(40), <1>2 DEF Arrive, Goto, KeepAnswer
  <1>3. CASE InitConfiguration(w) \/ Connect(w) \/ ConnectFails(w) \/ ConvertAddress(w)
    BY ZenonT(40), <1>3 DEF InitConfiguration, Connect, Open, ConnectFails, ConvertAddress, Return, Goto,
           KeepRequest, KeepAnswer
  <1>4. CASE PrepareQuery(w) \/ PrepareThrows(w) \/ StepDone(w) \/ StepBusy(w)
    BY <1>4 DEF PrepareQuery, Prepare, PrepareThrows, StepDone, StepToEnd, StepBusy, Return,
           Goto, KeepRequest, KeepAnswer
  <1>5. CASE FinalizeQuery(w)
    BY <1>5 DEF FinalizeQuery, Finalize, Goto, KeepRequest, KeepAnswer
  <1>6. CASE CloseHandler(w)
    BY <1>6 DEF CloseHandler, Close, Goto, KeepRequest, KeepAnswer
  <1>7. CASE Respond(w)
    BY <1>7 DEF Respond, Goto
  <1> QED BY ZenonT(40), <1>1, <1>2, <1>3, <1>4, <1>5, <1>6, <1>7 DEF LookupNext, HandlerStep

LEMMA DbKeepsOthers ==
    ASSUME TypeOK, NEW d \in Dbs, DbNext(d)
    PROVE  OthersKeepConnections(d) /\ OthersKeepCommands(d)
  <1> ConnTypes /\ DbTypes
    BY DEF TypeOK
  <1> USE DEF OthersKeepConnections, OthersKeepCommands, ConnTypes, DbTypes, fileVars, connVars, Conns
  <1>1. CASE DbStepRow(d)
    BY <1>1 DEF DbStepRow, StepToRow, DbGoto
  <1>2. CASE DbPrepareThrows(d) \/ IndexFaults(d) \/ Kill(d) \/ DbExit(d)
    BY ZenonT(40), <1>2 DEF DbPrepareThrows, IndexFaults, Kill, Abort, Die, DbExit, Disconnect, Gone
  <1>3. CASE \E cmd \in Commands \ {"none"} : Start(d, cmd)
    BY <1>3 DEF Start, DbGoto
  <1>4. CASE CheckAbsent(d) \/ OpenDatabase(d) \/ OpenDatabaseFails(d)
    BY ZenonT(40), <1>4 DEF CheckAbsent, OpenDatabase, Open, OpenDatabaseFails, DbReturn, DbGoto
  <1>5. CASE CreateUa(d) \/ CreateIp(d) \/ DbPrepare(d)
    BY <1>5 DEF CreateUa, CreateIp, DbPrepare, Prepare, DbReturn, DbGoto
  <1>6. CASE IndexBegin(d) \/ IndexCommit(d) \/ IndexUpdate(d)
    BY ZenonT(40), <1>6 DEF IndexBegin, BeginExclusive, IndexCommit, Commit, IndexUpdate, DbReturn, DbGoto
  <1>7. CASE DbStepEnd(d)
    BY <1>7 DEF DbStepEnd, StepToEnd, DbReturn, DbGoto
  <1> QED BY ZenonT(40), <1>1, <1>2, <1>3, <1>4, <1>5, <1>6, <1>7 DEF DbNext, DbStep

LEMMA LogKeepsOthers ==
    ASSUME TypeOK, NEW g \in Logs, LogNext(g)
    PROVE  OthersKeepConnections(g) /\ OthersKeepLines(g)
  <1> ConnTypes /\ LogTypes
    BY DEF TypeOK
  <1> USE DEF OthersKeepConnections, OthersKeepLines, ConnTypes, LogTypes, fileVars, connVars, Conns
  <1>1. CASE BlockCountFails(g) \/ LogFails(g) \/ LogExit(g)
    BY <1>1 DEF BlockCountFails, LogFails, LogDies, Die, LogExit, Disconnect, LogGoto
  <1>2. CASE LogOpen(g) \/ LogBegin(g) \/ LogLine(g)
    BY <1>2 DEF LogOpen, Open, LogBegin, BeginExclusive, LogLine, LogGoto
  <1>3. CASE BlockCount(g) \/ BlockInsert(g) \/ LogEnd(g) \/ LogCommit(g)
    BY ZenonT(40), <1>3 DEF BlockCount, BlockInsert, LogEnd, LogCommit, Commit, LogGoto
  <1> QED BY ZenonT(40), <1>1, <1>2, <1>3 DEF LogNext

-----------------------------------------------------------------------------
(* Index runs *)

\* A step of another process writes only when no read lock is held, so it
\* leaves the rows alone under a gatedb process that stands on one.
LEMMA OthersKeepIndexer ==
    ASSUME TypeOK, ReadersExcludeWriters, NEW c \in Conns, NEW d \in Dbs, c # d,
           IndexerOK(d), TableEffect(c), HasIpTable => HasIpTable',
           dpc'[d] = dpc[d], command'[d] = command[d], cursor'[d] = cursor[d],
           exit'[d] = exit[d], d \in shared' <=> d \in shared
    PROVE  IndexerOK(d)'
  <1>0. d # NoConn /\ c # NoConn
    BY ZenonT(40), ConnsAssumption DEF Conns
  <1>1. CASE rows' = rows
    <2>1. exclusive' = d => exclusive = d
      BY <1>0, <1>1 DEF TableEffect
    <2> QED BY ZenonT(40), <1>1, <2>1 DEF IndexerOK
  <1>2. CASE rows' # rows
    <2>1. d \notin shared /\ exclusive' # d
      BY ZenonT(40), <1>0, <1>2 DEF TableEffect, CanWrite, CanRead, ReadersExcludeWriters
    <2> QED BY ZenonT(40), <2>1 DEF IndexerOK
  <1> QED BY <1>1, <1>2

LEMMA DbKeepsIndexer ==
    ASSUME TypeOK, TablesOK, ReadersExcludeWriters, NEW d \in Dbs, IndexerOK(d), DbNext(d)
    PROVE  IndexerOK(d)'
  <1>0. d # NoConn
    BY ConnsAssumption
  <1> FileTypes /\ DbTypes
    BY DEF TypeOK
  <1> USE DEF FileTypes, DbTypes, fileVars, connVars
  <1>1. CASE DbPrepareThrows(d) \/ IndexFaults(d) \/ Kill(d)
    <2>1. Gone(d) /\ Die(d)
      BY ZenonT(40), <1>1 DEF DbPrepareThrows, IndexFaults, Kill, Abort
    <2>2. dpc'[d] = "idle" /\ command'[d] = "none" /\ cursor'[d] = 0 /\ exit'[d] = "none"
      BY <2>1 DEF Gone
    <2>3. exclusive' # d
      BY ZenonT(40), <1>0, <2>1 DEF Die
    <2> HIDE DEF FileTypes, DbTypes
    <2> QED BY ZenonT(40), <2>2, <2>3 DEF IndexerOK
  <1>2. CASE DbExit(d)
    BY ZenonT(40), <1>0, <1>2 DEF DbExit, Disconnect, Gone, IndexerOK
  <1>3. CASE \E cmd \in Commands \ {"none"} : Start(d, cmd)
    BY <1>0, <1>3 DEF Start, DbGoto, IndexerOK
  <1>4. CASE CheckAbsent(d) \/ OpenDatabase(d) \/ OpenDatabaseFails(d)
    BY ZenonT(40), <1>0, <1>4 DEF CheckAbsent, OpenDatabase, Open, OpenDatabaseFails, DbReturn, DbGoto,
           IndexerOK, HasIpTable, Commands
  <1>5. CASE CreateUa(d) \/ CreateIp(d)
    BY <1>0, <1>5 DEF CreateUa, CreateIp, DbReturn, DbGoto, IndexerOK, HasIpTable
  <1>6. CASE IndexBegin(d)
    <2>1. dpc[d] = "begin" /\ dpc'[d] = "prepare"
      BY <1>6 DEF IndexBegin, DbGoto
    <2>2. UNCHANGED <<schema, rows, shared, command, cursor, exit>>
      BY <1>6 DEF IndexBegin, BeginExclusive
    <2>3. command[d] = "index" /\ cursor[d] = 0 /\ exit[d] = "none"
      BY <2>1 DEF IndexerOK
    <2>4. \A i \in DOMAIN rows : ~(i < 0) /\ i # 0
      BY ElementTypes
    <2> HIDE DEF FileTypes, DbTypes
    <2> QED BY ZenonT(40), <2>1, <2>2, <2>3, <2>4 DEF IndexerOK
  <1>7. CASE DbPrepare(d)
    <2>1. dpc[d] = "prepare" /\ dpc'[d] = "step"
      BY <1>7 DEF DbPrepare, DbGoto
    <2>2. UNCHANGED <<schema, rows, shared, exclusive, command, cursor, exit>>
      BY <1>7 DEF DbPrepare, Prepare
    <2>3. cursor[d] = 0 /\ exit[d] = "none" /\ command[d] \in {"index", "lint"}
      BY <2>1 DEF IndexerOK
    <2>4. \A i \in DOMAIN rows : ~(i < 0) /\ i # 0
      BY ElementTypes
    <2>5. exclusive = d => command[d] = "index"
      BY DEF IndexerOK
    <2> HIDE DEF FileTypes, DbTypes
    <2> QED BY ZenonT(40), <2>1, <2>2, <2>3, <2>4, <2>5 DEF IndexerOK
  <1>8. CASE DbStepRow(d)
    <2>1. PICK i \in DOMAIN rows :
            /\ i > cursor[d] /\ Selects(d, rows[i])
            /\ \A j \in DOMAIN rows : cursor[d] < j /\ j < i => ~Selects(d, rows[j])
            /\ cursor' = [cursor EXCEPT ![d] = i]
            /\ dpc[d] = "step"
            /\ command[d] = "lint" => dpc' = [dpc EXCEPT ![d] = "step"]
            /\ command[d] # "lint" => dpc' = [dpc EXCEPT ![d] = "update"]
      BY ZenonT(40), <1>8 DEF DbStepRow, DbGoto
    <2>2. /\ d \in shared' /\ UNCHANGED <<schema, rows, exclusive, command, exit>>
      BY ZenonT(40), <1>8 DEF DbStepRow, StepToRow
    <2>3. cursor'[d] = i /\ exit[d] = "none" /\ exit'[d] = "none"
      BY <2>1, <2>2 DEF IndexerOK
    <2>4. CASE command[d] = "lint"
      BY ZenonT(40), <2>1, <2>2, <2>3, <2>4 DEF IndexerOK
    <2>5. CASE command[d] # "lint"
      <3>1. dpc'[d] = "update" /\ NeedsIndex(rows[i])
        BY <2>1, <2>5 DEF Selects
      <3>2. exclusive = d => \A j \in DOMAIN rows : j < i => ~NeedsIndex(rows[j])
        <4> SUFFICES ASSUME exclusive = d, NEW j \in DOMAIN rows, j < i
                     PROVE  ~NeedsIndex(rows[j])
          OBVIOUS
        <4>1. cursor[d] \in Nat /\ j \in Nat
          BY ElementTypes
        <4>2. CASE cursor[d] < j
          BY ZenonT(40), <2>1, <2>5, <4>2 DEF Selects
        <4>3. CASE j < cursor[d] \/ j = cursor[d]
          BY ZenonT(40), <2>1, <4>3 DEF IndexerOK
        <4> QED BY <4>1, <4>2, <4>3
      <3>3. command[d] = "index"
        BY <2>1, <2>5 DEF IndexerOK
      <3> QED BY <2>1, <2>2, <2>3, <3>1, <3>2, <3>3 DEF IndexerOK
    <2> QED BY <2>4, <2>5
  <1>9. CASE DbStepEnd(d)
    <2>1. /\ dpc[d] = "step" /\ UNCHANGED <<schema, rows, exclusive, command, cursor>>
          /\ CanRead(d) => \A i \in DOMAIN rows : i > cursor[d] => ~Selects(d, rows[i])
      BY <1>9 DEF DbStepEnd, StepToEnd, DbReturn, DbGoto
    <2>2. CASE command[d] = "lint"
      <3>1. dpc'[d] = "return"
        BY ZenonT(40), <1>9, <2>2 DEF DbStepEnd, DbReturn, DbGoto
      <3> QED BY ZenonT(40), <1>0, <2>1, <2>2, <3>1 DEF IndexerOK
    <2>3. CASE command[d] # "lint"
      <3>1. dpc'[d] = "commit" /\ exit' = exit /\ command[d] = "index"
        BY <1>9, <2>1, <2>3 DEF DbStepEnd, DbGoto, IndexerOK
      <3>2. exclusive = d => \A i \in DOMAIN rows : ~NeedsIndex(rows[i])
        <4> SUFFICES ASSUME exclusive = d, NEW i \in DOMAIN rows
                     PROVE  ~NeedsIndex(rows[i])
          OBVIOUS
        <4>1. cursor[d] \in Nat /\ i \in Nat
          BY ElementTypes
        <4>2. CASE i > cursor[d]
          BY ZenonT(40), <2>1, <2>3, <4>2 DEF Selects, CanRead
        <4>3. CASE i < cursor[d] \/ i = cursor[d]
          BY <2>1, <4>3 DEF IndexerOK
        <4> QED BY <4>1, <4>2, <4>3
      <3> QED BY ZenonT(40), <2>1, <3>1, <3>2 DEF IndexerOK
    <2> QED BY <2>2, <2>3
  <1>10. CASE IndexUpdate(d)
    <2>1. /\ dpc[d] = "update" /\ dpc'[d] = "step"
          /\ UNCHANGED <<schema, exclusive, command, cursor, exit>>
      BY ZenonT(40), <1>10 DEF IndexUpdate, DbGoto
    <2>2. DOMAIN rows' = DOMAIN rows /\ \A i \in DOMAIN rows : i # cursor[d] => rows'[i] = rows[i]
      BY ZenonT(40), <1>10, IndexUpdateEffect
    <2>3. exclusive = d => ~NeedsIndex(rows'[cursor[d]])
      <3> SUFFICES ASSUME exclusive = d PROVE ~NeedsIndex(rows'[cursor[d]])
        OBVIOUS
      <3>1. CanWrite(d)
        BY ZenonT(40), <1>0 DEF CanWrite, CanRead, ReadersExcludeWriters
      <3>2. PICK garbage \in Addr : rows' = [rows EXCEPT ![cursor[d]] = Reindexed(@, garbage)]
        BY ZenonT(40), <1>10, <3>1 DEF IndexUpdate
      <3>3. rows'[cursor[d]] = Reindexed(rows[cursor[d]], garbage)
        BY <2>1, <3>2 DEF IndexerOK
      <3>4. rows[cursor[d]] \in Row /\ rows[cursor[d]].st # Null /\ rows[cursor[d]].et # Null
        BY ZenonT(40), <1>10, <2>1, ElementTypes DEF IndexUpdate, IndexerOK
      <3> QED BY ZenonT(40), <3>3, <3>4, ReindexedRow
    <2>4. exclusive = d =>
            \A i \in DOMAIN rows' : i < cursor[d] \/ i = cursor[d] => ~NeedsIndex(rows'[i])
      <3> SUFFICES ASSUME exclusive = d, NEW i \in DOMAIN rows', i < cursor[d]
                   PROVE  ~NeedsIndex(rows'[i])
        BY <2>3
      <3>1. i \in DOMAIN rows
        BY <2>2
      <3>3. i \in Nat /\ cursor[d] \in Nat
        BY <3>1, ElementTypes
      <3>4. i # cursor[d]
        BY <3>3
      <3>2. ~NeedsIndex(rows[i])
        BY <3>1 DEF IndexerOK
      <3> QED BY ZenonT(40), <2>2, <3>1, <3>2, <3>4
    <2>5. HasIpTable' = HasIpTable /\ exit[d] = "none" /\ command[d] = "index"
      BY ZenonT(40), <2>1 DEF IndexerOK, HasIpTable
    <2> HIDE DEF FileTypes, DbTypes
    <2> QED BY ZenonT(40), <2>1, <2>4, <2>5 DEF IndexerOK
  <1>11. CASE IndexCommit(d)
    BY <1>0, <1>11 DEF IndexCommit, Commit, DbReturn, DbGoto, IndexerOK, HasIpTable
  <1> QED BY <1>1, <1>2, <1>3, <1>4, <1>5, <1>6, <1>7, <1>8, <1>9, <1>10, <1>11
       DEF DbNext, DbStep

-----------------------------------------------------------------------------
(* Log runs *)

LEMMA OthersKeepLogger ==
    ASSUME TypeOK, NEW c \in Conns, NEW g \in Logs, c # g,
           LoggerOK(g), TableEffect(c), lpc'[g] = lpc[g], ip'[g] = ip[g]
    PROVE  LoggerOK(g)'
  BY ZenonT(40), ConnsAssumption DEF TableEffect, CanWrite, CanRead, LoggerOK, Known

LEMMA LogKeepsLogger ==
    ASSUME TypeOK, NEW g \in Logs, LoggerOK(g), LogNext(g)
    PROVE  LoggerOK(g)'
  <1>0. g # NoConn
    BY ConnsAssumption
  <1> FileTypes /\ LogTypes
    BY DEF TypeOK
  <1> USE DEF FileTypes, LogTypes, fileVars, connVars, LoggerOK
  <1>1. CASE BlockCountFails(g) \/ LogFails(g)
    BY ZenonT(40), <1>0, <1>1 DEF BlockCountFails, LogFails, LogDies, Die
  <1>2. CASE LogOpen(g) \/ LogBegin(g) \/ LogLine(g) \/ LogEnd(g) \/ LogExit(g)
    BY <1>2 DEF LogOpen, Open, LogBegin, BeginExclusive, LogLine, LogEnd, LogExit, Disconnect, LogGoto
  <1>3. CASE BlockCount(g)
    BY <1>3 DEF BlockCount, LogGoto, Known
  <1>4. CASE BlockInsert(g)
    BY <1>4 DEF BlockInsert, LogGoto
  <1>5. CASE LogCommit(g)
    BY ZenonT(40), <1>0, <1>5 DEF LogCommit, Commit, LogGoto
  <1> QED BY ZenonT(40), <1>1, <1>2, <1>3, <1>4, <1>5 DEF LogNext

-----------------------------------------------------------------------------
(* Requests *)

\* Once listed, an address stays listed.
LEMMA ListedStays ==
    ASSUME NEW t, NEW u, Extends(t, u), NEW a, Lists(t, a)
    PROVE  Lists(u, a)
  <1>1. PICK i \in DOMAIN t : /\ t[i].st = a /\ t[i].et = a
                              /\ Indexed(t[i]) /\ t[i].code # HTTP_OK
    BY ZenonT(40) DEF Lists
  <1>2. i \in DOMAIN u /\ u[i] = t[i]
    BY ZenonT(40), <1>1 DEF Extends
  <1> QED BY ZenonT(40), <1>1, <1>2 DEF Lists

\* The row that lists an address matches it: the numbers of a faithful row that
\* names one address satisfy start>=addr AND end<=addr.
LEMMA ListedMatches ==
    ASSUME TypeOK, TablesOK, exclusive = NoConn, NEW a \in Addr, Listed(a)
    PROVE  \E i \in DOMAIN rows : Matches(rows[i], a)
  <1>1. PICK i \in DOMAIN rows : rows[i].st = a /\ rows[i].et = a /\ Indexed(rows[i])
    <2>1. Lists(rows, a)
      BY ZenonT(40) DEF Listed, Committed
    <2> QED
      BY <2>1, Zenon DEF Lists
  <1>2. rows[i].start = a /\ rows[i].end = a
    BY ZenonT(40), <1>1 DEF TablesOK, Faithful
  <1>3. a >= a /\ a <= a
    BY AddrAssumption
  <1> QED BY ZenonT(40), <1>1, <1>2, <1>3 DEF Matches

LEMMA OthersKeepChild ==
    ASSUME TypeOK, NEW w \in Workers, ChildHolds(w), ChildAnswers(w),
           Extends(Committed, Committed'), HasIpTable => HasIpTable',
           pc'[w] = pc[w], addr'[w] = addr[w], ret'[w] = ret[w], status'[w] = status[w],
           record'[w] = record[w], cause'[w] = cause[w], listed'[w] = listed[w],
           handle'[w] = handle[w], stmt'[w] = stmt[w], w \in shared' <=> w \in shared
    PROVE  ChildHolds(w)' /\ ChildAnswers(w)'
  <1>1. ChildHolds(w)'
    BY ZenonT(40) DEF ChildHolds
  <1>2. listed'[w] => addr'[w] \in Addr /\ HasIpTable' /\ Lists(Committed', addr'[w])
    BY ZenonT(40), ListedStays DEF ChildAnswers, Listed
  <1>3. record'[w] # 0 => /\ record'[w] \in DOMAIN Committed'
                          /\ Committed'[record'[w]].code = status'[w]
    BY ZenonT(40) DEF ChildAnswers, Extends
  <1>4. ChildAnswers(w)'
    BY ZenonT(40), <1>2, <1>3 DEF ChildAnswers, Listed
  <1> QED BY ZenonT(40), <1>1, <1>4

LEMMA LookupKeepsHolds ==
    ASSUME TypeOK, NEW w \in Workers, ChildHolds(w), LookupNext(w)
    PROVE  ChildHolds(w)'
  <1> ConnTypes /\ ChildTypes
    BY DEF TypeOK
  <1> USE DEF ChildHolds, ConnTypes, ChildTypes, fileVars, connVars, Conns
  <1>1. CASE StepRow(w)
    <2>1. pc[w] = "step" /\ pc'[w] = "finalize" /\ StepToRow(w)
      BY ZenonT(40), <1>1, StepRowEffect
    <2> QED BY ZenonT(40), <2>1 DEF StepToRow
  <1>2. CASE \E a \in Addr \cup {NotV4}, u \in Agents \cup {NIL} : Arrive(w, a, u)
    BY ZenonT(40), <1>2 DEF Arrive, Goto
  <1>3. CASE InitConfiguration(w) \/ Connect(w) \/ ConnectFails(w) \/ ConvertAddress(w)
    BY ZenonT(40), <1>3 DEF InitConfiguration, Connect, Open, ConnectFails, ConvertAddress, Return, Goto
  <1>4. CASE PrepareQuery(w) \/ PrepareThrows(w) \/ StepDone(w) \/ StepBusy(w)
    BY ZenonT(40), <1>4 DEF PrepareQuery, Prepare, PrepareThrows, StepDone, StepToEnd, StepBusy, Return, Goto
  <1>5. CASE FinalizeQuery(w) \/ CloseHandler(w) \/ Respond(w)
    BY <1>5 DEF FinalizeQuery, Finalize, CloseHandler, Close, Respond, Goto
  <1> QED BY ZenonT(40), <1>1, <1>2, <1>3, <1>4, <1>5 DEF LookupNext, HandlerStep

LEMMA LookupKeepsAnswers ==
    ASSUME TypeOK, TablesOK, NEW w \in Workers, ChildAnswers(w), LookupNext(w),
           HasIpTable => HasIpTable'
    PROVE  ChildAnswers(w)'
  <1>1. Committed' = Committed /\ Committed \in Seq(Row)
    BY LookupEffect DEF Committed, TypeOK, FileTypes
  <1>2. CASE \E a \in Addr \cup {NotV4}, u \in Agents \cup {NIL} : Arrive(w, a, u)
    <2>1. PICK a \in Addr \cup {NotV4}, u \in Agents \cup {NIL} : Arrive(w, a, u)
      BY ZenonT(40), <1>2
    <2>2. Listed(a) => a \in Addr
      BY ZenonT(40), <1>1, ElementTypes, NotV4Assumption DEF Listed, Lists, Row, Text
    <2>3. /\ pc[w] = "idle" /\ pc'[w] = "config" /\ addr'[w] = a
          /\ listed'[w] = Listed(a) /\ UNCHANGED <<ret, status, record, cause>>
      BY <2>1 DEF Arrive, Goto, KeepAnswer, TypeOK, ChildTypes
    <2> QED BY ZenonT(40), <1>1, <2>2, <2>3 DEF ChildAnswers, Listed
  <1>3. CASE Respond(w)
    <2>1. /\ pc'[w] = "idle" /\ ret'[w] = "none" /\ status'[w] = HTTP_OK
          /\ record'[w] = 0 /\ cause'[w] = "none" /\ listed'[w] = FALSE
      BY <1>3 DEF Respond, Goto, TypeOK, ChildTypes
    <2> QED BY ZenonT(40), <2>1 DEF ChildAnswers
  <1>4. CASE HandlerStep(w)
    <2> ChildTypes /\ exclusive \in Dbs \cup Logs \cup {NoConn}
      BY DEF TypeOK, FileTypes
    <2> USE DEF ChildTypes
    <2>1. UNCHANGED <<addr, listed>>
      BY ZenonT(40), <1>4 DEF HandlerStep, KeepRequest, InitConfiguration, Connect, ConnectFails,
             ConvertAddress, PrepareQuery, PrepareThrows, StepRow, StepDone, StepBusy,
             FinalizeQuery, CloseHandler
    <2>2. listed'[w] => addr'[w] \in Addr /\ HasIpTable' /\ Lists(Committed', addr'[w])
      BY ZenonT(40), <1>1, <2>1 DEF ChildAnswers, Listed
    <2>3. CASE Connect(w) \/ PrepareQuery(w) \/ FinalizeQuery(w) \/ CloseHandler(w)
      BY ZenonT(40), <1>1, <2>1, <2>2, <2>3 DEF Connect, PrepareQuery, FinalizeQuery, CloseHandler, Goto,
             KeepAnswer, ChildAnswers, Listed
    <2>4. CASE ConnectFails(w) \/ PrepareThrows(w) \/ StepBusy(w)
      BY ZenonT(40), <1>1, <2>1, <2>2, <2>4 DEF ConnectFails, PrepareThrows, StepBusy, Return, Goto, ChildAnswers, Listed
    <2>5. CASE InitConfiguration(w)
      BY ZenonT(40), <1>1, <2>1, <2>2, <2>5 DEF InitConfiguration, Return, Goto, ChildAnswers, Listed, HasIpTable
    <2>6. CASE ConvertAddress(w)
      BY ZenonT(40), <1>1, <2>1, <2>2, <2>6, NotV4Assumption DEF ConvertAddress, Return, Goto, ChildAnswers, Listed
    <2>7. CASE StepRow(w)
      <3>1. PICK i \in DOMAIN rows, value \in {"OK", "DECLINED"}, why \in {"allow", "block"} :
              /\ record' = [record EXCEPT ![w] = i]
              /\ status' = [status EXCEPT ![w] = rows[i].code]
              /\ ret' = [ret EXCEPT ![w] = value]
              /\ cause' = [cause EXCEPT ![w] = why]
              /\ rows[i].code = HTTP_OK => value = "DECLINED" /\ why = "allow"
              /\ rows[i].code # HTTP_OK => value = "OK" /\ why = "block"
        BY ZenonT(40), <2>7, StepRowEffect
      <3>2. Committed = rows
        <4>1. CanRead(w)
          BY ZenonT(40), <2>7, StepRowEffect
        <4>2. exclusive # w
          BY ConnsAssumption
        <4> QED BY <4>1, <4>2 DEF CanRead, Committed
      <3>4. pc'[w] = "finalize"
        BY ZenonT(40), <2>7, StepRowEffect
      <3>3. /\ pc'[w] = "finalize" /\ record'[w] = i /\ status'[w] = rows[i].code
            /\ rows[i].code = HTTP_OK => ret'[w] = "DECLINED" /\ cause'[w] = "allow"
            /\ rows[i].code # HTTP_OK => ret'[w] = "OK" /\ cause'[w] = "block"
        BY ZenonT(40), <3>1, <3>4
      <3> QED BY ZenonT(40), <1>1, <2>1, <2>2, <3>2, <3>3 DEF ChildAnswers, Listed
    <2>8. CASE StepDone(w)
      <3>1. exclusive = NoConn /\ \A i \in DOMAIN rows : ~Matches(rows[i], addr[w])
        BY <2>8, ConnsAssumption DEF StepDone, CanRead
      <3>2. ~listed[w]
        BY ZenonT(40), <3>1, ListedMatches DEF ChildAnswers
      <3>3. /\ pc'[w] = "finalize" /\ ret'[w] = "DECLINED" /\ cause'[w] = "no_match"
            /\ UNCHANGED <<status, record>> /\ pc[w] = "step"
        BY <2>8 DEF StepDone, Return, Goto
      <3> QED BY ZenonT(40), <1>1, <2>1, <3>2, <3>3 DEF ChildAnswers, Listed
    <2> QED BY <1>4, <2>3, <2>4, <2>5, <2>6, <2>7, <2>8 DEF HandlerStep
  <1> QED BY <1>2, <1>3, <1>4 DEF LookupNext

-----------------------------------------------------------------------------
(* The inductive invariant *)

\* A step of one process preserves the invariant, and keeps the committed rows,
\* when its effect on the table is one of the five and it leaves what the other
\* processes hold and know alone.
LEMMA InvLookup ==
    ASSUME Inv, NEW w \in Workers, LookupNext(w), UNCHANGED <<dbVars, logVars>>
    PROVE  Inv' /\ Extends(Committed, Committed')
  <1> USE DEF Inv
  <1>1. /\ TypeOK' /\ ReadersExcludeWriters' /\ TableEffect(w) /\ (HasIpTable => HasIpTable')
        /\ OthersKeepConnections(w) /\ OthersKeepRequests(w) /\ w \in Conns
    BY ZenonT(40), LookupTypeOK, LookupLocks, LookupEffect, LookupKeepsOthers DEF TableEffect, Conns
  <1>2. TablesOK' /\ Extends(Committed, Committed')
    BY <1>1, EffectKeepsTables
  <1>3. \A d \in Dbs : IndexerOK(d)'
    BY ZenonT(40), <1>1, OthersKeepIndexer, ConnsAssumption DEF dbVars, OthersKeepConnections, Conns
  <1>4. \A g \in Logs : LoggerOK(g)'
    BY ZenonT(40), <1>1, OthersKeepLogger, ConnsAssumption DEF logVars
  <1>5. \A x \in Workers : ChildHolds(x)' /\ ChildAnswers(x)'
    <2> TAKE x \in Workers
    <2>1. CASE x = w
      BY <1>1, <2>1, LookupKeepsHolds, LookupKeepsAnswers
    <2>2. CASE x # w
      BY ZenonT(40), <1>1, <1>2, <2>2, OthersKeepChild DEF OthersKeepConnections, OthersKeepRequests, Conns
    <2> QED BY <2>1, <2>2
  <1> QED BY <1>1, <1>2, <1>3, <1>4, <1>5

LEMMA InvDb ==
    ASSUME Inv, NEW d \in Dbs, DbNext(d), UNCHANGED <<lookupVars, logVars>>
    PROVE  Inv' /\ Extends(Committed, Committed')
  <1> USE DEF Inv
  <1>1. /\ TypeOK' /\ ReadersExcludeWriters' /\ TableEffect(d) /\ (HasIpTable => HasIpTable')
        /\ OthersKeepConnections(d) /\ OthersKeepCommands(d) /\ d \in Conns
    BY DbTypeOK, DbLocks, DbEffect, DbKeepsOthers DEF Conns
  <1>2. TablesOK' /\ Extends(Committed, Committed')
    BY <1>1, EffectKeepsTables
  <1>3. \A x \in Dbs : IndexerOK(x)'
    <2> TAKE x \in Dbs
    <2>1. CASE x = d
      BY <2>1, DbKeepsIndexer
    <2>2. CASE x # d
      BY ZenonT(40), <1>1, <2>2, OthersKeepIndexer DEF OthersKeepConnections, OthersKeepCommands, Conns
    <2> QED BY <2>1, <2>2
  <1>4. \A g \in Logs : LoggerOK(g)'
    BY ZenonT(40), <1>1, OthersKeepLogger, ConnsAssumption DEF logVars
  <1>5. \A w \in Workers : ChildHolds(w)' /\ ChildAnswers(w)'
    BY ZenonT(40), <1>1, <1>2, OthersKeepChild, ConnsAssumption DEF lookupVars, OthersKeepConnections, Conns
  <1> QED BY <1>1, <1>2, <1>3, <1>4, <1>5

LEMMA InvLog ==
    ASSUME Inv, NEW g \in Logs, LogNext(g), UNCHANGED <<lookupVars, dbVars>>
    PROVE  Inv' /\ Extends(Committed, Committed')
  <1> USE DEF Inv
  <1>1. /\ TypeOK' /\ ReadersExcludeWriters' /\ TableEffect(g) /\ (HasIpTable => HasIpTable')
        /\ OthersKeepConnections(g) /\ OthersKeepLines(g) /\ g \in Conns
    BY LogTypeOK, LogLocks, LogEffect, LogKeepsOthers DEF Conns
  <1>2. TablesOK' /\ Extends(Committed, Committed')
    BY <1>1, EffectKeepsTables
  <1>3. \A d \in Dbs : IndexerOK(d)'
    BY ZenonT(40), <1>1, OthersKeepIndexer, ConnsAssumption DEF dbVars, OthersKeepConnections, Conns
  <1>4. \A x \in Logs : LoggerOK(x)'
    <2> TAKE x \in Logs
    <2>1. CASE x = g
      BY ZenonT(40), <2>1, LogKeepsLogger
    <2>2. CASE x # g
      BY ZenonT(40), <1>1, <2>2, OthersKeepLogger DEF OthersKeepLines
    <2> QED BY <2>1, <2>2
  <1>5. \A w \in Workers : ChildHolds(w)' /\ ChildAnswers(w)'
    BY ZenonT(40), <1>1, <1>2, OthersKeepChild, ConnsAssumption DEF lookupVars, OthersKeepConnections, Conns
  <1> QED BY <1>1, <1>2, <1>3, <1>4, <1>5

LEMMA InvInit == Init => Inv
  <1> SUFFICES ASSUME Init PROVE Inv
    OBVIOUS
  <1>1. TypeOK
    BY InitTypeOK
  <1>2. TablesOK
    BY InitialTablesAssumption DEF Init, SqliteInit, TablesOK
  <1> QED BY <1>1, <1>2, ConnsAssumption
       DEF Init, SqliteInit, LookupInit, DbInit, LogInit, Inv, ReadersExcludeWriters, IndexerOK,
           LoggerOK, ChildHolds, ChildAnswers, Conns

LEMMA InvStep == Inv /\ [Next]_vars => Inv' /\ [Extends(Committed, Committed')]_vars
  <1> SUFFICES ASSUME Inv, [Next]_vars
               PROVE  Inv' /\ [Extends(Committed, Committed')]_vars
    OBVIOUS
  <1>1. CASE UNCHANGED vars
    <2> USE DEF vars, fileVars, connVars, lookupVars, dbVars, logVars
    <2>1. TypeOK'
      BY <1>1 DEF Inv, TypeOK, FileTypes, ConnTypes, ChildTypes, DbTypes, LogTypes
    <2>2. ReadersExcludeWriters' /\ TablesOK'
      BY ZenonT(40), <1>1 DEF Inv, ReadersExcludeWriters, TablesOK
    <2>3. \A d \in Dbs : IndexerOK(d)'
      BY ZenonT(40), <1>1 DEF Inv, IndexerOK, HasIpTable
    <2>4. \A g \in Logs : LoggerOK(g)'
      BY ZenonT(40), <1>1 DEF Inv, LoggerOK, Known
    <2>5. \A w \in Workers : ChildHolds(w)'
      BY ZenonT(40), <1>1 DEF Inv, ChildHolds
    <2>6. Committed' = Committed /\ HasIpTable' = HasIpTable
      BY <1>1 DEF Committed, HasIpTable
    <2>7. \A w \in Workers : ChildAnswers(w)'
      BY ZenonT(40), <1>1, <2>6 DEF Inv, ChildAnswers, Listed
    <2> HIDE DEF vars
    <2> QED BY ZenonT(40), <1>1, <2>1, <2>2, <2>3, <2>4, <2>5, <2>7 DEF Inv
  <1> QED BY <1>1, InvLookup, InvDb, InvLog DEF Next

LEMMA Invariance == Spec => []Inv
  BY InvInit, InvStep, PTL DEF Spec

-----------------------------------------------------------------------------
(* The properties *)

\* The lookup of a listed address does not miss its row, for any number of
\* children and tools, any addresses and any initial tables.
THEOREM ListedAreBlocked == Spec => []ListedIsBlocked
  <1>1. Inv => ListedIsBlocked
    BY ZenonT(40) DEF Inv, ChildAnswers, ListedIsBlocked
  <1> QED BY <1>1, Invariance, PTL

\* Answers rest on committed rows.
THEOREM MatchesAreCommitted == Spec => []MatchIsCommitted
  <1>1. Inv => MatchIsCommitted
    BY ZenonT(40) DEF Inv, ChildAnswers, MatchIsCommitted
  <1> QED BY <1>1, Invariance, PTL

\* The handler gives back what it acquired on every way out.
THEOREM NoLeak == Spec => []NothingLeaks
  <1>1. Inv => NothingLeaks
    BY DEF Inv, ChildHolds, NothingLeaks
  <1> QED BY <1>1, Invariance, PTL

\* A transaction and a read never overlap.
THEOREM LocksExclude == Spec => []ReadersExcludeWriters
  <1>1. Inv => ReadersExcludeWriters
    BY DEF Inv
  <1> QED BY <1>1, Invariance, PTL

\* An index run that commits its transaction has left no row behind.
THEOREM IndexCompletes == Spec => []IndexIsComplete
  <1>1. Inv => IndexIsComplete
    BY ZenonT(40) DEF Inv, IndexerOK, IndexIsComplete
  <1> QED BY <1>1, Invariance, PTL

\* Numbers never contradict the texts they were made from.
THEOREM FaithfulNumbers == Spec => []NumbersAreFaithful
  <1>1. Inv => NumbersAreFaithful
    BY ZenonT(40) DEF Inv, TablesOK, NumbersAreFaithful
  <1> QED BY <1>1, Invariance, PTL

\* gatedb --create reports success only for a file with both tables.
THEOREM CreateCompletes == Spec => []CreateIsComplete
  <1>1. Inv => CreateIsComplete
    BY DEF Inv, IndexerOK, CreateIsComplete
  <1> QED BY <1>1, Invariance, PTL

\* blockIP's check and its insert are atomic inside the transaction.
THEOREM CountHolds == Spec => []CountHoldsAtInsert
  <1>1. Inv => CountHoldsAtInsert
    BY DEF Inv, LoggerOK, CountHoldsAtInsert
  <1> QED BY <1>1, Invariance, PTL

\* No step takes a committed row back.
THEOREM CommittedRowsStay == Spec => RowsStay
  BY Invariance, InvStep, PTL DEF Spec, RowsStay

-----------------------------------------------------------------------------
(* Refinement *)

Req == [w \in Workers |-> IF pc[w] = "idle" THEN Null ELSE addr[w]]
Ans == [w \in Workers |-> [ret |-> ret[w], status |-> status[w], cause |-> cause[w]]]

LEMMA LookupKeepsAsks ==
    ASSUME TypeOK, NEW w \in Workers, ChildAsks(w), LookupNext(w)
    PROVE  ChildAsks(w)'
  <1> ChildTypes
    BY DEF TypeOK
  <1> USE DEF ChildAsks, ChildTypes
  <1>1. CASE StepRow(w)
    <2>1. pc'[w] = "finalize"
      BY ZenonT(40), <1>1, StepRowEffect
    <2>2. cause'[w] # "none"
      BY ZenonT(40), <1>1, StepRowEffect
    <2> QED BY ZenonT(40), <2>1, <2>2
  <1>2. CASE \E a \in Addr \cup {NotV4}, u \in Agents \cup {NIL} : Arrive(w, a, u)
    BY ZenonT(40), <1>2 DEF Arrive, Goto
  <1>3. CASE InitConfiguration(w) \/ Connect(w) \/ ConnectFails(w) \/ ConvertAddress(w)
    BY ZenonT(40), <1>3 DEF InitConfiguration, Connect, ConnectFails, ConvertAddress, Return, Goto, KeepRequest
  <1>4. CASE PrepareQuery(w) \/ PrepareThrows(w) \/ StepDone(w) \/ StepBusy(w)
    BY <1>4 DEF PrepareQuery, PrepareThrows, StepDone, StepBusy, Return, Goto, KeepRequest
  <1>5. CASE FinalizeQuery(w) \/ CloseHandler(w)
    BY <1>5 DEF FinalizeQuery, CloseHandler, Goto, KeepAnswer
  <1>6. CASE Respond(w)
    <2>1. pc'[w] = "idle"
      BY <1>6 DEF Respond, Goto
    <2> QED BY ZenonT(40), <2>1
  <1> QED BY ZenonT(40), <1>1, <1>2, <1>3, <1>4, <1>5, <1>6 DEF LookupNext, HandlerStep

LEMMA AsksInvariance == Spec => [](\A w \in Workers : ChildAsks(w))
  <1>1. Init => \A w \in Workers : ChildAsks(w)
    BY ZenonT(40) DEF Init, LookupInit, ChildAsks
  <1>2. Inv /\ (\A w \in Workers : ChildAsks(w)) /\ [Next]_vars => (\A w \in Workers : ChildAsks(w))'
    <2> SUFFICES ASSUME Inv, \A w \in Workers : ChildAsks(w), [Next]_vars, NEW w \in Workers
                 PROVE  ChildAsks(w)'
      OBVIOUS
    <2>1. CASE UNCHANGED lookupVars
      BY ZenonT(40), <2>1 DEF lookupVars, ChildAsks
    <2>2. ASSUME NEW x \in Workers, LookupNext(x) PROVE ChildAsks(w)'
      <3>1. TypeOK
        BY DEF Inv
      <3>2. CASE x = w
        BY ZenonT(40), <2>2, <3>1, <3>2, LookupKeepsAsks
      <3>3. CASE x # w
        BY ZenonT(40), <2>2, <3>1, <3>3, LookupKeepsOthers DEF OthersKeepRequests, ChildAsks
      <3> QED BY <3>2, <3>3
    <2> QED BY <2>1, <2>2 DEF Next, vars
  <1> QED BY <1>1, <1>2, Invariance, PTL DEF Spec

\* A step of one child changes its own entries only.
LEMMA OneChild ==
    ASSUME TypeOK, NEW w \in Workers, LookupNext(w)
    PROVE  /\ Req' = [Req EXCEPT ![w] = IF pc'[w] = "idle" THEN Null ELSE addr'[w]]
           /\ Ans' = [Ans EXCEPT ![w] = [ret |-> ret'[w], status |-> status'[w], cause |-> cause'[w]]]
  <1>1. OthersKeepRequests(w)
    BY ZenonT(40), LookupKeepsOthers
  <1>2. \A x \in Workers \ {w} : pc'[x] = pc[x] /\ addr'[x] = addr[x] /\ ret'[x] = ret[x]
                               /\ status'[x] = status[x] /\ cause'[x] = cause[x]
    BY <1>1 DEF OthersKeepRequests
  <1> QED BY ZenonT(40), <1>2 DEF Req, Ans

\* A step that neither asks nor answers, or one that does, seen from the list.
LEMMA LookupRefines ==
    ASSUME Inv, NEW w \in Workers, ChildAsks(w), LookupNext(w)
    PROVE  \/ Req' = Req /\ Ans' = Ans
           \/ /\ Req[w] = Null /\ Ans' = Ans
              /\ \E a \in Addr \cup {NotV4} : Req' = [Req EXCEPT ![w] = a]
           \/ /\ Req[w] # Null /\ Ans[w] = List!Undecided /\ Req' = Req
              /\ \E x \in List!Unread \cup List!Says(Req[w]) \cup
                    (IF List!Says(Req[w]) = {} THEN {List!Answer("DECLINED", 200, "no_match")} ELSE {}) :
                    Ans' = [Ans EXCEPT ![w] = x]
           \/ /\ Ans[w] # List!Undecided
              /\ Req' = [Req EXCEPT ![w] = Null]
              /\ Ans' = [Ans EXCEPT ![w] = List!Undecided]
  <1> DEFINE r == IF pc'[w] = "idle" THEN Null ELSE addr'[w]
             x == [ret |-> ret'[w], status |-> status'[w], cause |-> cause'[w]]
  <1>t. TypeOK /\ ChildTypes /\ ChildAnswers(w)
    BY DEF Inv, TypeOK
  <1>1. Req' = [Req EXCEPT ![w] = r] /\ Ans' = [Ans EXCEPT ![w] = x]
    BY ZenonT(40), <1>t, OneChild
  <1>2. /\ Req[w] = IF pc[w] = "idle" THEN Null ELSE addr[w]
        /\ Ans[w] = [ret |-> ret[w], status |-> status[w], cause |-> cause[w]]
        /\ Req = [Req EXCEPT ![w] = Req[w]] /\ Ans = [Ans EXCEPT ![w] = Ans[w]]
    BY ZenonT(40) DEF Req, Ans
  <1>3. addr[w] # Null
    BY ZenonT(40), <1>t, NotV4Assumption, ValuesAssumption DEF ChildTypes
  <1>4. pc[w] \in {"idle", "config", "connect", "convert", "prepare", "step"} => Ans[w] = List!Undecided
    BY ZenonT(40), <1>t, <1>2 DEF ChildAnswers, List!Undecided, List!Answer, HTTP_OK
  <1>5. CASE \E a \in Addr \cup {NotV4}, u \in Agents \cup {NIL} : Arrive(w, a, u)
    <2>1. PICK a \in Addr \cup {NotV4}, u \in Agents \cup {NIL} : Arrive(w, a, u)
      BY <1>5
    <2>2. pc[w] = "idle" /\ pc'[w] = "config" /\ addr'[w] = a /\ UNCHANGED <<ret, status, cause>>
      BY <2>1, <1>t DEF Arrive, Goto, KeepAnswer, ChildTypes
    <2>3. r = a /\ x = Ans[w] /\ Req[w] = Null
      BY <2>2, <1>2
    <2> HIDE DEF r, x
    <2> QED BY ZenonT(40), <2>3, <1>1, <1>2
  <1>6. CASE Respond(w)
    <2>1. pc[w] = "done" /\ pc'[w] = "idle" /\ ret'[w] = "none" /\ status'[w] = 200 /\ cause'[w] = "none"
      BY <1>6, <1>t DEF Respond, Goto, ChildTypes, HTTP_OK
    <2>2. r = Null /\ x = List!Undecided
      BY ZenonT(40), <2>1 DEF List!Undecided, List!Answer
    <2>3. Ans[w] # List!Undecided
      BY SMTT(30), <2>1, <1>2 DEF ChildAsks, List!Undecided, List!Answer
    <2> HIDE DEF r, x
    <2> QED BY <2>2, <2>3, <1>1
  <1> DEFINE Stays == UNCHANGED <<addr, ret, status, cause>> /\ pc[w] # "idle" /\ pc'[w] # "idle"
             Says == pc[w] \in {"config", "connect", "convert", "prepare", "step"} /\ pc'[w] # "idle"
                     /\ addr' = addr
  <1>7. ASSUME Stays PROVE Req' = Req /\ Ans' = Ans
    <2>1. r = Req[w] /\ x = Ans[w]
      BY <1>7, <1>2
    <2> HIDE DEF r, x
    <2> QED BY <2>1, <1>1, <1>2
  <1>8. ASSUME Says,
               x \in List!Unread \cup List!Says(Req[w]) \cup
                    (IF List!Says(Req[w]) = {} THEN {List!Answer("DECLINED", 200, "no_match")} ELSE {})
        PROVE  /\ Req[w] # Null /\ Ans[w] = List!Undecided /\ Req' = Req
               /\ \E y \in List!Unread \cup List!Says(Req[w]) \cup
                    (IF List!Says(Req[w]) = {} THEN {List!Answer("DECLINED", 200, "no_match")} ELSE {}) :
                    Ans' = [Ans EXCEPT ![w] = y]
    <2>1. r = Req[w] /\ Req[w] # Null /\ Ans[w] = List!Undecided
      BY <1>8, <1>2, <1>3, <1>4
    <2>2. Req' = Req
      <3> HIDE DEF r
      <3> QED BY <2>1, <1>1, <1>2
    <2> HIDE DEF x, Says
    <2> QED BY ZenonT(40), <1>8, <2>1, <2>2, <1>1
  <1>s. ASSUME NEW here, NEW there, NEW value, NEW why, Return(w, here, there, value, why)
        PROVE  ret'[w] = value /\ cause'[w] = why
    BY <1>t, <1>s DEF Return, ChildTypes
  <1>r. ASSUME NEW here \in {"config", "connect", "convert", "prepare", "step"},
               NEW there, there # "idle", NEW value, NEW why,
               Return(w, here, there, value, why), UNCHANGED <<addr, status>>
        PROVE  Says /\ x = List!Answer(value, 200, why)
    <2>1. /\ pc[w] = here /\ pc'[w] = there /\ ret'[w] = value /\ cause'[w] = why
          /\ addr' = addr /\ status'[w] = status[w]
      BY <1>t, <1>r DEF Return, Goto, ChildTypes
    <2>2. Ans[w] = List!Undecided
      BY ZenonT(40), <1>4, <1>r, <2>1
    <2>3. status[w] = 200
      BY <1>2, <2>2 DEF List!Undecided, List!Answer
    <2>4. Says
      BY ZenonT(40), <1>r, <2>1
    <2>5. x = List!Answer(value, 200, why)
      BY ZenonT(40), <2>1, <2>3 DEF List!Answer
    <2> QED BY ZenonT(40), <2>4, <2>5
  <1>9. CASE HandlerStep(w)
    <2> USE DEF ChildTypes, KeepRequest, KeepAnswer
    <2>1. CASE Connect(w) \/ PrepareQuery(w) \/ FinalizeQuery(w) \/ CloseHandler(w)
      <3>1. Stays
        BY <2>1, <1>t DEF Connect, PrepareQuery, FinalizeQuery, CloseHandler, Goto
      <3> QED BY ZenonT(40), <3>1, <1>7
    <2>2. CASE ConnectFails(w)
      <3>1. Says /\ x = List!Answer("1", 200, "unopened")
        <4>1. Return(w, "connect", "done", "1", "unopened") /\ UNCHANGED <<addr, status>>
          BY ZenonT(40), <2>2 DEF ConnectFails, KeepRequest
        <4> QED
          BY ZenonT(40), <4>1, <1>r
      <3>2. x \in List!Unread
        BY <3>1 DEF List!Unread
      <3> QED BY ZenonT(40), <3>1, <3>2, <1>8
    <2>3. CASE PrepareThrows(w)
      <3>1. Says /\ x = List!Answer("OK", 200, "error")
        <4>1. Return(w, "prepare", "close", "OK", "error") /\ UNCHANGED <<addr, status>>
          BY ZenonT(40), <2>3 DEF PrepareThrows, KeepRequest
        <4> QED
          BY ZenonT(40), <4>1, <1>r
      <3>2. x \in List!Unread
        BY <3>1 DEF List!Unread
      <3> QED BY ZenonT(40), <3>1, <3>2, <1>8
    <2>4. CASE StepBusy(w)
      <3>1. Says /\ x = List!Answer("DECLINED", 200, "busy")
        <4>1. Return(w, "step", "finalize", "DECLINED", "busy") /\ UNCHANGED <<addr, status>>
          BY ZenonT(40), <2>4 DEF StepBusy, KeepRequest
        <4> QED
          BY ZenonT(40), <4>1, <1>r
      <3>2. x \in List!Unread
        BY ZenonT(40), <3>1 DEF List!Unread
      <3> QED BY ZenonT(40), <3>1, <3>2, <1>8
    <2>5. CASE InitConfiguration(w)
      <3>1. CASE schema = "absent"
        <4>1. Says /\ x = List!Answer("DECLINED", 200, "unreadable")
          <5>1. Return(w, "config", "done", "DECLINED", "unreadable") /\ UNCHANGED <<addr, status>>
            BY ZenonT(40), <2>5, <3>1 DEF InitConfiguration, KeepRequest
          <5> QED
            BY ZenonT(40), <5>1, <1>r
        <4>2. x \in List!Unread
          BY ZenonT(40), <4>1 DEF List!Unread
        <4> QED BY ZenonT(40), <4>1, <4>2, <1>8
      <3>2. CASE schema # "absent"
        <4>1. Stays
          BY <2>5, <3>2, <1>t DEF InitConfiguration, Goto
        <4> QED BY ZenonT(40), <4>1, <1>7
      <3> QED BY Zenon, <3>1, <3>2
    <2>6. CASE ConvertAddress(w)
      <3>1. CASE addr[w] = NotV4
        <4>1. Says /\ x = List!Answer("DECLINED", 200, "not_v4")
          <5>1. Return(w, "convert", "close", "DECLINED", "not_v4") /\ UNCHANGED <<addr, status>>
            BY ZenonT(40), <2>6, <3>1, NotV4Assumption DEF ConvertAddress, KeepRequest
          <5> QED
            BY ZenonT(40), <5>1, <1>r
        <4>2. x \in List!Unread
          BY ZenonT(40), <4>1 DEF List!Unread
        <4> QED BY ZenonT(40), <4>1, <4>2, <1>8
      <3>2. CASE addr[w] # NotV4
        <4>1. Stays
          BY ZenonT(40), <2>6, <3>2, <1>t DEF ConvertAddress, Goto
        <4> QED BY ZenonT(40), <4>1, <1>7
      <3> QED BY ZenonT(40), <3>1, <3>2
    <2>7. CASE StepRow(w) \/ StepDone(w)
      <3>1. CanRead(w) /\ pc[w] = "step" /\ pc'[w] = "finalize" /\ addr' = addr
        BY ZenonT(40), <2>7, <1>t, StepRowEffect DEF StepDone, Return, Goto
      <3>2. Committed = rows
        <4>1. exclusive # w
          BY ZenonT(40), <1>t, ConnsAssumption DEF TypeOK, FileTypes
        <4> QED BY ZenonT(40), <4>1, <3>1 DEF CanRead, Committed
      <3>3. Says /\ addr[w] \in Addr /\ Req[w] = addr[w]
        BY ZenonT(40), <3>1, <1>2 DEF ChildAsks
      <3>4. CASE StepRow(w)
        <4>1. PICK i \in DOMAIN rows :
                /\ Matches(rows[i], addr[w])
                /\ status' = [status EXCEPT ![w] = rows[i].code]
                /\ IF rows[i].code = HTTP_OK
                     THEN Return(w, "step", "finalize", "DECLINED", "allow")
                     ELSE Return(w, "step", "finalize", "OK", "block")
          BY ZenonT(40), <3>4 DEF StepRow
        <4>2. /\ status'[w] = rows[i].code
              /\ ret'[w] = IF rows[i].code = 200 THEN "DECLINED" ELSE "OK"
              /\ cause'[w] = IF rows[i].code = 200 THEN "allow" ELSE "block"
          <5>1. status'[w] = rows[i].code
            BY ZenonT(40), <4>1, <1>t
          <5>2. CASE rows[i].code = HTTP_OK
            <6>1. ret'[w] = "DECLINED" /\ cause'[w] = "allow"
              BY <4>1, <5>2, <1>s, Zenon
            <6> QED BY <5>1, <5>2, <6>1, Zenon DEF HTTP_OK
          <5>3. CASE rows[i].code # HTTP_OK
            <6>1. ret'[w] = "OK" /\ cause'[w] = "block"
              BY <4>1, <5>3, <1>s, Zenon
            <6> QED BY <5>1, <5>3, <6>1, Zenon DEF HTTP_OK
          <5> QED BY ZenonT(40), <5>2, <5>3
        <4>3. x = List!Answer(IF Committed[i].code = 200 THEN "DECLINED" ELSE "OK", Committed[i].code,
                              IF Committed[i].code = 200 THEN "allow" ELSE "block")
          BY ZenonT(40), <4>2, <3>2 DEF List!Answer
        <4>4. i \in DOMAIN Committed /\ Answers(Committed[i], Req[w])
          BY ZenonT(40), <4>1, <3>2, <3>3 DEF Answers
        <4>5. x \in List!Says(Req[w])
          BY ZenonT(40), <4>3, <4>4 DEF List!Says
        <4> HIDE DEF x, Says
        <4> QED BY <4>5, <3>3, <1>8
      <3>5. CASE StepDone(w)
        <4>1. \A i \in DOMAIN Committed : ~Answers(Committed[i], Req[w])
          BY ZenonT(40), <3>5, <3>2, <3>3 DEF StepDone, Answers
        <4>2. List!Says(Req[w]) = {}
          BY ZenonT(40), <4>1 DEF List!Says
        <4>3. x = List!Answer("DECLINED", 200, "no_match")
          <5>1. Return(w, "step", "finalize", "DECLINED", "no_match") /\ UNCHANGED <<addr, status>>
            BY ZenonT(40), <3>5 DEF StepDone, KeepRequest
          <5> QED
            BY ZenonT(40), <5>1, <1>r
        <4> HIDE DEF x, Says
        <4> QED BY <4>2, <4>3, <3>3, <1>8
      <3> QED BY <2>7, <3>4, <3>5
    <2> HIDE DEF Says, Stays, x, r
    <2> QED BY ZenonT(40), <1>9, <2>1, <2>2, <2>3, <2>4, <2>5, <2>6, <2>7 DEF HandlerStep
  <1> HIDE DEF Says, Stays, x, r
  <1> QED BY ZenonT(40), <1>5, <1>6, <1>9 DEF LookupNext

\* The handler, with all the steps it takes between those of the tools, decides
\* every request as one look at the committed rows would.
THEOREM LookupsAreAtomic == Spec => LookupIsAtomic
  <1> DEFINE Asks == \A w \in Workers : ChildAsks(w)
  <1>1. Init => List!BlocklistInit
    BY DEF Init, LookupInit, List!BlocklistInit, List!Undecided, List!Answer, HTTP_OK
  <1>2. Inv /\ Inv' /\ Asks /\ [Next]_vars => [List!BlocklistNext]_(List!blocklistVars)
    <2> SUFFICES ASSUME Inv, Asks, [Next]_vars
                 PROVE  \/ List!BlocklistNext
                        \/ Committed' = Committed /\ Req' = Req /\ Ans' = Ans
      BY ZenonT(40) DEF List!blocklistVars, Req, Ans
    <2>1. CASE UNCHANGED lookupVars
      <3>1. Req' = Req /\ Ans' = Ans
        BY ZenonT(40), <2>1 DEF lookupVars, Req, Ans
      <3>2. Extends(Committed, Committed') \/ Committed' = Committed
        BY InvStep DEF vars, fileVars, Committed
      <3> QED BY ZenonT(40), <3>1, <3>2 DEF List!BlocklistNext, List!Change, Req, Ans
    <2>2. ASSUME NEW w \in Workers, LookupNext(w)
          PROVE  List!BlocklistNext \/ (Committed' = Committed /\ Req' = Req /\ Ans' = Ans)
      <3>1. Committed' = Committed
        BY <2>2, LookupEffect DEF Committed
      <3>2. ChildAsks(w)
        OBVIOUS
      <3> QED BY ZenonT(40), <2>2, <3>1, <3>2, LookupRefines
              DEF List!BlocklistNext, List!Ask, List!Decide, List!Finish, Req, Ans
    <2> QED BY <2>1, <2>2 DEF Next, vars
  <1> QED BY <1>1, <1>2, Invariance, AsksInvariance, PTL DEF Spec, LookupIsAtomic, List!BlocklistSpec
=============================================================================
