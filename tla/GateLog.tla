------------------------------ MODULE GateLog -------------------------------
(***************************************************************************)
(* gatelog --process (tools/gatelog): Indexer#processLog turns access-log  *)
(* lines into rows of the ip table, one transaction for the whole log.     *)
(*                                                                         *)
(* JW::DBI is external.  Whether a statement that SQLite refuses raises or *)
(* only leaves an empty result is not in the repository: both may happen.  *)
(***************************************************************************)
EXTENDS SqliteFile

CONSTANT MaxRows    \* bound: no log line is processed in a table of this size

ASSUME MaxRowsAssumption == MaxRows \in Nat

VARIABLES
    lpc,    \* lpc[g]: where process g is
    ip      \* the address text of the log line it works on

logVars == <<lpc, ip>>

LogPoints == {"idle", "begin", "line", "count", "insert", "commit", "exit"}

LogInit ==
    /\ lpc = [g \in Logs |-> "idle"]
    /\ ip = [g \in Logs |-> Null]

LogGoto(g, from, to) ==
    /\ lpc[g] = from
    /\ lpc' = [lpc EXCEPT ![g] = to]

\* An exception, or a signal, ends the script.
LogDies(g) ==
    /\ lpc' = [lpc EXCEPT ![g] = "idle"]
    /\ ip' = [ip EXCEPT ![g] = Null]
    /\ Die(g)

\* Indexer.new(ARGV[-1])
LogOpen(g) ==
    /\ LogGoto(g, "idle", "begin")
    /\ Open(g)
    /\ UNCHANGED ip

\* exec 'BEGIN EXCLUSIVE'
LogBegin(g) ==
    /\ LogGoto(g, "begin", "line")
    /\ IF CanBegin(g) THEN BeginExclusive(g) ELSE UNCHANGED <<fileVars, connVars>>
    /\ UNCHANGED ip

\* A line whose referrer or user agent is on a list; %h is an address or, with
\* HostnameLookups or an IPv6 peer, some other text.
LogLine(g) ==
    /\ Len(rows) < MaxRows
    /\ LogGoto(g, "line", "count")
    /\ \E t \in Addr \cup {BadText} : ip' = [ip EXCEPT ![g] = t]
    /\ UNCHANGED <<fileVars, connVars>>

\* select count(*) from ip where start_text=ip
CanCount(g) == CanRead(g) /\ HasIpTable
Known(text) == \E i \in DOMAIN rows : rows[i].st = text

\* Slip: the count is not looked at.
BlockUncounted(g) ==
    /\ CanCount(g)
    /\ LogGoto(g, "count", "insert")
    /\ UNCHANGED <<ip, fileVars, connVars>>

BlockCount(g) ==
    /\ CanCount(g)
    /\ LogGoto(g, "count", IF Known(ip[g]) THEN "line" ELSE "insert")
    /\ UNCHANGED <<ip, fileVars, connVars>>

\* Without a result q[0][0] raises.
BlockCountFails(g) ==
    /\ lpc[g] = "count"
    /\ ~CanCount(g)
    /\ LogDies(g)

\* INSERT INTO ip (start_text, end_text, http_code, note)
CanInsert(g) == CanWrite(g) /\ schema = "note"
BlockRow(text) == [st |-> text, et |-> text, start |-> Null, end |-> Null, code |-> 404]

BlockInsert(g) ==
    /\ LogGoto(g, "insert", "line")
    /\ rows' = IF CanInsert(g) THEN Append(rows, BlockRow(ip[g])) ELSE rows
    /\ UNCHANGED <<ip, schema, journal, shared, exclusive, connVars>>

LogEnd(g) ==
    /\ LogGoto(g, "line", "commit")
    /\ UNCHANGED <<ip, fileVars, connVars>>

LogCommit(g) ==
    /\ LogGoto(g, "commit", "exit")
    /\ Commit(g)
    /\ UNCHANGED ip

LogExit(g) ==
    /\ LogGoto(g, "exit", "idle")
    /\ ip' = [ip EXCEPT ![g] = Null]
    /\ Disconnect(g)

\* A raise of JW::DBI, a line the log parser does not understand, a signal.
LogFails(g) ==
    /\ lpc[g] # "idle"
    /\ LogDies(g)

LogNext(g) ==
    \/ LogOpen(g) \/ LogBegin(g) \/ LogLine(g)
    \/ BlockCount(g) \/ BlockCountFails(g) \/ BlockInsert(g)
    \/ LogEnd(g) \/ LogCommit(g) \/ LogExit(g)
    \/ LogFails(g)
=============================================================================
