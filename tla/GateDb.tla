------------------------------- MODULE GateDb -------------------------------
(***************************************************************************)
(* gatedb --create, --index and --lint (gatedb.cpp), each process on its   *)
(* own connection.  One action per statement given to SQLite.  A process   *)
(* may be killed at any point, and ends itself by an uncaught exception    *)
(* when Query::prepare throws.                                             *)
(***************************************************************************)
EXTENDS SqliteFile

VARIABLES
    dpc,       \* dpc[d]: where process d is
    command,   \* the command it runs
    cursor,    \* the row its SELECT stands on
    exit,      \* the status it returns: "0", "1", "none" before it returns
    reported   \* the rows lint_database has reported

dbVars == <<dpc, command, cursor, exit, reported>>

DbPoints == {"idle", "access", "open", "create_ua", "create_ip", "begin",
             "prepare", "step", "update", "commit", "return"}

Commands == {"none", "create", "index", "lint"}

\* Slip: no WHERE clause.
EveryRow(r) == r \in Row

\* WHERE length(start)=0 OR length(end)=0 OR start IS NULL OR end IS NULL
NeedsIndex(r) == r.start \in {Empty, Null} \/ r.end \in {Empty, Null}

\* WHERE length(start)=0 OR length(end)=0: length(NULL) is NULL, not 0
LintSelects(r) == r.start = Empty \/ r.end = Empty

\* Slip: index_database selects with the clause of lint_database.
SelectsAsLint(d, r) == LintSelects(r)

Selects(d, r) == IF command[d] = "lint" THEN LintSelects(r) ELSE NeedsIndex(r)

DbInit ==
    /\ dpc = [d \in Dbs |-> "idle"]
    /\ command = [d \in Dbs |-> "none"]
    /\ cursor = [d \in Dbs |-> 0]
    /\ exit = [d \in Dbs |-> "none"]
    /\ reported = [d \in Dbs |-> {}]

DbGoto(d, from, to) ==
    /\ dpc[d] = from
    /\ dpc' = [dpc EXCEPT ![d] = to]

\* The state of a process that has ended goes with it.
Gone(d) ==
    /\ dpc' = [dpc EXCEPT ![d] = "idle"]
    /\ command' = [command EXCEPT ![d] = "none"]
    /\ cursor' = [cursor EXCEPT ![d] = 0]
    /\ exit' = [exit EXCEPT ![d] = "none"]
    /\ reported' = [reported EXCEPT ![d] = {}]

DbReturn(d, from, code) ==
    /\ DbGoto(d, from, "return")
    /\ exit' = [exit EXCEPT ![d] = code]

\* process_cmdline: one command, on one path
Start(d, cmd) ==
    /\ DbGoto(d, "idle", IF cmd = "create" THEN "access" ELSE "open")
    /\ command' = [command EXCEPT ![d] = cmd]
    /\ UNCHANGED <<cursor, exit, reported, fileVars, connVars>>

\* create_database: access(path, R_OK) == 0 is an error
CheckAbsent(d) ==
    /\ \/ schema = "absent" /\ DbGoto(d, "access", "open") /\ UNCHANGED exit
       \/ schema # "absent" /\ DbReturn(d, "access", "1")
    /\ UNCHANGED <<command, cursor, reported, fileVars, connVars>>

\* open_database
OpenDatabase(d) ==
    /\ DbGoto(d, "open", CASE command[d] = "create" -> "create_ua"
                           [] command[d] = "index" -> "begin"
                           [] OTHER -> "prepare")
    /\ Open(d)
    /\ UNCHANGED <<command, cursor, exit, reported>>

OpenDatabaseFails(d) ==
    /\ DbReturn(d, "open", "1")
    /\ UNCHANGED <<command, cursor, reported, fileVars, connVars>>

\* db.execute(db_sql) runs the two CREATE TABLE statements one after the
\* other, each its own transaction, and stops at the first that fails.
CreateUa(d) ==
    /\ \/ /\ CanWrite(d) /\ schema = "empty"
          /\ DbGoto(d, "create_ua", "create_ip")
          /\ schema' = "ua"
          /\ UNCHANGED exit
       \/ /\ ~(CanWrite(d) /\ schema = "empty")
          /\ DbReturn(d, "create_ua", "1")
          /\ UNCHANGED schema
    /\ UNCHANGED <<command, cursor, reported, rows, journal, shared, exclusive, connVars>>

\* Slip: the result of execute is not looked at.
CreateIpIgnored(d) ==
    /\ DbReturn(d, "create_ip", "0")
    /\ schema' = IF CanWrite(d) /\ schema = "ua" THEN "full" ELSE schema
    /\ UNCHANGED <<command, cursor, reported, rows, journal, shared, exclusive, connVars>>

CreateIp(d) ==
    /\ \/ /\ CanWrite(d) /\ schema = "ua"
          /\ DbReturn(d, "create_ip", "0")
          /\ schema' = "full"
       \/ /\ ~(CanWrite(d) /\ schema = "ua")
          /\ DbReturn(d, "create_ip", "1")
          /\ UNCHANGED schema
    /\ UNCHANGED <<command, cursor, reported, rows, journal, shared, exclusive, connVars>>

\* index_database: db.execute("BEGIN EXCLUSIVE"), its result unused
IndexBegin(d) ==
    /\ DbGoto(d, "begin", "prepare")
    /\ IF CanBegin(d) THEN BeginExclusive(d) ELSE UNCHANGED <<fileVars, connVars>>
    /\ UNCHANGED <<command, cursor, exit, reported>>

DbPrepare(d) ==
    /\ CanPrepare(d)
    /\ DbGoto(d, "prepare", "step")
    /\ Prepare(d)
    /\ UNCHANGED <<command, cursor, exit, reported>>

\* An uncaught exception, a fault or a signal ends the process.
Abort(d) == Gone(d) /\ Die(d)

DbPrepareThrows(d) ==
    /\ dpc[d] = "prepare"
    /\ ~CanPrepare(d)
    /\ Abort(d)

\* The SELECT is a scan in row id order.
DbStepRow(d) ==
    /\ CanRead(d)
    /\ \E i \in DOMAIN rows :
         /\ i > cursor[d] /\ Selects(d, rows[i])
         /\ \A j \in DOMAIN rows : cursor[d] < j /\ j < i => ~Selects(d, rows[j])
         /\ cursor' = [cursor EXCEPT ![d] = i]
         /\ IF command[d] = "lint"
              THEN /\ DbGoto(d, "step", "step")
                   /\ reported' = [reported EXCEPT ![d] = @ \cup {i}]
              ELSE /\ DbGoto(d, "step", "update")
                   /\ UNCHANGED reported
    /\ StepToRow(d)
    /\ UNCHANGED <<command, exit>>

\* SQLITE_DONE, or SQLITE_BUSY: the while loop ends either way.
DbStepEnd(d) ==
    /\ CanRead(d) => \A i \in DOMAIN rows : i > cursor[d] => ~Selects(d, rows[i])
    /\ IF command[d] = "lint"
         THEN DbReturn(d, "step", "0")
         ELSE DbGoto(d, "step", "commit") /\ UNCHANGED exit
    /\ StepToEnd(d)
    /\ UNCHANGED <<command, cursor, reported>>

\* Slip: the text goes into the number's column.
ReindexedAsText(r, garbage) ==
    LET end == IF r.et \in Addr THEN r.et ELSE garbage
    IN  [st |-> r.st, et |-> r.et, start |-> r.st, end |-> end, code |-> r.code]

\* Slip: the end text is not converted.
ReindexedByStart(r, garbage) ==
    LET start == IF r.st \in Addr THEN r.st ELSE garbage
    IN  [st |-> r.st, et |-> r.et, start |-> start, end |-> start, code |-> r.code]

\* The row UPDATE writes.  ipvalue is written by inet_pton only when it
\* succeeds: a bad start leaves it uninitialized (any address, garbage), a bad
\* end leaves what the start put there.
Reindexed(r, garbage) ==
    LET start == IF r.st \in Addr THEN r.st ELSE garbage
        end == IF r.et \in Addr THEN r.et ELSE start
    IN  [st |-> r.st, et |-> r.et, start |-> start, end |-> end, code |-> r.code]

\* Slip: a refused UPDATE runs the query again from the start.
IndexRestarts(d) ==
    /\ DbGoto(d, "update", "step")
    /\ rows[cursor[d]].st # Null /\ rows[cursor[d]].et # Null
    /\ \E garbage \in Addr :
         rows' = IF CanWrite(d)
                   THEN [rows EXCEPT ![cursor[d]] = Reindexed(@, garbage)]
                   ELSE rows
    /\ cursor' = [cursor EXCEPT ![d] = IF CanWrite(d) THEN @ ELSE 0]
    /\ UNCHANGED <<command, exit, reported>>
    /\ UNCHANGED <<schema, journal, shared, exclusive, connVars>>

IndexUpdate(d) ==
    /\ DbGoto(d, "update", "step")
    /\ rows[cursor[d]].st # Null /\ rows[cursor[d]].et # Null
    /\ \E garbage \in Addr :
         rows' = IF CanWrite(d)
                   THEN [rows EXCEPT ![cursor[d]] = Reindexed(@, garbage)]
                   ELSE rows
    /\ UNCHANGED <<command, cursor, exit, reported>>
    /\ UNCHANGED <<schema, journal, shared, exclusive, connVars>>

\* inet_pton is handed a NULL pointer.
IndexFaults(d) ==
    /\ dpc[d] = "update"
    /\ rows[cursor[d]].st = Null \/ rows[cursor[d]].et = Null
    /\ Abort(d)

IndexCommit(d) ==
    /\ DbReturn(d, "commit", "0")
    /\ Commit(d)
    /\ UNCHANGED <<command, cursor, reported>>

DbExit(d) ==
    /\ dpc[d] = "return"
    /\ Gone(d)
    /\ Disconnect(d)

Kill(d) ==
    /\ dpc[d] # "idle"
    /\ Abort(d)

DbStep(d) ==
    \/ CheckAbsent(d) \/ OpenDatabase(d) \/ OpenDatabaseFails(d)
    \/ CreateUa(d) \/ CreateIp(d)
    \/ IndexBegin(d) \/ DbPrepare(d) \/ DbPrepareThrows(d)
    \/ DbStepRow(d) \/ DbStepEnd(d)
    \/ IndexUpdate(d) \/ IndexFaults(d) \/ IndexCommit(d)
    \/ DbExit(d)

DbNext(d) ==
    \/ \E cmd \in Commands \ {"none"} : Start(d, cmd)
    \/ DbStep(d)
    \/ Kill(d)
=============================================================================
