----------------------------- MODULE SqliteFile -----------------------------
(***************************************************************************)
(* One gate database on disk and the SQLite connections open on it, as the *)
(* Database and Query wrappers (sqlite.cpp) use them.  SQLite itself is    *)
(* external: a rollback-journal file, no busy handler, so a statement that *)
(* meets another connection's lock fails at once with SQLITE_BUSY.         *)
(*                                                                         *)
(* The ip table is a sequence of rows, the row id being the position: no   *)
(* program of the repository deletes a row.  An address is the number that *)
(* inet_pton and htonl make of its text; BadText is a text they refuse.    *)
(***************************************************************************)
EXTENDS Naturals, Sequences

CONSTANTS
    Workers,   \* Apache children, each serving one request at a time
    Dbs,       \* gatedb processes
    Logs,      \* gatelog processes
    NoConn,    \* no connection
    Addr,      \* IPv4 addresses, as numbers
    BadText,   \* a text that is no IPv4 address (a host name, an IPv6 address)
    Null,      \* SQL NULL
    Empty      \* the empty string in an int column

ASSUME AddrAssumption == Addr \subseteq Nat

ASSUME ValuesAssumption ==
    /\ Null \notin Addr /\ Empty \notin Addr /\ BadText \notin Addr
    /\ Null # Empty /\ Null # BadText

ASSUME ConnsAssumption ==
    /\ Workers \cap Dbs = {} /\ Workers \cap Logs = {} /\ Dbs \cap Logs = {}
    /\ NoConn \notin Workers \cup Dbs \cup Logs

VARIABLES
    schema,     \* what the file holds (SchemaStates)
    rows,       \* the ip table as the next statement would read it
    journal,    \* the ip table as it was when the open transaction began
    shared,     \* connections holding a SHARED lock
    exclusive,  \* the connection inside BEGIN EXCLUSIVE, or NoConn
    handle,     \* handle[c]: c has an open sqlite3*
    stmt        \* stmt[c]: c has an unfinalized statement

fileVars == <<schema, rows, journal, shared, exclusive>>
connVars == <<handle, stmt>>

Conns == Workers \cup Dbs \cup Logs

\* "ua" has the first of the two tables only, "note" is the schema of the
\* test site's gate.db, with the note column that gatelog writes.
SchemaStates == {"absent", "empty", "ua", "full", "note"}

Text == Addr \cup {BadText, Null}
Number == Addr \cup {Null, Empty}
Row == [st : Text, et : Text, start : Number, end : Number, code : Nat]

Indexed(r) == r.start \in Addr /\ r.end \in Addr

HasIpTable == schema \in {"full", "note"}

\* What a crash of every process would leave.
Committed == IF exclusive = NoConn THEN rows ELSE journal

CanRead(c) == exclusive \in {NoConn, c}
CanWrite(c) == CanRead(c) /\ shared \subseteq {c}

SqliteInit(initial) ==
    /\ \/ schema = "absent" /\ rows = <<>>
       \/ schema \in {"full", "note"} /\ rows \in initial
    /\ journal = <<>>
    /\ shared = {}
    /\ exclusive = NoConn
    /\ handle = [c \in Conns |-> FALSE]
    /\ stmt = [c \in Conns |-> FALSE]

\* sqlite3_open creates a missing file, with no table in it.
Open(c) ==
    /\ handle' = [handle EXCEPT ![c] = TRUE]
    /\ schema' = IF schema = "absent" THEN "empty" ELSE schema
    /\ UNCHANGED <<rows, journal, shared, exclusive, stmt>>

\* Query::prepare succeeds when the schema can be read and has the table.
CanPrepare(c) == CanRead(c) /\ HasIpTable

Prepare(c) ==
    /\ stmt' = [stmt EXCEPT ![c] = TRUE]
    /\ UNCHANGED <<fileVars, handle>>

\* sqlite3_step returned a row: the read lock is kept.
StepToRow(c) ==
    /\ shared' = shared \cup {c}
    /\ UNCHANGED <<schema, rows, journal, exclusive, connVars>>

\* sqlite3_step ran off the last row: the read lock is dropped.
StepToEnd(c) ==
    /\ shared' = shared \ {c}
    /\ UNCHANGED <<schema, rows, journal, exclusive, connVars>>

\* Query::finalize
Finalize(c) ==
    /\ stmt' = [stmt EXCEPT ![c] = FALSE]
    /\ shared' = shared \ {c}
    /\ UNCHANGED <<schema, rows, journal, exclusive, handle>>

\* Database::~Database.  sqlite3_close refuses (SQLITE_BUSY) and leaves the
\* handle open while a statement of it is unfinalized.
Close(c) ==
    /\ handle' = [handle EXCEPT ![c] = stmt[c]]
    /\ UNCHANGED <<fileVars, stmt>>

\* Slip: BEGIN IMMEDIATE, which readers do not hold up.
BeginImmediate(c) == exclusive \in {NoConn, c}

CanBegin(c) == exclusive = NoConn /\ shared \subseteq {c}

BeginExclusive(c) ==
    /\ exclusive' = c
    /\ journal' = rows
    /\ UNCHANGED <<schema, rows, shared, connVars>>

\* COMMIT; without a transaction it is an error nobody looks at.
Commit(c) ==
    /\ exclusive' = IF exclusive = c THEN NoConn ELSE exclusive
    /\ journal' = IF exclusive = c THEN <<>> ELSE journal
    /\ UNCHANGED <<schema, rows, shared, connVars>>

\* The statement and the connection of a tool that returns from its function.
Disconnect(c) ==
    /\ stmt' = [stmt EXCEPT ![c] = FALSE]
    /\ handle' = [handle EXCEPT ![c] = FALSE]
    /\ shared' = shared \ {c}
    /\ UNCHANGED <<schema, rows, journal, exclusive>>

\* The process dies: its locks go with it, and whoever opens the file next
\* plays a hot journal back.
Die(c) ==
    /\ stmt' = [stmt EXCEPT ![c] = FALSE]
    /\ handle' = [handle EXCEPT ![c] = FALSE]
    /\ shared' = shared \ {c}
    /\ rows' = IF exclusive = c THEN journal ELSE rows
    /\ journal' = IF exclusive = c THEN <<>> ELSE journal
    /\ exclusive' = IF exclusive = c THEN NoConn ELSE exclusive
    /\ UNCHANGED schema
=============================================================================
