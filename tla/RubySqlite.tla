----------------------------- MODULE RubySqlite -----------------------------
(***************************************************************************)
(* The Ruby binding of SQLite: DB objects (ruby_sqlite.cpp), statement     *)
(* objects (ruby_sqlite_stmt.cpp), the SQLite handles they hold, and the   *)
(* collector that runs their deallocators.                                 *)
(*                                                                         *)
(* SQLite is external: sqlite3_close refuses while the connection has      *)
(* statements; everything else succeeds or fails as it likes.  Ruby is     *)
(* sequential; the collector frees objects the script cannot reach, one by *)
(* one and in any order, between any two calls of the script.              *)
(***************************************************************************)
EXTENDS Integers, FiniteSets

CONSTANTS
    Conn,     \* DB objects
    Stmt,     \* statement objects
    Handle,   \* sqlite3* connections SQLite may hand out
    NULL,     \* the null pointer
    Garbage,  \* what a pointer holds that nobody has set
    Query,    \* SQL texts a script may prepare
    Empty     \* the one of them that holds no statement

ASSUME RubyAssumption ==
    /\ NULL \notin Handle /\ Garbage \notin Handle /\ NULL # Garbage
    /\ Conn \cap Stmt = {}
    /\ NULL \notin Conn \cup Stmt /\ Empty \in Query

VARIABLES
    conn,   \* conn[c]: the object and its struct connection
    stmt,   \* stmt[s]: the object and its struct statement
    held,   \* objects the script has a reference to
    db,     \* db[h]: "unused", "open" or "closed", in SQLite
    txn,    \* connections of SQLite inside a transaction
    lost,   \* history: open handles a DB object gave up without closing them
    vm      \* "running", "closing" (mrb_close), or "fault"

rubyVars == <<conn, stmt, held, db, txn, lost, vm>>

\* An unset bool is either.
ConnRec == [obj : {"none", "live", "freed"},
            handle : Handle \cup {NULL, Garbage}, dont_delete : BOOLEAN]
StmtRec == [obj : {"none", "live", "freed"}, handle : {"none", "open"},
            db : Handle \cup {NULL}, connection : Conn \cup {NULL},
            query : Query \cup {NULL}, pos : Nat]

RubyInit ==
    /\ conn = [c \in Conn |-> [obj |-> "none", handle |-> NULL, dont_delete |-> FALSE]]
    /\ stmt = [s \in Stmt |-> [obj |-> "none", handle |-> "none", db |-> NULL,
                               connection |-> NULL, query |-> NULL, pos |-> 0]]
    /\ held = {}
    /\ db = [h \in Handle |-> "unused"]
    /\ txn = {} /\ lost = {}
    /\ vm = "running"

-----------------------------------------------------------------------------
(* SQLite, external. *)

StmtsOn(h) == {s \in Stmt : stmt[s].handle = "open" /\ stmt[s].db = h}

CanClose(h) == StmtsOn(h) = {}

\* sqlite3_close: SQLITE_BUSY while statements are left; otherwise an open
\* transaction is rolled back and the connection is gone.
Sqlite3Close(h) ==
    IF CanClose(h)
    THEN /\ db' = [db EXCEPT ![h] = "closed"]
         /\ txn' = txn \ {h}
    ELSE UNCHANGED <<db, txn>>

-----------------------------------------------------------------------------
(* The script's calls on a DB object.  Any call but open hands the handle  *)
(* to SQLite; with an unset one the behaviour is undefined.                *)

Running == vm = "running"

OnConn(c) == Running /\ c \in held /\ conn[c].obj = "live"

Fault == vm' = "fault" /\ UNCHANGED <<conn, stmt, held, db, txn, lost>>

\* ENSURE_CONNECTION: raises for NULL, and lets everything else pass.
Ensured(c) == OnConn(c) /\ conn[c].handle # NULL

\* A call that hands an unset handle to SQLite.
UseUnset(c) == Ensured(c) /\ conn[c].handle = Garbage /\ Fault

\* allocator: the struct comes from malloc.  The line that would set
\* dont_delete compares, so every member is what the memory held.
allocator(r) == r \in [obj : {"live"}, handle : {NULL, Garbage}, dont_delete : BOOLEAN]

\* DB.new: a fresh object, then m_init.
DbNew(c) ==
    /\ Running /\ conn[c].obj = "none"
    /\ \E r \in ConnRec : allocator(r) /\ conn' = [conn EXCEPT ![c] = r]
    /\ held' = held \cup {c}
    /\ UNCHANGED <<stmt, db, txn, lost, vm>>

\* deallocator: closes unless told not to, and does not look at the result
\* of sqlite3_close.  r is what the object is afterwards.
deallocator(c, r) ==
    LET h == conn[c].handle IN
    \/ /\ h \in Handle
       /\ IF conn[c].dont_delete THEN UNCHANGED <<db, txn>> ELSE Sqlite3Close(h)
       /\ lost' = IF conn[c].dont_delete \/ ~CanClose(h) THEN lost \cup {h} ELSE lost
       /\ conn' = [conn EXCEPT ![c] = r]
       /\ vm' = vm
    \/ /\ h = Garbage /\ ~conn[c].dont_delete
       /\ vm' = "fault"
       /\ UNCHANGED <<conn, db, txn, lost>>
    \/ /\ h = NULL \/ (h = Garbage /\ conn[c].dont_delete)
       /\ conn' = [conn EXCEPT ![c] = r]
       /\ UNCHANGED <<db, txn, lost, vm>>

\* initialize called on an object that has been initialized: the struct is
\* deallocated and a fresh one takes its place.
m_init(c) ==
    /\ OnConn(c)
    /\ \E r \in ConnRec : allocator(r) /\ deallocator(c, r)
    /\ UNCHANGED <<stmt, held>>

\* m_open: SQLite stores its handle over whatever was there.  The statement
\* that probes an existing file is finalized at once.
m_open(c) ==
    /\ OnConn(c)
    /\ \E h \in Handle :
          /\ db[h] = "unused"
          /\ db' = [db EXCEPT ![h] = "open"]
          /\ conn' = [conn EXCEPT ![c].handle = h]
    /\ lost' = lost \cup ({conn[c].handle} \cap Handle)
    /\ UNCHANGED <<stmt, held, txn, vm>>

\* Slip: the handle is forgotten whatever SQLite answered.
m_closeForgets(c) ==
    /\ Ensured(c) /\ conn[c].handle \in Handle
    /\ Sqlite3Close(conn[c].handle)
    /\ conn' = [conn EXCEPT ![c].handle = NULL]
    /\ UNCHANGED <<stmt, held, lost, vm>>

m_close(c) ==
    /\ Ensured(c) /\ conn[c].handle \in Handle
    /\ Sqlite3Close(conn[c].handle)
    /\ conn' = IF CanClose(conn[c].handle)
               THEN [conn EXCEPT ![c].handle = NULL] ELSE conn
    /\ UNCHANGED <<stmt, held, lost, vm>>

\* m_begin, and m_exec of a text that begins a transaction.
m_begin(c) ==
    /\ Ensured(c) /\ conn[c].handle \in Handle \ txn
    /\ txn' = txn \cup {conn[c].handle}
    /\ UNCHANGED <<conn, stmt, held, db, lost, vm>>

\* m_commit, m_rollback, and m_exec of either.
m_commit(c) ==
    /\ Ensured(c) /\ conn[c].handle \in txn
    /\ txn' = txn \ {conn[c].handle}
    /\ UNCHANGED <<conn, stmt, held, db, lost, vm>>

-----------------------------------------------------------------------------
(* Statements. *)

\* make_sqlite3_stmt, when SQLite accepts the text: an empty text compiles
\* to a null handle.  The instance variable "connection" keeps the DB object
\* reachable.
StmtFor(q, h, c) ==
    [obj |-> "live", handle |-> IF q = Empty THEN "none" ELSE "open", db |-> h,
     connection |-> c, query |-> q, pos |-> 0]

\* Slip: the statement does not refer to its connection.
make_sqlite3_stmtAlone(s, c, q) ==
    stmt' = [stmt EXCEPT ![s] = StmtFor(q, conn[c].handle, NULL)]

make_sqlite3_stmt(s, c, q) ==
    stmt' = [stmt EXCEPT ![s] = StmtFor(q, conn[c].handle, c)]

m_prepare(c, s, q) ==
    /\ Ensured(c) /\ conn[c].handle \in Handle
    /\ stmt[s].obj = "none"
    /\ make_sqlite3_stmt(s, c, q)
    /\ held' = held \cup {s}
    /\ UNCHANGED <<conn, db, txn, lost, vm>>

\* m_step on a statement with n rows: to the next row, or to SQLITE_DONE,
\* after which SQLite starts over.
m_step(s, n) ==
    /\ Running /\ stmt[s].obj = "live" /\ stmt[s].handle = "open"
    /\ stmt' = [stmt EXCEPT ![s].pos = (@ + 1) % (n + 1)]
    /\ UNCHANGED <<conn, held, db, txn, lost, vm>>

-----------------------------------------------------------------------------
(* The collector. *)

\* The script forgets a reference.
Drop(o) ==
    /\ Running /\ o \in held
    /\ held' = held \ {o}
    /\ UNCHANGED <<conn, stmt, db, txn, lost, vm>>

\* What marking reaches from the script's references and from roots.
Reached(roots) ==
    LET r == held \cup roots
    IN  r \cup ({stmt[s].connection : s \in r \cap Stmt} \ {NULL})

\* A sweep frees what marking did not reach; mrb_close frees every object.
MayFree(o, roots) == vm = "closing" \/ (vm = "running" /\ o \notin Reached(roots))

FreeConn(c, roots) ==
    /\ conn[c].obj = "live" /\ MayFree(c, roots)
    /\ deallocator(c, [conn[c] EXCEPT !.obj = "freed", !.handle = NULL])
    /\ UNCHANGED <<stmt, held>>

\* Slip: the deallocator does not finalize.
FreedUnfinalized(r) == [r EXCEPT !.obj = "freed"]

\* The statement's deallocator.
Freed(r) == [obj |-> "freed", handle |-> "none", db |-> NULL, connection |-> NULL,
             query |-> NULL, pos |-> 0]

FreeStmt(s, roots) ==
    /\ stmt[s].obj = "live" /\ MayFree(s, roots)
    /\ stmt' = [stmt EXCEPT ![s] = Freed(@)]
    /\ UNCHANGED <<conn, held, db, txn, lost, vm>>

\* VM::~VM: from here on nothing but mrb_free_heap runs.
CloseVm ==
    /\ Running
    /\ vm' = "closing" /\ held' = {}
    /\ UNCHANGED <<conn, stmt, db, txn, lost>>

=============================================================================
