------------------------------- MODULE Rowset -------------------------------
(***************************************************************************)
(* SQLite::Rowset (ruby/sqlite.rb) on top of the binding: a script that    *)
(* uses DB and statement objects and one Rowset, with the collector        *)
(* running between any two of its calls, also between the steps of select. *)
(*                                                                         *)
(* A stored value is an integer or a model value; column_value cuts an     *)
(* integer to the width of int.                                            *)
(***************************************************************************)
EXTENDS RubySqlite, Sequences, Functions

CONSTANTS
    Columns,   \* Columns[q]: the column names of query q, in order
    Table,     \* Table[q]: the rows SQLite has for q, sequences of values
    Half       \* int holds -Half .. Half - 1

ASSUME RowsetAssumption ==
    /\ Half \in Nat \ {0}
    /\ \A q \in Query : Columns[q] \in Seq(Range(Columns[q])) /\ Table[q] \in Seq(Range(Table[q]))
    /\ \A q \in Query : \A r \in Range(Table[q]) :
           r \in Seq(Range(r)) /\ Len(r) = Len(Columns[q])

VARIABLE rs    \* the Rowset, and where select stands in it

vars == <<rubyVars, rs>>

\* Ordinals count from 1 here.
NoRowset == [pc |-> "none", db |-> NULL, stmt |-> NULL, headers |-> <<>>,
             header_names |-> <<>>, data |-> <<>>, rows |-> 0, query |-> NULL,
             ok |-> FALSE, done |-> TRUE]

Idle == rs.pc \in {"none", "idle"}

Init == RubyInit /\ rs = NoRowset

-----------------------------------------------------------------------------
(* Values. *)

\* sqlite3_column_int keeps the low bits of a 64-bit integer.
column_int(v) == ((v + Half) % (2 * Half)) - Half

column_value(v) == IF v \in Int THEN column_int(v) ELSE v

\* The row statement s stands on, as each delivers it.
RowAt(s) == LET t == Table[stmt[s].query]
            IN  [i \in 1..Len(t[stmt[s].pos]) |-> column_value(t[stmt[s].pos][i])]

-----------------------------------------------------------------------------
(* Rowset. *)

RowsetNew(c) ==
    /\ OnConn(c) /\ rs.pc = "none"
    /\ rs' = [NoRowset EXCEPT !.pc = "idle", !.db = c]
    /\ UNCHANGED rubyVars

\* select up to prepare.  @data is emptied first, so it stays empty when
\* prepare raises: no handle, or a text SQLite refuses.
SelectRaises ==
    /\ Running /\ rs.pc = "idle"
    /\ conn[rs.db].handle # Garbage
    /\ rs' = [rs EXCEPT !.data = <<>>, !.ok = FALSE]
    /\ UNCHANGED rubyVars

SelectPrepare(s, q) ==
    /\ Running /\ rs.pc = "idle"
    /\ conn[rs.db].handle \in Handle /\ stmt[s].obj = "none"
    /\ make_sqlite3_stmt(s, rs.db, q)
    /\ rs' = [rs EXCEPT !.pc = "each", !.stmt = s, !.query = q, !.data = <<>>,
                        !.rows = 0, !.ok = FALSE]
    /\ UNCHANGED <<conn, held, db, txn, lost, vm>>

\* The block of each.  The first pass, before the first step, names the
\* columns: the last of two columns of one name keeps it.
HeadersOf(q) == [n \in Range(Columns[q]) |->
                    CHOOSE i \in 1..Len(Columns[q]) :
                        /\ Columns[q][i] = n
                        /\ \A j \in (i + 1)..Len(Columns[q]) : Columns[q][j] # n]

\* new[k] is stored under every k over what old has there; the rest of old stays.
Stored(new, old) ==
    [k \in DOMAIN new \cup DOMAIN old |-> IF k \in DOMAIN new THEN new[k] ELSE old[k]]

\* Slip: names of an earlier select stay in front of the new ones.
SelectEachKeepsNames ==
    /\ Running /\ rs.pc = "each" /\ stmt[rs.stmt].handle = "open"
    /\ IF rs.rows = 0
       THEN rs' = [rs EXCEPT !.pc = "step", !.rows = 1,
                             !.headers = Stored(@, HeadersOf(rs.query)),
                             !.header_names = Stored(@, Columns[rs.query])]
       ELSE rs' = [rs EXCEPT !.pc = "step", !.rows = @ + 1,
                             !.data = Append(@, RowAt(rs.stmt))]
    /\ UNCHANGED rubyVars

SelectEach ==
    /\ Running /\ rs.pc = "each" /\ stmt[rs.stmt].handle = "open"
    /\ IF rs.rows = 0
       THEN rs' = [rs EXCEPT !.pc = "step", !.rows = 1,
                             !.headers = Stored(HeadersOf(rs.query), @),
                             !.header_names = Stored(Columns[rs.query], @)]
       ELSE rs' = [rs EXCEPT !.pc = "step", !.rows = @ + 1,
                             !.data = Append(@, RowAt(rs.stmt))]
    /\ UNCHANGED rubyVars

\* each raises for the null handle of an empty text.
SelectEachRaises ==
    /\ Running /\ rs.pc = "each" /\ stmt[rs.stmt].handle = "none"
    /\ rs' = [rs EXCEPT !.pc = "idle", !.stmt = NULL]
    /\ UNCHANGED rubyVars

\* The loop's condition.  Anything but SQLITE_ROW ends it, and select then
\* answers true.
SelectStep ==
    /\ rs.pc = "step"
    /\ LET n == Len(Table[rs.query]) IN
       /\ m_step(rs.stmt, n)
       /\ rs' = IF stmt[rs.stmt].pos < n THEN [rs EXCEPT !.pc = "each"]
                ELSE [rs EXCEPT !.pc = "idle", !.stmt = NULL, !.rows = @ - 1,
                                !.ok = TRUE, !.done = TRUE]

SelectStepFails ==
    /\ Running /\ rs.pc = "step"
    /\ rs' = [rs EXCEPT !.pc = "idle", !.stmt = NULL, !.rows = @ - 1,
                        !.ok = TRUE, !.done = FALSE]
    /\ UNCHANGED rubyVars

\* Row#[] with a column name.
RowAtName(i, n) ==
    IF n \in DOMAIN rs.headers /\ rs.headers[n] \in DOMAIN rs.data[i]
    THEN rs.data[i][rs.headers[n]] ELSE NULL

-----------------------------------------------------------------------------
(* The script, its rowset and the collector. *)

\* Marking starts from the script's variables, the rowset's @db among them,
\* and from the locals of a select under way.
Roots == {rs.db, rs.stmt} \ {NULL}

Script ==
    /\ Idle /\ UNCHANGED rs
    /\ \/ \E c \in Conn : \/ DbNew(c) \/ m_init(c) \/ m_open(c) \/ m_close(c)
                          \/ m_begin(c) \/ m_commit(c) \/ UseUnset(c)
       \/ \E c \in Conn, s \in Stmt, q \in Query : m_prepare(c, s, q)
       \/ \E s \in Stmt \cap held : m_step(s, Len(Table[stmt[s].query]))
       \/ \E o \in held : Drop(o)
       \/ CloseVm

Collect ==
    /\ UNCHANGED rs
    /\ \/ \E c \in Conn : FreeConn(c, Roots)
       \/ \E s \in Stmt : FreeStmt(s, Roots)

Select ==
    \/ \E c \in Conn : RowsetNew(c)
    \/ SelectRaises
    \/ \E s \in Stmt, q \in Query : SelectPrepare(s, q)
    \/ SelectEach \/ SelectEachRaises \/ SelectStep \/ SelectStepFails

Next == Script \/ Collect \/ Select

Spec == Init /\ [][Next]_vars

-----------------------------------------------------------------------------
(* Properties. *)

\* While the program can still reach a statement, the collector does not free
\* the DB object whose connection it runs on (the instance variable that
\* make_sqlite3_stmt sets, the @db of Rowset, and select's local).
ConnectionOutlivesStatements ==
    [][\A c \in Conn :
          vm = "running" /\ conn[c].obj = "live" /\ conn'[c].obj = "freed" =>
              \A s \in (held \cup Roots) \cap Stmt :
                  stmt[s].handle = "open" => stmt[s].db # conn[c].handle]_vars

\* Every connection open in SQLite is one a live DB object can still close, or
\* one of those the code is known to lose: opened over, freed with an unset
\* dont_delete, or freed before its statements.  In particular a close that
\* SQLite refuses leaves the handle where the next close finds it.
OpenIsOwnedOrLost ==
    \A h \in Handle : db[h] = "open" =>
        h \in lost \/ \E c \in Conn : conn[c].obj = "live" /\ conn[c].handle = h

\* Once mrb_close has freed every object, no statement is left in SQLite, so
\* nothing but a lost connection holds a lock or a transaction.
EndReleases ==
    vm = "closing" /\ (\A c \in Conn : conn[c].obj # "live")
                   /\ (\A s \in Stmt : stmt[s].obj # "live") =>
        /\ \A s \in Stmt : stmt[s].handle = "none"
        /\ txn \subseteq lost

\* A select that answers true has counted its rows, holds them all in order
\* if SQLite delivered them all and a prefix if it stopped, and finds each
\* value under the column's own name and number, whatever selects went before
\* on the same Rowset.  Integers beyond int are the exception.
SelectIsFaithful ==
    rs.pc = "idle" /\ rs.ok =>
        LET t == Table[rs.query]  cols == Columns[rs.query] IN
        /\ rs.rows = Len(rs.data)
        /\ rs.rows <= Len(t) /\ (rs.done => rs.rows = Len(t))
        /\ \A i \in 1..rs.rows : \A j \in 1..Len(cols) :
              (t[i][j] \in Int => t[i][j] \in -Half..(Half - 1)) =>
                  rs.data[i][j] = t[i][j]
        /\ \A i \in 1..rs.rows : \A j \in 1..Len(cols) :
              /\ rs.header_names[j] = cols[j]
              /\ (\A k \in 1..Len(cols) : cols[k] = cols[j] => k <= j) =>
                     RowAtName(i, cols[j]) = rs.data[i][j]

\* "we have to clean this up as we allocated it": a connection whose DB object
\* is freed, with no statement in the way, is closed.
AllocatedIsCleanedUp ==
    [][\A c \in Conn :
          conn[c].obj = "live" /\ conn'[c].obj = "freed" /\ conn[c].handle \in Handle
          /\ CanClose(conn[c].handle) => db'[conn[c].handle] = "closed"]_vars

=============================================================================
