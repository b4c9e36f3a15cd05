---------------------------- MODULE RowsetProofs ----------------------------
(***************************************************************************)
(* Proofs about the Ruby binding of SQLite and Rowset#select, for any      *)
(* number of objects, handles, queries, columns and rows.                  *)
(***************************************************************************)
EXTENDS Rowset, TLAPS

Types ==
    /\ conn \in [Conn -> ConnRec] /\ stmt \in [Stmt -> StmtRec]
    /\ db \in [Handle -> {"unused", "open", "closed"}]
    /\ txn \subseteq Handle /\ lost \subseteq Handle
    /\ vm \in {"running", "closing", "fault"}

\* A handle is held by one DB object, a live one, as long as SQLite has the
\* connection open; a transaction is on an open connection.
Owned ==
    /\ \A c \in Conn : conn[c].handle \in Handle =>
           conn[c].obj = "live" /\ db[conn[c].handle] = "open"
    /\ \A c, d \in Conn : conn[c].handle \in Handle /\ conn[c].handle = conn[d].handle => c = d
    /\ \A h \in txn : db[h] = "open"

\* An open statement belongs to a live object, and refers to the DB object
\* that holds its connection, if one still does.
Statements ==
    \A s \in Stmt :
        /\ stmt[s].obj = "live" => stmt[s].query \in Query
        /\ stmt[s].handle = "open" =>
               /\ stmt[s].obj = "live"
               /\ stmt[s].db \in Handle /\ db[stmt[s].db] # "unused"
               /\ \A c \in Conn : conn[c].handle = stmt[s].db => stmt[s].connection = c

RubyInv == Types /\ Owned /\ Statements /\ OpenIsOwnedOrLost

\* The row i of query q as a script sees it, and the first n rows.
Delivered(q, i) == [j \in 1..Len(Table[q][i]) |-> column_value(Table[q][i][j])]
First(q, n) == [i \in 1..n |-> Delivered(q, i)]

\* The Rowset knows the columns of query q by number, and the last of a name.
Named(q) ==
    \A j \in 1..Len(Columns[q]) :
        /\ rs.header_names[j] = Columns[q][j]
        /\ (\A k \in 1..Len(Columns[q]) : Columns[q][k] = Columns[q][j] => k <= j) =>
               Columns[q][j] \in DOMAIN rs.headers /\ rs.headers[Columns[q][j]] = j

Selecting == rs.pc \in {"each", "step"}

RowsetTypes ==
    /\ rs = [pc |-> rs.pc, db |-> rs.db, stmt |-> rs.stmt, headers |-> rs.headers,
             header_names |-> rs.header_names, data |-> rs.data, rows |-> rs.rows,
             query |-> rs.query, ok |-> rs.ok, done |-> rs.done]
    /\ rs.pc \in {"none", "idle", "each", "step"}
    /\ rs.pc # "none" => rs.db \in Conn
    /\ rs.ok \in BOOLEAN /\ rs.done \in BOOLEAN

\* While a select is under way its statement is its own: alive, and on the row
\* that the counter says.
UnderWay ==
    Selecting =>
        LET p == stmt[rs.stmt].pos IN
        /\ vm # "closing" /\ ~rs.ok
        /\ rs.stmt \in Stmt /\ rs.query \in Query
        /\ stmt[rs.stmt].obj = "live" /\ stmt[rs.stmt].query = rs.query
        /\ rs.pc = "each" =>
               \/ rs.rows = 0 /\ p = 0 /\ rs.data = First(rs.query, 0)
               \/ /\ rs.rows = p /\ p \in 1..Len(Table[rs.query])
                  /\ rs.data = First(rs.query, p - 1) /\ Named(rs.query)
        /\ rs.pc = "step" =>
               /\ rs.rows = p + 1 /\ p \in 0..Len(Table[rs.query])
               /\ rs.data = First(rs.query, p) /\ Named(rs.query)

\* What a finished select leaves.
Selected ==
    rs.pc = "idle" /\ rs.ok =>
        /\ rs.query \in Query /\ rs.rows \in 0..Len(Table[rs.query])
        /\ rs.done => rs.rows = Len(Table[rs.query])
        /\ rs.data = First(rs.query, rs.rows) /\ Named(rs.query)

SelectInv == RowsetTypes /\ UnderWay /\ Selected

IInv == RubyInv /\ SelectInv

-----------------------------------------------------------------------------
(* The binding. *)

LEMMA RubyInitHolds == RubyInit => RubyInv
  BY RubyAssumption DEF RubyInit, RubyInv, Types, Owned, Statements, OpenIsOwnedOrLost,
     ConnRec, StmtRec

\* Handles, transactions and DB objects stay: only the statements change.
LEMMA StatementsChange ==
    ASSUME RubyInv, UNCHANGED <<conn, db, txn, lost>>, vm' \in {"running", "closing", "fault"},
           stmt' \in [Stmt -> StmtRec], Statements'
    PROVE  RubyInv'
  BY DEF RubyInv, Types, Owned, OpenIsOwnedOrLost

\* One lemma for each call of the binding: it keeps the invariant.
LEMMA DbNewHolds ==
    ASSUME RubyInv, NEW c \in Conn, DbNew(c)
    PROVE  RubyInv'
<1> USE DEF RubyInv
<1>1. PICK r \in ConnRec : allocator(r) /\ conn' = [conn EXCEPT ![c] = r]
  BY ZenonT(40) DEF DbNew
<1>2. UNCHANGED <<stmt, db, txn, lost, vm>> /\ conn[c].obj = "none"
  BY DEF DbNew
<1>3. r.handle \notin Handle /\ r.obj = "live"
  BY <1>1, RubyAssumption DEF allocator
<1>4. conn'[c] = r /\ \A d \in Conn : d # c => conn'[d] = conn[d]
  BY <1>1 DEF Types
<1>5. Types'
  BY <1>1, <1>2 DEF Types
<1>6. Owned'
  BY <1>2, <1>3, <1>4 DEF Owned
<1>7. Statements'
  BY <1>2, <1>3, <1>4 DEF Statements
<1>8. OpenIsOwnedOrLost'
  BY <1>2, <1>3, <1>4 DEF OpenIsOwnedOrLost
<1> QED
  BY <1>5, <1>6, <1>7, <1>8

\* The deallocator leaves an object without a handle: closed, or lost.
LEMMA DeallocatorHolds ==
    ASSUME RubyInv, NEW c \in Conn, NEW r \in ConnRec, r.handle \notin Handle,
           deallocator(c, r), UNCHANGED stmt
    PROVE  RubyInv'
<1> USE DEF RubyInv
<1> DEFINE h == conn[c].handle
<1>1. CASE /\ h \in Handle
           /\ IF conn[c].dont_delete THEN UNCHANGED <<db, txn>> ELSE Sqlite3Close(h)
           /\ lost' = IF conn[c].dont_delete \/ ~CanClose(h) THEN lost \cup {h} ELSE lost
           /\ conn' = [conn EXCEPT ![c] = r]
           /\ vm' = vm
  <2>1. conn'[c] = r /\ \A d \in Conn : d # c => conn'[d] = conn[d]
    BY <1>1 DEF Types
  <2>2. \/ db' = [db EXCEPT ![h] = "closed"] /\ txn' = txn \ {h} /\ lost' = lost
        \/ db' = db /\ txn' = txn /\ lost' = lost \cup {h}
    BY <1>1 DEF Sqlite3Close
  <2>3. \A d \in Conn : d # c => conn[d].handle # h
    BY <1>1 DEF Owned
  <2>4. Types'
    BY <1>1, <2>2 DEF Types
  <2>5. \A g \in Handle : db'[g] = db[g] \/ (g = h /\ db'[g] = "closed")
    BY <1>1, <2>2 DEF Types
  <2>6. Owned'
    BY <1>1, <2>1, <2>2, <2>3, <2>5 DEF Owned, Types
  <2>7. Statements'
    BY <2>1, <2>5 DEF Statements
  <2>8. OpenIsOwnedOrLost'
    BY <1>1, <2>1, <2>2, <2>5 DEF OpenIsOwnedOrLost, Types
  <2> QED
    BY <2>4, <2>6, <2>7, <2>8
<1>2. CASE h = Garbage /\ ~conn[c].dont_delete /\ vm' = "fault"
           /\ UNCHANGED <<conn, db, txn, lost>>
  BY <1>2 DEF Types, Owned, Statements, OpenIsOwnedOrLost
<1>3. CASE /\ h = NULL \/ (h = Garbage /\ conn[c].dont_delete)
           /\ conn' = [conn EXCEPT ![c] = r]
           /\ UNCHANGED <<db, txn, lost, vm>>
  <2>1. conn'[c] = r /\ \A d \in Conn : d # c => conn'[d] = conn[d]
    BY <1>3 DEF Types
  <2>2. h \notin Handle
    BY <1>3, RubyAssumption
  <2>3. Types'
    BY <1>3 DEF Types
  <2>4. Owned'
    BY <1>3, <2>1, <2>2 DEF Owned
  <2>5. Statements'
    BY <1>3, <2>1, <2>2 DEF Statements
  <2>6. OpenIsOwnedOrLost'
    BY <1>3, <2>1, <2>2 DEF OpenIsOwnedOrLost
  <2> QED
    BY <2>3, <2>4, <2>5, <2>6
<1> QED
  BY <1>1, <1>2, <1>3 DEF deallocator

LEMMA OpenHolds ==
    ASSUME RubyInv, NEW c \in Conn, m_open(c)
    PROVE  RubyInv'
<1> USE DEF RubyInv
<1>1. PICK h \in Handle : /\ db[h] = "unused" /\ db' = [db EXCEPT ![h] = "open"]
                          /\ conn' = [conn EXCEPT ![c].handle = h]
  BY ZenonT(40) DEF m_open
<1>2. /\ conn[c].obj = "live" /\ UNCHANGED <<stmt, txn, vm>>
      /\ lost' = lost \cup ({conn[c].handle} \cap Handle)
  BY DEF m_open, OnConn
<1>3. /\ conn'[c].handle = h /\ conn'[c].obj = "live"
      /\ \A d \in Conn : d # c => conn'[d] = conn[d]
  BY <1>1, <1>2 DEF Types, ConnRec
<1>4. db'[h] = "open" /\ \A g \in Handle : g # h => db'[g] = db[g]
  BY <1>1 DEF Types
<1>5. Types'
  <2>1. conn' \in [Conn -> ConnRec]
    BY <1>1 DEF Types, ConnRec
  <2> QED
    BY <1>1, <1>2, <2>1 DEF Types
<1>6. \A d \in Conn : conn[d].handle # h
  BY <1>1 DEF Owned
<1>7. Owned'
  BY <1>1, <1>2, <1>3, <1>4, <1>6 DEF Owned, Types
<1>8. Statements'
  BY <1>1, <1>2, <1>3, <1>4 DEF Statements
<1>9. OpenIsOwnedOrLost'
  BY <1>2, <1>3, <1>4 DEF OpenIsOwnedOrLost
<1> QED
  BY <1>5, <1>7, <1>8, <1>9

LEMMA CloseHolds ==
    ASSUME RubyInv, NEW c \in Conn, m_close(c)
    PROVE  RubyInv'
<1> USE DEF RubyInv
<1> DEFINE h == conn[c].handle
<1>1. h \in Handle /\ UNCHANGED <<stmt, lost, vm>>
  BY DEF m_close
<1>2. CASE CanClose(h)
  <2>1. /\ db' = [db EXCEPT ![h] = "closed"] /\ txn' = txn \ {h}
        /\ conn' = [conn EXCEPT ![c].handle = NULL]
    BY <1>2 DEF m_close, Sqlite3Close
  <2>2. conn'[c].handle = NULL /\ \A d \in Conn : d # c => conn'[d] = conn[d]
    BY <2>1 DEF Types, ConnRec
  <2>3. \A g \in Handle : IF g = h THEN db'[g] = "closed" ELSE db'[g] = db[g]
    BY <1>1, <2>1 DEF Types
  <2>4. Types'
    <3>1. conn' \in [Conn -> ConnRec]
      BY <2>1 DEF Types, ConnRec
    <3> QED
      BY <1>1, <2>1, <3>1 DEF Types
  <2>5. \A d \in Conn : d # c => conn[d].handle # h
    BY <1>1 DEF Owned
  <2>6. Owned'
    BY <1>1, <2>1, <2>2, <2>3, <2>5, RubyAssumption DEF Owned, Types
  <2>7. Statements'
    BY <1>1, <2>2, <2>3, RubyAssumption DEF Statements
  <2>8. OpenIsOwnedOrLost'
    BY <1>1, <2>2, <2>3 DEF OpenIsOwnedOrLost
  <2> QED
    BY <2>4, <2>6, <2>7, <2>8
<1>3. CASE ~CanClose(h)
  BY <1>1, <1>3 DEF m_close, Sqlite3Close, Types, Owned, Statements, OpenIsOwnedOrLost
<1> QED
  BY <1>2, <1>3

LEMMA TransactionHolds ==
    ASSUME RubyInv, NEW c \in Conn, m_begin(c) \/ m_commit(c)
    PROVE  RubyInv'
<1>1. /\ UNCHANGED <<conn, stmt, db, lost, vm>>
      /\ conn[c].handle \in Handle /\ txn' \subseteq txn \cup {conn[c].handle}
  BY DEF m_begin, m_commit, RubyInv, Types
<1> QED
  BY <1>1 DEF RubyInv, Types, Owned, Statements, OpenIsOwnedOrLost

\* A new statement on the connection of c.
LEMMA PrepareHolds ==
    ASSUME RubyInv, NEW c \in Conn, NEW s \in Stmt, NEW q \in Query,
           conn[c].handle \in Handle, make_sqlite3_stmt(s, c, q),
           UNCHANGED <<conn, db, txn, lost, vm>>
    PROVE  RubyInv'
<1> DEFINE t == StmtFor(q, conn[c].handle, c)
<1>1. stmt' = [stmt EXCEPT ![s] = t]
  BY DEF make_sqlite3_stmt
<1>2. t \in StmtRec
  BY DEF StmtFor, StmtRec
<1>3. /\ t.obj = "live" /\ t.db = conn[c].handle /\ t.connection = c /\ t.query = q
  BY DEF StmtFor
<1> HIDE DEF t
<1>4. stmt' \in [Stmt -> StmtRec] /\ stmt'[s] = t /\ \A u \in Stmt : u # s => stmt'[u] = stmt[u]
  BY <1>1, <1>2 DEF RubyInv, Types
<1>5. Statements'
  BY <1>3, <1>4 DEF RubyInv, Statements, Owned
<1> QED
  BY <1>4, <1>5, StatementsChange DEF RubyInv, Types

LEMMA StepHolds ==
    ASSUME RubyInv, NEW s \in Stmt, NEW n \in Nat, m_step(s, n)
    PROVE  RubyInv'
<1> DEFINE p == (stmt[s].pos + 1) % (n + 1)
<1>1. stmt' = [stmt EXCEPT ![s].pos = p] /\ UNCHANGED <<conn, db, txn, lost, vm>>
  BY DEF m_step
<1>2. stmt[s].pos \in Nat
  BY DEF RubyInv, Types, StmtRec
<1>3. p \in Nat
  BY <1>2
<1> HIDE DEF p
<1>4. stmt' \in [Stmt -> StmtRec]
  BY <1>1, <1>3 DEF RubyInv, Types, StmtRec
<1>5. \A u \in Stmt : /\ stmt'[u].obj = stmt[u].obj /\ stmt'[u].handle = stmt[u].handle
                      /\ stmt'[u].db = stmt[u].db /\ stmt'[u].connection = stmt[u].connection
                      /\ stmt'[u].query = stmt[u].query
  BY <1>1 DEF RubyInv, Types, StmtRec
<1>6. Statements'
  BY <1>1, <1>5 DEF RubyInv, Statements
<1> QED
  BY <1>1, <1>4, <1>6, StatementsChange DEF RubyInv, Types

LEMMA FreeStmtHolds ==
    ASSUME RubyInv, NEW s \in Stmt, NEW roots, FreeStmt(s, roots)
    PROVE  RubyInv'
<1> DEFINE t == Freed(stmt[s])
<1>1. stmt' = [stmt EXCEPT ![s] = t] /\ UNCHANGED <<conn, db, txn, lost, vm>>
  BY DEF FreeStmt
<1>2. t \in StmtRec /\ t.handle = "none" /\ t.obj = "freed"
  BY DEF Freed, StmtRec
<1> HIDE DEF t
<1>3. stmt' \in [Stmt -> StmtRec] /\ stmt'[s] = t /\ \A u \in Stmt : u # s => stmt'[u] = stmt[u]
  BY <1>1, <1>2 DEF RubyInv, Types
<1>4. Statements'
  BY <1>1, <1>2, <1>3 DEF RubyInv, Statements
<1> QED
  BY <1>1, <1>3, <1>4, StatementsChange DEF RubyInv, Types

LEMMA FreeConnHolds ==
    ASSUME RubyInv, NEW c \in Conn, NEW roots, FreeConn(c, roots)
    PROVE  RubyInv'
<1> DEFINE r == [conn[c] EXCEPT !.obj = "freed", !.handle = NULL]
<1>1. r \in ConnRec /\ r.handle = NULL
  BY ZenonT(40) DEF RubyInv, Types, ConnRec
<1>2. deallocator(c, r) /\ UNCHANGED stmt
  BY DEF FreeConn
<1> HIDE DEF r
<1> QED
  BY <1>1, <1>2, RubyAssumption, DeallocatorHolds

LEMMA InitializeHolds ==
    ASSUME RubyInv, NEW c \in Conn, m_init(c)
    PROVE  RubyInv'
<1>1. PICK r \in ConnRec : allocator(r) /\ deallocator(c, r)
  BY DEF m_init
<1>2. r.handle \notin Handle
  BY <1>1, RubyAssumption DEF allocator
<1> QED
  BY <1>1, <1>2, DeallocatorHolds DEF m_init

\* Every query has a number of rows.
LEMMA LenOfTable == \A q \in Query : Len(Table[q]) \in Nat
  BY RowsetAssumption

\* Everything that changes the objects keeps the invariant of the binding.
LEMMA ScriptHolds == ASSUME RubyInv, SelectInv, Script PROVE RubyInv'
<1>1. CASE \E c \in Conn : DbNew(c)
  BY <1>1, DbNewHolds
<1>2. CASE \E c \in Conn : m_init(c)
  BY <1>2, InitializeHolds
<1>3. CASE \E c \in Conn : m_open(c)
  BY <1>3, OpenHolds
<1>4. CASE \E c \in Conn : m_close(c)
  BY <1>4, CloseHolds
<1>5. CASE \E c \in Conn : m_begin(c) \/ m_commit(c)
  BY <1>5, TransactionHolds
<1>6. CASE \/ \E c \in Conn : UseUnset(c)
           \/ \E o \in held : Drop(o)
           \/ CloseVm
  <2>1. UNCHANGED <<conn, stmt, db, txn, lost>> /\ vm' \in {"running", "closing", "fault"}
    BY <1>6 DEF UseUnset, Fault, Drop, CloseVm, RubyInv, Types
  <2>2. Statements'
    BY <2>1 DEF RubyInv, Statements
  <2> QED
    BY <2>1, <2>2, StatementsChange DEF RubyInv, Types
<1>7. CASE \E c \in Conn, s \in Stmt, q \in Query : m_prepare(c, s, q)
  <2>1. PICK c \in Conn, s \in Stmt, q \in Query : m_prepare(c, s, q)
    BY <1>7
  <2>2. conn[c].handle \in Handle /\ make_sqlite3_stmt(s, c, q)
        /\ UNCHANGED <<conn, db, txn, lost, vm>>
    BY <2>1 DEF m_prepare
  <2> QED
    BY <2>2, PrepareHolds
<1>8. CASE \E s \in Stmt \cap held : m_step(s, Len(Table[stmt[s].query]))
  <2>1. PICK s \in Stmt : m_step(s, Len(Table[stmt[s].query]))
    BY <1>8
  <2>2. stmt[s].query \in Query
    BY <2>1 DEF m_step, RubyInv, Statements
  <2> QED
    BY <2>1, <2>2, LenOfTable, StepHolds
<1> QED
  BY <1>1, <1>2, <1>3, <1>4, <1>5, <1>6, <1>7, <1>8 DEF Script

-----------------------------------------------------------------------------
(* The Rowset. *)

\* A count that fits is not wrapped around.
LEMMA ModSmall == ASSUME NEW m \in Nat, NEW k \in 0..m PROVE k % (m + 1) = k
  OBVIOUS

\* The first n rows of a query, as the block of each delivers them.
LEMMA FirstFacts ==
    ASSUME NEW q, NEW n \in Nat
    PROVE  /\ First(q, 0) = <<>>
           /\ Len(First(q, n)) = n /\ DOMAIN First(q, n) = 1..n
           /\ \A i \in 1..n : First(q, n)[i] = Delivered(q, i)
           /\ Append(First(q, n), Delivered(q, n + 1)) = First(q, n + 1)
<1> DEFINE D == {Delivered(q, i) : i \in 1..(n + 1)}
           x == Delivered(q, n + 1)
           f == First(q, n)
           g == First(q, n + 1)
<1>1. f \in [1..n -> D] /\ g \in [1..(n + 1) -> D] /\ x \in D
  BY DEF First
<1>2. (\A i \in 1..n : f[i] = Delivered(q, i)) /\ (\A i \in 1..(n + 1) : g[i] = Delivered(q, i))
  BY DEF First
<1>3. (\A i \in 1..n : f[i] = g[i]) /\ g[n + 1] = x
  BY <1>2
<1>4. First(q, 0) = <<>>
  BY DEF First
<1> HIDE DEF D, x, f, g
<1>5. f \in Seq(D) /\ Len(f) = n
  BY <1>1
<1>6. /\ Append(f, x) \in [1..(n + 1) -> D] /\ Append(f, x)[n + 1] = x
      /\ \A i \in 1..n : Append(f, x)[i] = f[i]
  <2>1. Append(f, x) \in Seq(D) /\ Len(Append(f, x)) = n + 1
    BY <1>1, <1>5
  <2>2. ASSUME NEW y \in Seq(D), Len(y) = n + 1 PROVE y \in [1..(n + 1) -> D]
    BY <2>2
  <2>3. Append(f, x)[Len(f) + 1] = x /\ \A i \in 1..Len(f) : Append(f, x)[i] = f[i]
    BY <1>1, <1>5
  <2> QED
    BY ZenonT(40), <2>1, <2>2, <2>3, <1>5
<1>7. ASSUME NEW i \in 1..(n + 1) PROVE Append(f, x)[i] = g[i]
  <2>1. i \in 1..n \/ i = n + 1
    OBVIOUS
  <2> QED
    BY <2>1, <1>3, <1>6
<1>8. Append(f, x) = g
  BY <1>1, <1>6, <1>7
<1> QED
  BY <1>1, <1>2, <1>4, <1>5, <1>8 DEF f, g, x

\* Without a select under way, the Rowset alone matters.
LEMMA IdleHolds ==
    ASSUME SelectInv, Idle, UNCHANGED rs
    PROVE  SelectInv'
  BY DEF SelectInv, RowsetTypes, UnderWay, Selected, Selecting, Idle, Named

\* The collector leaves the statement of a select alone.
LEMMA CollectHolds == ASSUME IInv, Collect PROVE IInv'
<1>1. RubyInv'
  BY FreeConnHolds, FreeStmtHolds DEF Collect, IInv
<1>2. UNCHANGED rs
  BY DEF Collect
<1>3. SelectInv'
  <2>1. CASE ~Selecting
    BY <1>2, <2>1, IdleHolds DEF IInv, Selecting, Idle, SelectInv, RowsetTypes
  <2>2. CASE Selecting
    <3>1. rs.stmt \in Stmt /\ vm # "closing"
      BY <2>2 DEF IInv, SelectInv, UnderWay
    <3>2. rs.stmt \in Reached(Roots)
      BY <3>1, RubyAssumption DEF Reached, Roots
    <3>3. stmt'[rs.stmt] = stmt[rs.stmt] /\ vm' # "closing"
      <4>1. CASE \E c \in Conn : FreeConn(c, Roots)
        BY <4>1, <3>1 DEF FreeConn, deallocator
      <4>2. CASE \E s \in Stmt : FreeStmt(s, Roots)
        <5>1. PICK s \in Stmt : FreeStmt(s, Roots)
          BY <4>2
        <5>2. s # rs.stmt /\ stmt' = [stmt EXCEPT ![s] = Freed(stmt[s])] /\ vm' = vm
          BY ZenonT(40), <5>1, <3>1, <3>2 DEF FreeStmt, MayFree
        <5> QED
          BY <5>2, <3>1 DEF IInv, RubyInv, Types
      <4> QED
        BY <4>1, <4>2 DEF Collect
    <3>4. UnderWay'
      BY <1>2, <3>3 DEF IInv, SelectInv, UnderWay, Selecting, Named
    <3> QED
      BY <1>2, <3>4 DEF IInv, SelectInv, RowsetTypes, Selected, Named
  <2> QED
    BY <2>1, <2>2
<1> QED
  BY <1>1, <1>3 DEF IInv

\* A step that leaves the binding alone keeps its invariant.
LEMMA RubyStays ==
    ASSUME RubyInv, UNCHANGED rubyVars
    PROVE  RubyInv'
  BY DEF RubyInv, rubyVars, Types, Owned, Statements, OpenIsOwnedOrLost

\* One lemma for each step of Rowset.
LEMMA RowsetNewHolds == ASSUME IInv, NEW c \in Conn, RowsetNew(c) PROVE IInv'
<1>1. RubyInv'
  BY RubyStays DEF RowsetNew, IInv
<1>2. rs' = [NoRowset EXCEPT !.pc = "idle", !.db = c]
  BY DEF RowsetNew
<1>3. SelectInv'
  BY ZenonT(40), <1>2 DEF SelectInv, RowsetTypes, UnderWay, Selected, Selecting, NoRowset
<1> QED
  BY <1>1, <1>3 DEF IInv

LEMMA SelectRaisesHolds == ASSUME IInv, SelectRaises PROVE IInv'
<1>1. RubyInv'
  BY RubyStays DEF SelectRaises, IInv
<1>2. rs' = [rs EXCEPT !.data = <<>>, !.ok = FALSE] /\ rs.pc = "idle"
  BY DEF SelectRaises
<1>3. SelectInv'
  BY ZenonT(40), <1>2 DEF IInv, SelectInv, RowsetTypes, UnderWay, Selected, Selecting
<1> QED
  BY <1>1, <1>3 DEF IInv

LEMMA SelectPrepareHolds ==
    ASSUME IInv, NEW s \in Stmt, NEW q \in Query, SelectPrepare(s, q)
    PROVE  IInv'
<1> DEFINE t == StmtFor(q, conn[rs.db].handle, rs.db)
<1>1. /\ rs.pc = "idle" /\ rs.db \in Conn /\ conn[rs.db].handle \in Handle
      /\ make_sqlite3_stmt(s, rs.db, q) /\ UNCHANGED <<conn, db, txn, lost, vm>>
      /\ vm = "running"
  BY DEF SelectPrepare, IInv, SelectInv, RowsetTypes, Running
<1>2. RubyInv'
  BY <1>1, PrepareHolds DEF IInv
<1>3. rs' = [rs EXCEPT !.pc = "each", !.stmt = s, !.query = q, !.data = <<>>,
                       !.rows = 0, !.ok = FALSE]
  BY DEF SelectPrepare
<1>4. stmt'[s] = t /\ t.obj = "live" /\ t.query = q /\ t.pos = 0
  BY <1>1 DEF make_sqlite3_stmt, StmtFor, IInv, RubyInv, Types
<1> HIDE DEF t
<1>5. /\ rs'.pc = "each" /\ rs'.stmt = s /\ rs'.query = q /\ rs'.data = <<>> /\ rs'.rows = 0
      /\ rs'.ok = FALSE /\ RowsetTypes'
  BY ZenonT(40), <1>1, <1>3 DEF IInv, SelectInv, RowsetTypes
<1>6. UnderWay'
  BY <1>1, <1>4, <1>5, FirstFacts DEF UnderWay, First
<1>7. Selected'
  BY <1>5 DEF Selected
<1> QED
  BY <1>2, <1>5, <1>6, <1>7 DEF IInv, SelectInv

\* The first pass names the columns: two of one name keep the last number.
LEMMA FirstPassNames ==
    ASSUME NEW q \in Query,
           rs'.headers = Stored(HeadersOf(q), rs.headers),
           rs'.header_names = Stored(Columns[q], rs.header_names)
    PROVE  Named(q)'
<1> DEFINE cols == Columns[q]
           last(j) == \A k \in 1..Len(cols) : cols[k] = cols[j] => k <= j
<1>1. DOMAIN cols = 1..Len(cols) /\ Len(cols) \in Nat
  BY RowsetAssumption
<1> SUFFICES ASSUME NEW j \in 1..Len(cols)
             PROVE  /\ rs'.header_names[j] = cols[j]
                    /\ last(j) => cols[j] \in DOMAIN rs'.headers /\ rs'.headers[cols[j]] = j
  BY DEF Named
<1>2. rs'.header_names[j] = cols[j]
  BY <1>1 DEF Stored
<1>3. ASSUME last(j) PROVE cols[j] \in DOMAIN rs'.headers /\ rs'.headers[cols[j]] = j
  <2>1. cols[j] \in Range(cols)
    BY <1>1 DEF Range
  <2>2. \A i \in 1..Len(cols) :
           cols[i] = cols[j] /\ (\A k \in (i + 1)..Len(cols) : cols[k] # cols[j]) => i = j
    <3> SUFFICES ASSUME NEW i \in 1..Len(cols), cols[i] = cols[j], i # j
                 PROVE  \E k \in (i + 1)..Len(cols) : cols[k] = cols[j]
      OBVIOUS
    <3>1. i <= j
      BY <1>3
    <3>2. j \in (i + 1)..Len(cols)
      BY <3>1, <1>1
    <3> QED
      BY <3>2
  <2>3. cols[j] = cols[j] /\ \A k \in (j + 1)..Len(cols) : cols[k] # cols[j]
    BY <1>1, <1>3
  <2>4. HeadersOf(q)[cols[j]] =
           CHOOSE i \in 1..Len(cols) : cols[i] = cols[j]
                                       /\ \A k \in (i + 1)..Len(cols) : cols[k] # cols[j]
    BY ZenonT(40), <2>1 DEF HeadersOf
  <2>5. HeadersOf(q)[cols[j]] = j
    BY <2>2, <2>3, <2>4
  <2>6. cols[j] \in DOMAIN HeadersOf(q)
    BY <2>1 DEF HeadersOf
  <2> QED
    BY <2>5, <2>6 DEF Stored
<1> QED
  BY <1>2, <1>3

LEMMA SelectEachHolds == ASSUME IInv, SelectEach PROVE IInv'
<1> DEFINE q == rs.query
           p == stmt[rs.stmt].pos
<1>1. RubyInv' /\ UNCHANGED <<stmt, vm>>
  BY RubyStays DEF SelectEach, IInv, rubyVars
<1>2. /\ rs.pc = "each" /\ vm # "closing" /\ ~rs.ok /\ rs.stmt \in Stmt /\ q \in Query
      /\ stmt[rs.stmt].obj = "live" /\ stmt[rs.stmt].query = q
      /\ \/ rs.rows = 0 /\ p = 0 /\ rs.data = First(q, 0)
         \/ /\ rs.rows = p /\ p \in 1..Len(Table[q])
            /\ rs.data = First(q, p - 1) /\ Named(q)
  BY DEF SelectEach, IInv, SelectInv, UnderWay, Selecting
<1>3. CASE rs.rows = 0
  <2>1. rs' = [rs EXCEPT !.pc = "step", !.rows = 1,
                         !.headers = Stored(HeadersOf(q), @),
                         !.header_names = Stored(Columns[q], @)]
    BY <1>3 DEF SelectEach
  <2>2. /\ rs'.pc = "step" /\ rs'.rows = 1 /\ rs'.stmt = rs.stmt /\ rs'.query = q
        /\ rs'.data = rs.data /\ rs'.ok = rs.ok
        /\ rs'.headers = Stored(HeadersOf(q), rs.headers)
        /\ rs'.header_names = Stored(Columns[q], rs.header_names)
        /\ RowsetTypes'
    <3> DEFINE new == Stored(HeadersOf(q), rs.headers)
               names == Stored(Columns[q], rs.header_names)
    <3>1. rs' = [rs EXCEPT !.pc = "step", !.rows = 1, !.headers = new, !.header_names = names]
      BY <2>1
    <3>2. RowsetTypes /\ rs.pc = "each"
      BY <1>2 DEF IInv, SelectInv
    <3> HIDE DEF new, names
    <3>3. rs' = [pc |-> "step", db |-> rs.db, stmt |-> rs.stmt, headers |-> new,
                 header_names |-> names, data |-> rs.data, rows |-> 1, query |-> q,
                 ok |-> rs.ok, done |-> rs.done]
      BY ZenonT(40), <3>1, <3>2 DEF RowsetTypes
    <3> QED
      BY <3>2, <3>3 DEF RowsetTypes, new, names
  <2>3. Named(q)'
    BY <1>2, <2>2, FirstPassNames
  <2>4. p = 0 /\ rs.data = First(q, 0) /\ Len(Table[q]) \in Nat
    <3>1. 0 \notin 1..Len(Table[q])
      OBVIOUS
    <3> QED
      BY ZenonT(40), <1>2, <1>3, <3>1, LenOfTable
  <2>5. UnderWay'
    BY <1>1, <1>2, <2>2, <2>3, <2>4 DEF UnderWay, First, Named
  <2> QED
    BY <1>1, <2>2, <2>5 DEF IInv, SelectInv, Selected
<1>4. CASE rs.rows # 0
  <2>1. rs' = [rs EXCEPT !.pc = "step", !.rows = @ + 1, !.data = Append(@, RowAt(rs.stmt))]
    BY <1>4 DEF SelectEach
  <2>2. /\ rs'.pc = "step" /\ rs'.rows = rs.rows + 1 /\ rs'.stmt = rs.stmt /\ rs'.query = q
        /\ rs'.data = Append(rs.data, RowAt(rs.stmt)) /\ rs'.ok = rs.ok
        /\ rs'.headers = rs.headers /\ rs'.header_names = rs.header_names
        /\ RowsetTypes'
    <3> DEFINE rows == Append(rs.data, RowAt(rs.stmt))
               m == rs.rows + 1
    <3>1. rs' = [rs EXCEPT !.pc = "step", !.rows = m, !.data = rows]
      BY <2>1
    <3>2. RowsetTypes /\ rs.pc = "each"
      BY <1>2 DEF IInv, SelectInv
    <3> HIDE DEF rows, m
    <3>3. rs' = [pc |-> "step", db |-> rs.db, stmt |-> rs.stmt, headers |-> rs.headers,
                 header_names |-> rs.header_names, data |-> rows, rows |-> m, query |-> q,
                 ok |-> rs.ok, done |-> rs.done]
      BY ZenonT(40), <3>1, <3>2 DEF RowsetTypes
    <3> QED
      BY <3>2, <3>3 DEF RowsetTypes, rows, m
  <2>3. rs.rows = p /\ p \in 1..Len(Table[q]) /\ rs.data = First(q, p - 1) /\ Named(q)
    BY <1>2, <1>4
  <2>4. RowAt(rs.stmt) = Delivered(q, p)
    BY <1>2 DEF RowAt, Delivered
  <2>5. p - 1 \in Nat /\ (p - 1) + 1 = p /\ p \in 0..Len(Table[q])
    <3>1. p \in 1..Len(Table[q]) /\ Len(Table[q]) \in Nat
      BY ZenonT(40), <1>2, <2>3, LenOfTable
    <3> HIDE DEF p
    <3> QED
      BY <3>1
  <2>6. rs'.data = First(q, p)
    <3>1. Append(First(q, p - 1), Delivered(q, (p - 1) + 1)) = First(q, (p - 1) + 1)
      BY ZenonT(40), <2>5, FirstFacts
    <3> QED
      BY Zenon, <2>2, <2>3, <2>4, <2>5, <3>1
  <2>7. Named(q)'
    BY Zenon, <2>2, <2>3 DEF Named
  <2>8. UnderWay'
    <3>1. stmt'[rs'.stmt] = stmt[rs.stmt] /\ rs'.rows = p + 1 /\ vm' = vm
      BY <1>1, <2>2, <2>3
    <3>2. Named(rs.query)' /\ (First(rs.query, stmt[rs.stmt].pos))' = First(q, p)
      BY <1>1, <2>2, <2>7 DEF First, Named
    <3> QED
      BY <1>2, <2>2, <2>5, <2>6, <3>1, <3>2 DEF UnderWay
  <2> QED
    BY <1>1, <2>2, <2>8 DEF IInv, SelectInv, Selected
<1> QED
  BY <1>3, <1>4

LEMMA SelectEachRaisesHolds == ASSUME IInv, SelectEachRaises PROVE IInv'
<1>1. RubyInv'
  BY RubyStays DEF SelectEachRaises, IInv
<1>2. rs' = [rs EXCEPT !.pc = "idle", !.stmt = NULL] /\ rs.pc = "each" /\ ~rs.ok
  BY DEF SelectEachRaises, IInv, SelectInv, UnderWay, Selecting
<1>3. SelectInv'
  BY ZenonT(40), <1>2 DEF IInv, SelectInv, RowsetTypes, UnderWay, Selected, Selecting
<1> QED
  BY <1>1, <1>3 DEF IInv

LEMMA SelectStepHolds == ASSUME IInv, SelectStep PROVE IInv'
<1> DEFINE q == rs.query
           p == stmt[rs.stmt].pos
           n == Len(Table[q])
<1>1. /\ rs.pc = "step" /\ vm # "closing" /\ ~rs.ok /\ rs.stmt \in Stmt /\ q \in Query
      /\ stmt[rs.stmt].obj = "live" /\ stmt[rs.stmt].query = q
      /\ rs.rows = p + 1 /\ p \in 0..n /\ rs.data = First(q, p) /\ Named(q)
  BY DEF SelectStep, IInv, SelectInv, UnderWay, Selecting
<1>2. n \in Nat
  BY <1>1, LenOfTable
<1>3. m_step(rs.stmt, n)
  BY DEF SelectStep
<1>4. RubyInv'
  BY <1>1, <1>2, <1>3, StepHolds DEF IInv
<1>5. /\ vm' = vm /\ stmt'[rs.stmt].pos = (p + 1) % (n + 1)
      /\ stmt'[rs.stmt].obj = "live" /\ stmt'[rs.stmt].query = q
  BY <1>1, <1>3 DEF m_step, IInv, RubyInv, Types, StmtRec
<1>6. CASE p < n
  <2>1. rs' = [rs EXCEPT !.pc = "each"]
    BY <1>6 DEF SelectStep
  <2>2. /\ rs'.pc = "each" /\ rs'.rows = rs.rows /\ rs'.stmt = rs.stmt /\ rs'.query = q
        /\ rs'.data = rs.data /\ rs'.ok = rs.ok
        /\ rs'.headers = rs.headers /\ rs'.header_names = rs.header_names
        /\ RowsetTypes'
    <3>1. RowsetTypes /\ rs.pc = "step"
      BY <1>1 DEF IInv, SelectInv
    <3> QED
      BY <2>1, <3>1 DEF RowsetTypes
  <2>3. (p + 1) % (n + 1) = p + 1 /\ p + 1 \in 1..n /\ (p + 1) - 1 = p
    <3>1. p \in 0..n
      BY <1>1
    <3> HIDE DEF p, n
    <3>2. p + 1 \in 0..n /\ p + 1 \in 1..n /\ (p + 1) - 1 = p
      BY <3>1, <1>2, <1>6
    <3> QED
      BY <3>2, <1>2, ModSmall
  <2>4. Named(q)'
    BY Zenon, <1>1, <2>2 DEF Named
  <2> HIDE DEF n
  <2>5. UnderWay'
    <3>1. stmt'[rs'.stmt].pos = p + 1 /\ rs'.rows = p + 1
      BY <1>1, <1>5, <2>2, <2>3
    <3>2. p + 1 \in 1..Len(Table[q]) /\ rs'.data = First(q, (p + 1) - 1)
      BY <1>1, <2>2, <2>3 DEF n
    <3> HIDE DEF p
    <3>3. (First(rs.query, stmt[rs.stmt].pos - 1))' = First(q, (p + 1) - 1)
      BY <2>2, <3>1 DEF First, Delivered
    <3> QED
      BY Zenon, <1>1, <1>5, <2>2, <2>4, <3>1, <3>2, <3>3 DEF UnderWay, Named
  <2> QED
    BY <1>4, <2>2, <2>5 DEF IInv, SelectInv, Selected
<1>7. CASE ~(p < n)
  <2>1. rs' = [rs EXCEPT !.pc = "idle", !.stmt = NULL, !.rows = @ - 1,
                         !.ok = TRUE, !.done = TRUE]
    BY <1>7 DEF SelectStep
  <2>2. /\ rs'.pc = "idle" /\ rs'.rows = rs.rows - 1 /\ rs'.query = q /\ rs'.data = rs.data
        /\ rs'.headers = rs.headers /\ rs'.header_names = rs.header_names
        /\ RowsetTypes'
    <3> DEFINE m == rs.rows - 1
    <3>1. rs' = [rs EXCEPT !.pc = "idle", !.stmt = NULL, !.rows = m, !.ok = TRUE, !.done = TRUE]
      BY <2>1
    <3>2. RowsetTypes /\ rs.pc = "step"
      BY <1>1 DEF IInv, SelectInv
    <3> HIDE DEF m
    <3> QED
      BY ZenonT(40), <3>1, <3>2 DEF RowsetTypes, m
  <2>3. rs'.rows = p /\ p = n /\ p \in 0..n
    BY <1>1, <1>2, <1>7, <2>2
  <2>4. Named(q)'
    BY ZenonT(40), <1>1, <2>2 DEF Named
  <2> HIDE DEF n
  <2>5. Selected'
    BY ZenonT(40), <1>1, <2>2, <2>3, <2>4 DEF Selected, First, Named, n
  <2> QED
    BY <1>4, <2>2, <2>5 DEF IInv, SelectInv, UnderWay, Selecting
<1> QED
  BY <1>6, <1>7

LEMMA SelectStepFailsHolds == ASSUME IInv, SelectStepFails PROVE IInv'
<1> DEFINE q == rs.query
           p == stmt[rs.stmt].pos
           n == Len(Table[q])
<1>1. /\ rs.pc = "step" /\ q \in Query /\ rs.rows = p + 1 /\ p \in 0..n
      /\ rs.data = First(q, p) /\ Named(q)
  BY DEF SelectStepFails, IInv, SelectInv, UnderWay, Selecting
<1>2. RubyInv'
  BY RubyStays DEF SelectStepFails, IInv
<1>3. rs' = [rs EXCEPT !.pc = "idle", !.stmt = NULL, !.rows = @ - 1, !.ok = TRUE, !.done = FALSE]
  BY DEF SelectStepFails
<1>4. /\ rs'.pc = "idle" /\ rs'.rows = rs.rows - 1 /\ rs'.query = q /\ rs'.data = rs.data
      /\ rs'.headers = rs.headers /\ rs'.header_names = rs.header_names /\ rs'.done = FALSE
      /\ RowsetTypes'
  <2> DEFINE m == rs.rows - 1
  <2>1. rs' = [rs EXCEPT !.pc = "idle", !.stmt = NULL, !.rows = m, !.ok = TRUE, !.done = FALSE]
    BY <1>3
  <2>2. RowsetTypes /\ rs.pc = "step"
    BY <1>1 DEF IInv, SelectInv
  <2> HIDE DEF m
  <2> QED
    BY ZenonT(40), <2>1, <2>2 DEF RowsetTypes, m
<1>5. rs'.rows = p
  BY <1>1, <1>4
<1>6. Named(q)'
  BY ZenonT(40), <1>1, <1>4 DEF Named
<1> HIDE DEF n
<1>7. Selected'
  BY <1>1, <1>4, <1>5, <1>6 DEF Selected, First, Named, n
<1> QED
  BY <1>2, <1>4, <1>7 DEF IInv, SelectInv, UnderWay, Selecting

-----------------------------------------------------------------------------
(* The invariant, and what follows from it. *)

LEMMA InitHolds == Init => IInv
<1> SUFFICES ASSUME Init PROVE IInv
  OBVIOUS
<1>1. RubyInv
  BY RubyInitHolds DEF Init
<1>2. SelectInv
  BY DEF Init, NoRowset, SelectInv, RowsetTypes, UnderWay, Selected, Selecting
<1> QED
  BY <1>1, <1>2 DEF IInv

LEMMA NextHolds == IInv /\ [Next]_vars => IInv'
<1> SUFFICES ASSUME IInv, [Next]_vars PROVE IInv'
  OBVIOUS
<1>1. CASE Script
  <2>1. RubyInv'
    BY <1>1, ScriptHolds DEF IInv
  <2>2. SelectInv'
    BY <1>1, IdleHolds DEF Script, IInv
  <2> QED
    BY <2>1, <2>2 DEF IInv
<1>2. CASE Collect
  BY <1>2, CollectHolds
<1>3. CASE Select
  BY <1>3, RowsetNewHolds, SelectRaisesHolds, SelectPrepareHolds, SelectEachHolds,
     SelectEachRaisesHolds, SelectStepHolds, SelectStepFailsHolds DEF Select
<1>4. CASE UNCHANGED vars
  <2>1. UNCHANGED rubyVars /\ UNCHANGED rs
    BY <1>4 DEF vars
  <2>2. RubyInv'
    BY Zenon, <2>1, RubyStays DEF IInv
  <2>3. SelectInv'
    BY <2>1 DEF IInv, SelectInv, RowsetTypes, UnderWay, Selected, Selecting, Named, rubyVars
  <2> QED
    BY <2>2, <2>3 DEF IInv
<1> QED
  BY <1>1, <1>2, <1>3, <1>4 DEF Next

LEMMA Inductive == Spec => []IInv
  BY InitHolds, NextHolds, PTL DEF Spec

\* m_open, m_close and the deallocator of DB objects: whatever a script does, a
\* connection that is open in SQLite is held by the one live object that can
\* close it, unless it is one of those the code is known to lose.
THEOREM ConnectionsOwned == Spec => []OpenIsOwnedOrLost
<1>1. IInv => OpenIsOwnedOrLost
  BY DEF IInv, RubyInv
<1> QED
  BY <1>1, Inductive, PTL

\* mrb_close and the deallocators: when every object has been freed no
\* statement is left in SQLite, and no transaction but on a lost connection.
THEOREM ShutdownReleases == Spec => []EndReleases
<1>1. ASSUME IInv PROVE EndReleases
  <2> SUFFICES ASSUME \A c \in Conn : conn[c].obj # "live", \A s \in Stmt : stmt[s].obj # "live"
               PROVE  (\A s \in Stmt : stmt[s].handle = "none") /\ txn \subseteq lost
    BY DEF EndReleases
  <2>1. ASSUME NEW s \in Stmt PROVE stmt[s].handle = "none"
    <3>1. stmt[s].handle \in {"none", "open"}
      BY <1>1 DEF IInv, RubyInv, Types, StmtRec
    <3> QED
      BY <1>1, <3>1 DEF IInv, RubyInv, Statements
  <2>2. txn \subseteq lost
    BY <1>1 DEF IInv, RubyInv, Types, Owned, OpenIsOwnedOrLost
  <2> QED
    BY <2>1, <2>2
<1> QED
  BY <1>1, Inductive, PTL

\* The low bits of a number that fits are the number.
LEMMA ColumnInt == \A v \in -Half..(Half - 1) : column_int(v) = v
<1> SUFFICES ASSUME NEW v \in -Half..(Half - 1) PROVE column_int(v) = v
  OBVIOUS
<1> DEFINE m == 2 * Half - 1
           k == v + Half
<1>1. Half \in Nat
  BY RowsetAssumption
<1>2. m \in Nat /\ k \in 0..m /\ m + 1 = 2 * Half /\ k - Half = v
  BY <1>1, RowsetAssumption
<1>3. k % (m + 1) = k
  <2> HIDE DEF m, k
  <2> QED
    BY ZenonT(40), <1>2, ModSmall
<1> QED
  BY <1>2, <1>3 DEF column_int

\* Rowset#select: a select that answers true has its rows in order, as many as
\* it says, each value under its column's number and name, however often the
\* Rowset was used before and whatever the collector freed meanwhile.
THEOREM SelectFaithful == Spec => []SelectIsFaithful
<1>1. ASSUME IInv PROVE SelectIsFaithful
  <2> SUFFICES ASSUME rs.pc = "idle", rs.ok
               PROVE  LET t == Table[rs.query]  cols == Columns[rs.query] IN
                      /\ rs.rows = Len(rs.data)
                      /\ rs.rows <= Len(t) /\ (rs.done => rs.rows = Len(t))
                      /\ \A i \in 1..rs.rows : \A j \in 1..Len(cols) :
                            (t[i][j] \in Int => t[i][j] \in -Half..(Half - 1)) =>
                                rs.data[i][j] = t[i][j]
                      /\ \A i \in 1..rs.rows : \A j \in 1..Len(cols) :
                            /\ rs.header_names[j] = cols[j]
                            /\ (\A k \in 1..Len(cols) : cols[k] = cols[j] => k <= j) =>
                                   RowAtName(i, cols[j]) = rs.data[i][j]
    BY DEF SelectIsFaithful
  <2> DEFINE q == rs.query
             t == Table[q]
             cols == Columns[q]
             n == rs.rows
  <2>1. q \in Query /\ n \in 0..Len(t) /\ (rs.done => n = Len(t))
    BY <1>1 DEF IInv, SelectInv, Selected
  <2>2. rs.data = First(q, n) /\ Named(q)
    BY <1>1 DEF IInv, SelectInv, Selected
  <2>3. Len(t) \in Nat /\ n \in Nat
    BY <2>1, LenOfTable
  <2>4. Len(rs.data) = n /\ \A i \in 1..n : rs.data[i] = Delivered(q, i)
    <3>1. ASSUME NEW m \in Nat, NEW f, f = First(q, m)
          PROVE  Len(f) = m /\ \A i \in 1..m : f[i] = Delivered(q, i)
      BY ZenonT(40), <3>1, FirstFacts
    <3> HIDE DEF q
    <3> QED
      BY <2>2, <2>3, <3>1
  <2>5. \A i \in 1..n : Len(t[i]) = Len(cols)
    <3>1. t \in Seq(Range(t)) /\ \A r \in Range(t) : Len(r) = Len(cols)
      BY <2>1, RowsetAssumption
    <3>2. \A i \in 1..n : i \in 1..Len(t)
      BY <2>1, <2>3
    <3> HIDE DEF t, n
    <3>3. \A i \in 1..Len(t) : t[i] \in Range(t)
      BY <3>1 DEF Range
    <3> QED
      BY <3>1, <3>2, <3>3
  <2>6. \A i \in 1..n : \A j \in 1..Len(cols) : rs.data[i][j] = column_value(t[i][j])
    <3>1. \A i \in 1..n : \A j \in 1..Len(t[i]) : Delivered(q, i)[j] = column_value(t[i][j])
      BY DEF Delivered
    <3> HIDE DEF q, t, n, cols
    <3> QED
      BY <2>4, <2>5, <3>1
  <2>7. \A i \in 1..n : DOMAIN rs.data[i] = 1..Len(cols)
    BY ZenonT(40), <2>4, <2>5 DEF Delivered
  <2>8. ASSUME NEW i \in 1..n, NEW j \in 1..Len(cols),
               t[i][j] \in Int => t[i][j] \in -Half..(Half - 1)
        PROVE  rs.data[i][j] = t[i][j]
    BY ZenonT(40), <2>6, <2>8, ColumnInt DEF column_value
  <2>9. ASSUME NEW i \in 1..n, NEW j \in 1..Len(cols)
        PROVE  /\ rs.header_names[j] = cols[j]
               /\ (\A k \in 1..Len(cols) : cols[k] = cols[j] => k <= j) =>
                      RowAtName(i, cols[j]) = rs.data[i][j]
    <3>1. /\ rs.header_names[j] = cols[j]
          /\ (\A k \in 1..Len(cols) : cols[k] = cols[j] => k <= j) =>
                 cols[j] \in DOMAIN rs.headers /\ rs.headers[cols[j]] = j
      BY <2>2 DEF Named
    <3> QED
      BY <3>1, <2>7 DEF RowAtName
  <2> QED
    BY <2>1, <2>3, <2>4, <2>8, <2>9
<1> QED
  BY <1>1, Inductive, PTL

\* Only the deallocator makes an object a freed one.
LEMMA OnlyFreed ==
    ASSUME IInv, [Next]_vars, NEW c \in Conn, conn[c].obj = "live", conn'[c].obj = "freed"
    PROVE  FreeConn(c, Roots)
<1>1. CASE Script
  <2>1. ASSUME NEW d \in Conn, NEW r \in ConnRec, r.obj = "live",
               conn' = [conn EXCEPT ![d] = r] \/ conn' = conn
        PROVE  FALSE
    BY <2>1 DEF IInv, RubyInv, Types
  <2>2. ASSUME NEW d \in Conn, NEW h, conn' = [conn EXCEPT ![d].handle = h]
        PROVE  FALSE
    BY <2>2 DEF IInv, RubyInv, Types, ConnRec
  <2>3. conn' # conn
    OBVIOUS
  <2>4. \A d \in Conn : ~DbNew(d)
    BY <2>1 DEF DbNew, allocator
  <2>5. \A d \in Conn : ~m_init(d)
    BY <2>1 DEF m_init, allocator, deallocator
  <2>6. \A d \in Conn : ~m_open(d)
    BY <2>2 DEF m_open
  <2>7. \A d \in Conn : ~m_close(d)
    BY <2>2, <2>3 DEF m_close
  <2> QED
    BY <1>1, <2>3, <2>4, <2>5, <2>6, <2>7
    DEF Script, m_begin, m_commit, UseUnset, Fault, m_prepare, m_step, Drop, CloseVm
<1>2. CASE Collect
  <2>1. ASSUME NEW d \in Conn, FreeConn(d, Roots) PROVE d = c
    <3>1. conn' = conn \/ conn' = [conn EXCEPT ![d] = [conn[d] EXCEPT !.obj = "freed", !.handle = NULL]]
      BY <2>1 DEF FreeConn, deallocator
    <3> QED
      BY <3>1 DEF IInv, RubyInv, Types
  <2> QED
    BY <1>2, <2>1 DEF Collect, FreeStmt
<1>3. CASE Select
  BY ZenonT(40), <1>3 DEF Select, RowsetNew, SelectRaises, SelectPrepare, SelectEach, SelectEachRaises,
     SelectStep, SelectStepFails, m_step, rubyVars
<1>4. CASE UNCHANGED vars
  BY <1>4 DEF vars, rubyVars
<1> QED
  BY <1>1, <1>2, <1>3, <1>4 DEF Next

\* The instance variable "connection" of a statement, Rowset's @db and the
\* locals of select keep the DB object alive: no step of the collector frees
\* the object whose connection a statement within reach runs on.
THEOREM StatementsKeepConnection == Spec => ConnectionOutlivesStatements
<1> DEFINE Kept ==
        \A c \in Conn :
          vm = "running" /\ conn[c].obj = "live" /\ conn'[c].obj = "freed" =>
              \A s \in (held \cup Roots) \cap Stmt :
                  stmt[s].handle = "open" => stmt[s].db # conn[c].handle
<1>1. IInv /\ [Next]_vars => Kept
  <2> SUFFICES ASSUME IInv, [Next]_vars, NEW c \in Conn, vm = "running", conn[c].obj = "live",
                      conn'[c].obj = "freed", NEW s \in (held \cup Roots) \cap Stmt,
                      stmt[s].handle = "open", stmt[s].db = conn[c].handle
               PROVE  FALSE
    OBVIOUS
  <2>1. c \notin Reached(Roots)
    BY ZenonT(40), OnlyFreed DEF FreeConn, MayFree
  <2>2. stmt[s].connection = c
    BY DEF IInv, RubyInv, Statements
  <2>3. c \in Reached(Roots)
    BY <2>2, RubyAssumption DEF Reached
  <2> QED
    BY <2>1, <2>3
<1>2. [][Kept]_vars => ConnectionOutlivesStatements
  BY DEF ConnectionOutlivesStatements
<1> QED
  BY <1>1, <1>2, Inductive, PTL DEF Spec

=============================================================================
