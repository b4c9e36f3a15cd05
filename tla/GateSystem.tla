----------------------------- MODULE GateSystem -----------------------------
(***************************************************************************)
(* The Apache children, the gatedb processes and the gatelog processes on  *)
(* one gate database.  A step of one of them leaves the private state of   *)
(* the others alone; they meet in the file and in SQLite's locks.          *)
(***************************************************************************)
EXTENDS GateLookup, GateDb, GateLog

CONSTANT InitialTables    \* what an administrator may have put in the ip table

vars == <<fileVars, connVars, lookupVars, dbVars, logVars>>

\* A row whose numbers, if it has both, are those of its texts.
Faithful(r) ==
    Indexed(r) => /\ r.st \in Addr => r.start = r.st
                  /\ r.st \in Addr /\ r.et \in Addr => r.end = r.et

\* Table u has every row of t: the same texts and code, and the same numbers
\* where t has both.
Extends(t, u) ==
    /\ DOMAIN t \subseteq DOMAIN u
    /\ \A i \in DOMAIN t :
         /\ u[i].st = t[i].st /\ u[i].et = t[i].et /\ u[i].code = t[i].code
         /\ Indexed(t[i]) => u[i] = t[i]

ASSUME InitialTablesAssumption ==
    \A t \in InitialTables :
        t \in Seq(Row) /\ \A i \in DOMAIN t : Faithful(t[i])

Init ==
    /\ SqliteInit(InitialTables)
    /\ LookupInit
    /\ DbInit
    /\ LogInit

Next ==
    \/ \E w \in Workers : LookupNext(w) /\ UNCHANGED <<dbVars, logVars>>
    \/ \E d \in Dbs : DbNext(d) /\ UNCHANGED <<lookupVars, logVars>>
    \/ \E g \in Logs : LogNext(g) /\ UNCHANGED <<lookupVars, dbVars>>

Spec == Init /\ [][Next]_vars

-----------------------------------------------------------------------------
(* Safety *)

FileTypes ==
    /\ schema \in SchemaStates
    /\ rows \in Seq(Row)
    /\ journal \in Seq(Row)
    /\ shared \subseteq Conns
    /\ exclusive \in Dbs \cup Logs \cup {NoConn}

ConnTypes == handle \in [Conns -> BOOLEAN] /\ stmt \in [Conns -> BOOLEAN]

ChildTypes ==
    /\ pc \in [Workers -> Points]
    /\ addr \in [Workers -> Addr \cup {NotV4}]
    /\ agent \in [Workers -> Agents \cup {NIL}]
    /\ ret \in [Workers -> {"none", "OK", "DECLINED", "1"}]
    /\ status \in [Workers -> Nat]
    /\ record \in [Workers -> Nat]
    /\ cause \in [Workers -> Causes]
    /\ listed \in [Workers -> BOOLEAN]

DbTypes ==
    /\ dpc \in [Dbs -> DbPoints]
    /\ command \in [Dbs -> Commands]
    /\ cursor \in [Dbs -> Nat]
    /\ exit \in [Dbs -> {"none", "0", "1"}]
    /\ reported \in [Dbs -> SUBSET Nat]

LogTypes ==
    /\ lpc \in [Logs -> LogPoints]
    /\ ip \in [Logs -> Addr \cup {BadText, Null}]

\* Every variable keeps its type; a worker in particular never is the one
\* inside a transaction.
TypeOK == FileTypes /\ ConnTypes /\ ChildTypes /\ DbTypes /\ LogTypes

\* A request from an address that a committed, indexed row alone blocks when
\* the request arrives is served only because another row that matches says
\* 200, or because SQLite was busy at sqlite3_step.  Whatever the tools commit,
\* roll back or leave half done meanwhile, the lookup does not miss the row.
ListedIsBlocked ==
    \A w \in Workers :
        pc[w] = "done" /\ listed[w] /\ ret[w] = "DECLINED"
            => cause[w] \in {"allow", "busy"}

\* The record id that the handler logs with a match, and the code it answers
\* with, are those of a row that every later reader finds too: no request is
\* answered from a row that a crash can take back.
MatchIsCommitted ==
    \A w \in Workers :
        record[w] # 0 => /\ record[w] \in DOMAIN Committed
                         /\ Committed[record[w]].code = status[w]

\* On every way out of the handler - early return, exception, return from
\* inside the loop - the child has given back its statement, its connection
\* and its lock before Apache sees the answer.
NothingLeaks ==
    \A w \in Workers :
        pc[w] \in {"idle", "done"} => ~handle[w] /\ ~stmt[w] /\ w \notin shared

\* No child is on a row while a tool is inside a transaction.
ReadersExcludeWriters ==
    exclusive # NoConn => shared \subseteq {exclusive}

\* When index_database commits the transaction it began, every row has numbers:
\* none was skipped, and none slipped in behind the cursor.
IndexIsComplete ==
    \A d \in Dbs :
        dpc[d] = "commit" /\ exclusive = d
            => \A i \in DOMAIN rows : ~NeedsIndex(rows[i])

\* Rows whose texts are addresses carry exactly these addresses once indexed,
\* next to rows whose texts are not, and through crashes.
NumbersAreFaithful ==
    \A i \in DOMAIN rows : Faithful(rows[i])

\* gatedb --create exits 0 only when the file holds both tables, whatever
\* other process opened the path between its access() and its CREATE TABLE.
CreateIsComplete ==
    \A d \in Dbs : command[d] = "create" /\ exit[d] = "0" => HasIpTable

\* What blockIP counted still holds when it inserts: inside the transaction of
\* processLog no other process can add the same address in between.
CountHoldsAtInsert ==
    \A g \in Logs : lpc[g] = "insert" /\ exclusive = g => ~Known(ip[g])

-----------------------------------------------------------------------------
(* Action properties *)

\* A committed row stays: its texts and its code for ever, its numbers once it
\* has both.  Neither an index run, a crash nor a rollback undoes a block.
RowsStay == [][Extends(Committed, Committed')]_vars

-----------------------------------------------------------------------------
(* Refinement *)

Answers(r, a) == a \in Addr /\ Matches(r, a)

List == INSTANCE Blocklist WITH
    Peer <- Addr \cup {NotV4},
    Nobody <- Null,
    Matches <- Answers,
    table <- Committed,
    request <- [w \in Workers |-> IF pc[w] = "idle" THEN Null ELSE addr[w]],
    answer <- [w \in Workers |-> [ret |-> ret[w], status |-> status[w], cause |-> cause[w]]]

\* The lookup is atomic: from access() to the last destructor, with tools that
\* create, index, log, commit and crash in between, a request is answered as
\* if the handler had read the committed rows in one moment.
LookupIsAtomic == List!BlocklistSpec

-----------------------------------------------------------------------------
(* The inductive invariant behind the properties above *)

\* A transaction only adds to what was committed before it, and no number that
\* contradicts a text is ever written.
TablesOK ==
    /\ exclusive # NoConn => Extends(journal, rows)
    /\ \A i \in DOMAIN rows : Faithful(rows[i])
    /\ \A i \in DOMAIN journal : Faithful(journal[i])

\* A gatedb process holds the read lock on the row it updates, and a row it has
\* passed in its transaction needs it no more.
IndexerOK(d) ==
    /\ dpc[d] \in {"idle", "access", "open", "create_ua", "create_ip", "begin", "prepare"}
         => cursor[d] = 0 /\ exit[d] = "none"
    /\ dpc[d] \in {"begin", "update", "commit"} => command[d] = "index"
    /\ dpc[d] \in {"prepare", "step"} => command[d] \in {"index", "lint"}
    /\ dpc[d] \in {"access", "create_ua", "create_ip"} => command[d] = "create"
    /\ dpc[d] = "open" => command[d] # "none"
    /\ dpc[d] \in {"step", "update", "commit"} => exit[d] = "none"
    /\ exit[d] = "0" /\ command[d] = "create" => HasIpTable
    /\ dpc[d] = "update" => /\ d \in shared /\ cursor[d] \in DOMAIN rows
                            /\ NeedsIndex(rows[cursor[d]])
    /\ exclusive = d =>
         /\ dpc[d] \in {"prepare", "step", "update", "commit"} /\ command[d] = "index"
         /\ \A i \in DOMAIN rows :
              i < cursor[d] \/ (i = cursor[d] /\ dpc[d] = "step") \/ dpc[d] = "commit"
                 => ~NeedsIndex(rows[i])

LoggerOK(g) ==
    exclusive = g => /\ lpc[g] \in {"line", "count", "insert", "commit"}
                     /\ lpc[g] = "insert" => ~Known(ip[g])

\* What a child holds at each point of the handler.
ChildHolds(w) ==
    /\ handle[w] => pc[w] \in {"convert", "prepare", "step", "finalize", "close"}
    /\ stmt[w] => pc[w] \in {"step", "finalize"}
    /\ w \in shared => pc[w] = "finalize"

\* What its answer, once it has one, rests on.
ChildAnswers(w) ==
    /\ pc[w] \in {"idle", "config", "connect", "convert", "prepare", "step"}
         => ret[w] = "none" /\ status[w] = HTTP_OK /\ record[w] = 0 /\ cause[w] = "none"
    /\ ret[w] = "OK" <=> cause[w] = "error" \/ status[w] # HTTP_OK
    /\ listed[w] => addr[w] \in Addr /\ Listed(addr[w])
    /\ listed[w] /\ ret[w] = "DECLINED" => cause[w] \in {"allow", "busy"}
    /\ record[w] # 0 => /\ record[w] \in DOMAIN Committed
                        /\ Committed[record[w]].code = status[w]

Inv ==
    /\ TypeOK
    /\ ReadersExcludeWriters
    /\ TablesOK
    /\ \A d \in Dbs : IndexerOK(d)
    /\ \A g \in Logs : LoggerOK(g)
    /\ \A w \in Workers : ChildHolds(w) /\ ChildAnswers(w)

\* A child that asks has a number to ask for, and one that is past asking has
\* an answer.
ChildAsks(w) ==
    /\ pc[w] \in {"prepare", "step"} => addr[w] \in Addr
    /\ pc[w] \in {"finalize", "close", "done"} => cause[w] # "none"

-----------------------------------------------------------------------------
(* What the documents say, and the code does not do *)

\* README: "If the remote connection's IP falls within that range [address
\* beginning to address ending inclusive], mod_gate will return the given HTTP
\* code".  A lookup that ends without a match met no such range.
RangesAreBlocked ==
    \A w \in Workers : cause[w] = "no_match" =>
        \A i \in DOMAIN Committed :
            Indexed(Committed[i]) =>
                ~(Committed[i].start <= addr[w] /\ addr[w] <= Committed[i].end)

-----------------------------------------------------------------------------
(* Liveness *)

\* The operating system schedules a child that serves a request and a gatedb
\* process that is not killed.  Nothing is assumed of gatelog, which may stop
\* for ever inside its transaction, nor of when requests arrive.
LiveSpec ==
    /\ Spec
    /\ \A w \in Workers : WF_vars(HandlerStep(w) /\ UNCHANGED <<dbVars, logVars>>)
    /\ \A d \in Dbs : WF_vars(DbStep(d) /\ UNCHANGED <<lookupVars, logVars>>)

\* Every request is answered: a lookup never waits for a tool, not even for a
\* gatelog that has stopped inside its transaction.
EveryRequestAnswered ==
    \A w \in Workers : pc[w] = "config" ~> pc[w] = "done"

\* Every gatedb command ends, even when each of its UPDATEs meets a reader.
EveryCommandEnds ==
    \A d \in Dbs : dpc[d] # "idle" ~> dpc[d] = "idle"
=============================================================================
