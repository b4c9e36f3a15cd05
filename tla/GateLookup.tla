----------------------------- MODULE GateLookup -----------------------------
(***************************************************************************)
(* gate_request_handler (module.cpp) in each Apache child, for requests to *)
(* a location whose Gate names a handler with this database (GateConfig    *)
(* models which database that is).  One action per call the handler makes  *)
(* outside its own process, so that other children, gatedb and gatelog     *)
(* interleave between them; the destructors that run on every return are   *)
(* the last two steps.                                                     *)
(***************************************************************************)
EXTENDS SqliteFile

CONSTANTS
    NotV4,          \* a peer address that inet_pton(AF_INET) refuses
    Agents,         \* User-Agent values
    NIL             \* no User-Agent header

ASSUME NotV4Assumption == NotV4 \notin Addr \cup {BadText, Null}

VARIABLES
    pc,       \* pc[w]: where child w is in gate_request_handler
    addr,     \* the peer address of its request
    agent,    \* user_agent, read and not used again
    ret,      \* what the handler returns: "OK", "DECLINED", "1"
    status,   \* r->status
    record,   \* record_id of the row that matched, 0 if none did
    cause,    \* history: which return statement produced ret
    listed    \* history: Listed(addr) when the request arrived

lookupVars == <<pc, addr, agent, ret, status, record, cause, listed>>

HTTP_OK == 200

Points == {"idle", "config", "connect", "convert", "prepare", "step",
           "finalize", "close", "done"}

Causes == {"none", "unreadable", "unopened", "not_v4", "error", "busy",
           "no_match", "allow", "block"}

\* Slip: the lower bound of the range is exclusive.
MatchesAbove(r, a) ==
    /\ r.start = Empty \/ (r.start \in Addr /\ r.start >= a)
    /\ r.end \in Addr /\ r.end < a

\* SELECT ... WHERE start>=addr AND end<=addr.  A NULL compares with nothing,
\* and SQLite orders every text, the empty one included, above every number.
Matches(r, a) ==
    /\ r.start = Empty \/ (r.start \in Addr /\ r.start >= a)
    /\ r.end \in Addr /\ r.end <= a

\* Table t has an indexed row that names a, alone, to be blocked.
Lists(t, a) ==
    \E i \in DOMAIN t : /\ t[i].st = a /\ t[i].et = a
                        /\ Indexed(t[i]) /\ t[i].code # HTTP_OK

Listed(a) == HasIpTable /\ Lists(Committed, a)

LookupInit ==
    /\ pc = [w \in Workers |-> "idle"]
    /\ addr = [w \in Workers |-> NotV4]
    /\ agent = [w \in Workers |-> NIL]
    /\ ret = [w \in Workers |-> "none"]
    /\ status = [w \in Workers |-> HTTP_OK]
    /\ record = [w \in Workers |-> 0]
    /\ cause = [w \in Workers |-> "none"]
    /\ listed = [w \in Workers |-> FALSE]

Goto(w, from, to) ==
    /\ pc[w] = from
    /\ pc' = [pc EXCEPT ![w] = to]

\* return value: the destructors still to run are those from "to" on
Return(w, from, to, value, why) ==
    /\ Goto(w, from, to)
    /\ ret' = [ret EXCEPT ![w] = value]
    /\ cause' = [cause EXCEPT ![w] = why]

KeepAnswer == UNCHANGED <<ret, status, record, cause>>
KeepRequest == UNCHANGED <<addr, agent, listed>>

Arrive(w, a, u) ==
    /\ Goto(w, "idle", "config")
    /\ addr' = [addr EXCEPT ![w] = a]
    /\ agent' = [agent EXCEPT ![w] = u]
    /\ listed' = [listed EXCEPT ![w] = Listed(a)]
    /\ KeepAnswer
    /\ UNCHANGED <<fileVars, connVars>>

\* gate_request_init_configuration: access(GateDatabase, R_OK)
InitConfiguration(w) ==
    /\ \/ /\ schema # "absent"
          /\ Goto(w, "config", "connect")
          /\ UNCHANGED <<ret, cause>>
       \/ /\ schema = "absent"
          /\ Return(w, "config", "done", "DECLINED", "unreadable")
    /\ KeepRequest
    /\ UNCHANGED <<status, record, fileVars, connVars>>

\* Handler::connect
Connect(w) ==
    /\ Goto(w, "connect", "convert")
    /\ Open(w)
    /\ KeepAnswer /\ KeepRequest

ConnectFails(w) ==
    /\ Return(w, "connect", "done", "1", "unopened")
    /\ KeepRequest
    /\ UNCHANGED <<status, record, fileVars, connVars>>

\* inet_pton(AF_INET, remote_ip)
ConvertAddress(w) ==
    /\ \/ /\ addr[w] \in Addr
          /\ Goto(w, "convert", "prepare")
          /\ UNCHANGED <<ret, cause>>
       \/ /\ addr[w] = NotV4
          /\ Return(w, "convert", "close", "DECLINED", "not_v4")
    /\ KeepRequest
    /\ UNCHANGED <<status, record, fileVars, connVars>>

PrepareQuery(w) ==
    /\ CanPrepare(w)
    /\ Goto(w, "prepare", "step")
    /\ Prepare(w)
    /\ KeepAnswer /\ KeepRequest

\* Query::prepare throws; the catch block prints the error and returns OK.
PrepareThrows(w) ==
    /\ ~CanPrepare(w)
    /\ Return(w, "prepare", "close", "OK", "error")
    /\ KeepRequest
    /\ UNCHANGED <<status, record, fileVars, connVars>>

\* Slip: no req.set_status().
StepRowForgets(w) ==
    /\ pc[w] = "step"
    /\ CanRead(w)
    /\ \E i \in DOMAIN rows :
         /\ Matches(rows[i], addr[w])
         /\ record' = [record EXCEPT ![w] = i]
         /\ IF rows[i].code = HTTP_OK
              THEN Return(w, "step", "finalize", "DECLINED", "allow")
              ELSE Return(w, "step", "finalize", "OK", "block")
    /\ StepToRow(w)
    /\ KeepRequest
    /\ UNCHANGED status

\* Slip: a row is a block whatever its code, 200 included.
StepRowStops(w) ==
    /\ pc[w] = "step"
    /\ CanRead(w)
    /\ \E i \in DOMAIN rows :
         /\ Matches(rows[i], addr[w])
         /\ record' = [record EXCEPT ![w] = i]
         /\ status' = [status EXCEPT ![w] = rows[i].code]
         /\ Return(w, "step", "finalize", "OK", "block")
    /\ StepToRow(w)
    /\ KeepRequest

\* Slip: the return from inside the loop skips query.finalize().
StepRowLeaks(w) ==
    /\ pc[w] = "step"
    /\ CanRead(w)
    /\ \E i \in DOMAIN rows :
         /\ Matches(rows[i], addr[w])
         /\ record' = [record EXCEPT ![w] = i]
         /\ status' = [status EXCEPT ![w] = rows[i].code]
         /\ IF rows[i].code = HTTP_OK
              THEN Return(w, "step", "close", "DECLINED", "allow")
              ELSE Return(w, "step", "close", "OK", "block")
    /\ StepToRow(w)
    /\ KeepRequest

\* The first turn of the while loop, which always returns.  The query has no
\* ORDER BY: LIMIT 1 may yield any of the rows that match.
StepRow(w) ==
    /\ pc[w] = "step"
    /\ CanRead(w)
    /\ \E i \in DOMAIN rows :
         /\ Matches(rows[i], addr[w])
         /\ record' = [record EXCEPT ![w] = i]
         /\ status' = [status EXCEPT ![w] = rows[i].code]
         /\ IF rows[i].code = HTTP_OK
              THEN Return(w, "step", "finalize", "DECLINED", "allow")
              ELSE Return(w, "step", "finalize", "OK", "block")
    /\ StepToRow(w)
    /\ KeepRequest

StepDone(w) ==
    /\ Return(w, "step", "finalize", "DECLINED", "no_match")
    /\ CanRead(w)
    /\ \A i \in DOMAIN rows : ~Matches(rows[i], addr[w])
    /\ StepToEnd(w)
    /\ KeepRequest
    /\ UNCHANGED <<status, record>>

\* Slip: the loop steps again until the lock is gone.
StepRetries(w) ==
    /\ pc[w] = "step"
    /\ ~CanRead(w)
    /\ KeepRequest /\ KeepAnswer
    /\ UNCHANGED <<pc, fileVars, connVars>>

\* SQLITE_BUSY is not SQLITE_ROW: the loop ends as if no row had matched.
StepBusy(w) ==
    /\ ~CanRead(w)
    /\ Return(w, "step", "finalize", "DECLINED", "busy")
    /\ KeepRequest
    /\ UNCHANGED <<status, record, fileVars, connVars>>

\* query.finalize() or ~Query
FinalizeQuery(w) ==
    /\ Goto(w, "finalize", "close")
    /\ Finalize(w)
    /\ KeepAnswer /\ KeepRequest

\* ~Handler deletes the Database, which closes the connection.
CloseHandler(w) ==
    /\ Goto(w, "close", "done")
    /\ Close(w)
    /\ KeepAnswer /\ KeepRequest

\* Apache sends the response; the child takes its next request.
Respond(w) ==
    /\ Goto(w, "done", "idle")
    /\ addr' = [addr EXCEPT ![w] = NotV4]
    /\ agent' = [agent EXCEPT ![w] = NIL]
    /\ ret' = [ret EXCEPT ![w] = "none"]
    /\ status' = [status EXCEPT ![w] = HTTP_OK]
    /\ record' = [record EXCEPT ![w] = 0]
    /\ cause' = [cause EXCEPT ![w] = "none"]
    /\ listed' = [listed EXCEPT ![w] = FALSE]
    /\ UNCHANGED <<fileVars, connVars>>

HandlerStep(w) ==
    \/ InitConfiguration(w)
    \/ Connect(w) \/ ConnectFails(w)
    \/ ConvertAddress(w)
    \/ PrepareQuery(w) \/ PrepareThrows(w)
    \/ StepRow(w) \/ StepDone(w) \/ StepBusy(w)
    \/ FinalizeQuery(w) \/ CloseHandler(w)

LookupNext(w) ==
    \/ \E a \in Addr \cup {NotV4}, u \in Agents \cup {NIL} : Arrive(w, a, u)
    \/ HandlerStep(w)
    \/ Respond(w)
=============================================================================
