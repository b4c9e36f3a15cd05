----------------------------- MODULE Blocklist ------------------------------
(***************************************************************************)
(* What mod_gate promises of a database that tools change under it: each   *)
(* request is decided in one moment, by the rows that are committed in     *)
(* that moment, or not at all because the database could not be read; and  *)
(* what is committed only grows.                                           *)
(***************************************************************************)
EXTENDS Naturals, Sequences

CONSTANTS
    Workers,         \* children
    Peer,            \* peer addresses
    Nobody,          \* no request
    Matches(_, _),   \* Matches(r, a): row r is an answer for address a
    Extends(_, _)    \* Extends(t, u): table u keeps the rows of t

VARIABLES
    table,     \* the committed rows
    request,   \* request[w]: the peer w serves, or Nobody
    answer     \* answer[w]: what the handler returns, the status and why

blocklistVars == <<table, request, answer>>

Answer(r, s, c) == [ret |-> r, status |-> s, cause |-> c]
Undecided == Answer("none", 200, "none")

BlocklistInit ==
    /\ request = [w \in Workers |-> Nobody]
    /\ answer = [w \in Workers |-> Undecided]

Ask(w) ==
    /\ request[w] = Nobody
    /\ \E a \in Peer : request' = [request EXCEPT ![w] = a]
    /\ UNCHANGED <<table, answer>>

\* What the committed rows say, now.
Says(a) ==
    { Answer(IF table[i].code = 200 THEN "DECLINED" ELSE "OK", table[i].code,
             IF table[i].code = 200 THEN "allow" ELSE "block")
        : i \in {n \in DOMAIN table : Matches(table[n], a)} }

Unread == {Answer("DECLINED", 200, c) : c \in {"unreadable", "not_v4", "busy"}}
          \cup {Answer("1", 200, "unopened"), Answer("OK", 200, "error")}

Decide(w) ==
    /\ request[w] # Nobody /\ answer[w] = Undecided
    /\ \E x \in Unread \cup Says(request[w]) \cup
               (IF Says(request[w]) = {} THEN {Answer("DECLINED", 200, "no_match")} ELSE {}) :
          answer' = [answer EXCEPT ![w] = x]
    /\ UNCHANGED <<table, request>>

Finish(w) ==
    /\ answer[w] # Undecided
    /\ request' = [request EXCEPT ![w] = Nobody]
    /\ answer' = [answer EXCEPT ![w] = Undecided]
    /\ UNCHANGED table

Change == Extends(table, table') /\ UNCHANGED <<request, answer>>

BlocklistNext == Change \/ \E w \in Workers : Ask(w) \/ Decide(w) \/ Finish(w)

BlocklistSpec == BlocklistInit /\ [][BlocklistNext]_blocklistVars

=============================================================================
