---------------------------- MODULE RequestBody -----------------------------
(***************************************************************************)
(* The body of one request as class Request reads it (request.cpp): the    *)
(* calls content, read_line, read and form_data in any order.              *)
(*                                                                         *)
(* A request belongs to one thread, so a call is one step, however many    *)
(* blocks it pulls.  Apache's block reader is external: it hands out the   *)
(* body in order, in pieces of any size, and then zero for ever; it may    *)
(* fail at any byte, and then keeps failing.                               *)
(***************************************************************************)
EXTENDS UrlCodec

CONSTANTS
    Forms,     \* forms a client may send: sequences of <<name, value>>
    Raw,       \* bodies that are not the encoding of a form
    MaxRead,   \* bound: the length asked for in a call of read
    MaxCalls   \* bound: calls made on the request

ASSUME BodyAssumption ==
    /\ \A f \in Forms : f \in Seq(Seq(0..127) \X Seq(0..127))
    /\ Raw \subseteq Seq(Byte)
    /\ MaxRead \in Nat /\ MaxCalls \in Nat

VARIABLES
    sent,       \* the form the client encoded, or <<>> for a raw body
    body,       \* the bytes of the body
    ctype,      \* Content-Type: "none", "form" or "other"
    pos,        \* bytes Apache has handed out
    failed,     \* Apache has reported an error
    has_read_content,
    content_,   \* the member _content
    form_data_, \* the member _form_data: null, or name |-> values
    lines,      \* history: what read_line has returned
    others,     \* history: somebody else took bytes of the body
    calls       \* calls made

vars == <<sent, body, ctype, pos, failed, has_read_content, content_,
          form_data_, lines, others, calls>>

NoTable == [null |-> TRUE, table |-> <<>>]

Table(t) == [null |-> FALSE, table |-> t]

\* A client writes name=value&name=value with url_encode.
EncodeForm(f) ==
    Joined([i \in 1..Len(f) |->
        (IF i = 1 THEN <<>> ELSE <<AMP>>) \o url_encode(f[i][1]) \o <<EQ>> \o url_encode(f[i][2])])

Init ==
    /\ \/ sent \in Forms /\ body = EncodeForm(sent) /\ ctype = "form"
       \/ sent = <<>> /\ body \in Raw /\ ctype \in {"none", "form", "other"}
    /\ pos = 0 /\ failed = FALSE /\ has_read_content = FALSE
    /\ content_ = <<>> /\ form_data_ = NoTable
    /\ lines = <<>> /\ others = FALSE /\ calls = 0

-----------------------------------------------------------------------------
(* Reading. *)

Calls == calls < MaxCalls /\ calls' = calls + 1 /\ UNCHANGED <<sent, body, ctype>>

Left == SubSeq(body, pos + 1, Len(body))

\* k bytes have been read when Apache has no more, or reports an error.
EndsAfter(k) ==
    \/ k = Len(body) - pos /\ ~failed /\ failed' = failed
    \/ k < Len(body) - pos /\ ~failed /\ failed' = TRUE
    \/ k = 0 /\ failed /\ failed' = failed

\* Slip: every call leaves a terminator behind.
AppendedWithNul(k) == content_ \o SubSeq(Left, 1, k) \o <<NUL>>

\* The loop of content with fn NULL.  A call after the first falls through
\* its test of has_read_content and reads again.
Appended(k) == content_ \o SubSeq(Left, 1, k)

\* content: a body above max_content_length is read all the same.
content ==
    /\ Calls
    /\ \E k \in 0..(Len(body) - pos) :
          /\ EndsAfter(k)
          /\ content_' = Appended(k) /\ pos' = pos + k
    /\ has_read_content' = TRUE
    /\ UNCHANGED <<form_data_, lines, others>>

\* content(fn): the caller takes the blocks.
contentFed ==
    /\ Calls
    /\ \E k \in 0..(Len(body) - pos) : EndsAfter(k) /\ pos' = pos + k
    /\ has_read_content' = TRUE /\ others' = TRUE
    /\ UNCHANGED <<content_, form_data_, lines>>

\* read_line's string after k bytes: a NUL adds nothing to it.
LineAfter[k \in 0..Len(Left)] ==
    IF k = 0 THEN <<>>
    ELSE IF Left[k] = NUL THEN LineAfter[k - 1] ELSE Append(LineAfter[k - 1], Left[k])

\* Slip: a lone LF ends the line.
StopsAtLF(k) == k > 0 /\ Left[k] = LF

\* The loop stops at CR LF.  With a lone LF it looks at the byte before the
\* string, which may be anything.
StopsAt(k) ==
    LET l == LineAfter[k]
    IN  k > 0 /\ Left[k] = LF /\ Len(l) > 1 /\ l[Len(l) - 1] = CR

MayStopAt(k) == k > 0 /\ Left[k] = LF /\ Len(LineAfter[k]) = 1

read_line ==
    /\ Calls /\ ~has_read_content
    /\ \E k \in 0..(Len(body) - pos) :
          /\ \A j \in 1..(k - 1) : ~StopsAt(j)
          /\ \/ /\ StopsAt(k) \/ MayStopAt(k)
                /\ ~failed /\ UNCHANGED <<failed, has_read_content>>
             \/ ~StopsAt(k) /\ EndsAfter(k) /\ has_read_content' = TRUE
          /\ pos' = pos + k
          /\ lines' = Append(lines, LineAfter[k])
    /\ others' = TRUE
    /\ UNCHANGED <<content_, form_data_>>

\* read: one block of at most the length asked for.
read ==
    /\ Calls /\ ~has_read_content
    /\ \/ \E k \in 1..MaxRead :
             /\ ~failed /\ k <= Len(body) - pos
             /\ pos' = pos + k
             /\ UNCHANGED <<failed, has_read_content>>
       \/ EndsAfter(0) /\ pos' = pos /\ has_read_content' = TRUE
    /\ others' = TRUE
    /\ UNCHANGED <<content_, form_data_, lines>>

-----------------------------------------------------------------------------
(* Forms. *)

\* apr_table_merge, external: names differ in more than case, values add up.
Lower(s) == [i \in 1..Len(s) |-> IF s[i] \in 65..90 THEN s[i] + 32 ELSE s[i]]

merge(t, name, value) ==
    LET n == Lower(name)
    IN  IF n \in DOMAIN t THEN [t EXCEPT ![n] = Append(@, value)]
        ELSE [m \in DOMAIN t \cup {n} |-> IF m = n THEN <<value>> ELSE t[m]]

\* A pair without "=", or with nothing behind it, is skipped.
parse_pair(t, p) ==
    IF EQ \notin Range(p) THEN t
    ELSE LET found == CHOOSE i \in 1..Len(p) : p[i] = EQ /\ EQ \notin Range(SubSeq(p, 1, i - 1))
         IN  IF found = Len(p) THEN t
             ELSE merge(t, url_decode(SubSeq(p, 1, found - 1)),
                           url_decode(SubSeq(p, found + 1, Len(p))))

parse_pairs(pairs) ==
    LET upto[i \in 0..Len(pairs)] ==
            IF i = 0 THEN <<>> ELSE parse_pair(upto[i - 1], pairs[i])
    IN  upto[Len(pairs)]

\* Slip: the text is decoded before it is split.
parse_query_stringDecoded(in) == parse_pairs(split(url_decode(in), AMP))

parse_query_string(in) == parse_pairs(split(in, AMP))

\* form_data for the content type of a form: content, a NUL behind it, parse.
form_data ==
    /\ Calls /\ form_data_.null /\ ctype = "form"
    /\ \E k \in 0..(Len(body) - pos) :
          /\ EndsAfter(k)
          /\ content_' = Append(Appended(k), NUL) /\ pos' = pos + k
          /\ form_data_' = Table(parse_query_string(CStr(content_')))
    /\ has_read_content' = TRUE
    /\ UNCHANGED <<lines, others>>

\* Another type: a table that holds the type alone, and an unread body.
form_dataOther ==
    /\ Calls /\ form_data_.null /\ ctype = "other"
    /\ form_data_' = Table([n \in {<<"content-type">>} |-> << <<"other">> >>])
    /\ UNCHANGED <<pos, failed, has_read_content, content_, lines, others>>

Next == content \/ contentFed \/ read_line \/ read \/ form_data \/ form_dataOther

Spec == Init /\ [][Next]_vars

-----------------------------------------------------------------------------
(* Properties. *)

\* The values a form has under a name, in order; empty ones do not arrive.
ValuesOf(f, n) ==
    LET upto[i \in 0..Len(f)] ==
            IF i = 0 THEN <<>>
            ELSE IF Lower(f[i][1]) = n /\ f[i][2] # <<>> THEN Append(upto[i - 1], f[i][2])
            ELSE upto[i - 1]
    IN  upto[Len(f)]

\* form_data gives every name of the form that was sent with exactly its
\* values, through url_encode and back and whatever content() calls came
\* before, unless Apache failed or another reader took a part of the body.
\* (A byte below 16 does not come back: url_encode pads its escape with a
\* space.)
FormIsWhatWasSent ==
    ctype = "form" /\ sent # <<>> /\ ~form_data_.null /\ ~failed /\ ~others =>
        /\ DOMAIN form_data_.table = {Lower(p[1]) : p \in {q \in Range(sent) : q[2] # <<>>}}
        /\ \A n \in DOMAIN form_data_.table : form_data_.table[n] = ValuesOf(sent, n)

\* However often content and form_data are called, _content is the body once,
\* followed by nothing but the NUL of form_data.
ContentIsTheBody ==
    has_read_content /\ ~failed /\ ~others =>
        \E n \in 0..1 : content_ = body \o [i \in 1..n |-> NUL]

\* read_line returns one line: CR LF is at its end and nowhere else, unless the
\* body ended first.  The line of a lone LF is the exception: what stands
\* before the string decides.
LinesEndOnce ==
    \A i \in 1..Len(lines) :
        LET l == lines[i] IN
        /\ \A j \in 1..(Len(l) - 2) : ~(l[j] = CR /\ l[j + 1] = LF)
        /\ \/ Len(l) > 1 /\ l[Len(l) - 1] = CR /\ l[Len(l)] = LF
           \/ l = <<LF>>
           \/ i = Len(lines) /\ has_read_content

\* url_decode never looks behind the NUL of the name or value it decodes, even
\* when an escape is cut off by the end.
DecodeStaysInside ==
    \A p \in Range(split(CStr(content_), AMP)) : Decoded(p).far <= Len(p) + 1

=============================================================================
