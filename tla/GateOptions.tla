---------------------------- MODULE GateOptions ----------------------------
(***************************************************************************)
(* The command line of gatedb: process_cmdline (gatedb.cpp) over the       *)
(* repository's own getopt_long (getopt_long.c), one action per argument   *)
(* or option letter it reads.  args is argv without the program name, so   *)
(* that the C index optind is the TLA+ one; args[Len(args) + 1] would be   *)
(* argv's final NULL.                                                      *)
(*                                                                         *)
(* An argument is known by what the parser tells apart: a word (a lone "-" *)
(* is one), a cluster of option letters, a long option by the set of names *)
(* its text abbreviates and whether it has a value after "=", or "--".     *)
(***************************************************************************)
EXTENDS Integers, Sequences

CONSTANT Lines    \* the command lines, as sequences of arguments

ASSUME LinesAssumption ==
    \A l \in Lines :
        /\ Len(l) \in Nat /\ DOMAIN l = 1 .. Len(l)
        /\ \A i \in DOMAIN l :
              \/ l[i].kind \in {"word", "end"}
              \/ l[i].kind = "short" /\ l[i].letters \in Seq(STRING) \ {<<>>}
              \/ l[i].kind = "long" /\ l[i].eq \in BOOLEAN

NULL == [kind |-> "null"]

VARIABLES
    line,          \* history: the command line as it was given
    posix,         \* POSIXLY_CORRECT is set
    args,          \* argv, which the parser permutes
    optind,
    place,         \* letters of the current cluster still to read
    nonopt_start, nonopt_end,
    verbosity,     \* the argument the last -v gave to atoi
    outcome,       \* the command, "help", "end" of the options, "none" so far
    path           \* the argument of the command

vars == <<line, posix, args, optind, place, nonopt_start, nonopt_end, verbosity,
          outcome, path>>

\* "cilv:h" and opt_array
Options == {"c", "i", "l", "v", "h"}
TakesArgument(o) == o = "v"

argc == Len(args) + 1

Init ==
    /\ line \in Lines
    /\ posix \in BOOLEAN
    /\ args = line
    /\ optind = 1
    /\ place = <<>>
    /\ nonopt_start = -1 /\ nonopt_end = -1
    /\ verbosity = [kind |-> "zero"]
    /\ outcome = "none" /\ path = NULL

gcd(a, b) ==
    LET g[d \in 1 .. b] == [n \in Nat |-> IF n % d = 0 THEN d ELSE g[n % d][d]]
    IN  g[b][a]

\* Slip: the blocks are rotated along one cycle.
OneCycle(nnonopts, nopts) == 1

Cycles(nnonopts, nopts) == gcd(nnonopts, nopts)

\* Exchanges the blocks start..mid-1 and mid..end-1 of nargv in place, by swaps
\* along ncycle cycles: the k-th swap exchanges cstart and pos[k].  After k of
\* them position p holds what was at source[k][p].
permute_args(start, mid, end, nargv) ==
    LET nnonopts == mid - start
        nopts == end - mid
        ncycle == Cycles(nnonopts, nopts)
        cyclelen == (end - start) \div ncycle
        cstart(k) == mid + (k - 1) \div cyclelen
        move == [q \in start .. end - 1 |-> IF q >= mid THEN q - nnonopts ELSE q + nopts]
        pos[k \in 1 .. ncycle * cyclelen] ==
            move[IF (k - 1) % cyclelen = 0 THEN cstart(k) ELSE pos[k - 1]]
        source[k \in 0 .. ncycle * cyclelen] ==
            [p \in DOMAIN nargv |->
                IF k = 0 THEN p
                ELSE source[k - 1][IF p = pos[k] THEN cstart(k)
                                   ELSE IF p = cstart(k) THEN pos[k] ELSE p]]
    IN  [p \in DOMAIN nargv |-> nargv[source[ncycle * cyclelen][p]]]

\* Slip: the path is looked for where the option was.
PathAtOption(next) == IF optind < argc THEN args[optind] ELSE NULL

\* argv[optind]
PathAt(next) == IF next < argc THEN args[next] ELSE NULL

\* process_cmdline: what the option that getopt_long returned makes it do.  A
\* command takes argv[optind] as it is then; "?" only goes round the loop.
Dispatch(ch, optarg) ==
    /\ verbosity' = IF ch = "v" THEN optarg ELSE verbosity
    /\ outcome' = CASE ch \in {"c", "i", "l"} -> ch
                    [] ch = "h" -> "help"
                    [] OTHER -> "none"
    /\ path' = IF outcome' \in {"c", "i", "l"} THEN PathAt(optind') ELSE path

KeepLine == UNCHANGED <<line, posix>>

\* Slip: the -1 that getopt_long returns does not fit into ch.
GoesOn(result) == "none"

\* process_cmdline leaves its loop when ch, a char, is -1.
LeavesLoop(result) == result

\* getopt_long returns -1: process_cmdline returns 0.  The words skipped so far,
\* if an option followed them, go behind it.
Finish(last, nonopts_end) ==
    /\ IF nonopts_end # -1
         THEN /\ args' = permute_args(nonopt_start, nonopts_end, last, args)
              /\ optind' = last - (nonopts_end - nonopt_start)
         ELSE /\ args' = args
              /\ optind' = IF nonopt_start # -1 THEN nonopt_start ELSE last
    /\ nonopt_start' = -1 /\ nonopt_end' = -1
    /\ place' = <<>>
    /\ outcome' = LeavesLoop("end")
    /\ UNCHANGED <<verbosity, path>>

AtArgument == outcome = "none" /\ place = <<>> /\ optind < argc

EndOfArguments ==
    /\ outcome = "none" /\ place = <<>> /\ optind >= argc
    /\ Finish(optind, nonopt_end)
    /\ KeepLine

\* POSIXLY_CORRECT: parsing stops at the first word.
StopAtWord ==
    /\ AtArgument /\ posix /\ args[optind].kind = "word"
    /\ outcome' = LeavesLoop("end")
    /\ UNCHANGED <<line, posix, args, optind, place, nonopt_start, nonopt_end, verbosity,
                   path>>

SkipWord ==
    /\ AtArgument /\ ~posix /\ args[optind].kind = "word"
    /\ IF nonopt_start # -1 /\ nonopt_end # -1
         THEN /\ args' = permute_args(nonopt_start, nonopt_end, optind, args)
              /\ nonopt_start' = optind - (nonopt_end - nonopt_start)
              /\ nonopt_end' = -1
         ELSE /\ nonopt_start' = IF nonopt_start = -1 THEN optind ELSE nonopt_start
              /\ UNCHANGED <<args, nonopt_end>>
    /\ optind' = optind + 1
    /\ UNCHANGED <<place, verbosity, outcome, path>>
    /\ KeepLine

\* At the first option after skipped words, their block ends.
BlockEnd == IF nonopt_start # -1 /\ nonopt_end = -1 THEN optind ELSE nonopt_end

DashDash ==
    /\ AtArgument /\ args[optind].kind = "end"
    /\ Finish(optind + 1, BlockEnd)
    /\ KeepLine

\* getopt_long returns ch with argument optarg, next to be read at optind = next
\* or, if letters are left in the cluster, at the first of these.
Found(ch, optarg, next, letters) ==
    /\ optind' = next
    /\ place' = letters
    /\ nonopt_end' = BlockEnd
    /\ Dispatch(ch, optarg)
    /\ UNCHANGED <<line, posix, args, nonopt_start>>

\* Slip: a missing argument is not told from a given one.
TakeNextUnchecked(o, next) ==
    Found(o, IF next < argc THEN args[next] ELSE NULL, IF next < argc THEN next + 1 ELSE next,
          <<>>)

\* Option o takes the argument at next for its own, or is refused without one.
TakeNext(o, next) ==
    \/ next < argc /\ Found(o, args[next], next + 1, <<>>)
    \/ next >= argc /\ Found("?", NULL, next, <<>>)

\* A text that abbreviates no name, or several, is refused, and so is a value
\* for an option that takes none.
parse_long_options ==
    /\ AtArgument /\ args[optind].kind = "long"
    /\ LET a == args[optind]
           next == optind + 1
       IN  \/ /\ ~\E o \in Options : a.names = {o}
              /\ Found("?", NULL, next, <<>>)
           \/ \E o \in Options :
                /\ a.names = {o} /\ ~TakesArgument(o)
                /\ Found(IF a.eq THEN "?" ELSE o, NULL, next, <<>>)
           \/ \E o \in Options :
                /\ a.names = {o} /\ TakesArgument(o)
                /\ IF a.eq THEN Found(o, [kind |-> "value"], next, <<>>) ELSE TakeNext(o, next)

\* Slip: optind moves on with every letter.
NextWord(rest) == optind + 1

\* optind moves on with the last letter of a cluster.
AfterLetter(rest) == IF rest = <<>> THEN optind + 1 ELSE optind

\* One letter of a cluster; what follows -v in its cluster is its argument.
ShortOption ==
    /\ outcome = "none"
    /\ place # <<>> \/ (AtArgument /\ args[optind].kind = "short")
    /\ LET letters == IF place # <<>> THEN place ELSE args[optind].letters
           ch == Head(letters)
           rest == Tail(letters)
       IN  \/ ch \notin Options /\ Found("?", NULL, AfterLetter(rest), rest)
           \/ ch \in Options /\ ~TakesArgument(ch) /\ Found(ch, NULL, AfterLetter(rest), rest)
           \/ /\ ch \in Options /\ TakesArgument(ch)
              /\ IF rest # <<>>
                   THEN Found(ch, [kind |-> "rest", letters |-> rest], optind + 1, <<>>)
                   ELSE TakeNext(ch, optind + 1)

Next ==
    \/ EndOfArguments \/ StopAtWord \/ SkipWord \/ DashDash
    \/ parse_long_options \/ ShortOption

\* A sequential program: it runs until it ends.
Spec == Init /\ [][Next]_vars /\ WF_vars(Next)

-----------------------------------------------------------------------------

\* The parser stays within argv and its final NULL, and the two blocks that
\* permute_args exchanges are never empty: gcd divides by the second's length.
IndicesOK ==
    /\ optind \in 1 .. argc
    /\ nonopt_start \in {-1} \cup 1 .. optind - 1
    /\ nonopt_end # -1 => /\ nonopt_start # -1 /\ nonopt_start < nonopt_end
                          /\ nonopt_end < optind \/ (nonopt_end = optind /\ place # <<>>)

\* Whether an option takes the argument after it for its own.
TakesNext(a) ==
    \/ a.kind = "long" /\ a.names = {"v"} /\ ~a.eq
    \/ a.kind = "short" /\ \E i \in DOMAIN a.letters :
          i = Len(a.letters) /\ a.letters[i] = "v" /\ \A j \in 1 .. i - 1 : a.letters[j] # "v"

\* Reference: what every argument of line a is, read from the left.  An argument
\* is "ahead" if it belongs to the options: an option, the argument of the option
\* before it, or "--".
Roles(a, stopsAtWord) ==
    LET role[i \in 0 .. Len(a)] ==
          IF i = 0 THEN "none"
          ELSE IF role[i - 1] \in {"end", "rest"} THEN "rest"
          ELSE IF role[i - 1] = "option" /\ TakesNext(a[i - 1]) THEN "argument"
          ELSE IF a[i].kind = "end" THEN "end"
          ELSE IF a[i].kind # "word" THEN "option"
          ELSE IF stopsAtWord THEN "rest" ELSE "word"
    IN  role

IsAhead(role) == role \in {"option", "argument", "end"}

\* How many of the first i arguments are ahead.
Ahead(role, n) ==
    LET ahead[i \in 0 .. n] ==
          IF i = 0 THEN 0 ELSE IF IsAhead(role[i]) THEN ahead[i - 1] + 1 ELSE ahead[i - 1]
    IN  ahead

\* Where argument i of n belongs: options first, each group in the order given.
SortedPlace(role, ahead, n, i) ==
    IF IsAhead(role[i]) THEN ahead[i] ELSE ahead[n] + (i - ahead[i])

\* "Permute non-options to the end of argv": when the parser is through, the
\* words stand behind the options, optind is at the first of them, and each
\* group keeps its order - however many permutations, of whatever block
\* lengths, it took.
WordsLast ==
    outcome = "end" =>
        LET n == Len(line)
            role == Roles(line, posix)
            ahead == Ahead(role, n)
        IN  /\ Len(args) = n
            /\ optind = ahead[n] + 1
            /\ \A i \in 1 .. n : args[SortedPlace(role, ahead, n, i)] = line[i]

\* The path that create, index or lint takes is the argument that stood at optind on
\* the line as it was given (the one after the option, or the cluster itself if
\* letters are left in it): what was permuted before lies in front of optind.
PathFollowsCommand ==
    outcome \in {"c", "i", "l"} => path = IF optind <= Len(line) THEN line[optind] ELSE NULL

\* process_cmdline hands optarg to atoi without a test: it is never NULL.
ArgumentIsThere == verbosity # NULL

\* Every command line is read to an end.
EveryLineEnds == <>(outcome # "none")
=============================================================================
