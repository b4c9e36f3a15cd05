# mod_gate: specification and proofs

TLA+ modules for mod_gate, an Apache module that answers requests from listed
addresses with an HTTP code out of a SQLite database, for the two programs that
maintain the database, and for the parts of the library around it that keep state:
request bodies, the Ruby binding of SQLite, and the collector and the hash table of
the mruby that comes with it. TLC checks small instances; TLAPS proves nearly all
safety properties for any number of processes, rows, directives, arguments, bytes, objects
and keys.

## The system

    httpd.conf --directives--> mod_gate.c --configuration--> module.cpp
                                                                |  SELECT ... LIMIT 1
    access_log --> tools/gatelog --INSERT--> [ gate.db ] <------+
                      gatedb --CREATE, UPDATE--^

* **The request handler** (`module.cpp`). Each Apache child works out from the
  configuration which database a request is to be looked up in, opens it,
  converts the peer's address to a number, and asks for one row of the `ip`
  table. A row with another code than 200 ends the request with that code.
* **The configuration** (`mod_gate.c`, `common.c`, first part of `module.cpp`).
  Directives fill per-server and per-section tables. For a request they are
  merged into its notes.
* **gatedb** (`gatedb.cpp`) creates the file, turns address texts into numbers
  (`--index`), and reports rows that have none (`--lint`). It reads its command
  line with the repository's own `getopt_long.c`.
* **gatelog** (`tools/gatelog`) reads an access log and inserts an unindexed row
  for every client whose referrer or user agent is on a list.
* **The SQLite wrapper** (`sqlite.cpp`) is what handler and gatedb call.

These processes share nothing but the file. What can go wrong lies in the orders
in which they meet SQLite's locks, in tools that die half way, in statements whose
result nobody looks at, and in tables merged and overwritten in an order that the
configuration files decide.

The library target also compiles a request wrapper (`request.cpp`), utilities
(`util.cpp`), and an embedded Ruby: mruby, a VM class, and a binding of SQLite with a
`Rowset` on top. The request handler uses a few accessors of the first and nothing of
the rest, so these are separate components here, each with its own run:

* **Request bodies.** One stream of bytes, four functions that read from it in whatever
  order the caller likes, two flags, and a parser for forms.
* **The Ruby binding.** Ruby objects own SQLite handles; the collector decides when and
  in which order their deallocators run.
* **mruby's collector** is incremental and generational; the program changes the heap
  between its steps. The binding's deallocators depend on it.
* **mruby's Hash** is an open-addressing table, rebuilt while it grows, that also
  remembers the order of its keys. `Rowset` keeps its column names in one.

## Modules

| Module | Models | Source |
|---|---|---|
| `SqliteFile` | the database file, locks, transactions, connections; SQLite is external | `sqlite.cpp`, and how the callers use it |
| `GateLookup` | `gate_request_handler`, one action per call that leaves the process | `module.cpp` |
| `GateDb` | `gatedb --create`, `--index`, `--lint` | `gatedb.cpp` |
| `GateLog` | `gatelog --process`; JW::DBI is external | `tools/gatelog` |
| `GateSystem` | the three together on one file; their properties; the inductive invariant | |
| `GateConfig` | the directives and what a request resolves to | `mod_gate.c`, `common.c`, `module.cpp` |
| `GateOptions` | gatedb's command line | `getopt_long.c`, `gatedb.cpp` |
| `Blocklist` | abstract: a request is decided in one moment by the committed rows; `GateSystem` implements it | |
| `RubySqlite` | DB and statement objects, their handles, their deallocators; SQLite and marking are external | `ruby_sqlite.cpp`, `ruby_sqlite_stmt.cpp` |
| `Rowset` | `Rowset#select` on the binding, and a script that uses both | `ruby/sqlite.rb` |
| `UrlCodec` | `split`, `hex2int`, `url_decode`, `url_encode` as operators on byte sequences | `util.cpp` |
| `RequestBody` | `content`, `read_line`, `read`, `form_data`, `parse_query_string` | `request.cpp` |
| `Collector` | abstract: a heap from which only unreachable objects disappear | |
| `MrubyGc` | the collector's colours, lists, phases, generations and write barriers | `mruby/src/gc.c` |
| `OrderedMap` | abstract: a map that remembers the order of its keys | |
| `MrubyHash` | the table and the operations of Hash | `mruby/src/hash.c`, `khash.h` |
| `GateSystemProofs`, `GateConfigProofs`, `GateOptionsProofs`, `RequestBodyProofs`, `RowsetProofs`, `MrubyGcProofs`, `MrubyHashProofs` | theorems about the module named | |
| `Recursion` | induction and recursive definitions, for the proofs | |
| `MCGateSystem`, `MCGateConfig`, `MCGateOptions`, `MCRuby`, `MCBody`, `MCGc`, `MCHash` | instances for TLC | |

`PROJECT.json` maps each definition to its lines.

### State and actions

*SqliteFile.* `rows` is the ip table as the next statement would read it and
`journal` what it was when the open transaction began, so that `Committed` is what
a crash of everybody would leave. A row has its two texts, its two numbers and its
code; the row id is the position, because no program deletes a row. `shared` and
`exclusive` are SQLite's locks. There is no busy handler in the code: a statement
that meets a lock fails at once. `schema` tells a missing file, an empty one (which
`sqlite3_open` leaves behind), one with the first table only, the schema gatedb
creates, and the one of the test site, which has the `note` column that gatelog
writes. An address is the number that `inet_pton` and `htonl` make of its text;
`BadText` stands for every text they refuse.

*GateLookup.* `pc[w]` is the place of child `w` in the handler. The destructors that
run on every return are the last two steps (`FinalizeQuery`, `CloseHandler`), so a
way out that forgets one shows. The query has no `ORDER BY`: with several matching
rows `StepRow` may yield any. `cause` and `listed` are history variables.

*GateDb.* One action per statement. `Kill` may end a process anywhere.
`Query::prepare` throws and nothing catches it (`DbPrepareThrows`). A text that
`inet_pton` refuses leaves `ipvalue` uninitialized: the number stored is any address
(`garbage`). A NULL text faults the process.

*GateLog.* One transaction for a whole log. Whether JW::DBI raises when a statement
fails cannot be seen from the repository, so both happen: the script goes on, or
`LogFails` ends it.

*GateConfig.* A directive is one action that edits `config[s]` (outside sections) or
`options[s][d]` (in section `d`). `gate_request_handler` computes notes and database.
Two things come from Apache: the module has no merge function for per-server
configuration, so a virtual host has its own as soon as one directive stands in it
and the main server's otherwise; and sections are merged from the outermost inwards.
A handler's settings are copied in hash order up to an unreadable database, so which
of them arrive is nondeterministic. `read` is the list of directives as written,
from which the properties work out what the files say without the tables.

*GateOptions.* One action per argument or option letter. An argument is known by
what the parser tells apart: a word, a cluster of letters, a long option by the set
of names its text abbreviates, `--`. `permute_args` does the swaps of the C loop.

*RubySqlite, Rowset.* An object is `none`, `live` or `freed`. `allocator` leaves the
members of the struct as malloc returned them, so the handle of a new object is NULL or
`Garbage` and `dont_delete` is either; handing `Garbage` to SQLite ends the model in
`fault`. `lost` is a history variable: open connections that no object can close any
more. The collector may free whatever the script cannot reach, one object at a time,
between any two calls and also between the steps of a select; `CloseVm` frees the rest
in any order. A select is a loop of two actions, the block of `each` and `step`.

*RequestBody.* Apache hands out the bytes of `body` in order and may report an error at
any point. `content` and `form_data` read all that is left, `read_line` byte by byte
until CR LF, `read` one block. When a line begins with LF, `read_line` looks at the byte
before its string: it may stop or go on (`MayStopAt`).

*MrubyGc.* `color` is three-coloured with two whites, and the gray lists are sets.
`RootScan`, `Mark`, `FinalScan`, `FinalAtomic`, `FinalEnd`, `SweepPage` and `SweepEnd` are
the parts of `incremental_gc`; `job` and `goal` say what the program waits for: nothing
(an incremental step), a minor collection, `clear_all_old`, a full collection. `stack`
is what the registers hold and `slots` every other root. When marking ends, `lost`
notes what is reachable and unmarked.

*MrubyHash.* A table is `n_buckets`, `size`, `n_occupied` and buckets that are empty,
deleted or hold a key, a value and the key's order number. Rebuilding (`Grow`, `Relocate`,
`Grown`) and dup take one step for each bucket, so the invariants speak of half-filled
tables too.

## Runs

| Run | Instance | States | Shows |
|---|---|---|---|
| `serving` | 1 child, 1 gatedb, 1 gatelog, 2 addresses, 2 rows, 5 tables | 555,000 | a listed address is missed only when SQLite is busy (`ListedIsBlocked`); answers rest on committed rows (`MatchIsCommitted`); nothing stays open (`NothingLeaks`); numbers never contradict texts (`NumbersAreFaithful`); no step or crash loses a committed row (`RowsStay`); the lookup implements `Blocklist` (`LookupIsAtomic`) |
| `tools` | 2 gatedb, 1 gatelog, 3 rows | 782,000 | `ReadersExcludeWriters`, `IndexIsComplete`, `CreateIsComplete`, `CountHoldsAtInsert` |
| `live` | 1 child, 1 gatedb, 1 gatelog | 53,000 | `EveryRequestAnswered`, `EveryCommandEnds` |
| `config` | 4 directives in 1 server, with 1 section or 2 nested ones; 3 with a virtual host | 400,000 | `ResolvesAsWritten`, `NotesNameDatabase`, `HandlersAreDeclared` |
| `options` | lines of up to 3 arguments of 14 kinds, up to 6 of 4 kinds | 72,500 | `WordsLast`, `IndicesOK`, `PathFollowsCommand`, `ArgumentIsThere`, `EveryLineEnds` |
| `ruby` | 1 DB object, 2 statements, 2 handles, 3 queries | 178,000 | an open connection is owned or known to be lost (`OpenIsOwnedOrLost`); nothing but a lost one is left at the end (`EndReleases`); a statement in use keeps its connection (`ConnectionOutlivesStatements`); what a select delivers (`SelectIsFaithful`) |
| `body` | forms and raw bodies of a few bytes, 3 calls | 214,000 | forms arrive as they were sent (`FormIsWhatWasSent`), bytes once and in order (`ContentIsTheBody`), lines end at CR LF (`LinesEndOnce`), decoding stays in the text (`DecodeStaysInside`) |
| `gc` | 3 objects on a page, 2 roots | 708,000 | `ReachableIsLive`, `StackIsSafe`, `MinorMissesNothing`, `CycleEndsClean`; implements `Collector` (`HeapSpec`) |
| `hash` | 4 colliding keys, 2 values, up to 16 buckets | 73,000 | `EveryKeyIsFound`, `EverySearchEnds`, `OrderIsDense`, `RebuildFits`, `DupIsFaithful`; implements `OrderedMap` (`MapSpec`) |
| `ranges`, `gcroots`, `cleanup` | small | | each violates one sentence of the README or of a comment; see "Where code and documents differ" |

`PROJECT.json` has a mutant for every property of the passing runs: a slip in one
definition, written just before it, that the property catches.

### Bounds and why they are enough

* *Processes.* Children do not write, and a child's steps read only the file and its
  own state; one child with one of each tool meets every lock a child can meet. Two
  gatedb processes are needed for the races on `--create` and for two index runs. The
  theorems cover every number.
* *Addresses and rows.* Two addresses tell "this row", "another row" and "inside a
  range" apart. `MixedTables` has an indexed and an unindexed row, an allowing row
  (200), a bad text, a half-indexed row and a NULL text. `MaxRows` stops gatelog from
  growing the table; two or three rows let an insert land behind an index cursor.
* *Directives.* Four are needed for a lookup that can go wrong: `GateDeclare`,
  `GateDatabase`, `Gate`, and one that overwrites or hides one of these.
* *Command lines.* A permutation of blocks of lengths (2,2), (2,4) or (3,3) takes several
  cycles; lines of up to three arguments only ever take one. Six arguments reach them.
* *Ruby objects.* One connection object with two handles reaches "opened over" and
  "closed and opened again"; two statements reach "one dropped, one in use". The three
  queries have different columns, no rows, and an integer beyond `int` (`Half` is the
  width, scaled down).
* *Bodies.* The forms have repeated names, names that differ in case, and bytes that need
  escapes; the raw bodies have broken escapes, CR, LF and NUL in every order. Three calls
  are two readers and one that comes too late.
* *Heap.* Three objects make the shapes that matter: a chain from a black object over a
  gray one to a white one. `MaxRefs` and `MaxRoots` keep the heap sparse.
  The theorems cover every heap, any number of pages, and no bound.
* *Hash.* The smallest table has 4 buckets (`KHASH_DEFAULT_SIZE` is 32 and the minimum
  8 in the code); three keys fill it to its bound, the fourth rebuilds it, and deletes
  rebuild it again. The hash values make keys collide at once and after one step of
  probing. The theorems cover every power of two from 4 to 2^30.
* *Symmetry* is used in safety runs only, over sets whose members the specification
  does not tell apart (handler names; gatedb and gatelog processes; statements; objects).
* *Deadlock* is checked for `GateSystem`, where requests may always arrive. The others may
  stop: at a refused directive, at the end of a command line, of the VM, of the calls
  (`MaxCalls`), when the collector has lost an object, and at `MaxBuckets`.

### Fairness

`LiveSpec` assumes weak fairness of a child that serves a request and of a gatedb
process: the operating system schedules them, and no step of theirs waits for another
process, because there is no busy handler. Nothing is assumed of when requests and
commands come, nor of gatelog, which may stop for ever inside its transaction; nobody
is assumed to be killed. `GateOptions` is a sequential program that runs until it ends.

## Proofs

Every property of a passing run that is not under "Only model-checked" has a theorem, and
each rests on an inductive invariant that TLC has checked on the run's instance first.
Four theorems are about operators and have no run: `ProbesCover`, `PermuteRotates`,
`UrlRoundTrip` and `FormRoundTrip`. `EveryCallAdvances` is the part of `EveryLineEnds` that
is a safety property.

### The programs on one file

`GateSystemProofs` proves, for all values of the constants that satisfy the named
assumptions, `Spec => []P` for `TypeOK`, `ListedIsBlocked`, `MatchIsCommitted`,
`NothingLeaks`, `ReadersExcludeWriters`, `IndexIsComplete`,
`NumbersAreFaithful`, `CreateIsComplete`, `CountHoldsAtInsert`, and `Spec => RowsStay`.

*Assumptions.* Addresses are naturals; NULL, the empty string and bad texts are not
addresses; the kinds of process are disjoint; `MaxRows` is a natural; initial rows do
not carry numbers that contradict their texts. TLC evaluates them in every run.

*The invariant.* None of the properties is inductive alone. `Inv` adds:

* `TablesOK`: what a transaction has done so far extends the journal. With it a
  rollback cannot take back a row, which is why a child may rely on one it has read.
* `IndexerOK`: a gatedb process that updates holds the read lock on its row, and inside
  its own transaction no row behind the cursor needs indexing. The lock is what keeps
  the row under the cursor from changing when `BEGIN EXCLUSIVE` was refused and the run
  goes on in autocommit.
* `LoggerOK`: between count and insert gatelog's transaction keeps others out.
* `ChildHolds`, `ChildAnswers`: what a child holds at each point, and that an address
  listed at arrival is still listed, so that `StepDone` contradicts `listed`.

*The argument.* `LookupEffect`, `DbEffect` and `LogEffect` reduce a step to what it
does to the tables (nothing; extend; commit; roll back). `EffectKeepsTables` deals with
these once. The `*Locks` lemmas cover the locks, the `*KeepsOthers` lemmas say that a
step leaves every other process's part of `Inv` alone, and the `DbKeepsIndexer`,
`LogKeepsLogger`, `LookupKeepsHolds` and `LookupKeepsAnswers` lemmas go through the
actions. `InvStep` puts them together, and every theorem follows from `Invariance`.

*The refinement.* `LookupsAreAtomic` proves `Spec => LookupIsAtomic`: with the committed rows
as the table, every step of a child is a step of `Blocklist` or none. The moment of the
decision is `StepRow`, `StepDone`, `StepBusy` or an early return. `ChildAsks` is the extra
invariant: a child that asks has an address, one that is past asking has an answer.

### The collector

`MrubyGcProofs` proves `Spec => []P` for `ReachableIsLive`, `StackIsSafe`,
`MinorMissesNothing` and `CycleEndsClean`, and `Spec => HeapSpec`, for any
set of objects, any pages and no bound on roots. The invariant `IInv` says: no black object
refers to a white one unless it waits on a list (`TriColor`); what is still to be marked
reaches everything that was reachable and white, except through roots without a barrier
(`Ahead`, `Losses`); free slots have no fields and no colour that matters (`FreeIsBare`); the
lists and the generations agree with the phase (`Lists`, `Colors`, `Roots`, `Control`,
`OldPages`). Reachability is defined by closed sets, so that no proof needs induction over
paths: `IInv` is used to show a set closed. The refinement follows because what a sweep
frees is white, what is ahead of marking is not, and nothing reachable is anything else.

### The hash

`MrubyHashProofs` proves `EveryKeyIsFound`, `EverySearchEnds`, `OrderIsDense`,
`RebuildFits`, `DupIsFaithful` and `Spec => MapSpec` for any keys, values, hash function and
table sizes that are powers of two.

*Why a search ends.* The code steps 1, 2, 3, ... buckets on and relies on coming by every
bucket. `ProbesCover` proves it. If the steps i and j < i ended in one bucket of n,
(i - j)(i + j + 1) would be a multiple of 2n (`TriangleIs`, `SameRemainder`). One factor is
odd, and an odd factor takes nothing from a power of two (`OddFactor`, by induction over
`Power`), so n would divide half of the other, which is less than n (`StepsDiffer`). So the n
steps end in n buckets, and by the pigeonhole principle in all of them (`StepsCover`).

*The invariant.* `Good(h)` is the heart of it: keys are distinct, every bucket on the way to a key is occupied, the
counters count, and at least one bucket is empty. `Rebuilding` and `Copying` say of the
half-filled tables that they hold what lies before the loop's index. Storing into a `Good`
table finds the right bucket (`PutIsGood`), and counting shows that a table of twice the
buckets has room.

### The configuration

`GateConfigProofs` proves `ResolvesAsWritten`, `NotesNameDatabase` and `HandlersAreDeclared`
for any servers, sections nested to any depth, and lists of directives of any length. The
constants are kept apart by `ConfigAssumption` (Apache's main server is no virtual host, a
handler's own keys are not the module's). The reference definition looks for the last
directive in the list `read`; the code has tables. `Agrees(s)` relates the two: what each
table of server `s` holds is the last thing the list says, and a handler has a table
exactly if it is declared. One lemma for each directive shows that table and list change
alike. For a request, the merge of the sections is a fold from the outermost inwards;
`Merged` describes it section by section, and an induction over the depth shows that the gate
in force is that of the innermost section that names one.

### The command line

`GateOptionsProofs` proves `IndicesOK`, `PathFollowsCommand`, `ArgumentIsThere` and `WordsLast`
for command lines of any length (`LinesAssumption`: an argument is a word, `--`, a nonempty
cluster of letters or a long option).

*The parser's indices.* `IInv` adds the lengths of the line and, as `Unread`, that the
arguments from `optind` on stand where they stood on the line.

*`permute_args` exchanges two blocks* (`PermuteRotates`). It goes round `gcd` many cycles of
swaps, and each step of a cycle adds the length of one block or takes off that of the other.
`GcdCombines` shows that `gcd` returns a common divisor that is a sum of multiples of its
arguments. With it `RotationNumbers` counts residues: within one cycle no place comes twice,
the last step is back at the first place, and every place of the same residue comes.
`CycleVisits` says this of the loop's positions, `CyclesRotate` that swapping along the cycles
moves every argument one step back on its cycle, and `PermuteTables` that the two nested loops
are these swaps. `PermuteKeeps`, that nothing outside the blocks moves, is a corollary.

*The words end up last* (`OptionsBeforeWords`). The role of each argument (option, an option's
argument, word) depends on the line alone, and so does the place where it belongs. `Reading`
is the invariant while the line is read. `BlocksAt` says that the words read so far are
one block, and that the options read before and after the block was formed stand before and
behind it. `ReadSoFar` gives the roles of what was read. `InCluster` says what is left of a
cluster of short options. When an option after a block of words has been read and a word
or the end comes, the blocks change places, and by `PermuteRotates` every argument up to
`optind` is where it belongs (`Sorts`). When the parser ends, `FinishSorts` says so of the
whole line.

*No call goes round in place* (`EveryCallAdvances`). Each step ends the parsing, moves `optind`
on within argv, or leaves fewer letters of the cluster at `optind`. This order has no infinite
descent, so what `EveryLineEnds` adds is only that the program keeps running.

### Request bodies

`RequestBodyProofs` proves `ContentIsTheBody`, `LinesEndOnce` and `DecodeStaysInside` for bodies
and calls of any number (`BodyAssumption`: bodies are bytes, forms are pairs of strings of
bytes up to 127). `IInv` adds `AllOrNothing`: as long as Apache has not failed and nobody
else reads, the request has read nothing or everything.

*The codec.* `UrlRoundTrip`: `url_decode(url_encode(s)) = s` for every string of bytes from 16 to
127. Below 16 it is false, see `Escape`. `ByteRoundTrip` shows it for a byte, `JoinedPieces`
takes an encoded string apart again, and the loop of `url_decode` is followed piece by piece.

*Forms.* `FormsArrive` proves `FormIsWhatWasSent` for any set of forms of any length whose names
and values have bytes from 16 to 127 only (`PrintableForms`, which the forms of the run
satisfy; with lower bytes the statement is false). `EncodeSafe` shows that an encoded string
has no `&`, `=` or NUL in it, so `split` cuts the body at the client's separators and nowhere
else: `SplitRun` follows it over a run of other bytes, `FormSplits` over the whole form.
`PairParses` takes one pair through `split` at `=` and `url_decode`, and `MergeGathers` shows
that the table gains the value under its name in lower case and nothing else.
`FormRoundTrip` puts these together by induction over the pairs. Two facts are invariant:
the body is what the client encodes for `sent` (`Origin`), and once `form_data` has succeeded its
table is what `parse_query_string` makes of the body (`FormParsed`).

### The Ruby binding

`RowsetProofs` proves `OpenIsOwnedOrLost`, `EndReleases`, `ConnectionOutlivesStatements` and
`SelectIsFaithful` for any number of objects, handles, queries, columns and rows
(`RubyAssumption`, `RowsetAssumption`: a query's rows are as long as its list of columns).
`Owned` says that a handle has one owner, a live one; `Statements` that an open statement refers
to the object that holds its connection; `UnderWay` what a select has gathered when it is in
its loop, which survives whatever the collector frees meanwhile.

### Recursion

The provers cannot instantiate the induction theorems of the library, which take an operator.
`Recursion` states induction over a *set* of numbers instead (`SetInduction`,
`BoundedInduction`), proved from the existence of least elements, and `Iteration`: a function
given at 0 and from each number for the next exists. A recursive function of the model is a
`CHOOSE`; `Iteration` supplies the witness, and the equation follows. This is how `gcd`,
`url_decode`, `split`, the line of `read_line`, the joining of strings, the merge of sections,
the exchange of blocks and the powers of two are reasoned about.

### Only model-checked

* The liveness properties `EveryRequestAnswered`, `EveryCommandEnds` and `EveryLineEnds`:
  fairness and ENABLED are out of the provers' reach. For `EveryLineEnds` the measure that
  falls with every step is proved (`EveryCallAdvances`).

Every other property of a passing run is proved.

## Where code and documents differ

Three are runs that end in a violation, quoted in `PROJECT.json`:

* `ranges`: the query asks for `start>=addr AND end<=addr`, so a range of several
  addresses matches none of them. One-address rows, as gatelog writes them, work.
* `cleanup`: `allocator` compares `dont_delete` with false where its comment sets it, so a
  connection may stay open when its object is freed.
* `gcroots`: final marking looks at the stack again but not at the other roots, which have
  no write barrier; an object that moves from a register to a global variable while
  marking goes on is swept. `StackIsSafe` and `MinorMissesNothing` say where this cannot happen.

Others are visible in the modules and have no run:

* A transaction that begins between prepare and step makes the lookup end as if nothing
  had matched (`StepBusy`; `ListedIsBlocked` names the exception).
* An unparsable text is indexed with an arbitrary number (`Reindexed`).
* The `ua` table, "a list of user agents to block" in the README, is never read.
* `gatedb --lint` does not report NULL numbers, which is what gatelog leaves (`LintSelects`).
* `GateDefaultDatabase` alone leads to no lookup, where the README says that "the existence
  of a default filter database causes the handler to use it" (`GetHandler`).
* `content` reads on where its comment says of a body that is too long "forget it", and
  reads again where it means to return what it has.
* `url_encode` pads bytes below 16 with a space, which `url_decode` does not undo (`Escape`).

gatelog inserts into a `note` column
(`tools/gatelog:85`) that the table gatedb creates does not have, so gatelog can only
insert into a file made otherwise (`CanInsert`). `GateDefaultDatabase` in a section is
stored under `GateDatabase` (`mod_gate.c:70`), where `module.cpp:194` does not look for it.

## What is not modelled

* **gatelog's listing options** and its regular expressions: input and output only.
* **`getopt_long_only`**, option strings that begin with `+`, `-` or `:`, optional
  arguments, `flag`, `-W` and `optreset`: gatedb cannot reach them. A dash inside a
  cluster of letters is left out too. `char` is taken to be signed, as on x86; the
  mutant `GoesOn` is the other case.
* **The rest of `request.cpp`, APR helpers, table iterator, Ruby VM class, accessors of Apache
  structures, `endian.cpp`**: no state of their own, or no caller. `apr::rmdir` has no caller but itself;
  `swap_endian` returns one static buffer.
* **Bytes above 127** in `url_encode`: they are negative in a signed char and print as eight
  digits into a buffer of three.
* **`tools/index.rb`**: an earlier index program for a library not in the repository.
* **SQLite** is modelled from how it is used; the repository has its headers only.
* **Most of mruby.** The vendored mruby is by far the largest part of the repository: a
  parser, a compiler, a virtual machine, the core classes and some thirty extension
  libraries. The module links it and starts none of it. Its collector and its hash table,
  on which the binding and `Rowset` rest, are modelled; the rest is not.
  In the collector, fibers, adding and returning heap pages, and stale registers are left
  out: a collection that ends while a fiber runs does not scan that fiber's registers again
  (`gc.c:836`). In the hash, keys whose `hash` or `eql?` is Ruby
  code are left out: it could change the table under `kh_put`.

The one hazard in `PROJECT.json` that no property covers is this last one.
