----------------------------- MODULE GateConfig -----------------------------
(***************************************************************************)
(* The module's directives (mod_gate.c), the configuration they build, and *)
(* what gate_request_init_configuration and gate_request_get_handler       *)
(* (module.cpp) make of it for a request: the database to look in, or none.*)
(*                                                                         *)
(* apr tables and hashes are functions from keys to values.  From Apache   *)
(* (external) come the life of a per-server configuration - made by the    *)
(* first directive read for that server, shared with the main server if    *)
(* there is none, never merged, because the module gives no merge function *)
(* - and the order in which the sections on a request's path are merged.   *)
(* GateConfig is one directive name with two entries in the command table; *)
(* the two forms are two actions here.                                     *)
(***************************************************************************)
EXTENDS Integers, Sequences, Functions

CONSTANTS
    Main,          \* the main server
    VHosts,        \* virtual hosts
    Dirs,          \* nested <Directory> sections, outermost first (a sequence)
    Names,         \* handler names
    Paths,         \* database paths
    Readable,      \* the paths that access(path, R_OK) accepts
    UserKeys,      \* keys of GateConfig, other than the module's own
    UserValues,    \* their values
    NoValue,       \* NULL
    MaxDirectives  \* bound: directives in the configuration files

ASSUME ConfigAssumption ==
    /\ Main \notin VHosts
    /\ Readable \subseteq Paths
    /\ NoValue \notin Names \cup Paths \cup UserKeys \cup UserValues
    /\ Dirs \in Seq(Range(Dirs))
    /\ UserKeys \cap {"Gate", "GateDatabase", "GateDefaultDatabase"} = {}
    /\ MaxDirectives \in Nat

VARIABLES
    phase,    \* "reading" the files, "running", or "failed" at a directive
    config,   \* config[s]: the gate_config of server s, or NoConfig
    options,  \* options[s][d]: the gate_dir_config of section d of server s
    env,      \* the variables GateEnv has put into the environment
    request,  \* the last request and what the handler resolved for it
    read      \* history: the directives read so far

vars == <<phase, config, options, env, request, read>>

Servers == {Main} \cup VHosts

\* A directive stands in section Dirs[n] of a server, or outside any (n = 0).
Sections == DOMAIN Dirs
OutsideSections == 0
Contexts == {OutsideSections} \cup Sections

EmptyTable == [k \in {} |-> NoValue]

Set(table, key, value) ==
    [k \in DOMAIN table \cup {key} |-> IF k = key THEN value ELSE table[k]]

\* apr_table_overlay and apr_table_compress(APR_OVERLAP_TABLES_SET), and also
\* the loops that copy one table into another: the later value wins.
Overlay(current, new) ==
    [k \in DOMAIN current \cup DOMAIN new |->
        IF k \in DOMAIN new THEN new[k] ELSE current[k]]

Get(table, key) == IF key \in DOMAIN table THEN table[key] ELSE NoValue

NoConfig == [handler |-> NoValue, default_database |-> NoValue,
             options |-> EmptyTable, handlers |-> EmptyTable, made |-> FALSE]

create_config == [NoConfig EXCEPT !.made = TRUE]

NoRequest == [server |-> NoValue, depth |-> 0, notes |-> EmptyTable, database |-> NoValue]

Init ==
    /\ phase = "reading"
    /\ config = [s \in Servers |-> IF s = Main THEN create_config ELSE NoConfig]
    /\ options = [s \in Servers |-> [d \in Sections |-> EmptyTable]]
    /\ env = EmptyTable
    /\ request = NoRequest
    /\ read = <<>>

-----------------------------------------------------------------------------
(* Reading the configuration *)

Made(s) == IF config[s].made THEN config[s] ELSE create_config

\* Every directive read for a server makes that server's gate_config.
Directive(s, c, name, args) ==
    /\ phase = "reading"
    /\ Len(read) < MaxDirectives
    /\ read' = Append(read, [server |-> s, context |-> c, name |-> name, args |-> args])
    /\ UNCHANGED request

SetServer(s, cfg) ==
    /\ config' = [config EXCEPT ![s] = cfg]
    /\ UNCHANGED <<phase, options, env>>

SetSection(s, c, key, value) ==
    /\ options' = [options EXCEPT ![s][c] = Set(@, key, value)]
    /\ config' = [config EXCEPT ![s] = Made(s)]
    /\ UNCHANGED <<phase, env>>

Refuse ==
    /\ phase' = "failed"
    /\ UNCHANGED <<config, options, env>>

set_gate_default_database(s, c, path) ==
    /\ Directive(s, c, "GateDefaultDatabase", <<path>>)
    /\ IF c = OutsideSections
         THEN SetServer(s, [Made(s) EXCEPT !.default_database = path])
         ELSE SetSection(s, c, "GateDatabase", path)

set_gate_config_var(s, c, key, value) ==
    /\ Directive(s, c, "GateConfig", <<key, value>>)
    /\ IF c = OutsideSections
         THEN SetServer(s, [Made(s) EXCEPT !.options = Set(@, key, value)])
         ELSE SetSection(s, c, key, value)

set_gate_env_var(s, c, key, value) ==
    /\ Directive(s, c, "GateEnv", <<key, value>>)
    /\ env' = Set(env, key, value)
    /\ config' = [config EXCEPT ![s] = Made(s)]
    /\ UNCHANGED <<phase, options>>

set_gate_filter(s, c, name) ==
    /\ Directive(s, c, "Gate", <<name>>)
    /\ IF c = OutsideSections
         THEN SetServer(s, [Made(s) EXCEPT !.handler = name])
         ELSE SetSection(s, c, "Gate", name)

set_gate_filter_declare(s, c, name) ==
    /\ Directive(s, c, "GateDeclare", <<name>>)
    /\ \/ /\ c = OutsideSections
          /\ SetServer(s, IF name \in DOMAIN Made(s).handlers
                            THEN Made(s)
                            ELSE [Made(s) EXCEPT !.handlers = Set(@, name, EmptyTable)])
       \/ c # OutsideSections /\ Refuse

gate_filter_set_params(s, c, key, name, value) ==
    \/ /\ c = OutsideSections /\ name \in DOMAIN Made(s).handlers
       /\ SetServer(s, [Made(s) EXCEPT !.handlers[name] = Set(@, key, value)])
    \/ /\ c # OutsideSections \/ name \notin DOMAIN Made(s).handlers
       /\ Refuse

set_gate_filter_database(s, c, name, path) ==
    /\ Directive(s, c, "GateDatabase", <<name, path>>)
    /\ gate_filter_set_params(s, c, "GateDatabase", name, path)

set_gate_filter_config(s, c, name, key, value) ==
    /\ Directive(s, c, "GateConfig", <<name, key, value>>)
    /\ gate_filter_set_params(s, c, key, name, value)

StartServing ==
    /\ phase = "reading"
    /\ phase' = "running"
    /\ UNCHANGED <<config, options, env, request, read>>

-----------------------------------------------------------------------------
(* Serving *)

\* Slip: a virtual host uses the main server's configuration.
MainConfig(s) == config[IF s \in VHosts THEN Main ELSE s]

\* gate_server_config
ServerConfig(s) == IF config[s].made THEN config[s] ELSE config[Main]

\* Slip: the arguments of the overlay swapped.
merge_dir_conf_swapped(current, new) == Overlay(new, current)

\* merge_dir_conf
merge_dir_conf(current, new) == Overlay(current, new)

\* gate_directory_config: the sections on the path of a request to server s,
\* down to depth n, merged one after the other.  Of two for the same directory
\* the main server's comes first.
DirectoryOptions(s, n) ==
    LET merged[d \in 0..n] ==
            IF d = 0 THEN EmptyTable
            ELSE LET outer == merge_dir_conf(merged[d - 1], options[Main][d])
                 IN  IF s = Main THEN outer ELSE merge_dir_conf(outer, options[s][d])
    IN  merged[n]

merge_var(dir, notes, name, server_value) ==
    IF name \in DOMAIN dir THEN Set(notes, name, dir[name])
    ELSE IF server_value # NoValue THEN Set(notes, name, server_value)
    ELSE notes

\* The notes before the settings of the selected handler are copied.
MergedNotes(s, n) ==
    LET cfg == ServerConfig(s)
        dir == DirectoryOptions(s, n)
        copied == Overlay(cfg.options, dir)
        defaulted == merge_var(dir, copied, "GateDefaultDatabase", cfg.default_database)
    IN  merge_var(dir, defaulted, "Gate", cfg.handler)

\* gate_handler_config finds a table
HasHandler(s, name) == name \in DOMAIN ServerConfig(s).handlers

HandlerConfig(s, name) == ServerConfig(s).handlers[name]

\* Copying a handler's settings stops at a database that cannot be read.  The
\* order is that of the hash: any of the other settings may be copied by then.
Unreadable(handler) ==
    "GateDatabase" \in DOMAIN handler /\ handler["GateDatabase"] \notin Readable

Copied(handler) ==
    {keys \in SUBSET DOMAIN handler :
        IF Unreadable(handler) THEN "GateDatabase" \in keys ELSE keys = DOMAIN handler}

\* Slip: the other settings are copied over the handler's.
InitUnderneath(s, n) ==
    LET merged == MergedNotes(s, n)
        name == Get(merged, "Gate")
        handler == HandlerConfig(s, name)
    IN  IF ~HasHandler(s, name)
          THEN {[ok |-> TRUE, notes |-> merged]}
          ELSE {[ok |-> ~Unreadable(handler),
                 notes |-> Overlay(Restrict(handler, keys), merged)] : keys \in Copied(handler)}

\* gate_request_init_configuration: whether it returns 0, and the notes
InitConfiguration(s, n) ==
    LET merged == MergedNotes(s, n)
        name == Get(merged, "Gate")
        handler == HandlerConfig(s, name)
    IN  IF ~HasHandler(s, name)
          THEN {[ok |-> TRUE, notes |-> merged]}
          ELSE {[ok |-> ~Unreadable(handler),
                 notes |-> Overlay(merged, Restrict(handler, keys))] : keys \in Copied(handler)}

\* gate_request_get_handler: the database of the Handler it returns (NoValue:
\* the empty Handler), and the notes it leaves.
GetHandler(s, notes) ==
    LET cfg == ServerConfig(s)
        name == Get(notes, "Gate")
        default == IF "GateDatabase" \in DOMAIN notes
                     THEN Get(notes, "GateDefaultDatabase")
                     ELSE cfg.default_database
    IN  [database |-> IF HasHandler(s, name)
                        THEN Get(HandlerConfig(s, name), "GateDatabase") ELSE NoValue,
         notes |-> IF "Gate" \notin DOMAIN notes /\ default # NoValue
                     THEN Set(notes, "GateDatabase", default)
                     ELSE notes]

\* The first lines of gate_request_handler.
gate_request_handler(s, n) ==
    /\ phase = "running"
    /\ \E init \in InitConfiguration(s, n) :
         LET got == GetHandler(s, init.notes)
         IN  request' = [server |-> s, depth |-> n,
                         notes |-> IF init.ok THEN got.notes ELSE init.notes,
                         database |-> IF init.ok THEN got.database ELSE NoValue]
    /\ UNCHANGED <<phase, config, options, env, read>>

Next ==
    \/ \E s \in Servers, c \in Contexts :
        \/ \E p \in Paths : set_gate_default_database(s, c, p)
        \/ \E k \in UserKeys, v \in UserValues :
             \/ set_gate_config_var(s, c, k, v)
             \/ set_gate_env_var(s, c, k, v)
        \/ \E h \in Names :
             \/ set_gate_filter(s, c, h)
             \/ set_gate_filter_declare(s, c, h)
             \/ \E p \in Paths : set_gate_filter_database(s, c, h, p)
             \/ \E k \in UserKeys, v \in UserValues : set_gate_filter_config(s, c, h, k, v)
    \/ StartServing
    \/ \E s \in Servers, n \in 0..Len(Dirs) : gate_request_handler(s, n)

Spec == Init /\ [][Next]_vars

-----------------------------------------------------------------------------
(* What the configuration files say, read off the directives themselves *)

\* The argument number a of the last of the directives S.
LastSaid(S, a) ==
    IF S = {} THEN NoValue ELSE read[CHOOSE i \in S : \A j \in S : j <= i].args[a]

\* The server whose files decide for s.
Owner(s) == IF \E i \in DOMAIN read : read[i].server = s THEN s ELSE Main

Gates(s, c) ==
    {i \in DOMAIN read : read[i].server = s /\ read[i].context = c /\ read[i].name = "Gate"}

Databases(s, h) ==
    {i \in DOMAIN read : /\ read[i].server = s
                         /\ read[i].name = "GateDatabase" /\ read[i].args[1] = h}

\* Gate in the innermost section that has one, the virtual host's before the
\* main server's for the same directory; else Gate outside any section.
SaidGate(s, n) ==
    LET Depths == {d \in 1..n : Gates(s, d) \cup Gates(Main, d) # {}}
    IN  IF Depths = {} THEN LastSaid(Gates(Owner(s), OutsideSections), 1)
        ELSE LET d == CHOOSE d \in Depths : \A e \in Depths : e <= d
             IN  LastSaid(IF Gates(s, d) # {} THEN Gates(s, d) ELSE Gates(Main, d), 1)

SaidDatabase(s, h) == LastSaid(Databases(Owner(s), h), 2)

-----------------------------------------------------------------------------
(* Properties *)

\* The database a request is looked up in is the one the files name: that of
\* the last GateDatabase for the Gate in force where the request goes, if it
\* can be read.  Tables made, overwritten, merged and copied on the way lose
\* or invent nothing.
ResolvesAsWritten ==
    request # NoRequest =>
        LET said == SaidDatabase(request.server, SaidGate(request.server, request.depth))
        IN  request.database = IF said \in Readable THEN said ELSE NoValue

\* The notes of the request name the database that the handler opens.
NotesNameDatabase ==
    request.database # NoValue => Get(request.notes, "GateDatabase") = request.database

\* A handler's settings are in force only in the servers whose files declare
\* the handler: a virtual host with directives of its own sees none of the main
\* server's.
HandlersAreDeclared ==
    phase = "running" =>
        \A s \in Servers, h \in Names :
            HasHandler(s, h) <=>
                \E i \in DOMAIN read :
                    /\ read[i].server = Owner(s)
                    /\ read[i].name = "GateDeclare" /\ read[i].args[1] = h
=============================================================================
