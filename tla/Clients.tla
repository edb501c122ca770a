-------------------------------- MODULE Clients --------------------------------
(***************************************************************************)
(* Registering with the clients: `slugaudit connect` and `disconnect`      *)
(* (src/src/connect.rs, connect_exec.rs, connect_agents.rs, connect_cli.rs,*)
(* connect_run.rs, connect/config_file.rs, config_atomic.rs,               *)
(* registry_types.rs, interactive.rs).                                     *)
(*                                                                         *)
(* The clients are external: their command line registers, refuses or      *)
(* hangs, and they save their own config files when they like.  A config   *)
(* file is its kind and, per section, the slugaudit entry it has; what is  *)
(* not ours in it is left out.                                             *)
(***************************************************************************)
EXTENDS Naturals, FiniteSets

CONSTANTS
  Runs,       \* running connect and disconnect commands
  Agents      \* per client: [strategy, cli, home, shape, fallback, manual]

Strategies == {"CliDirect", "ConfigFile"}
Shapes == {"McpServersCommandArgs", "OpenCodeLocal", "ZedContextServer", "Unknown"}
ASSUME ClientsAssumption ==
  /\ "client" \notin Runs
  /\ \A a \in DOMAIN Agents :
       Agents[a] \in [strategy : Strategies, cli : BOOLEAN, home : BOOLEAN, shape : Shapes,
                      fallback : BOOLEAN, manual : BOOLEAN]

VARIABLES
  client,     \* the client the commands are about
  config,     \* its config file
  onPath,     \* its command line is on PATH
  run,        \* per command: what it does
  litter,     \* temporary files left
  writer      \* observer: who wrote the config last

clientVars == <<client, config, onPath, run, litter, writer>>

This == Agents[client]
Kinds == {"missing", "dangling", "irregular", "unparsable", "not_object", "empty", "object"}
SectionNames == {"mcpServers", "mcp", "context_servers"}
Entries == {"no_section", "odd", "none", "old", "new"}
NoSections == [s \in SectionNames |-> "no_section"]
File(kind, sections) == [kind |-> kind, sections |-> sections]
Ready == [pc |-> "ready", kind |-> "none", loaded |-> File("missing", NoSections),
          touched |-> FALSE, wrote |-> FALSE, end |-> "none"]

-----------------------------------------------------------------------------
\* The registry (AgentDef, ConfigShape).

SectionsOf == [McpServersCommandArgs |-> {"mcpServers", "mcp"}, OpenCodeLocal |-> {"mcp"},
               ZedContextServer |-> {"context_servers"}, Unknown |-> {}]
WriteSection == [McpServersCommandArgs |-> "mcpServers", OpenCodeLocal |-> "mcp",
                 ZedContextServer |-> "context_servers", Unknown |-> "none"]
WritesConfigFile == This.fallback \/ This.strategy = "ConfigFile"
HasShape == This.shape # "Unknown"
ConfigWritable == WritesConfigFile /\ This.home /\ HasShape
CliOnPath == This.cli /\ onPath

\* config_has_slugaudit; an unreadable file is an error, which counts as no.
Connects(file) ==
  /\ This.home /\ HasShape /\ file.kind = "object"
  /\ \E s \in SectionsOf[This.shape] : file.sections[s] \in {"old", "new"}
IsConnected == Connects(config)

-----------------------------------------------------------------------------
\* Steps of a command.

Reached(r, pc) == run[r].pc = pc
To(r, pc) == run' = [run EXCEPT ![r].pc = pc]
Finish(r, end) == run' = [run EXCEPT ![r].pc = "over", ![r].end = end]
UnchangedClients == UNCHANGED <<client, config, onPath, litter, writer>>

\* connect_agent: refusals, then the file or the command line.
BeginConnect(r) ==
  LET go(pc, end) == [run EXCEPT ![r] = [Ready EXCEPT !.kind = "connect", !.pc = pc, !.end = end]]
      written == IF ConfigWritable THEN go("load", "none") ELSE go("over", "refused")
  IN
  /\ run[r] = Ready
  /\ run' = IF This.manual THEN go("over", "refused")
            ELSE IF This.strategy = "ConfigFile" THEN written
            ELSE IF CliOnPath THEN go("add", "none")
            ELSE IF This.fallback THEN written ELSE go("over", "refused")
  /\ UnchangedClients

\* run_bounded: `mcp add` succeeds, fails, or is killed when its time is up,
\* whatever it has registered by then (ClientAdds); a failed one falls back to
\* the file.
RunAdd(r) ==
  /\ Reached(r, "add")
  /\ \/ Finish(r, "ok")
     \/ IF This.fallback /\ ConfigWritable THEN To(r, "load") ELSE Finish(r, "error")
  /\ UnchangedClients

\* disconnect_agent: the file first, if it is one this tool writes.
BeginDisconnect(r) ==
  /\ run[r] = Ready
  /\ run' = [run EXCEPT ![r] = [Ready EXCEPT !.kind = "disconnect",
               !.pc = IF ConfigWritable /\ config.kind \notin {"missing", "dangling"} THEN "load" ELSE "remove"]]
  /\ UnchangedClients

\* load_json_or_empty, then the entry is put in or taken out.
Loadable(file) == file.kind \notin {"irregular", "unparsable"}
Parsed(file) == IF file.kind \in {"missing", "dangling", "empty"} THEN File("object", NoSections) ELSE file

\* write_json_server: the root and the section must be objects.
Inserts(file) ==
  LET s == WriteSection[This.shape] IN
  IF file.kind # "object" \/ file.sections[s] = "odd" THEN {}
  ELSE {[file EXCEPT !.sections[s] = "new"]}

\* Wrong variant: only the section this build writes is cleared.
WrittenOnly == {WriteSection[This.shape]}
\* remove_json_slugaudit: every section the shape may have.
Cleared == SectionsOf[This.shape]
Without(file) ==
  [file EXCEPT !.sections = [s \in SectionNames |->
     IF s \in Cleared /\ file.sections[s] \in {"old", "new"} THEN "none" ELSE file.sections[s]]]

LoadConfig(r) ==
  LET file == Parsed(config)
  IN
  /\ Reached(r, "load")
  /\ \/ /\ Loadable(config) /\ run[r].kind = "connect" /\ Inserts(file) # {}
        /\ \E edited \in Inserts(file) :
             run' = [run EXCEPT ![r].loaded = edited, ![r].pc = "stage"]
     \/ /\ Loadable(config) /\ run[r].kind = "disconnect"
        /\ run' = [run EXCEPT ![r].loaded = Without(file),
                              ![r].pc = IF Without(file) = file THEN "remove" ELSE "stage"]
     \/ /\ ~Loadable(config) \/ (run[r].kind = "connect" /\ Inserts(file) = {})
        /\ Finish(r, "error")
  /\ UnchangedClients

\* write_atomic: a dangling link is refused; the temporary file is written
\* and synced, and removed when a step fails.
StageConfig(r) ==
  /\ Reached(r, "stage")
  /\ \/ config.kind # "dangling" /\ To(r, "rename") /\ litter' = litter \cup {r}
     \/ Finish(r, "error") /\ UNCHANGED litter
  /\ UNCHANGED <<client, config, onPath, writer>>
RenameConfig(r) ==
  /\ Reached(r, "rename") /\ litter' = litter \ {r}
  /\ \/ /\ config' = run[r].loaded /\ writer' = r
        /\ run' = [run EXCEPT ![r].wrote = TRUE, ![r].touched = TRUE,
                              ![r].pc = IF run[r].kind = "connect" THEN "over" ELSE "remove",
                              ![r].end = IF run[r].kind = "connect" THEN "ok" ELSE @]
     \/ Finish(r, "error") /\ UNCHANGED <<config, writer>>
  /\ UNCHANGED <<client, onPath>>

\* run_remove, when the strategy is the command line and it is there.
RunRemove(r) ==
  LET runs == This.strategy = "CliDirect" /\ CliOnPath IN
  /\ Reached(r, "remove")
  /\ \/ runs /\ \E end \in {"ok", "error"} : Finish(r, end)
     \/ ~runs /\ Finish(r, IF run[r].touched THEN "ok" ELSE "nothing")
  /\ UnchangedClients

KillRun(r) ==
  /\ run[r].pc \in {"add", "load", "stage", "rename", "remove"} /\ Finish(r, "killed") /\ UnchangedClients

\* What the client's own command line does to its config while a command waits
\* for it, or after the command was killed and left it running: `mcp add`
\* registers in one of the sections of its shape, `mcp remove` clears some.
Outlives(r, kind) == run[r].end = "killed" /\ run[r].kind = kind
ClientWrites(file) == config' = file /\ writer' = "client" /\ UNCHANGED <<client, onPath, run, litter>>
ClientAdds(r) ==
  /\ Reached(r, "add") \/ Outlives(r, "connect")
  /\ config.kind \in {"missing", "empty", "object"}
  /\ \E s \in SectionsOf[This.shape] :
       config.sections[s] # "odd" /\ ClientWrites([Parsed(config) EXCEPT !.sections[s] = "new"])
ClientRemoves(r) ==
  /\ Reached(r, "remove") \/ Outlives(r, "disconnect")
  /\ This.strategy = "CliDirect" /\ This.cli /\ config.kind = "object"
  /\ \E s \in SectionsOf[This.shape] :
       config.sections[s] \in {"old", "new"} /\ ClientWrites([config EXCEPT !.sections[s] = "none"])

\* A client saves its config, with a change that is not ours.
ClientSaves ==
  /\ config.kind \in {"missing", "empty", "object"}
  /\ ClientWrites(Parsed(config))
PathChanges ==
  /\ onPath' = ~onPath
  /\ UNCHANGED <<client, config, run, litter, writer>>

ClientsInit ==
  /\ client \in DOMAIN Agents
  /\ \E kind \in Kinds, sections \in [SectionNames -> {"no_section", "odd", "none", "old"}] :
       /\ kind # "object" => sections = NoSections
       /\ config = File(kind, sections)
  /\ onPath \in BOOLEAN /\ litter = {}
  /\ run = [r \in Runs |-> Ready] /\ writer = "client"

ClientsNext ==
  \/ \E r \in Runs : \/ BeginConnect(r) \/ BeginDisconnect(r) \/ RunAdd(r) \/ LoadConfig(r)
                     \/ StageConfig(r) \/ RenameConfig(r) \/ RunRemove(r) \/ KillRun(r)
                     \/ ClientAdds(r) \/ ClientRemoves(r)
  \/ ClientSaves \/ PathChanges

ClientsSpec == ClientsInit /\ [][ClientsNext]_clientVars

ClientsTypeOK ==
  /\ client \in DOMAIN Agents /\ config.kind \in Kinds /\ config.sections \in [SectionNames -> Entries]
  /\ onPath \in BOOLEAN /\ litter \subseteq Runs

\* As long as nobody else wrote the client's file since: a connect that wrote
\* it and succeeded is one `is_connected` sees, and a disconnect that took
\* something out of it left nothing that `is_connected` sees.  A file that
\* cannot be read as an object is never replaced, and only a command that was
\* killed leaves a temporary file.
RegistrationsHold ==
  /\ \A r \in Runs : run[r].wrote /\ writer = r => IsConnected = (run[r].kind = "connect")
  /\ config.kind # "object" => writer = "client"
  /\ \A r \in litter : run[r].pc = "rename" \/ run[r].end = "killed"

-----------------------------------------------------------------------------
(* The inductive invariant behind RegistrationsHold.                        *)

ConfigFiles == [kind : Kinds, sections : [SectionNames -> Entries]]
RunStates ==
  [pc : {"ready", "add", "load", "stage", "rename", "remove", "over"},
   kind : {"none", "connect", "disconnect"}, loaded : ConfigFiles, touched : BOOLEAN,
   wrote : BOOLEAN, end : {"none", "refused", "ok", "error", "nothing", "killed"}]

ClientsShape ==
  /\ client \in DOMAIN Agents /\ config \in ConfigFiles
  /\ config.kind # "object" => config.sections = NoSections
  /\ run \in [Runs -> RunStates] /\ litter \subseteq Runs

\* A command that is at the file writes one that `is_connected` understands.
RunHolds(r) ==
  /\ run[r].pc # "over" => run[r].end = "none"
  /\ run[r].pc \in {"add", "load", "stage", "rename"} => run[r].kind \in {"connect", "disconnect"}
  /\ run[r].pc \in {"load", "stage", "rename"} \/ run[r].wrote => ConfigWritable
  /\ run[r].pc \in {"stage", "rename"} => Connects(run[r].loaded) = (run[r].kind = "connect")
  /\ run[r].pc \in {"stage", "rename"} => run[r].loaded.kind = "object"

ClientsInv == ClientsShape /\ RegistrationsHold /\ \A r \in Runs : RunHolds(r)
================================================================================
