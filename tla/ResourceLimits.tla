---------------------------- MODULE ResourceLimits ----------------------------
(* The limits a call runs under.  They are derived anew for every tool call  *)
(* and every sync: the built-in table of a profile, the keys of the human's  *)
(* config.json, the SLUGAUDIT_* environment, and the profile the model chose *)
(* for the project in this process.  A value that cannot be used as it was   *)
(* set is refused or clamped, with a warning once per process and value.     *)
EXTENDS Integers, Sequences

CONSTANTS
  Projects,      \* the canonical roots of the projects
  ConfigFiles,   \* contents of config.json (bound; an absent file sets nothing)
  Environs,      \* environments the server is started with (bound)
  MemInfos,      \* contents of /proc/meminfo (bound)
  Tables,        \* the tables of "lean" and "audit"
  SqliteMax,     \* SQLITE_MAX_VALUE_BYTES
  MaxKb,         \* the largest count of kilobytes that is a byte count
  ChosenProfiles,       \* profiles given to `project_control on` (bound)
  ParseDefault   \* DEFAULT_MAX_PARSE_BYTES

VARIABLES
  configFile,        \* config.json
  environ,       \* the environment of the running server
  memory,        \* /proc/meminfo
  serving,       \* is the server up
  processLimits, \* LIMITS: what startup installed
  session,       \* PROFILES: the profile chosen for each project
  warnings,      \* REPORTED: the warnings logged by this process
  lastCall       \* the last derivation: what it read and what it gave

limitVars == <<configFile, environ, memory, serving, processLimits, session, warnings, lastCall>>

NotSet == -1
NoProfile == "none"
Malformed == -1
NoLimits == [file |-> 0, parse |-> 0, import |-> 0, response |-> 0, store |-> 0]
Keys == DOMAIN NoLimits
ConfigKeys == Keys \ {"response"}
NoConfig == [readable |-> TRUE, profile |-> NoProfile, keys |-> [k \in ConfigKeys |-> NotSet]]
NoEnviron == [valid |-> TRUE, profile |-> NoProfile, keys |-> [k \in Keys |-> NotSet]]
NoDerivation == [kind |-> "none"]

Profiles == {NoProfile, "lean", "audit", "adaptive"}

\* Each profile's table keeps what it reads within what SQLite can store.
ASSUME LimitsAssumption ==
  /\ SqliteMax \in Nat /\ MaxKb \in Nat /\ ParseDefault \in Nat
  /\ Tables \in [{"lean", "audit"} -> [Keys -> Nat]]
  /\ \A profile \in {"lean", "audit"} : Tables[profile].file <= SqliteMax
  /\ ChosenProfiles \subseteq Profiles
  /\ \A c \in ConfigFiles : c.profile \in Profiles /\ c.keys \in [ConfigKeys -> Nat \cup {NotSet}]
  /\ \A e \in Environs : e.profile \in Profiles /\ e.keys \in [Keys -> Nat \cup {NotSet}]
  /\ MemInfos \subseteq Seq([of : {"total", "available", "other"}, kb : Nat \cup {Malformed}])

LowerOf(a, b) == IF a < b THEN a ELSE b
HigherOf(a, b) == IF a > b THEN a ELSE b

-----------------------------------------------------------------------------
(* The tables of the profiles.                                              *)

Undetected == [total |-> NotSet, available |-> NotSet]

\* parse_proc_meminfo reads on until it has found both figures.
Found(lines, n) == \A k \in DOMAIN Undetected : \E i \in 1..n : lines[i].of = k
LinesRead(lines) == {i \in DOMAIN lines : ~Found(lines, i - 1)}
LastOf(lines, k) ==
  lines[CHOOSE i \in LinesRead(lines) :
    lines[i].of = k /\ \A j \in LinesRead(lines) : lines[j].of = k => j <= i].kb

\* A figure that is missing, no number or too large for a count of bytes is no
\* figure, and the host is not measured.
Detected(lines) ==
  IF /\ Found(lines, Len(lines))
     /\ \A i \in LinesRead(lines) : lines[i].kb # Malformed
     /\ \A k \in DOMAIN Undetected : LastOf(lines, k) <= MaxKb
  THEN [k \in DOMAIN Undetected |-> LastOf(lines, k)]
  ELSE Undetected

\* result_store_budget
StoreBudget(response) == 4 * response

\* adaptive_limits
Adaptive(host) ==
  LET file == LowerOf(HigherOf(host.total \div 10, Tables["audit"].file), SqliteMax) IN
  [file |-> file, parse |-> ParseDefault, response |-> file, store |-> StoreBudget(file),
   import |-> HigherOf(host.available \div 2, 4)]

Table(profile) == IF profile = "adaptive" THEN Adaptive(Detected(memory)) ELSE Tables[profile]
Sizable(profile) == profile = "adaptive" => Detected(memory) # Undetected

-----------------------------------------------------------------------------
(* What is laid over a table.                                               *)

Storable(k, value) == IF k = "file" THEN LowerOf(value, SqliteMax) ELSE value

\* clamp_sqlite_value's warning; nonzero_override and config_nonzero let no 0
\* through, the one as an error and the other with a warning.
Warnings(source, keys) ==
  {<<source, k, keys[k]>> : k \in {k \in DOMAIN keys :
      keys[k] = 0 \/ (k = "file" /\ keys[k] > SqliteMax)}}

Lay(keys, limits) ==
  [k \in Keys |-> IF k \in DOMAIN keys /\ keys[k] > 0 THEN Storable(k, keys[k]) ELSE limits[k]]

\* clamp_parse_to_file_bytes
ParseClamped(limits) == [limits EXCEPT !.parse = LowerOf(limits.parse, limits.file)]

ClampWarning(limits) ==
  IF limits.parse > limits.file THEN {<<"clamp", "parse", limits.parse>>} ELSE {}

\* Wrong variant: the store follows the response of the table.
StoreOfTable(env, limits, pinned) ==
  [Lay(env.keys, limits) EXCEPT !.store =
     IF env.keys.store > 0 THEN env.keys.store
     ELSE IF pinned THEN limits.store ELSE StoreBudget(limits.response)]
\* EnvOverrides::apply: the store follows the response unless something set it.
EnvLaid(env, limits, pinned) ==
  LET over == Lay(env.keys, limits)
      followed == IF pinned THEN limits.store ELSE StoreBudget(over.response)
  IN [over EXCEPT !.store = IF env.keys.store > 0 THEN env.keys.store ELSE followed]

\* The profile of a call.
ProfileOf(root, chosen, env) ==
  IF chosen[root] # NoProfile THEN chosen[root]
  ELSE IF env.profile # NoProfile THEN env.profile
  ELSE IF configFile.profile # NoProfile THEN configFile.profile ELSE "adaptive"

\* resolve_limits: the table, config.json on it, the environment last, each
\* followed by the clamp of what is parsed.
WithConfig(profile) == Lay(configFile.keys, Table(profile))
WithEnv(profile) ==
  EnvLaid(environ, ParseClamped(WithConfig(profile)), configFile.keys.store # NotSet)
EffectiveLimits(profile) == ParseClamped(WithEnv(profile))

ResolveWarnings(profile) ==
  Warnings("config", configFile.keys) \cup Warnings("env", environ.keys)
    \cup ClampWarning(WithConfig(profile)) \cup ClampWarning(WithEnv(profile))

-----------------------------------------------------------------------------
(* The server.                                                              *)

LimitsInit ==
  /\ configFile \in ConfigFiles /\ memory \in MemInfos
  /\ environ = NoEnviron /\ serving = FALSE /\ processLimits = NoLimits
  /\ session = [p \in Projects |-> NoProfile]
  /\ warnings = {} /\ lastCall = NoDerivation

\* main: an environment that is not valid, or an adaptive profile on a host
\* that cannot be measured, keeps the server from starting; config.json is not
\* read.  A new process has chosen no profiles and logged nothing.
StartServer(env) ==
  LET profile == IF env.profile = NoProfile THEN "adaptive" ELSE env.profile IN
  /\ ~serving
  /\ env.valid /\ Sizable(profile)
  /\ LET over == EnvLaid(env, Table(profile), FALSE) IN
     /\ processLimits' = ParseClamped(over)
     /\ warnings' = Warnings("env", env.keys) \cup ClampWarning(over)
  /\ environ' = env /\ serving' = TRUE
  /\ session' = [p \in Projects |-> NoProfile]
  /\ lastCall' = NoDerivation
  /\ UNCHANGED <<configFile, memory>>

StopServer ==
  /\ serving /\ serving' = FALSE /\ lastCall' = NoDerivation
  /\ UNCHANGED <<configFile, environ, memory, processLimits, session, warnings>>

\* effective_limits for the project at `root`, with the profiles `chosen`.
Derive(root, chosen) ==
  LET profile == ProfileOf(root, chosen, environ) IN
  \/ /\ ~configFile.readable
     /\ lastCall' = [kind |-> "config"] /\ UNCHANGED warnings
  \/ /\ configFile.readable /\ ~Sizable(profile)
     /\ lastCall' = [kind |-> "memory"] /\ UNCHANGED warnings
  \/ /\ configFile.readable /\ Sizable(profile)
     /\ lastCall' = [kind |-> "limits", root |-> root, config |-> configFile,
                     table |-> Table(profile), limits |-> EffectiveLimits(profile)]
     /\ warnings' = warnings \cup ResolveWarnings(profile)

\* A sync, or a tool called with a path of the project.
CallTool(root) ==
  /\ serving /\ Derive(root, session)
  /\ UNCHANGED <<configFile, environ, memory, serving, processLimits, session>>

\* `project_control on`: the chosen profile applies to the import it starts.
EnableProject(root, profile) ==
  /\ serving
  /\ session' = IF profile = NoProfile THEN session ELSE [session EXCEPT ![root] = profile]
  /\ Derive(root, session')
  /\ UNCHANGED <<configFile, environ, memory, serving, processLimits>>

\* A human edits config.json; what the host has available changes.
EditConfig(content) ==
  /\ configFile' = content /\ configFile' # configFile
  /\ lastCall' = NoDerivation
  /\ UNCHANGED <<environ, memory, serving, processLimits, session, warnings>>

Measure(lines) ==
  /\ memory' = lines /\ memory' # memory
  /\ lastCall' = NoDerivation
  /\ UNCHANGED <<configFile, environ, serving, processLimits, session, warnings>>

LimitsNext ==
  \/ \E env \in Environs : StartServer(env)
  \/ StopServer
  \/ \E root \in Projects : CallTool(root)
  \/ \E root \in Projects, profile \in ChosenProfiles : EnableProject(root, profile)
  \/ \E content \in ConfigFiles : EditConfig(content)
  \/ \E lines \in MemInfos : Measure(lines)

LimitsSpec == LimitsInit /\ [][LimitsNext]_limitVars

-----------------------------------------------------------------------------
LimitsTypeOK ==
  /\ serving \in BOOLEAN
  /\ \A k \in Keys : processLimits[k] \in Nat
  /\ session \in [Projects -> {NoProfile, "lean", "audit", "adaptive"}]
  /\ lastCall.kind \in {"none", "config", "memory", "limits"}

\* What a human set for `k`: the environment before the file.
SetTo(k) ==
  IF environ.keys[k] > 0 THEN environ.keys[k]
  ELSE IF k \in ConfigKeys /\ lastCall.config.keys[k] > 0 THEN lastCall.config.keys[k]
  ELSE NotSet

\* Limits a call runs under are those that were set, whoever chose the profile:
\* a profile never discards a limit of the file or the environment, and the
\* session profile of one project is not that of another.  Nothing is parsed
\* that is not read, and nothing read that cannot be stored.  A limit that is
\* not the one a human set was warned of in this process.
LimitsAreAsSet ==
  /\ LimitsTypeOK
  /\ lastCall.kind = "limits" =>
       LET limits == lastCall.limits
           warned == {w[2] : w \in warnings}
       IN /\ limits.parse <= limits.file /\ limits.file <= SqliteMax
          /\ session[lastCall.root] \in {"lean", "audit"} =>
               lastCall.table = Tables[session[lastCall.root]]
          /\ \A k \in Keys \ {"parse"} :
               SetTo(k) # NotSet => limits[k] = Storable(k, SetTo(k))
          /\ \A k \in {"file", "import", "response"} :
               SetTo(k) = NotSet => limits[k] = lastCall.table[k]
          /\ SetTo("store") = NotSet =>
               \/ limits.store = StoreBudget(limits.response)
               \/ "store" \in warned
          /\ \A k \in Keys :
               /\ SetTo(k) # NotSet /\ limits[k] # SetTo(k) => k \in warned
               /\ k \in ConfigKeys /\ lastCall.config.keys[k] = 0 => k \in warned

-----------------------------------------------------------------------------
\* The last derivation is what the files, the environment and the profiles that
\* are in force give, and what it warns of has been logged.
Derived ==
  LET profile == ProfileOf(lastCall.root, session, environ)
  IN /\ lastCall.root \in Projects /\ Sizable(profile)
     /\ lastCall.config = configFile /\ lastCall.table = Table(profile)
     /\ lastCall.limits = EffectiveLimits(profile)
     /\ ResolveWarnings(profile) \subseteq warnings

LimitsInv ==
  /\ configFile \in ConfigFiles /\ memory \in MemInfos /\ environ \in Environs \cup {NoEnviron}
  /\ serving \in BOOLEAN /\ processLimits \in [Keys -> Nat] /\ session \in [Projects -> Profiles]
  /\ lastCall.kind \in {"none", "config", "memory", "limits"}
  /\ lastCall.kind = "limits" => Derived
==============================================================================
