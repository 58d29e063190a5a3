---------------------------- MODULE RuntimeLaunch -----------------------------
(***************************************************************************)
(* How a tenant's script runtime is configured.  start_runtime and        *)
(* start_watch_runtime (cassie-cool worker_util.rs) append `run ...` to   *)
(* the gateway's own env::args(), parse the vector with flags_from_vec    *)
(* (Flags), patch the result, and hand it to run_script / run_with_watch, *)
(* whose CliFactory::from_flags discovers the config file from the flags  *)
(* and the gateway's working directory (ConfigDiscovery).                 *)
(***************************************************************************)
EXTENDS Flags, ConfigDiscovery

CONSTANTS
  GatewayArgvs,  \* env::args() of the gateway: argv[0] and the options it was started with
  Projects,      \* project.path of the tenants
  Resolve,       \* resolve_url_or_path of each project path: [scheme, path]
  Cwds,          \* the gateway's working directory
  ConfigDirs     \* directories a config file may be in

\* The inspector address start_runtime sets for the debugger.
DefaultInspect == "127.0.0.1:9229"

(* start_runtime's and start_watch_runtime's argument vectors. *)
RunArgsFor(g, path)   == g \o <<Word("run"), Word(path)>>
WatchArgsFor(g, path) == g \o <<Word("run"), Long("unstable"), Long("watch"), Word(path)>>

(* The Flags start_runtime runs the script with: unstable forced on, and  *)
(* the inspector on the fixed address when the debugger was asked for.    *)
RuntimeFlags(g, path, debugger) ==
  LET f == FlagsFromVec(RunArgsFor(g, path)) IN
  [f EXCEPT !.unstable = TRUE,
            !.inspect = IF debugger THEN <<DefaultInspect>> ELSE @]

WatchFlags(g, path) == FlagsFromVec(WatchArgsFor(g, path))

(* The config file the runtime reads, for a file system fs. *)
RuntimeConfig(fs, f, cwd) ==
  Discover(fs, f.config, IF f.configPath = <<>> THEN <<>> ELSE cwd \o f.configPath,
           Resolve[f.script], cwd)

-----------------------------------------------------------------------------
(* The launch vectors, for every gateway command line and project, parse *)
(* to the flags that run the tenant's own script with no script          *)
(* arguments and unstable APIs, discovering the config file: the         *)
(* production runtime (RunLaunchOK[d], d the debugger switch) without a  *)
(* watcher and with the inspector exactly when d, the development one    *)
(* watching its module graph (`--watch` with no paths: require_equals    *)
(* keeps the project path from being read as a watched path).  These are *)
(* constant tables, evaluated once.                                      *)
RunsProject(f, p) ==
  /\ f.res = "ok" /\ f.sub = "run" /\ f.script = p /\ f.argv = <<>>
  /\ f.unstable /\ f.config = "discover"
RunLaunchOK == [d \in BOOLEAN |->
  \A g \in GatewayArgvs, p \in Projects :
    LET r == RuntimeFlags(g, p, d) IN
    RunsProject(r, p) /\ r.watch = <<>> /\ (r.inspect # <<>>) = d]
WatchLaunchOK ==
  \A g \in GatewayArgvs, p \in Projects :
    LET w == WatchFlags(g, p) IN
    RunsProject(w, p) /\ w.watch = <<<<>>>> /\ w.inspect = <<>>

(* The config file a production runtime uses is the first deno.json or   *)
(* deno.jsonc, in that order, that exists in the directories from the     *)
(* project script up to the root and then from the gateway's working      *)
(* directory up, and a remote script uses none: the `checked` set discover_from shares across *)
(* the walks only skips directories that cannot change the answer, and a *)
(* file that exists but cannot be read or parsed ends the search with an  *)
(* error instead of being passed over.                                     *)
ConfigFiles == {Append(d, ConfigFileNames[j]) : d \in ConfigDirs, j \in 1 .. 2}
Candidates(spec, cwd) ==
  LET starts == ConfigPathArgs(spec).paths \o <<cwd>>
      dirs   == FlattenSeq([i \in DOMAIN starts |-> Ancestors(starts[i])])
  IN FlattenSeq([i \in DOMAIN dirs |->
                   [j \in 1 .. 2 |-> Append(dirs[i], ConfigFileNames[j])]])
NearestConfig(fs, spec, cwd) ==
  LET c       == Candidates(spec, cwd)
      present == {k \in DOMAIN c : Status(fs, c[k]) # "absent"}
  IN IF ~ConfigPathArgs(spec).some \/ present = {} THEN [res |-> "none", file |-> <<>>]
     ELSE LET f == c[CHOOSE k \in present : \A j \in present : k <= j] IN
          [res |-> IF Status(fs, f) = "ok" THEN "found" ELSE "error", file |-> f]
NearestConfigOK ==
  \A fs \in [ConfigFiles -> ReadStatuses], cwd \in Cwds, p \in Projects :
    \A g \in GatewayArgvs :
      RuntimeConfig(fs, RuntimeFlags(g, p, FALSE), cwd) = NearestConfig(fs, Resolve[p], cwd)
=============================================================================
