----------------------------- MODULE WorkerLaunch -----------------------------
(***************************************************************************)
(* The worker (Worker) composed with how each runtime it spawns is        *)
(* configured (RuntimeLaunch).  rt[i].inspect is open_debug_server as     *)
(* start_runtime read it, and rt[i].watched whether start_watch_runtime   *)
(* spawned it (`run --unstable --watch`); the launch tables of RuntimeLaunch are constant, so TLC       *)
(* evaluates them once and each state only looks them up.               *)
(***************************************************************************)
EXTENDS Worker, RuntimeLaunch

Started(i) == rt[i].st # "unborn"

(* Every runtime the worker has started, from a gateway started with any  *)
(* of GatewayArgvs, parses its command line without error (an error would *)
(* end the whole gateway in unwrap_or_exit) and runs the tenant's own     *)
(* script with no script arguments: the development runtime watching its *)
(* module graph without an inspector, a production runtime with the       *)
(* inspector exactly when open_debug_server was set when it was started.  *)
LaunchFlagsRunProject ==
  \A i \in Insts : Started(i) =>
    IF rt[i].watched THEN WatchLaunchOK ELSE RunLaunchOK[rt[i].inspect]

(* Every started production runtime reads the nearest config file: the    *)
(* first deno.json or deno.jsonc from the project script's directory up, *)
(* then from the gateway's working directory up, whatever the file system *)
(* holds; an unreadable or invalid one is an error, never passed over.    *)
DiscoverFindsNearestConfig ==
  \A i \in Insts : Started(i) /\ ~rt[i].watched => NearestConfigOK
=============================================================================
