------------------------------- MODULE MCWorker -------------------------------
EXTENDS WorkerLaunch, TLC

(* The gateway started bare, with -q, or with -L info: the options clap   *)
(* accepts before `run`.                                                  *)
GW == Word("cassie-cool")
MCGatewayArgvs == {<<GW>>, <<GW, Short("q")>>, <<GW, Short("L"), Word("info")>>}

(* A local project, a remote one and an npm one, resolved as              *)
(* resolve_url_or_path resolves them.                                     *)
MCResolve == ("/t/a/main.ts" :> [scheme |-> "file", path |-> <<"t", "a", "main.ts">>])
          @@ ("https://x/m.ts" :> [scheme |-> "https", path |-> <<>>])
          @@ ("npm:pkg" :> [scheme |-> "npm", path |-> <<>>])

(* The gateway runs in an ancestor of the project or beside it; config   *)
(* files may be in the project, its ancestors and the gateway's dir.     *)
MCCwds       == {<<"t">>, <<"g">>}
MCConfigDirs == {<<>>, <<"t">>, <<"t", "a">>, <<"g">>}
=============================================================================
