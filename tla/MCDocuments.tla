---------------------------- MODULE MCDocuments ----------------------------
EXTENDS Documents, TLC

CONSTANTS a, b, c

\* On disk a imports b and b imports c: a chain long enough that dependents
\* are transitive and that a document imported by a stored one is loaded by
\* the rebuild.
MCInitialDisk == (a :> {b}) @@ (b :> {c}) @@ (c :> {})

(* A workspace /w (entry 1 of the drive root << >>) holding, in name      *)
(* order: a.ts, deno.json, node_modules/c.min.js and src/b.ts.            *)
W == <<1>>
NodeModules == <<1, 3>>
Src == <<1, 4>>
MCPathOf == (a :> <<1, 1>>) @@ (b :> <<1, 4, 1>>) @@ (c :> <<1, 3, 1>>)
MCFs == {<< >>, W, <<1, 1>>, <<1, 2>>, NodeModules, <<1, 3, 1>>, Src, <<1, 4, 1>>}
MCDirPaths == {<< >>, W, NodeModules, Src}
MCIgnoredDirs == {NodeModules}
MCMinified == {<<1, 3, 1>>}

(* Configurations: the root uri alone; node_modules and the minified     *)
(* file in it enabled; /w, node_modules and src enabled together.         *)
Configs ==
  { [enable |-> TRUE, root |-> {W}, paths |-> << >>],
    [enable |-> TRUE, root |-> {W}, paths |-> W :> {NodeModules, <<1, 3, 1>>}],
    [enable |-> TRUE, root |-> {W}, paths |-> W :> {W, NodeModules, Src}] }

MCUrlInputs == {EnabledUrls(cfg) : cfg \in Configs}

(* 0 skips the preload.  The root uri's walk reads 5 entries and stays   *)
(* under 6; the nested configuration walks src twice, reads 6 entries    *)
(* and hits 6 on the last one.                                            *)
MCLimits == {0, 6}
=============================================================================
