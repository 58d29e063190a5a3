-------------------------------- MODULE Flags ---------------------------------
(***************************************************************************)
(* The command line of `deno run` as flags_from_vec (args/flags.rs)       *)
(* parses it: the clap grammar that clap_root, run_subcommand,            *)
(* runtime_args, permission_args, inspect_args and the *_arg builders     *)
(* declare, clap's matching of argv against it, and the *_parse functions *)
(* that turn the matches into Flags.  Pure operators: the gateway's       *)
(* worker_util.rs builds such a vector for every script runtime.          *)
(*                                                                         *)
(* A token of argv is a record: a long option `--n` or `--n=v1,v2` (the   *)
(* value list is the comma-separated text, which use_value_delimiter      *)
(* splits), a short option `-c`, or a word.  Option names and values are  *)
(* strings; no value contains a comma, so splitting is exact.             *)
(***************************************************************************)
EXTENDS Naturals, Sequences, SequencesExt

Long(n)       == [k |-> "long", n |-> n, eq |-> FALSE, v |-> <<>>]
LongEq(n, vs) == [k |-> "long", n |-> n, eq |-> TRUE, v |-> vs]
Short(c)      == [k |-> "short", n |-> c, eq |-> FALSE, v |-> <<>>]
Word(w)       == [k |-> "word", n |-> w, eq |-> FALSE, v |-> <<>>]

-----------------------------------------------------------------------------
(* The grammar.  clap_root: the global switches and --log-level.          *)
RootArgs  == {"unstable", "quiet", "log-level"}
LogLevels == {"debug", "info"}

(* permission_args: the allow lists, each require_equals with 0.. values. *)
PermKinds == {"allow-read", "allow-write", "allow-net",
              "unsafely-ignore-certificate-errors", "allow-env", "allow-sys",
              "allow-run", "allow-ffi"}

(* run_subcommand = runtime_args(.., true, true) + check, watch(true),    *)
(* no-clear-screen, ext and script_arg; modelled options by arity.        *)
Switches  == {"unstable", "quiet", "allow-hrtime", "allow-all", "prompt",
              "no-prompt", "cached-only", "no-clear-screen", "no-config"}
Lists     == PermKinds \cup {"watch", "v8-flags"}
Optionals == {"inspect", "inspect-brk", "inspect-wait"}  \* 0..=1, require_equals
Valued    == {"log-level", "config", "seed", "ext"}      \* one value, = or next
RunArgs   == Switches \cup Lists \cup Optionals \cup Valued
Shorts    == [A |-> "allow-all", q |-> "quiet", L |-> "log-level", c |-> "config"]

(* conflicts_with and requires of run_subcommand and no_config_arg.       *)
Conflicts == {<<"watch", o>> : o \in Optionals} \cup {<<"no-config", "config">>}
Requires  == {<<"no-clear-screen", "watch">>}

-----------------------------------------------------------------------------
(* clap's matching, one token at a time.  m.lvl is the command reached    *)
(* ("root" until the word `run`); once the first script word is seen      *)
(* (trailing_var_arg) every later token is a script argument.  Giving a   *)
(* switch a value, a value a switch cannot take, a missing value, a name  *)
(* the command does not declare and using an option twice are errors.     *)
NoMatches == [err |-> FALSE, lvl |-> "root", has |-> {},
              val |-> [n \in RunArgs |-> <<>>], script |-> <<>>, trail |-> FALSE]

NameOf(t) == IF t.k = "short" THEN IF t.n \in DOMAIN Shorts THEN Shorts[t.n] ELSE "?"
                              ELSE t.n

Declared(m, n) == n \in RootArgs \/ (m.lvl = "run" /\ n \in RunArgs)

IsWord(argv, i) == i <= Len(argv) /\ argv[i].k = "word"

Fail(m) == [m EXCEPT !.err = TRUE]

Put(m, n, vs) == [m EXCEPT !.has = @ \cup {n}, !.val[n] = vs]

\* Mutant: watch_arg(true) without require_equals, so a bare --watch takes
\* the next word as a path to watch.
MatchOptionWatchTakesNext(argv, i, m) ==
  LET t == argv[i]  n == NameOf(t) IN
  IF ~Declared(m, n) \/ n \in m.has THEN [m |-> Fail(m), used |-> 1]
  ELSE IF n = "watch" /\ ~t.eq /\ IsWord(argv, i + 1)
  THEN [m |-> Put(m, n, <<argv[i + 1].n>>), used |-> 2]
  ELSE CASE n \in Switches  -> [m |-> IF t.eq THEN Fail(m) ELSE Put(m, n, <<>>), used |-> 1]
         [] n \in Lists     -> [m |-> Put(m, n, t.v), used |-> 1]
         [] n \in Optionals -> [m |-> IF Len(t.v) > 1 THEN Fail(m) ELSE Put(m, n, t.v),
                                used |-> 1]
         [] OTHER -> IF t.eq THEN [m |-> Put(m, n, t.v), used |-> 1]
                     ELSE IF IsWord(argv, i + 1)
                          THEN [m |-> Put(m, n, <<argv[i + 1].n>>), used |-> 2]
                          ELSE [m |-> Fail(m), used |-> 1]

(* Match an option token at i: the matches and the tokens it consumed.    *)
MatchOption(argv, i, m) ==
  LET t == argv[i]  n == NameOf(t) IN
  IF ~Declared(m, n) \/ n \in m.has THEN [m |-> Fail(m), used |-> 1]
  ELSE CASE n \in Switches  -> [m |-> IF t.eq THEN Fail(m) ELSE Put(m, n, <<>>), used |-> 1]
         [] n \in Lists     -> [m |-> Put(m, n, t.v), used |-> 1]
         [] n \in Optionals -> [m |-> IF Len(t.v) > 1 THEN Fail(m) ELSE Put(m, n, t.v),
                                used |-> 1]
         [] OTHER -> \* Valued
              IF t.eq THEN [m |-> Put(m, n, t.v), used |-> 1]
              ELSE IF IsWord(argv, i + 1)
                   THEN [m |-> Put(m, n, <<argv[i + 1].n>>), used |-> 2]
                   ELSE [m |-> Fail(m), used |-> 1]

RECURSIVE MatchFrom(_, _, _)
MatchFrom(argv, i, m) ==
  IF i > Len(argv) \/ m.err THEN m
  ELSE LET t == argv[i] IN
       IF m.trail
       THEN MatchFrom(argv, i + 1, [m EXCEPT !.script = Append(@, t)])
       ELSE IF t.k = "word"
       THEN IF m.lvl = "run"
            THEN MatchFrom(argv, i + 1, [m EXCEPT !.script = <<t>>, !.trail = TRUE])
            ELSE IF t.n = "run"
                 THEN MatchFrom(argv, i + 1, [m EXCEPT !.lvl = "run"])
                 ELSE Fail(m)                       \* unrecognized subcommand
       ELSE LET r == MatchOption(argv, i, m) IN MatchFrom(argv, i + r.used, r.m)

(* The validation clap does after matching: value_parser of --log-level,  *)
(* conflicts, requires, and script_arg required unless --v8-flags.        *)
Valid(m) ==
  /\ ~m.err
  /\ "log-level" \in m.has => ToSet(m.val["log-level"]) \subseteq LogLevels
  /\ \A c \in Conflicts : ~(c[1] \in m.has /\ c[2] \in m.has)
  /\ \A r \in Requires : r[1] \in m.has => r[2] \in m.has
  /\ m.lvl = "run" => (m.script # <<>> \/ "v8-flags" \in m.has)

(* argv[0] is the binary name, which clap skips. *)
Matches(args) == MatchFrom(args, 2, NoMatches)

-----------------------------------------------------------------------------
(* The Flags the *_parse functions build.  An Option is a sequence of     *)
(* length 0 or 1; perm holds the allow lists that are Some.               *)
Flag == [res |-> "ok", unstable |-> FALSE, log |-> "none", sub |-> "none",
         script |-> "", argv |-> <<>>, perm |-> {},
         allow |-> [k \in PermKinds |-> <<>>], hrtime |-> FALSE, all |-> FALSE,
         noPrompt |-> FALSE, watch |-> <<>>, noClear |-> FALSE, inspect |-> <<>>,
         v8 |-> <<>>, seed |-> <<>>, config |-> "discover", configPath |-> <<>>]

Some(f, k, vs) == [f EXCEPT !.perm = @ \cup {k}, !.allow[k] = vs]

(* config_args_parse. *)
ConfigArgsParse(f, m) ==
  IF "no-config" \in m.has THEN [f EXCEPT !.config = "disabled"]
  ELSE IF "config" \in m.has
       THEN [f EXCEPT !.config = "path", !.configPath = m.val["config"]]
       ELSE [f EXCEPT !.config = "discover"]

(* permission_args_parse: each allow list given becomes Some; --allow-all *)
(* then grants every list but the certificate one, and hrtime.           *)
AllowAllKinds == PermKinds \ {"unsafely-ignore-certificate-errors"}
PermissionArgsParse(f, m) ==
  LET lists == [f EXCEPT !.perm = m.has \cap PermKinds,
                         !.allow = [k \in PermKinds |-> m.val[k]],
                         !.hrtime = @ \/ "allow-hrtime" \in m.has]
  IN [IF "allow-all" \in m.has
      THEN [lists EXCEPT !.all = TRUE, !.perm = @ \cup AllowAllKinds,
                         !.allow = [k \in PermKinds |->
                                      IF k \in AllowAllKinds THEN <<>> ELSE @[k]],
                         !.hrtime = TRUE]
      ELSE lists
     EXCEPT !.noPrompt = "no-prompt" \in m.has]

(* v8_flags_arg_parse replaces the list; seed_arg_parse then appends.     *)
V8FlagsArgParse(f, m) ==
  IF "v8-flags" \in m.has THEN [f EXCEPT !.v8 = m.val["v8-flags"]] ELSE f
RandomSeedFlag(s) == "--random-seed=" \o s
SeedArgParse(f, m) ==
  IF "seed" \in m.has
  THEN [f EXCEPT !.seed = m.val["seed"], !.v8 = Append(@, RandomSeedFlag(m.val["seed"][1]))]
  ELSE f

(* runtime_args_parse: compile_args_parse (config), cached-only,          *)
(* permission_args_parse, location, v8 flags, seed, testing features, in  *)
(* that order.  It never calls inspect_arg_parse.                         *)
RuntimeArgsParse(f, m) ==
  SeedArgParse(V8FlagsArgParse(PermissionArgsParse(ConfigArgsParse(f, m), m), m), m)

(* script_arg's default_value_ifs: `_` when --v8-flags asks for help.     *)
ScriptArgs(m) ==
  IF m.script = <<>> /\ ToSet(m.val["v8-flags"]) \cap {"--help", "-help"} # {}
  THEN <<Word("_")>> ELSE m.script

(* watch_arg_parse(.., true). *)
WatchArgParse(f, m) ==
  [f EXCEPT !.watch = IF "watch" \in m.has THEN <<m.val["watch"]>> ELSE <<>>,
            !.noClear = "no-clear-screen" \in m.has]

(* run_parse: `script_arg.next().unwrap()` panics when there is none.     *)
RunParse(f, m) ==
  IF ScriptArgs(m) = <<>> THEN [f EXCEPT !.res = "panic"]
  ELSE LET g == RuntimeArgsParse(f, m) IN
       WatchArgParse([g EXCEPT !.script = ScriptArgs(m)[1].n,
                               !.argv = Tail(ScriptArgs(m)), !.sub = "run"], m)

(* handle_repl_flags for the default command: every permission.          *)
HandleReplFlags(f) ==
  [f EXCEPT !.sub = "repl", !.perm = AllowAllKinds,
            !.allow = [k \in PermKinds |-> <<>>], !.hrtime = TRUE]

(* flags_from_vec. *)
FlagsFromVec(args) ==
  LET m == Matches(args)
      f == [Flag EXCEPT !.unstable = "unstable" \in m.has,
                        !.log = IF "quiet" \in m.has THEN "error"
                                ELSE IF "log-level" \in m.has
                                     THEN m.val["log-level"][1] ELSE "none"]
  IN IF ~Valid(m) THEN [Flag EXCEPT !.res = "error"]
     ELSE IF m.lvl = "run" THEN RunParse(f, m) ELSE HandleReplFlags(f)

=============================================================================
