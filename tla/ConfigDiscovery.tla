--------------------------- MODULE ConfigDiscovery ----------------------------
(***************************************************************************)
(* ConfigFile::discover (args/config_file.rs) for the Flags of a `run`:   *)
(* which deno.json or deno.jsonc a runtime reads.  Flags::config_path_args *)
(* gives the script's own path as the first place to look; discover_from  *)
(* walks each start path's ancestors, nearest first, and shares one       *)
(* `checked` set between the walks, so the walk up from the working      *)
(* directory skips the directories the first walk already read.           *)
(*                                                                         *)
(* A path is a sequence of names (<<>> is the root).  Fs maps a config    *)
(* file path to what ConfigFile::read finds there: "absent" (the exists() *)
(* check fails: an InvalidInput io error, skipped), "ok", or "bad" (the   *)
(* file exists but read_to_string, the JSONC parse or the serde           *)
(* conversion fails: an anyhow error, which stops the search).            *)
(***************************************************************************)
EXTENDS Naturals, Sequences, SequencesExt

ReadStatuses == {"absent", "ok", "bad"}

(* CONFIG_FILE_NAMES, in the order discover_from tries them. *)
ConfigFileNames == <<"deno.json", "deno.jsonc">>

(* Path::ancestors: the path itself, its parent, ..., the root. *)
Ancestors(p) == [i \in 1 .. Len(p) + 1 |-> SubSeq(p, 1, Len(p) + 1 - i)]

Status(fs, f) == IF f \in DOMAIN fs THEN fs[f] ELSE "absent"

\* Mutant: every read error passed over, as the io::Error arm's comment
\* "ok keep going" would have it for parse errors too.
ReadSkipErrors(fs, f) ==
  IF Status(fs, f) = "ok" THEN [res |-> "found", file |-> f] ELSE [res |-> "skip", file |-> f]

(* ConfigFile::read of one file, as discover_from's match sees it. *)
Read(fs, f) ==
  CASE Status(fs, f) = "ok"     -> [res |-> "found", file |-> f]
    [] Status(fs, f) = "absent" -> [res |-> "skip", file |-> f]
    [] OTHER                    -> [res |-> "error", file |-> f]

(* The inner loop over CONFIG_FILE_NAMES in one directory. *)
RECURSIVE ReadNames(_, _, _)
ReadNames(fs, dir, j) ==
  IF j > Len(ConfigFileNames) THEN [res |-> "skip", file |-> dir]
  ELSE LET r == Read(fs, Append(dir, ConfigFileNames[j])) IN
       IF r.res = "skip" THEN ReadNames(fs, dir, j + 1) ELSE r

(* discover_from(start, checked): the result and the checked set after.  *)
RECURSIVE WalkFrom(_, _, _, _)
WalkFrom(fs, as, i, checked) ==
  IF i > Len(as) THEN [res |-> "none", file |-> <<>>, checked |-> checked]
  ELSE IF as[i] \in checked THEN WalkFrom(fs, as, i + 1, checked)
  ELSE LET r == ReadNames(fs, as[i], 1) IN
       IF r.res = "skip" THEN WalkFrom(fs, as, i + 1, checked \cup {as[i]})
       ELSE [res |-> r.res, file |-> r.file, checked |-> checked \cup {as[i]}]

DiscoverFrom(fs, start, checked) == WalkFrom(fs, Ancestors(start), 1, checked)

(* Flags::config_path_args for Run: resolve_url_or_path(script, cwd) is  *)
(* given as spec, a record [scheme, path]; a file: specifier gives its    *)
(* path, npm: gives none (to_file_path fails), a remote one stops the     *)
(* discovery altogether.                                                  *)
ConfigPathArgs(spec) ==
  CASE spec.scheme = "file" -> [some |-> TRUE, paths |-> <<spec.path>>]
    [] spec.scheme = "npm"  -> [some |-> TRUE, paths |-> <<>>]
    [] OTHER                -> [some |-> FALSE, paths |-> <<>>]

(* The loop over config_path_args, then the walk up from cwd, with the    *)
(* checked set threaded through.                                          *)
RECURSIVE DiscoverEach(_, _, _, _, _)
DiscoverEach(fs, starts, i, cwd, checked) ==
  IF i > Len(starts) THEN DiscoverFrom(fs, cwd, checked)
  ELSE LET r == DiscoverFrom(fs, starts[i], checked) IN
       IF r.res = "none" THEN DiscoverEach(fs, starts, i + 1, cwd, r.checked) ELSE r

(* ConfigFile::discover: config is the ConfigFlag, path the --config      *)
(* value made absolute against cwd, spec the resolved script.             *)
Discover(fs, config, path, spec, cwd) ==
  CASE config = "disabled" -> [res |-> "none", file |-> <<>>]
    [] config = "path"     -> LET r == Read(fs, path) IN
                              [res |-> IF r.res = "found" THEN "found" ELSE "error",
                               file |-> path]
    [] OTHER -> LET a == ConfigPathArgs(spec) IN
                IF ~a.some THEN [res |-> "none", file |-> <<>>]
                ELSE LET r == DiscoverEach(fs, a.paths, 1, cwd, {}) IN
                     [res |-> r.res, file |-> r.file]
=============================================================================
