------------------------------ MODULE Documents ------------------------------
(***************************************************************************)
(* The LSP document store (src/service/src/lsp/documents.rs).  Documents   *)
(* keeps the documents open in the editor (open_docs), documents read from *)
(* disk (file_system_docs, each with the fs_version it was read at), and a *)
(* dependents_map from a module to the modules that import it.  The map is *)
(* a cache: every mutation sets `dirty` (or the file-system docs' `dirty`) *)
(* and calculate_dependents_if_dirty rebuilds it on the next dependents() *)
(* call.  The rebuild analyzes the stored file-system docs, then the open  *)
(* docs, then loads from disk every import it has not analyzed yet.       *)
(*                                                                         *)
(* A document is abstracted to the set of documents it imports (after     *)
(* resolution).  HashMap iteration order is free.  Every document exists  *)
(* on disk; an external editor may rewrite it, bumping its fs_version.    *)
(***************************************************************************)
EXTENDS Naturals, FiniteSets, Functions, SequencesExt, Relation

CONSTANTS
  Docs,         \* module specifiers
  InitialDisk,  \* imports of each file on disk at start
  MaxEdits,     \* bound on open/change/disk writes
  Fs,           \* paths on disk, each a sequence of entry names (numbers
                \* ordered as the names sort); << >> is the drive root
  DirPaths,     \* the paths of Fs that are directories
  IgnoredDirs,  \* node_modules, .git and cargo target directories
  Minified,     \* files whose name contains ".min."
  PathOf,       \* the file of each module specifier
  UrlInputs,    \* enabled_urls update_config may be given
  Limits        \* document_preload_limit values

ASSUME /\ InitialDisk \in [Docs -> SUBSET Docs] /\ MaxEdits \in Nat
       /\ DirPaths \subseteq Fs /\ IgnoredDirs \subseteq DirPaths
       /\ Minified \subseteq Fs \ DirPaths
       /\ PathOf \in [Docs -> Fs \ DirPaths] /\ IsInjective(PathOf)
       /\ UrlInputs \subseteq SUBSET Fs /\ Limits \subseteq Nat

VARIABLES
  disk,      \* imports of each file on disk
  diskVer,   \* calculate_fs_version of each file
  openDocs,  \* open_docs: specifier -> imports
  fsDocs,    \* file_system_docs.docs: specifier -> [imp, ver]
  dirty,     \* Documents.dirty
  fsDirty,   \* FileSystemDocuments.dirty
  depMap,    \* dependents_map (a missing key is the empty set)
  edits,     \* edits so far (bound only)
  hash       \* resolver_config_hash: the hashed inputs, << >> at start

vars == <<disk, diskVer, openDocs, fsDocs, dirty, fsDirty, depMap, edits, hash>>

Without(f, s) == Restrict(f, DOMAIN f \ {s})

\* FileSystemDocuments::get: re-read the file when the stored fs_version
\* differs from the one on disk (or nothing is stored).
FsGet(fs, s) ==
  IF s \in DOMAIN fs /\ fs[s].ver = diskVer[s] THEN fs
  ELSE (s :> [imp |-> disk[s], ver |-> diskVer[s]]) @@ fs

Stale(fs, s) == ~(s \in DOMAIN fs /\ fs[s].ver = diskVer[s])

(* DocAnalyzer::analyze_doc: mark the document analyzed; every import is   *)
(* recorded as a dependency edge and, when not analyzed yet, marked and   *)
(* queued for loading.                                                    *)
AnalyzeDoc(st, s, imps) ==
  [analyzed |-> st.analyzed \cup {s} \cup imps,
   pending  |-> st.pending \cup (imps \ (st.analyzed \cup {s})),
   dep      |-> [d \in Docs |-> IF d \in imps THEN st.dep[d] \cup {s}
                                              ELSE st.dep[d]]]

RECURSIVE AnalyzeAll(_, _)
AnalyzeAll(st, list) ==
  IF list = <<>> THEN st
  ELSE AnalyzeAll(AnalyzeDoc(st, Head(list)[1], Head(list)[2]), Tail(list))

(* `while let Some(specifier) = pending.pop_front()`: load the document   *)
(* from the file-system store (re-reading it from disk if stale) and      *)
(* analyze it.  The pop order does not change the result.                 *)
RECURSIVE Drain(_, _)
Drain(st, fs) ==
  IF st.pending = {} THEN [st |-> st, fs |-> fs]
  ELSE LET x   == CHOOSE x \in st.pending : TRUE
           fs2 == FsGet(fs, x)
       IN  Drain(AnalyzeDoc([st EXCEPT !.pending = @ \ {x}], x, fs2[x].imp), fs2)

\* Mutant: recurse_dependents without the recursive call.
RecurseDependentsShallow(s, map, acc) == acc \cup map[s]

(* recurse_dependents: add every dependent not seen yet and recurse into  *)
(* it.                                                                    *)
RECURSIVE RecurseDependents(_, _, _)
RecurseDependents(s, map, acc) ==
  LET RECURSIVE Loop(_, _)
      Loop(deps, a) ==
        IF deps = {} THEN a
        ELSE LET dep == CHOOSE x \in deps : TRUE
             IN  Loop(deps \ {dep},
                      IF dep \in a THEN a
                      ELSE RecurseDependents(dep, map, a \cup {dep}))
  IN Loop(map[s], acc)

-----------------------------------------------------------------------------
(***************************************************************************)
(* Config::enabled_urls (src/service/src/lsp/config.rs): no url when the  *)
(* workspace is disabled and no path is enabled; else every enabled path  *)
(* of every workspace (the workspace itself when it lists none), falling  *)
(* back to the root uri.  A config is a record: enable, root (the root    *)
(* uri as a set of at most one path) and paths (workspace -> its enabled  *)
(* paths).  The sort only fixes the order, which the finder's result does *)
(* not depend on, so the urls are a set.                                  *)
(***************************************************************************)
EnabledUrls(cfg) ==
  IF ~cfg.enable /\ DOMAIN cfg.paths = {} THEN {}
  ELSE LET urls == UNION {IF cfg.paths[w] # {} THEN cfg.paths[w] ELSE {w}
                            : w \in DOMAIN cfg.paths}
       IN  IF urls = {} THEN cfg.root ELSE urls

(* Path order (PathBuf's Ord, component by component) and starts_with.   *)
PathLess(p, q) ==
  \/ IsStrictPrefix(p, q)
  \/ \E i \in 1 .. Len(p) : /\ i <= Len(q) /\ p[i] < q[i]
                           /\ SubSeq(p, 1, i - 1) = SubSeq(q, 1, i - 1)

(* sort_and_remove_non_leaf_dirs: nothing to do without dirs; else sort, *)
(* then for i from len-2 down to 0 remove dirs[i+1] when it starts with  *)
(* dirs[i].                                                               *)
SortAndRemoveNonLeafDirs(dirs) ==
  LET RECURSIVE Loop(_, _)
      Loop(d, i) ==
        IF i = 0 THEN d
        ELSE Loop(IF IsPrefix(d[i], d[i + 1]) THEN RemoveAt(d, i + 1) ELSE d,
                  i - 1)
      sorted == SetToSortSeq(dirs, PathLess)
  IN  IF dirs = {} THEN << >> ELSE Loop(sorted, Len(sorted) - 1)

(* A PendingEntry, as a record of one shape: a SpecifiedRootFile, a Dir   *)
(* queued to read, or a ReadDir with the entries it has not returned yet  *)
(* (fs::read_dir order is taken to be name order).                        *)
RootFile(p) == [k |-> "root", p |-> p, rest |-> << >>]
DirEntry(p) == [k |-> "dir", p |-> p, rest |-> << >>]
ReadDir(es) == [k |-> "read", p |-> << >>, rest |-> es]

Entries(d) == SetToSortSeq({e \in Fs : Len(e) = Len(d) + 1 /\ IsPrefix(d, e)},
                           PathLess)

(* from_enabled_urls_with_limit: urls that are not directories become     *)
(* root files; directories other than a drive root are queued after them, *)
(* once sort_and_remove_non_leaf_dirs has pruned them.                    *)
FromEnabledUrlsWithLimit(urls) ==
  LET roots == SetToSeq(urls \ DirPaths)
      dirs  == SortAndRemoveNonLeafDirs({u \in urls \cap DirPaths : Len(u) > 0})
  IN  [i \in 1 .. Len(roots) |-> RootFile(roots[i])]
      \o [i \in 1 .. Len(dirs) |-> DirEntry(dirs[i])]

(* get_valid_specifier: the file has a module media type.  is_discoverable *)
(* _dir and is_discoverable_file: not an ignored directory, not minified. *)
IsModule(p) == \E s \in Docs : PathOf[s] = p
IsDiscoverableDir(p) == p \notin IgnoredDirs
IsDiscoverableFile(p) == p \notin Minified

\* Mutant: a yielded file's directory is not pushed back to the front.
ResumeNoRestore(rest, q, yielded) ==
  IF yielded THEN q ELSE <<ReadDir(rest)>> \o q

(* After an entry the directory read continues: when a file was yielded, *)
(* "restore the next entries for next time" with push_front.              *)
Resume(rest, q, yielded) == <<ReadDir(rest)>> \o q

(* PreloadDocumentFinder::next, run until it returns None: the files it  *)
(* yields and the final entry_count.  Every entry read from a directory  *)
(* counts; the one that makes the count reach the limit clears the queue *)
(* and ends the walk before it is looked at.                              *)
RECURSIVE Walk(_, _, _, _)
Walk(q, count, limit, found) ==
  IF q = << >> THEN [found |-> found, count |-> count]
  ELSE LET e == Head(q)
       IN  CASE e.k = "root" ->
                  Walk(Tail(q), count, limit,
                       IF IsModule(e.p) THEN found \cup {e.p} ELSE found)
             [] e.k = "dir" ->
                  Walk(Append(Tail(q), ReadDir(Entries(e.p))), count, limit, found)
             [] e.k = "read" /\ e.rest = << >> ->
                  Walk(Tail(q), count, limit, found)
             [] e.k = "read" /\ e.rest # << >> ->
                  LET x     == Head(e.rest)
                      isDir == x \in DirPaths
                      yield == ~isDir /\ IsDiscoverableFile(x) /\ IsModule(x)
                  IN  IF count + 1 >= limit
                        THEN [found |-> found, count |-> count + 1]
                        ELSE Walk(Resume(Tail(e.rest),
                                         IF isDir /\ IsDiscoverableDir(x)
                                           THEN Append(Tail(q), DirEntry(x))
                                           ELSE Tail(q),
                                         yield),
                                  count + 1, limit,
                                  IF yield THEN found \cup {x} ELSE found)

(* The specifiers refresh_dependencies takes from the finder, and         *)
(* hit_limit() afterwards: entry_count >= limit.                          *)
Preload(urls, limit) ==
  LET w == Walk(FromEnabledUrlsWithLimit(urls), 0, limit, {})
  IN  [found |-> {s \in Docs : PathOf[s] \in w.found},
       hit   |-> w.count >= limit]

\* The finder's result for each input, computed once (it reads no variable).
PreloadOf == [in \in UrlInputs \X Limits |-> Preload(in[1], in[2])]

-----------------------------------------------------------------------------
(* Documents::new: nothing loaded, dirty, resolver_config_hash 0. *)
Init ==
  /\ disk = InitialDisk
  /\ diskVer = [s \in Docs |-> 1]
  /\ openDocs = << >>
  /\ fsDocs = << >>
  /\ dirty = TRUE
  /\ fsDirty = FALSE
  /\ depMap = [d \in Docs |-> {}]
  /\ edits = 0
  /\ hash = << >>

(* An editor outside the language server rewrites a file. *)
DiskWrite(s, imps) ==
  /\ edits < MaxEdits
  /\ disk' = [disk EXCEPT ![s] = imps]
  /\ diskVer' = [diskVer EXCEPT ![s] = @ + 1]
  /\ edits' = edits + 1
  /\ UNCHANGED <<openDocs, fsDocs, dirty, fsDirty, depMap, hash>>

(* Documents::open: drop any file-system copy, insert the open document. *)
Open(s, imps) ==
  /\ edits < MaxEdits
  /\ openDocs' = (s :> imps) @@ openDocs
  /\ fsDocs' = Without(fsDocs, s)
  /\ fsDirty' = TRUE
  /\ dirty' = TRUE
  /\ edits' = edits + 1
  /\ UNCHANGED <<disk, diskVer, depMap, hash>>

\* Mutant: change() without `self.dirty = true`.
ChangeNoDirty(s, imps) ==
  /\ edits < MaxEdits
  /\ s \in DOMAIN openDocs \cup DOMAIN fsDocs
  /\ fsDocs' = IF s \in DOMAIN openDocs THEN fsDocs ELSE Without(fsDocs, s)
  /\ openDocs' = (s :> imps) @@ openDocs
  /\ edits' = edits + 1
  /\ UNCHANGED <<disk, diskVer, dirty, fsDirty, depMap, hash>>

(* Documents::change: take the open document, or else remove the file-   *)
(* system one (NotFound when neither), apply the edit (a failed parse    *)
(* keeps the last good dependencies: some set of imports either way) and *)
(* store the result as open.                                              *)
Change(s, imps) ==
  /\ edits < MaxEdits
  /\ s \in DOMAIN openDocs \cup DOMAIN fsDocs
  /\ fsDocs' = IF s \in DOMAIN openDocs THEN fsDocs ELSE Without(fsDocs, s)
  /\ openDocs' = (s :> imps) @@ openDocs
  /\ dirty' = TRUE
  /\ edits' = edits + 1
  /\ UNCHANGED <<disk, diskVer, fsDirty, depMap, hash>>

(* Documents::close: an open document is dropped (dirty); otherwise a     *)
(* file-system one (its dirty); otherwise NotFound and nothing changes.  *)
Close(s) ==
  /\ s \in DOMAIN openDocs \cup DOMAIN fsDocs
  /\ IF s \in DOMAIN openDocs
       THEN /\ openDocs' = Without(openDocs, s)
            /\ dirty' = TRUE
            /\ UNCHANGED <<fsDocs, fsDirty>>
       ELSE /\ fsDocs' = Without(fsDocs, s)
            /\ fsDirty' = TRUE
            /\ UNCHANGED <<openDocs, dirty>>
  /\ UNCHANGED <<disk, diskVer, depMap, edits, hash>>

(* Documents::get of a document that is not open: FileSystemDocuments::  *)
(* get re-reads a stale file (refresh_document marks the store dirty).    *)
Get(s) ==
  /\ s \notin DOMAIN openDocs
  /\ Stale(fsDocs, s)
  /\ fsDocs' = FsGet(fsDocs, s)
  /\ fsDirty' = TRUE
  /\ UNCHANGED <<disk, diskVer, openDocs, dirty, depMap, edits, hash>>

\* Mutant: the clean-up of unyielded files done even when the limit was hit.
RefreshDependenciesAlwaysClean(found, hitLimit) ==
  LET loaded == [s \in DOMAIN fsDocs \cup (found \ DOMAIN openDocs) |->
                   IF s \in DOMAIN fsDocs THEN fsDocs[s]
                   ELSE [imp |-> disk[s], ver |-> diskVer[s]]]
  IN  Restrict(loaded, DOMAIN loaded \cap found)

(* refresh_dependencies: the preload finder yields some files (all under  *)
(* the enabled paths, or fewer when it hits the preload limit; none with *)
(* a limit of 0).  A yielded file neither open nor stored is read; when   *)
(* the limit was not hit, stored files not yielded are dropped.           *)
RefreshDependencies(found, hitLimit) ==
  LET loaded == [s \in DOMAIN fsDocs \cup (found \ DOMAIN openDocs) |->
                   IF s \in DOMAIN fsDocs THEN fsDocs[s]
                   ELSE [imp |-> disk[s], ver |-> diskVer[s]]]
  IN  IF hitLimit THEN loaded
      ELSE Restrict(loaded, DOMAIN loaded \cap found)

(* Documents::update_config: the resolver configuration hash covers the  *)
(* sorted enabled urls and the preload limit (the import map, jsx and     *)
(* package.json inputs are fixed here).  Only when it changed are the     *)
(* dependencies refreshed: with a positive limit from what the preload    *)
(* finder yields, with a limit of 0 not at all; either way the file-      *)
(* system store is marked dirty.  Documents.dirty is set in any case.     *)
UpdateConfig(urls, limit) ==
  /\ IF <<urls, limit>> # hash
       THEN LET p == PreloadOf[<<urls, limit>>]
            IN  /\ fsDocs' = IF limit > 0 THEN RefreshDependencies(p.found, p.hit)
                                          ELSE fsDocs
                /\ fsDirty' = TRUE
                /\ hash' = <<urls, limit>>
       ELSE UNCHANGED <<fsDocs, fsDirty, hash>>
  /\ dirty' = TRUE
  /\ UNCHANGED <<disk, diskVer, openDocs, depMap, edits>>

(* calculate_dependents_if_dirty, run by dependents() and               *)
(* npm_package_reqs(): when either store is dirty, analyze the stored    *)
(* file-system docs and then the open docs, each in HashMap order, drain *)
(* the queue of unanalyzed imports from disk, replace dependents_map and  *)
(* clear both flags.                                                      *)
CalculateDependents ==
  /\ dirty \/ fsDirty
  /\ \E fsOrder \in SetToSeqs(DOMAIN fsDocs),
        openOrder \in SetToSeqs(DOMAIN openDocs) :
       LET list == [i \in 1 .. Len(fsOrder) |-> <<fsOrder[i], fsDocs[fsOrder[i]].imp>>]
                   \o [i \in 1 .. Len(openOrder) |-> <<openOrder[i], openDocs[openOrder[i]]>>]
           st0  == [analyzed |-> {}, pending |-> {}, dep |-> [d \in Docs |-> {}]]
           res  == Drain(AnalyzeAll(st0, list), fsDocs)
       IN  /\ depMap' = res.st.dep
           /\ fsDocs' = res.fs
  /\ dirty' = FALSE
  /\ fsDirty' = FALSE
  /\ UNCHANGED <<disk, diskVer, openDocs, edits, hash>>

Next ==
  \/ \E s \in Docs, imps \in SUBSET Docs :
       DiskWrite(s, imps) \/ Open(s, imps) \/ Change(s, imps)
  \/ \E s \in Docs : Close(s) \/ Get(s)
  \/ \E urls \in UrlInputs, limit \in Limits : UpdateConfig(urls, limit)
  \/ CalculateDependents

Spec == Init /\ [][Next]_vars

-----------------------------------------------------------------------------
Clean == ~dirty /\ ~fsDirty

\* Imports of a stored document as the store holds it.
Imports(s) == IF s \in DOMAIN openDocs THEN openDocs[s] ELSE fsDocs[s].imp

(* dependents() is used to invalidate the diagnostics of importers when a *)
(* module changes.  While both dirty flags are clear, every import of     *)
(* every stored document, open or from disk, is an edge of the cached     *)
(* dependents_map: no mutation leaves the cache clean and out of date.    *)
DependentsComplete ==
  Clean =>
    /\ \A s \in DOMAIN openDocs : \A d \in openDocs[s] : s \in depMap[d]
    /\ \A s \in DOMAIN fsDocs : \A d \in fsDocs[s].imp : s \in depMap[d]

(* recurse_dependents computes, for every module, exactly the modules     *)
(* that reach it through dependents_map edges: the transitive closure.    *)
DependentsTransitive ==
  LET R == [p \in Docs \X Docs |-> p[2] \in depMap[p[1]]]
      TC == TransitiveClosure(R, Docs)
  IN  \A s \in Docs :
        RecurseDependents(s, depMap, {}) = {y \in Docs : TC[s, y]}

(* What a preload should yield: every enabled url that is a module file,  *)
(* and every module, not minified, below an enabled directory (never the  *)
(* drive root) with no ignored directory between the two.  Directories   *)
(* below another enabled one are not walked from themselves: the doc     *)
(* comment of sort_and_remove_non_leaf_dirs removes "any directorys that *)
(* are a descendant of another directory in the collection".             *)
TopDirs(urls) ==
  LET dirs == {u \in urls \cap DirPaths : Len(u) > 0}
  IN  {d \in dirs : ~\E v \in dirs : IsStrictPrefix(v, d)}

Discoverable(d, p) ==
  /\ IsStrictPrefix(d, p)
  /\ \A i \in Len(d) + 1 .. Len(p) - 1 : SubSeq(p, 1, i) \notin IgnoredDirs

PreloadTarget(urls) ==
  {s \in Docs : \/ PathOf[s] \in urls
                \/ /\ PathOf[s] \notin Minified
                   /\ \E d \in TopDirs(urls) : Discoverable(d, PathOf[s])}

(* update_config with a new hash and a positive preload limit that the    *)
(* finder did not hit leaves the file-system store holding exactly the    *)
(* modules the enabled urls call for, less those that are open: the walk  *)
(* of PreloadDocumentFinder::next (root files, the directory queue, the  *)
(* ReadDir pushed back after each yield, the ignore and minified rules)  *)
(* and the clean-up of refresh_dependencies together find every one of   *)
(* them and keep nothing else.                                            *)
PreloadExact ==
  [][ /\ hash' # hash
      /\ hash'[2] > 0
      /\ ~PreloadOf[hash'].hit
      => /\ DOMAIN fsDocs' \subseteq PreloadTarget(hash'[1])
         /\ PreloadTarget(hash'[1]) \subseteq DOMAIN fsDocs' \cup DOMAIN openDocs'
    ]_vars

(* update_config whose preload stops at document_preload_limit (the count *)
(* of PreloadDocumentFinder::next reaching the limit, the last entry      *)
(* included, as at documents.rs:1497) keeps every document the file-      *)
(* system store already held, since the walk may not have reached it, and *)
(* adds only modules the enabled urls call for: a truncated walk never   *)
(* drops a stored module nor loads one outside the enabled paths.         *)
PreloadLimitKeepsStore ==
  [][ /\ hash' # hash
      /\ hash'[2] > 0
      /\ PreloadOf[hash'].hit
      => /\ DOMAIN fsDocs \subseteq DOMAIN fsDocs'
         /\ DOMAIN fsDocs' \subseteq DOMAIN fsDocs \cup PreloadTarget(hash'[1])
    ]_vars
=============================================================================
