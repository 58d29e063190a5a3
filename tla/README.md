# Model checking the DenoCool gateway

This directory holds TLA+ models of DenoCool (`src/`), together with the TLC
configurations that check them. DenoCool is a multi-tenant gateway called
cassie-cool (`src/cassie-cool`). It runs Deno script runtimes, built from the
service crate `src/service`, inside the gateway process. Each tenant gets a
local port and an HTTP listener task. A reverse proxy routes traffic to that
port, and a control API starts and stops the tenant's runtimes. `PROJECT.json`
is the machine-readable index: the components, the runs, the mutants, the map
from each definition to its source lines, the findings and the hazards.

## 1. Inventory

### Parts of the system and how they interact

| Part | Code | State | Operations |
|---|---|---|---|
| Port allocator | `worker_util.rs` 23-35, 273-289 | `WORKER_PORT` (a `Mutex<u16>` cursor, initially 3000); `PORT_TABLE` (an `RwLock` map from tenant to port) | `get_next_port`, `WorkerPort::next`; the entry is removed in `Drop` |
| Tenant registry | `worker_util.rs` 25; `runtime_controller.rs` | `WORKER_TABLE` (a `std::sync::Mutex` map from tenant to `ScriptWorkerThread`) | insert in the start routes, remove in `exit` |
| Listener loop | `worker_util.rs` 77-107 | bound/unbound; flag `ok` (true means reject); the `server_rx` channel (bounded, capacity 1); the `stream_tx` channel (unbounded) | bind, accept, recv `Start`/`Wait`/`Exit` |
| Worker | `worker_util.rs` 58-254 | `worker_handlers` (the stack of `Terminate` handles), `watch_tx`, `open_debug_server` | `new`, `start_watch_runtime`, `stop_watch_runtime`, `start_debugger_runtime`, `start_runtime`, `stop_runtime`, `stop_all_runtime`, `Drop` |
| Stop tasks | `worker_util.rs` 120-130, 219-229 | tokio tasks spawned by stop operations | notify the runtime; then send `Wait` |
| Control API | `api/runtime_controller.rs` | none of its own | `/runtime/start`, `start_debugger`, `stop`, `exit`, `pro/start`, `pro/stop`, `info` |
| Reverse proxy | `lib.rs` 12-41 | reads `PORT_TABLE` | `forward` |
| Runtime launch | `worker_util.rs` 134-200; `args/flags.rs`; `args/config_file.rs` 639-752 | none: each runtime thread builds its `Flags` once | `env::args()` of the gateway plus `run [--unstable --watch] <project>`, parsed by `flags_from_vec`; `unstable` forced on, the inspector set from `open_debug_server`; `ConfigFile::discover` picks the config file |
| Script runtime | `service/src/tools/run.rs` | a deno `MainWorker` on its own thread | serves connections from `stream_rx` (the `cc_deno` op state); stops on its notify channel; may end by itself |

The control handlers run on actix worker threads. Each handler locks
`WORKER_TABLE` and keeps it through every `.await` of the worker operation.
This means operations on workers never overlap each other. Because
the lock is a std mutex, a route that waits at such an `.await` can also
leave the thread's other tasks, which it may itself be waiting for, stuck
behind a blocked `lock()`. GatewayThreads models this. The tasks those
operations spawn (the listener, the stop tasks) run concurrently on tokio, and
so do the runtime threads and the proxy. The listener and the worker
communicate only through the two channels.

The rest of `src/service` is the Deno command-line program the runtimes are
built from: argument parsing, the LSP, the test runner, the npm resolver,
bundle, doc, vendor, repl and tsc. It has no interaction with the gateway
beyond `run_script`. Its components are listed in `PROJECT.json`. Of these,
the LSP diagnostics server, the LSP document store and the test runner are
modelled.

`deno test` (`tools/test.rs`) is a program of its own. `test_specifiers`
spawns one blocking thread per test file, at most `concurrent_jobs` at a
time. Each thread runs `test_specifier` with a clone of one `TestEventSender`
and its own `FailFastTracker`. The events go into one unbounded channel that
a handler task drains into the summary. The workers' stdout and stderr are
the write ends of two pipes. A redirect thread per pipe turns what it reads
into `Output` events. Before a `Result` or an `UncaughtError`, the sender
flushes both pipes with a handshake: it parks a oneshot sender in the
pipe's state, writes a zero width space, and waits for the redirect
thread's answer.

### What makes the gateway hard

- **Concurrency.** Stop tasks, the listener, runtimes and routes interleave.
  A `Wait` sent by a stop task can overtake, or be overtaken by, a `Start` that
  a later route sent.
- **The bounded channel.** The `server_tx` channel has capacity 1.
  - Routes `await` on it while holding `WORKER_TABLE`.
  - `Drop` calls `send_blocking(Exit)` on it.
  - A listener whose bind failed never receives from it (the channel is closed
    once the task panics).
- **Allocation against other processes.** Ports are allocated against
  processes the gateway does not control (`is_free` is asked before the bind),
  and the cursor is a u16 with `checked_add`.
- **Lock scopes spanning awaits** in the control routes and in `forward`.

### Properties per part

| Part | Properties |
|---|---|
| Allocator | unique ports; a fresh port is not held by a draining listener; the allocator implements the abstract assignment of spec 4.1; every allocation completes |
| Worker and listener | no running runtime is left without a stop signal; the listener accepts iff some runtime is active (spec 4.4); at most one running runtime has the inspector (spec 4.4) |
| Test runner | every started test gets its result unless its file returned an error; the fail-fast counter stays within its bound; the summary is printed unless ctrl-c ends the process; a test's output is printed before its result; fail-fast stops the whole run |
| Document store | the dependents cache is complete when clean; `recurse_dependents` is the transitive closure; a preload that does not hit its limit stores exactly the enabled modules; one cut off by the limit drops nothing and loads nothing outside them |
| Runtime launch | every runtime the worker starts parses its command line and runs the tenant's own script with the right watch and inspector flags; it reads the nearest config file, and a broken one is an error, never skipped |

## 2. Modules

### `PortAllocator.tla` (with `MCPortAllocator.tla`)

This module covers several tenants with the port column only.

| Model | Code |
|---|---|
| `cursor` | `WORKER_PORT` |
| `portTable` | `PORT_TABLE` |
| `listener[p]` | the listener task on port `p`: `binding` after spawn, then `bound` or `failed` |
| `external` | ports held by other processes (`is_free`) |
| `alloc` | the tenant inside `get_next_port` |
| `poisoned` | the mutexes after a panic |

The actions map to the code as follows:

- `GetNextPortBegin` is the lock plus the first `unwrap`. If the cursor is at
  the top of the range, it sets `poisoned`.
- `GetNextPortProbe` is one turn of the `while let` loop. A busy candidate is a
  stuttering step, because `curport` never advances in the loop.
- `ListenerBind` is the task's `bind().unwrap()`.
- `Exit` is `Drop`'s `PORT_TABLE` removal.
- `ListenerExit` is the loop taking `Exit`.
- `ExternalBind` and `ExternalRelease` are other processes binding and
  releasing ports.

Ports have `PortBits` bits, so `checked_add` fails at `2^PortBits-1` just as
it fails at 65535.

`PortAssignment.tla` is what the allocator promises (spec 4.1), with no locks
and no intermediate steps. `Assign(t)` hands a tenant without a port the
first port after the cursor that nothing has bound, and moves the cursor
there, in one step. `Release`, `Occupy` and `Vacate` are an exit and ports
being bound and released on the host. PortAllocator instantiates it with
`table <- portTable` and `busy <- Busy` (the external ports plus the bound
listeners). `ImplementsPortAssignment == Assignment!Spec` is checked as a
property: each probe that stores a port is one `Assign`, and every other
allocator step is a stutter or one of the other three actions. The probe
steps that find the candidate busy, and `GetNextPortBegin`, change nothing
the abstract module sees.

### `Worker.tla` (with `MCWorker.tla`)

This module covers one tenant through successive workers (`gen`). `exit`
followed by `start` makes a new `ScriptWorkerThread`, with a new listener and
new channels. The old worker's tasks and listener keep running, so every
per-worker variable is a function of the generation.

| Model | Code |
|---|---|
| `exists` | the tenant is in `WORKER_TABLE` |
| `routed` | the tenant is in `PORT_TABLE` |
| `handlers` | `worker_handlers`, the stack of runtime ids |
| `watch` | `watch_tx` |
| `debug` | `open_debug_server` |
| `rt` | each runtime's generation, inspector flag, whether `start_watch_runtime` spawned it, its state, and whether its notify arrived |
| `chan[g]` | the `server_tx` buffer |
| `lst[g]`, `ok[g]` | the listener task and its flag |
| `incoming[g]` | accepted connections not yet handled |
| `queue[g]` | `stream_rx` |
| `tasks` | spawned stop tasks |
| `ctl` | a route or `Drop` blocked in a send on the full channel |

Route actions are the handlers of `runtime_controller.rs`. Because the handler
holds `WORKER_TABLE`, each handler is one step, except that a send finding the
channel full leaves `ctl` set. `RouteSend` completes that send, and every
other route waits for it, because they need the lock.

The remaining actions map as follows:

- `TaskNotify` and `TaskWait` are the two awaits of the task spawned in
  `stop_runtime` (and in `stop_watch_runtime`).
- `ListenerBind`, `ListenerAccept` and `ListenerRecv` are the listener task.
- `Connect` is `forward` reaching the port.
- `RuntimeServe`, `RuntimeStop` and `RuntimeEnd` are the runtime thread
  (`run_script`). `RuntimeEnd` is the script ending by itself: `select!` in
  `run.rs` returns and nothing tells the listener.

The bounded channel is modelled as follows:

- A send succeeds when the buffer is empty, or when the receiver has gone. In
  that case the message is dropped, since `send` returns `Err`.
- `CanSend` is the capacity-1 condition.
- `Deliver` appends the message, or drops it if the listener has gone.

Properties:

- `NoOrphanRuntime`: every running runtime is on the worker's stack, is the
  development runtime `watch_tx` stops, or has its stop in flight (also
  through `Drop`'s `stop_all_runtime`).
- `AcceptIffActive` (spec 4.4): the listener accepts iff a runtime or dev mode
  is active. TLC refutes it.
- `InspectorExclusive` (spec 4.4 and 3): at most one running runtime has the
  inspector on 127.0.0.1:9229. TLC refutes it: `open_debug_server` is never
  cleared, so a production start after `start_debugger` opens a second one.

A connection accepted after the script ended by itself is queued for a later
runtime. Spec 7 documents that such a runtime counts as running until it is
stopped, so this is not stated as a property.

### `GatewayThreads.tla` (with `MCGatewayThreads.tla`)

This module asks what the control routes' lock scopes do to the threads they
run on. `HttpServer` (`main.rs` 16-28) runs each request on one of several
worker threads. Each worker thread is a single-threaded executor, and
`tokio::spawn` inside a handler places the task on that same thread. So a
tenant's listener task, and the `Wait` senders of `stop_watch_runtime`, live
on the thread of the route that created them. A std `Mutex`/`RwLock` acquire
or `send_blocking` that cannot proceed blocks the whole thread.

- **State.**
  - `running[t]`: the task thread `t` polls. A task keeps it while it runs
    or is blocked in a std lock. It gives it back at an `.await` that is not
    ready.
  - `tbl`: the `WORKER_TABLE` holder.
  - `writer` and `readers`: the `PORT_TABLE` guards.
  - `cur` and `ptab`: the two tables, mapping a tenant to a
    `ScriptWorkerThread` instance.
  - Per instance: `lst` (listener bind/run/exit), `home` (its thread), `chan`
    (`server_tx`, capacity 1) and `watch` (`watch_tx.is_some()`).
  - Per request: `pc`, `thr`, `kind`, `ten`, `inst`, and `snd` (the spawned
    `Wait` sender).
- **Actions.**
  - `/start` (`start_runtime`): `LockTable`/`BlockTable`, then
    `StartRunning`, `StartWatch` (may suspend in `send(Start)` holding the
    table: `StartSendResume`), or `StartNew` → `NewWorker`/`BlockNew`
    (`get_next_port`'s write lock).
  - `/stop`: `StopRoute`, with the spawned `SendWait`.
  - `/exit`: `ExitAbsent`, or `ExitRemove` → `DropWorker`/`BlockDrop`. Drop
    holds the write lock through `send_blocking(Exit)`; `ExitSendResume`.
  - `forward`: `Forward`/`BlockRead`, then `ForwardDone`. The read guard lives
    until the route returns.
  - The listener: `Bind`, `Accept`, `Recv`.
- **Properties.**
  - `ForwardTargetsLiveListener`: a proxied connection waiting for accept
    targets a listener that was not told to exit. This holds because of the
    long read guard and the order in `Drop`.
  - `HandlersComplete`: every route that started returns. This fails three
    ways, one per hazard.

The pro routes, `start_debugger` and `info` take the same table lock. They add
no new way to block, so they are left out.

### `Diagnostics.tla` (with `MCDiagnostics.tla`)

This module models the LSP `DiagnosticsServer` (`lsp/diagnostics.rs`).

- **Update.** The language server sends a snapshot of document versions
  through the update channel.
- **ServerRecv/ServerClear.** The server loop cancels the previous token,
  clears the published collection and spawns one task per kind (ts, deps,
  lint) of the new generation.
- **The tasks.**
  - `TaskPrev`: wait for the same kind's previous task.
  - `TsDebounce`: only ts is debounced.
  - `Generate`: produce diagnostics for every document of the snapshot
    unless cancelled.
  - `PublishLock`/`PublishItem`: publish under the collection's mutex,
    checking the token before each document.
- **Properties.**
  - `PublishedVersionsMonotonic`: a client never sees a document's version
    go back.
  - `NoDuplicateDiagnostics`: a kind is published at most once per document
    version.
  - `Converges`: under fairness, the client ends up with diagnostics of the
    latest versions.

### `Documents.tla` (with `MCDocuments.tla`)

This module models the LSP document store (`lsp/documents.rs`).

- **State.**
  - `openDocs` and `fsDocs`: each document abstracted to the set of modules
    it imports; the file-system copies also carry their `fs_version`.
  - `dirty` and `fsDirty`: the two dirty flags.
  - `depMap`: the cached `dependents_map`.
  - `disk` and `diskVer`: the files, which another editor may rewrite.
- **Actions.**
  - `Open`, `Change`, `Close` and `Get` (`FsGet` re-reads a stale file).
  - `UpdateConfig(urls, limit)`: the resolver-config hash (`hash`, the
    hashed inputs) gates the refresh. When it changed, `RefreshDependencies`
    runs on what the preload finder yields (a limit of 0 skips the finder).
  - The finder is a set of pure operators, evaluated once per input in
    `PreloadOf`. `FromEnabledUrlsWithLimit` turns the urls into the
    `PendingEntry` queue (root files first, then directories pruned by
    `SortAndRemoveNonLeafDirs`, never the drive root). `Walk` is `next()`
    run to the end: it counts every directory entry, stops when the count
    reaches the limit, queues discoverable directories, yields modules that
    are not minified, and resumes the directory after a yield (`Resume`, the
    `push_front`). `EnabledUrls` is `Config::enabled_urls`
    (`lsp/config.rs`). In `MCDocuments` the url inputs are its values for
    three configurations.
  - `CalculateDependents`: analyze the stored file-system docs, then the open
    docs, in any HashMap order (`AnalyzeAll`), then drain the queue of
    unanalyzed imports through the file-system store (`Drain`).
- **Properties.**
  - `DependentsComplete`: while both flags are clear, every import of every
    stored document is an edge of the cache.
  - `DependentsTransitive`: `recurse_dependents` computes exactly the
    transitive closure (`Relation!TransitiveClosure`).
  - `PreloadExact`: an update whose preload did not hit its limit leaves in
    `fsDocs` exactly `PreloadTarget` (the enabled module files, and the
    modules that are not minified below an enabled directory with no ignored
    directory in between), less the open documents. The whole walk and the
    clean-up of `refresh_dependencies` have to be right for it to hold.
  - `PreloadLimitKeepsStore`: an update whose preload hit its limit keeps
    every document `fsDocs` held (the walk may not have reached it) and adds
    only documents of `PreloadTarget`. The nested configuration with limit 6
    reaches this: its walk hits the limit on its last entry
    (`documents.rs:1497`).

### `Flags.tla`, `ConfigDiscovery.tla`, `RuntimeLaunch.tla`, `WorkerLaunch.tla`

These modules model how a runtime is configured: its command line and its
config file. They are pure operators, most of them `RECURSIVE`, with no
variables of their own.

- **`Flags`** is `flags_from_vec` (`args/flags.rs`) for the root command and
  `run`.
  - A token is a record: a long option with or without `=value`, a short
    option, or a word. Values with commas are given already split
    (`use_value_delimiter`).
  - The grammar is the sets `clap_root`, `run_subcommand`,
    `permission_args`, `inspect_args`, `watch_arg`, `config_arg` and
    `no_config_arg` declare: switches, lists, optional values
    (`require_equals`), valued options, short aliases, conflicts and
    requires.
  - `MatchFrom` is clap's matching. At the root a word must be `run`. At
    `run` the first word starts the trailing `script_arg`. `MatchOption`
    takes an option's value from `=` or from the next word. A bare `--watch`
    takes none, because of `require_equals`. `Valid` is the validation clap
    does afterwards.
  - `FlagsFromVec` builds the `Flags` record:
    - `-q` or `--log-level`;
    - `RunParse`, with `runtime_args_parse`: config, permissions (`--allow-all`
      resets every list but the certificate one), `--v8-flags`, then
      `--seed`, appended as `--random-seed`;
    - `watch_arg_parse`, and `handle_repl_flags` with no subcommand.

    It never reads `--inspect` (`runtime_args_parse` does not call
    `inspect_arg_parse`). A missing script panics in `run_parse`
    (`res = "panic"`).
  - `flags_allow_net::parse`, outside the repository, passes values through.
    clap's error on a repeated option is kept.
- **`ConfigDiscovery`** is `ConfigFile::discover` and `discover_from`, with
  `Flags::config_path_args`. A path is a sequence of names. The file system
  maps each `deno.json`/`deno.jsonc` path to `absent` (skipped), `ok`
  (found) or `bad` (an error that ends the search). The `checked` set is
  threaded through the walks from the script and from the working
  directory.
- **`RuntimeLaunch`** holds the vectors `start_runtime` and
  `start_watch_runtime` build (`RunArgsFor`, `WatchArgsFor`), the patched
  flags (`RuntimeFlags`, `WatchFlags`) and the config file they discover
  (`RuntimeConfig`). Its constants are the gateway's own command lines, the
  tenants' project paths with their resolution, the gateway's working
  directories and the directories config files may be in.
  - `RunLaunchOK`, `WatchLaunchOK` and `NearestConfigOK` are constant tables
    over all of these. `NearestConfigOK` also ranges over every file system
    (3^8 of them). TLC evaluates each table once.
  - The reference for the config file is `NearestConfig`: the first present
    file in the list of candidates, the script's ancestors then the working
    directory's.
- **`WorkerLaunch`** composes them with `Worker`. A runtime record carries
  `inspect` (the `open_debug_server` `start_runtime` read) and `watched`
  (spawned by `start_watch_runtime`).
  - `LaunchFlagsRunProject`: every started runtime parses without error (an
    error would end the gateway in `unwrap_or_exit`). It runs the project's
    own script with no script arguments and unstable APIs. A development
    runtime watches with no extra paths and no inspector. A production one
    has the inspector exactly when `inspect`.
  - `DiscoverFindsNearestConfig`: every started production runtime's
    discovery equals `NearestConfig`, whatever the file system holds.

  `MCWorker` extends `WorkerLaunch`, so the worker run checks them next to
  the worker's own properties.

### `TestRunner.tla` (with `MCTestRunner.tla`)

This module models `deno test` (`tools/test.rs`). A test is abstracted to its
outcome (`ok`, `fail`, `ignore`, `throw`). Its output is one write of its id
to stdout, for the tests in `Prints`. The zero width space is `Zwsp`.

| Model | Code |
|---|---|
| `pulled`, `Pull` | the spawns that `buffer_unordered(concurrent_jobs)` has started |
| `fpc`, `idx`, `hadUncaught` | where `test_specifier` is, the test its loop is at, `had_uncaught_error` |
| `fileErr` | the files whose `test_specifier` returned `Err` (the `join_results` entries) |
| `fails` | each file's `FailFastTracker::failure_count` |
| `out`, `fk` | the `Result`/`UncaughtError` being sent, and how many pipes `flush_stdout_and_stderr` has flushed for it |
| `waiting`, `replied` | a flusher blocked in `receiver.recv()`, and whether its oneshot was answered |
| `pipe`, `oneshot` | bytes in each pipe, and the flusher whose sender is parked in the pipe's state |
| `rstate`, `rchunk` | each redirect thread: in `read`, holding a read chunk, or ended |
| `rpc`, `started`, `withResult`, `summary` | the handler: looping, summary printed or exited by Sigint; `tests_started`, `tests_with_result`, `TestSummary` |

- **Files.** `FileStart` returns at once when the tracker says stop. Otherwise
  it sends `UncaughtError` for a module that throws and `Plan` for the rest.
  `FileTest` is the loop head: it breaks on `should_stop`, sends an ignored
  test's or a cancelled test's Result, or sends `Wait`. `FileRun` is the
  call: it prints, counts a failure (`add_failure` counts only when
  `--fail-fast` is set), and queues `RunEvents`: `UncaughtError` then
  `Cancelled` for a throw, otherwise the result. `FileRunErr` is the same
  call when one of the `?` after `Wait` returns `Err` (a non-`JsError` at
  line 944, `serde_v8::from_v8` at 950, `duration_since` at 954), for the
  tests in `RunErrors`: the file ends with no Result for the test, and
  `fileErr` records it for `join_result??`, which reports it after the
  summary.
- **Flushes.** `FlushBegin` is `TestOutputPipe::flush` up to its wait. It
  replaces the parked sender (waking the one it replaces, "just in case") and
  writes the zero width space. `FlushEnd` is `recv()` returning. After the
  last pipe, the event is sent.
- **Redirect threads.** `ReaderRead` takes any non-empty prefix of the pipe
  (a read of at most 512 bytes). `ReaderForward` takes the parked sender,
  sends `Output` unless only the zero width space was read, and answers.
  `ReaderEof` happens once every file is done and the pipe is empty.
- **Handler.** The handler's state is read only when its loop ends, and its
  step on an event commutes with every other thread's step. So `Handle`
  applies an event when it is sent, and the printed order is the send order.
  Queuing the events in a channel of their own only multiplied the state
  space (by about 2000 for two files of two tests). `ReporterEnd` is `recv()`
  returning `None` once every strong sender is dropped (`SendersDropped`).
  `CtrlC` is the Sigint the ctrl-c task can send until then.
- **Properties.**
  - `StartedTestsFinish`: by the time the summary is printed, every test
    whose `Wait` was counted has its result counted, unless its file's
    `test_specifier` returned `Err`.
  - `RunCompletes`: unless ctrl-c ends the process, the summary is printed.
    Every flush must be answered, every file must return, and both redirect
    threads must see end of file.
  - `OutputBeforeResult`: when the handler has a test's Result, none of the
    test's output is still in a pipe or a read buffer. This is what the flush
    before `Result` is for. TLC refutes it.
  - `FailFastStopsRun`: the `--fail-fast` help says "Stop after N errors".
    Once N failures are counted over the run, no further test starts. TLC
    refutes it.

## 3. Runs

| Run | cfg | Expect | Shows |
|---|---|---|---|
| port_allocator | `PortAllocator.cfg` | pass | `TypeOK`, `UniquePorts`, `FreshPort`, `ImplementsPortAssignment`: the cursor is stored after probing, so no two tenants share a port and no port is handed out while an old listener still holds it, even with other processes binding and releasing ports; and the allocator refines `PortAssignment` |
| port_allocation_completes | `PortAllocatorCompletes.cfg` | violation | `AllocationCompletes` (spec 4.1: an allocation ends, failing only when no port is free) fails. Start/exit cycles walk the cursor to the top, and `checked_add(1).unwrap()` panics although released ports are free. The same property also catches the probe loop spinning on a busy candidate, because `curport` never advances |
| worker | `Worker.cfg` | pass | `TypeOK`, `NoOrphanRuntime`: every running runtime is held by the worker or has its stop in flight, including through `Drop`'s `stop_all_runtime`. `LaunchFlagsRunProject`, `DiscoverFindsNearestConfig`: every started runtime parses its command line to flags that run its project, and reads the nearest config file |
| worker_accept_iff_active | `WorkerAcceptIffActive.cfg` | violation | the listener rejects while a runtime runs (/start, /stop, the listener binds and takes `Start`, /start again and its `Start` is taken, then the first stop task's late `Wait` from `stop_watch_runtime` (`worker_util.rs:127`) arrives last) |
| worker_debugger | `WorkerDebugger.cfg` | violation | `InspectorExclusive` fails. start_debugger, then pro/start: `open_debug_server` is still set (`worker_util.rs:170`), so both running runtimes have the inspector on 127.0.0.1:9229 |
| gateway_threads | `GatewayThreads.cfg` | pass | `TypeOK`, `ForwardTargetsLiveListener` over two threads, two tenants and all four routes |
| gateway_table_await | `GatewayTableAwait.cfg` | violation | `HandlersComplete` fails. start, start, stop, then start on one thread: the last start suspends in `send(Start)` holding `WORKER_TABLE`, and a stop blocks the thread in `lock()` (`runtime_controller.rs:87`). The same property also fails with `Kinds = {"start", "exit"}, NReq = 2`: start then exit, and `send_blocking(Exit)` waits for the Start to be drained by a listener on the thread it blocks (`worker_util.rs:252`). It also fails with `Tenants = {p1, p2}, Kinds = {"start", "forward"}, NReq = 3`: a forward waits with the read guard while a start of a second tenant blocks the thread in `PORT_TABLE.write()` (`lib.rs:20`) |
| diagnostics | `Diagnostics.cfg` | pass | `NoDuplicateDiagnostics`, `PublishedVersionsMonotonic`, `Converges` |
| test_runner | `TestRunner.cfg` | pass | `TypeOK` (including the fail-fast counter never passing N), `StartedTestsFinish`, `RunCompletes`: three files on two jobs, over both pipes, one test of file 1 able to end its file with an error |
| test_output_order | `TestRunnerOutputOrder.cfg` | violation | `OutputBeforeResult` fails. Test 1 prints; its flush is answered by the read that took the output, and its zero width space is read afterwards with nothing parked. Test 2 prints and parks its oneshot; the reader finishes the stale read, takes the oneshot and answers, and test 2's Result is handled while its output is still in the pipe (`test.rs:1846` concedes this) |
| test_fail_fast | `TestRunnerFailFast.cfg` | violation | `FailFastStopsRun` fails. With `--fail-fast=1` file 1's test fails and file 2 still runs its test: `FailFastTracker::new` is called per file (`test.rs:1199`) |
| documents | `Documents.cfg` | pass | `DependentsComplete`, `DependentsTransitive`, `PreloadExact`, `PreloadLimitKeepsStore`, with hash-gated config updates over three url sets and the limits 0 and 6 |

Each finding in `PROJECT.json` gives the code line and what the spec says
instead. Each property of a passing run has a mutant: a plausible bug in the
code, written as an operator just before the definition it replaces. TLC finds
each mutant's property violated. The mutants are:

- checked addition replaced by wrapping;
- the cursor store dropped;
- the probe storing the candidate without asking `is_free` (breaks the refinement);
- exit moving the cursor back;
- an unbounded channel;
- `stop_all_runtime` without the watch stop;
- GatewayThreads: a send that does not wait for room; `forward` dropping its guard after the lookup;
- Diagnostics: a token not renewed, no cancellation, the collection not cleared;
- Documents: `change` without `dirty = true`, `recurse_dependents` without recursion, a yielded file's directory not pushed back, the clean-up of unyielded files done after a cut-off walk;
- launch: a bare `--watch` that takes the next word (the project path) as a watched path; a config file that cannot be parsed passed over like a missing one;
- TestRunner: `should_stop` with `>` instead of `>=`; a throwing test that sends no Result; a flush that parks its oneshot but writes no zero width space.

Two defects found in the first sittings are no longer runs of their own;
each of them still has a hazard in `PROJECT.json`, whose note gives the
property and the steps that break it:

- the `PORT_TABLE` entry exists before the listener binds (`worker_util.rs:287`);
- the dependents rebuild re-reads open documents from disk (`documents.rs:1227`).

### Bounds

- **PortAllocator.** `PortBits = 3` and `BasePort = 4` give three allocatable
  ports (5..7) for two tenants. This is enough to:
  - allocate both tenants;
  - exit one tenant and restart it while its listener is still draining;
  - have another process take the next candidate;
  - walk the cursor to the top while ports behind it are free.

  Tenants are symmetric model values (symmetry is used only in the safety
  runs).
- **Worker.** `MaxGen = 2` gives exit and a second start, with the old
  listener still alive. `MaxInst = 2` gives a production stack of two, or a
  production runtime beside a development one. `MaxConn = 1` lets a
  connection be accepted, queued or rejected.
  - The launch constants are three gateway command lines (bare, `-q`,
    `-L info`) and three projects (a local file, a remote url and an npm
    specifier). There are two working directories (an ancestor of the
    project and a sibling) and four config directories (the root, `/t`,
    `/t/a` and `/g`). So discovery meets a config beside the script, one
    above it, one in the gateway's own directory, a directory both walks
    pass through, and a remote or npm script.
  - The worker_debugger run needs only one generation, two runtimes and no
    connection: the debugger start and the production start after it.

- **GatewayThreads.** The pass run uses two threads, two tenants and three
  requests, so both tables, both lock kinds and every blocking point occur.
  The violation run uses one thread and only the start and stop routes, so
  every step of the counterexample is forced. The two other deadlocks
  need only a change of the constants, given in the runs table.
- **Diagnostics.** Two documents, versions 0..2 and two updates. That allows a
  second generation to start while the first is debouncing, generating or
  publishing. Three updates give 16M states in 15 minutes without a new kind
  of interleaving.
- **Documents.** Three documents a→b→c on disk. The pass run allows one edit,
  enough to open a document that another one imports, to change an import, or
  to rewrite a file on disk behind a stored copy; the violation run allows
  two. The files lie in a workspace `/w` holding `a.ts`, `deno.json`,
  `node_modules/c.min.js` and `src/b.ts`. The three configurations are the
  root uri alone, node_modules and its minified file enabled, and `/w`,
  `/w/node_modules` and `/w/src` enabled together. With limits 0 and 6 the
  updates cover:
  - a skipped preload;
  - a complete walk that yields a file and resumes its directory;
  - an ignored directory, a minified file and a root file that bypasses the
    minified rule;
  - a walk that hits the limit on its last entry.

  Each url input multiplies the state space. Two edits with these inputs
  did not finish in five minutes, which is why the pass run allows one. The
  disabled workspace and a drive-root url would each give an empty walk.
  That walk drops every stored file, and the node_modules input already
  drops every stored file but one. So they are left out of the runs.

- **TestRunner.** The pass run has three files on two jobs, with
  `--fail-fast=2` and both pipes. File 1 has three failing tests, so it
  reaches the fail-fast break. File 2 has an ignored test, a throwing test
  and a test after it, so it sends `UncaughtError`, a Cancelled result and
  a cancelled test. File 3's module throws. One test of each of the first
  two files prints, so two flushers can share a pipe. File 1's second test
  may end its file with an error, either way (its first failure leaves the
  tracker below 2, so the test runs). That gives 686,134 states in about 90
  seconds. The output-order run needs one file with two
  printing tests, and the fail-fast run needs two files on one job.

Every counterexample above needs at most two workers and three runtimes.

### Fairness

- **PortAllocator.** The probing loop of `get_next_port` runs on the
  caller's thread and gets weak fairness. Clients, other processes and the
  operator's routes get none: nothing obliges them to act.
- **Worker.** No fairness, and so no liveness property. The listener task and
  the routes' pending sends run on the actix worker threads, and a route that
  holds `WORKER_TABLE` across an await, or `Drop`'s `send_blocking`, can
  block the very thread that hosts them. GatewayThreads models those threads
  and shows the resulting deadlocks.

- **GatewayThreads.** Every request task, listener task and `Wait` sender
  gets weak fairness, because the thread's executor polls ready tasks. A
  thread blocked in a std lock polls nothing, and the `Runs` guard already
  says so. The violations are real deadlocks, states where nothing can
  happen, so they do not depend on the fairness chosen. The pass run
  disables TLC's deadlock check, because the gateway does stop (those same
  deadlocks, or all requests served).
- **Diagnostics.** The server loop and the tasks are tasks of the language
  server's current-thread runtime. They are polled when ready, and tsc always
  answers, so they get weak fairness. The editor's updates get none. The runs
  disable the deadlock check, because an idle language server stops.
- **Documents.** This module has only safety properties, so no fairness.
- **TestRunner.** Every file runs on a blocking thread, each redirect reader
  on its own thread, and the handler on a tokio task. Each of them gets weak
  fairness, and so does the spawning stream, which the main task polls. Ctrl-c
  gets none. The runs disable the deadlock check, because the program ends
  after the summary.

## 4. Not modelled

- **Code API.** It reads and writes files and has no shared state.
- **`main.rs`.** Only its worker threads are modelled, in GatewayThreads.
  The rate limiter and the logger are not.
- **The `restart_*` handlers.** They are not registered in `api_routers`, so
  no request reaches them.
- **`info`.** It is read-only.
- **Header rewriting and byte copying in `forward`.**
- **The rest of the LSP config.** `Config` otherwise stores settings and
  looks them up. `update_enabled_paths` has no caller in the repository.
- **The rest of the test runner.** This covers test steps, filters, `only`,
  shuffling, coverage and the reporter's formatting. `ops::testing`, which
  sends `Register` events, is not in the repository.
- **The other subcommands of `flags_from_vec`.** About 2000 lines of clap
  declarations and `*_parse` functions for subcommands no runtime launch
  uses. The options of `run` that do not bear on the launch (check, cert,
  lock, reload, import map and more) are not modelled either.
- **The content of a config file.** Its JSONC is only ok or broken.
- **The other Deno command-line parts.**

## 5. Plan for the next sittings

1. **`ListenerSpec`.** This will be an abstract listener (Rejecting or
   Accepting, as in spec 4.4), with a refinement property
   `Worker => ListenerSpec!Spec` under the mapping `ok`.
2. **`Gateway`.** This module will compose `Worker` per tenant with
   `PortAllocator`.
3. **The preload finder's limit.** The double walk from
   `sort_and_remove_non_leaf_dirs` is a hazard. That a tree of exactly
   `limit` entries counts as a hit is too; a property saying it should not
   would be a violation run, and that needs a run slot.
4. **Gateway arguments.** A gateway started with anything but global
   options breaks every launch (`worker_util.rs:137`). With a run slot, a
   violation run would widen `GatewayArgvs`.
5. **More Deno parts:**
   - the npm local resolver;
   - the rest of `flags_from_vec` (`deno test`'s flags feed TestRunner).
