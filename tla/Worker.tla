-------------------------------- MODULE Worker --------------------------------
(***************************************************************************)
(* One tenant of the gateway: its ScriptWorkerThread, the listener loop   *)
(* that ScriptWorkerThread::new spawns, the script runtimes that start_*  *)
(* spawn on their own threads, and the tasks that stop_* spawn on tokio,  *)
(* driven by the /runtime routes of runtime_controller.rs.                *)
(*                                                                         *)
(* Every route locks WORKER_TABLE and keeps it across its awaits, so the  *)
(* routes run one at a time; ctl is where the running route is blocked on *)
(* the server channel (bounded(1)).  A tenant that exits and starts again *)
(* gets a new worker with new channels and a new port, so channels and   *)
(* listeners are indexed by the worker's generation.                      *)
(***************************************************************************)
EXTENDS Naturals, Sequences, FiniteSets, SequencesExt

CONSTANTS
  MaxGen,      \* workers created for the tenant (start after exit)
  MaxInst,     \* script runtimes started
  MaxConn,     \* connections forwarded by the proxy
  NoInst,      \* watch_tx is None
  BindCanFail  \* another process may take the port before the listener binds

ASSUME /\ MaxGen \in Nat \ {0}
       /\ MaxInst \in Nat \ {0}
       /\ MaxConn \in Nat
       /\ NoInst \notin Nat
       /\ BindCanFail \in BOOLEAN

Gens  == 1 .. MaxGen
Insts == 1 .. MaxInst

\* ServerStatus
Statuses == {"Start", "Wait", "Exit"}

\* The listener task: spawned, in its select loop, left the loop on Exit,
\* or died in TcpListener::bind(..).unwrap().
ListenerStates == {"unbound", "loop", "exited", "failed"}

Runtime == [gen : 0 .. MaxGen, inspect : BOOLEAN, watched : BOOLEAN,
            st : {"unborn", "running", "stopped"}, stop : BOOLEAN]

\* A task spawned by stop_runtime or stop_watch_runtime: it first sends the
\* stop signal to runtime inst, then, if wait, ServerStatus::Wait.
Task == [gen : Gens, inst : Insts, wait : BOOLEAN, pc : {"notify", "wait"}]

VARIABLES
  gen,       \* generation of the tenant's latest worker (0: none yet)
  exists,    \* WORKER_TABLE holds the worker of generation gen
  routed,    \* PORT_TABLE holds the tenant
  handlers,  \* worker_handlers: the production runtimes, as a stack
  watch,     \* watch_tx: the development runtime, or NoInst
  debug,     \* open_debug_server
  nInst,     \* runtimes started so far
  rt,        \* each runtime: worker, inspector, thread state, stop signal
  chan,      \* server_tx/server_rx of each worker, capacity 1
  lst,       \* listener task of each worker
  ok,        \* the listener's `ok` flag: TRUE means reject connections
  incoming,  \* connections waiting in the listener's accept queue
  queue,     \* stream_tx/stream_rx: accepted connections not yet taken
  conns,     \* connections forwarded so far
  tasks,     \* spawned stop tasks not yet finished
  ctl        \* "idle", or the route blocked sending "start" or "exit"

vars == <<gen, exists, routed, handlers, watch, debug, nInst, rt, chan, lst,
          ok, incoming, queue, conns, tasks, ctl>>

workerVars == <<gen, exists, routed, handlers, watch, debug>>
netVars    == <<lst, ok, incoming, queue, conns>>

-----------------------------------------------------------------------------
(* async_channel: a send completes at once when the receiver is gone (Err)*)
(* or the buffer has room; otherwise it waits.                           *)
ReceiverGone(g) == lst[g] \in {"exited", "failed"}
\* Mutant: the server channel treated as unbounded.
CanSendUnbounded(g) == TRUE
CanSend(g) == ReceiverGone(g) \/ chan[g] = <<>>
Deliver(g, m) ==
  chan' = IF ReceiverGone(g) THEN chan ELSE [chan EXCEPT ![g] = Append(@, m)]

(* `server_tx.send(ServerStatus::Start).await` inside a route. *)
SendStart(g) ==
  IF CanSend(g) THEN Deliver(g, "Start") /\ ctl' = "idle"
                ELSE UNCHANGED chan /\ ctl' = "start"

NewInst == nInst + 1

(* thread::Builder::spawn of a runtime thread for worker g. *)
SpawnRuntime(g, inspect, watched) ==
  /\ nInst < MaxInst
  /\ nInst' = NewInst
  /\ rt' = [rt EXCEPT ![NewInst] =
              [gen |-> g, inspect |-> inspect, watched |-> watched,
               st |-> "running", stop |-> FALSE]]

(* ScriptWorkerThread::new, with get_next_port's PORT_TABLE insert. *)
NewWorker ==
  /\ ~exists
  /\ gen < MaxGen
  /\ gen' = gen + 1
  /\ exists' = TRUE
  /\ routed' = TRUE

(* start_watch_runtime on a worker of generation g. *)
StartWatchRuntime(g) ==
  /\ SpawnRuntime(g, FALSE, TRUE)
  /\ watch' = NewInst
  /\ SendStart(g)

(* start_runtime on a worker of generation g with stack hs. *)
StartRuntime(g, hs, inspect) ==
  /\ SpawnRuntime(g, inspect, FALSE)
  /\ handlers' = Append(hs, NewInst)
  /\ IF hs = <<>> THEN SendStart(g) ELSE UNCHANGED <<chan, ctl>>

(* stop_runtime's task for the popped runtime, len the stack after pop. *)
StopTask(g, i, len) == [gen |-> g, inst |-> i, wait |-> len = 0, pc |-> "notify"]

(* stop_watch_runtime: the task it spawns does nothing when watch_tx is None. *)
StopWatchTasks ==
  IF watch = NoInst THEN {}
  ELSE {[gen |-> gen, inst |-> watch, wait |-> TRUE, pc |-> "notify"]}

\* Mutant: stop_all_runtime without its stop_watch_runtime call.
StopAllTasksNoWatch ==
  {StopTask(gen, handlers[k], k - 1) : k \in 1 .. Len(handlers)}

(* stop_all_runtime: stop_watch_runtime, then stop_runtime until the stack *)
(* is empty; popping position k leaves k - 1 handles behind.             *)
StopAllTasks ==
  StopWatchTasks \cup {StopTask(gen, handlers[k], k - 1) : k \in 1 .. Len(handlers)}

-----------------------------------------------------------------------------
(* Routes of runtime_controller.rs; each holds WORKER_TABLE (ctl idle).   *)

(* GET /runtime/{id}/start *)
StartRoute ==
  /\ ctl = "idle"
  /\ \/ /\ exists
        /\ watch = NoInst
        /\ StartWatchRuntime(gen)
        /\ UNCHANGED <<gen, exists, routed, handlers, debug>>
     \/ /\ NewWorker
        /\ handlers' = <<>>
        /\ debug' = FALSE
        /\ StartWatchRuntime(gen + 1)
  /\ UNCHANGED <<netVars, tasks>>

(* GET /runtime/{id}/start_debugger *)
StartDebuggerRoute ==
  /\ ctl = "idle"
  /\ \/ /\ exists
        /\ handlers = <<>>
        /\ debug' = TRUE
        /\ StartRuntime(gen, handlers, TRUE)
        /\ UNCHANGED <<gen, exists, routed, watch>>
     \/ /\ NewWorker
        /\ watch' = NoInst
        /\ debug' = TRUE
        /\ StartRuntime(gen + 1, <<>>, TRUE)
  /\ UNCHANGED <<netVars, tasks>>

(* GET /runtime/pro/{id}/start *)
StartProRoute ==
  /\ ctl = "idle"
  /\ \/ /\ exists
        /\ StartRuntime(gen, handlers, debug)
        /\ UNCHANGED <<gen, exists, routed, watch, debug>>
     \/ /\ NewWorker
        /\ watch' = NoInst
        /\ debug' = FALSE
        /\ StartRuntime(gen + 1, <<>>, FALSE)
  /\ UNCHANGED <<netVars, tasks>>

(* GET /runtime/{id}/stop: stop_watch_runtime. *)
StopRoute ==
  /\ ctl = "idle"
  /\ exists
  /\ watch # NoInst
  /\ tasks' = tasks \cup StopWatchTasks
  /\ watch' = NoInst
  /\ UNCHANGED <<gen, exists, routed, handlers, debug, nInst, rt, chan, netVars, ctl>>

(* GET /runtime/pro/{id}/stop: stop_runtime. *)
StopProRoute ==
  /\ ctl = "idle"
  /\ exists
  /\ handlers # <<>>
  /\ tasks' = tasks \cup {StopTask(gen, Last(handlers), Len(handlers) - 1)}
  /\ handlers' = Front(handlers)
  /\ UNCHANGED <<gen, exists, routed, watch, debug, nInst, rt, chan, netVars, ctl>>

(* Drop for ScriptWorkerThread: clear PORT_TABLE, stop_all_runtime, then *)
(* send_blocking(ServerStatus::Exit), which blocks while the channel is  *)
(* full.                                                                 *)
DropWorker ==
  /\ routed' = FALSE
  /\ tasks' = tasks \cup StopAllTasks
  /\ handlers' = <<>>
  /\ watch' = NoInst
  /\ IF CanSend(gen) THEN Deliver(gen, "Exit") /\ ctl' = "idle"
                     ELSE UNCHANGED chan /\ ctl' = "exit"

(* GET /runtime/{id}/exit: WORKER_TABLE.remove, then drop. *)
ExitRoute ==
  /\ ctl = "idle"
  /\ exists
  /\ exists' = FALSE
  /\ DropWorker
  /\ UNCHANGED <<gen, debug, nInst, rt, netVars>>

(* The blocked send of a route completes. *)
RouteSend ==
  /\ ctl # "idle"
  /\ CanSend(gen)
  /\ Deliver(gen, IF ctl = "start" THEN "Start" ELSE "Exit")
  /\ ctl' = "idle"
  /\ UNCHANGED <<workerVars, nInst, rt, netVars, tasks>>

-----------------------------------------------------------------------------
(* The stop tasks on tokio. *)

(* notify_serder.send(1) / watch sender.send(true): a fresh channel of   *)
(* capacity 1 that is sent to once, so it never waits.                   *)
TaskNotify(t) ==
  /\ t \in tasks
  /\ t.pc = "notify"
  /\ rt' = [rt EXCEPT ![t.inst].stop = TRUE]
  /\ tasks' = (tasks \ {t}) \cup (IF t.wait THEN {[t EXCEPT !.pc = "wait"]} ELSE {})
  /\ UNCHANGED <<workerVars, nInst, chan, netVars, ctl>>

(* server_tx_ref.send(ServerStatus::Wait). *)
TaskWait(t) ==
  /\ t \in tasks
  /\ t.pc = "wait"
  /\ CanSend(t.gen)
  /\ Deliver(t.gen, "Wait")
  /\ tasks' = tasks \ {t}
  /\ UNCHANGED <<workerVars, nInst, rt, netVars, ctl>>

-----------------------------------------------------------------------------
(* The listener task of worker g (ScriptWorkerThread::new). *)

ListenerBind(g) ==
  /\ g <= gen
  /\ lst[g] = "unbound"
  /\ \/ lst' = [lst EXCEPT ![g] = "loop"]
     \/ /\ BindCanFail
        /\ lst' = [lst EXCEPT ![g] = "failed"]
  /\ UNCHANGED <<workerVars, nInst, rt, chan, ok, incoming, queue, conns, tasks, ctl>>

(* select! branch tcp_listener.accept(): forward the stream, or, when ok, *)
(* write the rejection text and drop it.                                *)
ListenerAccept(g) ==
  /\ lst[g] = "loop"
  /\ incoming[g] > 0
  /\ incoming' = [incoming EXCEPT ![g] = @ - 1]
  /\ queue' = IF ok[g] THEN queue ELSE [queue EXCEPT ![g] = @ + 1]
  /\ UNCHANGED <<workerVars, nInst, rt, chan, lst, ok, conns, tasks, ctl>>

(* select! branch server_rx.recv(). *)
ListenerRecv(g) ==
  /\ lst[g] = "loop"
  /\ chan[g] # <<>>
  /\ chan' = [chan EXCEPT ![g] = Tail(@)]
  /\ CASE Head(chan[g]) = "Start" -> ok' = [ok EXCEPT ![g] = FALSE] /\ UNCHANGED <<lst, incoming>>
       [] Head(chan[g]) = "Wait"  -> ok' = [ok EXCEPT ![g] = TRUE] /\ UNCHANGED <<lst, incoming>>
       [] Head(chan[g]) = "Exit"  -> /\ lst' = [lst EXCEPT ![g] = "exited"]
                                     /\ incoming' = [incoming EXCEPT ![g] = 0]
                                     /\ UNCHANGED ok
  /\ UNCHANGED <<workerVars, nInst, rt, queue, conns, tasks, ctl>>

(* forward(): the proxy finds the tenant in PORT_TABLE and connects to the *)
(* port of the current worker, which is listening.                       *)
Connect ==
  /\ routed
  /\ lst[gen] = "loop"
  /\ conns < MaxConn
  /\ conns' = conns + 1
  /\ incoming' = [incoming EXCEPT ![gen] = @ + 1]
  /\ UNCHANGED <<workerVars, nInst, rt, chan, lst, ok, queue, tasks, ctl>>

-----------------------------------------------------------------------------
(* A runtime thread (run_script / run_with_watch). *)

(* The script takes a connection from stream_rx. *)
RuntimeServe(i) ==
  /\ rt[i].st = "running"
  /\ queue[rt[i].gen] > 0
  /\ queue' = [queue EXCEPT ![rt[i].gen] = @ - 1]
  /\ UNCHANGED <<workerVars, nInst, rt, chan, lst, ok, incoming, conns, tasks, ctl>>

(* select! on notify_rx.recv(): a message or a closed channel ends it. *)
RuntimeStop(i) ==
  /\ rt[i].st = "running"
  /\ rt[i].stop
  /\ rt' = [rt EXCEPT ![i].st = "stopped"]
  /\ UNCHANGED <<workerVars, nInst, chan, netVars, tasks, ctl>>

(* select! on worker.run(): the script ends or fails by itself; its handle *)
(* stays on the stack.                                                   *)
RuntimeEnd(i) ==
  /\ rt[i].st = "running"
  /\ ~rt[i].stop
  /\ rt' = [rt EXCEPT ![i].st = "stopped"]
  /\ UNCHANGED <<workerVars, nInst, chan, netVars, tasks, ctl>>

-----------------------------------------------------------------------------
Init ==
  /\ gen = 0
  /\ exists = FALSE
  /\ routed = FALSE
  /\ handlers = <<>>
  /\ watch = NoInst
  /\ debug = FALSE
  /\ nInst = 0
  /\ rt = [i \in Insts |-> [gen |-> 0, inspect |-> FALSE, watched |-> FALSE,
                             st |-> "unborn", stop |-> FALSE]]
  /\ chan = [g \in Gens |-> <<>>]
  /\ lst = [g \in Gens |-> "unbound"]
  /\ ok = [g \in Gens |-> FALSE]
  /\ incoming = [g \in Gens |-> 0]
  /\ queue = [g \in Gens |-> 0]
  /\ conns = 0
  /\ tasks = {}
  /\ ctl = "idle"

Next ==
  \/ StartRoute \/ StartDebuggerRoute \/ StartProRoute
  \/ StopRoute \/ StopProRoute \/ ExitRoute \/ RouteSend
  \/ \E t \in tasks : TaskNotify(t) \/ TaskWait(t)
  \/ \E g \in Gens : ListenerBind(g) \/ ListenerAccept(g) \/ ListenerRecv(g)
  \/ Connect
  \/ \E i \in Insts : RuntimeServe(i) \/ RuntimeStop(i) \/ RuntimeEnd(i)

(* No fairness: the listener task and the routes' pending sends run on   *)
(* the actix worker threads, and a route holding WORKER_TABLE across an  *)
(* await, or Drop's send_blocking, can block the thread that hosts them *)
(* (GatewayThreads), so nothing here is obliged to progress.            *)
Spec == Init /\ [][Next]_vars

-----------------------------------------------------------------------------
TypeOK ==
  /\ gen \in 0 .. MaxGen
  /\ exists \in BOOLEAN /\ routed \in BOOLEAN /\ debug \in BOOLEAN
  /\ handlers \in BoundedSeq(Insts, MaxInst)
  /\ watch \in Insts \cup {NoInst}
  /\ nInst \in 0 .. MaxInst
  /\ rt \in [Insts -> Runtime]
  /\ chan \in [Gens -> BoundedSeq(Statuses, 1)]
  /\ lst \in [Gens -> ListenerStates]
  /\ ok \in [Gens -> BOOLEAN]
  /\ incoming \in [Gens -> 0 .. MaxConn]
  /\ queue \in [Gens -> 0 .. MaxConn]
  /\ conns \in 0 .. MaxConn
  /\ tasks \subseteq Task
  /\ ctl \in {"idle", "start", "exit"}

(* The worker holds a handle to runtime i: it is on the stack or it is    *)
(* the development runtime of the live worker.                          *)
Held(i) == exists /\ rt[i].gen = gen /\ (i \in ToSet(handlers) \/ i = watch)

(* No runtime thread is orphaned: a running runtime is still held by its  *)
(* worker, or it has been sent its stop signal, or a spawned stop task   *)
(* is about to send it.  Every route that forgets a handle (stop, pro    *)
(* stop, exit through Drop and stop_all_runtime) must stop it first.     *)
NoOrphanRuntime ==
  \A i \in Insts :
    rt[i].st = "running" => Held(i) \/ rt[i].stop \/ \E t \in tasks : t.inst = i

(* Spec 4.4, the core invariant: once every status change is delivered, *)
(* the listener accepts connections iff a production runtime or the      *)
(* development runtime is running.                                       *)
AcceptIffActive ==
  (/\ exists /\ lst[gen] = "loop" /\ chan[gen] = <<>> /\ ctl = "idle"
   /\ \A t \in tasks : t.gen # gen)
    => (ok[gen] <=> (handlers = <<>> /\ watch = NoInst))

(* Spec 4.4: start_debugger_runtime only takes effect while no          *)
(* production runtime runs, which "prevents opening multiple debugger/   *)
(* inspector endpoints on the same port", and spec 3 makes debug_enabled *)
(* concern "the next production runtime start": at most one running     *)
(* runtime has the inspector on 127.0.0.1:9229.  start_runtime reads     *)
(* open_debug_server, which start_debugger_runtime sets and nothing      *)
(* clears, so a later pro/start opens a second one.                      *)
InspectorExclusive ==
  Cardinality({i \in Insts : rt[i].st = "running" /\ rt[i].inspect}) <= 1
=============================================================================
