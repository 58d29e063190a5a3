--------------------------- MODULE GatewayThreads ---------------------------
(***************************************************************************)
(* Task placement and blocking in the cassie-cool gateway.                 *)
(*                                                                         *)
(* HttpServer (main.rs) runs every request on one of several worker       *)
(* threads; each worker thread is a single-threaded async executor, and   *)
(* tokio::spawn inside a handler puts the new task on that same thread.   *)
(* So the listener task of a tenant (ScriptWorkerThread::new) and the     *)
(* Wait senders of stop_watch_runtime live on the thread of the request   *)
(* that created them.  A task runs until it awaits something not ready;   *)
(* a std Mutex/RwLock acquire or send_blocking that cannot proceed blocks *)
(* the whole thread, so no other task of that thread runs meanwhile.      *)
(*                                                                         *)
(* Modelled: the routes /{p}/start (start_runtime), /{p}/stop, /{p}/exit  *)
(* with Drop for ScriptWorkerThread, and forward(); WORKER_TABLE (std      *)
(* Mutex), PORT_TABLE (std RwLock; a reader waits only while a writer     *)
(* holds it), server_tx (bounded(1)), the listener's bind/accept/recv.    *)
(* The script runtimes run on threads of their own and always answer;     *)
(* the watch channel is drained by them and never blocks a sender.        *)
(***************************************************************************)
EXTENDS Naturals, Sequences, FiniteSets

CONSTANTS
  Threads,   \* actix worker threads
  Tenants,   \* product codes
  Kinds,     \* routes requests may take: subset of AllKinds
  NReq       \* number of requests served (bound)

AllKinds == {"start", "stop", "exit", "forward"}
ASSUME Kinds \subseteq AllKinds /\ NReq \in Nat

Req  == 1 .. NReq
Inst == 1 .. NReq               \* one ScriptWorkerThread per start at most
R(r) == <<"R", r>>              \* the task of request r
L(i) == <<"L", i>>              \* the listener task of instance i
None == <<"none", 0>>
Msgs == {"Start", "Wait", "Exit"}

VARIABLES
  pc,       \* request r's point in its handler
  thr,      \* worker thread request r runs on
  kind,     \* route of request r
  ten,      \* product code of request r
  inst,     \* ScriptWorkerThread instance request r works on
  running,  \* task a thread is polling, or None when idle
  tbl,      \* WORKER_TABLE holder (a task) or None
  writer,   \* PORT_TABLE write holder or None
  readers,  \* requests holding PORT_TABLE read guards
  cur,      \* WORKER_TABLE: tenant -> instance (0: absent)
  ptab,     \* PORT_TABLE: tenant -> instance whose port it maps to (0)
  lst,      \* listener task of an instance: none/bind/run/exit
  home,     \* thread the listener task was spawned on
  chan,     \* server_tx/server_rx content of an instance
  watch,    \* watch_tx.is_some() of an instance
  nextInst, \* next instance id
  snd       \* stop_watch_runtime's spawned Wait sender, per request

vars == <<pc, thr, kind, ten, inst, running, tbl, writer, readers, cur,
          ptab, lst, home, chan, watch, nextInst, snd>>

PCs == {"idle", "begin", "blockTbl", "locked", "waitSend", "new",
        "blockNew", "drop", "blockDrop", "blockSend", "blockRead",
        "waitAccept", "accepted", "done"}

Full(i)       == Len(chan[i]) = 1
Closed(i)     == lst[i] = "exit"      \* receiver dropped: sends fail at once
WriteFree     == writer = None /\ readers = {}
Yield(r)      == running' = [running EXCEPT ![thr[r]] = None]
Hold(r)       == running' = [running EXCEPT ![thr[r]] = R(r)]
\* A task of thread t may be polled when t is idle or already polls it.
Runs(t, task) == running[t] \in {None, task}

-----------------------------------------------------------------------------
Init ==
  /\ pc = [r \in Req |-> "idle"]
  /\ thr = [r \in Req |-> None]
  /\ kind = [r \in Req |-> None]
  /\ ten = [r \in Req |-> None]
  /\ inst = [r \in Req |-> 0]
  /\ running = [t \in Threads |-> None]
  /\ tbl = None /\ writer = None /\ readers = {}
  /\ cur = [p \in Tenants |-> 0] /\ ptab = [p \in Tenants |-> 0]
  /\ lst = [i \in Inst |-> "none"]
  /\ home = [i \in Inst |-> None]
  /\ chan = [i \in Inst |-> <<>>]
  /\ watch = [i \in Inst |-> FALSE]
  /\ nextInst = 1
  /\ snd = [r \in Req |-> "none"]

(* A request reaches a worker thread; the route and product code come    *)
(* from the URL or the product_code header.                              *)
Arrive(r, t, k, p) ==
  /\ pc[r] = "idle"
  /\ pc' = [pc EXCEPT ![r] = "begin"]
  /\ thr' = [thr EXCEPT ![r] = t]
  /\ kind' = [kind EXCEPT ![r] = k]
  /\ ten' = [ten EXCEPT ![r] = p]
  /\ UNCHANGED <<inst, running, tbl, writer, readers, cur, ptab, lst, home,
                 chan, watch, nextInst, snd>>

\* Requests that hold no lock and finish leave their thread idle.
Finish(r) == pc' = [pc EXCEPT ![r] = "done"]

(* `WORKER_TABLE.lock().unwrap()` at the top of every route: taken when  *)
(* free, otherwise the thread blocks in lock().                          *)
LockTable(r) ==
  /\ pc[r] \in {"begin", "blockTbl"}
  /\ kind[r] # "forward"
  /\ Runs(thr[r], R(r))
  /\ tbl = None
  /\ tbl' = R(r)
  /\ pc' = [pc EXCEPT ![r] = "locked"]
  /\ Hold(r)
  /\ UNCHANGED <<thr, kind, ten, inst, writer, readers, cur, ptab, lst, home,
                 chan, watch, nextInst, snd>>

BlockTable(r) ==
  /\ pc[r] = "begin"
  /\ kind[r] # "forward"
  /\ Runs(thr[r], R(r))
  /\ tbl # None
  /\ pc' = [pc EXCEPT ![r] = "blockTbl"]
  /\ Hold(r)
  /\ UNCHANGED <<thr, kind, ten, inst, tbl, writer, readers, cur, ptab, lst,
                 home, chan, watch, nextInst, snd>>

\* A send on server_tx whose receiver is gone fails at once.
Send(i, m) == IF Closed(i) THEN chan ELSE [chan EXCEPT ![i] = Append(@, m)]

(* start_runtime, worker present and watch_tx set: nothing to do. *)
StartRunning(r) ==
  /\ pc[r] = "locked" /\ kind[r] = "start"
  /\ cur[ten[r]] # 0 /\ watch[cur[ten[r]]]
  /\ tbl' = None /\ Finish(r) /\ Yield(r)
  /\ UNCHANGED <<thr, kind, ten, inst, writer, readers, cur, ptab, lst, home,
                 chan, watch, nextInst, snd>>

\* Mutant: start_watch_runtime's send does not wait for room.
StartWatchNoWait(r) ==
  /\ pc[r] = "locked" /\ kind[r] = "start"
  /\ LET i == cur[ten[r]] IN
       /\ i # 0 /\ ~watch[i]
       /\ watch' = [watch EXCEPT ![i] = TRUE]
       /\ inst' = [inst EXCEPT ![r] = i]
       /\ chan' = Send(i, "Start")
       /\ tbl' = None /\ Finish(r) /\ Yield(r)
  /\ UNCHANGED <<thr, kind, ten, writer, readers, cur, ptab, lst, home,
                 nextInst, snd>>

(* start_runtime, worker present without watch_tx: start_watch_runtime    *)
(* sets watch_tx and awaits server_tx.send(Start); with the bounded(1)    *)
(* channel full the route suspends, still holding WORKER_TABLE.           *)
StartWatch(r) ==
  /\ pc[r] = "locked" /\ kind[r] = "start"
  /\ LET i == cur[ten[r]] IN
       /\ i # 0 /\ ~watch[i]
       /\ watch' = [watch EXCEPT ![i] = TRUE]
       /\ inst' = [inst EXCEPT ![r] = i]
       /\ IF Full(i) /\ ~Closed(i)
            THEN /\ pc' = [pc EXCEPT ![r] = "waitSend"]
                 /\ UNCHANGED <<chan, tbl>>
            ELSE /\ chan' = Send(i, "Start")
                 /\ tbl' = None /\ Finish(r)
       /\ Yield(r)
  /\ UNCHANGED <<thr, kind, ten, writer, readers, cur, ptab, lst, home,
                 nextInst, snd>>

(* The suspended send completes once the listener took a message. *)
StartSendResume(r) ==
  /\ pc[r] = "waitSend"
  /\ Runs(thr[r], R(r))
  /\ ~Full(inst[r]) \/ Closed(inst[r])
  /\ chan' = Send(inst[r], "Start")
  /\ tbl' = None /\ Finish(r)
  /\ UNCHANGED <<thr, kind, ten, inst, running, writer, readers, cur, ptab,
                 lst, home, watch, nextInst, snd>>

(* start_runtime, no worker: ScriptWorkerThread::new calls get_next_port, *)
(* which takes PORT_TABLE.write() (the thread blocks while it is held or  *)
(* read), records the port, spawns the listener on this thread; then     *)
(* start_watch_runtime sends Start on the fresh channel and the worker is *)
(* inserted into WORKER_TABLE.                                            *)
StartNew(r) ==
  /\ pc[r] = "locked" /\ kind[r] = "start"
  /\ cur[ten[r]] = 0
  /\ pc' = [pc EXCEPT ![r] = "new"]
  /\ UNCHANGED <<thr, kind, ten, inst, running, tbl, writer, readers, cur,
                 ptab, lst, home, chan, watch, nextInst, snd>>

NewWorker(r) ==
  /\ pc[r] \in {"new", "blockNew"}
  /\ WriteFree
  /\ LET i == nextInst IN
       /\ ptab' = [ptab EXCEPT ![ten[r]] = i]
       /\ lst' = [lst EXCEPT ![i] = "bind"]
       /\ home' = [home EXCEPT ![i] = thr[r]]
       /\ watch' = [watch EXCEPT ![i] = TRUE]
       /\ chan' = [chan EXCEPT ![i] = <<"Start">>]
       /\ cur' = [cur EXCEPT ![ten[r]] = i]
       /\ inst' = [inst EXCEPT ![r] = i]
  /\ nextInst' = nextInst + 1
  /\ tbl' = None /\ Finish(r) /\ Yield(r)
  /\ UNCHANGED <<thr, kind, ten, writer, readers, snd>>

BlockNew(r) ==
  /\ pc[r] = "new"
  /\ ~WriteFree
  /\ pc' = [pc EXCEPT ![r] = "blockNew"]
  /\ UNCHANGED <<thr, kind, ten, inst, running, tbl, writer, readers, cur,
                 ptab, lst, home, chan, watch, nextInst, snd>>

(* /{p}/stop: stop_watch_runtime clears watch_tx and, when it was set,    *)
(* spawns a task on this thread that sends Wait.                          *)
StopRoute(r) ==
  /\ pc[r] = "locked" /\ kind[r] = "stop"
  /\ LET i == cur[ten[r]] IN
       /\ snd' = IF i # 0 /\ watch[i] THEN [snd EXCEPT ![r] = "ready"] ELSE snd
       /\ watch' = IF i # 0 THEN [watch EXCEPT ![i] = FALSE] ELSE watch
       /\ inst' = [inst EXCEPT ![r] = i]
  /\ tbl' = None /\ Finish(r) /\ Yield(r)
  /\ UNCHANGED <<thr, kind, ten, writer, readers, cur, ptab, lst, home, chan,
                 nextInst>>

(* /{p}/exit: remove the worker from WORKER_TABLE; nothing there: done. *)
ExitAbsent(r) ==
  /\ pc[r] = "locked" /\ kind[r] = "exit"
  /\ cur[ten[r]] = 0
  /\ tbl' = None /\ Finish(r) /\ Yield(r)
  /\ UNCHANGED <<thr, kind, ten, inst, writer, readers, cur, ptab, lst, home,
                 chan, watch, nextInst, snd>>

ExitRemove(r) ==
  /\ pc[r] = "locked" /\ kind[r] = "exit"
  /\ cur[ten[r]] # 0
  /\ inst' = [inst EXCEPT ![r] = cur[ten[r]]]
  /\ cur' = [cur EXCEPT ![ten[r]] = 0]
  /\ pc' = [pc EXCEPT ![r] = "drop"]
  /\ UNCHANGED <<thr, kind, ten, running, tbl, writer, readers, ptab, lst,
                 home, chan, watch, nextInst, snd>>

(* Drop for ScriptWorkerThread, run by exit while it holds WORKER_TABLE:  *)
(* PORT_TABLE.write() (held to the end of drop), remove the port,         *)
(* stop_all_runtime (stop_watch_runtime spawns the Wait sender), then     *)
(* server_tx.send_blocking(Exit), which blocks the thread while the       *)
(* channel is full.                                                       *)
DropWorker(r) ==
  /\ pc[r] \in {"drop", "blockDrop"}
  /\ WriteFree
  /\ LET i == inst[r] IN
       /\ ptab' = [ptab EXCEPT ![ten[r]] = 0]
       /\ snd' = IF watch[i] THEN [snd EXCEPT ![r] = "ready"] ELSE snd
       /\ watch' = [watch EXCEPT ![i] = FALSE]
       /\ IF Full(i) /\ ~Closed(i)
            THEN /\ pc' = [pc EXCEPT ![r] = "blockSend"]
                 /\ writer' = R(r)
                 /\ UNCHANGED <<chan, tbl, running>>
            ELSE /\ chan' = Send(i, "Exit")
                 /\ tbl' = None /\ Finish(r) /\ Yield(r)
                 /\ UNCHANGED writer
  /\ UNCHANGED <<thr, kind, ten, inst, readers, cur, lst, home, nextInst>>

BlockDrop(r) ==
  /\ pc[r] = "drop"
  /\ ~WriteFree
  /\ pc' = [pc EXCEPT ![r] = "blockDrop"]
  /\ UNCHANGED <<thr, kind, ten, inst, running, tbl, writer, readers, cur,
                 ptab, lst, home, chan, watch, nextInst, snd>>

(* send_blocking returns once the listener took a message; drop releases *)
(* PORT_TABLE and exit releases WORKER_TABLE.                             *)
ExitSendResume(r) ==
  /\ pc[r] = "blockSend"
  /\ ~Full(inst[r]) \/ Closed(inst[r])
  /\ chan' = Send(inst[r], "Exit")
  /\ writer' = None /\ tbl' = None /\ Finish(r) /\ Yield(r)
  /\ UNCHANGED <<thr, kind, ten, inst, readers, cur, ptab, lst, home, watch,
                 nextInst, snd>>

\* Mutant: forward drops the PORT_TABLE guard once it has the port.
ForwardReleaseGuard(r) ==
  /\ pc[r] \in {"begin", "blockRead"}
  /\ kind[r] = "forward"
  /\ Runs(thr[r], R(r))
  /\ writer = None
  /\ LET i == ptab[ten[r]] IN
       IF i # 0 /\ lst[i] = "run"
         THEN /\ inst' = [inst EXCEPT ![r] = i]
              /\ pc' = [pc EXCEPT ![r] = "waitAccept"]
         ELSE /\ Finish(r) /\ UNCHANGED inst
  /\ Yield(r)
  /\ UNCHANGED <<thr, kind, ten, tbl, writer, readers, cur, ptab, lst, home,
                 chan, watch, nextInst, snd>>

(* forward(): PORT_TABLE.read() (the thread blocks while a writer holds   *)
(* it); no port: NotFound.  Otherwise connect to the tenant's port: a     *)
(* listener not bound yet or gone refuses and the route returns an error; *)
(* a bound one accepts later, and the route awaits the upstream response  *)
(* with the read guard `hand_port` still alive.                           *)
Forward(r) ==
  /\ pc[r] \in {"begin", "blockRead"}
  /\ kind[r] = "forward"
  /\ Runs(thr[r], R(r))
  /\ writer = None
  /\ LET i == ptab[ten[r]] IN
       IF i # 0 /\ lst[i] = "run"
         THEN /\ readers' = readers \cup {r}
              /\ inst' = [inst EXCEPT ![r] = i]
              /\ pc' = [pc EXCEPT ![r] = "waitAccept"]
         ELSE /\ Finish(r) /\ UNCHANGED <<readers, inst>>
  /\ Yield(r)
  /\ UNCHANGED <<thr, kind, ten, tbl, writer, cur, ptab, lst, home, chan,
                 watch, nextInst, snd>>

BlockRead(r) ==
  /\ pc[r] = "begin"
  /\ kind[r] = "forward"
  /\ Runs(thr[r], R(r))
  /\ writer # None
  /\ pc' = [pc EXCEPT ![r] = "blockRead"]
  /\ Hold(r)
  /\ UNCHANGED <<thr, kind, ten, inst, tbl, writer, readers, cur, ptab, lst,
                 home, chan, watch, nextInst, snd>>

(* The upstream answered: forward returns and the guard is dropped. *)
ForwardDone(r) ==
  /\ pc[r] = "accepted"
  /\ Runs(thr[r], R(r))
  /\ readers' = readers \ {r}
  /\ Finish(r)
  /\ UNCHANGED <<thr, kind, ten, inst, running, tbl, writer, cur, ptab, lst,
                 home, chan, watch, nextInst>> /\ UNCHANGED snd

(* The listener task of ScriptWorkerThread::new, polled on its home      *)
(* thread: TcpListener::bind, then select! over accept and server_rx.    *)
Bind(i) ==
  /\ lst[i] = "bind"
  /\ Runs(home[i], L(i))
  /\ lst' = [lst EXCEPT ![i] = "run"]
  /\ UNCHANGED <<pc, thr, kind, ten, inst, running, tbl, writer, readers, cur,
                 ptab, home, chan, watch, nextInst, snd>>

Accept(i, r) ==
  /\ lst[i] = "run"
  /\ Runs(home[i], L(i))
  /\ pc[r] = "waitAccept" /\ inst[r] = i
  /\ pc' = [pc EXCEPT ![r] = "accepted"]
  /\ UNCHANGED <<thr, kind, ten, inst, running, tbl, writer, readers, cur,
                 ptab, lst, home, chan, watch, nextInst, snd>>

Recv(i) ==
  /\ lst[i] = "run"
  /\ Runs(home[i], L(i))
  /\ chan[i] # <<>>
  /\ chan' = [chan EXCEPT ![i] = Tail(@)]
  /\ lst' = IF Head(chan[i]) = "Exit" THEN [lst EXCEPT ![i] = "exit"] ELSE lst
  /\ UNCHANGED <<pc, thr, kind, ten, inst, running, tbl, writer, readers, cur,
                 ptab, home, watch, nextInst, snd>>

(* The task stop_watch_runtime spawned: its send(Wait) waits for room. *)
SendWait(r) ==
  /\ snd[r] = "ready"
  /\ Runs(thr[r], <<"S", r>>)
  /\ ~Full(inst[r]) \/ Closed(inst[r])
  /\ chan' = Send(inst[r], "Wait")
  /\ snd' = [snd EXCEPT ![r] = "done"]
  /\ UNCHANGED <<pc, thr, kind, ten, inst, running, tbl, writer, readers, cur,
                 ptab, lst, home, watch, nextInst>>

RequestStep(r) ==
  \/ LockTable(r) \/ BlockTable(r)
  \/ StartRunning(r) \/ StartWatch(r) \/ StartSendResume(r)
  \/ StartNew(r) \/ NewWorker(r) \/ BlockNew(r)
  \/ StopRoute(r)
  \/ ExitAbsent(r) \/ ExitRemove(r) \/ DropWorker(r) \/ BlockDrop(r)
  \/ ExitSendResume(r)
  \/ Forward(r) \/ BlockRead(r) \/ ForwardDone(r)

ListenerStep(i) == Bind(i) \/ Recv(i) \/ \E r \in Req : Accept(i, r)

Next ==
  \/ \E r \in Req, t \in Threads, k \in Kinds, p \in Tenants : Arrive(r, t, k, p)
  \/ \E r \in Req : RequestStep(r) \/ SendWait(r)
  \/ \E i \in Inst : ListenerStep(i)

(* Each worker thread's executor polls every ready task; a thread blocked *)
(* in a std lock polls nothing, which the guards already say.             *)
Fairness ==
  /\ \A r \in Req : WF_vars(RequestStep(r)) /\ WF_vars(SendWait(r))
  /\ \A i \in Inst : WF_vars(ListenerStep(i))

Spec == Init /\ [][Next]_vars /\ Fairness

-----------------------------------------------------------------------------
TypeOK ==
  /\ pc \in [Req -> PCs]
  /\ running \in [Threads -> {None} \cup {R(r) : r \in Req}]
  /\ tbl \in {None} \cup {R(r) : r \in Req}
  /\ writer \in {None} \cup {R(r) : r \in Req}
  /\ readers \subseteq Req
  /\ cur \in [Tenants -> 0 .. NReq] /\ ptab \in [Tenants -> 0 .. NReq]
  /\ lst \in [Inst -> {"none", "bind", "run", "exit"}]
  \* server_tx is async_channel::bounded(1)
  /\ \A i \in Inst : chan[i] \in Seq(Msgs) /\ Len(chan[i]) <= 1
  /\ watch \in [Inst -> BOOLEAN]
  /\ snd \in [Req -> {"none", "ready", "done"}]

(* forward() keeps the PORT_TABLE read guard across the upstream request, *)
(* and Drop removes the port under the write lock before it sends Exit:  *)
(* so a proxied connection waiting to be accepted always targets a        *)
(* listener that is still running (never one told to exit).               *)
ForwardTargetsLiveListener ==
  \A r \in Req : pc[r] = "waitAccept" => lst[inst[r]] = "run"

(* Every route handler that started eventually returns: no thread is     *)
(* left blocked in a std lock or send_blocking while the task it waits on *)
(* is stuck behind it.                                                    *)
HandlersComplete ==
  \A r \in Req : (pc[r] \notin {"idle", "done"}) ~> (pc[r] = "done")
=============================================================================
