----------------------------- MODULE Diagnostics -----------------------------
(***************************************************************************)
(* The LSP diagnostics server (src/service/src/lsp/diagnostics.rs).        *)
(* DiagnosticsServer::update sends a snapshot of the open documents over   *)
(* an unbounded mpsc channel.  The server loop, on its own current-thread  *)
(* runtime, takes one message at a time: it cancels the previous          *)
(* CancellationToken, makes a new one, clears the publisher's map (a      *)
(* tokio Mutex) and spawns three tasks -- ts, deps, lint -- each of which  *)
(* first awaits the task of the same kind spawned for the previous        *)
(* message.  A task computes the diagnostics of every document of its     *)
(* snapshot and, unless its token is cancelled, publishes them: under the  *)
(* publisher's lock it appends each record to all_diagnostics[spec][ver]  *)
(* and sends the accumulated list to the client, checking the token       *)
(* before each record.                                                    *)
(*                                                                         *)
(* Diagnostics are abstracted to their source: the list published for a   *)
(* document is a sequence of kinds.  Documents are model values, versions *)
(* small naturals, and the HashMap order of the records is free.          *)
(***************************************************************************)
EXTENDS Naturals, Sequences, FiniteSets, Functions

CONSTANTS
  Specs,       \* open, diagnosable documents (ModuleSpecifier)
  MaxVer,      \* bound on LSP document versions
  MaxUpdates   \* bound on DiagnosticsServer::update calls

Kinds    == {"ts", "deps", "lint"}
Gens     == 1 .. MaxUpdates           \* message number a task serves
Versions == 0 .. MaxVer
Snapshot == [Specs -> Versions]
TaskIds  == Kinds \X Gens
PCs      == {"idle", "prev", "debounce", "gen", "lock", "publish", "done"}

ASSUME MaxVer \in Nat /\ MaxUpdates \in Nat \ {0}

VARIABLES
  ver,        \* document versions held by the language server
  chan,       \* the mpsc channel: snapshots not yet received
  batch,      \* update() calls so far (DiagnosticBatchCounter)
  served,     \* messages the server loop has received
  srvMsg,     \* the message the loop is handling
  srv,        \* server loop: at rx.recv() ("recv") or at clear() ("clear")
  token,      \* id of the loop's current CancellationToken
  cancelled,  \* ids of cancelled tokens
  pc,         \* per task: its place in the spawned future
  tok,        \* per task: the token it cloned
  snap,       \* per task: the snapshot it was spawned with
  items,      \* per task: records not yet published
  lock,       \* holder of all_diagnostics' Mutex: a task or NoLock
  all,        \* DiagnosticsPublisher.all_diagnostics
  client,     \* last publishDiagnostics the client got, per document
  tsStore     \* TsDiagnosticsStore: version of the stored ts diagnostics

vars == <<ver, chan, batch, served, srvMsg, srv, token, cancelled,
          pc, tok, snap, items, lock, all, client, tsStore>>
taskVars == <<pc, tok, snap, items>>

NoVersion == [s \in Specs |-> 0]
NoLock    == <<"none", 0>>

Cancelled(t) == tok[t] \in cancelled

\* The task spawned for the previous message with the same kind.
Previous(t) == <<t[1], t[2] - 1>>

-----------------------------------------------------------------------------
Init ==
  /\ ver = [s \in Specs |-> 1]
  /\ chan = <<>>
  /\ batch = 0
  /\ served = 0
  /\ srvMsg = NoVersion
  /\ srv = "recv"
  /\ token = 0
  /\ cancelled = {}
  /\ pc = [t \in TaskIds |-> "idle"]
  /\ tok = [t \in TaskIds |-> 0]
  /\ snap = [t \in TaskIds |-> NoVersion]
  /\ items = [t \in TaskIds |-> {}]
  /\ lock = NoLock
  /\ all = [s \in Specs |-> [v \in Versions |-> <<>>]]
  /\ client = [s \in Specs |-> [ver |-> 0, diags |-> <<>>]]
  /\ tsStore = NoVersion

(* The language server changes documents and calls update() with a new   *)
(* snapshot; update increments the batch counter and sends the message.  *)
Update ==
  /\ batch < MaxUpdates
  /\ \E nv \in [Specs -> Versions] :
       /\ \A s \in Specs : nv[s] >= ver[s]
       /\ ver' = nv
       /\ chan' = Append(chan, nv)
  /\ batch' = batch + 1
  /\ UNCHANGED <<served, srvMsg, srv, token, cancelled, taskVars, lock, all,
                 client, tsStore>>

\* Mutant: the loop cancels the token but keeps using it.
ServerRecvKeepToken ==
  /\ srv = "recv"
  /\ chan # <<>>
  /\ srvMsg' = Head(chan)
  /\ chan' = Tail(chan)
  /\ served' = served + 1
  /\ cancelled' = cancelled \cup {token}
  /\ token' = token
  /\ srv' = "clear"
  /\ UNCHANGED <<ver, batch, taskVars, lock, all, client, tsStore>>

\* Mutant: the loop does not cancel the previous run.
ServerRecvNoCancel ==
  /\ srv = "recv"
  /\ chan # <<>>
  /\ srvMsg' = Head(chan)
  /\ chan' = Tail(chan)
  /\ served' = served + 1
  /\ token' = served + 1
  /\ srv' = "clear"
  /\ UNCHANGED <<ver, batch, cancelled, taskVars, lock, all, client, tsStore>>

(* rx.recv() yields a message: token.cancel(); token = new token. *)
ServerRecv ==
  /\ srv = "recv"
  /\ chan # <<>>
  /\ srvMsg' = Head(chan)
  /\ chan' = Tail(chan)
  /\ served' = served + 1
  /\ cancelled' = cancelled \cup {token}
  /\ token' = served + 1
  /\ srv' = "clear"
  /\ UNCHANGED <<ver, batch, taskVars, lock, all, client, tsStore>>

\* Mutant: the loop spawns the new tasks without clearing the publisher.
ServerClearKeepAll ==
  /\ srv = "clear"
  /\ lock = NoLock
  /\ pc' = [t \in TaskIds |-> IF t[2] = served THEN "prev" ELSE pc[t]]
  /\ tok' = [t \in TaskIds |-> IF t[2] = served THEN token ELSE tok[t]]
  /\ snap' = [t \in TaskIds |-> IF t[2] = served THEN srvMsg ELSE snap[t]]
  /\ srv' = "recv"
  /\ UNCHANGED <<ver, chan, batch, served, srvMsg, token, cancelled, items,
                 lock, all, client, tsStore>>

(* diagnostics_publisher.clear().await takes the publisher's lock and     *)
(* empties the map; then the loop spawns the ts, deps and lint tasks,     *)
(* each holding a clone of the new token and of the snapshot.             *)
ServerClear ==
  /\ srv = "clear"
  /\ lock = NoLock
  /\ all' = [s \in Specs |-> [v \in Versions |-> <<>>]]
  /\ pc' = [t \in TaskIds |-> IF t[2] = served THEN "prev" ELSE pc[t]]
  /\ tok' = [t \in TaskIds |-> IF t[2] = served THEN token ELSE tok[t]]
  /\ snap' = [t \in TaskIds |-> IF t[2] = served THEN srvMsg ELSE snap[t]]
  /\ srv' = "recv"
  /\ UNCHANGED <<ver, chan, batch, served, srvMsg, token, cancelled, items,
                 lock, client, tsStore>>

(* `if let Some(previous_handle) = ... { previous_handle.await; }`: the   *)
(* first message's tasks have no previous handle.                         *)
TaskPrev(t) ==
  /\ pc[t] = "prev"
  /\ t[2] > 1 => pc[Previous(t)] = "done"
  /\ pc' = [pc EXCEPT ![t] = IF t[1] = "ts" THEN "debounce" ELSE "gen"]
  /\ UNCHANGED <<ver, chan, batch, served, srvMsg, srv, token, cancelled,
                 tok, snap, items, lock, all, client, tsStore>>

(* The ts task's debounce: select! over token.cancelled() and a 200ms     *)
(* sleep.  The timer may fire whether or not the token is cancelled (when *)
(* both are ready select! picks either); a cancelled token may return.    *)
TsDebounce(t) ==
  /\ pc[t] = "debounce"
  /\ \/ /\ Cancelled(t)
        /\ pc' = [pc EXCEPT ![t] = "done"]
     \/ pc' = [pc EXCEPT ![t] = "gen"]
  /\ UNCHANGED <<ver, chan, batch, served, srvMsg, srv, token, cancelled,
                 tok, snap, items, lock, all, client, tsStore>>

(* generate_{ts,deno,lint}_diagnostics yields one record per document of  *)
(* the snapshot, with the snapshot's version; then `if !token.is_cancelled *)
(* ()` the ts task stores its records in TsDiagnosticsStore and every task *)
(* goes on to publish.  A cancelled run publishes nothing.                *)
Generate(t) ==
  /\ pc[t] = "gen"
  /\ IF Cancelled(t)
       THEN /\ pc' = [pc EXCEPT ![t] = "done"]
            /\ UNCHANGED <<items, tsStore>>
       ELSE /\ pc' = [pc EXCEPT ![t] = "lock"]
            /\ items' = [items EXCEPT ![t] = Specs]
            /\ tsStore' = IF t[1] = "ts" THEN snap[t] ELSE tsStore
  /\ UNCHANGED <<ver, chan, batch, served, srvMsg, srv, token, cancelled,
                 tok, snap, lock, all, client>>

(* publish(): self.all_diagnostics.lock().await. *)
PublishLock(t) ==
  /\ pc[t] = "lock"
  /\ lock = NoLock
  /\ lock' = t
  /\ pc' = [pc EXCEPT ![t] = "publish"]
  /\ UNCHANGED <<ver, chan, batch, served, srvMsg, srv, token, cancelled,
                 tok, snap, items, all, client, tsStore>>

(* One turn of publish's loop, holding the lock: a cancelled token        *)
(* returns; otherwise the record extends all_diagnostics[spec][version]   *)
(* and the whole list for that version goes to the client.  The guard     *)
(* drops when the loop ends.                                              *)
PublishItem(t) ==
  /\ pc[t] = "publish"
  /\ \/ /\ Cancelled(t) \/ items[t] = {}
        /\ pc' = [pc EXCEPT ![t] = "done"]
        /\ lock' = NoLock
        /\ UNCHANGED <<items, all, client>>
     \/ /\ ~Cancelled(t)
        /\ \E s \in items[t] :
             LET v == snap[t][s]
                 list == Append(all[s][v], t[1])
             IN /\ all' = [all EXCEPT ![s][v] = list]
                /\ client' = [client EXCEPT ![s] = [ver |-> v, diags |-> list]]
                /\ items' = [items EXCEPT ![t] = @ \ {s}]
        /\ UNCHANGED <<pc, lock>>
  /\ UNCHANGED <<ver, chan, batch, served, srvMsg, srv, token, cancelled,
                 tok, snap, tsStore>>

TaskStep(t) ==
  TaskPrev(t) \/ TsDebounce(t) \/ Generate(t) \/ PublishLock(t)
    \/ PublishItem(t)

Next ==
  \/ Update
  \/ ServerRecv
  \/ ServerClear
  \/ \E t \in TaskIds : TaskStep(t)

(* The server loop and the tasks run on one current-thread runtime, which *)
(* polls every ready future; tsc answers every request.  The language     *)
(* server's updates are up to the user.                                   *)
Fairness ==
  /\ WF_vars(ServerRecv)
  /\ WF_vars(ServerClear)
  /\ \A t \in TaskIds : WF_vars(TaskStep(t))

Spec == Init /\ [][Next]_vars /\ Fairness

-----------------------------------------------------------------------------
(* The client never sees a document's diagnostics go back to an older    *)
(* version: a run superseded by a newer update publishes nothing after    *)
(* the newer run has started publishing.                                  *)
PublishedVersionsMonotonic ==
  [][\A s \in Specs : client'[s].ver >= client[s].ver]_vars

(* No source's diagnostics are published twice in one list: a record of  *)
(* a superseded run is never appended after clear() to the list a newer   *)
(* run extends for the same document version.                            *)
NoDuplicateDiagnostics ==
  \A s \in Specs : IsInjective(client[s].diags)

(* Once the language server stops sending updates, the client ends up     *)
(* with the diagnostics of every source for the newest version of each   *)
(* document.                                                              *)
Current ==
  \A s \in Specs : /\ client[s].ver = ver[s]
                   /\ Range(client[s].diags) = Kinds

Converges == <>[](batch > 0 => Current)
=============================================================================
