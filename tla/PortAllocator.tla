---------------------------- MODULE PortAllocator ----------------------------
(***************************************************************************)
(* The port allocator of the gateway: the process-wide cursor WORKER_PORT, *)
(* the PORT_TABLE that maps a tenant to its port, get_next_port, and the   *)
(* per-tenant listener that binds the port after get_next_port returned    *)
(* (src/cassie-cool/src/worker_util.rs).  Ports are u16 in the code; here  *)
(* they have PortBits bits, so WorkerPort::next fails at 2^PortBits - 1 as *)
(* it fails at 65535.  is_free asks the OS, so a port is busy when another *)
(* process (external) or one of the gateway's own listeners holds it.     *)
(*                                                                         *)
(* get_next_port runs inside ScriptWorkerThread::new, which every control  *)
(* handler calls while it holds WORKER_TABLE; exit removes the entry while *)
(* it holds WORKER_TABLE too.  So allocations and removals never overlap: *)
(* alloc is the tenant whose allocation holds both locks.                 *)
(***************************************************************************)
EXTENDS Naturals, FiniteSets, Functions

CONSTANTS
  Tenants,    \* product codes (ScriptWorkerId), model values
  PortBits,   \* width of WorkerPort
  BasePort,   \* initial value of WORKER_PORT (3000 in the code)
  NoPort,     \* no PORT_TABLE entry
  NoTenant,   \* no allocation in progress
  ExternalChurn  \* other processes bind and release ports while we run

MaxPort   == 2^PortBits - 1
PortSpace == 0 .. MaxPort              \* every u16
Ports     == BasePort + 1 .. MaxPort   \* the ports get_next_port can hand out

ASSUME /\ PortBits \in Nat \ {0}
       /\ BasePort \in 0 .. MaxPort
       /\ NoPort \notin Ports
       /\ NoTenant \notin Tenants
       /\ ExternalChurn \in BOOLEAN

\* Listener states of one port: no gateway listener, task spawned but not yet
\* bound, bound and serving, bind failed (the task's unwrap panicked).
ListenerStates == {"none", "binding", "bound", "failed"}

VARIABLES
  cursor,     \* WORKER_PORT
  portTable,  \* PORT_TABLE
  listener,   \* state of the gateway listener on each port
  external,   \* ports bound by processes outside the gateway
  alloc,      \* tenant inside get_next_port, or NoTenant
  poisoned    \* a panic while holding WORKER_PORT/WORKER_TABLE poisoned them

vars == <<cursor, portTable, listener, external, alloc, poisoned>>

\* Mutant: WorkerPort::next with wrapping_add instead of checked_add.
NextPortWrapping(p) == (p + 1) % (MaxPort + 1)

(* WorkerPort::next: checked_add(1), None at the top of the range. *)
NextPort(p) == IF p + 1 <= MaxPort THEN p + 1 ELSE NoPort

(* port_selector::is_free: nothing on localhost has bound the port; a   *)
(* listener task that has not bound yet does not count.                 *)
IsFree(p) == p \notin external /\ listener[p] # "bound"

HasWorker(t) == portTable[t] # NoPort

-----------------------------------------------------------------------------
Init ==
  /\ cursor = BasePort
  /\ portTable = [t \in Tenants |-> NoPort]
  /\ listener = [p \in PortSpace |-> "none"]
  /\ external \in SUBSET Ports
  /\ alloc = NoTenant
  /\ poisoned = FALSE

(* A start handler for a tenant without a worker calls ScriptWorkerThread *)
(* ::new, which locks WORKER_PORT and unwraps curport.next(): at the top   *)
(* of the range the unwrap panics with both locks held and poisons them,  *)
(* and the allocation never returns.                                      *)
GetNextPortBegin(t) ==
  /\ alloc = NoTenant
  /\ ~poisoned
  /\ ~HasWorker(t)
  /\ alloc' = t
  /\ poisoned' = (NextPort(cursor) = NoPort)
  /\ UNCHANGED <<cursor, portTable, listener, external>>

\* Mutant: get_next_port taking curport.next() without asking is_free.
GetNextPortProbeNoCheck ==
  LET t == alloc
      p == NextPort(cursor)
  IN /\ t # NoTenant
     /\ ~poisoned
     /\ cursor' = p
     /\ portTable' = [portTable EXCEPT ![t] = p]
     /\ listener' = [listener EXCEPT ![p] = "binding"]
     /\ alloc' = NoTenant
     /\ UNCHANGED <<external, poisoned>>

\* Mutant: get_next_port without `*curport = curr_port`.
GetNextPortProbeKeepCursor ==
  LET t == alloc
      p == NextPort(cursor)
  IN /\ t # NoTenant
     /\ ~poisoned
     /\ \/ /\ IsFree(p)
           /\ portTable' = [portTable EXCEPT ![t] = p]
           /\ listener' = [listener EXCEPT ![p] = "binding"]
           /\ alloc' = NoTenant
           /\ UNCHANGED <<cursor, external, poisoned>>
        \/ /\ ~IsFree(p)
           /\ UNCHANGED vars

(* One turn of `while let Some(port) = curport.next()`.  The loop asks the *)
(* OS about curport.next(), and curport does not change inside the loop,  *)
(* so a busy candidate is probed again and again: only a free one ends    *)
(* the loop.  Ending it stores the cursor, inserts the PORT_TABLE entry,  *)
(* and new() then spawns the listener task that binds the port.           *)
GetNextPortProbe ==
  LET t == alloc
      p == NextPort(cursor)
  IN /\ t # NoTenant
     /\ ~poisoned
     /\ \/ /\ IsFree(p)
           /\ cursor' = p
           /\ portTable' = [portTable EXCEPT ![t] = p]
           /\ listener' = [listener EXCEPT ![p] = "binding"]
           /\ alloc' = NoTenant
           /\ UNCHANGED <<external, poisoned>>
        \/ /\ ~IsFree(p)
           /\ UNCHANGED vars

(* The listener task: TcpListener::bind(addr).await.unwrap(). *)
ListenerBind(p) ==
  /\ listener[p] = "binding"
  /\ listener' = [listener EXCEPT ![p] = IF p \in external THEN "failed" ELSE "bound"]
  /\ UNCHANGED <<cursor, portTable, external, alloc, poisoned>>

\* Mutant: exit hands the tenant's port back by moving WORKER_PORT below it.
ExitReleasePort(t) ==
  /\ alloc = NoTenant
  /\ ~poisoned
  /\ HasWorker(t)
  /\ portTable' = [portTable EXCEPT ![t] = NoPort]
  /\ cursor' = portTable[t] - 1
  /\ UNCHANGED <<listener, external, alloc, poisoned>>

(* exit: WORKER_TABLE.remove drops the worker; Drop removes the PORT_TABLE *)
(* entry and sends ServerStatus::Exit to the listener.                    *)
Exit(t) ==
  /\ alloc = NoTenant
  /\ ~poisoned
  /\ HasWorker(t)
  /\ portTable' = [portTable EXCEPT ![t] = NoPort]
  /\ UNCHANGED <<cursor, listener, external, alloc, poisoned>>

(* The listener loop takes Exit, leaves the loop and drops the listener. *)
ListenerExit(p) ==
  /\ listener[p] \in {"binding", "bound"}
  /\ p \notin Range(portTable)
  /\ listener' = [listener EXCEPT ![p] = "none"]
  /\ UNCHANGED <<cursor, portTable, external, alloc, poisoned>>

(* Other processes on the host bind and release ports (when ExternalChurn; *)
(* otherwise the ports they hold are fixed from the start).              *)
ExternalBind(p) ==
  /\ ExternalChurn
  /\ IsFree(p)
  /\ external' = external \cup {p}
  /\ UNCHANGED <<cursor, portTable, listener, alloc, poisoned>>

ExternalRelease(p) ==
  /\ ExternalChurn
  /\ p \in external
  /\ external' = external \ {p}
  /\ UNCHANGED <<cursor, portTable, listener, alloc, poisoned>>

Next ==
  \/ \E t \in Tenants : GetNextPortBegin(t) \/ Exit(t)
  \/ GetNextPortProbe
  \/ \E p \in Ports : ListenerBind(p) \/ ListenerExit(p)
                      \/ ExternalBind(p) \/ ExternalRelease(p)

(* The probing thread runs; listener tasks run on the tokio runtime.  The *)
(* other processes on the host are under no obligation.                   *)
Fairness ==
  /\ WF_vars(GetNextPortProbe)
  /\ \A p \in Ports : WF_vars(ListenerBind(p)) /\ WF_vars(ListenerExit(p))

Spec == Init /\ [][Next]_vars /\ Fairness

-----------------------------------------------------------------------------
TypeOK ==
  /\ cursor \in BasePort .. MaxPort
  /\ portTable \in [Tenants -> Ports \cup {NoPort}]
  /\ listener \in [PortSpace -> ListenerStates]
  /\ external \in SUBSET Ports
  /\ alloc \in Tenants \cup {NoTenant}
  /\ poisoned \in BOOLEAN

(* Two tenants with a worker never share a port: get_next_port must store *)
(* the cursor it probed, or a second start reuses a port whose listener   *)
(* has not bound yet (is_free still says it is free).                     *)
UniquePorts ==
  \A t1, t2 \in Tenants :
    t1 # t2 /\ HasWorker(t1) => portTable[t1] # portTable[t2]

(* A port handed out is held by no gateway listener, neither a live one   *)
(* nor the listener of an exited worker that has not taken Exit yet.      *)
FreshPort ==
  [][\A t \in Tenants :
       (~HasWorker(t) /\ portTable'[t] # NoPort)
         => listener[portTable'[t]] = "none"]_vars

(* The ports bound on the host, as is_free sees them. *)
Busy == external \cup {p \in Ports : listener[p] = "bound"}

Assignment == INSTANCE PortAssignment WITH table <- portTable, busy <- Busy

(* The allocator implements the contract of spec 4.1 (PortAssignment):   *)
(* each allocation that returns hands out the first port after the       *)
(* cursor that nothing on the host has bound and moves the cursor there,  *)
(* and nothing else (an exit, a listener binding or closing, a panic)     *)
(* moves the cursor or changes another tenant's port.                     *)
ImplementsPortAssignment == Assignment!Spec

(* Spec 4.1/7: an assignment selects the first free candidate, and it is *)
(* fatal only when no candidate is free.  So a started allocation returns  *)
(* a port, unless every port it may hand out is taken: it neither spins   *)
(* on a busy candidate nor panics at the top of the range while ports     *)
(* released by exited tenants are free.                                   *)
AllocationCompletes ==
  (alloc # NoTenant) ~> (alloc = NoTenant \/ \A p \in Ports : ~IsFree(p))
=============================================================================
