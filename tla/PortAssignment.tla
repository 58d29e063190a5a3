---------------------------- MODULE PortAssignment ----------------------------
(***************************************************************************)
(* What the port allocator promises (spec 4.1, get_next_port and Drop in  *)
(* src/cassie-cool/src/worker_util.rs), with none of its locks or steps:   *)
(* an assignment is one atomic step that hands a tenant without a port    *)
(* the first port after the cursor that nothing on the host has bound,    *)
(* and moves the cursor there; an exit forgets the tenant's port.  Which  *)
(* ports are bound changes under the allocator's feet: its own listeners  *)
(* bind and close, and so do other processes.                             *)
(***************************************************************************)
EXTENDS Naturals, FiniteSets, Functions

CONSTANTS Tenants, Ports, BasePort, NoPort

VARIABLES
  table,   \* PORT_TABLE: tenant -> port, or NoPort
  cursor,  \* WORKER_PORT
  busy     \* ports some process on the host has bound

vars == <<table, cursor, busy>>

\* The candidates the allocator may still hand out.
Candidates == {p \in Ports : p > cursor}

(* The first free candidate: spec 4.1 "select the first candidate reported *)
(* free".                                                                 *)
FirstFree == CHOOSE p \in Candidates \ busy : \A q \in Candidates \ busy : p <= q

Init ==
  /\ table = [t \in Tenants |-> NoPort]
  /\ cursor = BasePort
  /\ busy \in SUBSET Ports

Assign(t) ==
  /\ table[t] = NoPort
  /\ Candidates \ busy # {}
  /\ table' = [table EXCEPT ![t] = FirstFree]
  /\ cursor' = FirstFree
  /\ UNCHANGED busy

Release(t) ==
  /\ table[t] # NoPort
  /\ table' = [table EXCEPT ![t] = NoPort]
  /\ UNCHANGED <<cursor, busy>>

Occupy(p) ==
  /\ p \notin busy
  /\ busy' = busy \cup {p}
  /\ UNCHANGED <<table, cursor>>

Vacate(p) ==
  /\ p \in busy
  /\ busy' = busy \ {p}
  /\ UNCHANGED <<table, cursor>>

Next ==
  \/ \E t \in Tenants : Assign(t) \/ Release(t)
  \/ \E p \in Ports : Occupy(p) \/ Vacate(p)

Spec == Init /\ [][Next]_vars
=============================================================================
