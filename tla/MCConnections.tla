--------------------------- MODULE MCConnections ---------------------------
(***************************************************************************)
(* What keeps connections open and busy: the pool that lends adapters, and *)
(* the adapter that is sent through.  An adapter's slots and a pool's      *)
(* loans share no state, so that a behaviour is one of theirs and the      *)
(* other rests.                                                            *)
(***************************************************************************)
EXTENDS ConnectionPool, TcpAdapter

VARIABLE side
sides == <<side, vars, adapterVars>>

PoolStep == side = "pool" /\ Next /\ UNCHANGED <<side, adapterVars>>
AdapterStep == side = "adapter" /\ AdapterNext /\ UNCHANGED <<side, vars>>
(* An adapter may stop for good, after close(); the pool may not.           *)
AdapterRests == side = "adapter" /\ UNCHANGED sides

ConnectionsInit == side \in {"pool", "adapter"} /\ Init /\ AdapterInit
ConnectionsNext == PoolStep \/ AdapterStep \/ AdapterRests
ConnectionsSpec == ConnectionsInit /\ [][ConnectionsNext]_sides /\ AdapterFairness
=============================================================================
