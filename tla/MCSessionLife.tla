--------------------------- MODULE MCSessionLife ---------------------------
(***************************************************************************)
(* The parts of a session, and the ghost session of its two ends; they     *)
(* share no state, so that a behaviour is one of theirs and the other      *)
(* rests.                                                                  *)
(***************************************************************************)
EXTENDS SessionLife, GhostSession

(* Gaps below, between and above the two limits of each profile; networks   *)
(* at the limits of the detector, which finds each of its types.            *)
MCGaps == {16, 61, 121, 301, 601}
MCMeasured ==
  {[rtt |-> 4, loss |-> 0, jitter |-> 30], [rtt |-> 19, loss |-> 9, jitter |-> 4],
   [rtt |-> 19, loss |-> 9, jitter |-> 5], [rtt |-> 51, loss |-> 0, jitter |-> 11],
   [rtt |-> 151, loss |-> 0, jitter |-> 10], [rtt |-> 20, loss |-> 151, jitter |-> 0]}
MCSpectra ==
  {[name |-> "bulk", weights |-> "none"], [name |-> "latency", weights |-> "none"],
   [name |-> "hybrid", weights |-> "low"], [name |-> "hybrid", weights |-> "high"]}

VARIABLE ghost  \* is it the ghost session?
LifeStep == ~ghost /\ Next /\ UNCHANGED <<ghost, ghostVars>>
GhostStep == ghost /\ GhostNext /\ UNCHANGED <<ghost, vars>>

LifeInit == ghost \in BOOLEAN /\ Init /\ GhostInit /\ (ghost => part = "rotation")
LifeNext == LifeStep \/ GhostStep
LifeSpec == LifeInit /\ [][LifeNext]_<<ghost, vars, ghostVars>>
=============================================================================
