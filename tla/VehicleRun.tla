----------------------------- MODULE VehicleRun -----------------------------
(***************************************************************************)
(* One run of the simulation of vehicles over QDAP                         *)
(* (simulations/v2x/simulation.py, and QDAPProtocol that counts what each  *)
(* sender lost): agents with a radio broadcast at every second step, those *)
(* in an emergency a DENM besides.  Where they are is left open: who is in *)
(* the range of whom is any at every broadcast.                            *)
(***************************************************************************)
EXTENDS Naturals, FiniteSets, Functions

CONSTANTS
  MaxRadios,            \* bound: agents with a radio
  TotalSteps,           \* of the run
  ClearAfter,           \* steps of an emergency
  Trigger,              \* the step in which the lead vehicle brakes
  NoLead

VARIABLES
  scenario,
  radios,               \* active_radios, numbered
  tick,                 \* step
  turn,                 \* the radio that broadcasts next, or 0
  alarmed,              \* radios in an emergency
  lead,                 \* of a cascade, once it brakes
  bsm, denm,            \* counts of the metrics
  lossObs,              \* _loss_obs of the protocol: sent and lost of each source
  reached               \* cascade_received: when each radio heard of it

vars == <<scenario, radios, tick, turn, alarmed, lead, bsm, denm, lossObs, reached>>

Nothing == [sent |-> 0, delivered |-> 0, met |-> 0]

(* The agents of a scenario: only an urban one may have pedestrians, which  *)
(* carry no radio, among its traffic; a cascade has one beside it.          *)
Init ==
  /\ scenario \in {"urban", "highway", "cascade"}
  /\ radios \in 0..MaxRadios
  /\ scenario # "urban" => radios > 0
  /\ tick = 0 /\ turn = 0
  /\ alarmed = {} /\ lead = NoLead
  /\ bsm = Nothing /\ denm = Nothing
  /\ lossObs = [r \in 1..radios |-> [sent |-> 0, lost |-> 0]]
  /\ reached = {}

(* Two emergencies, at a quarter and at 65 percent of the run.              *)
First == TotalSteps \div 4
Second == (65 * TotalSteps) \div 100
Injected == scenario # "cascade" /\ radios >= 2
Starts(at) ==
  {r \in 1..radios : Injected /\ \/ at = First /\ r = 1 /\ First # Second
                                 \/ at = Second /\ r = 1 + radios \div 2}
Ends(at) == IF at >= ClearAfter THEN Starts(at - ClearAfter) ELSE {}

Due == tick % 2 = 0 /\ radios > 0

(* The additions of 0.05 may come to less than the duration: then there is  *)
(* one step more.                                                           *)
NextStep ==
  /\ turn = 0 /\ tick < TotalSteps + 1
  /\ \/ /\ scenario = "cascade" /\ lead = NoLead /\ tick >= Trigger /\ radios > 0
        /\ lead' \in 1..radios
        /\ alarmed' = (alarmed \cup {lead'})
     \/ /\ ~(scenario = "cascade" /\ lead = NoLead /\ tick >= Trigger /\ radios > 0)
        /\ alarmed' = (alarmed \cup Starts(tick)) \ Ends(tick)
        /\ UNCHANGED lead
  /\ IF Due THEN turn' = 1 /\ UNCHANGED tick ELSE tick' = tick + 1 /\ UNCHANGED turn
  /\ UNCHANGED <<scenario, radios, bsm, denm, lossObs, reached>>

(* What becomes of messages to n receivers: some arrive, some of those in   *)
(* time.  deliver() counts those that do not against their sender.          *)
Counted(counts, n, delivered, met) ==
  [sent |-> counts.sent + n, delivered |-> counts.delivered + delivered, met |-> counts.met + met]
Observed(source, n, delivered) ==
  [sent |-> lossObs[source].sent + n, lost |-> lossObs[source].lost + (n - delivered)]

Transmits(near, warned) ==
  \E got \in 0..Cardinality(near), heard \in SUBSET warned :
    /\ \E met \in 0..got : bsm' = Counted(bsm, Cardinality(near), got, met)
    /\ \E met \in 0..Cardinality(heard) :
         denm' = Counted(denm, Cardinality(warned), Cardinality(heard), met)
    /\ lossObs' = [lossObs EXCEPT ![turn] =
         Observed(turn, Cardinality(near) + Cardinality(warned), got + Cardinality(heard))]
    /\ reached' = IF scenario = "cascade" /\ lead # NoLead THEN reached \cup heard ELSE reached

Broadcast ==
  /\ turn # 0
  /\ \E far \in SUBSET (1..radios \ {turn}) : \E near \in SUBSET far :
       Transmits(near, IF turn \in alarmed THEN far ELSE {})
  /\ IF turn < radios THEN turn' = turn + 1 /\ UNCHANGED tick
     ELSE turn' = 0 /\ tick' = tick + 1
  /\ UNCHANGED <<scenario, radios, alarmed, lead>>

Next == NextStep \/ Broadcast

-----------------------------------------------------------------------------
TypeOK ==
  LET Counts == [sent : Nat, delivered : Nat, met : Nat]
  IN  /\ scenario \in {"urban", "highway", "cascade"}
      /\ radios \in 0..MaxRadios /\ tick \in 0..TotalSteps + 1 /\ turn \in 0..radios
      /\ alarmed \subseteq 1..radios /\ lead \in 1..radios \cup {NoLead}
      /\ bsm \in Counts /\ denm \in Counts
      /\ lossObs \in [1..radios -> [sent : Nat, lost : Nat]]
      /\ reached \subseteq 1..radios

(* What the protocol has observed of its senders, from which it chooses how *)
(* to protect the next message, is what the metrics of the run say of them  *)
(* together; a run reports an emergency only while there is one, and a      *)
(* cascade goes from its lead to others and no further.                     *)
LossesAreObserved ==
  /\ SumFunction([r \in 1..radios |-> lossObs[r].sent]) = bsm.sent + denm.sent
  /\ SumFunction([r \in 1..radios |-> lossObs[r].lost])
       = (bsm.sent - bsm.delivered) + (denm.sent - denm.delivered)
  /\ bsm.met <= bsm.delivered /\ bsm.delivered <= bsm.sent
  /\ denm.met <= denm.delivered /\ denm.delivered <= denm.sent
  /\ scenario = "cascade" =>
       /\ alarmed = IF lead = NoLead THEN {} ELSE {lead}
       /\ lead \notin reached /\ denm.delivered >= Cardinality(reached)
  /\ tick > Second + ClearAfter => scenario = "cascade" \/ alarmed = {}
=============================================================================
