------------------------------ MODULE SendPath ------------------------------
(***************************************************************************)
(* What a sender decides before it sends: AdaptiveGhostSession             *)
(* (broker/ghost_session_adaptive.py), the choice of a scheduling strategy *)
(* from the spectrum of the traffic (scheduler/qft_scheduler.py), and the  *)
(* decision that build_send_dag records (protocol/decision_dag.py).  Time  *)
(* is the gap since data was received, in seconds; the energy bands of a   *)
(* spectrum are the strategy they call for, and the weights of a hybrid    *)
(* one.                                                                    *)
(***************************************************************************)
EXTENDS Integers

CONSTANTS
  Measured,                \* [rtt, loss, jitter] of a network: ms, thousandths, ms
  Every, Enough,           \* 100 transitions between choices of k, 20 to choose by
  Spectra,                 \* [name, weights]: what a spectrum calls for
  Unset,                   \* None
  Threshold,               \* _strategy_change_threshold
  Gaps, MaxTransitions     \* bounds: the gaps that are told apart

VARIABLES
  state, gap, profile,
  memory,      \* _current_k
  activeToGhost, ghostToActive, ghostToClosed, transitions,
  spectrum, strategy, stability,
  stamped,     \* ghost_active of the last stamp, and the state then
  against      \* calls in a row that proposed another strategy

ghostVars == <<state, gap, profile, memory, activeToGhost, ghostToActive, ghostToClosed, transitions>>
strategyVars == <<spectrum, strategy, stability, against>>
vars == <<ghostVars, strategyVars, stamped>>

Default == [name |-> "hybrid", weights |-> "even"]

(* NETWORK_PROFILES.                                                        *)
TIdle == [critical_iot |-> 5, standard_iot |-> 30, batch_sensor |-> 120,
          mobile |-> 15, lan |-> 60, wan_challenged |-> 45]
THard == [critical_iot |-> 30, standard_iot |-> 300, batch_sensor |-> 600,
          mobile |-> 120, lan |-> 600, wan_challenged |-> 240]
KMemory == [critical_iot |-> 5, standard_iot |-> 3, batch_sensor |-> 2,
            mobile |-> 4, lan |-> 2, wan_challenged |-> 4]
Profiles == DOMAIN TIdle

(* NetworkTypeDetector.detect.                                              *)
Detect(m) ==
  IF \/ m.rtt < 5 /\ m.loss < 1
     \/ m.rtt < 20 /\ m.loss < 10 /\ m.jitter < 5 THEN "lan"
  ELSE IF m.jitter > 20 \/ (m.rtt > 50 /\ m.jitter > 10) THEN "mobile"
  ELSE IF m.loss > 150 \/ m.rtt > 150 THEN "wan_challenged"
  ELSE "standard_iot"

Init ==
  /\ state = "CONNECTING" /\ gap = 0 /\ profile \in Profiles
  /\ memory = KMemory[profile]
  /\ activeToGhost = 0 /\ ghostToActive = 0 /\ ghostToClosed = 0 /\ transitions = 0
  /\ spectrum = Unset /\ strategy = Unset /\ stability = 0
  /\ stamped = FALSE
  /\ against = 0

-----------------------------------------------------------------------------
Elapse(g) ==
  /\ g > gap
  /\ gap' = g
  /\ UNCHANGED <<state, profile, memory, activeToGhost, ghostToActive, ghostToClosed,
                 transitions, strategyVars, stamped>>

(* set_network takes no lock and leaves the state and k alone.              *)
SetNetwork(m) ==
  /\ Detect(m) # profile
  /\ profile' = Detect(m)
  /\ UNCHANGED <<state, gap, memory, activeToGhost, ghostToActive, ghostToClosed,
                 transitions, strategyVars, stamped>>

(* _transition and OnlineMarkovEstimator.update.                            *)
One(test) == IF test THEN 1 ELSE 0
To(new) ==
  /\ state' = new
  /\ transitions' = transitions + 1
  /\ activeToGhost' = activeToGhost + One(state = "ACTIVE" /\ new = "GHOST")
  /\ ghostToActive' = ghostToActive + One(state = "GHOST" /\ new = "ACTIVE")
  /\ ghostToClosed' = ghostToClosed + One(state = "GHOST" /\ new = "CLOSED")
Stays == UNCHANGED <<state, transitions, activeToGhost, ghostToActive, ghostToClosed>>

(* on_data_received: a session that is closed stays closed.                 *)
DataReceived ==
  /\ transitions < MaxTransitions
  /\ gap' = 0
  /\ IF state \in {"GHOST", "CONNECTING"} THEN To("ACTIVE") ELSE Stays
  /\ UNCHANGED <<profile, memory>>

OnDataReceived == DataReceived /\ UNCHANGED <<strategyVars, stamped>>

(* AICSelector.optimal_k: the table of AIC values (in tenths) decides until *)
(* there are enough observations.  The estimators of all k are told of      *)
(* every transition, so they find the same likelihood, and 2 * k decides.   *)
EmpiricalAIC == <<1243, 1087, 921, 948, 972>>
OptimalK(observed) ==
  LET Aic(k) == IF observed < Enough THEN EmpiricalAIC[k] ELSE 2 * k
  IN  CHOOSE k \in 1..5 : \A j \in 1..5 \ {k} : Aic(k) < Aic(j)

IsIdle == state = "ACTIVE" /\ gap > TIdle[profile]
IsGone == state = "GHOST" /\ gap > THard[profile]
Tick ==
  /\ \/ IsIdle /\ To("GHOST")
     \/ IsGone /\ To("CLOSED")
     \/ ~IsIdle /\ ~IsGone /\ Stays
  /\ memory' = IF transitions' > 0 /\ transitions' % Every = 0
               THEN OptimalK(activeToGhost' + ghostToActive' + ghostToClosed') ELSE memory
  /\ UNCHANGED <<gap, profile, strategyVars, stamped>>

(* build_send_dag: the state is read, then the session is told of data; the *)
(* stamp carries the state of before.                                       *)
BuildSendDag ==
  /\ stamped' = (state = "GHOST")
  /\ DataReceived
  /\ UNCHANGED strategyVars

-----------------------------------------------------------------------------
(* observe(), once the window is full.                                      *)
Observe(s) ==
  /\ s # spectrum
  /\ spectrum' = s
  /\ UNCHANGED <<ghostVars, strategy, stability, against, stamped>>

Proposes == spectrum # Unset
Disagrees == IF strategy = Unset THEN TRUE ELSE spectrum.name # strategy.name
OrDefault(s) == IF s = Unset THEN Default ELSE s

(* current_strategy(), which every reader of the name or the report calls:  *)
(* the proposal of the spectrum confirms the strategy, is the next of a     *)
(* series against it, or the last one, which replaces it.  A hybrid         *)
(* strategy keeps the weights it was made with.                             *)
ConfirmKeepsCount == UNCHANGED <<strategy, stability>>    \* mutant of Confirm
Confirm == stability' = 0 /\ UNCHANGED strategy

Object ==
  /\ stability + 1 < Threshold
  /\ stability' = stability + 1
  /\ strategy' = OrDefault(strategy)

ReplaceKeepsCount ==                                      \* mutant of Replace
  /\ stability + 1 >= Threshold
  /\ stability' = stability + 1
  /\ strategy' = spectrum
Replace ==
  /\ stability + 1 >= Threshold
  /\ stability' = 0
  /\ strategy' = spectrum

CurrentStrategy ==
  /\ \/ ~Proposes /\ strategy' = OrDefault(strategy) /\ UNCHANGED stability
     \/ Proposes /\ ~Disagrees /\ Confirm
     \/ Proposes /\ Disagrees /\ (Object \/ Replace)
  /\ against' = IF Proposes /\ Disagrees /\ strategy' = strategy THEN against + 1 ELSE 0
  /\ UNCHANGED <<ghostVars, spectrum, stamped>>

(* The session and the votes share no state.                                *)
SessionNext ==
  \/ OnDataReceived \/ Tick \/ BuildSendDag
  \/ \E g \in Gaps : Elapse(g)
  \/ \E m \in Measured : SetNetwork(m)
VoteNext == CurrentStrategy \/ \E s \in Spectra : Observe(s)
Next == SessionNext \/ VoteNext

-----------------------------------------------------------------------------
TypeOK ==
  /\ state \in {"CONNECTING", "ACTIVE", "GHOST", "CLOSED"}
  /\ gap \in Gaps \cup {0}
  /\ profile \in Profiles
  /\ memory \in 1..5
  /\ transitions \in 0..MaxTransitions + 2
  /\ spectrum \in Spectra \cup {Unset}
  /\ strategy \in Spectra \cup {Default, Unset}
  /\ stability \in 0..Threshold - 1
  /\ stamped \in BOOLEAN

(* The counters of the estimator account for the state: every fall into     *)
(* GHOST was followed by one way out of it, or it lasts.  The memory order  *)
(* is that of a profile until so many transitions were seen, and 1 once it  *)
(* was chosen by them.                                                      *)
GhostIsCounted ==
  /\ activeToGhost - ghostToActive - ghostToClosed = One(state = "GHOST")
  /\ transitions = activeToGhost + ghostToActive + ghostToClosed + One(state # "CONNECTING")
  /\ memory = 1 => transitions >= Every

(* A strategy in use is replaced only after further calls in a row that     *)
(* disagreed with it: the first strategy by the second of them, because the *)
(* call that made it counted as well, any later one by the third.           *)
ChangeIsEarned ==
  strategy' # strategy /\ strategy # Unset =>
    against >= Threshold - (IF strategy = Default THEN 2 ELSE 1)
=============================================================================
