----------------------------- MODULE SessionLife -----------------------------
(***************************************************************************)
(* The parts that accompany a session from its handshake to its end, each  *)
(* on its own: they share no state in the code.  A behaviour is one of     *)
(* theirs, the others rest.                                                *)
(***************************************************************************)
EXTENDS Naturals, FiniteSets

CONSTANTS
  Tasks, NoRotation, Interval, Window, MaxCount, MaxKeys,
  Conns, NoTicket, NoKeys,
  Measured, Every, Enough, Spectra, Unset, Threshold, Gaps, MaxTransitions,
  Schedulers, Devices, NoDevice, NoProfile, Chunks, Micro, MaxLearnt, MaxCore,
  Initiators, NoMessage, NoSecret, MaxPairs,
  MaxRadios, TotalSteps, ClearAfter, Trigger, NoLead

ASSUME BoundsAssumption ==
  /\ MaxCount \in Nat /\ MaxKeys \in Nat /\ MaxPairs \in Nat \ {0}
  /\ MaxTransitions \in Nat /\ Every \in Nat \ {0} /\ Threshold \in Nat \ {0}
  /\ MaxLearnt \in Nat /\ MaxCore \in Nat
  /\ MaxRadios \in Nat /\ TotalSteps \in Nat /\ ClearAfter \in Nat

VARIABLES
  part,
  step, making, count, due, rotationId, pending, current, told, overlapped,
  client, using, saved, store, serverAt, toServer, toClient, clientKeys, serverKeys, spent,
  state, gap, profile, memory, activeToGhost, ghostToActive, ghostToClosed, transitions,
  spectrum, strategy, stability, stamped, against,
  native, theta, decisions, device, cache, core, strayed,
  equipped, responder, pair, message, ours, theirs,
  scenario, radios, tick, turn, alarmed, lead, bsm, denm, lossObs, reached

rotationVars == <<step, making, count, due, rotationId, pending, current, told, overlapped>>
resumeVars == <<client, using, saved, store, serverAt, toServer, toClient,
                clientKeys, serverKeys, spent>>
sendVars == <<state, gap, profile, memory, activeToGhost, ghostToActive, ghostToClosed, transitions,
              spectrum, strategy, stability, stamped, against>>
learnVars == <<native, theta, decisions, device, cache, core, strayed>>
hybridVars == <<equipped, responder, pair, message, ours, theirs>>
vehicleVars == <<scenario, radios, tick, turn, alarmed, lead, bsm, denm, lossObs, reached>>
vars == <<part, rotationVars, resumeVars, sendVars, learnVars, hybridVars, vehicleVars>>

Rotation == INSTANCE KeyRotation
Handshake == INSTANCE SessionResume
Send == INSTANCE SendPath
Learn == INSTANCE DeviceLearning
Hybrid == INSTANCE HybridHandshake
Vehicles == INSTANCE VehicleRun

ASSUME ChunksAssumption == Micro \in Chunks
ASSUME SchedulersAssumption == IsFiniteSet(Schedulers)
ASSUME NullsAssumption ==
  /\ NoMessage \notin Hybrid!Messages /\ NoSecret \notin Hybrid!Secrets
  /\ Unset \notin Spectra \cup {Send!Default}
  /\ NoLead \notin 1..MaxRadios

Parts == {"rotation", "handshake", "send", "vote", "learn", "hybrid", "vehicles"}

Init ==
  /\ part \in Parts
  /\ Rotation!Init /\ Handshake!Init /\ Send!Init /\ Learn!Init /\ Hybrid!Init
  /\ Vehicles!Init
  /\ part # "send" => profile = "standard_iot"
  /\ part # "learn" => ~native
  /\ part # "hybrid" => equipped = {} /\ ~responder
  /\ part # "vehicles" => scenario = "urban" /\ radios = 0

RotationStep ==
  /\ part = "rotation" /\ Rotation!Next
  /\ UNCHANGED <<part, resumeVars, sendVars, learnVars, hybridVars, vehicleVars>>
HandshakeStep ==
  /\ part = "handshake" /\ Handshake!Next
  /\ UNCHANGED <<part, rotationVars, sendVars, learnVars, hybridVars, vehicleVars>>
SendStep ==
  /\ \/ part = "send" /\ Send!SessionNext
     \/ part = "vote" /\ Send!VoteNext
  /\ UNCHANGED <<part, rotationVars, resumeVars, learnVars, hybridVars, vehicleVars>>
LearnStep ==
  /\ part = "learn" /\ Learn!Next
  /\ UNCHANGED <<part, rotationVars, resumeVars, sendVars, hybridVars, vehicleVars>>
HybridStep ==
  /\ part = "hybrid" /\ Hybrid!Next
  /\ UNCHANGED <<part, rotationVars, resumeVars, sendVars, learnVars, vehicleVars>>

VehicleStep ==
  /\ part = "vehicles" /\ Vehicles!Next
  /\ UNCHANGED <<part, rotationVars, resumeVars, sendVars, learnVars, hybridVars>>

Next == RotationStep \/ HandshakeStep \/ SendStep \/ LearnStep \/ HybridStep \/ VehicleStep

Spec == Init /\ [][Next]_vars

-----------------------------------------------------------------------------
TypeOK ==
  /\ part \in Parts
  /\ Rotation!TypeOK /\ Handshake!TypeOK /\ Send!TypeOK /\ Learn!TypeOK /\ Hybrid!TypeOK
  /\ Vehicles!TypeOK

(* While no two rotations overlap, a frame is decrypted with the key its    *)
(* rotation id stands for (key_rotation.py:179).                            *)
KeysAreFound == Rotation!KeysAreFound

(* Both ends of a handshake that came through have the same keys, after a   *)
(* resumption, a full handshake or one after the other (handshake.py:271);  *)
(* those of a hybrid one do as long as both ends work alike and the key     *)
(* pair is that of the message (pqc_handshake.py:350).                      *)
KeysAgree == Handshake!KeysAgree /\ Hybrid!EndsAgree

(* A ticket gives at most one connection its keys (session_ticket.py:100).  *)
TicketsAreSingleUse == Handshake!TicketsAreSingleUse

(* The counts that are learnt from are true: those of the Markov estimator  *)
(* account for the state of the adaptive ghost session                      *)
(* (ghost_session_adaptive.py:324), the decisions of a scheduler are those  *)
(* that its theta, the cached one and that of the Rust core learnt from     *)
(* (qft_scheduler.py:243), and the losses that protect the next message of *)
(* a vehicle are those of the metrics (protocols.py:222).                   *)
LearningIsCounted ==
  Send!GhostIsCounted /\ Learn!CountsFitTheta /\ Vehicles!LossesAreObserved

(* The scheduler leaves a strategy only after a series of calls that all    *)
(* proposed another (qft_scheduler.py:551).                                 *)
ChangesAreEarned == [][Send!ChangeIsEarned]_vars
=============================================================================
