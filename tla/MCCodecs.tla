------------------------------ MODULE MCCodecs ------------------------------
(***************************************************************************)
(* What turns one form into another: the algorithms, on one input each,    *)
(* and the two ends of delta compression, over time.  Readings have two or *)
(* three fields, more than the bitmask of two has bits.                    *)
(***************************************************************************)
EXTENDS MCAlgorithms, DeltaCodec

CONSTANTS heat, wear, tilt  \* fields of a reading
MCSchemas == {{heat, wear}, {heat, wear, tilt}}

(* Readings are encoded only where no other input is looked at.             *)
VARIABLE over
OneInput == ~over /\ Next /\ UNCHANGED <<over, vars>>
OverTime == over /\ DeltaNext /\ UNCHANGED <<over, case>>

CodecsInit == over \in BOOLEAN /\ Init /\ DeltaInit
CodecsNext == OneInput \/ OverTime
CodecsSpec == CodecsInit /\ [][CodecsNext]_<<over, case, vars>>
=============================================================================
