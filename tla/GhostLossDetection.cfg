\* Two frames, of which one may be lost, and a sender that asks for losses.
SPECIFICATION FairSpec
CONSTANTS
  Seqs = {1, 2}
  MaxWindow = 3
  MaxReceived = 3
  MaxClock = 2
  MaxSends = 2
PROPERTY
  LossIsDetected
CHECK_DEADLOCK FALSE
