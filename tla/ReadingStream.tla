--------------------------- MODULE ReadingStream ---------------------------
(***************************************************************************)
(* What delta compression promises: the receiver is shown the readings of  *)
(* the sender, in order and unchanged.  It may be shown nothing while it   *)
(* has no baseline, and anything while a reading has been lost since it    *)
(* last had a complete one.                                                *)
(***************************************************************************)
EXTENDS Sequences

CONSTANTS
  Readings,  \* the readings a device can take
  Nothing    \* decode() returned None

VARIABLES
  queue,  \* readings on their way
  shown,  \* what the receiver was shown last
  ready,  \* has the receiver a baseline?
  gap     \* has a reading been lost since the last complete one?

Init ==
  /\ queue = <<>>
  /\ shown = Nothing
  /\ ready = FALSE
  /\ gap = FALSE

Submit ==
  /\ \E r \in Readings : queue' = Append(queue, r)
  /\ UNCHANGED <<shown, ready, gap>>

Show ==
  /\ queue # <<>>
  /\ queue' = Tail(queue)
  /\ shown' = Head(queue)
  /\ ready' = TRUE
  /\ gap' \in {FALSE, gap}

ShowNothing ==
  /\ queue # <<>>
  /\ ~ready
  /\ queue' = Tail(queue)
  /\ shown' = Nothing
  /\ UNCHANGED <<ready, gap>>

ShowAnything ==
  /\ queue # <<>>
  /\ ready /\ gap
  /\ queue' = Tail(queue)
  /\ UNCHANGED <<ready, gap>>

Lose ==
  /\ queue # <<>>
  /\ queue' = Tail(queue)
  /\ gap' = TRUE
  /\ UNCHANGED <<shown, ready>>

ReceiverForgets ==
  /\ ready' = FALSE
  /\ UNCHANGED <<queue, shown, gap>>

NewSession ==
  /\ queue' = <<>>
  /\ ready' = FALSE
  /\ gap' = FALSE
  /\ UNCHANGED shown

Next ==
  \/ Submit \/ Show \/ ShowNothing \/ ShowAnything
  \/ Lose \/ ReceiverForgets \/ NewSession
Spec == Init /\ [][Next]_<<queue, shown, ready, gap>>
=============================================================================
