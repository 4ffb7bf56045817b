-------------------------- MODULE TcpAdapterProofs --------------------------
(***************************************************************************)
(* Proofs about TcpAdapter for every finite set of tasks, every number of  *)
(* slots and every size of the transport's buffer.                         *)
(***************************************************************************)
EXTENDS TcpAdapter, FiniteSetTheorems, SequenceTheorems, TLAPS

(* The places at which a task has a slot, and those at which it is in       *)
(* drain() with it.                                                         *)
DrainPlaces == {"draining", "drained", "failed", "yielding"}
Holding(p) == {t \in Senders : p[t] \in DrainPlaces \cup {"granted"}}
Draining(p) == {t \in Senders : p[t] \in DrainPlaces}
Given(p) == {t \in Senders : p[t] = "granted"}

Semaphores == [value : Nat, waiters : Seq(Senders), at : [Senders -> Stages]]

(* The semaphore's queue holds exactly tasks that wait, each of them once.  *)
Queued(s) ==
  /\ \A i \in 1..Len(s.waiters) : s.at[s.waiters[i]] = "waiting"
  /\ \A i, j \in 1..Len(s.waiters) : s.waiters[i] = s.waiters[j] => i = j

Slots(s) == s.value + Cardinality(Holding(s.at))
Awake(s) == s.waiters # <<>> /\ s.value > 0 => Given(s.at) # {}

(* What the transport took and what it did not: a drain that goes on to its *)
(* end without an error is one of a frame that was taken.                   *)
FramesTaken ==
  \A t \in Senders :
    /\ at[t] \in {"draining", "drained", "sent"} => taken[t]
    /\ at[t] = "yielding" /\ ~taken[t] => Lost \/ (link = "closing" /\ buffer = 0)

(* The inductive invariant.  SlotsConserved needs that a waiter is in the   *)
(* queue once and has no slot; ReturnsOnlyIfTaken needs to know what became *)
(* of the frame while drain() waits.                                        *)
IInv ==
  /\ AdapterTypeOK
  /\ Queued(Semaphore(at))
  /\ SlotsConserved
  /\ SleepersOnlyWhenFull
  /\ FramesTaken

-----------------------------------------------------------------------------
(* The groups of tasks are finite.                                          *)
LEMMA FiniteGroups ==
  ASSUME NEW p
  PROVE  /\ IsFiniteSet(Holding(p)) /\ Cardinality(Holding(p)) \in Nat
         /\ IsFiniteSet(Draining(p)) /\ Cardinality(Draining(p)) \in Nat
<1>1. Holding(p) \in SUBSET Senders /\ Draining(p) \in SUBSET Senders
  BY DEF Holding, Draining
<1> QED BY <1>1, SendersAssumption, FS_Subset, FS_CardinalityType

(* The sets of the model are these groups.                                  *)
LEMMA Groups ==
  /\ Granted \cup InDrain = Holding(at)
  /\ InDrain = Draining(at)
  /\ Granted = Given(at)
BY DEF Granted, InDrain, Holding, Draining, Given, DrainPlaces

(* A task that takes or gives up a slot changes the number by one.          *)
LEMMA OneMore ==
  ASSUME NEW p, NEW q, NEW t \in Senders
  PROVE  /\ t \notin Holding(p) /\ Holding(q) = Holding(p) \cup {t}
              => Cardinality(Holding(q)) = Cardinality(Holding(p)) + 1
         /\ t \in Holding(p) /\ Holding(q) = Holding(p) \ {t}
              => Cardinality(Holding(q)) = Cardinality(Holding(p)) - 1
         /\ t \notin Draining(p) /\ Draining(q) = Draining(p) \cup {t}
              => Cardinality(Draining(q)) = Cardinality(Draining(p)) + 1
         /\ t \in Draining(p) /\ Draining(q) = Draining(p) \ {t}
              => Cardinality(Draining(q)) = Cardinality(Draining(p)) - 1
BY FiniteGroups, FS_AddElement, FS_RemoveElement

(* _wake_up_next() moves a free unit to the oldest waiter: no unit is made  *)
(* or lost, nobody else moves, and afterwards nobody waits in front of a    *)
(* free unit without a task that was just given one.                        *)
LEMMA WakeNextEffect ==
  ASSUME NEW s \in Semaphores, Queued(s)
  PROVE  /\ WakeNext(s) \in Semaphores
         /\ Queued(WakeNext(s))
         /\ Slots(WakeNext(s)) = Slots(s)
         /\ Draining(WakeNext(s).at) = Draining(s.at)
         /\ Given(s.at) \subseteq Given(WakeNext(s).at)
         /\ Awake(WakeNext(s))
         /\ \A t \in Senders : WakeNext(s).at[t] \in {s.at[t], "granted"}
         /\ WakeNext(s).value <= s.value
<1>1. CASE s.value = 0 \/ s.waiters = <<>>
  BY <1>1 DEF WakeNext, Awake, Semaphores
<1>2. CASE ~(s.value = 0 \/ s.waiters = <<>>)
  <2> DEFINE h == Head(s.waiters)
             r == WakeNext(s)
  <2>1. r = [value |-> s.value - 1, waiters |-> Tail(s.waiters),
             at |-> [s.at EXCEPT ![h] = "granted"]]
    BY <1>2 DEF WakeNext
  <2>2. s.waiters \in Seq(Senders) /\ s.value \in Nat /\ s.at \in [Senders -> Stages]
    BY DEF Semaphores
  <2>3. h = s.waiters[1] /\ h \in Senders /\ Len(s.waiters) >= 1
        /\ s.at[h] = "waiting"
    BY <1>2, <2>2 DEF Queued
  <2>4. Tail(s.waiters) \in Seq(Senders) /\ Len(Tail(s.waiters)) = Len(s.waiters) - 1
        /\ \A i \in 1..Len(Tail(s.waiters)) :
             /\ Tail(s.waiters)[i] = s.waiters[i + 1]
             /\ i + 1 \in 1..Len(s.waiters)
    BY <1>2, <2>2, <2>3
  <2>5. r \in Semaphores
    BY <1>2, <2>1, <2>2, <2>4 DEF Semaphores, Stages
  <2>6. Queued(r)
    <3>1. \A i \in 1..Len(r.waiters) : r.waiters[i] \in Senders \ {h}
                                       /\ s.at[r.waiters[i]] = "waiting"
      BY <2>1, <2>2, <2>3, <2>4 DEF Queued
    <3>2. \A i \in 1..Len(r.waiters) : r.at[r.waiters[i]] = "waiting"
      BY <2>1, <2>2, <3>1
    <3>3. \A i, j \in 1..Len(r.waiters) : r.waiters[i] = r.waiters[j] => i = j
      BY <2>1, <2>3, <2>4 DEF Queued
    <3> QED BY <3>2, <3>3 DEF Queued
  <2>7. Holding(r.at) = Holding(s.at) \cup {h} /\ h \notin Holding(s.at)
        /\ Draining(r.at) = Draining(s.at)
        /\ Given(r.at) = Given(s.at) \cup {h}
    BY <2>1, <2>2, <2>3 DEF Holding, Draining, Given, DrainPlaces
  <2> HIDE DEF r
  <2>8. r.value = s.value - 1 /\ s.value \in Nat /\ s.value > 0
    BY <2>1, <2>2, <1>2
  <2>9. Cardinality(Holding(r.at)) = Cardinality(Holding(s.at)) + 1
    BY <2>3, <2>7, OneMore
  <2>10. Slots(r) = Slots(s)
    BY <2>8, <2>9, FiniteGroups DEF Slots
  <2>11. \A t \in Senders : r.at[t] \in {s.at[t], "granted"}
    BY <2>1, <2>2
  <2>12. Awake(r) /\ r.value <= s.value /\ Given(s.at) \subseteq Given(r.at)
    BY <2>3, <2>7, <2>8 DEF Awake
  <2> QED BY <2>5, <2>6, <2>7, <2>10, <2>11, <2>12 DEF r
<1> QED BY <1>1, <1>2

(* release(): one unit more, and the same for the rest.                     *)
LEMMA GiveBackEffect ==
  ASSUME NEW s \in Semaphores, Queued(s)
  PROVE  /\ GiveBack(s) \in Semaphores
         /\ Queued(GiveBack(s))
         /\ Slots(GiveBack(s)) = Slots(s) + 1
         /\ Draining(GiveBack(s).at) = Draining(s.at)
         /\ Awake(GiveBack(s))
         /\ \A t \in Senders : GiveBack(s).at[t] \in {s.at[t], "granted"}
<1> DEFINE r == [s EXCEPT !.value = @ + 1]
<1>1. r \in Semaphores /\ Queued(r) /\ r.at = s.at /\ r.value = s.value + 1
  BY DEF Semaphores, Queued
<1>2. Slots(r) = Slots(s) + 1
  BY <1>1, FiniteGroups DEF Slots, Semaphores
<1> QED BY <1>1, <1>2, WakeNextEffect DEF GiveBack

-----------------------------------------------------------------------------
(* A task that is not in the queue moves: the queue stays what it was.      *)
LEMMA Moved ==
  ASSUME AdapterTypeOK, Queued(Semaphore(at)), NEW t \in Senders, at[t] # "waiting", NEW x \in Stages
  PROVE  /\ Semaphore([at EXCEPT ![t] = x]) \in Semaphores
         /\ Queued(Semaphore([at EXCEPT ![t] = x]))
<1> DEFINE s == Semaphore([at EXCEPT ![t] = x])
<1>1. s.value = value /\ s.waiters = waiters /\ s.at = [at EXCEPT ![t] = x]
  BY DEF Semaphore
<1>2. value \in Nat /\ waiters \in Seq(Senders) /\ at \in [Senders -> Stages]
  BY HighAssumption DEF AdapterTypeOK
<1>3. s \in Semaphores
  BY <1>2 DEF Semaphores, Semaphore
<1>4. \A i \in 1..Len(waiters) : waiters[i] \in Senders /\ at[waiters[i]] = "waiting"
  BY <1>2 DEF Queued, Semaphore
<1>5. \A i \in 1..Len(waiters) : [at EXCEPT ![t] = x][waiters[i]] = "waiting"
  BY <1>2, <1>4
<1>6. \A i, j \in 1..Len(waiters) : waiters[i] = waiters[j] => i = j
  BY DEF Queued, Semaphore
<1> QED BY <1>1, <1>3, <1>5, <1>6 DEF Queued

(* What Become() leaves, in the words of the invariant.                     *)
LEMMA Became ==
  ASSUME NEW r \in Semaphores, Queued(r), Awake(r), Become(r)
  PROVE  /\ at' \in [Senders -> Stages] /\ value' \in Nat /\ waiters' \in Seq(Senders)
         /\ at' = r.at /\ value' = r.value
         /\ Queued(Semaphore(at))'
         /\ SleepersOnlyWhenFull'
<1>1. value' = r.value /\ waiters' = r.waiters /\ at' = r.at
  BY DEF Become
<1>2. r.value \in Nat /\ r.waiters \in Seq(Senders) /\ r.at \in [Senders -> Stages]
  BY DEF Semaphores
<1>3. Queued(Semaphore(at))'
  BY <1>1 DEF Queued, Semaphore
<1>4. SleepersOnlyWhenFull'
  BY <1>1 DEF SleepersOnlyWhenFull, Awake, Given, Granted
<1> QED BY <1>1, <1>2, <1>3, <1>4

(* The counts, in terms of the groups of tasks.                             *)
LEMMA Counts ==
  /\ SlotsConserved <=> /\ value + Cardinality(Holding(at)) + leaked = High
                        /\ load = Cardinality(Draining(at)) + leaked
  /\ SlotsConserved' <=> /\ value' + Cardinality(Holding(at')) + leaked' = High
                         /\ load' = Cardinality(Draining(at')) + leaked'
<1>1. (Granted \cup InDrain)' = Holding(at') /\ InDrain' = Draining(at')
  BY DEF Granted, InDrain, Holding, Draining, DrainPlaces
<1> QED BY <1>1, Groups DEF SlotsConserved

(* A task with a slot ends its send and gives the slot back.                *)
LEMMA GivesBack ==
  ASSUME AdapterTypeOK, Queued(Semaphore(at)), NEW t \in Senders, t \in Holding(at),
         NEW x \in {"out", "sent"},
         Become(GiveBack(Semaphore([at EXCEPT ![t] = x])))
  PROVE  /\ at' \in [Senders -> Stages] /\ value' \in Nat /\ waiters' \in Seq(Senders)
         /\ Queued(Semaphore(at))' /\ SleepersOnlyWhenFull'
         /\ value' + Cardinality(Holding(at')) = value + Cardinality(Holding(at))
         /\ Draining(at') = Draining(at) \ {t}
         /\ \A u \in Senders : at'[u] \in {IF u = t THEN x ELSE at[u], "granted"}
<1> DEFINE s == Semaphore([at EXCEPT ![t] = x])
<1>1. at \in [Senders -> Stages] /\ value \in Nat
  BY HighAssumption DEF AdapterTypeOK
<1>2. at[t] # "waiting" /\ x \in Stages
  BY DEF Holding, DrainPlaces, Stages
<1>3. s \in Semaphores /\ Queued(s)
  BY <1>2, Moved
<1>4. s.at = [at EXCEPT ![t] = x] /\ s.value = value
  BY DEF Semaphore
<1>5. Holding(s.at) = Holding(at) \ {t} /\ Draining(s.at) = Draining(at) \ {t}
  BY <1>1, <1>4 DEF Holding, Draining, DrainPlaces
<1>6. Cardinality(Holding(s.at)) = Cardinality(Holding(at)) - 1
  BY <1>5, OneMore
<1> HIDE DEF s
<1>7. Slots(GiveBack(s)) = value + Cardinality(Holding(at))
  BY <1>1, <1>3, <1>4, <1>6, GiveBackEffect, FiniteGroups DEF Slots
<1>8. /\ at' \in [Senders -> Stages] /\ value' \in Nat /\ waiters' \in Seq(Senders)
      /\ at' = GiveBack(s).at /\ value' = GiveBack(s).value
      /\ Queued(Semaphore(at))' /\ SleepersOnlyWhenFull'
  BY <1>3, GiveBackEffect, Became DEF s
<1>9. value' + Cardinality(Holding(at')) = value + Cardinality(Holding(at))
  BY <1>7, <1>8 DEF Slots
<1>10. Draining(at') = Draining(at) \ {t}
  BY <1>3, <1>5, <1>8, GiveBackEffect
<1>11. \A u \in Senders : at'[u] \in {s.at[u], "granted"}
  BY <1>3, <1>8, GiveBackEffect
<1>12. \A u \in Senders : s.at[u] = IF u = t THEN x ELSE at[u]
  BY <1>1, <1>4
<1> QED BY <1>8, <1>9, <1>10, <1>11, <1>12

-----------------------------------------------------------------------------
(* Nothing is counted yet.                                                  *)
LEMMA InitInv == AdapterInit => IInv
<1> SUFFICES ASSUME AdapterInit PROVE IInv
  OBVIOUS
<1>1. Holding(at) = {} /\ Draining(at) = {}
  BY DEF AdapterInit, Holding, Draining, DrainPlaces
<1>2. SlotsConserved
  <2>1. Cardinality(Holding(at)) = 0 /\ Cardinality(Draining(at)) = 0
    BY <1>1, FS_EmptySet
  <2>2. value = High /\ load = 0 /\ leaked = 0 /\ High \in Nat
    BY HighAssumption DEF AdapterInit
  <2> QED BY <2>1, <2>2, Counts
<1>3. AdapterTypeOK
  <2>1. waiters \in Seq(Senders) /\ value \in 0..High
    BY HighAssumption DEF AdapterInit
  <2> QED BY <2>1 DEF AdapterInit, AdapterTypeOK, Stages
<1>4. Queued(Semaphore(at)) /\ SleepersOnlyWhenFull
  BY DEF AdapterInit, Queued, Semaphore, SleepersOnlyWhenFull
<1>5. FramesTaken
  BY DEF AdapterInit, FramesTaken
<1> QED BY <1>2, <1>3, <1>4, <1>5 DEF IInv

(* Finish, Fail and a cancelled task that was granted a slot give it back.  *)
LEMMA GiveBackInv ==
  ASSUME IInv, NEW t \in Senders, Finish(t) \/ Fail(t) \/ CancelGranted(t)
  PROVE  IInv'
<1> USE DEF IInv
<1>1. t \in Holding(at)
  BY DEF Finish, Fail, CancelGranted, Holding, DrainPlaces
<1>2. PICK x \in {"out", "sent"} :
        /\ Become(GiveBack(Semaphore([at EXCEPT ![t] = x])))
        /\ x = "sent" => at[t] = "drained"
  BY DEF Finish, Fail, CancelGranted
<1>3. /\ at' \in [Senders -> Stages] /\ value' \in Nat /\ waiters' \in Seq(Senders)
      /\ Queued(Semaphore(at))' /\ SleepersOnlyWhenFull'
      /\ value' + Cardinality(Holding(at')) = value + Cardinality(Holding(at))
      /\ Draining(at') = Draining(at) \ {t}
      /\ \A u \in Senders : at'[u] \in {IF u = t THEN x ELSE at[u], "granted"}
  BY <1>1, <1>2, GivesBack
<1>4. UNCHANGED <<link, buffer, taken, leaked>>
      /\ load \in Nat /\ leaked \in Nat /\ value \in 0..High
  BY DEF Finish, Fail, CancelGranted, AdapterTypeOK
<1>5. load' \in Nat /\ load' = Cardinality(Draining(at')) + leaked
  <2>1. CASE CancelGranted(t)
    <3>1. t \notin Draining(at) /\ load' = load
      BY <2>1 DEF CancelGranted, Draining, DrainPlaces
    <3>2. Draining(at') = Draining(at)
      BY <1>3, <3>1
    <3> QED BY <1>4, <3>1, <3>2, Counts
  <2>2. CASE Finish(t) \/ Fail(t)
    <3>1. t \in Draining(at) /\ load' = Released(load)
      BY <2>2 DEF Finish, Fail, Draining, DrainPlaces
    <3>2. Cardinality(Draining(at')) = Cardinality(Draining(at)) - 1
      BY <1>3, <3>1, OneMore
    <3> QED BY <1>4, <3>1, <3>2, Counts, FiniteGroups DEF Released
  <2> QED BY <2>1, <2>2
<1>6. SlotsConserved'
  BY <1>3, <1>4, <1>5, Counts
<1>7. value' \in 0..High
  BY <1>3, <1>4, <1>6, Counts, FiniteGroups, HighAssumption
<1>8. AdapterTypeOK'
  BY <1>3, <1>4, <1>5, <1>7 DEF AdapterTypeOK, Finish, Fail, CancelGranted
<1>9. FramesTaken'
  <2>1. x = "sent" => taken[t]
    BY <1>2 DEF FramesTaken
  <2> QED BY <1>3, <1>4, <2>1 DEF FramesTaken, Lost
<1> QED BY <1>3, <1>6, <1>8, <1>9

(* write() and what drain() asks: where the frame is taken there is nothing *)
(* to wait for, or the drain waits for the transport.                       *)
LEMMA WriteEffect ==
  ASSUME AdapterTypeOK, NEW t \in Senders, WriteFrame(t)
  PROVE  /\ taken' = [taken EXCEPT ![t] = Takes]
         /\ taken' \in [Senders -> BOOLEAN] /\ buffer' \in Nat
         /\ buffer = 0 /\ link = "closing" => buffer' = 0
         /\ DrainsAtOnce \/ DrainPlace = "draining" => Takes
         /\ ~Takes => link # "open" /\ (Lost \/ (link = "closing" /\ buffer = 0))
<1>1. Takes \in BOOLEAN /\ buffer \in Nat /\ taken \in [Senders -> BOOLEAN]
      /\ link \in {"open", "closing", "closed", "reset"}
  BY DEF AdapterTypeOK, Takes
<1>2. taken' = [taken EXCEPT ![t] = Takes] /\ buffer' \in {buffer, buffer + 1}
      /\ (~Takes => buffer' = buffer)
  BY DEF WriteFrame
<1> QED BY <1>1, <1>2 DEF Takes, DrainsAtOnce, DrainPlace, Lost

(* FramesTaken after a write: the writer's frame was taken where it should  *)
(* have been, and the others keep theirs.                                   *)
LEMMA WriteKeepsFrames ==
  ASSUME IInv, NEW t \in Senders, WriteFrame(t), UNCHANGED link,
         \A u \in Senders \ {t} : at'[u] \in {at[u], "granted", "waiting"},
         \/ DrainsAtOnce /\ at'[t] \in {"sent", "granted"}
         \/ ~DrainsAtOnce /\ at'[t] \in {DrainPlace, "granted"}
  PROVE  FramesTaken'
<1> USE DEF IInv
<1>1. taken \in [Senders -> BOOLEAN]
  BY DEF AdapterTypeOK
<1>2. ASSUME NEW u \in Senders \ {t}
      PROVE  /\ at'[u] \in {"draining", "drained", "sent"} => taken'[u]
             /\ at'[u] = "yielding" /\ ~taken'[u]
                  => (Lost \/ (link = "closing" /\ buffer = 0))'
  <2>1. taken'[u] = taken[u]
    BY <1>1, WriteEffect
  <2>2. buffer = 0 /\ link = "closing" => buffer' = 0
    BY WriteEffect
  <2> QED BY <2>1, <2>2 DEF FramesTaken, Lost
<1>3. at'[t] \in {"draining", "drained", "sent"} => taken'[t]
  BY <1>1, WriteEffect DEF DrainPlace
<1>4. at'[t] = "yielding" /\ ~taken'[t] => (Lost \/ (link = "closing" /\ buffer = 0))'
  BY <1>1, WriteEffect DEF Lost
<1> QED BY <1>2, <1>3, <1>4 DEF FramesTaken

(* A task joins the queue, sends at once or takes a free slot.              *)
LEMMA SendInv == ASSUME IInv, NEW t \in Senders, Send(t) PROVE IInv'
<1> USE DEF IInv
<1>1. /\ at \in [Senders -> Stages] /\ value \in 0..High /\ waiters \in Seq(Senders)
      /\ load \in Nat /\ leaked \in Nat /\ at[t] \in {"out", "sent"}
      /\ UNCHANGED <<link, intact, leaked>>
  BY DEF AdapterTypeOK, Send
<1>2. t \notin Holding(at) /\ t \notin Draining(at)
  BY <1>1 DEF Holding, Draining, DrainPlaces
<1>3. \A i \in 1..Len(waiters) : waiters[i] \in Senders \ {t} /\ at[waiters[i]] = "waiting"
  BY <1>1 DEF Queued, Semaphore
<1>4. \A i, j \in 1..Len(waiters) : waiters[i] = waiters[j] => i = j
  BY DEF Queued, Semaphore
<1>5. CASE Locked
  <2>1. /\ waiters' = Append(waiters, t) /\ at' = [at EXCEPT ![t] = "waiting"]
        /\ UNCHANGED <<value, load, buffer, taken>>
    BY <1>5 DEF Send
  <2>2. Holding(at') = Holding(at) /\ Draining(at') = Draining(at) /\ Granted' = Granted
    BY <1>1, <2>1 DEF Holding, Draining, DrainPlaces, Granted
  <2>3. SlotsConserved'
    BY <1>1, <2>1, <2>2, Counts
  <2>4. /\ waiters' \in Seq(Senders) /\ Len(waiters') = Len(waiters) + 1
        /\ \A i \in 1..Len(waiters') :
             waiters'[i] = IF i = Len(waiters) + 1 THEN t ELSE waiters[i]
    BY <1>1, <2>1
  <2>5. Queued(Semaphore(at))'
    <3>1. \A i \in 1..Len(waiters') : at'[waiters'[i]] = "waiting"
      BY <1>1, <1>3, <2>1, <2>4
    <3>2. \A i, j \in 1..Len(waiters') : waiters'[i] = waiters'[j] => i = j
      BY <1>1, <1>3, <1>4, <2>4
    <3> QED BY <3>1, <3>2 DEF Queued, Semaphore
  <2>6. SleepersOnlyWhenFull'
    BY <1>5, <2>1, <2>2 DEF SleepersOnlyWhenFull, Locked
  <2>7. AdapterTypeOK'
    BY <1>1, <2>1, <2>4 DEF AdapterTypeOK, Stages
  <2>8. FramesTaken'
    BY <1>1, <2>1 DEF FramesTaken, Lost
  <2> QED BY <2>3, <2>5, <2>6, <2>7, <2>8
<1>6. CASE ~Locked
  <2>1. WriteFrame(t) /\ waiters' = waiters /\ waiters = <<>> /\ value > 0
    BY <1>1, <1>6 DEF Send, Locked
  <2>2. Queued(Semaphore(at))' /\ SleepersOnlyWhenFull'
    BY <2>1 DEF Queued, Semaphore, SleepersOnlyWhenFull
  <2>3. PICK x \in Stages :
          /\ at' = [at EXCEPT ![t] = x]
          /\ \/ DrainsAtOnce /\ x = "sent" /\ UNCHANGED <<value, load>>
             \/ /\ ~DrainsAtOnce /\ x = DrainPlace
                /\ value' = value - 1 /\ load' = load + 1
    <3>1. DrainPlace \in Stages /\ "sent" \in Stages
      BY DEF DrainPlace, Stages
    <3> QED BY <1>6, <3>1 DEF Send
  <2>4. at' \in [Senders -> Stages] /\ at'[t] = x /\ \A u \in Senders \ {t} : at'[u] = at[u]
    BY <1>1, <2>3
  <2>5. SlotsConserved' /\ value' \in 0..High /\ load' \in Nat
    <3>1. CASE x = "sent" /\ UNCHANGED <<value, load>>
      <4>1. Holding(at') = Holding(at) /\ Draining(at') = Draining(at)
        BY <1>1, <2>4, <3>1 DEF Holding, Draining, DrainPlaces
      <4> QED BY <1>1, <3>1, <4>1, Counts
    <3>2. CASE x = DrainPlace /\ value' = value - 1 /\ load' = load + 1
      <4>1. x \in DrainPlaces
        BY <3>2 DEF DrainPlace, DrainPlaces
      <4>2. Holding(at') = Holding(at) \cup {t} /\ Draining(at') = Draining(at) \cup {t}
        BY <1>2, <2>4, <4>1 DEF Holding, Draining
      <4>3. /\ Cardinality(Holding(at')) = Cardinality(Holding(at)) + 1
            /\ Cardinality(Draining(at')) = Cardinality(Draining(at)) + 1
        BY <1>2, <4>2, OneMore
      <4>4. Cardinality(Holding(at)) \in Nat /\ Cardinality(Draining(at)) \in Nat
        BY FiniteGroups
      <4>5. SlotsConserved'
        BY <1>1, <3>2, <4>3, <4>4, Counts
      <4> QED BY <1>1, <2>1, <3>2, <4>5, HighAssumption
    <3> QED BY <2>3, <3>1, <3>2
  <2>6. FramesTaken'
    BY <1>1, <2>1, <2>3, <2>4, WriteKeepsFrames
  <2>7. AdapterTypeOK'
    BY <1>1, <2>1, <2>4, <2>5, WriteEffect DEF AdapterTypeOK
  <2> QED BY <2>2, <2>5, <2>6, <2>7
<1> QED BY <1>5, <1>6

(* A task that was granted a slot writes, and passes on what is free.       *)
LEMMA ResumeInv == ASSUME IInv, NEW t \in Senders, Resume(t) PROVE IInv'
<1> USE DEF IInv
<1>1. /\ at \in [Senders -> Stages] /\ value \in 0..High
      /\ load \in Nat /\ leaked \in Nat /\ at[t] = "granted" /\ WriteFrame(t)
      /\ UNCHANGED <<link, intact, leaked>>
  BY DEF AdapterTypeOK, Resume
<1>2. t \in Holding(at) /\ t \notin Draining(at) /\ at[t] # "waiting"
  BY <1>1 DEF Holding, Draining, DrainPlaces
<1> DEFINE s(x) == Semaphore([at EXCEPT ![t] = x])
<1>3. ASSUME NEW x \in Stages
      PROVE  s(x) \in Semaphores /\ Queued(s(x)) /\ s(x).at = [at EXCEPT ![t] = x]
             /\ s(x).value = value
  BY <1>2, Moved DEF Semaphore
<1> SUFFICES ASSUME TRUE
             PROVE  /\ SlotsConserved' /\ Queued(Semaphore(at))' /\ SleepersOnlyWhenFull'
                    /\ at' \in [Senders -> Stages] /\ value' \in 0..High
                    /\ waiters' \in Seq(Senders) /\ load' \in Nat
                    /\ FramesTaken'
  BY <1>1, WriteEffect DEF AdapterTypeOK
<1>4. CASE DrainsAtOnce
  <2> DEFINE w == WakeNext(s("sent"))
  <2>1. Become(GiveBack(w)) /\ load' = load
    BY <1>4 DEF Resume
  <2>2. s("sent") \in Semaphores /\ Queued(s("sent"))
        /\ s("sent").at = [at EXCEPT ![t] = "sent"] /\ s("sent").value = value
    BY <1>3 DEF Stages
  <2> HIDE DEF s
  <2>3. w \in Semaphores /\ Queued(w) /\ Slots(w) = Slots(s("sent"))
        /\ Draining(w.at) = Draining(s("sent").at)
        /\ \A u \in Senders : w.at[u] \in {s("sent").at[u], "granted"}
    BY <2>2, WakeNextEffect
  <2> HIDE DEF w
  <2>4. /\ GiveBack(w) \in Semaphores /\ Queued(GiveBack(w))
        /\ Slots(GiveBack(w)) = Slots(w) + 1 /\ Awake(GiveBack(w))
        /\ Draining(GiveBack(w).at) = Draining(w.at)
        /\ \A u \in Senders : GiveBack(w).at[u] \in {w.at[u], "granted"}
    BY <2>3, GiveBackEffect
  <2>5. /\ at' \in [Senders -> Stages] /\ value' \in Nat /\ waiters' \in Seq(Senders)
        /\ at' = GiveBack(w).at /\ value' = GiveBack(w).value
        /\ Queued(Semaphore(at))' /\ SleepersOnlyWhenFull'
    BY <2>1, <2>4, Became
  <2>6. Holding(s("sent").at) = Holding(at) \ {t} /\ Draining(s("sent").at) = Draining(at)
    BY <1>1, <2>2 DEF Holding, Draining, DrainPlaces
  <2>7. Cardinality(Holding(s("sent").at)) = Cardinality(Holding(at)) - 1
    BY <1>2, <2>6, OneMore
  <2>8. Slots(s("sent")) = value + Cardinality(Holding(at)) - 1
    BY <1>1, <2>2, <2>7, FiniteGroups DEF Slots
  <2>9. value' + Cardinality(Holding(at')) = value + Cardinality(Holding(at))
    <3>1. Slots(GiveBack(w)) = value' + Cardinality(Holding(at'))
      BY <2>5 DEF Slots
    <3>2. Cardinality(Holding(at)) \in Nat /\ value \in Nat
      BY <1>1, FiniteGroups
    <3> QED BY <2>3, <2>4, <2>8, <3>1, <3>2
  <2>10. Draining(at') = Draining(at)
    BY <2>3, <2>4, <2>5, <2>6
  <2>11. SlotsConserved'
    BY <1>1, <2>1, <2>9, <2>10, Counts
  <2>12. value' \in 0..High
    BY <1>1, <2>5, <2>11, Counts, FiniteGroups, HighAssumption
  <2>13. \A u \in Senders : at'[u] \in {IF u = t THEN "sent" ELSE at[u], "granted"}
    BY <1>1, <2>2, <2>3, <2>4, <2>5
  <2>14. FramesTaken'
    BY <1>1, <1>4, <2>13, WriteKeepsFrames
  <2> QED BY <1>1, <2>1, <2>5, <2>11, <2>12, <2>14
<1>5. CASE ~DrainsAtOnce
  <2> DEFINE r == s(DrainPlace)
  <2>1. Become(WakeNext(r)) /\ load' = load + 1
    BY <1>5 DEF Resume
  <2>2. DrainPlace \in Stages /\ DrainPlace \in DrainPlaces
    BY DEF DrainPlace, Stages, DrainPlaces
  <2>3. r \in Semaphores /\ Queued(r) /\ r.at = [at EXCEPT ![t] = DrainPlace]
        /\ r.value = value
    BY <1>3, <2>2
  <2> HIDE DEF r
  <2>4. /\ WakeNext(r) \in Semaphores /\ Queued(WakeNext(r))
        /\ Slots(WakeNext(r)) = Slots(r) /\ Awake(WakeNext(r))
        /\ Draining(WakeNext(r).at) = Draining(r.at)
        /\ \A u \in Senders : WakeNext(r).at[u] \in {r.at[u], "granted"}
    BY <2>3, WakeNextEffect
  <2>5. /\ at' \in [Senders -> Stages] /\ value' \in Nat /\ waiters' \in Seq(Senders)
        /\ at' = WakeNext(r).at /\ value' = WakeNext(r).value
        /\ Queued(Semaphore(at))' /\ SleepersOnlyWhenFull'
    BY <2>1, <2>4, Became
  <2>6. Holding(r.at) = Holding(at) /\ Draining(r.at) = Draining(at) \cup {t}
    BY <1>1, <2>2, <2>3 DEF Holding, Draining, DrainPlaces
  <2>7. value' + Cardinality(Holding(at')) = value + Cardinality(Holding(at))
    BY <2>3, <2>4, <2>5, <2>6 DEF Slots
  <2>8. Cardinality(Draining(at')) = Cardinality(Draining(at)) + 1
    BY <1>2, <2>4, <2>5, <2>6, OneMore
  <2>9. Cardinality(Draining(at)) \in Nat
    BY FiniteGroups
  <2>10. SlotsConserved'
    BY <1>1, <2>1, <2>7, <2>8, <2>9, Counts
  <2>11. value' \in 0..High
    BY <1>1, <2>5, <2>10, Counts, FiniteGroups, HighAssumption
  <2>12. \A u \in Senders : at'[u] \in {IF u = t THEN DrainPlace ELSE at[u], "granted"}
    BY <1>1, <2>3, <2>4, <2>5
  <2>13. FramesTaken'
    BY <1>1, <1>5, <2>12, WriteKeepsFrames
  <2> QED BY <1>1, <2>1, <2>5, <2>10, <2>11, <2>13
<1> QED BY <1>4, <1>5

(* A drain that yielded goes on, or ends with an error: the slot stays.     *)
LEMMA YieldedInv == ASSUME IInv, NEW t \in Senders, Yielded(t) PROVE IInv'
<1> USE DEF IInv
<1>1. at \in [Senders -> Stages] /\ at[t] = "yielding"
  BY DEF AdapterTypeOK, Yielded
<1>2. PICK x \in {"failed", "draining", "drained"} :
        at' = [at EXCEPT ![t] = x] /\ (x # "failed" => ~Lost)
  BY DEF Yielded
<1>3. UNCHANGED <<value, waiters, load, link, buffer, taken, intact, leaked>>
  BY DEF Yielded
<1>4. Holding(at') = Holding(at) /\ Draining(at') = Draining(at) /\ Granted' = Granted
  BY <1>1, <1>2 DEF Holding, Draining, DrainPlaces, Granted
<1>5. SlotsConserved' /\ SleepersOnlyWhenFull'
  BY <1>3, <1>4, Counts DEF SleepersOnlyWhenFull
<1>6. Queued(Semaphore(at))'
  <2>1. at' = Semaphore(at').at /\ Queued(Semaphore([at EXCEPT ![t] = x]))
    BY <1>1, <1>2, Moved DEF Semaphore, Stages
  <2> QED BY <1>2, <1>3, <2>1 DEF Semaphore, Queued
<1>7. AdapterTypeOK'
  BY <1>1, <1>2, <1>3 DEF AdapterTypeOK, Stages
<1>8. FramesTaken'
  <2>1. ~(link = "closing" /\ buffer = 0)
    BY DEF Yielded
  <2>2. x # "failed" => taken[t]
    BY <1>1, <1>2, <2>1 DEF FramesTaken
  <2> QED BY <1>1, <1>2, <1>3, <2>2 DEF FramesTaken, Lost
<1> QED BY <1>5, <1>6, <1>7, <1>8

(* A send ends and its slot goes with it.                                   *)
LEMMA LeakInv == ASSUME IInv, NEW t \in Senders, Leak(t) PROVE IInv'
<1> USE DEF IInv
<1>1. /\ at \in [Senders -> Stages] /\ at[t] \in DrainPlaces /\ at' = [at EXCEPT ![t] = "out"]
      /\ leaked \in Nat /\ leaked' = leaked + 1
      /\ UNCHANGED <<value, waiters, load, link, buffer, taken, intact>>
  BY DEF AdapterTypeOK, Leak, InDrain, DrainPlaces
<1>2. /\ Holding(at') = Holding(at) \ {t} /\ Draining(at') = Draining(at) \ {t}
      /\ t \in Holding(at) /\ t \in Draining(at) /\ Granted' = Granted
  BY <1>1 DEF Holding, Draining, DrainPlaces, Granted
<1>3. /\ Cardinality(Holding(at')) = Cardinality(Holding(at)) - 1
      /\ Cardinality(Draining(at')) = Cardinality(Draining(at)) - 1
  BY <1>2, OneMore
<1>4. /\ Cardinality(Holding(at)) \in Nat /\ Cardinality(Draining(at)) \in Nat
      /\ value \in Nat
  BY FiniteGroups, HighAssumption DEF AdapterTypeOK
<1>5. SlotsConserved' /\ SleepersOnlyWhenFull'
  <2>1. SlotsConserved'
    BY <1>1, <1>3, <1>4, Counts
  <2> QED BY <1>1, <1>2, <2>1 DEF SleepersOnlyWhenFull
<1>6. Queued(Semaphore(at))'
  <2>1. at[t] # "waiting"
    BY <1>1 DEF DrainPlaces
  <2>2. Queued(Semaphore([at EXCEPT ![t] = "out"]))
    BY <2>1, Moved DEF Stages
  <2> QED BY <1>1, <2>2 DEF Semaphore, Queued
<1>7. AdapterTypeOK'
  BY <1>1 DEF AdapterTypeOK, Stages
<1>8. FramesTaken'
  BY <1>1 DEF FramesTaken, Lost
<1> QED BY <1>5, <1>6, <1>7, <1>8

(* A frame cannot be serialized: its slot, free or granted, goes with it.   *)
LEMMA SerializeFailsInv == ASSUME IInv, NEW t \in Senders, SerializeFails(t) PROVE IInv'
<1> USE DEF IInv
<1> DEFINE gone == Semaphore([at EXCEPT ![t] = "out"])
<1>1. /\ at \in [Senders -> Stages] /\ value \in 0..High /\ waiters \in Seq(Senders)
      /\ load \in Nat /\ leaked \in Nat /\ load' = load + 1 /\ leaked' = leaked + 1
      /\ UNCHANGED <<link, buffer, taken, intact>>
      /\ at[t] \in {"out", "sent", "granted"}
  BY DEF AdapterTypeOK, SerializeFails
<1>2. /\ gone \in Semaphores /\ Queued(gone) /\ gone.value = value
      /\ gone.waiters = waiters /\ gone.at = [at EXCEPT ![t] = "out"]
  <2>1. "out" \in Stages /\ at[t] # "waiting"
    BY <1>1 DEF Stages
  <2>2. gone \in Semaphores /\ Queued(gone)
    BY <2>1, Moved
  <2> QED BY <2>2 DEF Semaphore
<1>3. /\ Cardinality(Holding(at)) \in Nat /\ Cardinality(Draining(at)) \in Nat
      /\ value \in Nat /\ High \in Nat
  BY <1>1, FiniteGroups, HighAssumption
<1> HIDE DEF gone
<1>4. PICK r \in Semaphores :
        /\ Queued(r) /\ Awake(r) /\ Become(r)
        /\ Slots(r) = value + Cardinality(Holding(at)) - 1
        /\ Draining(r.at) = Draining(at)
        /\ \A u \in Senders : r.at[u] \in {IF u = t THEN "out" ELSE at[u], "granted"}
  <2>1. CASE at[t] \in {"out", "sent"} /\ ~Locked /\ Become([gone EXCEPT !.value = @ - 1])
    <3> DEFINE r == [gone EXCEPT !.value = @ - 1]
    <3>1. value > 0 /\ waiters = << >>
      BY <1>1, <2>1 DEF Locked
    <3>2. /\ r.value = value - 1 /\ r.waiters = << >> /\ r.at = [at EXCEPT ![t] = "out"]
          /\ r \in Semaphores
      BY <1>2, <1>3, <3>1 DEF Semaphores
    <3>3. Queued(r) /\ Awake(r) /\ Become(r)
      BY <2>1, <3>2 DEF Queued, Awake
    <3> HIDE DEF r
    <3>4. Holding(r.at) = Holding(at) /\ Draining(r.at) = Draining(at)
      <4>1. \A u \in Senders : r.at[u] = IF u = t THEN "out" ELSE at[u]
        BY <1>1, <3>2
      <4>2. at[t] \notin DrainPlaces \cup {"granted"} /\ "out" \notin DrainPlaces \cup {"granted"}
        BY <2>1 DEF DrainPlaces
      <4> QED BY <4>1, <4>2 DEF Holding, Draining
    <3>5. Slots(r) = value + Cardinality(Holding(at)) - 1
      BY <1>3, <3>2, <3>4 DEF Slots
    <3> QED BY <1>1, <3>2, <3>3, <3>4, <3>5
  <2>2. CASE at[t] = "granted" /\ Become(WakeNext(gone))
    <3>1. /\ WakeNext(gone) \in Semaphores /\ Queued(WakeNext(gone))
          /\ Slots(WakeNext(gone)) = Slots(gone) /\ Awake(WakeNext(gone))
          /\ Draining(WakeNext(gone).at) = Draining(gone.at)
          /\ \A u \in Senders : WakeNext(gone).at[u] \in {gone.at[u], "granted"}
      BY <1>2, WakeNextEffect
    <3>2. /\ t \in Holding(at) /\ Holding(gone.at) = Holding(at) \ {t}
          /\ Draining(gone.at) = Draining(at)
      BY <1>1, <1>2, <2>2 DEF Holding, Draining, DrainPlaces
    <3>3. Slots(gone) = value + Cardinality(Holding(at)) - 1
      BY <1>2, <1>3, <3>2, OneMore DEF Slots
    <3> QED BY <1>1, <1>2, <2>2, <3>1, <3>2, <3>3
  <2> QED BY <2>1, <2>2 DEF SerializeFails, gone
<1>5. /\ at' \in [Senders -> Stages] /\ value' \in Nat /\ waiters' \in Seq(Senders)
      /\ at' = r.at /\ value' = r.value
      /\ Queued(Semaphore(at))' /\ SleepersOnlyWhenFull'
  BY <1>4, Became
<1>6. SlotsConserved'
  <2>1. value' + Cardinality(Holding(at')) = value + Cardinality(Holding(at)) - 1
    BY <1>4, <1>5 DEF Slots
  <2>2. Cardinality(Holding(at')) \in Nat
    BY FiniteGroups
  <2> QED BY <1>1, <1>3, <1>4, <1>5, <2>1, <2>2, Counts
<1>7. AdapterTypeOK'
  <2>1. Cardinality(Holding(at')) \in Nat /\ leaked' \in Nat /\ value' \in Nat /\ High \in Nat
    BY <1>1, <1>3, <1>5, FiniteGroups
  <2>2. value' + Cardinality(Holding(at')) + leaked' = High
    BY <1>6, Counts
  <2>3. value' \in 0..High
    BY <2>1, <2>2
  <2>4. load' \in Nat
    BY <1>1
  <2> QED BY <1>1, <1>5, <2>1, <2>3, <2>4 DEF AdapterTypeOK
<1>8. FramesTaken'
  BY <1>1, <1>4, <1>5 DEF FramesTaken, Lost
<1> QED BY <1>5, <1>6, <1>7, <1>8

(* A cancelled waiter leaves the queue, which keeps its order.              *)
LEMMA CancelWaitingInv == ASSUME IInv, NEW t \in Senders, CancelWaiting(t) PROVE IInv'
<1> USE DEF IInv
<1>1. /\ at \in [Senders -> Stages] /\ at' = [at EXCEPT ![t] = "out"] /\ waiters \in Seq(Senders)
      /\ UNCHANGED <<value, load, link, buffer, taken, intact, leaked>>
  BY DEF AdapterTypeOK, CancelWaiting
<1>2. PICK i \in 1..Len(waiters) :
        /\ waiters[i] = t
        /\ waiters' = SubSeq(waiters, 1, i - 1) \o SubSeq(waiters, i + 1, Len(waiters))
  BY DEF CancelWaiting
<1>3. \A k \in 1..Len(waiters) : waiters[k] \in Senders /\ at[waiters[k]] = "waiting"
  BY <1>1 DEF Queued, Semaphore
<1>4. \A k, l \in 1..Len(waiters) : waiters[k] = waiters[l] => k = l
  BY DEF Queued, Semaphore
<1>5. /\ waiters' \in Seq(Senders) /\ Len(waiters') = Len(waiters) - 1
      /\ \A k \in 1..Len(waiters') :
           waiters'[k] = IF k < i THEN waiters[k] ELSE waiters[k + 1]
  <2> DEFINE before == SubSeq(waiters, 1, i - 1)
             after == SubSeq(waiters, i + 1, Len(waiters))
  <2>1. /\ Len(waiters) \in Nat /\ i \in 1..Len(waiters)
        /\ \A k \in 1..Len(waiters) : waiters[k] \in Senders
    BY <1>1
  <2>2. /\ before \in Seq(Senders) /\ Len(before) = i - 1
        /\ \A k \in 1..(i - 1) : before[k] = waiters[k]
    BY <2>1, SubSeqProperties
  <2>3. /\ after \in Seq(Senders) /\ Len(after) = Len(waiters) - i
        /\ \A k \in 1..(Len(waiters) - i) : after[k] = waiters[i + k]
    BY <2>1, SubSeqProperties
  <2> HIDE DEF before, after
  <2>4. /\ before \o after \in Seq(Senders)
        /\ Len(before \o after) = Len(before) + Len(after)
        /\ \A k \in 1..(Len(before) + Len(after)) :
             (before \o after)[k] = IF k <= Len(before) THEN before[k]
                                   ELSE after[k - Len(before)]
    BY <2>2, <2>3, ConcatProperties
  <2>5. waiters' = before \o after
    BY <1>2 DEF before, after
  <2>6. waiters' \in Seq(Senders) /\ Len(waiters') = Len(waiters) - 1
    <3>1. waiters' \in Seq(Senders) /\ Len(waiters') = Len(before) + Len(after)
      BY <2>4, <2>5, Zenon
    <3>2. Len(before) + Len(after) = Len(waiters) - 1
      <4> DEFINE n == Len(waiters)
      <4>1. n \in Nat /\ i \in 1..n /\ Len(before) = i - 1 /\ Len(after) = n - i
        BY <2>1, <2>2, <2>3
      <4> HIDE DEF n
      <4> QED BY <4>1 DEF n
    <3> QED BY <3>1, <3>2, Zenon
  <2>7. ASSUME NEW k \in 1..Len(waiters')
        PROVE  waiters'[k] = IF k < i THEN waiters[k] ELSE waiters[k + 1]
    <3>1. k \in Nat /\ k >= 1 /\ k <= Len(waiters) - 1 /\ i \in Nat
      BY <2>1, <2>6
    <3>2. CASE k < i
      <4>1. k \in 1..(i - 1) /\ k <= Len(before) /\ k \in 1..(Len(before) + Len(after))
        BY <2>1, <2>2, <2>3, <3>1, <3>2
      <4> QED BY <2>2, <2>4, <2>5, <3>2, <4>1
    <3>3. CASE k >= i
      <4>1. /\ k - (i - 1) \in 1..(Len(waiters) - i) /\ ~(k <= Len(before))
            /\ k \in 1..(Len(before) + Len(after)) /\ i + (k - (i - 1)) = k + 1
            /\ k - Len(before) = k - (i - 1)
        BY <2>1, <2>2, <2>3, <3>1, <3>3
      <4>2. waiters'[k] = after[k - (i - 1)]
        BY <2>4, <2>5, <4>1
      <4>3. after[k - (i - 1)] = waiters[i + (k - (i - 1))]
        BY <2>3, <4>1
      <4> QED BY <3>1, <3>3, <4>1, <4>2, <4>3
    <3> QED BY <3>1, <3>2, <3>3
  <2> QED BY <2>6, <2>7
<1>6. Queued(Semaphore(at))'
  <2>1. \A k \in 1..Len(waiters') : at'[waiters'[k]] = "waiting"
    <3> SUFFICES ASSUME NEW k \in 1..Len(waiters') PROVE at'[waiters'[k]] = "waiting"
      OBVIOUS
    <3> DEFINE l == IF k < i THEN k ELSE k + 1
    <3>1. l \in 1..Len(waiters) /\ waiters'[k] = waiters[l] /\ l # i
      <4>1. Len(waiters) \in Nat /\ k \in 1..(Len(waiters) - 1)
        BY <1>1, <1>5
      <4>2. waiters'[k] = IF k < i THEN waiters[k] ELSE waiters[k + 1]
        BY <1>5
      <4>3. l \in 1..Len(waiters) /\ l # i
        BY <1>2, <4>1
      <4>4. waiters'[k] = waiters[l]
        BY <4>2
      <4> QED BY <4>3, <4>4
    <3>2. waiters[l] # t
      BY <1>2, <1>4, <3>1
    <3> QED BY <1>1, <1>3, <3>1, <3>2
  <2>2. \A k, l \in 1..Len(waiters') : waiters'[k] = waiters'[l] => k = l
    <3> SUFFICES ASSUME NEW k \in 1..Len(waiters'), NEW l \in 1..Len(waiters'),
                        waiters'[k] = waiters'[l]
                 PROVE  k = l
      OBVIOUS
    <3> DEFINE old(n) == IF n < i THEN n ELSE n + 1
    <3>1. old(k) \in 1..Len(waiters) /\ old(l) \in 1..Len(waiters)
          /\ waiters'[k] = waiters[old(k)] /\ waiters'[l] = waiters[old(l)]
      BY <1>1, <1>5
    <3>2. old(k) = old(l)
      BY <1>4, <3>1
    <3> QED BY <3>2
  <2> QED BY <2>1, <2>2 DEF Queued, Semaphore
<1>7. at[t] = "waiting"
  BY <1>2, <1>3
<1>8. Holding(at') = Holding(at) /\ Draining(at') = Draining(at) /\ Granted' = Granted
  BY <1>1, <1>7 DEF Holding, Draining, DrainPlaces, Granted
<1>9. SlotsConserved' /\ SleepersOnlyWhenFull'
  <2>1. waiters # <<>>
    BY <1>2
  <2> QED BY <1>1, <1>8, <2>1, Counts DEF SleepersOnlyWhenFull
<1>10. AdapterTypeOK' /\ FramesTaken'
  BY <1>1, <1>5 DEF AdapterTypeOK, Stages, FramesTaken, Lost
<1> QED BY <1>6, <1>9, <1>10

(* The transport wakes drains and never touches a slot.  It never opens     *)
(* again, so that what was dropped stays dropped.                           *)
LEMMA TransportInv == ASSUME IInv, Flush \/ Close \/ Closed \/ Reset PROVE IInv'
<1> USE DEF IInv
<1>1. UNCHANGED <<value, waiters, load, taken, leaked>>
  BY DEF Flush, Close, Closed, Reset
<1>2. PICK place \in {"drained", "failed", "draining"} : Wake(place)
  <2>1. at \in [Senders -> Stages]
    BY DEF AdapterTypeOK
  <2>2. UNCHANGED at => Wake("draining")
    BY <2>1 DEF Wake
  <2> QED BY <2>2 DEF Flush, Close, Closed, Reset
<1>3. at \in [Senders -> Stages] /\ at' \in [Senders -> Stages]
      /\ \A t \in Senders : at'[t] = IF at[t] = "draining" THEN place ELSE at[t]
  BY <1>2 DEF AdapterTypeOK, Wake, Stages
<1>4. Holding(at') = Holding(at) /\ Draining(at') = Draining(at) /\ Granted' = Granted
  BY <1>3 DEF Holding, Draining, DrainPlaces, Granted
<1>5. SlotsConserved' /\ SleepersOnlyWhenFull'
  BY <1>1, <1>4, Counts DEF SleepersOnlyWhenFull
<1>6. Queued(Semaphore(at))'
  <2>1. \A i \in 1..Len(waiters) : waiters[i] \in Senders /\ at[waiters[i]] = "waiting"
    BY DEF AdapterTypeOK, Queued, Semaphore
  <2>2. \A i \in 1..Len(waiters) : at'[waiters[i]] = "waiting"
    BY <1>3, <2>1
  <2> QED BY <1>1, <2>2 DEF Queued, Semaphore
<1>7. /\ buffer \in Nat /\ buffer' \in Nat
      /\ link' \in {"open", "closing", "closed", "reset"} /\ intact' \in BOOLEAN
  <2>1. buffer \in Nat /\ link \in {"open", "closing", "closed", "reset"}
        /\ intact \in BOOLEAN
    BY DEF AdapterTypeOK
  <2>2. buffer' \in Nat /\ link' \in {"open", "closing", "closed", "reset"}
    BY <2>1 DEF Flush, Close, Closed, Reset
  <2>3. intact' \in BOOLEAN
    BY <2>1, Zenon DEF Flush, Close, Closed, Reset
  <2> QED BY <2>1, <2>2, <2>3
<1>8. Lost \/ (link = "closing" /\ buffer = 0) => (Lost \/ (link = "closing" /\ buffer = 0))'
  BY <1>7 DEF AdapterTypeOK, Flush, Close, Closed, Reset, Lost
<1>9. FramesTaken'
  BY <1>1, <1>2, <1>3, <1>8 DEF FramesTaken
<1> QED BY <1>1, <1>3, <1>5, <1>6, <1>7, <1>9 DEF AdapterTypeOK

(* Every step keeps the invariant.                                          *)
LEMMA StepInv == IInv /\ [AdapterNext]_adapterVars => IInv'
<1> SUFFICES ASSUME IInv, [AdapterNext]_adapterVars PROVE IInv'
  OBVIOUS
<1>1. ASSUME NEW t \in Senders, Sender(t) PROVE IInv'
  BY <1>1, SendInv, ResumeInv, YieldedInv, GiveBackInv, SerializeFailsInv, LeakInv,
     CancelWaitingInv DEF Sender
<1>2. CASE Flush \/ Close \/ Closed \/ Reset
  BY <1>2, TransportInv
<1>3. CASE UNCHANGED adapterVars
  BY <1>3, Counts DEF adapterVars, IInv, AdapterTypeOK, Queued, Semaphore, SleepersOnlyWhenFull,
                      Granted, FramesTaken, Lost
<1> QED BY <1>1, <1>2, <1>3 DEF AdapterNext

(* The inductive invariant holds in every reachable state.                  *)
THEOREM Invariance == AdapterSpec => []IInv
BY InitInv, StepInv, PTL DEF AdapterSpec

(* Every variable keeps its type; the semaphore's value stays within its    *)
(* bounds.                                                                  *)
THEOREM TypeCorrect == AdapterSpec => []AdapterTypeOK
<1>1. IInv => AdapterTypeOK
  BY DEF IInv
<1> QED BY <1>1, Invariance, PTL

(* However sends end, a slot is free, held or leaked, and the controller's  *)
(* count of frames is the number of those in flight or leaked.              *)
THEOREM NoSlotIsDoubledOrLost == AdapterSpec => []SlotsConserved
<1>1. IInv => SlotsConserved
  BY DEF IInv
<1> QED BY <1>1, Invariance, PTL

(* The chain of wake-ups of the semaphore never breaks.                     *)
THEOREM NobodySleepsBeforeAFreeSlot == AdapterSpec => []SleepersOnlyWhenFull
<1>1. IInv => SleepersOnlyWhenFull
  BY DEF IInv
<1> QED BY <1>1, Invariance, PTL

(* A send that returned had its frame taken by the transport.               *)
THEOREM ReturnedFramesWereTaken == AdapterSpec => []ReturnsOnlyIfTaken
<1>1. IInv => ReturnsOnlyIfTaken
  BY DEF IInv, FramesTaken, ReturnsOnlyIfTaken
<1> QED BY <1>1, Invariance, PTL
=============================================================================
