------------------------ MODULE ConnectionPoolProofs ------------------------
(***************************************************************************)
(* Proofs about ConnectionPool for every set of tasks and every size of    *)
(* the pool with min_size <= max_size.                                     *)
(***************************************************************************)
EXTENDS ConnectionPool, FiniteSetTheorems, SequenceTheorems, TLAPS

(* The tasks that acquire() has counted and release() has not.              *)
Users == {t \in Tasks : pc[t] \in {"using", "discarding"}}

(* Nobody uses the pool before initialize() has ended, and what it has      *)
(* opened and has still to open is min_size.                                *)
StartUp ==
  toOpen > 0 =>
    /\ \A t \in Tasks : pc[t] = "out"
    /\ active = 0
    /\ Len(idle) + toOpen <= MinSize

(* The condition's queue holds exactly tasks that sleep, each of them once. *)
Sleepers ==
  /\ \A i \in 1..Len(asleep) : pc[asleep[i]] = "asleep"
  /\ \A i, j \in 1..Len(asleep) : asleep[i] = asleep[j] => i = j

UsersHold == \A t \in Tasks : held[t] # NoConn <=> t \in Users
UsersAreCounted == Cardinality(Users) <= active

(* The inductive invariant: Capacity and WakeupAccounting need that a       *)
(* release finds its own acquire() counted and that a notified task really  *)
(* was asleep.                                                              *)
IInv ==
  /\ TypeOK
  /\ StartUp
  /\ Sleepers
  /\ UsersHold
  /\ UsersAreCounted
  /\ Capacity
  /\ WakeupAccounting

-----------------------------------------------------------------------------
(* Adding or removing one element changes a cardinality by at most one.     *)
LEMMA OneElement ==
  ASSUME NEW S, IsFiniteSet(S), NEW x
  PROVE  /\ Cardinality(S \cup {x}) \in {Cardinality(S), Cardinality(S) + 1}
         /\ Cardinality(S \ {x}) \in {Cardinality(S) - 1, Cardinality(S)}
<1>1. CASE x \in S
  BY <1>1, FS_AddElement, FS_RemoveElement
<1>2. CASE x \notin S
  BY <1>2, FS_AddElement, FS_RemoveElement
<1> QED BY <1>1, <1>2

(* The sets of tasks that are counted are finite.                           *)
LEMMA FiniteGroups ==
  /\ IsFiniteSet(Users) /\ Cardinality(Users) \in Nat
  /\ IsFiniteSet(Opening) /\ Cardinality(Opening) \in Nat
  /\ IsFiniteSet(Coming) /\ Cardinality(Coming) \in Nat
<1>1. Users \subseteq Tasks /\ Opening \subseteq Tasks /\ Coming \subseteq Tasks
  BY DEF Users, Opening, Coming
<1>2. QED
  BY <1>1, TasksAssumption, FS_Subset, FS_CardinalityType

(* The same facts of the next state.                                        *)
LEMMA FiniteGroupsNext ==
  /\ IsFiniteSet(Users') /\ Cardinality(Users') \in Nat
  /\ IsFiniteSet(Opening') /\ Cardinality(Opening') \in Nat
  /\ IsFiniteSet(Coming') /\ Cardinality(Coming') \in Nat
<1>1. Users' \subseteq Tasks /\ Opening' \subseteq Tasks /\ Coming' \subseteq Tasks
  BY DEF Users, Opening, Coming
<1>2. QED
  BY <1>1, TasksAssumption, FS_Subset, FS_CardinalityType

(* An empty group counts nothing, whatever the place it stands for.         *)
LEMMA InitInv == Init => IInv
<1> SUFFICES ASSUME Init PROVE IInv
  OBVIOUS
<1> USE SizesAssumption, TasksAssumption, ConnsAssumption
<1>1. Users = {} /\ Opening = {} /\ Coming = {}
  BY DEF Init, Users, Opening, Coming
<1>2. Cardinality(Users) = 0 /\ Cardinality(Opening) = 0
  BY <1>1, FS_EmptySet
<1>3. TypeOK
  <2>1. idle \in Seq(Conns) /\ asleep \in Seq(Tasks)
    BY DEF Init
  <2>2. toOpen \in 0..MinSize
    BY DEF Init
  <2> QED BY <2>1, <2>2 DEF Init, TypeOK, Places
<1>4. StartUp /\ Sleepers /\ UsersHold
  BY <1>1 DEF Init, StartUp, Sleepers, UsersHold
<1>5. UsersAreCounted /\ Capacity
  BY <1>2 DEF Init, UsersAreCounted, Capacity
<1>6. WakeupAccounting
  BY DEF Init, WakeupAccounting
<1> QED BY <1>3, <1>4, <1>5, <1>6 DEF IInv

(* What notify() does to the groups of tasks when t leaves the pool.        *)
LEMMA NotifyEffect ==
  ASSUME IInv, NEW t \in Tasks, pc[t] \in {"using", "discarding"},
         Notify([pc EXCEPT ![t] = "out"])
  PROVE  /\ pc' \in [Tasks -> Places]
         /\ asleep' \in Seq(Tasks)
         /\ Sleepers'
         /\ Users' = Users \ {t}
         /\ Opening' = Opening
         /\ pc'[t] = "out"
         /\ asleep' # <<>> => Cardinality(Coming') = Cardinality(Coming) + 1
<1> USE DEF IInv, TypeOK
<1>1. CASE asleep = <<>>
  <2>1. pc' = [pc EXCEPT ![t] = "out"] /\ asleep' = asleep
    BY <1>1 DEF Notify
  <2> QED
    BY <1>1, <2>1 DEF Places, Sleepers, Users, Opening
<1>2. CASE asleep # <<>>
  <2> DEFINE h == Head(asleep)
  <2>1. pc' = [[pc EXCEPT ![t] = "out"] EXCEPT ![h] = "woken"] /\ asleep' = Tail(asleep)
    BY <1>2 DEF Notify
  <2>2. h = asleep[1] /\ h \in Tasks /\ Len(asleep) >= 1
    BY <1>2
  <2>3. pc[h] = "asleep" /\ h # t
    BY <2>2 DEF Sleepers
  <2>4. asleep' \in Seq(Tasks) /\ Len(asleep') = Len(asleep) - 1
        /\ \A i \in 1..Len(asleep') : asleep'[i] = asleep[i + 1]
    BY <1>2, <2>1
  <2>5. \A i \in 1..Len(asleep') : asleep'[i] # h
    BY <2>2, <2>4 DEF Sleepers
  <2>6. Sleepers'
    <3>1. \A i \in 1..Len(asleep') : i + 1 \in 1..Len(asleep)
      BY <2>2, <2>4
    <3>2. ASSUME NEW i \in 1..Len(asleep')
          PROVE  pc'[asleep'[i]] = "asleep"
      <4>1. asleep'[i] = asleep[i + 1] /\ asleep[i + 1] \in Tasks
        BY <2>4, <3>1
      <4>2. pc[asleep[i + 1]] = "asleep"
        BY <3>1 DEF Sleepers
      <4>3. asleep'[i] # t /\ asleep'[i] # h
        BY <2>5, <4>1, <4>2
      <4> QED BY <2>1, <4>1, <4>2, <4>3
    <3>3. ASSUME NEW i \in 1..Len(asleep'), NEW j \in 1..Len(asleep'),
                 asleep'[i] = asleep'[j]
          PROVE  i = j
      <4>1. asleep[i + 1] = asleep[j + 1]
        BY <2>4, <3>3
      <4>2. i + 1 = j + 1
        BY <3>1, <4>1 DEF Sleepers
      <4> QED BY <4>2
    <3> QED BY <3>2, <3>3 DEF Sleepers
  <2>7. Users' = Users \ {t} /\ Opening' = Opening /\ pc'[t] = "out"
    BY <2>1, <2>2, <2>3 DEF Users, Opening
  <2>8. Coming' = Coming \cup {h} /\ h \notin Coming
    BY <2>1, <2>2, <2>3 DEF Coming
  <2>9. Cardinality(Coming') = Cardinality(Coming) + 1
    BY <2>8, FiniteGroups, FS_AddElement
  <2>10. pc' \in [Tasks -> Places]
    BY <2>1, <2>2 DEF Places
  <2> QED BY <2>4, <2>6, <2>7, <2>9, <2>10
<1> QED BY <1>1, <1>2

(* A step that leaves every task where it is keeps the groups as they are.  *)
LEMMA SamePlaces ==
  ASSUME IInv, UNCHANGED <<pc, held, active, asleep, disturbed>>
  PROVE  /\ Users' = Users /\ Opening' = Opening /\ Coming' = Coming
         /\ Sleepers' /\ UsersHold' /\ UsersAreCounted' /\ WakeupAccounting'
BY DEF IInv, Users, Opening, Coming, Sleepers, UsersHold, UsersAreCounted,
       WakeupAccounting

LEMMA InitializeInv == IInv /\ (InitializeOne \/ InitializeFails) => IInv'
<1> SUFFICES ASSUME IInv, InitializeOne \/ InitializeFails PROVE IInv'
  OBVIOUS
<1> USE SizesAssumption, FlagsAssumption
<1>1. UNCHANGED <<pc, held, active, asleep, disturbed>>
  BY DEF InitializeOne, InitializeFails
<1>2. CASE InitializeOne
  <2>1. PICK c \in Conns : idle' = Append(idle, c) /\ healthy' = healthy \cup {c}
    BY <1>2 DEF InitializeOne
  <2>2. idle' \in Seq(Conns) /\ Len(idle') = Len(idle) + 1
    BY <2>1 DEF IInv, TypeOK
  <2>3. TypeOK'
    BY <1>2, <2>1, <2>2 DEF InitializeOne, IInv, TypeOK
  <2>4. StartUp'
    BY <1>2, <2>2 DEF InitializeOne, IInv, TypeOK, StartUp
  <2>5. Opening = {}
    BY <1>2 DEF InitializeOne, IInv, StartUp, Opening
  <2>6. Cardinality(Opening') = 0
    BY <1>1, <2>5, SamePlaces, FS_EmptySet
  <2>7. Capacity'
    BY <1>1, <1>2, <2>2, <2>6 DEF InitializeOne, IInv, TypeOK, StartUp, Capacity
  <2> QED BY <1>1, <2>3, <2>4, <2>7, SamePlaces DEF IInv
<1>3. CASE InitializeFails
  <2>1. TypeOK' /\ StartUp'
    BY <1>3 DEF InitializeFails, IInv, TypeOK, StartUp
  <2>2. Capacity'
    BY <1>1, <1>3, SamePlaces DEF InitializeFails, IInv, Capacity
  <2> QED BY <1>1, <2>1, <2>2, SamePlaces DEF IInv
<1> QED BY <1>2, <1>3

LEMMA IdleInv == IInv /\ (SendBreaks \/ CloseAllStart \/ CloseAllPop) => IInv'
<1> SUFFICES ASSUME IInv, SendBreaks \/ CloseAllStart \/ CloseAllPop PROVE IInv'
  OBVIOUS
<1>1. UNCHANGED <<pc, held, active, asleep, toOpen, disturbed>>
  BY DEF SendBreaks, CloseAllStart, CloseAllPop
<1>2. /\ idle' \in Seq(Conns) /\ Len(idle') \in Nat /\ Len(idle') <= Len(idle)
      /\ healthy' \in SUBSET Conns /\ closing' \in BOOLEAN
  <2>1. idle \in Seq(Conns) /\ Len(idle) \in Nat /\ healthy \in SUBSET Conns
        /\ closing \in BOOLEAN
    BY DEF IInv, TypeOK
  <2>2. CASE CloseAllPop
    <3>1. CASE idle = <<>>
      <4>1. idle' = idle /\ healthy' = healthy /\ closing' = FALSE
        BY <2>2, <3>1 DEF CloseAllPop
      <4>2. closing' \in BOOLEAN
        BY <4>1
      <4>3. idle' \in Seq(Conns) /\ Len(idle') \in Nat /\ Len(idle') <= Len(idle)
        BY <2>1, <4>1
      <4> QED BY <2>1, <4>1, <4>2, <4>3
    <3>2. CASE idle # <<>>
      <4>1. idle' = Tail(idle) /\ healthy' = healthy \ {Head(idle)} /\ closing' = closing
        BY <2>2, <3>2 DEF CloseAllPop
      <4>2. Tail(idle) \in Seq(Conns) /\ Len(Tail(idle)) = Len(idle) - 1 /\ Len(idle) > 0
        BY <2>1, <3>2
      <4> QED BY <2>1, <4>1, <4>2
    <3> QED BY <3>1, <3>2
  <2>3. CASE SendBreaks
    BY <2>1, <2>3 DEF SendBreaks
  <2>4. CASE CloseAllStart
    BY <2>1, <2>4 DEF CloseAllStart
  <2> QED BY <2>2, <2>3, <2>4
<1>3. TypeOK'
  BY <1>1, <1>2 DEF IInv, TypeOK
<1>4. StartUp'
  BY <1>1, <1>2, SizesAssumption DEF IInv, TypeOK, StartUp
<1>5. Capacity'
  BY <1>1, <1>2, SamePlaces, FiniteGroups, SizesAssumption DEF IInv, TypeOK, Capacity
<1> QED BY <1>1, <1>3, <1>4, <1>5, SamePlaces DEF IInv

(* A task that was outside or woken goes to sleep, takes an idle adapter or *)
(* begins to open one.                                                      *)
LEMMA LoopInv ==
  ASSUME NEW t \in Tasks, IInv,
         Wait(t) \/ TakeIdle(t) \/ ReplaceUnhealthy(t) \/ OpenNew(t)
  PROVE  IInv'
<1> USE SizesAssumption, ConnsAssumption
<1>1. /\ pc[t] \in {"out", "woken"} /\ toOpen = 0 /\ toOpen' = 0
      /\ pc \in [Tasks -> Places] /\ t \notin Users /\ t \notin Opening
      /\ UNCHANGED <<healthy, closing, disturbed>>
  BY DEF IInv, TypeOK, Wait, TakeIdle, ReplaceUnhealthy, OpenNew, AtLoop, Users, Opening
<1>2. Opening = {} /\ Cardinality(Opening) = 0
  BY FS_EmptySet
     DEF Wait, TakeIdle, ReplaceUnhealthy, OpenNew, AtLoop, LockFree, Opening
<1>3. StartUp'
  BY <1>1 DEF StartUp
<1>4. CASE Wait(t)
  <2>1. pc' = [pc EXCEPT ![t] = "asleep"] /\ asleep' = Append(asleep, t)
        /\ UNCHANGED <<held, idle, active>> /\ active >= MaxSize
    BY <1>4 DEF Wait, Full
  <2>2. Users' = Users /\ Opening' = Opening
    BY <1>1, <2>1 DEF Users, Opening
  <2>3. /\ asleep' \in Seq(Tasks) /\ Len(asleep) \in Nat
        /\ Len(asleep') = Len(asleep) + 1 /\ asleep'[Len(asleep) + 1] = t
        /\ \A i \in 1..Len(asleep) : asleep'[i] = asleep[i] /\ asleep[i] \in Tasks
    BY <2>1 DEF IInv, TypeOK
  <2>4. \A i \in 1..Len(asleep) : asleep[i] # t
    BY <1>1 DEF IInv, Sleepers
  <2>5. Sleepers'
    <3>1. \A i \in 1..Len(asleep') : i \in 1..Len(asleep) \/ i = Len(asleep) + 1
      BY <2>3
    <3>2. \A i \in 1..Len(asleep') : pc'[asleep'[i]] = "asleep"
      BY <1>1, <2>1, <2>3, <2>4, <3>1 DEF IInv, Sleepers
    <3>3. \A i, j \in 1..Len(asleep') : asleep'[i] = asleep'[j] => i = j
      BY <2>3, <2>4, <3>1 DEF IInv, Sleepers
    <3> QED BY <3>2, <3>3 DEF Sleepers
  <2>6. TypeOK'
    BY <1>1, <2>1, <2>3 DEF IInv, TypeOK, Places
  <2>7. UsersHold' /\ UsersAreCounted' /\ Capacity'
    BY <2>1, <2>2 DEF IInv, UsersHold, UsersAreCounted, Capacity
  <2>8. WakeupAccounting'
    BY <2>1, FiniteGroupsNext DEF IInv, TypeOK, WakeupAccounting
  <2> QED BY <1>3, <2>5, <2>6, <2>7, <2>8 DEF IInv
<1>5. CASE TakeIdle(t)
  <2>1. /\ pc' = [pc EXCEPT ![t] = "using"] /\ held' = [held EXCEPT ![t] = Head(idle)]
        /\ idle' = Tail(idle) /\ idle # <<>> /\ active' = active + 1 /\ UNCHANGED asleep
    BY <1>5 DEF TakeIdle
  <2>2. /\ Head(idle) \in Conns /\ idle' \in Seq(Conns)
        /\ Len(idle) \in Nat /\ Len(idle') = Len(idle) - 1
    BY <2>1 DEF IInv, TypeOK
  <2>3. Users' = Users \cup {t} /\ Opening' = Opening /\ Coming' = Coming \ {t}
    BY <1>1, <2>1 DEF Users, Opening, Coming
  <2>4. Cardinality(Users') = Cardinality(Users) + 1
    BY <1>1, <2>3, FiniteGroups, FS_AddElement
  <2>5. Cardinality(Coming') >= Cardinality(Coming) - 1
    <3>1. Cardinality(Coming \ {t}) \in {Cardinality(Coming) - 1, Cardinality(Coming)}
      BY FiniteGroups, OneElement
    <3> QED BY <2>3, <3>1, FiniteGroups
  <2>6. TypeOK'
    BY <1>1, <2>1, <2>2 DEF IInv, TypeOK, Places
  <2>7. Sleepers'
    BY <1>1, <2>1 DEF IInv, TypeOK, Sleepers
  <2>8. UsersHold'
    BY <2>1, <2>2, <2>3 DEF IInv, TypeOK, UsersHold
  <2>9. UsersAreCounted' /\ Capacity'
    BY <1>2, <2>1, <2>2, <2>3, <2>4, FiniteGroups
       DEF IInv, TypeOK, UsersAreCounted, Capacity
  <2>10. WakeupAccounting'
    BY <1>1, <2>1, <2>5, FiniteGroups, FiniteGroupsNext DEF IInv, TypeOK, WakeupAccounting
  <2> QED BY <1>3, <2>6, <2>7, <2>8, <2>9, <2>10 DEF IInv
<1>6. CASE ReplaceUnhealthy(t) \/ OpenNew(t)
  <2>1. /\ pc' = [pc EXCEPT ![t] = "connecting"] /\ UNCHANGED <<held, active, asleep>>
        /\ idle' \in Seq(Conns) /\ Len(idle') \in Nat
        /\ Len(idle') + active + 1 <= MaxSize
    <3>1. CASE ReplaceUnhealthy(t)
      BY <1>2, <3>1 DEF ReplaceUnhealthy, IInv, TypeOK, Capacity
    <3>2. CASE OpenNew(t)
      BY <3>2 DEF OpenNew, Full, IInv, TypeOK
    <3> QED BY <1>6, <3>1, <3>2
  <2>2. Users' = Users /\ Opening' = Opening \cup {t} /\ Coming' = Coming \cup {t}
    BY <1>1, <2>1 DEF Users, Opening, Coming
  <2>3. Cardinality(Opening') = 1
    BY <1>2, <2>2, FS_Singleton
  <2>4. Cardinality(Coming') >= Cardinality(Coming)
    <3>1. Cardinality(Coming \cup {t}) \in {Cardinality(Coming), Cardinality(Coming) + 1}
      BY FiniteGroups, OneElement
    <3> QED BY <2>2, <3>1, FiniteGroups
  <2>5. TypeOK'
    BY <1>1, <2>1 DEF IInv, TypeOK, Places
  <2>6. Sleepers'
    BY <1>1, <2>1 DEF IInv, TypeOK, Sleepers
  <2>7. UsersHold' /\ UsersAreCounted'
    BY <2>1, <2>2 DEF IInv, UsersHold, UsersAreCounted
  <2>8. Capacity'
    BY <2>1, <2>3 DEF IInv, TypeOK, Capacity
  <2>9. WakeupAccounting'
    BY <1>1, <2>1, <2>4, FiniteGroups, FiniteGroupsNext DEF IInv, TypeOK, WakeupAccounting
  <2> QED BY <1>3, <2>5, <2>6, <2>7, <2>8, <2>9 DEF IInv
<1> QED BY <1>4, <1>5, <1>6

(* The connect of acquire() succeeds or fails.                              *)
LEMMA ConnectInv ==
  ASSUME NEW t \in Tasks, IInv, Connected(t) \/ ConnectFails(t)
  PROVE  IInv'
<1> USE SizesAssumption, ConnsAssumption
<1>1. /\ pc[t] = "connecting" /\ pc \in [Tasks -> Places] /\ toOpen = 0 /\ toOpen' = 0
      /\ t \notin Users /\ t \in Opening /\ t \in Coming
      /\ UNCHANGED <<idle, asleep, closing>>
  BY DEF IInv, TypeOK, StartUp, Connected, ConnectFails, Users, Opening, Coming
<1>2. StartUp'
  BY <1>1 DEF StartUp
<1>3. CASE Connected(t)
  <2>1. PICK c \in Conns : held' = [held EXCEPT ![t] = c] /\ healthy' = healthy \cup {c}
    BY <1>3 DEF Connected
  <2>2. pc' = [pc EXCEPT ![t] = "using"] /\ active' = active + 1 /\ UNCHANGED disturbed
    BY <1>3 DEF Connected
  <2>3. Users' = Users \cup {t} /\ Opening' = Opening \ {t} /\ Coming' = Coming \ {t}
    BY <1>1, <2>2 DEF Users, Opening, Coming
  <2>4. /\ Cardinality(Users') = Cardinality(Users) + 1
        /\ Cardinality(Opening') = Cardinality(Opening) - 1
        /\ Cardinality(Coming') = Cardinality(Coming) - 1
    BY <1>1, <2>3, FiniteGroups, FS_AddElement, FS_RemoveElement
  <2>5. TypeOK'
    BY <1>1, <2>1, <2>2 DEF IInv, TypeOK, Places
  <2>6. Sleepers'
    BY <1>1, <2>2 DEF IInv, TypeOK, Sleepers
  <2>7. UsersHold'
    BY <2>1, <2>3 DEF IInv, TypeOK, UsersHold
  <2>8. UsersAreCounted' /\ Capacity' /\ WakeupAccounting'
    BY <1>1, <2>2, <2>4, FiniteGroups
       DEF IInv, TypeOK, UsersAreCounted, Capacity, WakeupAccounting
  <2> QED BY <1>2, <2>5, <2>6, <2>7, <2>8 DEF IInv
<1>4. CASE ConnectFails(t)
  <2>1. pc' = [pc EXCEPT ![t] = "out"] /\ disturbed' = TRUE /\ UNCHANGED <<held, active, healthy>>
    BY <1>4 DEF ConnectFails
  <2>2. Users' = Users /\ Opening' = Opening \ {t}
    BY <1>1, <2>1 DEF Users, Opening
  <2>3. Cardinality(Opening') = Cardinality(Opening) - 1
    BY <1>1, <2>2, FiniteGroups, FS_RemoveElement
  <2>4. TypeOK'
    BY <1>1, <2>1 DEF IInv, TypeOK, Places
  <2>5. Sleepers'
    BY <1>1, <2>1 DEF IInv, TypeOK, Sleepers
  <2>6. UsersHold' /\ UsersAreCounted' /\ WakeupAccounting'
    BY <2>1, <2>2 DEF IInv, UsersHold, UsersAreCounted, WakeupAccounting
  <2>7. Capacity'
    BY <1>1, <2>1, <2>3, FiniteGroups DEF IInv, TypeOK, Capacity
  <2> QED BY <1>2, <2>4, <2>5, <2>6, <2>7 DEF IInv
<1> QED BY <1>3, <1>4

(* release(): the task that leaves was counted, and one sleeper is notified.*)
LEMMA ReleaseInv == ASSUME NEW t \in Tasks, IInv, Release(t) PROVE IInv'
<1> USE SizesAssumption, ConnsAssumption
<1>1. /\ pc[t] \in {"using", "discarding"} /\ pc \in [Tasks -> Places]
      /\ t \in Users /\ t \notin Opening /\ t \notin Coming
      /\ held[t] \in Conns /\ toOpen = 0 /\ toOpen' = 0
      /\ UNCHANGED <<closing, disturbed>>
  <2>1. pc[t] \in {"using", "discarding"} /\ UNCHANGED <<toOpen, closing, disturbed>>
    BY DEF Release, ReleaseKeep, ReleaseDiscard, Discarded, AtRelease
  <2>2. pc \in [Tasks -> Places] /\ toOpen = 0 /\ held[t] \in Conns \cup {NoConn}
    BY <2>1 DEF IInv, TypeOK, StartUp
  <2>3. t \in Users /\ t \notin Opening /\ t \notin Coming
    BY <2>1 DEF Users, Opening, Coming
  <2> QED BY <2>1, <2>2, <2>3 DEF IInv, UsersHold
<1>2. StartUp'
  BY <1>1 DEF StartUp
<1>3. CASE ReleaseDiscard(t)
  <2>1. pc' = [pc EXCEPT ![t] = "discarding"] /\ UNCHANGED <<held, idle, active, healthy, asleep>>
    BY <1>3 DEF ReleaseDiscard
  <2>2. Users' = Users /\ Opening' = Opening /\ Coming' = Coming
    BY <1>1, <2>1 DEF Users, Opening, Coming
  <2>3. TypeOK'
    BY <1>1, <2>1 DEF IInv, TypeOK, Places
  <2>4. Sleepers'
    BY <1>1, <2>1 DEF IInv, TypeOK, Sleepers
  <2>5. UsersHold' /\ UsersAreCounted' /\ Capacity' /\ WakeupAccounting'
    BY <1>1, <2>1, <2>2 DEF IInv, UsersHold, UsersAreCounted, Capacity, WakeupAccounting
  <2> QED BY <1>2, <2>3, <2>4, <2>5 DEF IInv
<1>4. CASE ReleaseKeep(t) \/ Discarded(t)
  <2>1. /\ Notify([pc EXCEPT ![t] = "out"]) /\ held' = [held EXCEPT ![t] = NoConn]
        /\ active' = active - 1
    BY <1>4 DEF ReleaseKeep, Discarded
  <2>2. /\ idle' \in Seq(Conns) /\ Len(idle') \in Nat /\ Len(idle') <= Len(idle) + 1
        /\ healthy' \in SUBSET Conns
    <3>1. idle \in Seq(Conns) /\ Len(idle) \in Nat /\ healthy \in SUBSET Conns
      BY DEF IInv, TypeOK
    <3>2. CASE ReleaseKeep(t)
      <4>1. idle' = Append(idle, held[t]) /\ healthy' = healthy
        BY <3>2 DEF ReleaseKeep
      <4> QED BY <1>1, <3>1, <4>1
    <3>3. CASE Discarded(t)
      BY <3>1, <3>3 DEF Discarded
    <3> QED BY <1>4, <3>2, <3>3
  <2>3. /\ pc' \in [Tasks -> Places] /\ asleep' \in Seq(Tasks) /\ Sleepers'
        /\ Users' = Users \ {t} /\ Opening' = Opening
        /\ asleep' # <<>> => Cardinality(Coming') = Cardinality(Coming) + 1
    BY <1>1, <2>1, NotifyEffect
  <2>4. Cardinality(Users') = Cardinality(Users) - 1
    BY <1>1, <2>3, FiniteGroups, FS_RemoveElement
  <2>5. active - 1 \in Nat /\ UsersAreCounted'
    BY <2>1, <2>4, FiniteGroups, FiniteGroupsNext DEF IInv, TypeOK, UsersAreCounted
  <2>6. TypeOK'
    BY <1>1, <2>1, <2>2, <2>3, <2>5 DEF IInv, TypeOK
  <2>7. UsersHold'
    BY <2>1, <2>3 DEF IInv, TypeOK, UsersHold
  <2>8. Capacity'
    BY <2>1, <2>2, <2>3, FiniteGroups DEF IInv, TypeOK, Capacity
  <2>9. WakeupAccounting'
    <3>1. asleep' # <<>> => asleep # <<>>
      BY <2>1 DEF Notify
    <3> QED BY <1>1, <2>1, <2>3, <3>1, FiniteGroups DEF IInv, TypeOK, WakeupAccounting
  <2> QED BY <1>2, <2>3, <2>5, <2>6, <2>7, <2>8, <2>9 DEF IInv
<1> QED BY <1>3, <1>4 DEF Release

(* A caller is cancelled while it sleeps, before it has run again or inside *)
(* release().                                                               *)
LEMMA CancelInv == ASSUME NEW t \in Tasks, IInv, Cancel(t) PROVE IInv'
<1> USE SizesAssumption, ConnsAssumption
<1>1. /\ pc[t] \in {"asleep", "woken", "using", "discarding"} /\ pc \in [Tasks -> Places]
      /\ pc' = [pc EXCEPT ![t] = "out"] /\ toOpen = 0 /\ toOpen' = 0
      /\ UNCHANGED <<idle, active, closing>>
  <2>1. pc \in [Tasks -> Places] /\ (toOpen > 0 => pc[t] = "out") /\ toOpen \in Nat
    BY DEF IInv, TypeOK, StartUp
  <2>2. CASE CancelAsleep(t)
    <3>1. pc[t] = "asleep"
      BY <2>2 DEF CancelAsleep, IInv, Sleepers
    <3> QED BY <2>1, <2>2, <3>1 DEF CancelAsleep
  <2>3. CASE CancelRelease(t)
    BY <2>1, <2>3 DEF CancelRelease
  <2>4. CASE CancelWoken(t)
    BY <2>1, <2>4 DEF CancelWoken
  <2> QED BY <2>2, <2>3, <2>4 DEF Cancel
<1>2. StartUp'
  BY <1>1 DEF StartUp
<1>3. Opening' = Opening /\ Users' = Users \ {t}
  BY <1>1 DEF Opening, Users
<1>4. Capacity'
  BY <1>1, <1>3 DEF IInv, Capacity
<1>5. UsersAreCounted'
  <2>1. Cardinality(Users') <= Cardinality(Users)
    <3>1. Cardinality(Users \ {t}) \in {Cardinality(Users) - 1, Cardinality(Users)}
      BY FiniteGroups, OneElement
    <3> QED BY <1>3, <3>1, FiniteGroups
  <2> QED BY <1>1, <2>1, FiniteGroups, FiniteGroupsNext DEF IInv, TypeOK, UsersAreCounted
<1>6. CASE CancelAsleep(t)
  <2>1. PICK k \in 1..Len(asleep) :
          /\ asleep[k] = t
          /\ asleep' = SubSeq(asleep, 1, k - 1) \o SubSeq(asleep, k + 1, Len(asleep))
    BY <1>6 DEF CancelAsleep
  <2>2. UNCHANGED <<held, healthy, disturbed>> /\ asleep \in Seq(Tasks)
    BY <1>6 DEF CancelAsleep, IInv, TypeOK
  <2> DEFINE old(i) == IF i < k THEN i ELSE i + 1
  <2>3. /\ asleep' \in Seq(Tasks) /\ Len(asleep') = Len(asleep) - 1 /\ Len(asleep) \in Nat
        /\ \A i \in 1..Len(asleep') :
             /\ asleep'[i] = asleep[old(i)]
             /\ old(i) \in 1..Len(asleep) /\ old(i) # k
    <3> DEFINE front == SubSeq(asleep, 1, k - 1)
               back == SubSeq(asleep, k + 1, Len(asleep))
    <3>1. /\ Len(asleep) \in Nat /\ k \in 1..Len(asleep)
          /\ front \in Seq(Tasks) /\ Len(front) = k - 1
          /\ \A i \in 1..(k - 1) : front[i] = asleep[i]
      BY <2>1, <2>2
    <3>2. /\ back \in Seq(Tasks) /\ Len(back) = Len(asleep) - k
          /\ \A i \in 1..(Len(asleep) - k) : back[i] = asleep[i + k]
      BY <2>1, <2>2
    <3> HIDE DEF front, back
    <3>3. asleep' = front \o back
      BY <2>1 DEF front, back
    <3>4. /\ asleep' \in Seq(Tasks) /\ Len(asleep') = Len(asleep) - 1
          /\ \A i \in 1..Len(asleep') :
               asleep'[i] = IF i <= k - 1 THEN front[i] ELSE back[i - (k - 1)]
      <4>1. /\ front \o back \in Seq(Tasks) /\ Len(front \o back) = Len(front) + Len(back)
            /\ \A i \in 1..(Len(front) + Len(back)) :
                 (front \o back)[i] = IF i <= Len(front) THEN front[i] ELSE back[i - Len(front)]
        BY <3>1, <3>2, ConcatProperties
      <4>2. Len(front) + Len(back) = Len(asleep) - 1
        BY <3>1, <3>2
      <4> QED BY <3>1, <3>3, <4>1, <4>2
    <3> QED BY <3>1, <3>2, <3>4
  <2>4. pc[t] = "asleep" /\ t \notin Users /\ t \notin Coming
    BY <2>1 DEF IInv, Sleepers, Users, Coming
  <2>5. Users' = Users /\ Coming' = Coming
    BY <1>1, <2>4 DEF Users, Coming
  <2>6. Sleepers'
    <3>1. ASSUME NEW i \in 1..Len(asleep') PROVE pc'[asleep'[i]] = "asleep"
      <4>1. asleep[old(i)] # t /\ asleep[old(i)] \in Tasks
        BY <2>1, <2>2, <2>3 DEF IInv, Sleepers
      <4>2. pc[asleep[old(i)]] = "asleep"
        BY <2>3 DEF IInv, Sleepers
      <4> QED BY <1>1, <2>3, <4>1, <4>2
    <3>2. ASSUME NEW i \in 1..Len(asleep'), NEW j \in 1..Len(asleep'), asleep'[i] = asleep'[j]
          PROVE  i = j
      <4>1. old(i) = old(j)
        <5>1. asleep[old(i)] = asleep[old(j)] /\ old(i) \in 1..Len(asleep) /\ old(j) \in 1..Len(asleep)
          BY <2>3, <3>2
        <5> HIDE DEF old
        <5> QED BY <5>1 DEF IInv, Sleepers
      <4> QED BY <4>1
    <3> QED BY <3>1, <3>2 DEF Sleepers
  <2>7. TypeOK'
    BY <1>1, <2>2, <2>3 DEF IInv, TypeOK, Places
  <2>8. UsersHold'
    BY <2>2, <2>5 DEF IInv, UsersHold
  <2>9. WakeupAccounting'
    <3>1. asleep # <<>>
      BY <2>1, <2>2
    <3> QED BY <1>1, <2>2, <2>5, <3>1 DEF IInv, WakeupAccounting
  <2> QED BY <1>2, <1>4, <1>5, <2>6, <2>7, <2>8, <2>9 DEF IInv
<1>7. CASE CancelRelease(t) \/ CancelWoken(t)
  <2>1. /\ disturbed' = TRUE /\ UNCHANGED asleep /\ pc[t] # "asleep"
        /\ healthy' \in SUBSET Conns /\ held' \in [Tasks -> Conns \cup {NoConn}]
    BY <1>7 DEF CancelRelease, CancelWoken, IInv, TypeOK
  <2>2. TypeOK'
    BY <1>1, <2>1 DEF IInv, TypeOK, Places
  <2>3. Sleepers'
    BY <1>1, <2>1 DEF IInv, TypeOK, Sleepers
  <2>4. UsersHold'
    <3>1. CASE CancelRelease(t)
      BY <1>3, <3>1 DEF CancelRelease, IInv, TypeOK, UsersHold
    <3>2. CASE CancelWoken(t)
      BY <1>3, <3>2 DEF CancelWoken, IInv, TypeOK, UsersHold, Users
    <3> QED BY <1>7, <3>1, <3>2
  <2>5. WakeupAccounting'
    BY <2>1 DEF WakeupAccounting
  <2> QED BY <1>2, <1>4, <1>5, <2>2, <2>3, <2>4, <2>5 DEF IInv
<1> QED BY <1>6, <1>7 DEF Cancel

-----------------------------------------------------------------------------
LEMMA StepInv == IInv /\ [Next]_vars => IInv'
<1> SUFFICES ASSUME IInv, [Next]_vars PROVE IInv'
  OBVIOUS
<1>1. CASE InitializeOne \/ InitializeFails
  BY <1>1, InitializeInv
<1>2. ASSUME NEW t \in Tasks, Acquire(t) PROVE IInv'
  BY <1>2, LoopInv, ConnectInv DEF Acquire
<1>3. ASSUME NEW t \in Tasks, Release(t) PROVE IInv'
  BY <1>3, ReleaseInv
<1>4. ASSUME NEW t \in Tasks, Cancel(t) PROVE IInv'
  BY <1>4, CancelInv
<1>5. CASE SendBreaks \/ CloseAllStart \/ CloseAllPop
  BY <1>5, IdleInv
<1>6. CASE UNCHANGED vars
  <2>1. UNCHANGED <<pc, held, active, asleep, disturbed>>
    BY <1>6 DEF vars
  <2>2. TypeOK' /\ StartUp'
    BY <1>6 DEF vars, IInv, TypeOK, StartUp
  <2>3. Capacity'
    BY <1>6, <2>1, SamePlaces DEF vars, IInv, Capacity
  <2> QED BY <2>1, <2>2, <2>3, SamePlaces DEF IInv
<1> QED BY <1>1, <1>2, <1>3, <1>4, <1>5, <1>6 DEF Next

(* The inductive invariant holds throughout.                                *)
THEOREM Invariance == Spec => []IInv
BY InitInv, StepInv, PTL DEF Spec

(* Every variable of the pool keeps its type; in particular _active never   *)
(* goes below zero.                                                         *)
THEOREM TypeCorrect == Spec => []TypeOK
<1>1. IInv => TypeOK
  BY DEF IInv
<1> QED BY <1>1, Invariance, PTL

(* acquire() never opens a connection beyond max_size, however acquires,    *)
(* releases, failures, cancellations and close_all() interleave.            *)
THEOREM NeverOverCapacity == Spec => []Capacity
<1>1. IInv => Capacity
  BY DEF IInv
<1> QED BY <1>1, Invariance, PTL

(* No adapter that is out is left uncounted by _active.                     *)
THEOREM EveryLoanIsCounted == Spec => []HeldAreCounted
<1>1. IInv => HeldAreCounted
  <2> SUFFICES ASSUME IInv PROVE HeldAreCounted
    OBVIOUS
  <2>1. {t \in Tasks : held[t] # NoConn} = Users
    BY DEF IInv, UsersHold, Users
  <2> QED BY <2>1 DEF IInv, UsersAreCounted, HeldAreCounted
<1> QED BY <1>1, Invariance, PTL

(* While no acquire() or release() has been cut short, no wakeup is lost: a *)
(* free slot in front of a sleeping task has a task on its way to it.       *)
THEOREM NoWakeupIsLost == Spec => []WakeupAccounting
<1>1. IInv => WakeupAccounting
  BY DEF IInv
<1> QED BY <1>1, Invariance, PTL

-----------------------------------------------------------------------------
(* What is idle after the head of the deque was taken was idle before, one  *)
(* place further on.                                                        *)
LEMMA TailOfIdle ==
  ASSUME TypeOK, idle # <<>>
  PROVE  /\ 1 \in 1..Len(idle) /\ Head(idle) = idle[1]
         /\ Len(Tail(idle)) = Len(idle) - 1
         /\ \A i \in 1..Len(Tail(idle)) :
              i + 1 \in 1..Len(idle) /\ Tail(idle)[i] = idle[i + 1]
<1>1. idle \in Seq(Conns) /\ Len(idle) \in Nat /\ Len(idle) >= 1
  BY DEF TypeOK
<1> QED BY <1>1

(* An adapter that is appended to the deque is its last.                    *)
LEMMA IdleAppended ==
  ASSUME TypeOK, NEW c \in Conns
  PROVE  /\ Len(Append(idle, c)) = Len(idle) + 1 /\ Len(idle) \in Nat
         /\ \A i \in 1..Len(idle) : Append(idle, c)[i] = idle[i]
         /\ Append(idle, c)[Len(idle) + 1] = c
BY DEF TypeOK

(* Nothing is shared by taking the head of the deque away, whoever gets it. *)
LEMMA TakenIsExclusive ==
  ASSUME IInv, ExclusiveUse, idle # <<>>, idle' = Tail(idle),
         \/ held' = held
         \/ \E t \in Tasks : held' = [held EXCEPT ![t] = Head(idle)]
  PROVE  ExclusiveUse'
<1>1. TypeOK
  BY DEF IInv
<1>2. \A i, j \in 1..Len(idle') : idle'[i] = idle'[j] => i = j
  BY <1>1, TailOfIdle DEF ExclusiveUse
<1>3. CASE held' = held
  BY <1>1, <1>2, <1>3, TailOfIdle DEF ExclusiveUse
<1>4. ASSUME NEW t \in Tasks, held' = [held EXCEPT ![t] = Head(idle)]
      PROVE  ExclusiveUse'
  <2>1. held'[t] = idle[1] /\ \A u \in Tasks \ {t} : held'[u] = held[u]
    BY <1>1, <1>4, TailOfIdle DEF TypeOK
  <2>2. \A u \in Tasks : held[u] # idle[1]
    BY <1>1, TailOfIdle DEF ExclusiveUse
  <2>3. \A u, v \in Tasks : held'[u] = held'[v] /\ held'[u] # NoConn => u = v
    BY <2>1, <2>2 DEF ExclusiveUse
  <2>4. \A i \in 1..Len(idle') : idle'[i] # idle[1]
    BY <1>1, TailOfIdle DEF ExclusiveUse
  <2>5. \A i \in 1..Len(idle') : \A u \in Tasks : held'[u] # idle'[i]
    BY <1>1, <2>1, <2>4, TailOfIdle DEF ExclusiveUse
  <2> QED BY <1>2, <2>3, <2>5 DEF ExclusiveUse
<1> QED BY <1>3, <1>4

(* A new connection is nobody's and not idle.                               *)
LEMMA OpenedIsExclusive ==
  ASSUME IInv, ExclusiveUse, NEW c \in Conns \ InUse,
         \/ idle' = Append(idle, c) /\ held' = held
         \/ idle' = idle /\ \E t \in Tasks : held' = [held EXCEPT ![t] = c]
  PROVE  ExclusiveUse'
<1>1. TypeOK
  BY DEF IInv
<1>2. /\ \A t \in Tasks : held[t] # c
      /\ \A i \in 1..Len(idle) : idle[i] # c
  BY DEF InUse
<1>3. CASE idle' = Append(idle, c) /\ held' = held
  <2>1. Len(idle') = Len(idle) + 1 /\ Len(idle) \in Nat
        /\ \A i \in 1..Len(idle) : idle'[i] = idle[i]
        /\ idle'[Len(idle) + 1] = c
    BY <1>1, <1>3, IdleAppended
  <2>2. \A i \in 1..Len(idle') : i \in 1..Len(idle) \/ i = Len(idle) + 1
    BY <2>1
  <2>3. \A i \in 1..Len(idle') : \A t \in Tasks : held'[t] # idle'[i]
    BY <1>2, <1>3, <2>1, <2>2 DEF ExclusiveUse
  <2>4. \A i, j \in 1..Len(idle') : idle'[i] = idle'[j] => i = j
    BY <1>2, <2>1, <2>2 DEF ExclusiveUse
  <2> QED BY <1>3, <2>3, <2>4 DEF ExclusiveUse
<1>4. ASSUME NEW t \in Tasks, idle' = idle, held' = [held EXCEPT ![t] = c]
      PROVE  ExclusiveUse'
  <2>1. held'[t] = c /\ \A u \in Tasks \ {t} : held'[u] = held[u]
    BY <1>1, <1>4 DEF TypeOK
  <2> QED BY <1>2, <1>4, <2>1 DEF ExclusiveUse
<1> QED BY <1>3, <1>4

(* What a task gives back is its own: it may become idle, or be lost.       *)
LEMMA GivenBackIsExclusive ==
  ASSUME IInv, ExclusiveUse, NEW t \in Tasks,
         held' = [held EXCEPT ![t] = NoConn],
         \/ idle' = idle
         \/ idle' = Append(idle, held[t]) /\ held[t] # NoConn
  PROVE  ExclusiveUse'
<1>1. TypeOK
  BY DEF IInv
<1>2. held'[t] = NoConn /\ \A u \in Tasks \ {t} : held'[u] = held[u]
  BY <1>1 DEF TypeOK
<1>3. \A i \in 1..Len(idle) : idle[i] # NoConn
  BY <1>1, ConnsAssumption, ElementOfSeq DEF TypeOK
<1>4. \A u, v \in Tasks : held'[u] = held'[v] /\ held'[u] # NoConn => u = v
  BY <1>2 DEF ExclusiveUse
<1>5. CASE idle' = idle
  BY <1>2, <1>3, <1>4, <1>5 DEF ExclusiveUse
<1>6. CASE idle' = Append(idle, held[t]) /\ held[t] # NoConn
  <2>1. held[t] \in Conns
    BY <1>1, <1>6 DEF TypeOK
  <2>2. Len(idle') = Len(idle) + 1 /\ Len(idle) \in Nat
        /\ \A i \in 1..Len(idle) : idle'[i] = idle[i]
        /\ idle'[Len(idle) + 1] = held[t]
    BY <1>1, <1>6, <2>1, IdleAppended
  <2>3. \A i \in 1..Len(idle') : i \in 1..Len(idle) \/ i = Len(idle) + 1
    BY <2>2
  <2>4. \A u \in Tasks : held'[u] # held[t]
    BY <1>2, <1>6 DEF ExclusiveUse
  <2>5. \A i \in 1..Len(idle') : \A u \in Tasks : held'[u] # idle'[i]
    BY <1>2, <1>3, <2>2, <2>3, <2>4 DEF ExclusiveUse
  <2>6. \A i, j \in 1..Len(idle') : idle'[i] = idle'[j] => i = j
    BY <2>2, <2>3 DEF ExclusiveUse
  <2> QED BY <1>4, <2>5, <2>6 DEF ExclusiveUse
<1> QED BY <1>5, <1>6

LEMMA StepKeepsExclusive == IInv /\ ExclusiveUse /\ [Next]_vars => ExclusiveUse'
<1> SUFFICES ASSUME IInv, ExclusiveUse, [Next]_vars PROVE ExclusiveUse'
  OBVIOUS
<1>1. CASE UNCHANGED <<held, idle>>
  BY <1>1 DEF ExclusiveUse
<1>2. CASE InitializeOne
  BY <1>2, OpenedIsExclusive DEF InitializeOne
<1>3. CASE InitializeFails \/ SendBreaks \/ CloseAllStart \/ UNCHANGED vars
  BY <1>1, <1>3 DEF InitializeFails, SendBreaks, CloseAllStart, vars
<1>4. CASE CloseAllPop
  <2>1. CASE idle = <<>>
    BY <1>1, <1>4, <2>1 DEF CloseAllPop
  <2>2. CASE idle # <<>>
    BY <1>4, <2>2, TakenIsExclusive DEF CloseAllPop
  <2> QED BY <2>1, <2>2
<1>5. ASSUME NEW t \in Tasks, Acquire(t) PROVE ExclusiveUse'
  <2>1. CASE Wait(t) \/ OpenNew(t) \/ ConnectFails(t)
    BY <1>1, <2>1 DEF Wait, OpenNew, ConnectFails
  <2>2. CASE TakeIdle(t)
    BY <2>2, TakenIsExclusive DEF TakeIdle
  <2>3. CASE ReplaceUnhealthy(t)
    BY <2>3, TakenIsExclusive DEF ReplaceUnhealthy
  <2>4. CASE Connected(t)
    BY <2>4, OpenedIsExclusive DEF Connected
  <2> QED BY <1>5, <2>1, <2>2, <2>3, <2>4 DEF Acquire
<1>6. ASSUME NEW t \in Tasks, Release(t) PROVE ExclusiveUse'
  <2>1. CASE ReleaseKeep(t)
    <3>1. held[t] # NoConn
      BY <2>1 DEF ReleaseKeep, AtRelease, IInv, UsersHold, Users
    <3> QED BY <2>1, <3>1, GivenBackIsExclusive DEF ReleaseKeep
  <2>2. CASE ReleaseDiscard(t)
    BY <1>1, <2>2 DEF ReleaseDiscard
  <2>3. CASE Discarded(t)
    BY <2>3, GivenBackIsExclusive DEF Discarded
  <2> QED BY <1>6, <2>1, <2>2, <2>3 DEF Release
<1>7. ASSUME NEW t \in Tasks, Cancel(t) PROVE ExclusiveUse'
  <2>1. CASE CancelRelease(t)
    BY <2>1, GivenBackIsExclusive DEF CancelRelease
  <2>2. CASE CancelAsleep(t) \/ CancelWoken(t)
    BY <1>1, <2>2 DEF CancelAsleep, CancelWoken
  <2> QED BY <1>7, <2>1, <2>2 DEF Cancel
<1> QED BY <1>2, <1>3, <1>4, <1>5, <1>6, <1>7 DEF Next

(* No adapter is ever lent to two tasks, or lent while it is idle, however  *)
(* releases, failed connects, cancellations and close_all() interleave.     *)
THEOREM AdaptersAreLentOnce == Spec => []ExclusiveUse
<1>1. Init => ExclusiveUse
  BY DEF Init, ExclusiveUse
<1> QED BY <1>1, StepKeepsExclusive, Invariance, PTL DEF Spec

=============================================================================
