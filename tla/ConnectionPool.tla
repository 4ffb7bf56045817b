--------------------------- MODULE ConnectionPool ---------------------------
(***************************************************************************)
(* QDAPConnectionPool (transport/tcp/pool.py): a pool of TCP adapters      *)
(* shared by the tasks of one event loop.  An action runs from one await   *)
(* to the next.  The lock of the condition is held across two awaits only, *)
(* opening a connection in acquire() and closing one in release(), so it   *)
(* is not a variable: it is free iff no task is at one of those.  The      *)
(* semantics of asyncio.Condition are those of Python 3.11, the version    *)
(* pyproject.toml asks for: notify() marks the oldest sleeper, which must  *)
(* take the lock again and re-evaluate the loop's condition; a sleeper     *)
(* that is cancelled after it was marked does not pass the mark on.        *)
(***************************************************************************)
EXTENDS Integers, Sequences, FiniteSets

CONSTANTS
  Tasks,           \* the tasks that use the pool
  Conns,           \* identities for open adapters, reused once unreachable
  NoConn,          \* "no adapter"
  MinSize,         \* min_size
  MaxSize,         \* max_size
  ConnectMayFail,  \* may adapter.connect() raise (the server is down)?
  MayCancel        \* may a caller's timeout cancel it inside the pool?

ASSUME SizesAssumption ==
  /\ MinSize \in Nat
  /\ MaxSize \in Nat
  /\ MinSize <= MaxSize
ASSUME TasksAssumption == IsFiniteSet(Tasks)
ASSUME ConnsAssumption == NoConn \notin Conns
ASSUME FlagsAssumption == ConnectMayFail \in BOOLEAN /\ MayCancel \in BOOLEAN

VARIABLES
  pc,        \* where each task is, see Places
  held,      \* the adapter each task was given by acquire()
  idle,      \* self._pool, a deque
  active,    \* self._active
  healthy,   \* the adapters whose is_healthy() is TRUE
  asleep,    \* the tasks in self._not_empty.wait() not yet notified, in order
  toOpen,    \* connections initialize() has still to open
  closing,   \* is close_all() running?
  disturbed  \* history: has an acquire() ended without a connection, or a
             \* release() without its notify()?

vars == <<pc, held, idle, active, healthy, asleep, toOpen, closing, disturbed>>

(***************************************************************************)
(* out         not using the pool                                          *)
(* asleep      in wait(), not notified                                     *)
(* woken       notified, has to take the lock again                        *)
(* connecting  in _create_connection() under the lock                      *)
(* using       acquire() has returned                                      *)
(* discarding  in conn.close() of release(), under the lock                *)
(***************************************************************************)
Places == {"out", "asleep", "woken", "connecting", "using", "discarding"}

InUse == {held[t] : t \in Tasks} \cup {idle[i] : i \in 1..Len(idle)}
LockFree == \A t \in Tasks : pc[t] \notin {"connecting", "discarding"}

Init ==
  /\ pc = [t \in Tasks |-> "out"]
  /\ held = [t \in Tasks |-> NoConn]
  /\ idle = <<>>
  /\ active = 0
  /\ healthy = {}
  /\ asleep = <<>>
  /\ toOpen = MinSize
  /\ closing = FALSE
  /\ disturbed = FALSE

-----------------------------------------------------------------------------
(* initialize(): opens min_size connections before the pool is used.  A     *)
(* connect that raises ends it and leaves what was opened in the pool.      *)
InitializeOne ==
  /\ toOpen > 0
  /\ \E c \in Conns \ InUse :
       /\ idle' = Append(idle, c)
       /\ healthy' = healthy \cup {c}
  /\ toOpen' = toOpen - 1
  /\ UNCHANGED <<pc, held, active, asleep, closing, disturbed>>

InitializeFails ==
  /\ ConnectMayFail
  /\ toOpen > 0
  /\ toOpen' = 0
  /\ UNCHANGED <<pc, held, idle, active, healthy, asleep, closing, disturbed>>

-----------------------------------------------------------------------------
(* acquire(), from the test of its loop to the next await.  A task comes    *)
(* here when it enters and again each time it is woken.                     *)
AtLoop(t) ==
  /\ pc[t] \in {"out", "woken"}
  /\ toOpen = 0
  /\ LockFree

FullOffByOne == idle = <<>> /\ active > MaxSize     \* mutant of Full
Full == idle = <<>> /\ active >= MaxSize

Wait(t) ==
  /\ AtLoop(t)
  /\ Full
  /\ pc' = [pc EXCEPT ![t] = "asleep"]
  /\ asleep' = Append(asleep, t)
  /\ UNCHANGED <<held, idle, active, healthy, toOpen, closing, disturbed>>

(* mutant of TakeIdle: the adapter is handed out without being counted      *)
TakeIdleUncounted(t) ==
  /\ AtLoop(t)
  /\ idle # <<>>
  /\ Head(idle) \in healthy
  /\ held' = [held EXCEPT ![t] = Head(idle)]
  /\ idle' = Tail(idle)
  /\ pc' = [pc EXCEPT ![t] = "using"]
  /\ UNCHANGED <<active, healthy, asleep, toOpen, closing, disturbed>>

TakeIdle(t) ==
  /\ AtLoop(t)
  /\ idle # <<>>
  /\ Head(idle) \in healthy
  /\ held' = [held EXCEPT ![t] = Head(idle)]
  /\ idle' = Tail(idle)
  /\ active' = active + 1
  /\ pc' = [pc EXCEPT ![t] = "using"]
  /\ UNCHANGED <<healthy, asleep, toOpen, closing, disturbed>>

(* An unhealthy adapter is dropped from the deque without being closed.     *)
ReplaceUnhealthy(t) ==
  /\ AtLoop(t)
  /\ idle # <<>>
  /\ Head(idle) \notin healthy
  /\ idle' = Tail(idle)
  /\ pc' = [pc EXCEPT ![t] = "connecting"]
  /\ UNCHANGED <<held, active, healthy, asleep, toOpen, closing, disturbed>>

OpenNew(t) ==
  /\ AtLoop(t)
  /\ idle = <<>>
  /\ ~Full
  /\ pc' = [pc EXCEPT ![t] = "connecting"]
  /\ UNCHANGED <<held, idle, active, healthy, asleep, toOpen, closing, disturbed>>

Connected(t) ==
  /\ pc[t] = "connecting"
  /\ \E c \in Conns \ InUse :
       /\ held' = [held EXCEPT ![t] = c]
       /\ healthy' = healthy \cup {c}
  /\ active' = active + 1
  /\ pc' = [pc EXCEPT ![t] = "using"]
  /\ UNCHANGED <<idle, asleep, toOpen, closing, disturbed>>

(* connect() raises, or the caller is cancelled in it: the exception leaves *)
(* the `async with`, which gives up the lock and notifies nobody.           *)
ConnectFails(t) ==
  /\ ConnectMayFail \/ MayCancel
  /\ pc[t] = "connecting"
  /\ pc' = [pc EXCEPT ![t] = "out"]
  /\ disturbed' = TRUE
  /\ UNCHANGED <<held, idle, active, healthy, asleep, toOpen, closing>>

-----------------------------------------------------------------------------
ForgetNotify(p) == pc' = p /\ UNCHANGED asleep      \* mutant of Notify

(* release().  notify() marks the oldest sleeper, if there is one.          *)
Notify(p) ==
  IF asleep = <<>>
  THEN pc' = p /\ UNCHANGED asleep
  ELSE pc' = [p EXCEPT ![Head(asleep)] = "woken"] /\ asleep' = Tail(asleep)

AtRelease(t) == pc[t] = "using" /\ LockFree
Keep(t) == held[t] \in healthy /\ Len(idle) < MinSize

(* mutant of ReleaseKeep: the task goes on using what it gave back          *)
ReleaseStillHeld(t) ==
  /\ AtRelease(t)
  /\ Keep(t)
  /\ idle' = Append(idle, held[t])
  /\ active' = active - 1
  /\ Notify([pc EXCEPT ![t] = "out"])
  /\ UNCHANGED <<held, healthy, toOpen, closing, disturbed>>

ReleaseKeep(t) ==
  /\ AtRelease(t)
  /\ Keep(t)
  /\ idle' = Append(idle, held[t])
  /\ held' = [held EXCEPT ![t] = NoConn]
  /\ active' = active - 1
  /\ Notify([pc EXCEPT ![t] = "out"])
  /\ UNCHANGED <<healthy, toOpen, closing, disturbed>>

ReleaseDiscard(t) ==
  /\ AtRelease(t)
  /\ ~Keep(t)
  /\ pc' = [pc EXCEPT ![t] = "discarding"]
  /\ UNCHANGED <<held, idle, active, healthy, asleep, toOpen, closing, disturbed>>

(* close() swallows every Exception, so this always comes after it ...      *)
Discarded(t) ==
  /\ pc[t] = "discarding"
  /\ healthy' = healthy \ {held[t]}
  /\ held' = [held EXCEPT ![t] = NoConn]
  /\ active' = active - 1
  /\ Notify([pc EXCEPT ![t] = "out"])
  /\ UNCHANGED <<idle, toOpen, closing, disturbed>>

-----------------------------------------------------------------------------
(* ... unless the caller is cancelled in it, or before it got the lock: the *)
(* count and the notify() are skipped and the adapter is lost.              *)
CancelRelease(t) ==
  /\ MayCancel
  /\ pc[t] \in {"using", "discarding"}
  /\ pc' = [pc EXCEPT ![t] = "out"]
  /\ held' = [held EXCEPT ![t] = NoConn]
  /\ healthy' = healthy \ {held[t]}
  /\ disturbed' = TRUE
  /\ UNCHANGED <<idle, active, asleep, toOpen, closing>>

(* A sleeper that is cancelled takes the lock back before it leaves.        *)
CancelAsleep(t) ==
  /\ MayCancel
  /\ LockFree
  /\ \E i \in 1..Len(asleep) :
       /\ asleep[i] = t
       /\ asleep' = SubSeq(asleep, 1, i - 1) \o SubSeq(asleep, i + 1, Len(asleep))
  /\ pc' = [pc EXCEPT ![t] = "out"]
  /\ UNCHANGED <<held, idle, active, healthy, toOpen, closing, disturbed>>

CancelWoken(t) ==
  /\ MayCancel
  /\ LockFree
  /\ pc[t] = "woken"
  /\ pc' = [pc EXCEPT ![t] = "out"]
  /\ disturbed' = TRUE
  /\ UNCHANGED <<held, idle, active, healthy, asleep, toOpen, closing>>

(* A send on an adapter fails and marks it unhealthy (adapter.py:176-181):  *)
(* the holder's, or one that was still under way when it was released.      *)
SendBreaks ==
  /\ \E c \in healthy : healthy' = healthy \ {c}
  /\ UNCHANGED <<pc, held, idle, active, asleep, toOpen, closing, disturbed>>

(* close_all() takes no lock: it pops one adapter, awaits its close(), and  *)
(* so on until it finds the deque empty.                                    *)
CloseAllStart ==
  /\ toOpen = 0
  /\ ~closing
  /\ idle # <<>>
  /\ closing' = TRUE
  /\ UNCHANGED <<pc, held, idle, active, healthy, asleep, toOpen, disturbed>>

CloseAllPop ==
  /\ closing
  /\ IF idle = <<>>
     THEN closing' = FALSE /\ UNCHANGED <<idle, healthy>>
     ELSE /\ idle' = Tail(idle)
          /\ healthy' = healthy \ {Head(idle)}
          /\ UNCHANGED closing
  /\ UNCHANGED <<pc, held, active, asleep, toOpen, disturbed>>

Acquire(t) ==
  \/ Wait(t) \/ TakeIdle(t) \/ ReplaceUnhealthy(t) \/ OpenNew(t)
  \/ Connected(t) \/ ConnectFails(t)
Release(t) == ReleaseKeep(t) \/ ReleaseDiscard(t) \/ Discarded(t)
Cancel(t) == CancelRelease(t) \/ CancelAsleep(t) \/ CancelWoken(t)

Next ==
  \/ InitializeOne \/ InitializeFails
  \/ \E t \in Tasks : Acquire(t) \/ Release(t) \/ Cancel(t)
  \/ SendBreaks \/ CloseAllStart \/ CloseAllPop

Spec == Init /\ [][Next]_vars

-----------------------------------------------------------------------------
TypeOK ==
  /\ pc \in [Tasks -> Places]
  /\ held \in [Tasks -> Conns \cup {NoConn}]
  /\ idle \in Seq(Conns)
  /\ active \in Nat
  /\ healthy \in SUBSET Conns
  /\ asleep \in Seq(Tasks)
  /\ toOpen \in 0..MinSize
  /\ closing \in BOOLEAN
  /\ disturbed \in BOOLEAN

(* The pool never owns more than max_size connections, counting those that  *)
(* are idle, those that are out and the one being opened (pool.py:24).      *)
Opening == {t \in Tasks : pc[t] = "connecting"}
Capacity == Len(idle) + active + Cardinality(Opening) <= MaxSize

(* No adapter is given to two tasks, and none is idle while a task uses it, *)
(* whatever releases, failures and close_all() interleave.                  *)
ExclusiveUse ==
  /\ \A t, u \in Tasks : held[t] = held[u] /\ held[t] # NoConn => t = u
  /\ \A i \in 1..Len(idle) : \A t \in Tasks : held[t] # idle[i]
  /\ \A i, j \in 1..Len(idle) : idle[i] = idle[j] => i = j

(* Every connection a task has is counted: _active never runs below the     *)
(* number of adapters handed out, so a slot is never given twice.           *)
HeldAreCounted == Cardinality({t \in Tasks : held[t] # NoConn}) <= active

(* While nobody has failed or been cancelled, every free slot in front of a *)
(* sleeper has a task on its way to it: notify() wakes one sleeper a slot.  *)
Coming == {t \in Tasks : pc[t] \in {"woken", "connecting"}}
WakeupAccounting ==
  ~disturbed /\ asleep # <<>> => MaxSize - active <= Cardinality(Coming)

(* pool.py:53, "take a connection; if there is none open one, if the pool   *)
(* is full wait": when no task is on its way, a task is asleep only because *)
(* max_size connections are in use.                                         *)
WaitsOnlyWhileFull ==
  asleep # <<>> /\ Coming = {} => active >= MaxSize

=============================================================================
