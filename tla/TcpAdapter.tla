----------------------------- MODULE TcpAdapter -----------------------------
(***************************************************************************)
(* The sending side of QDAPTCPAdapter (transport/tcp/adapter.py) with its  *)
(* BackpressureController (backpressure.py): tasks that send frames over   *)
(* one connection, which can be closed here or reset by the peer.  An      *)
(* action runs one task from an await to the next.                         *)
(*                                                                         *)
(* asyncio is modelled as far as the adapter relies on it.                 *)
(* Semaphore (Python 3.11): release() gives its unit to the oldest waiter  *)
(* at once.  The waiter resumes later, and nobody gets past it meanwhile:  *)
(* a task that finds a unit free has to wait all the same, and the waiter  *)
(* wakes it.  One that is cancelled before it resumes puts its unit back.  *)
(* StreamWriter: drain() goes on without an await unless the buffer is too *)
(* full (it then waits for resume_writing() or connection_lost()) or the   *)
(* transport is closing (it then yields once and looks whether the         *)
(* connection is lost).  What is written after close() is dropped if there *)
(* was nothing left to flush.                                              *)
(***************************************************************************)
EXTENDS Integers, Sequences, FiniteSets

CONSTANTS
  Senders,    \* tasks that call send_frame()
  High,       \* high_watermark
  BufferMax,  \* frames the transport buffers before it pauses drain()
  MayTimeOut, \* may a caller's timeout cancel a send?
  MayReset,   \* may the peer reset the connection?
  MayRaise    \* may a frame be one that cannot be serialized?

ASSUME HighAssumption == High \in Nat \ {0}
ASSUME SendersAssumption == IsFiniteSet(Senders)
ASSUME BufferAssumption == BufferMax \in Nat \ {0}
ASSUME ChoicesAssumption ==
  MayTimeOut \in BOOLEAN /\ MayReset \in BOOLEAN /\ MayRaise \in BOOLEAN

VARIABLES
  at,        \* where each task is in send_frame(), see Stages
  value,     \* the semaphore's value
  waiters,   \* tasks in acquire() that have no unit yet, oldest first
  load,      \* BackpressureController._current
  link,      \* the transport: open, closing, closed, reset
  buffer,    \* frames in the transport's buffer
  taken,     \* was the last frame of a task taken by the transport?
  intact,    \* _healthy
  leaked     \* history: sends that ended without bp.release()

adapterVars == <<at, value, waiters, load, link, buffer, taken, intact, leaked>>

(***************************************************************************)
(* out       not in send_frame(), or it has raised                         *)
(* waiting   in bp.acquire(), without a unit                               *)
(* granted   in bp.acquire(), given a unit but not resumed                 *)
(* draining  in drain(), waiting for the buffer to empty                   *)
(* drained   ... it has, or will raise: not resumed yet                    *)
(* failed                                                                  *)
(* yielding  in drain(), the transport was closing                         *)
(* sent      send_frame() has returned                                     *)
(***************************************************************************)
Stages == {"out", "waiting", "granted", "draining", "drained", "failed", "yielding", "sent"}
InDrain == {t \in Senders : at[t] \in {"draining", "drained", "failed", "yielding"}}
Lost == link \in {"closed", "reset"}

AdapterInit ==
  /\ at = [t \in Senders |-> "out"]
  /\ value = High
  /\ waiters = <<>>
  /\ load = 0
  /\ link = "open"
  /\ buffer = 0
  /\ taken = [t \in Senders |-> FALSE]
  /\ intact = TRUE
  /\ leaked = 0

-----------------------------------------------------------------------------
(* The semaphore as a record of its value, its waiters and at.              *)
Semaphore(p) == [value |-> value, waiters |-> waiters, at |-> p]
Become(s) == value' = s.value /\ waiters' = s.waiters /\ at' = s.at

WakeNobody(s) == s                                  \* mutant of WakeNext

(* _wake_up_next(): the oldest waiter is given a unit, if there is one.     *)
WakeNext(s) ==
  IF s.value = 0 \/ s.waiters = <<>> THEN s
  ELSE [value |-> s.value - 1,
        waiters |-> Tail(s.waiters),
        at |-> [s.at EXCEPT ![Head(s.waiters)] = "granted"]]

GiveBackTwice(s) == [s EXCEPT !.value = @ + 2]      \* mutant of GiveBack
GiveBack(s) == WakeNext([s EXCEPT !.value = @ + 1])

Granted == {t \in Senders : at[t] = "granted"}
Locked == value = 0 \/ waiters # <<>> \/ Granted # {}

(* bp.release(), which never lets _current run below zero.                  *)
Released(n) == IF n > 0 THEN n - 1 ELSE 0

(* What write() makes of the buffer, whatever has become of the connection  *)
(* since send_frame() looked at it.                                         *)
Takes == link = "open" \/ (link = "closing" /\ buffer > 0)
WriteFrame(t) ==
  /\ taken' = [taken EXCEPT ![t] = Takes]
  /\ buffer' = IF Takes THEN buffer + 1 ELSE buffer
DrainsAtOnce == link = "open" /\ buffer < BufferMax
DrainPlace == IF link = "open" THEN "draining" ELSE "yielding"

(* send_frame() up to its first await: the connection is looked at before   *)
(* the slot is asked for.                                                   *)
Send(t) ==
  /\ at[t] \in {"out", "sent"}
  /\ link = "open"
  /\ IF Locked
     THEN /\ waiters' = Append(waiters, t)
          /\ at' = [at EXCEPT ![t] = "waiting"]
          /\ UNCHANGED <<value, load, buffer, taken>>
     ELSE /\ WriteFrame(t)
          /\ UNCHANGED waiters
          /\ IF DrainsAtOnce
             THEN at' = [at EXCEPT ![t] = "sent"] /\ UNCHANGED <<value, load>>
             ELSE /\ at' = [at EXCEPT ![t] = DrainPlace]
                  /\ value' = value - 1
                  /\ load' = load + 1
  /\ UNCHANGED <<link, intact, leaked>>

(* A task that was given a unit wakes the next waiter if a unit is free and *)
(* goes on with send_frame().                                               *)
Resume(t) ==
  /\ at[t] = "granted"
  /\ WriteFrame(t)
  /\ IF DrainsAtOnce
     THEN /\ Become(GiveBack(WakeNext(Semaphore([at EXCEPT ![t] = "sent"]))))
          /\ UNCHANGED load
     ELSE /\ Become(WakeNext(Semaphore([at EXCEPT ![t] = DrainPlace])))
          /\ load' = load + 1
  /\ UNCHANGED <<link, intact, leaked>>

(* drain() yielded because the transport was closing, and looks again.      *)
(* connection_lost() has run by now if close() had nothing to flush.        *)
Yielded(t) ==
  /\ at[t] = "yielding"
  /\ ~(link = "closing" /\ buffer = 0)
  /\ at' = [at EXCEPT ![t] = IF Lost THEN "failed"
                             ELSE IF buffer > BufferMax THEN "draining" ELSE "drained"]
  /\ UNCHANGED <<value, waiters, load, link, buffer, taken, intact, leaked>>

Finish(t) ==
  /\ at[t] = "drained"
  /\ Become(GiveBack(Semaphore([at EXCEPT ![t] = "sent"])))
  /\ load' = Released(load)
  /\ UNCHANGED <<link, buffer, taken, intact, leaked>>

(* mutants of Fail: the slot is kept; the error is not raised               *)
FailKeepsSlot(t) ==
  /\ at[t] = "failed"
  /\ at' = [at EXCEPT ![t] = "out"]
  /\ intact' = FALSE
  /\ UNCHANGED <<value, waiters, load, link, buffer, taken, leaked>>
FailSilently(t) ==
  /\ at[t] = "failed"
  /\ intact' = FALSE
  /\ Become(GiveBack(Semaphore([at EXCEPT ![t] = "sent"])))
  /\ load' = Released(load)
  /\ UNCHANGED <<link, buffer, taken, leaked>>

(* drain() raises ConnectionResetError or BrokenPipeError.                  *)
Fail(t) ==
  /\ at[t] = "failed"
  /\ intact' = FALSE
  /\ Become(GiveBack(Semaphore([at EXCEPT ![t] = "out"])))
  /\ load' = Released(load)
  /\ UNCHANGED <<link, buffer, taken, leaked>>

(* The slot was acquired, and serialize() or struct.pack() raises: nothing  *)
(* was written, and nothing gives the slot back.                            *)
SerializeFails(t) ==
  /\ MayRaise
  /\ LET gone == Semaphore([at EXCEPT ![t] = "out"])
     IN  \/ /\ at[t] \in {"out", "sent"}
           /\ link = "open" /\ ~Locked
           /\ Become([gone EXCEPT !.value = @ - 1])
        \/ /\ at[t] = "granted"
           /\ Become(WakeNext(gone))
  /\ load' = load + 1
  /\ leaked' = leaked + 1
  /\ UNCHANGED <<link, buffer, taken, intact>>

(* drain() raises another OSError, as the keepalive's timeout is, or its    *)
(* caller is cancelled: nothing gives the slot back.                        *)
Leak(t) ==
  /\ \/ MayTimeOut /\ t \in InDrain
     \/ MayReset /\ at[t] = "failed" /\ link = "reset"
  /\ at' = [at EXCEPT ![t] = "out"]
  /\ leaked' = leaked + 1
  /\ UNCHANGED <<value, waiters, load, link, buffer, taken, intact>>

CancelWaiting(t) ==
  /\ MayTimeOut
  /\ \E i \in 1..Len(waiters) :
       /\ waiters[i] = t
       /\ waiters' = SubSeq(waiters, 1, i - 1) \o SubSeq(waiters, i + 1, Len(waiters))
  /\ at' = [at EXCEPT ![t] = "out"]
  /\ UNCHANGED <<value, load, link, buffer, taken, intact, leaked>>

CancelGranted(t) ==
  /\ MayTimeOut
  /\ at[t] = "granted"
  /\ Become(GiveBack(Semaphore([at EXCEPT ![t] = "out"])))
  /\ UNCHANGED <<load, link, buffer, taken, intact, leaked>>

-----------------------------------------------------------------------------
(* The transport and the peer.  Drains that wait are woken when the buffer  *)
(* is low enough again, or with the error when the connection is reset.     *)
Wake(place) == at' = [t \in Senders |-> IF at[t] = "draining" THEN place ELSE at[t]]

Flush ==
  /\ buffer > 0
  /\ buffer' = buffer - 1
  /\ IF buffer' <= BufferMax THEN Wake("drained") ELSE UNCHANGED at
  /\ IF link = "closing" /\ buffer' = 0
     THEN link' = "closed" /\ intact' = FALSE
     ELSE UNCHANGED <<link, intact>>
  /\ UNCHANGED <<value, waiters, load, taken, leaked>>

(* close() goes on to wait_closed() and then clears _healthy.               *)
Close ==
  /\ link = "open"
  /\ link' = "closing"
  /\ UNCHANGED <<at, value, waiters, load, buffer, taken, intact, leaked>>

Closed ==
  /\ link = "closing"
  /\ buffer = 0
  /\ link' = "closed"
  /\ intact' = FALSE
  /\ UNCHANGED <<at, value, waiters, load, buffer, taken, leaked>>

Reset ==
  /\ MayReset
  /\ link \in {"open", "closing"}
  /\ link' = "reset"
  /\ buffer' = 0
  /\ intact' = (intact /\ link = "open")
  /\ Wake("failed")
  /\ UNCHANGED <<value, waiters, load, taken, leaked>>

Sender(t) ==
  \/ Send(t) \/ Resume(t) \/ Yielded(t) \/ Finish(t) \/ Fail(t)
  \/ SerializeFails(t) \/ Leak(t) \/ CancelWaiting(t) \/ CancelGranted(t)
AdapterNext == (\E t \in Senders : Sender(t)) \/ Flush \/ Close \/ Closed \/ Reset

(* The event loop runs every callback that is ready, and the peer reads.    *)
AdapterFairness ==
  /\ WF_adapterVars(Flush) /\ WF_adapterVars(Closed)
  /\ \A t \in Senders : WF_adapterVars(Resume(t) \/ Yielded(t) \/ Finish(t) \/ Fail(t))
AdapterSpec == AdapterInit /\ [][AdapterNext]_adapterVars /\ AdapterFairness

-----------------------------------------------------------------------------
AdapterTypeOK ==
  /\ at \in [Senders -> Stages]
  /\ value \in 0..High
  /\ waiters \in Seq(Senders)
  /\ load \in Nat
  /\ link \in {"open", "closing", "closed", "reset"}
  /\ buffer \in Nat
  /\ taken \in [Senders -> BOOLEAN]
  /\ intact \in BOOLEAN
  /\ leaked \in Nat

(* No slot is given twice and none disappears except where a send ends      *)
(* without release(), through every order of grants, failures and           *)
(* cancellations.  And _current is exactly the number of frames in flight,  *)
(* counting those that leaked: it is never clamped at zero nor behind the   *)
(* semaphore, so is_overloaded() tells the truth (backpressure.py:46).      *)
SlotsConserved ==
  /\ value + Cardinality(Granted \cup InDrain) + leaked = High
  /\ load = Cardinality(InDrain) + leaked

(* Nobody waits in front of a free slot unless somebody is about to wake    *)
(* it: the chain of wake-ups never breaks, whoever is cancelled.            *)
SleepersOnlyWhenFull == waiters # <<>> /\ value > 0 => Granted # {}

(* A send that returns had its frame taken by the transport, even when the  *)
(* connection was closed while it waited for its slot.                      *)
ReturnsOnlyIfTaken == \A t \in Senders : at[t] = "sent" => taken[t]

(* backpressure.py:20, as the receiver consumes the sender is unblocked:    *)
(* a task that waits for a slot gets one, unless all of them have leaked.   *)
WaitingEnds ==
  \A t \in Senders : at[t] = "waiting" ~> (at[t] # "waiting" \/ leaked = High)

=============================================================================
