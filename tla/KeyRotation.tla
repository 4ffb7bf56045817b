---------------------------- MODULE KeyRotation ----------------------------
(***************************************************************************)
(* KeyRotationManager (security/key_rotation.py) of one end, used by tasks *)
(* that each ask for a rotation at every message they send.  A rotation    *)
(* awaits the writer and then the peer's key; what it reads of the manager *)
(* after that may have changed.  A key is the number of the rotation that  *)
(* made it, the first one is 0.                                            *)
(***************************************************************************)
EXTENDS Naturals, Sequences

CONSTANTS
  Tasks,
  NoRotation,
  Interval,   \* msg_interval
  Window,     \* KEY_OVERLAP_WINDOW
  MaxCount,   \* bound: messages
  MaxKeys     \* bound: rotations begun

VARIABLES
  step,        \* of each task: idle, draining or asking
  making,      \* the key a task is making
  count,       \* _msg_count
  due,         \* the time interval is over since _last_rotation_ts
  rotationId,  \* _rotation_id
  pending,     \* _pending_rotation
  current,     \* _current_keys
  told,        \* the id each key was announced to the peer under
  overlapped   \* two rotations were under way at once

vars == <<step, making, count, due, rotationId, pending, current, told, overlapped>>

Init ==
  /\ step = [t \in Tasks |-> "idle"]
  /\ making = [t \in Tasks |-> 0]
  /\ count = 0
  /\ due = FALSE
  /\ rotationId = 0
  /\ pending = NoRotation
  /\ current = 0
  /\ told = << >>
  /\ overlapped = FALSE

IdOf(key) == IF key = 0 THEN 0 ELSE told[key]

IncrementMsgCount ==
  /\ count < MaxCount
  /\ count' = count + 1
  /\ UNCHANGED <<step, making, due, rotationId, pending, current, told, overlapped>>

TimeIsUp ==
  /\ ~due
  /\ due' = TRUE
  /\ UNCHANGED <<step, making, count, rotationId, pending, current, told, overlapped>>

ShouldRotate ==
  /\ due \/ (count > 0 /\ count % Interval = 0)
  /\ pending = NoRotation

(* maybe_rotate up to the first await: the new id is announced.             *)
InitiateSameId(t) ==                                      \* mutant of Initiate
  /\ step[t] = "idle" /\ ShouldRotate /\ Len(told) < MaxKeys
  /\ told' = Append(told, rotationId)
  /\ making' = [making EXCEPT ![t] = Len(told) + 1]
  /\ step' = [step EXCEPT ![t] = "draining"]
  /\ overlapped' = (overlapped \/ \E u \in Tasks : step[u] # "idle")
  /\ UNCHANGED <<rotationId, count, due, pending, current>>

Initiate(t) ==
  /\ step[t] = "idle" /\ ShouldRotate /\ Len(told) < MaxKeys
  /\ rotationId' = rotationId + 1
  /\ told' = Append(told, rotationId + 1)
  /\ making' = [making EXCEPT ![t] = Len(told) + 1]
  /\ step' = [step EXCEPT ![t] = "draining"]
  /\ overlapped' = (overlapped \/ \E u \in Tasks : step[u] # "idle")
  /\ UNCHANGED <<count, due, pending, current>>

Drained(t) ==
  /\ step[t] = "draining"
  /\ step' = [step EXCEPT ![t] = "asking"]
  /\ UNCHANGED <<making, count, due, rotationId, pending, current, told, overlapped>>

(* The writer or the provider of the peer's key raises.                     *)
RotationFails(t) ==
  /\ step[t] # "idle"
  /\ step' = [step EXCEPT ![t] = "idle"]
  /\ UNCHANGED <<making, count, due, rotationId, pending, current, told, overlapped>>

(* The peer's key is there: the rotation is stored under the id of now.     *)
Answered(t) ==
  /\ step[t] = "asking"
  /\ pending' = [id |-> rotationId, key |-> making[t], at |-> count, old |-> current]
  /\ due' = FALSE
  /\ step' = [step EXCEPT ![t] = "idle"]
  /\ UNCHANGED <<making, count, rotationId, current, told, overlapped>>

ApplyPendingRotation ==
  /\ pending # NoRotation
  /\ count - pending.at >= Window
  /\ current' = pending.key
  /\ pending' = NoRotation
  /\ UNCHANGED <<step, making, count, due, rotationId, told, overlapped>>

(* get_decryptor_for_rotation.                                              *)
Decryptor(id) ==
  IF pending # NoRotation /\ id = pending.id THEN pending.key
  ELSE IF pending # NoRotation /\ id + 1 = pending.id THEN pending.old
  ELSE current

Next ==
  \/ IncrementMsgCount \/ TimeIsUp \/ ApplyPendingRotation
  \/ \E t \in Tasks : Initiate(t) \/ Drained(t) \/ RotationFails(t) \/ Answered(t)

-----------------------------------------------------------------------------
TypeOK ==
  /\ step \in [Tasks -> {"idle", "draining", "asking"}]
  /\ making \in [Tasks -> 0..MaxKeys]
  /\ count \in 0..MaxCount
  /\ due \in BOOLEAN /\ overlapped \in BOOLEAN
  /\ rotationId \in 0..MaxKeys
  /\ current \in 0..Len(told)
  /\ told \in Seq(1..MaxKeys)
  /\ pending # NoRotation =>
       /\ pending.id \in 1..MaxKeys /\ pending.key \in 1..Len(told)
       /\ pending.at \in 0..count /\ pending.old \in 0..Len(told)

(* A frame that names the rotation of the current key or of the next one is *)
(* decrypted with that key, also after rotations that failed: as long as no *)
(* two rotations were under way at once.                                    *)
KeysAreFound ==
  ~overlapped =>
    /\ Decryptor(IdOf(current)) = current
    /\ pending # NoRotation => Decryptor(IdOf(pending.key)) = pending.key
=============================================================================
