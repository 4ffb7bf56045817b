--------------------------- MODULE DeviceLearning ---------------------------
(***************************************************************************)
(* What the schedulers of the devices learn (scheduler/qft_scheduler.py),  *)
(* keep between sessions (scheduler/session_cache.py), and what the Rust   *)
(* core learns for all schedulers of a thread (qft_scheduler.rs).  Theta   *)
(* is a function of the strategies that were reinforced, in order; here it *)
(* is that sequence.  The strategy that a channel and theta call for is    *)
(* any: it is the same for theta, which is updated by it.                  *)
(***************************************************************************)
EXTENDS Naturals, Sequences, FiniteSets, Functions

CONSTANTS
  Schedulers, Devices, NoDevice, NoProfile,
  Chunks, Micro,         \* the chunk strategies, and the one of emergencies
  MaxLearnt, MaxCore     \* bounds

VARIABLES
  native,                \* the Rust core is there
  theta, decisions, device,
  cache,                 \* _global_cache
  core,                  \* THETA of the thread
  strayed                \* one of the two learnt what the other did not

vars == <<native, theta, decisions, device, cache, core, strayed>>

Init ==
  /\ native \in BOOLEAN
  /\ theta = [s \in Schedulers |-> << >>]
  /\ decisions = [s \in Schedulers |-> 0]
  /\ device = [s \in Schedulers |-> NoDevice]
  /\ cache = [d \in Devices |-> NoProfile]
  /\ core = << >>
  /\ strayed = FALSE

-----------------------------------------------------------------------------
(* _update_theta and n_decisions; update_theta of the core.                 *)
Learns(s, chunk) ==
  /\ Len(theta[s]) < MaxLearnt
  /\ theta' = [theta EXCEPT ![s] = Append(@, chunk)]
  /\ decisions' = [decisions EXCEPT ![s] = @ + 1]
CoreLearns(chunk) == Len(core) < MaxCore /\ core' = Append(core, chunk)

(* decide(): the core decides where there is one, and theta mirrors it.     *)
Decide(s, chunk) ==
  /\ Learns(s, chunk)
  /\ IF native THEN CoreLearns(chunk) ELSE UNCHANGED core
  /\ UNCHANGED strayed

(* decide_deadline_aware() while the deadline is near, and while it is not: *)
(* then theta does not mirror what the core decides.                        *)
DecideInHaste(s) == Decide(s, Micro)
DecideInTime(s, chunk) ==
  IF native
  THEN /\ CoreLearns(chunk)
       /\ strayed' = TRUE
       /\ UNCHANGED <<theta, decisions>>
  ELSE Decide(s, chunk)

(* decide_emergency() does not ask the core.                                *)
DecideEmergency(s) ==
  /\ Learns(s, Micro)
  /\ strayed' = TRUE
  /\ UNCHANGED core

Decides ==
  /\ \E s \in Schedulers :
       \/ \E chunk \in Chunks : Decide(s, chunk) \/ DecideInTime(s, chunk)
       \/ DecideInHaste(s)
       \/ DecideEmergency(s)
  /\ UNCHANGED <<native, device, cache>>

ResetWeights(s) ==
  /\ theta[s] # << >>
  /\ theta' = [theta EXCEPT ![s] = << >>]
  /\ decisions' = [decisions EXCEPT ![s] = 0]
  /\ strayed' = TRUE
  /\ UNCHANGED <<native, device, cache, core>>

-----------------------------------------------------------------------------
(* SessionCache.save and load.                                              *)
Saved(s) == [theta |-> theta[s], decisions |-> decisions[s], old |-> FALSE]
Held(d) == cache[d] # NoProfile
Loaded(d) == Held(d) /\ ~cache[d].old

(* A caller that saves the state of a scheduler itself.                     *)
Save(s, d) ==
  /\ cache' = [cache EXCEPT ![d] = Saved(s)]
  /\ UNCHANGED <<native, theta, decisions, device, core, strayed>>

(* attach_device() with a profile: the core does not learn of it.           *)
AttachKeepsCount(s, d) ==                                 \* mutant of Attach
  /\ Loaded(d)
  /\ theta' = [theta EXCEPT ![s] = cache[d].theta]
  /\ device' = [device EXCEPT ![s] = d]
  /\ strayed' = TRUE
  /\ UNCHANGED <<native, decisions, cache, core>>
Attach(s, d) ==
  /\ Loaded(d)
  /\ theta' = [theta EXCEPT ![s] = cache[d].theta]
  /\ decisions' = [decisions EXCEPT ![s] = cache[d].decisions]
  /\ device' = [device EXCEPT ![s] = d]
  /\ strayed' = TRUE
  /\ UNCHANGED <<native, cache, core>>

(* attach_device() of a device whose profile is too old; evict_expired()    *)
(* does the same to all of them.                                            *)
AttachToOld(d) ==
  /\ Held(d) /\ cache[d].old
  /\ cache' = [cache EXCEPT ![d] = NoProfile]
  /\ UNCHANGED <<native, theta, decisions, device, core, strayed>>

EvictExpired ==
  /\ cache' = [d \in Devices |-> IF Held(d) /\ ~Loaded(d) THEN NoProfile ELSE cache[d]]
  /\ UNCHANGED <<native, theta, decisions, device, core, strayed>>

Detach(s) ==
  /\ device[s] # NoDevice
  /\ cache' = [cache EXCEPT ![device[s]] = Saved(s)]
  /\ device' = [device EXCEPT ![s] = NoDevice]
  /\ UNCHANGED <<native, theta, decisions, core, strayed>>

Expire(d) ==
  /\ Loaded(d)
  /\ cache' = [cache EXCEPT ![d].old = TRUE]
  /\ UNCHANGED <<native, theta, decisions, device, core, strayed>>

Next ==
  \/ Decides \/ EvictExpired
  \/ \E s \in Schedulers : ResetWeights(s) \/ Detach(s)
  \/ \E s \in Schedulers, d \in Devices : Save(s, d) \/ Attach(s, d)
  \/ \E d \in Devices : AttachToOld(d) \/ Expire(d)

-----------------------------------------------------------------------------
TypeOK ==
  LET Learnt == UNION {[1..n -> Chunks] : n \in 0..MaxLearnt}
  IN  /\ native \in BOOLEAN /\ strayed \in BOOLEAN
      /\ theta \in [Schedulers -> Learnt]
      /\ decisions \in [Schedulers -> 0..MaxLearnt]
      /\ device \in [Schedulers -> Devices \cup {NoDevice}]
      /\ cache \in [Devices -> [theta : Learnt, decisions : 0..MaxLearnt, old : BOOLEAN]
                                 \cup {NoProfile}]
      /\ core \in Seq(Chunks) /\ Len(core) <= MaxCore

(* How often a strategy was reinforced in a sequence.                       *)
Times(learnt, chunk) == Cardinality({i \in DOMAIN learnt : learnt[i] = chunk})

(* The number of decisions, which says when a scheduler is warmed up, is    *)
(* that of the updates of its theta, in use and in the cache, however often *)
(* two connections of a device save, load and reset; and as long as only    *)
(* decide() and near deadlines taught the thread's schedulers, its core has *)
(* learnt what all of them together did, and nothing else.                  *)
CountsFitTheta ==
  /\ \A s \in Schedulers : decisions[s] = Len(theta[s])
  /\ \A d \in Devices : Held(d) => cache[d].decisions = Len(cache[d].theta)
  /\ native /\ ~strayed =>
       \A chunk \in Chunks :
         Times(core, chunk) = SumFunction([s \in Schedulers |-> Times(theta[s], chunk)])
=============================================================================
