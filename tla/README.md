# A verification project for QDAP

TLA+ modules that model the stateful parts of QDAP (`src/qdap`, with the Rust
core `qdap_core`), TLC configurations that check them on small instances, and
TLAPS proofs for all values of the constants. Paths below are relative to the
repository; `adapter.py` without a directory is `src/qdap/transport/tcp/adapter.py`.

## 1. The system

QDAP is an asyncio protocol stack in Python with an optional Rust core. All
concurrency is cooperative: a task runs from one `await` to the next without
being interrupted (the `RLock`s of the stores are never contended in one loop).
So the step of every model is *one task from one await to the next*; what a
handler keeps across an await is a variable, and may be stale when it is used.

| component | state it keeps | operations | interacts with |
|---|---|---|---|
| connection pool (`transport/tcp/pool.py`) | idle deque, `_active`, a condition | initialize, acquire, release, close_all | TCP adapters, its callers |
| TCP adapter and backpressure (`adapter.py`, `backpressure.py`) | reader, writer, `_healthy`, a semaphore and its counter | connect, listen, send_frame, recv_frame, close | asyncio streams, the peer |
| MQTT broker (`broker/broker.py`, `session_store.py`, `topic_tree.py`) | sessions with writers and packet ids, the subscription trie, schedulers per client | CONNECT, PUBLISH, SUBSCRIBE, UNSUBSCRIBE, end of a connection | one handler per connection, all writing to each other's writers; scheduler and its cache |
| scheduler and session cache (`scheduler/`) | theta vector, device id; profiles with a TTL | attach_device, detach_device, decide, observe, current_strategy | broker, chunker |
| ghost session (`session/ghost_session.py`, `markov.py`, Rust `ghost_session.rs`) | window of unacknowledged frames, its Rust mirror, Markov chain, set of received numbers | send, on_receive, implicit_ack, detect_loss | server and client, an unreliable network |
| delta compression (`compression/delta_encoder.py`) | a baseline at each end, the field order | encode, decode, reset | a channel that may lose frames |
| FEC (`transport/fec.py`, Rust `fec.rs`) | none but a sequence number and a loss estimate | encode, decode, profile selection | client and server |
| server and client (`server.py`) | clients, received frames, sequence counter | send_frame, send_multiframe, handle_client, drain | ghost session, FEC, frames |
| chunking and parallel streams (`chunking/`, `parallel_sender.py`) | assembly buffers by stream, their age | send, on_chunk, process_subframes, cleanup_stale | transport |
| gateways (`proxy/http_bridge.py`, `websocket/ws_adapter.py`, `broker/qdap_transport.py`) | none | a request, a message or a topic becomes a frame with a priority and a deadline | HTTP and WebSocket clients, the broker |
| frames and amplitudes (`frame/qframe.py`, `frame/encoder.py`) | none | build, serialize, deserialize, weigh and order subframes | everything that sends |
| vehicle simulation (`simulations/v2x/`) | vehicles and their messages in flight, per step of 50 ms | BSM and DENM encode and decode, one radio model per protocol, the run | scripts that plot it |
| security (`key_rotation.py`, `handshake.py`, `session_ticket.py`, `encrypted_frame.py`) | current and pending keys, tickets, nonce counter | handshake, resume, rotate, redeem | both peers |
| stamps and decisions (`protocol/decision_dag.py`) | none | build_send_dag | adaptive ghost session, scheduler |
| adaptive ghost session (`broker/ghost_session_adaptive.py`) | CONNECTING, ACTIVE, GHOST, CLOSED, a network profile | on_data_received, tick, set_network | broker |

What is hard in it, and what makes each part correct:

* **Waiting and waking up.** The pool and the adapter block their callers on a
  condition and a semaphore. Every release must wake the right waiter, and
  failures, cancellations and close must not lose a wake-up or a slot. The
  pool must stay within `max_size` and give an adapter to one task only.
* **Handlers that interleave.** Broker handlers share the session store and the
  trie, and compute lists (the subscribers of a PUBLISH) that they use over
  many drains. What belongs to a client id must follow its connection.
* **Two copies of one thing.** Encoder and decoder baselines, the ghost window
  and its Rust mirror, must agree under loss, eviction and resets.
* **Unreliable delivery.** Frames are lost, repeated, reordered; a lost one must
  be found, a repeated one must not be taken twice, what was lost must be
  rebuilt from parities or reported lost, and never be rebuilt wrongly.
* **Payloads in pieces.** A payload is cut, written by several tasks or in
  batches, and put together from buffers that expire, under ids and counts of
  16 bits, behind locks held over callbacks. It must be handed over whole and
  not more often than it came, and nothing may wait for a piece that never comes.
* **Answers that come late.** A rotation stores after two awaits what it read
  before them; a resume times out and its answer still comes. Both ends must
  end up with the same key, and a ticket must open one session only.
* **Things written in one place and read in another.** Frames, packets, masks and
  nonces have layouts; the state of a scheduler is kept in Python, in a cache and in
  the Rust core. What is read must be what was written, or be refused.
* **Limits.** Wrapping ids, lengths cut in the middle by a read, chunk sizes at
  the borders between two choices, votes counted up to a threshold.

PROJECT.json lists each of these places with its line under `hazards`.

## 2. The modules

| module | models | abstraction |
|---|---|---|
| `ConnectionPool` | `QDAPConnectionPool` | An adapter is an identity and a health flag. The condition's lock is derived: it is held exactly while a task connects in acquire() or closes in release(). |
| `TcpAdapter` | `send_frame`, `close`, `BackpressureController` | The asyncio semaphore (value, waiters, units granted and not yet resumed) and the transport (open, closing, closed, reset; frames in the buffer) are modelled from how the adapter uses them. |
| `Broker`, `TopicTree` | `QDAPBroker`, `SessionStore`, `TopicTree`, attach/detach of schedulers, the profile cache | `TopicTree` is a module of operators, instantiated by `Broker`. A packet is the choice of its fields; bytes, statistics and logs are left out. |
| `GhostSession` | both ends of a ghost session, the Rust `GhostWindow`, the Markov row that decides about losses | Probabilities in thousandths; ages as the set of entries that are old enough. |
| `DeltaCodec`, `ReadingStream` | the two codecs and the channel; what compression promises | A reading is a function from fields to values. |
| `Fec` | the XOR code of a packet and of a group, both of its decoders, the choice of a profile, the model of loss and the running estimate | A byte is one bit: XOR works on each bit alone. A loss rate is a percentage, the estimate is in millionths. |
| `QFrame` | the three layouts of a frame, written and read: `serialize()`, `to_bytes()` with the flat layout of `qframe.rs` and its Python fall-back, control frames | A field is one number whatever its width; the hash is a number that no field has. |
| `Layouts` | MQTT packets (`packet_parser.py`), channel stamps, delta frames with their bitmask, encrypted payloads with their nonces, the choices `build_send_dag` records and what is left of them in the frame | As in `QFrame`; AES-GCM is a reversible sum and a tag over everything. |
| `Credentials` | hellos and the keys that come of them, session tickets, ghost signatures | As in `Layouts`; curves and signatures are given by what they guarantee. |
| `VehicleMessages` | BSM and DENM (`v2x_messages.py`), built, encoded, decoded and validated | A field is one number of the wire with its real scale and width. |
| `Gateways` | HTTP requests, WebSocket messages and broker mail, turned into payloads and back; what both ends of the proxy and the WebSocket adapter do with a connection whose session cannot be made | Words are model values; what is tested of a header is whether it is a number. |
| `Radio` | the radio models of the simulation and QDAP over them; how vehicles and pedestrians move, the three scenes they are set up in, the line of sight between buildings | Probabilities in millionths, times in the units of the code; speeds and places on a grid, draws are choices. |
| `Orders` | the three orders in which `QFTScheduler.schedule` sends a queue, and the choice between them; the weights of subframes and the order they are sent in; `send_multiframe` | A packet is its size and deadline; energies in thousandths. Weights in integers that order as the floats do; urgencies per session. |
| `Framing` | how the broker, the QUIC adapter and `QDAPOverTCP` cut what they read into messages | A digit of a length has a small base; a body is its length and whether it can be deserialized. |
| `ChunkPlan` | chunk sizes (by spectrum, by payload, by path), batches, the plan of parallel streams; the scores of the five sizes, the choice in Python, in Rust and in the bridge, deadlines and emergencies, streams and energy bands; `AdaptiveChunker.send` and its report | Energies of a spectrum in thousandths; sizes are real sizes in bytes. For the scores: payload, round trip and loss on a grid of 11 values each; the logarithm is left out, as it keeps the order. |
| `Algorithms` | the inputs on which the modules of operators above are compared with what they are for | |
| `PayloadTransfer` | the abstract promise of every way to send a payload | |
| `Streams` | frames, network, receive buffers and hand-over, common to the next two | A payload is the number of its pieces; its bytes and its checksum are left out. |
| `ParallelStreams` | `ParallelSender`, `ParallelReceiver` | 16 bits are `Width` and `IdSpace`. |
| `ChunkReassembly` | `AdaptiveChunker` (sending), `ChunkReassembler` with its lock and callback | A stream id is the payload, because the code takes a fresh UUID. |
| `ServerPipeline` | `QDAPClient`, `QDAPServer` from connect to drain and stop | A connection is a sequence of packets, each of which is read as a frame. |
| `AdapterServer` | a listening `QDAPTCPAdapter` whose handlers share `_reader` | A frame is a header and a body of one common length. |
| `Transfer` | composes these four and shows that each implements `PayloadTransfer` | |
| `KeyRotation` | `KeyRotationManager` used by several tasks | A key is the number of the rotation that made it. |
| `SessionResume` | both handshakes, session tickets, resume and fall-back | Keys are named after the connection whose full handshake made them. |
| `HybridHandshake` | `pqc_handshake.py`: key pairs that are renewed, both ends with or without the cryptography package | A key pair is the number of its generation, a secret the term that the code hashes. |
| `SendPath` | `AdaptiveGhostSession` with its network profiles, the votes of `current_strategy`, `build_send_dag` | Time is the gap in seconds since data came; a spectrum is the strategy it calls for. |
| `DeviceLearning` | what the schedulers of a device learn, save and load, and the Rust core of their thread | Theta is the sequence of strategies that were reinforced, of which the code's vector is a function. |
| `VehicleRun` | a run of the vehicle simulation: steps, BSMs, emergency DENMs and their cascade | A vehicle is its messages and counters; who hears whom is a choice. |
| `SessionLife` | composes these six, of which one runs in each behaviour | |
| `ConnectionPoolProofs` | theorems about the pool | |
| `CodecProofs` | theorems about the topic tree, the erasure code and the framing of `Algorithms`; of `DeltaCodec`, that its codecs implement `ReadingStream` | |
| `TcpAdapterProofs`, `BrokerProofs`, `GhostSessionProofs`, `SessionLifeProofs` | theorems about the module each is named after | |
| `TransferProofs` | theorems about the four ways of a payload, and that each implements `PayloadTransfer` | |
| `Inductions` | lemmas: induction over numbers and finite sets, and what a sum over a function is | |

`MCx` extends module `x` with what TLC needs: definitions for constants that a
cfg cannot write, and symmetry sets. Three of them also put modules side by side that share
no state, so that one run checks both and each behaviour is of one: `MCConnections` the pool
and the adapter, `MCCodecs` the algorithms and the delta codec, `MCSessionLife` the parts of
`SessionLife` and the ghost session. The other side rests at its initial state. Definitions named in a comment "mutant of"
are not used by any specification: each is a way the definition could be wrong,
and the properties are known to notice it.

### How state and actions correspond to the code

* **ConnectionPool.** `idle`, `active` are `_pool`, `_active`; `asleep` is the
  condition's queue of waiters; `pc` is where a task awaits. acquire() is split
  at its awaits into `Wait`, `TakeIdle`, `ReplaceUnhealthy` or `OpenNew`, then
  `Connected` or `ConnectFails`; release() into `ReleaseKeep` or
  `ReleaseDiscard` and `Discarded`. Cancellation (what `asyncio.wait_for` around
  a call does) is an action at each await. `disturbed` is a history variable:
  it records that a notified task left without taking its slot.
* **TcpAdapter.** `at` is where a task is in send_frame(). `Send` runs to the first await that really waits: the slot, or
  the drain. `Resume` is the waiter that was given a unit. `Leak` is an exit
  without `bp.release()`: an OSError other than the two that are caught, or a
  cancellation. `SerializeFails` is another: the slot was acquired, and
  `frame.serialize()` raises before anything is written. `leaked` counts them, so that the conservation law stays exact.
* **Broker.** `pc` is reading, connack (the drain of CONNACK) or delivering (the
  drain of a subscriber's writer). `cid` is `handle_client`'s local, `pending`
  the id that `_handle_packet` has not returned yet. `Leave` is the `finally`
  block. `mixed` is a history variable: ids for which two connections got in
  each other's way (a takeover, a second CONNECT, a CONNACK that failed). The
  code does not promise anything for those, see section 6.
* **GhostSession.** `GhostSend` inserts into the window and the mirror, where each
  evicts on its own; ties of the clock let the two choose differently.
* **DeltaCodec.** `EncodeReading` chooses FULL or DELTA exactly as `encode()` does,
  with the threshold of one half and the 16 bits (`MaxFields`) of the mask.
* **Transfer.** The variable `path` says which of the four ways a behaviour
  takes; the others rest, as they share no state in the code. `todo` is what
  tasks have not written yet, one entry per `await drain()`; `wire` what is on
  its way; `buffers` is `_buffers` or `_streams`; `calling` the stream whose
  `on_complete` is awaited under the lock. A payload below the threshold goes as one
  frame without a header (`SendSingle`), which the reassembler passes over
  (`PassSingle`); `single` says how far it is. History variables: `arrived` (how
  often each piece came), `garbled` (pieces handed over as something else),
  `astray` (a stream id was given out while the last stream with it was alive),
  `faults` (losses, repeats, failures, expiries), `cut` (a connection ended
  before all it carried was read, or was written to after its end), `shared` (two handlers of an adapter at once),
  `owed`, `seen`, `given` (packets written, collected and drained).
* **AdapterServer.** recv_frame() looks up `_reader` for the header and again
  for the body, and a new connection replaces it: `reader` is the attribute,
  `from` the reader a handler is reading. read() does not suspend while there is
  something in the buffer, so a handler keeps its `turn` until it must wait. The
  waiter of a `StreamReader` is modelled as asyncio has it: one future, which is
  reset when something comes and again when the woken task goes on, whoever
  waits by then. A client whose connection was closed by the server goes on writing
  (`SendInVain`) until it closes the connection or learns that it broke (`quit`).
* **KeyRotation.** `_initiate_rotation` is split at its two awaits into `Initiate`,
  `Drained` and `Answered`; either may raise (`RotationFails`). `told` is the id
  under which each key was announced. `overlapped` is a history variable: two
  rotations were under way at once.
* **SessionResume.** A connection's client is where it awaits. `FallBack` is the
  timeout and every failure of `_try_resume`; the answer it did not wait for
  stays in the stream. `spent` counts how often each ticket gave keys.
* **SendPath.** `DataReceived` and `Tick` are the two callers of `_transition`;
  `CurrentStrategy` is one read of the strategy, split into `Confirm`, `Object` and
  `Replace`. `against` counts the calls in a row that proposed another strategy.
  `Detect` is `NetworkTypeDetector.detect`, whose type `SetNetwork` makes the
  profile; `memory` is `_current_k`, which `Tick` chooses anew by `OptimalK`.
* **HybridHandshake.** `Initiate`, `Respond` and `Renew` are the initiator, the
  responder and generate_hybrid_keypair(). `equipped` and `responder` say who has
  the package; each `try` of the code is a choice on them. A message carries, as
  history, the pairs it was made for and answered with.
* **DeviceLearning.** `Decide`, `DecideInHaste`, `DecideInTime` and
  `DecideEmergency` are the four ways into `_update_theta` or the core; which
  strategy a channel calls for is left open, because it is the same one that theta
  is updated by. `Save`, `Attach`, `AttachToOld`, `Detach`, `EvictExpired` are the cache's
  calls; `Expire` is the TTL. `strayed` is a history variable: Python's theta or the
  core learnt something that the other did not.
* **VehicleRun.** Two actions: `NextStep` is the start of a step of `simulation.py`
  (emergencies begin and end, the lead of a cascade brakes; broadcasts are due at every
  second step), `Broadcast` is one radio's BSM and, in an emergency, its DENMs. Who is
  in range is chosen anew at every broadcast. `lossObs` is the protocol's count of
  losses for each sender, `reached` is `cascade_received`.

## 3. The runs

| run | bounds | what it asks |
|---|---|---|
| `connections` | pool: 4 tasks, 2 adapters, min 1, max 2; adapter: 4 senders, 2 slots, 1 frame buffered | the pool's capacity, exclusive use, count of loans and accounting of wake-ups, with failures and cancellations everywhere; the adapter's conservation of slots, chain of wake-ups, honest return, and the liveness of waiting, with cancellations, resets and frames that cannot be serialized |
| `lost_wakeup` | 3 tasks, 1 adapter, max 1, nobody is cancelled | pool.py:53 ("if full, wait"): **violated** |
| `broker` | 3 connections, 2 ids, one wildcard filter, packet ids 1..2 | state follows connections; deliveries over stale lists; packet ids go on |
| `broker_profile` | 1 connection | qft_scheduler.py:262 (the profile is saved at disconnect): **violated** |
| `ghost_loss_detection` | 2 frames | test_ghost_session.py:254 (losses are detected eventually): **violated** |
| `codecs` | 39 filters in pairs, 14 topics; 7 codes, messages to 4 bits, every loss; two messages of up to 4 bytes in three reads, base 2; payloads at and beside every limit of the sizes, plans up to 9; losses of 0 to 100 %; frames of 1 or 2 subframes of up to 2 bytes, cut anywhere, with any one number changed, or with more behind; MQTT packets of every type, QoS and version, with up to two filters, cut anywhere; stamps at the limits of their fields; masks of 2 bits; nonces over a wrapping count; queues of up to 3 packets; groups of 2 or 3 packets of up to 2 bits; 3 reports of loss at two senders; hellos, tickets and vehicle messages at and beside every limit of their fields, cut or with one number changed; requests with any of five headers; up to 3 subframes of 2 sessions; 0 to 300 vehicles in range; a grid of 11 x 11 x 11 channels with learnt weights of 1, 2 and 5; the light at a crossing, three draws of the kind of a vehicle, segments over one building, scenes of up to 170 vehicles; for the delta codec 2 schemas (2 and 3 fields), 2 values, mask of 2 bits, 2 frames in flight | matching against the meaning of filters; decoding never lies and recovers what is determined; every way of reading a stream gives the same messages; batches and streams cover the payload exactly; the FEC profile that is chosen loses less than none and is not promised too much; a frame, packet, stamp, delta or encrypted payload is read back, is refused, or is the beginning of what was written; the order of a queue serves the urgent first when it should, and each half of mixed traffic by its own rule; so do subframes and what comes through a gateway; requests that find nobody are refused as documented; chunks fit the channel and the deadline; over a radio QDAP loses no more than the protocol below it; vehicles stop at a crossing, sight is mutual, scenes are set up where they have room; the delta codec refines `ReadingStream`, and its baselines agree |
| `transfer` | payloads of 2, 1 and 4 pieces, `Width` 3, 2 ids, 2 streams, 1 fault; 2 clients, 2 frames, 1 or 3 packets a frame | each of the four ways implements `PayloadTransfer`; while nothing goes wrong nothing gets stuck, packet by packet where a server reads; what nothing happens to is delivered |
| `session_life` | 2 tasks, 4 rotations, 5 messages; 3 connections of a device; 3 hybrid initiators, 3 key pairs; the 6 network profiles, 6 measured networks, 5 gaps, 5 transitions, k chosen every 4; 4 spectra, threshold 3; 2 schedulers of one device, 3 lessons each, 4 in the core; a simulation of 2 radios, 6 steps; a ghost session of 4 numbers, window 3, replay window 2, 5 sends, 4 clock readings | the key a frame names is found; both ends agree on keys exactly when they should; a ticket opens one session; what is learnt from is counted (transitions, decisions, the core's lessons); changes of strategy are earned; the window of a ghost session is bounded and agrees with its mirror, its sends are accounted for, a replay is refused |
| `fec_recovery` | the five profiles of fec.py and two more codes, messages to 2 bits | fec.py:263 (at most r losses are recovered): **violated** |
| `halves_interleave` | queues of up to 5 packets, equal energies | strategies.py:97-99 (the halves are interleaved): **violated** |
| `gateways_forward` | one request of every kind of content, a socket message of every kind, open connections | the proxy forwards requests and asks its backend (proxy_server.py:15-16, 59, 129), the WebSocket adapter forwards messages (ws_adapter.py:4, 32); of all that, the run asks that any one of the three ends passes something on: **violated** |
| `frames_come_once` | one client, one frame of 1 or 3 packets, no fault | server.py:72-73 (the server decodes FEC-encoded frames): **violated** |

Why the bounds are enough. Pool: two holders and two sleepers at once are
needed for a wake-up to be lost in front of somebody else, and a fifth task
repeats one of the four. Adapter: two draining and two waiting senders exercise
hand-over past a granted and not yet resumed waiter. Broker: a takeover needs
two connections of one id, a stale list a third that publishes; two ids make
the trie and the store differ per id; a limit of 2 makes packet ids wrap. Ghost
session: a window of 3 evicts one entry on the fourth number, a replay window of
2 forgets, the fifth send repeats a number. Delta codec: three fields against a
mask of two bits are over the limit, two frames in flight separate the two
baselines. Streams: the payload of four pieces wraps the total to 1 and its
indices over it, the third of three streams takes the id of the first, and one
fault of any kind is placed at every point; two pieces in two streams come in
any order, and one repeated piece is what reopens a buffer. Servers: a second
connection is what a stop, a broken link or a shared reader needs. Rotations:
two tasks overlap, and a rotation that fails between two that do not leaves an
id unused. Resumption: the first connection gets the ticket that the two others
both try. Hybrid handshakes: a renewal between a message and its answer, and a
third initiator that is neither of two which work alike. Learning: the device's
two schedulers save over each other's profile. Votes: three spectra against the
one in use, more than the threshold.
Framing: with base 2 a length of 4 takes three digits, so that reads end inside
a length. Layouts: two bits of a mask against orders of up to three fields; a count
of nonces that wraps at 2 while its time wraps at 6. Scores: a grid of 11 has
points on both sides of every line where another chunk size leads. Groups: three
packets in two stripes put two of them in one. Reports: three move the estimate
past both limits of the choice. Halves: the median is with the urgent, so that two packets
on each side of it take four in all; five leave room for ties. Nothing in the code depends on the number of tasks, ids or fields
beyond these comparisons.

`CHECK_DEADLOCK FALSE` is set where the system may really stop: the broker when
all connections are closed, the ghost session when the
bounds `MaxSends` and `MaxClock` are used up, an algorithm after its one input,
a transfer when all payloads were sent and read, the parts of a session when
their connections are through or their bounds are reached.
In `connections` deadlock is checked of the pool, which always has a next step. The adapter,
which stops for good after close(), may rest; that nobody waits in it for ever is `WaitingEnds`.

### Fairness

Three runs use it. In `connections` the adapter assumes weak fairness of the steps that the
event loop takes by itself once they are ready (a granted waiter, a finished or
failed drain) and of the transport's flushing, that is of a peer that goes on
reading; nothing makes a task send, close or cancel. Under it, whoever waits
for a slot gets one unless all slots have leaked. `Transfer` assumes that some
step that can be taken without a new request is taken (`Works`): the event loop
runs a task that is ready, the network delivers what it does not lose, a callback
ends, and the caller of `drain()` calls again; each payload has finitely many such
steps. Nothing makes anybody send, close or stop. `GhostLossDetection` assumes
that detect_loss() is called again and again with all pending entries old
enough, which is the most any caller can do for it.

## 4. The proofs

The proofs hold for every value of the constants that the named assumptions of the
modules admit. Those say: a size, a limit or a bound is a natural number (a
limit that the code divides by, takes a remainder of or shifts by is not 0); the sets
of tasks, schedulers, clients, payloads, sequence numbers and the fields of a schema are finite; a null value is not one
of what it stands beside; levels of service are 0 to 3; the window of a ghost session
holds at least 3 entries (the code's holds 1000); the micro chunk is one of the chunk
strategies; the end of a stream and a torn read are neither frames nor halves of
one; a filter has a level; a code without parities has a single chunk, and what stands
for a lost packet is no message and no group of them; a length has a digit, and enough of
them for the bodies that are sent (a longer one raises in `struct.pack`); payloads that are planned are of
1 GB at most, because the exponents in `NextPowerOfTwoFloor` end at 30 (TLC's integers end
there; the code takes any length). TLC evaluates each of them in a run of its module. Every inductive
invariant was checked by TLC on the instance of the run before it was proved.

**ConnectionPoolProofs.** The pool has the right types (`TypeCorrect`), never owns
more than `max_size` connections, the one being opened included
(`NeverOverCapacity`), counts every loan (`EveryLoanIsCounted`), lends no adapter
twice (`AdaptersAreLentOnce`) and loses no
wake-up while nobody fails or is cancelled (`NoWakeupIsLost`). None is inductive
alone: the count of loans needs to know which places hold an adapter, the capacity
needs that at most one task is between the test of the loop and the count (the lock),
and the wake-ups need that tasks in `asleep` are exactly those whose place says
so, once each. The inductive invariant is the conjunction of these; there is
one step per action, and lemmas about cardinalities of the sets of tasks at a
place when one task moves. Exclusive use is a second invariant on top of the first:
no adapter is held twice, held while it is idle, or idle twice.

**TcpAdapterProofs.** For any senders and any number of slots: a slot is free,
granted, held or counted as leaked (`NoSlotIsDoubledOrLost`), nobody sleeps in front of
a free slot of which nobody was told (`NobodySleepsBeforeAFreeSlot`), and a send that
returned had its frame taken (`ReturnedFramesWereTaken`). The invariant adds what the
first needs of the semaphore (`Queued`: its queue holds exactly tasks that wait, each
once) and what the last needs of a drain (`FramesTaken`: what became of the frame, at
each place inside drain()). The semaphore's operations are lemmas about a record of
value, queue and places, used by every action that releases or is cancelled.

**BrokerProofs.** For any clients, connections, topics and filters: sessions,
subscriptions and schedulers follow the live connection of an id that no two
connections compete for (`SessionsFollow`, `SubscriptionsFollow`, `SchedulersFollow`),
no PUBLISH goes to a closed connection or back (`PublishesReachOthers`), and packet ids
of a persistent session go on by one (`PacketIdsGoOn`). The three relations need each other
and `Handlers`: a CONNECT is pending exactly while CONNACK drains, a closed handler
has no id, and a CONNECT under a second id has mixed up the first.

**CodecProofs.** Of `Algorithms`, for any filters, topics, codes, bodies, lengths, losses and cuts:

* `TopicsDeliver`. The sets of paths that the descent of match() builds level by level
  are, in closed form, those that fit the first levels of the topic (`PathsFit`: the
  recursive function of the model is a CHOOSE, and the closed form satisfies what it is
  chosen by). A filter is matched exactly if it means the topic (`MatchedMeans`), and
  the QoS granted is the greatest of those asked for.
* `BlocksSurvive`. Chunks are the bytes of the message in order and then zeros
  (`ChunksAre`), joined they are the message (`JoinedIs`, over the recursion of a flattened
  sequence). A parity counts the ones of a stripe modulo 2, so that one chunk that is missing is
  what the others lack (`RebuiltIs`); it comes back exactly if it is alone in its stripe
  and the parity arrived. That a decoder gives up only in doubt needs a witness
  (`GivesUpInDoubt`): with a chunk and its parity lost, the message with the first byte
  of that chunk changed is received alike, with two chunks of a stripe lost, the one with a byte changed
  in both (`EvenOnes`).

* `StreamsAreCut`. The digits of a length, the least first, are those of its divisions by
  the base, and reading them gives it back (`RemainingIs`: after i digits the value and the rest
  times the multiplier are the length); a marked digit is read as the digit. The loop of
  a receiver is a function over places of its buffer whose value at a place depends on a later one: it exists
  because each cut ends behind its beginning (`LoopExists`, `MqttAdvances`, `QuicAdvances`),
  and gives the messages that end in the buffer (`LoopGives`). The invariant of the reads is
  `StateAt`: after c bytes of the stream, the messages that end within c are out and the rest
  holds the bytes behind them (`MqttHandled`, `QuicHandled`). For a socket it is `Holds`: its
  pieces are, end to end, the stream from a place on (`ReceivedIs`, `FrameReceived`). A read that
  ends inside a length must not see its end: the last digit is the only one
  below the base (`HeaderSeen`).
* `PlansAreWhole`. For a payload and a chunk of any size. A byte is in exactly the chunk
  whose number is its place divided by the size (`ChunkFound`). Batches of chunks are
  counted like chunks of a payload, so that the bounds of one division (`ChunkCounts`)
  give where a batch begins and ends and that only the last one is shorter (`BatchAt`);
  five sizes of chunks times their batches are 2 MB at most (`BatchesChosen`). With 28
  bytes more in each chunk there are no more chunks than without. What is reported is
  a sum over the plan: a sum of differences, of which only the ends count
  (`PiecesAddUp`). Of the chunks of two streams, shifting a number maps those of one into
  those of the other, but for the first one (`LoadsAreEven`). The power of two for a path
  exists for lengths below 2^31 (`FloorIs`). The proof showed that the property had been
  written weaker than meant: a conjunct about frames was read as the premise of
  an implication, and a case with no chunk size passed unseen. It is split in two now.

Of `DeltaCodec`, for any schemas, any values,
any width of the bitmask and any number of frames on their way: the types
(`DeltaTypes`), that the two baselines are equal when nothing is on its way and
nothing was lost (`DeltaAgreement`), and that encoder, channel and decoder implement
`ReadingStream` (`DeltaImplements`: initial states map to initial states, every step to
a step or a stutter). `BaselinesAgree` speaks of an empty wire only; the inductive
invariant `DeltaInv` adds what holds along the wire: the encoder's baseline is the
reading of the last frame, a FULL frame carries its reading, each DELTA frame
turns the reading before it into its own (`Chained`), and the head frame fits the
decoder's baseline unless one was lost (`HeadFits`). The lemma that carries the
argument is `DeltaRebuilds`: since `encode()` sends a FULL frame when there are
more fields than bits, a zero bitmask means that nothing changed, and baseline and
changed fields give the reading back.

**GhostSessionProofs.** For any numbers and sizes: the window of the Rust core keeps
nothing that Python's let go, and is equal to it while the times are distinct (`TheMirrorAgrees`);
every send is accounted for (`EverySendIsAccounted`); a number is accepted twice only
behind half a window of higher ones (`ReplaysStayBehindTheWindow`). `send()` asks
the window and then the mirror, each of which evicts: `ToldApart` (equal times mean equal
entries) makes both evict the same. `Optimistic` bounds the row of the chain: it
starts at 0.05 for bad and only falls. From it follows `NothingIsDetected`, that
detect_loss() never finds anything: the proof of what the run `ghost_loss_detection`
shows by a trace.

**SessionLifeProofs.** The parts share no state: `IInv` is one invariant for each and
the step of a part is a rest of the others. Rotation (`RotatedKeysAreFound`): while no
two rotations overlapped, the numbers of keys go up with the rotations, and at most one
task is past `Initiate`. Handshakes (`EndsHaveTheSameKeys`, `TicketsGiveKeysOnce`): what is in
each stream against where the two ends are (a client that has not begun has both streams
empty; an acknowledgement in the stream of a client that resumes means the server took
its ticket), and that a ticket in use was spent once. Votes (`ChangesTakeASeries`): the
counter of stability is at most the calls in a row against the strategy (one more for
the default, which the first call makes). Hybrid handshakes: a secret is the one of the
pair the message was made for. Learning
(`EverythingLearntIsCounted`): decisions equal the length of theta in use and in the cache;
the core's lessons and the losses of a simulation are sums over schedulers and over
radios, and the proof shows that each step changes one term and the total by as much.

**TransferProofs.** For any payloads with any number of pieces, any width of an
index, any number of ids, streams, clients and faults: each of the four ways
implements `PayloadTransfer` (`Implements`), and while nothing goes wrong (no fault, no connection cut, no reader
shared, no id given out twice) nothing is stuck (`NoneIsStuck`): a payload in pieces or
through an adapter is on its way or was handed over once; of what a client wrote to a
server, every packet is on its way, collected or drained. That a frame with error
correction is drained once is no theorem; the code does otherwise (`FramesComeOnce`).
`IInv` has one part for each way, of which the step of another is a
rest, and one that the two ways with pieces share:

* `StreamInv`: what was sent, is in the network and came are counted piece by piece
  (`Counters`); a receive buffer holds pieces of one payload, no more of each than came
  (`Receiving`, `Owned`, unless an id came round again and pieces went astray); without a fault what
  is missing from a buffer is still in the network (`Smooth`).
* `ParallelInv`: the id counter is the number of payloads sent, so that an id comes round only
  after `IdSpace` of them. `ChunksInv`: ids are payloads, and nothing goes astray; a payload
  goes as a single frame or in pieces (`Marks`).
* `ServerInv`: a frame is in a pipe, in the inbox or handed over as often as it was
  sent, and the end of a stream is the last thing in it.
* `AdapterInv`: a body is in a pipe until it is read and in a buffer until it is handed
  over (`Flows`: an equality while no connection was cut and no two shared the
  reader, at most so otherwise); a handler waits, is woken or runs, one of them at a time
  (`OneThing`); connections that come one after the other have the reader
  to themselves (`Alone`), and each that is served is attended to (`Attended`).

The refinement needs one number: a payload was handed over no more often than its least
frequent piece came. Each hand-over takes one of each piece out of the buffer, so that
handed over and in the buffer is at most what came, for each piece and hence for the least.

**Inductions.** The provers cannot instantiate an induction theorem that takes an
operator. They can use sets: the lemmas say that a set of naturals, or of finite
sets, with a member has a least one, so that a set of counterexamples whose every
member has a smaller one is empty. With it the folds of the community modules, which are a
CHOOSE over a recursive function, are computed: `SumIsNatural`, `SumOfNothing`,
`SumChanges` (when one term changes the sum changes by as much), and in
`GhostSessionProofs` that a fold whose every step changes nothing changes nothing.

Only model-checked: liveness (`WaitingEnds`, `Delivered`), which is out of the
proof system's reach; and the other algorithms, whose reference definitions are
compared on all inputs to a bound: orders of a queue (`SchedulesServeTheUrgent`), the
choice of a code (`ChosenProfilePays`) and the layouts (`WiresReadBack`: many small
formats, on grids).

## 5. The plan

1. Done: pool, broker, adapter, ghost session, delta codec, FEC and topic
   matching; the proofs above.
2. Done: parallel streams, chunk reassembly, server and client, the adapter as a
   server, each against `PayloadTransfer`; framing and chunk plans.
3. Done: key rotation, session resumption, the adaptive ghost session and the
   votes on a strategy. (`send_multiframe` builds a frame and calls `send_frame`: it is
   `SendFrame` of `ServerPipeline`.)
4. Done: the proofs of section 4, which state every invariant, action property and
   refinement that the runs of protocols check.
5. Done: the layouts of packets, stamps, deltas and encrypted payloads, the order
   of a queue, learning with its cache and Rust core, the hybrid handshake, the
   network profiles.
6. Done: vehicle messages, radios and the simulation run, gateways, amplitudes, the
   scores of chunk sizes, groups and estimates of FEC, hellos and tickets on the wire.
7. Left to model: nothing that keeps protocol state; see "Not modelled" below.

## 6. What the runs show, and limits

The properties of the passing runs hold. Eight statements of the repository do
not hold of the code. PROJECT.json quotes them under `findings`; seven runs show
the traces (that of `gateways_forward` stands for two, the proxy's and the WebSocket adapter's):

* acquire() waits only while the pool is full (pool.py:53): a notified task that
  fails to connect takes the wake-up with it (`lost_wakeup`);
* the profile of a device is saved when it disconnects (qft_scheduler.py:262): never,
  for a device that had none (`broker_profile`);
* consecutive losses are detected eventually (test_ghost_session.py:254): no
  loss ever is (`ghost_loss_detection`);
* a block is recovered from at most r losses (fec.py:263): not where a stripe is
  empty, nor where a chunk goes with its own parity (`fec_recovery`);
* the halves of mixed traffic are interleaved (strategies.py:97-99, 116, 120): one is
  sent to its end first, and with more energy in the low band it is the bulk
  (`halves_interleave`);
* the proxy sends requests on and asks its backend (proxy_server.py:15-16, 59, 129): its
  session cannot be constructed, the client end answers 504 and the server end asks
  nobody (`gateways_forward`). Both leave the connections they had open, open;
* the WebSocket adapter bridges to QDAP (ws_adapter.py:4, 32): it gives up at the same
  place, and closes each socket with 1011 (`gateways_forward`);
* the server decodes frames with error correction (server.py:72-73): it reads each
  packet as a frame, and drains the frame once for every packet (`frames_come_once`).

Other things the code does are visible in the models, and the properties leave
them out, by a history variable or by a condition. Most contradict no statement. Some
disagree with a comment or docstring in a detail (a rate, a unit, a range, the version
a field belongs to); they are listed here with the line, and have no run of
their own:

* a takeover of a client id lets the old connection's clean-up remove the new
  one's session, subscriptions and scheduler (`mixed`); a persistent session loses
  its subscriptions at a disconnect;
* a delta that is lost makes the decoder differ silently until the next FULL
  frame (`gap`);
* a send that is cancelled in drain(), or whose frame cannot be serialized, loses its
  slot (`leaked`);
* after 2^16 parallel streams an id is given out again, and pieces of two
  payloads may share a buffer (`astray`); a payload of 2^16 pieces or more has
  wrapped counts and is handed over as something else or never (`Fits`); a piece
  repeated after its stream was completed opens a buffer that waits until it is old;
* two rotations at once store a key under an id it was not announced under
  (`overlapped`). Also, each side salts its new keys with random bytes that are
  never sent, so that two ends cannot derive the same ones; the model names keys
  and does not derive them;
* a connection to a server that stopped or whose handler raised, or to a listening
  adapter whose handler ended, takes what is written to it and loses it (`cut`);
* a payload below the threshold of `AdaptiveChunker` comes as a single frame without a
  header, with which ChunkReassembler does nothing;
* with two connections at once to a listening adapter, a handler reads the other
  one's frames, ends with the error of a read that another task waits in, takes
  a wake-up for the end of the stream, or resets the waiter of another, which
  then waits for ever (`shared`). What still holds is that a frame is handed over
  whole and once: the hash sees to the first;
* fec_effective_loss() is exact for the profiles whose decoder recovers any r
  losses, and too good for BALANCED, where fec.py:108 counts on 12.6 % at a loss
  of 35 % and fec_decode() leaves 23 %: `ChosenProfilePays` states both. Above one
  half, RELIABLE loses more messages than no parity at all, BALANCED from 62 % on; the choice
  does not look at it. `max_overhead` is looked at for urgent messages only, and
  not below 2;
* to_bytes() writes a flat frame whose hash covers the payload only, and
  from_bytes() hands a payload over that does not fit it, with `hash_valid` false;
  parse_control_frame() hands over what there is of a payload that is cut short;
* packet_parser.py:89 says that only MQTT 5.0 has properties, and looks at the
  version in CONNECT; a PUBLISH, SUBSCRIBE or UNSUBSCRIBE is read with a length of
  properties whatever the version, so that a 3.1.1 PUBLISH loses the start of its
  payload. `WiresReadBack` promises the packets of 5.0, and CONNECT of both;
* the Rust core keeps one theta for all schedulers of its thread. attach_device()
  loads a profile into the Python mirror only, so that the warm-up it is to
  skip (qft_scheduler.py:247) is not skipped where the core decides;
  decide_emergency() teaches the mirror only, a deadline that is not near the core
  only (`strayed`);
* all estimators of `AdaptiveGhostSession` are told of every transition alike, so
  that they have the same likelihood, and after 100 transitions the penalty
  alone decides: k becomes 1 whatever the traffic, and the table that calls for 3 is
  never asked. set_network() changes the profile and leaves k;
* in the hybrid handshake the fall-back of one end (no cryptography package) does
  not meet X25519 at the other: they derive different secrets and neither
  notices, as the signature is not verified and the result not confirmed. `mode`
  changes nothing (`EndsAgree` states exactly when the secrets are equal);
* FECEncoder takes groups of several packets; with k = 1 its parities are copies of
  the first, from which FECDecoder rebuilds a wrong packet for another one
  (nothing in `src/` encodes more than one packet at a time). A packet that is rebuilt
  keeps the zeros it was padded with;
* when no score leads by 0.03, learnt weights may pull the choice to any strategy,
  also one that scores low. At a loss of 20 % or more, payloads of 16 to 100 MB on
  short paths still go in chunks of 1 MB, and there more loss can make chunks larger.
  decide_with_streaming() takes the streams of the strategy that weighs most, not
  of the one it has chosen; the Python fall-back of decide_deadline_aware() names
  MEDIUM whatever it chose; decide_emergency() promises 65 % of the loss even when no
  retry fits the deadline;
* the record of a send shows the priority MEDIUM and an amplitude of one half whatever
  was chosen, and the priority of its frame is 350 for all but emergencies;
* a frame whose content is in its subframes loses it in to_bytes();
* a stamp says 0 remaining steps after 29 decisions and "converged" after 1024;
* subframes of equal weight are sent last first; only the pattern "emergency" of the
  broker's topics ignores case; HTTP emergencies rank below audio and video, which
  may take longer; a content-type in lower case is not seen; what no rule names gets half a
  second with a low priority;
* in vehicle messages an elevation above 3276.7 m raises although v2x_messages.py:71
  allows 6143.9; a speed above 163.8 m/s is saturated when it is written and refused when it is
  validated; the validity test against 86400 s cannot fail for a field of 16 bits; a BSM
  masks the station id where a DENM raises; a heading may round to 28800;
* the air time of DSRC and 802.11bd is a thousandth of what its units say
  (protocols.py:65, 96); a simulation of 5 s runs 101 steps; the DENMs of a cascade
  are never relayed;
* a subscriber of the broker that stops reading blocks the drain of its writer,
  and with it the handler of the publisher, without a timeout: the drains of the
  model end because nothing is promised about when.

Modelled from how the code uses it, not from source: conditions, semaphores,
stream readers and writers of asyncio, the order and loss of the network, and
a server that acknowledges a resume, of which the repository has only the client.
The parts of `SessionLife` have safety properties only, which need no fairness.

Not modelled: the values of numeric learning and spectral analysis (the softmax, the
likelihoods, the LSTM of `markov_bptt.py`, the FFT; which strategy a channel calls for,
and which energies lie in which band, are modelled), cryptographic
primitives and the signature that nothing verifies, the fixed acknowledgements
of the broker, statistics and logging, socket tuning, the loopback, the QUIC
adapter and the basic TCP transport beyond their framing, the manual
use of the session cache its docstring shows (`scheduler.theta = profile.theta`),
the secure ghost session (its
constructor cannot succeed as it stands; what the proxy and the WebSocket adapter convert,
and what they do without a session, is in `Gateways`), the channel curves of the simulation
(path loss, fading, the packet errors that follow: who hears whom is a choice), and verification scripts, CLI, benchmarks, plots and reports. The last are
most of the repository's lines, and keep no state in which an order of steps could be
wrong.
