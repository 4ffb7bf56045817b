------------------------------ MODULE Transfer ------------------------------
(***************************************************************************)
(* The ways a payload goes from one end to the other, each shown to        *)
(* implement PayloadTransfer: a behaviour takes one path, and the others   *)
(* rest.                                                                   *)
(***************************************************************************)
EXTENDS Streams

CONSTANTS
  Width, IdSpace, NStreams,       \* of the parallel streams
  NoStream,                       \* of the chunks
  Frames, Clients, Profiles, Eof, \* of the servers: payloads that fit one frame
  Torn, NoOne                     \* of the adapter as a server

ASSUME PayloadsAssumption == IsFiniteSet(Payloads)
ASSUME WidthsAssumption ==
  Width \in Nat \ {0} /\ IdSpace \in Nat \ {0} /\ NStreams \in Nat \ {0}
ASSUME FramesAssumption == Frames \subseteq Payloads
ASSUME ClientsAssumption == IsFiniteSet(Clients) /\ Profiles \subseteq Nat

VARIABLES
  path,
  counter, calling, single,                           \* of the first two
  link, pipe, server, inbox, owed, seen, given, cut,  \* of the servers
  quit, buffer, waiter, reader, at, from, ready, turn, shared

adapterVars == <<quit, buffer, waiter, reader, at, from, ready, turn, shared>>
serverVars == <<link, pipe, server, inbox, owed, seen, given, cut>>

Parallel == INSTANCE ParallelStreams
Chunks == INSTANCE ChunkReassembly
Server == INSTANCE ServerPipeline WITH Payloads <- Frames
Adapter == INSTANCE AdapterServer WITH Payloads <- Frames

ASSUME NullsAssumption ==
  /\ Eof \notin Frames /\ Eof # Torn
  /\ NoOne \notin Clients
  /\ \A p \in Frames : {Adapter!HeaderOf(p), Adapter!BodyOf(p)} \cap {Eof, Torn} = {}

vars == <<path, streamVars, counter, calling, single, serverVars, adapterVars>>

Paths == {"parallel", "chunks", "server", "adapter"}
Init ==
  /\ path \in Paths
  /\ Parallel!Init /\ Chunks!Init /\ Server!Init /\ Adapter!Init

OnParallel(step) ==
  path = "parallel" /\ step /\ UNCHANGED <<path, calling, single, serverVars, adapterVars>>
OnChunks(step) ==
  path = "chunks" /\ step /\ UNCHANGED <<path, counter, serverVars, adapterVars>>
OnServer(step) ==
  path = "server" /\ step /\ UNCHANGED <<path, streamVars, counter, calling, single, adapterVars>>
OnAdapter(step) ==
  path = "adapter" /\ step /\ UNCHANGED <<path, streamVars, counter, calling, single, inbox>>

ParallelStep == OnParallel(Parallel!Next)
ChunksStep == OnChunks(Chunks!Next)
ServerStep == OnServer(Server!Next)
AdapterStep == OnAdapter(Adapter!Next)

Next == ParallelStep \/ ChunksStep \/ ServerStep \/ AdapterStep

(* The event loop runs every task that can go on, and the network delivers  *)
(* what it does not lose.  Nothing makes a caller send.                     *)
Works ==
  \/ OnParallel(Parallel!Works) \/ OnChunks(Chunks!Works)
  \/ OnServer(Server!Works) \/ OnAdapter(Adapter!Works)

Spec == Init /\ [][Next]_vars /\ WF_vars(Works)

-----------------------------------------------------------------------------
TypeOK ==
  /\ path \in Paths
  /\ path = "parallel" => Parallel!TypeOK
  /\ path = "chunks" => Chunks!TypeOK
  /\ path = "server" => Server!TypeOK
  /\ path = "adapter" => Adapter!TypeOK

(* The payloads with too many pieces for the frame of a parallel stream are *)
(* not among those that are promised anything.                              *)
OfFrames(f) == [p \in Payloads |-> IF p \in Frames THEN f[p] ELSE 0]
InFrames == path \in {"server", "adapter"}
Abstract == INSTANCE PayloadTransfer WITH
  copies <- IF InFrames THEN OfFrames(seen) ELSE Copies,
  handed <- IF InFrames THEN OfFrames(given) ELSE handed,
  garbled <- \E p \in garbled : path = "chunks" \/ Parallel!Fits(p)

(* A payload is handed over whole, and not more often than all of it came:  *)
(* by ParallelReceiver.on_chunk, ChunkReassembler.process_subframes,        *)
(* QDAPServer.drain and the handlers of a listening QDAPTCPAdapter,         *)
(* whatever is lost, repeated, reordered, given up or read by another.      *)
TransfersPayloads == Abstract!Spec

(* While nothing goes wrong, a payload sent in pieces or through an adapter *)
(* is either on its way or was handed over, and that once; of what a client *)
(* wrote to a server, every packet is on its way, collected or drained, and *)
(* a frame with error correction has several; and no receiver waits for a   *)
(* piece that will not come.                                                *)
NothingStuck ==
  /\ path = "parallel" => Parallel!NothingStuck
  /\ path = "chunks" => Chunks!NothingStuck
  /\ path = "server" => Server!NothingStuck
  /\ path = "adapter" => Adapter!NothingStuck

(* Error correction does not repeat anything to who uses the server: a      *)
(* frame is drained at most once, however many packets it was sent in: the  *)
(* docstring of QDAPServer says that the server decodes (server.py:73).     *)
FramesComeOnce == path = "server" => \A p \in Frames : given[p] <= 1

Due(p) ==
  \/ path = "parallel" /\ Parallel!Due(p)
  \/ path = "chunks" /\ Chunks!Due(p)
  \/ path = "server" /\ p \in Frames /\ Server!Due(p)
  \/ path = "adapter" /\ p \in Frames /\ Adapter!Due(p)
Settled(p) ==
  \/ path = "parallel" /\ Parallel!Settled(p)
  \/ path = "chunks" /\ Chunks!Settled(p)
  \/ path = "server" /\ p \in Frames /\ Server!Settled(p)
  \/ path = "adapter" /\ p \in Frames /\ Adapter!Settled(p)

(* A payload that was sent is handed over in the end, unless something goes *)
(* wrong on its way.                                                        *)
Delivered == \A p \in Payloads : Due(p) ~> Settled(p)
=============================================================================
