-------------------------- MODULE ServerPipeline --------------------------
(***************************************************************************)
(* server.py: QDAPClient writes frames to a connection; QDAPServer reads   *)
(* the frames of each connection in a handler, collects those of all the   *)
(* connections, and hands the collection over when it is drained.  With    *)
(* forward error correction a frame is written once for every packet of    *)
(* the profile, and each is read as a frame: the server never decodes.     *)
(***************************************************************************)
EXTENDS Naturals, Sequences, FiniteSets, SequencesExt

CONSTANTS
  Clients,
  Payloads,
  Profiles,  \* numbers of packets k + r: the client knows of no loss, so k = 1
  Eof

VARIABLES
  link,      \* a connection: none, queued, served (it has a handler), closed, or
             \* dropped by the server before the client closed it
  pipe,      \* what the connection carries that was not read
  server,    \* up, stopping (in wait_closed) or down
  inbox,     \* _received_frames
  owed,      \* packets written for each payload
  seen,      \* frames that reached the inbox
  given,     \* frames that drain() returned
  cut        \* a connection ended before all it carried was read

vars == <<link, pipe, server, inbox, owed, seen, given, cut>>

None == [p \in Payloads |-> 0]
Count(s, x) == Cardinality({i \in DOMAIN s : s[i] = x})
Ended(c) == Eof \in Range(pipe[c])

Init ==
  /\ link = [c \in Clients |-> "none"]
  /\ pipe = [c \in Clients |-> << >>]
  /\ server = "up"
  /\ inbox = << >>
  /\ owed = None
  /\ seen = None
  /\ given = None
  /\ cut = FALSE

Connect(c) ==
  /\ link[c] = "none" /\ server = "up"
  /\ link' = [link EXCEPT ![c] = "queued"]
  /\ UNCHANGED <<pipe, server, inbox, owed, seen, given, cut>>

(* The event loop starts the handler of the connection.                     *)
Accept(c) ==
  /\ link[c] = "queued" /\ server = "up"
  /\ link' = [link EXCEPT ![c] = "served"]
  /\ UNCHANGED <<pipe, server, inbox, owed, seen, given, cut>>

(* send_frame: all the packets of a frame are written at once.              *)
SendFrame(c, p) ==
  /\ link[c] \in {"queued", "served"} /\ ~Ended(c)
  /\ owed[p] = 0
  /\ \E n \in Profiles :
       /\ pipe' = [pipe EXCEPT ![c] = @ \o [i \in 1..n |-> p]]
       /\ owed' = [owed EXCEPT ![p] = n]
  /\ UNCHANGED <<link, server, inbox, seen, given, cut>>

(* The client does not notice that its connection was dropped: what it      *)
(* writes is lost.                                                          *)
SendInVain(c, p) ==
  /\ link[c] = "dropped"
  /\ owed[p] = 0
  /\ \E n \in Profiles : owed' = [owed EXCEPT ![p] = n]
  /\ cut' = TRUE
  /\ UNCHANGED <<link, pipe, server, inbox, seen, given>>

Close(c) ==
  /\ link[c] \in {"queued", "served"} /\ ~Ended(c)
  /\ pipe' = [pipe EXCEPT ![c] = Append(@, Eof)]
  /\ UNCHANGED <<link, server, inbox, owed, seen, given, cut>>

(* A connection breaks: a prefix of what it carries is still read.          *)
Break(c) ==
  /\ link[c] \in {"queued", "served"} /\ ~Ended(c) /\ pipe[c] # << >>
  /\ \E s \in Prefixes(pipe[c]) \ {pipe[c]} : pipe' = [pipe EXCEPT ![c] = Append(s, Eof)]
  /\ cut' = TRUE
  /\ UNCHANGED <<link, server, inbox, owed, seen, given>>

(* The handler leaves its loop: its writer is closed, what it did not read  *)
(* is lost.                                                                 *)
Over(c) == IF Ended(c) THEN "closed" ELSE "dropped"
Leave(c, unread) ==
  /\ link' = [link EXCEPT ![c] = Over(c)]
  /\ pipe' = [pipe EXCEPT ![c] = << >>]
  /\ cut' = (cut \/ Range(unread) \ {Eof} # {})

Collect(p) == inbox' = Append(inbox, p) /\ seen' = [seen EXCEPT ![p] = @ + 1]

ReadFrameCallbackFirst(c) ==                              \* mutant of ReadFrame
  /\ link[c] = "served" /\ pipe[c] # << >> /\ Head(pipe[c]) # Eof
  /\ \/ /\ Collect(Head(pipe[c]))
        /\ pipe' = [pipe EXCEPT ![c] = Tail(@)]
        /\ UNCHANGED <<link, cut>>
     \/ Leave(c, Tail(pipe[c])) /\ UNCHANGED <<inbox, seen>>
  /\ UNCHANGED <<server, owed, given>>

(* A frame is read and collected.  If the callback raises, the handler ends *)
(* although the connection is sound.                                        *)
ReadFrame(c) ==
  /\ link[c] = "served" /\ pipe[c] # << >> /\ Head(pipe[c]) # Eof
  /\ Collect(Head(pipe[c]))
  /\ \/ pipe' = [pipe EXCEPT ![c] = Tail(@)] /\ UNCHANGED <<link, cut>>
     \/ Leave(c, Tail(pipe[c]))
  /\ UNCHANGED <<server, owed, given>>

ReadEnd(c) ==
  /\ link[c] = "served" /\ pipe[c] # << >> /\ Head(pipe[c]) = Eof
  /\ Leave(c, << >>)
  /\ UNCHANGED <<server, inbox, owed, seen, given>>

Drain ==
  /\ inbox # << >>
  /\ inbox' = << >>
  /\ given' = [p \in Payloads |-> given[p] + Count(inbox, p)]
  /\ UNCHANGED <<link, pipe, server, owed, seen, cut>>

(* stop(): no connection is accepted any more; the handlers go on.          *)
Stop ==
  /\ server = "up"
  /\ server' = "stopping"
  /\ link' = [c \in Clients |-> IF link[c] = "queued" THEN Over(c) ELSE link[c]]
  /\ pipe' = [c \in Clients |-> IF link[c] = "queued" THEN << >> ELSE pipe[c]]
  /\ cut' = (cut \/ \E c \in Clients : link[c] = "queued" /\ Range(pipe[c]) \ {Eof} # {})
  /\ UNCHANGED <<inbox, owed, seen, given>>

(* wait_closed() is over: at once, or since Python 3.12 when no handler is  *)
(* left.  The writers are closed; a handler may still read what it has.     *)
Stopped ==
  /\ server = "stopping"
  /\ server' = "down"
  /\ \E rest \in [Clients -> UNION {Prefixes(pipe[c]) : c \in Clients}] :
       /\ \A c \in Clients : rest[c] \in Prefixes(pipe[c])
       /\ pipe' = [c \in Clients |->
                     IF link[c] # "served" \/ Eof \in Range(rest[c]) THEN rest[c]
                     ELSE Append(rest[c], Eof)]
       /\ cut' = (cut \/ \E c \in Clients : Len(rest[c]) < Len(pipe[c]))
  /\ UNCHANGED <<link, inbox, owed, seen, given>>

Works ==
  \/ \E c \in Clients : Accept(c) \/ ReadFrame(c) \/ ReadEnd(c)
  \/ Drain

Next ==
  \/ \E c \in Clients : Connect(c) \/ Close(c) \/ Break(c)
  \/ \E c \in Clients, p \in Payloads : SendFrame(c, p) \/ SendInVain(c, p)
  \/ Works
  \/ Stop
  \/ Stopped

-----------------------------------------------------------------------------
TypeOK ==
  /\ link \in [Clients -> {"none", "queued", "served", "closed", "dropped"}]
  /\ pipe \in [Clients -> Seq(Payloads \cup {Eof})]
  /\ \A c \in Clients : link[c] \notin {"queued", "served"} => pipe[c] = << >>
  /\ server \in {"up", "stopping", "down"}
  /\ inbox \in Seq(Payloads)
  /\ owed \in [Payloads -> Nat] /\ seen \in [Payloads -> Nat] /\ given \in [Payloads -> Nat]
  /\ cut \in BOOLEAN

(* Every packet that was written was drained, is collected or is coming,    *)
(* unless a connection was cut short: a frame with error correction counts  *)
(* as often as it has packets.                                              *)
NothingStuck ==
  ~cut =>
    \A p \in Payloads :
      owed[p] = given[p] + Count(inbox, p)
                 + SumFunction([c \in Clients |-> Count(pipe[c], p)])

(* A frame is due until all its packets were drained, unless a connection   *)
(* was cut short.                                                           *)
Due(p) == owed[p] > 0
Settled(p) == given[p] = owed[p] \/ cut
=============================================================================
