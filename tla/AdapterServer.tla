--------------------------- MODULE AdapterServer ---------------------------
(***************************************************************************)
(* The server side of QDAPTCPAdapter (transport/tcp/adapter.py): a handler *)
(* for each connection, all of which read from the adapter's one _reader,  *)
(* that of the last connection.  What an asyncio StreamReader does when    *)
(* two tasks read from it is modelled with its buffer and its one waiter.  *)
(* A frame is a header and a body, and all bodies have the same length, so *)
(* that a body read for another one fits.  Bytes that begin within one of  *)
(* the two are Torn.                                                       *)
(***************************************************************************)
EXTENDS Naturals, Sequences, FiniteSets, SequencesExt

CONSTANTS Clients, Payloads, Eof, Torn, NoOne

VARIABLES
  link,    \* a connection: none, queued, served (its handler runs) or closed
  pipe,    \* what a connection carries
  server,  \* up, closing or down
  owed, seen, given,  \* for each payload: sent, came to a reader, handed over
  cut,     \* a connection ended before all it carried was read, or bytes were
           \* written to one that had ended
  quit,    \* clients that closed their connection, or know that it broke
  buffer,  \* what a reader holds
  waiter,  \* the handler that a reader wakes when something comes
  reader,  \* _reader
  at,      \* where a handler is: header, body, torn (a body of nothing) or callback
  from,    \* the reader it reads from
  ready,   \* handlers that a reader woke
  turn,    \* the handler that runs and does not await
  shared   \* two handlers were there at once

vars == <<link, pipe, server, owed, seen, given, cut, quit,
          buffer, waiter, reader, at, from, ready, turn, shared>>

HeaderOf(p) == <<"header", p>>
BodyOf(p) == <<"body", p>>
Is(token, kind) == token # Eof /\ token # Torn /\ token[1] = kind

None == [p \in Payloads |-> 0]

Init ==
  /\ link = [c \in Clients |-> "none"]
  /\ pipe = [c \in Clients |-> << >>]
  /\ server = "up"
  /\ owed = None /\ seen = None /\ given = None
  /\ cut = FALSE
  /\ quit = {}
  /\ buffer = [c \in Clients |-> << >>]
  /\ waiter = [c \in Clients |-> NoOne]
  /\ reader = NoOne
  /\ at = [c \in Clients |-> "header"]
  /\ from = [c \in Clients |-> c]
  /\ ready = {}
  /\ turn = NoOne
  /\ shared = FALSE

handlers == <<at, from, turn, shared>>
readers == <<buffer, waiter, ready>>

-----------------------------------------------------------------------------
(* The clients and their connections.                                       *)
Ended(c) == Eof \in Range(pipe[c]) \cup Range(buffer[c])
Open(c) == link[c] \in {"queued", "served"} /\ ~Ended(c)

Connect(c) ==
  /\ link[c] = "none" /\ server # "down"
  /\ link' = [link EXCEPT ![c] = "queued"]
  /\ UNCHANGED <<pipe, server, owed, seen, given, cut, quit, reader, readers, handlers>>

SendFrame(c, p) ==
  /\ Open(c) /\ owed[p] = 0
  /\ pipe' = [pipe EXCEPT ![c] = @ \o <<HeaderOf(p), BodyOf(p)>>]
  /\ owed' = [owed EXCEPT ![p] = 1]
  /\ UNCHANGED <<link, server, seen, given, cut, quit, reader, readers, handlers>>

(* The server has closed the connection, which send_frame() at the client   *)
(* does not notice: what it writes is lost.                                 *)
SendInVain(c, p) ==
  /\ link[c] # "none" /\ ~Open(c) /\ c \notin quit
  /\ owed[p] = 0
  /\ owed' = [owed EXCEPT ![p] = 1]
  /\ cut' = TRUE
  /\ UNCHANGED <<link, pipe, server, seen, given, quit, reader, readers, handlers>>

Disconnect(c) ==
  /\ Open(c)
  /\ pipe' = [pipe EXCEPT ![c] = Append(@, Eof)]
  /\ quit' = quit \cup {c}
  /\ UNCHANGED <<link, server, owed, seen, given, cut, reader, readers, handlers>>

Break(c) ==
  /\ Open(c) /\ pipe[c] # << >>
  /\ \E s \in Prefixes(pipe[c]) \ {pipe[c]} : pipe' = [pipe EXCEPT ![c] = Append(s, Eof)]
  /\ cut' = TRUE
  /\ quit' = quit \cup {c}
  /\ UNCHANGED <<link, server, owed, seen, given, reader, readers, handlers>>

(* feed_data or feed_eof: the waiter is woken, and is none any more.        *)
Feed(c, token) ==
  /\ buffer' = [buffer EXCEPT ![c] = Append(@, token)]
  /\ ready' = ready \cup ({waiter[c]} \ {NoOne})
  /\ waiter' = [waiter EXCEPT ![c] = NoOne]

Arrive(c) ==
  /\ turn = NoOne
  /\ link[c] \in {"queued", "served"} /\ pipe[c] # << >>
  /\ Feed(c, Head(pipe[c]))
  /\ pipe' = [pipe EXCEPT ![c] = Tail(@)]
  /\ seen' = [p \in Payloads |-> seen[p] + IF Head(pipe[c]) = BodyOf(p) THEN 1 ELSE 0]
  /\ UNCHANGED <<link, server, owed, given, cut, quit, reader, handlers>>

(* A writer is closed: what its connection carries is lost, and the reader  *)
(* is told of the end.                                                      *)
CloseWriter(c) ==
  /\ pipe' = [pipe EXCEPT ![c] = << >>]
  /\ cut' = (cut \/ (Range(pipe[c]) \cup Range(buffer[c])) \ {Eof} # {})
  /\ IF Eof \in Range(buffer[c]) THEN UNCHANGED readers ELSE Feed(c, Eof)

-----------------------------------------------------------------------------
(* A handler.                                                               *)
Start(c) ==
  /\ turn = NoOne /\ link[c] = "queued"
  /\ link' = [link EXCEPT ![c] = "served"]
  /\ reader' = c
  /\ turn' = c
  /\ shared' = (shared \/ \E d \in Clients : link[d] = "served")
  /\ UNCHANGED <<pipe, server, owed, seen, given, cut, quit, at, from, readers>>

(* recv_frame looks up _reader for the header and again for the body.       *)
Goto(h, place) ==
  /\ at' = [at EXCEPT ![h] = place]
  /\ from' = [from EXCEPT ![h] = reader]
  /\ turn' = h
Rest(h) == Tail(buffer[from[h]])
Holds(h, rest) == buffer' = [buffer EXCEPT ![from[h]] = rest]

ReadHeader(h) ==
  /\ at[h] = "header" /\ Is(Head(buffer[from[h]]), "header")
  /\ Holds(h, Rest(h))
  /\ Goto(h, "body")
  /\ UNCHANGED <<link, pipe, given, cut>>

(* The hash of the frame is right: it goes to on_frame, which is awaited if *)
(* it is a coroutine.                                                       *)
ReadBody(h) ==
  LET token == Head(buffer[from[h]])
  IN  /\ at[h] = "body" /\ Is(token, "body")
      /\ Holds(h, Rest(h))
      /\ given' = [given EXCEPT ![token[2]] = @ + 1]
      /\ \/ at' = [at EXCEPT ![h] = "callback"] /\ turn' = NoOne /\ UNCHANGED from
         \/ Goto(h, "header")
      /\ UNCHANGED <<link, pipe, cut>>

(* A header where a body was to come: the rest of it is taken from what     *)
(* follows.                                                                 *)
ReadHeaderAsBody(h) ==
  /\ at[h] = "body" /\ Is(Head(buffer[from[h]]), "header")
  /\ Holds(h, Rest(h))
  /\ at' = [at EXCEPT ![h] = "torn"]
  /\ turn' = h
  /\ UNCHANGED <<link, pipe, given, cut, from>>

Reads(h) == ReadHeader(h) \/ ReadBody(h) \/ ReadHeaderAsBody(h)

(* The magic, the hash or the end of the stream: the handler raises.        *)
Raises(h) ==
  LET token == Head(buffer[from[h]])
  IN  \/ token \in {Eof, Torn}
      \/ at[h] = "header" /\ Is(token, "body")
      \/ at[h] = "torn"
AfterRaising(h) ==
  LET token == Head(buffer[from[h]])
  IN  IF token = Eof THEN buffer[from[h]]
      ELSE IF token = Torn THEN Rest(h) ELSE <<Torn>> \o Rest(h)

(* The handler ends and closes the writer of its own connection.  rest is   *)
(* what it leaves in the reader it read from.                               *)
Ends(h, rest, waiters, awake) ==
  LET left == [buffer EXCEPT ![from[h]] = rest]
      told == Eof \in Range(left[h])
  IN  /\ link' = [link EXCEPT ![h] = "closed"]
      /\ turn' = NoOne
      /\ pipe' = [pipe EXCEPT ![h] = << >>]
      /\ cut' = (cut \/ (Range(pipe[h]) \cup Range(left[h])) \ {Eof} # {})
      /\ buffer' = IF told THEN left ELSE [left EXCEPT ![h] = Append(@, Eof)]
      /\ ready' = IF told THEN awake ELSE awake \cup ({waiters[h]} \ {NoOne})
      /\ waiter' = IF told THEN waiters ELSE [waiters EXCEPT ![h] = NoOne]
      /\ UNCHANGED <<at, from, given>>

Takes(h, waiters, awake) ==
  \/ ~Raises(h) /\ Reads(h) /\ waiter' = waiters /\ ready' = awake
  \/ Raises(h) /\ Ends(h, AfterRaising(h), waiters, awake)

(* read() with something in the buffer does not await; without, it waits,   *)
(* unless another task waits there: RuntimeError.                           *)
Read(h) ==
  LET r == from[h]
  IN  /\ turn = h
      /\ \/ buffer[r] # << >> /\ Takes(h, waiter, ready)
         \/ /\ buffer[r] = << >> /\ waiter[r] = NoOne
            /\ waiter' = [waiter EXCEPT ![r] = h]
            /\ turn' = NoOne
            /\ UNCHANGED <<link, pipe, given, cut, buffer, ready, at, from>>
         \/ /\ buffer[r] = << >> /\ waiter[r] # NoOne
            /\ Ends(h, << >>, waiter, ready)
      /\ UNCHANGED <<server, owed, seen, quit, reader, shared>>

(* A woken handler resets the waiter of the reader, whoever waits there by  *)
(* now, and takes what is left: nothing looks like the end of the stream.   *)
Resume(h) ==
  LET r == from[h]
      waiters == [waiter EXCEPT ![r] = NoOne]
  IN  /\ turn = NoOne /\ h \in ready
      /\ \/ buffer[r] # << >> /\ Takes(h, waiters, ready \ {h})
         \/ buffer[r] = << >> /\ Ends(h, << >>, waiters, ready \ {h})
      /\ UNCHANGED <<server, owed, seen, quit, reader, shared>>

(* on_frame returns, or raises.                                             *)
CallbackEnds(h) ==
  /\ turn = NoOne /\ link[h] = "served" /\ at[h] = "callback"
  /\ \/ Goto(h, "header") /\ UNCHANGED <<link, pipe, given, cut, readers>>
     \/ Ends(h, buffer[from[h]], waiter, ready)
  /\ UNCHANGED <<server, owed, seen, quit, reader, shared>>

(* close(): the last connection is closed, and when that is done the server *)
(* is: until then it accepts, and the handlers of the others go on.         *)
Close ==
  /\ turn = NoOne /\ server = "up"
  /\ \/ reader = NoOne /\ server' = "down" /\ UNCHANGED <<pipe, cut, readers>>
     \/ reader # NoOne /\ server' = "closing" /\ CloseWriter(reader)
  /\ UNCHANGED <<link, owed, seen, given, quit, reader, handlers>>

Closed ==
  /\ turn = NoOne /\ server = "closing"
  /\ server' = "down"
  /\ UNCHANGED <<link, pipe, owed, seen, given, cut, quit, reader, readers, handlers>>

Works ==
  \E c \in Clients : Arrive(c) \/ Start(c) \/ Read(c) \/ Resume(c) \/ CallbackEnds(c)

Next ==
  \/ \E c \in Clients : Connect(c) \/ Disconnect(c) \/ Break(c)
  \/ \E c \in Clients, p \in Payloads : SendFrame(c, p) \/ SendInVain(c, p)
  \/ Works
  \/ Close
  \/ Closed

-----------------------------------------------------------------------------
Tokens == {HeaderOf(p) : p \in Payloads} \cup {BodyOf(p) : p \in Payloads} \cup {Eof, Torn}

TypeOK ==
  /\ link \in [Clients -> {"none", "queued", "served", "closed"}]
  /\ pipe \in [Clients -> Seq(Tokens)] /\ buffer \in [Clients -> Seq(Tokens)]
  /\ server \in {"up", "closing", "down"}
  /\ owed \in [Payloads -> 0..1] /\ seen \in [Payloads -> 0..1] /\ given \in [Payloads -> 0..1]
  /\ waiter \in [Clients -> Clients \cup {NoOne}]
  /\ reader \in Clients \cup {NoOne} /\ turn \in Clients \cup {NoOne}
  /\ at \in [Clients -> {"header", "body", "torn", "callback"}]
  /\ from \in [Clients -> Clients]
  /\ ready \subseteq Clients /\ quit \subseteq Clients
  /\ cut \in BOOLEAN /\ shared \in BOOLEAN

(* While connections come one after the other and none is cut short, every  *)
(* frame is on its way or handed over, and the handler that is to read it   *)
(* is running, woken, or waits where its connection will wake it.           *)
NothingStuck ==
  ~cut /\ ~shared =>
    /\ \A p \in Payloads :
         owed[p] = given[p] + Cardinality({c \in Clients :
                     BodyOf(p) \in Range(pipe[c]) \cup Range(buffer[c])})
    /\ \A c \in Clients : link[c] = "served" =>
         turn = c \/ c \in ready \/ at[c] = "callback" \/ waiter[c] = c

(* A frame is due until it is handed over, unless a connection was cut      *)
(* short or written to in vain, or two handlers read from one reader.       *)
Due(p) == owed[p] > 0
Settled(p) == given[p] = owed[p] \/ cut \/ shared
=============================================================================
