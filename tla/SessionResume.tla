--------------------------- MODULE SessionResume ---------------------------
(***************************************************************************)
(* The handshake with session tickets (security/handshake.py,              *)
(* session_ticket.py): connections of one device that resume with the      *)
(* ticket the client process keeps for the device, or make a full          *)
(* handshake.  The keys of a full handshake are named after its            *)
(* connection, and so is the ticket for them.  Both ends use the ticket    *)
(* store of one process.  src/ has no server that understands a resume     *)
(* frame: the one here acknowledges it and leaves the ticket to the        *)
(* client, which is what _try_resume needs to succeed.                     *)
(***************************************************************************)
EXTENDS Naturals, Sequences

CONSTANTS Conns, NoTicket, NoKeys

VARIABLES
  client,    \* start, resuming, hello, ticket, done, resumed, failed
  using,     \* the ticket the connection resumes with
  saved,     \* _client_tickets of the device
  store,     \* tickets in _ticket_store
  serverAt,  \* waiting, resumed, done, failed
  toServer, toClient,
  clientKeys, serverKeys,
  spent      \* how often each ticket gave a client its keys

vars == <<client, using, saved, store, serverAt, toServer, toClient,
          clientKeys, serverKeys, spent>>

Hello == [is |-> "hello"]
Resume(t) == [is |-> "resume", ticket |-> t]
Ack == [is |-> "ack"]
Ticket(t) == [is |-> "ticket", ticket |-> t]
End == [is |-> "end"]

Init ==
  /\ client = [c \in Conns |-> "start"]
  /\ using = [c \in Conns |-> NoTicket]
  /\ saved = NoTicket
  /\ store = {}
  /\ serverAt = [c \in Conns |-> "waiting"]
  /\ toServer = [c \in Conns |-> << >>]
  /\ toClient = [c \in Conns |-> << >>]
  /\ clientKeys = [c \in Conns |-> NoKeys]
  /\ serverKeys = [c \in Conns |-> NoKeys]
  /\ spent = [c \in Conns |-> 0]

Goes(c, state) == client' = [client EXCEPT ![c] = state]
Sends(c, msg) == toServer' = [toServer EXCEPT ![c] = Append(@, msg)]
Comes(c, kind) == toClient[c] # << >> /\ Head(toClient[c]).is = kind
Reads(c) == toClient' = [toClient EXCEPT ![c] = Tail(@)]

-----------------------------------------------------------------------------
(* The client.  Several connections may take the same ticket.               *)
Start(c) ==
  /\ client[c] = "start"
  /\ \/ /\ saved # NoTicket
        /\ using' = [using EXCEPT ![c] = saved]
        /\ Sends(c, Resume(saved))
        /\ Goes(c, "resuming")
     \/ /\ saved = NoTicket
        /\ Sends(c, Hello)
        /\ Goes(c, "hello")
        /\ UNCHANGED using
  /\ UNCHANGED <<saved, store, serverAt, toClient, clientKeys, serverKeys, spent>>

(* redeem_ticket: the ticket is in the store, and only once.                *)
RedeemKeeps(c) ==                                         \* mutant of Redeem
  /\ using[c] \in store
  /\ UNCHANGED store
Redeem(c) ==
  /\ using[c] \in store
  /\ store' = store \ {using[c]}

Resumed(c) ==
  /\ client[c] = "resuming" /\ Comes(c, "ack")
  /\ Reads(c)
  /\ Redeem(c)
  /\ clientKeys' = [clientKeys EXCEPT ![c] = using[c]]
  /\ spent' = [spent EXCEPT ![using[c]] = @ + 1]
  /\ Goes(c, "resumed")
  /\ UNCHANGED <<using, saved, serverAt, toServer, serverKeys>>

(* No answer in time, the end of the stream, or a ticket that cannot be     *)
(* redeemed: the device's ticket is forgotten, also a newer one, and the    *)
(* full handshake goes over the same stream.                                *)
FallBack(c) ==
  /\ client[c] = "resuming"
  /\ \/ UNCHANGED toClient
     \/ Comes(c, "ack") /\ using[c] \notin store /\ Reads(c)
  /\ saved' = NoTicket
  /\ Sends(c, Hello)
  /\ Goes(c, "hello")
  /\ UNCHANGED <<using, store, serverAt, clientKeys, serverKeys, spent>>

ServerHelloSkipsAck(c) ==                                 \* mutant of ServerHello
  /\ client[c] = "hello" /\ (Comes(c, "hello") \/ Comes(c, "ack"))
  /\ Reads(c)
  /\ clientKeys' = [clientKeys EXCEPT ![c] = c]
  /\ Goes(c, "ticket")
  /\ UNCHANGED <<using, saved, store, serverAt, toServer, serverKeys, spent>>

ServerHello(c) ==
  /\ client[c] = "hello" /\ Comes(c, "hello")
  /\ Reads(c)
  /\ clientKeys' = [clientKeys EXCEPT ![c] = c]
  /\ Goes(c, "ticket")
  /\ UNCHANGED <<using, saved, store, serverAt, toServer, serverKeys, spent>>

(* Ten seconds without an answer, the end of the stream, or the late answer *)
(* to a resume where the salt and the hello are expected.                   *)
HandshakeFails(c) ==
  /\ client[c] = "hello"
  /\ toClient[c] = << >> \/ Comes(c, "end") \/ Comes(c, "ack")
  /\ Goes(c, "failed")
  /\ UNCHANGED <<using, saved, store, serverAt, toServer, toClient,
                 clientKeys, serverKeys, spent>>

(* The ticket is kept if it comes within two seconds.                       *)
TakeTicket(c) ==
  /\ client[c] = "ticket"
  /\ \/ /\ Comes(c, "ticket")
        /\ saved' = Head(toClient[c]).ticket
        /\ Reads(c)
     \/ UNCHANGED <<saved, toClient>>
  /\ Goes(c, "done")
  /\ UNCHANGED <<using, store, serverAt, toServer, clientKeys, serverKeys, spent>>

-----------------------------------------------------------------------------
(* The server.                                                              *)
Serves(c, kind) == toServer[c] # << >> /\ Head(toServer[c]).is = kind

(* perform_server_handshake_with_ticket.                                    *)
FullHandshake(c) ==
  /\ serverAt[c] \in {"waiting", "resumed"} /\ Serves(c, "hello")
  /\ toServer' = [toServer EXCEPT ![c] = Tail(@)]
  /\ serverKeys' = [serverKeys EXCEPT ![c] = c]
  /\ store' = store \cup {c}
  /\ toClient' = [toClient EXCEPT ![c] = @ \o <<Hello, Ticket(c)>>]
  /\ serverAt' = [serverAt EXCEPT ![c] = "done"]
  /\ UNCHANGED <<client, using, saved, clientKeys, spent>>

(* The same, given a resume frame: it is no hello, ValueError.              *)
Misreads(c) ==
  /\ serverAt[c] = "waiting" /\ Serves(c, "resume")
  /\ toClient' = [toClient EXCEPT ![c] = Append(@, End)]
  /\ serverAt' = [serverAt EXCEPT ![c] = "failed"]
  /\ UNCHANGED <<client, using, saved, store, toServer, clientKeys, serverKeys, spent>>

(* A server that knows resume frames.                                       *)
Acknowledges(c) ==
  /\ serverAt[c] = "waiting" /\ Serves(c, "resume")
  /\ toServer' = [toServer EXCEPT ![c] = Tail(@)]
  /\ toClient' = [toClient EXCEPT ![c] = Append(@, Ack)]
  /\ serverKeys' = [serverKeys EXCEPT ![c] = Head(toServer[c]).ticket]
  /\ serverAt' = [serverAt EXCEPT ![c] = "resumed"]
  /\ UNCHANGED <<client, using, saved, store, clientKeys, spent>>

(* A ticket expires; evict_expired or the next use finds it so.             *)
Expire(t) ==
  /\ t \in store
  /\ store' = store \ {t}
  /\ UNCHANGED <<client, using, saved, serverAt, toServer, toClient,
                 clientKeys, serverKeys, spent>>

Next ==
  \E c \in Conns :
    \/ Start(c) \/ Resumed(c) \/ FallBack(c)
    \/ ServerHello(c) \/ HandshakeFails(c) \/ TakeTicket(c)
    \/ FullHandshake(c) \/ Misreads(c) \/ Acknowledges(c) \/ Expire(c)

-----------------------------------------------------------------------------
TypeOK ==
  /\ client \in [Conns -> {"start", "resuming", "hello", "ticket", "done", "resumed", "failed"}]
  /\ using \in [Conns -> Conns \cup {NoTicket}]
  /\ saved \in Conns \cup {NoTicket}
  /\ store \subseteq Conns
  /\ serverAt \in [Conns -> {"waiting", "resumed", "done", "failed"}]
  /\ clientKeys \in [Conns -> Conns \cup {NoKeys}]
  /\ serverKeys \in [Conns -> Conns \cup {NoKeys}]
  /\ spent \in [Conns -> Nat]

(* A client that came through has the keys of the server at the other end   *)
(* of its stream, whichever way it took and whatever answer came late.      *)
KeysAgree ==
  \A c \in Conns : clientKeys[c] # NoKeys => clientKeys[c] = serverKeys[c]

(* However many connections resume with one ticket, one of them succeeds.   *)
TicketsAreSingleUse == \A c \in Conns : spent[c] <= 1
=============================================================================
