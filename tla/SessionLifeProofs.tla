------------------------- MODULE SessionLifeProofs -------------------------
(***************************************************************************)
(* Proofs about SessionLife: its parts share no state, so the inductive    *)
(* invariant is the conjunction of one for each part, and a step of a part *)
(* leaves those of the others alone.                                       *)
(***************************************************************************)
EXTENDS SessionLife, Inductions, FiniteSetTheorems, SequenceTheorems, TLAPS

-----------------------------------------------------------------------------
(* The handshake.  What is on its way in each direction, and what it tells  *)
(* of the two ends of the stream.                                           *)
Messages(seq) == {seq[i] : i \in 1..Len(seq)}

ToServer == {Handshake!Hello} \cup {Handshake!Resume(t) : t \in Conns}
ToClient == {Handshake!Hello, Handshake!Ack, Handshake!End}
              \cup {Handshake!Ticket(t) : t \in Conns}

Unasked(c) ==
  client[c] = "start" =>
    serverAt[c] = "waiting" /\ Messages(toServer[c]) = {} /\ Messages(toClient[c]) = {}
Resuming(c) ==
  client[c] \in {"resuming", "resumed"} =>
    /\ using[c] \in Conns
    /\ Messages(toServer[c]) \subseteq {Handshake!Resume(using[c])}
    /\ serverAt[c] # "done"
    /\ serverAt[c] = "resumed" => serverKeys[c] = using[c]
Acknowledged(c) ==
  /\ client[c] = "resuming" /\ Handshake!Ack \in Messages(toClient[c]) => serverAt[c] = "resumed"
  /\ client[c] = "resumed" => serverAt[c] = "resumed" /\ clientKeys[c] = using[c]
Greeted(c) ==
  /\ Handshake!Hello \in Messages(toClient[c]) => serverAt[c] = "done"
  /\ serverAt[c] = "done" => serverKeys[c] = c
  /\ client[c] \in {"ticket", "done"} => serverAt[c] = "done" /\ clientKeys[c] = c
  /\ clientKeys[c] # NoKeys => client[c] \in {"resumed", "ticket", "done"}
(* A ticket that was spent was issued, by the one full handshake of its     *)
(* connection, and is in the store no more.                                 *)
SpentIsGone(c) ==
  /\ c \in store => serverAt[c] = "done"
  /\ spent[c] \in {0, 1}
  /\ spent[c] = 1 => serverAt[c] = "done" /\ c \notin store

StreamInv(c) ==
  Unasked(c) /\ Resuming(c) /\ Acknowledged(c) /\ Greeted(c) /\ SpentIsGone(c)

HandshakeInv ==
  /\ Handshake!TypeOK
  /\ toServer \in [Conns -> Seq(ToServer)]
  /\ toClient \in [Conns -> Seq(ToClient)]
  /\ \A c \in Conns : StreamInv(c)

(* Reading, and writing one or two messages.                                *)
LEMMA Read ==
  ASSUME NEW S, NEW seq \in Seq(S), seq # << >>
  PROVE  /\ Tail(seq) \in Seq(S) /\ Messages(Tail(seq)) \subseteq Messages(seq)
         /\ Head(seq) \in S /\ Head(seq) \in Messages(seq)
<1>1. Len(seq) \in Nat /\ Len(seq) > 0
  BY EmptySeq
<1>2. /\ Tail(seq) \in Seq(S) /\ Head(seq) \in S /\ Len(Tail(seq)) = Len(seq) - 1
      /\ \A i \in 1..Len(Tail(seq)) : Tail(seq)[i] = seq[i + 1]
  BY HeadTailProperties
<1>3. Head(seq) = seq[1]
  BY <1>1
<1>4. \A i \in 1..Len(Tail(seq)) : i + 1 \in 1..Len(seq)
  BY <1>1, <1>2
<1>5. Messages(Tail(seq)) \subseteq Messages(seq)
  BY <1>2, <1>4, Zenon DEF Messages
<1>6. 1 \in 1..Len(seq)
  BY <1>1
<1> QED BY <1>2, <1>3, <1>5, <1>6 DEF Messages

LEMMA Written ==
  ASSUME NEW S, NEW seq \in Seq(S), NEW m \in S
  PROVE  /\ Append(seq, m) \in Seq(S)
         /\ Messages(Append(seq, m)) = Messages(seq) \cup {m}
<1>1. Len(seq) \in Nat
  BY LenProperties
<1>2. /\ Append(seq, m) \in Seq(S) /\ Len(Append(seq, m)) = Len(seq) + 1
      /\ \A i \in 1..Len(seq) : Append(seq, m)[i] = seq[i]
      /\ Append(seq, m)[Len(seq) + 1] = m
  BY AppendProperties
<1>3. 1..Len(Append(seq, m)) = 1..Len(seq) \cup {Len(seq) + 1}
  BY <1>1, <1>2
<1> QED BY <1>2, <1>3, Zenon DEF Messages

LEMMA WrittenTwo ==
  ASSUME NEW S, NEW seq \in Seq(S), NEW m \in S, NEW n \in S
  PROVE  /\ seq \o <<m, n>> \in Seq(S)
         /\ Messages(seq \o <<m, n>>) = Messages(seq) \cup {m, n}
<1>1. <<m, n>> \in Seq(S) /\ Len(<<m, n>>) = 2 /\ <<m, n>>[1] = m /\ <<m, n>>[2] = n
  <2>1. <<m, n>> \in [1..2 -> S] /\ <<m, n>>[1] = m /\ <<m, n>>[2] = n
    OBVIOUS
  <2>2. <<m, n>> \in Seq(S)
    BY <2>1, SeqDef
  <2>4. Len(<<m, n>>) = 2
    OBVIOUS
  <2> QED BY <2>1, <2>2, <2>4
<1>2. seq \o <<m, n>> \in Seq(S)
  BY <1>1, ConcatProperties
<1>3. /\ Messages(seq \o <<m, n>>) = Range(seq \o <<m, n>>)
      /\ Messages(seq) = Range(seq)
      /\ Messages(<<m, n>>) = Range(<<m, n>>)
  BY <1>1, <1>2, RangeEquality DEF Messages
<1>4. Range(seq \o <<m, n>>) = Range(seq) \cup Range(<<m, n>>)
  BY <1>1, RangeConcatenation
<1>5. 1..Len(<<m, n>>) = {1, 2}
  BY <1>1
<1>6. Messages(<<m, n>>) = {<<m, n>>[1], <<m, n>>[2]}
  BY <1>5, Zenon DEF Messages
<1> QED BY <1>1, <1>2, <1>3, <1>4, <1>6

(* A step of a connection changes what its own stream carries.              *)
OthersRest(c) ==
  \A d \in Conns \ {c} :
    /\ client'[d] = client[d] /\ using'[d] = using[d] /\ serverAt'[d] = serverAt[d]
    /\ toServer'[d] = toServer[d] /\ toClient'[d] = toClient[d]
    /\ clientKeys'[d] = clientKeys[d] /\ serverKeys'[d] = serverKeys[d]
Talks(c) == Unasked(c) /\ Resuming(c) /\ Acknowledged(c) /\ Greeted(c)
Channels ==
  /\ toServer \in [Conns -> Seq(ToServer)]
  /\ toClient \in [Conns -> Seq(ToClient)]

LEMMA TalksElsewhere ==
  ASSUME NEW c \in Conns, OthersRest(c), NEW d \in Conns, d # c, Talks(d)
  PROVE  Talks(d)'
BY DEF Talks, OthersRest, Unasked, Resuming, Acknowledged, Greeted

(* The kind of a message tells which it is.                                 *)
LEMMA Kinds ==
  /\ \A m \in ToServer : /\ m.is = "hello" => m = Handshake!Hello
                         /\ m.is = "resume" => m.ticket \in Conns /\ m = Handshake!Resume(m.ticket)
  /\ \A m \in ToClient : /\ m.is = "hello" => m = Handshake!Hello
                         /\ m.is = "ack" => m = Handshake!Ack
                         /\ m.is = "ticket" => m.ticket \in Conns
  /\ \A t, u : Handshake!Resume(t) = Handshake!Resume(u) => t = u
  /\ \A t : /\ Handshake!Resume(t) # Handshake!Hello
            /\ Handshake!Ticket(t) \notin {Handshake!Hello, Handshake!Ack}
  /\ Handshake!Hello # Handshake!Ack /\ Handshake!End \notin {Handshake!Hello, Handshake!Ack}
<1> USE DEF ToServer, ToClient, Handshake!Hello, Handshake!Resume, Handshake!Ack,
            Handshake!Ticket, Handshake!End
<1>1. \A m \in ToServer : /\ m.is = "hello" => m = Handshake!Hello
                          /\ m.is = "resume" => m.ticket \in Conns /\ m = Handshake!Resume(m.ticket)
  OBVIOUS
<1>2. \A m \in ToClient : /\ m.is = "hello" => m = Handshake!Hello
                          /\ m.is = "ack" => m = Handshake!Ack
                          /\ m.is = "ticket" => m.ticket \in Conns
  OBVIOUS
<1>3. \A t, u : Handshake!Resume(t) = Handshake!Resume(u) => t = u
  <2>1. \A t : Handshake!Resume(t).ticket = t
    OBVIOUS
  <2> QED BY <2>1
<1>4. \A t : Handshake!Resume(t).is = "resume" /\ Handshake!Ticket(t).is = "ticket"
  OBVIOUS
<1>5. Handshake!Hello.is = "hello" /\ Handshake!Ack.is = "ack" /\ Handshake!End.is = "end"
  OBVIOUS
<1> HIDE DEF Handshake!Hello, Handshake!Resume, Handshake!Ack, Handshake!Ticket, Handshake!End
<1>6. /\ \A t : /\ Handshake!Resume(t) # Handshake!Hello
                /\ Handshake!Ticket(t) \notin {Handshake!Hello, Handshake!Ack}
      /\ Handshake!Hello # Handshake!Ack /\ Handshake!End \notin {Handshake!Hello, Handshake!Ack}
  BY <1>4, <1>5
<1> QED BY <1>1, <1>2, <1>3, <1>6

LEMMA ClientReads ==
  ASSUME HandshakeInv, NEW c \in Conns, toClient[c] # << >>, Handshake!Reads(c)
  PROVE  /\ toClient' \in [Conns -> Seq(ToClient)]
         /\ \A d \in Conns \ {c} : toClient'[d] = toClient[d]
         /\ Messages(toClient'[c]) \subseteq Messages(toClient[c])
         /\ Head(toClient[c]) \in ToClient /\ Head(toClient[c]) \in Messages(toClient[c])
<1>1. toClient \in [Conns -> Seq(ToClient)] /\ toClient[c] \in Seq(ToClient)
  BY DEF HandshakeInv
<1>2. toClient' = [toClient EXCEPT ![c] = Tail(toClient[c])]
  BY DEF Handshake!Reads
<1>3. /\ Tail(toClient[c]) \in Seq(ToClient)
      /\ Messages(Tail(toClient[c])) \subseteq Messages(toClient[c])
      /\ Head(toClient[c]) \in ToClient /\ Head(toClient[c]) \in Messages(toClient[c])
  BY <1>1, Read
<1> QED BY <1>1, <1>2, <1>3

LEMMA ClientSends ==
  ASSUME HandshakeInv, NEW c \in Conns, NEW m \in ToServer, Handshake!Sends(c, m)
  PROVE  /\ toServer' \in [Conns -> Seq(ToServer)]
         /\ \A d \in Conns \ {c} : toServer'[d] = toServer[d]
         /\ Messages(toServer'[c]) = Messages(toServer[c]) \cup {m}
<1>1. toServer \in [Conns -> Seq(ToServer)] /\ toServer[c] \in Seq(ToServer)
  BY DEF HandshakeInv
<1>2. toServer' = [toServer EXCEPT ![c] = Append(toServer[c], m)]
  BY DEF Handshake!Sends
<1>3. /\ Append(toServer[c], m) \in Seq(ToServer)
      /\ Messages(Append(toServer[c], m)) = Messages(toServer[c]) \cup {m}
  BY <1>1, Written
<1> QED BY <1>1, <1>2, <1>3

LEMMA ServerReads ==
  ASSUME HandshakeInv, NEW c \in Conns, toServer[c] # << >>,
         toServer' = [toServer EXCEPT ![c] = Tail(toServer[c])]
  PROVE  /\ toServer' \in [Conns -> Seq(ToServer)]
         /\ \A d \in Conns \ {c} : toServer'[d] = toServer[d]
         /\ Messages(toServer'[c]) \subseteq Messages(toServer[c])
<1>1. toServer \in [Conns -> Seq(ToServer)] /\ toServer[c] \in Seq(ToServer)
  BY DEF HandshakeInv
<1>2. /\ Tail(toServer[c]) \in Seq(ToServer)
      /\ Messages(Tail(toServer[c])) \subseteq Messages(toServer[c])
  BY <1>1, Read
<1> QED BY <1>1, <1>2

LEMMA ServerSends ==
  ASSUME HandshakeInv, NEW c \in Conns, NEW m \in ToClient,
         toClient' = [toClient EXCEPT ![c] = Append(toClient[c], m)]
  PROVE  /\ toClient' \in [Conns -> Seq(ToClient)]
         /\ \A d \in Conns \ {c} : toClient'[d] = toClient[d]
         /\ Messages(toClient'[c]) = Messages(toClient[c]) \cup {m}
<1>1. toClient \in [Conns -> Seq(ToClient)] /\ toClient[c] \in Seq(ToClient)
  BY DEF HandshakeInv
<1>2. /\ Append(toClient[c], m) \in Seq(ToClient)
      /\ Messages(Append(toClient[c], m)) = Messages(toClient[c]) \cup {m}
  BY <1>1, Written
<1> QED BY <1>1, <1>2

(* The steps of a client.                                                   *)
LEMMA ClientSteps ==
  ASSUME HandshakeInv, NEW c \in Conns,
         \/ Handshake!Start(c) \/ Handshake!Resumed(c) \/ Handshake!FallBack(c)
         \/ Handshake!ServerHello(c) \/ Handshake!HandshakeFails(c) \/ Handshake!TakeTicket(c)
  PROVE  Channels' /\ OthersRest(c) /\ Talks(c)'
<1> USE DEF HandshakeInv, Handshake!TypeOK, Handshake!Goes
<1>0. Talks(c) /\ Channels
  BY DEF StreamInv, Talks, Channels
<1>1. CASE Handshake!Start(c)
  <2>1. CASE saved # NoTicket
    <3>1. /\ saved \in Conns /\ Handshake!Resume(saved) \in ToServer
          /\ Handshake!Sends(c, Handshake!Resume(saved))
      BY <1>1, <2>1, Kinds DEF Handshake!Start, ToServer
    <3>2. /\ toServer' \in [Conns -> Seq(ToServer)]
          /\ \A d \in Conns \ {c} : toServer'[d] = toServer[d]
          /\ Messages(toServer'[c]) = Messages(toServer[c]) \cup {Handshake!Resume(saved)}
      BY <3>1, ClientSends
    <3>3. /\ client' = [client EXCEPT ![c] = "resuming"] /\ using' = [using EXCEPT ![c] = saved]
          /\ UNCHANGED <<serverAt, toClient, clientKeys, serverKeys>> /\ client[c] = "start"
      BY <1>1, <2>1 DEF Handshake!Start
    <3>4. Channels' /\ OthersRest(c)
      BY <1>0, <3>2, <3>3 DEF Channels, OthersRest
    <3>5. Talks(c)'
      BY <1>0, <3>1, <3>2, <3>3 DEF Talks, Unasked, Resuming, Acknowledged, Greeted
    <3> QED BY <3>4, <3>5
  <2>2. CASE saved = NoTicket
    <3>1. Handshake!Hello \in ToServer /\ Handshake!Sends(c, Handshake!Hello)
      BY <1>1, <2>2 DEF Handshake!Start, ToServer
    <3>2. /\ toServer' \in [Conns -> Seq(ToServer)]
          /\ \A d \in Conns \ {c} : toServer'[d] = toServer[d]
      BY <3>1, ClientSends
    <3>3. /\ client' = [client EXCEPT ![c] = "hello"] /\ client[c] = "start"
          /\ UNCHANGED <<using, serverAt, toClient, clientKeys, serverKeys>>
      BY <1>1, <2>2 DEF Handshake!Start
    <3> QED BY <1>0, <3>2, <3>3
        DEF Talks, Unasked, Resuming, Acknowledged, Greeted, Channels, OthersRest
  <2> QED BY <2>1, <2>2
<1>2. CASE Handshake!Resumed(c)
  <2>1. /\ toClient[c] # << >> /\ Head(toClient[c]).is = "ack" /\ Handshake!Reads(c)
        /\ client[c] = "resuming" /\ client' = [client EXCEPT ![c] = "resumed"]
        /\ clientKeys' = [clientKeys EXCEPT ![c] = using[c]]
        /\ UNCHANGED <<using, serverAt, toServer, serverKeys>>
    BY <1>2 DEF Handshake!Resumed, Handshake!Comes
  <2>2. /\ toClient' \in [Conns -> Seq(ToClient)]
        /\ \A d \in Conns \ {c} : toClient'[d] = toClient[d]
        /\ Messages(toClient'[c]) \subseteq Messages(toClient[c])
        /\ Handshake!Ack \in Messages(toClient[c])
    BY <2>1, ClientReads, Kinds
  <2> QED BY <1>0, <2>1, <2>2
      DEF Talks, Unasked, Resuming, Acknowledged, Greeted, Channels, OthersRest
<1>3. CASE Handshake!FallBack(c)
  <2>1. /\ client[c] = "resuming" /\ client' = [client EXCEPT ![c] = "hello"]
        /\ UNCHANGED toClient \/ (toClient[c] # << >> /\ Handshake!Reads(c))
        /\ Handshake!Sends(c, Handshake!Hello) /\ Handshake!Hello \in ToServer
        /\ UNCHANGED <<using, serverAt, clientKeys, serverKeys>>
    BY <1>3 DEF Handshake!FallBack, Handshake!Comes, ToServer
  <2>2. /\ toServer' \in [Conns -> Seq(ToServer)]
        /\ \A d \in Conns \ {c} : toServer'[d] = toServer[d]
    BY <2>1, ClientSends
  <2>3. /\ toClient' \in [Conns -> Seq(ToClient)]
        /\ \A d \in Conns \ {c} : toClient'[d] = toClient[d]
        /\ Messages(toClient'[c]) \subseteq Messages(toClient[c])
    BY <2>1, ClientReads
  <2> QED BY <1>0, <2>1, <2>2, <2>3
      DEF Talks, Unasked, Resuming, Acknowledged, Greeted, Channels, OthersRest
<1>4. CASE Handshake!ServerHello(c)
  <2>1. /\ toClient[c] # << >> /\ Head(toClient[c]).is = "hello" /\ Handshake!Reads(c)
        /\ client[c] = "hello" /\ client' = [client EXCEPT ![c] = "ticket"]
        /\ clientKeys' = [clientKeys EXCEPT ![c] = c]
        /\ UNCHANGED <<using, serverAt, toServer, serverKeys>>
    BY <1>4 DEF Handshake!ServerHello, Handshake!Comes
  <2>2. /\ toClient' \in [Conns -> Seq(ToClient)]
        /\ \A d \in Conns \ {c} : toClient'[d] = toClient[d]
        /\ Messages(toClient'[c]) \subseteq Messages(toClient[c])
        /\ Handshake!Hello \in Messages(toClient[c])
    BY <2>1, ClientReads, Kinds
  <2> QED BY <1>0, <2>1, <2>2
      DEF Talks, Unasked, Resuming, Acknowledged, Greeted, Channels, OthersRest
<1>5. CASE Handshake!HandshakeFails(c)
  <2>1. /\ client[c] = "hello" /\ client' = [client EXCEPT ![c] = "failed"]
        /\ UNCHANGED <<using, serverAt, toServer, toClient, clientKeys, serverKeys>>
    BY <1>5 DEF Handshake!HandshakeFails
  <2> QED BY <1>0, <2>1
      DEF Talks, Unasked, Resuming, Acknowledged, Greeted, Channels, OthersRest
<1>6. CASE Handshake!TakeTicket(c)
  <2>1. /\ client[c] = "ticket" /\ client' = [client EXCEPT ![c] = "done"]
        /\ UNCHANGED toClient \/ (toClient[c] # << >> /\ Handshake!Reads(c))
        /\ UNCHANGED <<using, serverAt, toServer, clientKeys, serverKeys>>
    BY <1>6 DEF Handshake!TakeTicket, Handshake!Comes
  <2>2. /\ toClient' \in [Conns -> Seq(ToClient)]
        /\ \A d \in Conns \ {c} : toClient'[d] = toClient[d]
        /\ Messages(toClient'[c]) \subseteq Messages(toClient[c])
    BY <2>1, ClientReads
  <2> QED BY <1>0, <2>1, <2>2
      DEF Talks, Unasked, Resuming, Acknowledged, Greeted, Channels, OthersRest
<1> QED BY <1>1, <1>2, <1>3, <1>4, <1>5, <1>6

(* The steps of the server.                                                 *)
LEMMA ServerSteps ==
  ASSUME HandshakeInv, NEW c \in Conns,
         Handshake!FullHandshake(c) \/ Handshake!Misreads(c) \/ Handshake!Acknowledges(c)
  PROVE  Channels' /\ OthersRest(c) /\ Talks(c)'
<1> USE DEF HandshakeInv, Handshake!TypeOK
<1>0. Talks(c) /\ Channels /\ toServer[c] \in Seq(ToServer)
  BY DEF StreamInv, Talks, Channels
<1>1. toServer[c] # << >> /\ Head(toServer[c]) \in ToServer /\ Head(toServer[c]) \in Messages(toServer[c])
  BY <1>0, Read DEF Handshake!FullHandshake, Handshake!Misreads, Handshake!Acknowledges, Handshake!Serves
<1>2. CASE Handshake!FullHandshake(c)
  <2>1. /\ serverAt[c] \in {"waiting", "resumed"} /\ Head(toServer[c]).is = "hello"
        /\ toServer' = [toServer EXCEPT ![c] = Tail(toServer[c])]
        /\ serverKeys' = [serverKeys EXCEPT ![c] = c]
        /\ toClient' = [toClient EXCEPT ![c] =
                          toClient[c] \o <<Handshake!Hello, Handshake!Ticket(c)>>]
        /\ serverAt' = [serverAt EXCEPT ![c] = "done"]
        /\ UNCHANGED <<client, using, clientKeys>>
    BY <1>2 DEF Handshake!FullHandshake, Handshake!Serves
  <2>2. /\ toServer' \in [Conns -> Seq(ToServer)]
        /\ \A d \in Conns \ {c} : toServer'[d] = toServer[d]
        /\ Messages(toServer'[c]) \subseteq Messages(toServer[c])
    BY <1>1, <2>1, ServerReads
  <2>3. Handshake!Hello \in ToClient /\ Handshake!Ticket(c) \in ToClient
    BY DEF ToClient
  <2>4. /\ toClient[c] \o <<Handshake!Hello, Handshake!Ticket(c)>> \in Seq(ToClient)
        /\ Messages(toClient[c] \o <<Handshake!Hello, Handshake!Ticket(c)>>)
             = Messages(toClient[c]) \cup {Handshake!Hello, Handshake!Ticket(c)}
    BY <2>3, WrittenTwo
  <2>5. /\ toClient' \in [Conns -> Seq(ToClient)]
        /\ \A d \in Conns \ {c} : toClient'[d] = toClient[d]
        /\ Messages(toClient'[c])
             = Messages(toClient[c]) \cup {Handshake!Hello, Handshake!Ticket(c)}
    BY <2>1, <2>4
  <2>6. Head(toServer[c]) = Handshake!Hello
    BY <1>1, <2>1, Kinds
  <2>7. client[c] \notin {"start", "resuming", "resumed"}
    BY <1>0, <1>1, <2>6, Kinds DEF Talks, Unasked, Resuming
  <2> QED BY <1>0, <2>1, <2>2, <2>5, <2>7
      DEF Talks, Unasked, Resuming, Acknowledged, Greeted, Channels, OthersRest
<1>3. CASE Handshake!Misreads(c)
  <2>1. /\ serverAt[c] = "waiting" /\ serverAt' = [serverAt EXCEPT ![c] = "failed"]
        /\ toClient' = [toClient EXCEPT ![c] = Append(toClient[c], Handshake!End)]
        /\ Handshake!End \in ToClient
        /\ UNCHANGED <<client, using, toServer, clientKeys, serverKeys>>
    BY <1>3 DEF Handshake!Misreads, ToClient
  <2>2. /\ toClient' \in [Conns -> Seq(ToClient)]
        /\ \A d \in Conns \ {c} : toClient'[d] = toClient[d]
        /\ Messages(toClient'[c]) = Messages(toClient[c]) \cup {Handshake!End}
    BY <2>1, ServerSends
  <2>3. client[c] # "start"
    BY <1>0, <1>1 DEF Talks, Unasked
  <2> QED BY <1>0, <2>1, <2>2, <2>3, Kinds
      DEF Talks, Unasked, Resuming, Acknowledged, Greeted, Channels, OthersRest
<1>4. CASE Handshake!Acknowledges(c)
  <2>1. /\ serverAt[c] = "waiting" /\ serverAt' = [serverAt EXCEPT ![c] = "resumed"]
        /\ Head(toServer[c]).is = "resume"
        /\ toServer' = [toServer EXCEPT ![c] = Tail(toServer[c])]
        /\ toClient' = [toClient EXCEPT ![c] = Append(toClient[c], Handshake!Ack)]
        /\ serverKeys' = [serverKeys EXCEPT ![c] = Head(toServer[c]).ticket]
        /\ Handshake!Ack \in ToClient
        /\ UNCHANGED <<client, using, clientKeys>>
    BY <1>4 DEF Handshake!Acknowledges, Handshake!Serves, ToClient
  <2>2. /\ toClient' \in [Conns -> Seq(ToClient)]
        /\ \A d \in Conns \ {c} : toClient'[d] = toClient[d]
        /\ Messages(toClient'[c]) = Messages(toClient[c]) \cup {Handshake!Ack}
    BY <2>1, ServerSends
  <2>3. /\ toServer' \in [Conns -> Seq(ToServer)]
        /\ \A d \in Conns \ {c} : toServer'[d] = toServer[d]
        /\ Messages(toServer'[c]) \subseteq Messages(toServer[c])
    BY <1>1, <2>1, ServerReads
  <2>4. Head(toServer[c]) = Handshake!Resume(Head(toServer[c]).ticket)
    BY <1>1, <2>1, Kinds
  <2>5. client[c] \in {"resuming", "resumed"} => Head(toServer[c]).ticket = using[c]
    BY <1>0, <1>1, <2>4, Kinds DEF Talks, Resuming
  <2>6. client[c] # "start" /\ client[c] # "resumed" /\ client[c] \notin {"ticket", "done"}
    BY <1>0, <1>1, <2>1 DEF Talks, Unasked, Acknowledged, Greeted
  <2> QED BY <1>0, <2>1, <2>2, <2>3, <2>5, <2>6, Kinds
      DEF Talks, Unasked, Resuming, Acknowledged, Greeted, Channels, OthersRest
<1> QED BY <1>2, <1>3, <1>4

LEMMA HandshakeTyped ==
  ASSUME HandshakeInv, Handshake!Next
  PROVE  Handshake!TypeOK'
<1> USE DEF HandshakeInv, Handshake!TypeOK, Handshake!Goes
<1>1. PICK c \in Conns :
        \/ Handshake!Start(c) \/ Handshake!Resumed(c) \/ Handshake!FallBack(c)
        \/ Handshake!ServerHello(c) \/ Handshake!HandshakeFails(c) \/ Handshake!TakeTicket(c)
        \/ Handshake!FullHandshake(c) \/ Handshake!Misreads(c) \/ Handshake!Acknowledges(c)
        \/ Handshake!Expire(c)
  BY DEF Handshake!Next
<1>2. CASE Handshake!Start(c)
  <2>1. using' \in [Conns -> Conns \cup {NoTicket}]
    BY <1>2 DEF Handshake!Start
  <2>2. client' \in [Conns -> {"start", "resuming", "hello", "ticket", "done", "resumed", "failed"}]
    BY <1>2 DEF Handshake!Start
  <2> QED BY <1>2, <2>1, <2>2 DEF Handshake!Start
<1>3. CASE Handshake!Resumed(c)
  <2>1. using[c] \in Conns
    BY <1>3 DEF Handshake!Resumed, StreamInv, Resuming
  <2>2. clientKeys' \in [Conns -> Conns \cup {NoKeys}] /\ spent' \in [Conns -> Nat]
    BY <1>3, <2>1 DEF Handshake!Resumed
  <2> QED BY <1>3, <2>2 DEF Handshake!Resumed, Handshake!Redeem
<1>4. CASE Handshake!FallBack(c)
  BY <1>4 DEF Handshake!FallBack
<1>5. CASE Handshake!ServerHello(c)
  BY <1>5 DEF Handshake!ServerHello
<1>9. CASE Handshake!HandshakeFails(c)
  BY <1>9 DEF Handshake!HandshakeFails
<1>6. CASE Handshake!TakeTicket(c)
  <2>1. /\ saved' \in Conns \cup {NoTicket}
    <3>1. CASE Handshake!Comes(c, "ticket") /\ saved' = Head(toClient[c]).ticket
      BY <3>1, Read, Kinds DEF Handshake!Comes
    <3> QED BY <1>6, <3>1 DEF Handshake!TakeTicket
  <2> QED BY <1>6, <2>1 DEF Handshake!TakeTicket
<1>7. CASE Handshake!FullHandshake(c)
  BY <1>7 DEF Handshake!FullHandshake
<1>10. CASE Handshake!Misreads(c)
  BY <1>10 DEF Handshake!Misreads
<1>11. CASE Handshake!Expire(c)
  BY <1>11 DEF Handshake!Expire
<1>8. CASE Handshake!Acknowledges(c)
  <2>1. Head(toServer[c]).ticket \in Conns
    BY <1>8, Read, Kinds DEF Handshake!Acknowledges, Handshake!Serves
  <2> QED BY <1>8, <2>1 DEF Handshake!Acknowledges
<1> QED BY <1>1, <1>2, <1>3, <1>4, <1>5, <1>6, <1>7, <1>8, <1>9, <1>10, <1>11

(* A ticket enters the store once, and what it gave its keys for took it    *)
(* from there.                                                              *)
LEMMA SpentStaysGone ==
  ASSUME HandshakeInv, Handshake!Next
  PROVE  \A t \in Conns : SpentIsGone(t)'
<1> USE DEF HandshakeInv, Handshake!TypeOK
<1>0. \A t \in Conns : SpentIsGone(t)
  BY DEF StreamInv
<1>1. PICK c \in Conns :
        \/ Handshake!Start(c) \/ Handshake!Resumed(c) \/ Handshake!FallBack(c)
        \/ Handshake!ServerHello(c) \/ Handshake!HandshakeFails(c) \/ Handshake!TakeTicket(c)
        \/ Handshake!FullHandshake(c) \/ Handshake!Misreads(c) \/ Handshake!Acknowledges(c)
        \/ Handshake!Expire(c)
  BY DEF Handshake!Next
<1>2. CASE UNCHANGED <<store, serverAt, spent>>
  BY <1>0, <1>2 DEF SpentIsGone
<1>3. CASE Handshake!Resumed(c)
  <2>1. /\ using[c] \in store /\ store' = store \ {using[c]} /\ using[c] \in Conns
        /\ spent' = [spent EXCEPT ![using[c]] = spent[using[c]] + 1]
        /\ UNCHANGED serverAt
    BY <1>3 DEF Handshake!Resumed, Handshake!Redeem
  <2>2. spent[using[c]] = 0 
    BY <1>0, <2>1 DEF SpentIsGone
  <2> DEFINE t == using[c]
  <2>3. serverAt[t] = "done"
    BY <2>1 DEF StreamInv, SpentIsGone
  <2> QED BY <1>0, <2>1, <2>2, <2>3 DEF SpentIsGone
<1>4. CASE Handshake!FullHandshake(c)
  <2>1. /\ serverAt[c] \in {"waiting", "resumed"}
        /\ serverAt' = [serverAt EXCEPT ![c] = "done"]
        /\ store' = store \cup {c} /\ UNCHANGED spent
    BY <1>4 DEF Handshake!FullHandshake
  <2> QED BY <1>0, <2>1 DEF SpentIsGone
<1>5. CASE Handshake!Misreads(c) \/ Handshake!Acknowledges(c)
  <2>1. /\ serverAt[c] = "waiting" /\ UNCHANGED <<store, spent>>
        /\ \A t \in Conns \ {c} : serverAt'[t] = serverAt[t]
    BY <1>5 DEF Handshake!Misreads, Handshake!Acknowledges
  <2> QED BY <1>0, <2>1 DEF SpentIsGone
<1>6. CASE Handshake!Expire(c)
  BY <1>0, <1>6 DEF SpentIsGone, Handshake!Expire
<1> QED BY <1>1, <1>2, <1>3, <1>4, <1>5, <1>6
    DEF Handshake!Start, Handshake!FallBack, Handshake!ServerHello, Handshake!HandshakeFails,
        Handshake!TakeTicket

LEMMA HandshakeStays ==
  ASSUME HandshakeInv, Handshake!Next
  PROVE  HandshakeInv'
<1>1. PICK c \in Conns :
        \/ Handshake!Start(c) \/ Handshake!Resumed(c) \/ Handshake!FallBack(c)
        \/ Handshake!ServerHello(c) \/ Handshake!HandshakeFails(c) \/ Handshake!TakeTicket(c)
        \/ Handshake!FullHandshake(c) \/ Handshake!Misreads(c) \/ Handshake!Acknowledges(c)
        \/ Handshake!Expire(c)
  BY DEF Handshake!Next
<1>2. \A d \in Conns : Talks(d)
  BY DEF HandshakeInv, StreamInv, Talks
<1>3. Channels' /\ \A d \in Conns : Talks(d)'
  <2>1. CASE Handshake!Expire(c)
    BY <1>2, <2>1 DEF Handshake!Expire, HandshakeInv, Channels, Talks, Unasked, Resuming,
                      Acknowledged, Greeted
  <2>2. CASE ~Handshake!Expire(c)
    <3>1. Channels' /\ OthersRest(c) /\ Talks(c)'
      BY <1>1, <2>2, ClientSteps, ServerSteps
    <3> QED BY <1>2, <3>1, TalksElsewhere
  <2> QED BY <2>1, <2>2
<1>4. Handshake!TypeOK' /\ \A d \in Conns : SpentIsGone(d)'
  BY HandshakeTyped, SpentStaysGone
<1> QED BY <1>3, <1>4 DEF HandshakeInv, StreamInv, Channels, Talks

LEMMA HandshakeBegins == Handshake!Init => HandshakeInv
<1> SUFFICES ASSUME Handshake!Init PROVE HandshakeInv
  OBVIOUS
<1>1. \A c \in Conns : /\ toServer[c] = << >> /\ toClient[c] = << >>
                       /\ client[c] = "start" /\ serverAt[c] = "waiting"
                       /\ clientKeys[c] = NoKeys /\ spent[c] = 0 /\ c \notin store
  BY DEF Handshake!Init
<1>2. Messages(<< >>) = {}
  BY DEF Messages
<1>3. \A c \in Conns : StreamInv(c)
  BY <1>1, <1>2
  DEF StreamInv, Unasked, Resuming, Acknowledged, Greeted, SpentIsGone
<1>4. Handshake!TypeOK
  BY DEF Handshake!Init, Handshake!TypeOK
<1>5. << >> \in Seq(ToServer) /\ << >> \in Seq(ToClient)
  OBVIOUS
<1> QED BY <1>3, <1>4, <1>5 DEF HandshakeInv, Handshake!Init

LEMMA HandshakeRests ==
  ASSUME HandshakeInv, UNCHANGED resumeVars
  PROVE  HandshakeInv'
<1>1. \A c \in Conns : StreamInv(c)'
  BY DEF HandshakeInv, resumeVars, StreamInv, Unasked, Resuming, Acknowledged, Greeted, SpentIsGone
<1>2. Handshake!TypeOK'
  BY DEF HandshakeInv, resumeVars, Handshake!TypeOK
<1> QED BY <1>1, <1>2 DEF HandshakeInv, resumeVars

LEMMA HandshakeImplies ==
  HandshakeInv => /\ Handshake!TypeOK /\ Handshake!KeysAgree
                  /\ Handshake!TicketsAreSingleUse
<1> SUFFICES ASSUME HandshakeInv
             PROVE  Handshake!TypeOK /\ Handshake!KeysAgree /\ Handshake!TicketsAreSingleUse
  OBVIOUS
<1>1. Handshake!KeysAgree
  BY DEF HandshakeInv, StreamInv, Resuming, Acknowledged, Greeted, Handshake!KeysAgree
<1>2. Handshake!TicketsAreSingleUse
  <2>1. \A c \in Conns : SpentIsGone(c)
    BY DEF HandshakeInv, StreamInv
  <2>2. \A c \in Conns : spent[c] \in {0, 1}
    BY <2>1 DEF SpentIsGone
  <2>3. \A c \in Conns : spent[c] <= 1
    BY <2>2
  <2> QED BY <2>3 DEF Handshake!TicketsAreSingleUse
<1> QED BY <1>1, <1>2 DEF HandshakeInv

-----------------------------------------------------------------------------
(* The rotation of keys.  Ids and keys are counted alike; while no two      *)
(* rotations overlap, the one under way makes the last key, and there is    *)
(* none while one is pending.                                               *)
AloneInRotation ==
  /\ \A t, u \in Tasks : step[t] # "idle" /\ step[u] # "idle" => t = u
  /\ \A t \in Tasks : step[t] # "idle" => /\ pending = NoRotation /\ current < making[t]
                                          /\ making[t] = Len(told)
  /\ pending # NoRotation => /\ pending.key = Len(told) /\ pending.id = Len(told)
                             /\ pending.old = current /\ current < pending.key

RotationInv ==
  /\ Rotation!TypeOK
  /\ rotationId = Len(told)
  /\ \A k \in 1..Len(told) : told[k] = k
  /\ \A t \in Tasks : making[t] \in 0..Len(told) /\ (step[t] # "idle" => making[t] > 0)
  /\ ~overlapped => AloneInRotation

LEMMA RotationStays ==
  ASSUME RotationInv, Rotation!Next
  PROVE  RotationInv'
<1> USE BoundsAssumption DEF RotationInv, Rotation!TypeOK
<1>0. Len(told) \in Nat
  OBVIOUS
<1>1. CASE Rotation!IncrementMsgCount
  BY <1>0, <1>1 DEF Rotation!IncrementMsgCount, AloneInRotation
<1>2. CASE Rotation!TimeIsUp
  BY <1>0, <1>2 DEF Rotation!TimeIsUp, AloneInRotation
<1>3. CASE Rotation!ApplyPendingRotation
  BY <1>0, <1>3 DEF Rotation!ApplyPendingRotation, AloneInRotation
<1>4. ASSUME NEW t \in Tasks, Rotation!Initiate(t) PROVE RotationInv'
  <2>1. /\ told' = Append(told, rotationId + 1) /\ rotationId' = rotationId + 1
        /\ rotationId + 1 \in 1..MaxKeys
        /\ making' = [making EXCEPT ![t] = Len(told) + 1]
        /\ step[t] = "idle" /\ step' = [step EXCEPT ![t] = "draining"]
        /\ pending = NoRotation
        /\ overlapped' = (overlapped \/ \E u \in Tasks : step[u] # "idle")
        /\ UNCHANGED <<count, due, pending, current>>
    BY <1>0, <1>4 DEF Rotation!Initiate, Rotation!ShouldRotate
  <2>2. /\ told' \in Seq(1..MaxKeys) /\ Len(told') = Len(told) + 1
        /\ \A k \in 1..Len(told) : told'[k] = told[k]
        /\ told'[Len(told) + 1] = Len(told) + 1
    BY <2>1, AppendProperties
  <2>3. \A k \in 1..Len(told') : told'[k] = k
    BY <1>0, <2>2
  <2>4. Rotation!TypeOK'
    BY <1>0, <2>1, <2>2
  <2>5. \A u \in Tasks : making'[u] \in 0..Len(told') /\ (step'[u] # "idle" => making'[u] > 0)
    BY <1>0, <2>1, <2>2
  <2>6. ASSUME ~overlapped' PROVE AloneInRotation'
    <3>1. \A u \in Tasks : step'[u] # "idle" => u = t
      BY <2>1, <2>6
    <3>2. current < making'[t] /\ making'[t] = Len(told')
      BY <1>0, <2>1, <2>2
    <3> QED BY <2>1, <3>1, <3>2 DEF AloneInRotation
  <2> QED BY <2>1, <2>2, <2>3, <2>4, <2>5, <2>6
<1>5. ASSUME NEW t \in Tasks, Rotation!Drained(t) PROVE RotationInv'
  BY <1>0, <1>5 DEF Rotation!Drained, AloneInRotation
<1>6. ASSUME NEW t \in Tasks, Rotation!RotationFails(t) PROVE RotationInv'
  BY <1>0, <1>6 DEF Rotation!RotationFails, AloneInRotation
<1>7. ASSUME NEW t \in Tasks, Rotation!Answered(t) PROVE RotationInv'
  <2>1. /\ step[t] # "idle" /\ step' = [step EXCEPT ![t] = "idle"]
        /\ pending' = [id |-> rotationId, key |-> making[t], at |-> count, old |-> current]
        /\ due' = FALSE
        /\ UNCHANGED <<making, count, rotationId, current, told, overlapped>>
    BY <1>7 DEF Rotation!Answered
  <2>2. /\ pending'.id = Len(told) /\ pending'.key = making[t]
        /\ pending'.at = count /\ pending'.old = current
    BY <2>1
  <2>3. making[t] \in 1..Len(told) /\ Len(told) \in 1..MaxKeys
    BY <1>0, <2>1
  <2>4. Rotation!TypeOK'
    <3>1. step' \in [Tasks -> {"idle", "draining", "asking"}]
      BY <2>1
    <3>2. pending' # NoRotation =>
            /\ pending'.id \in 1..MaxKeys /\ pending'.key \in 1..Len(told')
            /\ pending'.at \in 0..count' /\ pending'.old \in 0..Len(told')
      BY <1>0, <2>1, <2>2, <2>3
    <3> QED BY <2>1, <3>1, <3>2
  <2>5. ASSUME ~overlapped' PROVE AloneInRotation'
    <3>1. AloneInRotation
      BY <2>1, <2>5
    <3>2. \A u \in Tasks : step'[u] = "idle"
      BY <2>1, <3>1 DEF AloneInRotation
    <3>3. /\ pending'.key = Len(told) /\ pending'.id = Len(told)
          /\ pending'.old = current /\ current < pending'.key
      BY <2>1, <2>2, <3>1 DEF AloneInRotation
    <3> QED BY <2>1, <3>2, <3>3 DEF AloneInRotation
  <2>6. \A u \in Tasks : making'[u] \in 0..Len(told') /\ (step'[u] # "idle" => making'[u] > 0)
    BY <2>1
  <2> QED BY <2>1, <2>4, <2>5, <2>6
<1> QED BY <1>1, <1>2, <1>3, <1>4, <1>5, <1>6, <1>7 DEF Rotation!Next

LEMMA RotationBegins == Rotation!Init => RotationInv
<1> SUFFICES ASSUME Rotation!Init PROVE RotationInv
  OBVIOUS
<1>1. told = << >> /\ Len(told) = 0 /\ told \in Seq(1..MaxKeys)
  BY DEF Rotation!Init
<1>2. /\ step = [t \in Tasks |-> "idle"] /\ making = [t \in Tasks |-> 0]
      /\ count = 0 /\ due = FALSE /\ rotationId = 0 /\ pending = NoRotation
      /\ current = 0 /\ overlapped = FALSE
  BY DEF Rotation!Init
<1>3. Rotation!TypeOK
  <2>1. /\ step \in [Tasks -> {"idle", "draining", "asking"}]
        /\ making \in [Tasks -> 0..MaxKeys]
    BY <1>2, BoundsAssumption
  <2>2. /\ count \in 0..MaxCount /\ rotationId \in 0..MaxKeys /\ current \in 0..Len(told)
    BY <1>1, <1>2, BoundsAssumption
  <2>3. due \in BOOLEAN /\ overlapped \in BOOLEAN
    BY <1>2
  <2> QED BY <1>1, <1>2, <2>1, <2>2, <2>3 DEF Rotation!TypeOK
<1>4. AloneInRotation
  BY <1>1, <1>2 DEF AloneInRotation
<1> QED BY <1>1, <1>2, <1>3, <1>4 DEF RotationInv

LEMMA RotationRests ==
  ASSUME RotationInv, UNCHANGED rotationVars
  PROVE  RotationInv'
BY DEF RotationInv, rotationVars, Rotation!TypeOK, AloneInRotation

LEMMA RotationImplies == RotationInv => Rotation!TypeOK /\ Rotation!KeysAreFound
<1> SUFFICES ASSUME RotationInv PROVE Rotation!KeysAreFound
  BY DEF RotationInv
<1>1. \A k \in 0..Len(told) : Rotation!IdOf(k) = k
  BY DEF RotationInv, Rotation!IdOf
<1>2. current \in 0..Len(told) /\ Len(told) \in Nat
  BY DEF RotationInv, Rotation!TypeOK
<1>3. pending # NoRotation => pending.key \in 1..Len(told)
  BY DEF RotationInv, Rotation!TypeOK
<1> QED BY <1>1, <1>2, <1>3
    DEF RotationInv, AloneInRotation, Rotation!KeysAreFound, Rotation!Decryptor

-----------------------------------------------------------------------------
(* The hybrid handshake.  An initiator has sent nothing, or the message for *)
(* some pair, whose secret it has; the responder has none for it, or the    *)
(* one it found with a later pair.                                          *)
Sent(i, n, m) ==
  [classical |-> Hybrid!ClassicalText(i), random |-> i, for |-> n, answered |-> m]
Silent(i) == message[i] = NoMessage /\ ours[i] = NoSecret /\ theirs[i] = NoSecret
Met(i, n, m) ==
  /\ message[i] = Sent(i, n, m)
  /\ ours[i] = Hybrid!Encapsulate(i, n)
  /\ theirs[i] = IF m = 0 THEN NoSecret ELSE Hybrid!Decapsulate(m, Sent(i, n, m))

HybridInv ==
  /\ equipped \subseteq Initiators /\ responder \in BOOLEAN
  /\ pair \in Hybrid!Pairs
  /\ message \in [Initiators -> Hybrid!Messages \cup {NoMessage}]
  /\ ours \in [Initiators -> Hybrid!Secrets \cup {NoSecret}]
  /\ theirs \in [Initiators -> Hybrid!Secrets \cup {NoSecret}]
  /\ \A i \in Initiators :
       Silent(i) \/ \E n \in 1..pair : \E m \in {0} \cup n..pair : Met(i, n, m)

(* What the two ends compute are secrets.                                   *)
LEMMA SecretsOf ==
  ASSUME HybridInv, NEW i \in Initiators, NEW n \in Hybrid!Pairs, NEW m \in Hybrid!Pairs,
         NEW a \in {0} \cup Hybrid!Pairs
  PROVE  /\ Sent(i, n, a) \in Hybrid!Messages
         /\ Hybrid!Encapsulate(i, n) \in Hybrid!Secrets
         /\ Hybrid!Decapsulate(m, Sent(i, n, a)) \in Hybrid!Secrets
<1> DEFINE Ends == Initiators \cup Hybrid!Pairs
           Classical == [between : SUBSET Ends] \cup [by : Ends, with : Ends]
                          \cup [hashed : [of : Hybrid!Pairs, genuine : BOOLEAN]]
<1>1. (i \in equipped) \in BOOLEAN /\ responder \in BOOLEAN
  BY DEF HybridInv
<1>2. Hybrid!ClassicalText(i) \in [of : Initiators, genuine : BOOLEAN]
  BY <1>1 DEF Hybrid!ClassicalText
<1>3. \A k \in Hybrid!Pairs : Hybrid!PublicKey(k) \in [of : Hybrid!Pairs, genuine : BOOLEAN]
  BY <1>1 DEF Hybrid!PublicKey
<1>4. \A k \in Hybrid!Pairs : Hybrid!Hashed(Hybrid!PublicKey(k)) \in Classical
  BY <1>3 DEF Hybrid!Hashed
<1>5. \A x \in Ends, key \in [of : Ends, genuine : BOOLEAN] : Hybrid!Exchange(x, key) \in Classical
  <2> TAKE x \in Ends, key \in [of : Ends, genuine : BOOLEAN]
  <2>1. key.of \in Ends /\ {x, key.of} \in SUBSET Ends
    OBVIOUS
  <2>2. [between |-> {x, key.of}] \in [between : SUBSET Ends]
    BY <2>1
  <2>3. [by |-> x, with |-> key.of] \in [by : Ends, with : Ends]
    BY <2>1
  <2> QED BY <2>2, <2>3, Zenon DEF Hybrid!Exchange
<1>6. /\ \A k \in Hybrid!Pairs : Hybrid!PublicKey(k) \in [of : Ends, genuine : BOOLEAN]
      /\ Hybrid!ClassicalText(i) \in [of : Ends, genuine : BOOLEAN]
      /\ i \in Ends /\ m \in Ends
  BY <1>2, <1>3
<1>7. Sent(i, n, a).classical = Hybrid!ClassicalText(i) /\ Sent(i, n, a).random = i
  BY DEF Sent
<1>8. \A k \in Hybrid!Pairs : Hybrid!Encapsulated(k, i) \in {"kem"} \X Hybrid!Pairs \X Initiators
  BY DEF Hybrid!Encapsulated
<1> HIDE DEF Classical
<1>9. Hybrid!Encapsulate(i, n) \in Classical \X ({"kem"} \X Hybrid!Pairs \X Initiators)
  BY <1>4, <1>5, <1>6, <1>8 DEF Hybrid!Encapsulate
<1>10. Hybrid!Decapsulate(m, Sent(i, n, a)) \in Classical \X ({"kem"} \X Hybrid!Pairs \X Initiators)
  BY <1>4, <1>5, <1>6, <1>7, <1>8 DEF Hybrid!Decapsulate
<1>11. Sent(i, n, a) \in Hybrid!Messages
  BY <1>2 DEF Sent, Hybrid!Messages
<1> QED BY <1>9, <1>10, <1>11, Zenon DEF Classical, Hybrid!Secrets

LEMMA HybridStays ==
  ASSUME HybridInv, Hybrid!Next
  PROVE  HybridInv'
<1> USE DEF HybridInv
<1>0. pair \in Nat /\ pair >= 1 /\ Hybrid!Pairs = 1..MaxPairs /\ MaxPairs \in Nat
  BY BoundsAssumption DEF Hybrid!Pairs
<1>1. CASE Hybrid!Renew
  <2>1. pair' = pair + 1 /\ pair' \in Hybrid!Pairs
        /\ UNCHANGED <<equipped, responder, message, ours, theirs>>
    BY <1>0, <1>1 DEF Hybrid!Renew
  <2>2. \A n \in 1..pair : n \in 1..pair' /\ \A m \in {0} \cup n..pair : m \in {0} \cup n..pair'
    BY <1>0, <2>1
  <2>3. \A i, n, m : Met(i, n, m) => Met(i, n, m)'
    BY <2>1 DEF Met, Sent, Hybrid!ClassicalText, Hybrid!Encapsulate, Hybrid!Decapsulate,
                Hybrid!PublicKey
  <2>4. \A i : Silent(i) => Silent(i)'
    BY <2>1 DEF Silent
  <2>5. ASSUME NEW i \in Initiators
        PROVE  (Silent(i) \/ \E n \in 1..pair : \E m \in {0} \cup n..pair : Met(i, n, m))'
    <3>1. CASE Silent(i)
      BY <2>4, <3>1
    <3>2. ASSUME NEW n \in 1..pair, NEW m \in {0} \cup n..pair, Met(i, n, m)
          PROVE  (\E n_1 \in 1..pair : \E m_1 \in {0} \cup n_1..pair : Met(i, n_1, m_1))'
      BY <2>2, <2>3, <3>2
    <3> QED BY <3>1, <3>2
  <2> QED BY <2>1, <2>5
<1>2. ASSUME NEW i \in Initiators, Hybrid!Initiate(i)
      PROVE  HybridInv'
  <2>1. /\ message[i] = NoMessage /\ message' = [message EXCEPT ![i] = Sent(i, pair, 0)]
        /\ ours' = [ours EXCEPT ![i] = Hybrid!Encapsulate(i, pair)]
        /\ UNCHANGED <<equipped, responder, pair, theirs>>
    BY <1>2 DEF Hybrid!Initiate, Sent
  <2>2. Sent(i, pair, 0) \in Hybrid!Messages /\ Hybrid!Encapsulate(i, pair) \in Hybrid!Secrets
    BY SecretsOf
  <2>3. theirs[i] = NoSecret
    <3>1. ASSUME NEW n, NEW m, Met(i, n, m), n \in 1..pair, m \in {0} \cup n..pair PROVE FALSE
      <4>1. n \in Hybrid!Pairs /\ m \in {0} \cup Hybrid!Pairs
        BY <1>0, <3>1
      <4>2. Sent(i, n, m) \in Hybrid!Messages
        BY <4>1, SecretsOf
      <4> QED BY <2>1, <3>1, <4>2, NullsAssumption DEF Met
    <3> QED BY <3>1 DEF Silent
  <2>4. Met(i, pair, 0)'
    BY <2>1, <2>3 DEF Met, Sent, Hybrid!ClassicalText, Hybrid!Encapsulate, Hybrid!PublicKey
  <2>5. \A j \in Initiators \ {i} :
          /\ Silent(j) => Silent(j)'
          /\ \A n, m : Met(j, n, m) => Met(j, n, m)'
    BY <2>1 DEF Silent, Met, Sent, Hybrid!ClassicalText, Hybrid!Encapsulate, Hybrid!Decapsulate,
                Hybrid!PublicKey
  <2>6. pair \in 1..pair
    BY <1>0
  <2>7. ASSUME NEW j \in Initiators
        PROVE  (Silent(j) \/ \E n \in 1..pair : \E m \in {0} \cup n..pair : Met(j, n, m))'
    <3>1. CASE j = i
      BY <2>1, <2>4, <2>6, <3>1
    <3>2. CASE j # i
      BY <2>1, <2>5, <3>2
    <3> QED BY <3>1, <3>2
  <2> QED BY <2>1, <2>2, <2>7
<1>3. ASSUME NEW i \in Initiators, Hybrid!Respond(i)
      PROVE  HybridInv'
  <2>1. /\ message[i] # NoMessage /\ theirs[i] = NoSecret
        /\ theirs' = [theirs EXCEPT ![i] = Hybrid!Decapsulate(pair, message[i])]
        /\ message' = [message EXCEPT ![i].answered = pair]
        /\ UNCHANGED <<equipped, responder, pair, ours>>
    BY <1>3 DEF Hybrid!Respond
  <2>2. PICK n \in 1..pair : \E m \in {0} \cup n..pair : Met(i, n, m)
    BY <2>1 DEF Silent
  <2>3. PICK m \in {0} \cup n..pair : Met(i, n, m)
    BY <2>2
  <2>4. n \in Hybrid!Pairs /\ (m # 0 => m \in Hybrid!Pairs) /\ m \in {0} \cup Hybrid!Pairs
    BY <1>0
  <2>5. m = 0
    <3>1. ASSUME m # 0 PROVE FALSE
      <4>1. Hybrid!Decapsulate(m, Sent(i, n, m)) \in Hybrid!Secrets
        BY <2>4, <3>1, SecretsOf
      <4> QED BY <2>1, <2>3, <3>1, <4>1, NullsAssumption DEF Met
    <3> QED BY <3>1
  <2>6. [Sent(i, n, 0) EXCEPT !.answered = pair] = Sent(i, n, pair)
    BY DEF Sent
  <2>7. /\ message' = [message EXCEPT ![i] = Sent(i, n, pair)]
        /\ Hybrid!Decapsulate(pair, message[i]) = Hybrid!Decapsulate(pair, Sent(i, n, pair))
    <3>1. message[i] = Sent(i, n, 0)
      BY <2>3, <2>5 DEF Met
    <3>2. message' = [message EXCEPT ![i] = [message[i] EXCEPT !.answered = pair]]
      BY <2>1
    <3>3. /\ Sent(i, n, 0).classical = Sent(i, n, pair).classical
          /\ Sent(i, n, 0).random = Sent(i, n, pair).random
      BY DEF Sent
    <3> QED BY <2>6, <3>1, <3>2, <3>3 DEF Hybrid!Decapsulate
  <2>8. Sent(i, n, pair) \in Hybrid!Messages
        /\ Hybrid!Decapsulate(pair, Sent(i, n, pair)) \in Hybrid!Secrets
    BY <2>4, SecretsOf
  <2>9. Met(i, n, pair)'
    BY <1>0, <2>1, <2>3, <2>7
    DEF Met, Sent, Hybrid!ClassicalText, Hybrid!Encapsulate, Hybrid!Decapsulate, Hybrid!PublicKey
  <2>10. \A j \in Initiators \ {i} :
           /\ Silent(j) => Silent(j)'
           /\ \A k, l : Met(j, k, l) => Met(j, k, l)'
    BY <2>1, <2>7 DEF Silent, Met, Sent, Hybrid!ClassicalText, Hybrid!Encapsulate,
                      Hybrid!Decapsulate, Hybrid!PublicKey
  <2>11. pair \in n..pair
    BY <1>0
  <2>12. ASSUME NEW j \in Initiators
         PROVE  (Silent(j) \/ \E k \in 1..pair : \E l \in {0} \cup k..pair : Met(j, k, l))'
    <3>1. CASE j = i
      BY <2>1, <2>9, <2>11, <3>1
    <3>2. CASE j # i
      BY <2>1, <2>10, <3>2
    <3> QED BY <3>1, <3>2
  <2> QED BY <2>1, <2>7, <2>8, <2>12
<1> QED BY <1>1, <1>2, <1>3 DEF Hybrid!Next

LEMMA HybridBegins == Hybrid!Init => HybridInv
BY BoundsAssumption DEF Hybrid!Init, HybridInv, Hybrid!Pairs, Silent

LEMMA HybridRests ==
  ASSUME HybridInv, UNCHANGED hybridVars
  PROVE  HybridInv'
<1>1. /\ UNCHANGED <<equipped, responder, pair, message, ours, theirs>>
  BY DEF hybridVars
<1>2. \A i : /\ Silent(i)' <=> Silent(i)
             /\ \A n, m : Met(i, n, m)' <=> Met(i, n, m)
  BY <1>1 DEF Silent, Met, Sent, Hybrid!ClassicalText, Hybrid!Encapsulate, Hybrid!Decapsulate,
              Hybrid!PublicKey
<1> QED BY <1>1, <1>2 DEF HybridInv

(* The secret of an initiator and that of the responder for it are the same *)
(* exactly if both are equipped or none is, and the pair is the same.       *)
LEMMA SameSecret ==
  ASSUME NEW i, NEW n, NEW m, NEW a
  PROVE  Hybrid!Encapsulate(i, n) = Hybrid!Decapsulate(m, Sent(i, n, a))
           <=> (i \in equipped <=> responder) /\ n = m
<1> DEFINE public == Hybrid!PublicKey(n)
           text == Hybrid!ClassicalText(i)
           mine == IF i \in equipped THEN Hybrid!Exchange(i, public) ELSE Hybrid!Hashed(public)
           its == IF responder THEN Hybrid!Exchange(m, text)
                  ELSE Hybrid!Hashed(Hybrid!PublicKey(m))
<1>1. /\ public = [of |-> n, genuine |-> responder] /\ public.of = n
      /\ public.genuine <=> responder
  BY DEF Hybrid!PublicKey
<1>2. /\ text = [of |-> i, genuine |-> i \in equipped] /\ text.of = i
      /\ text.genuine <=> i \in equipped
  BY DEF Hybrid!ClassicalText
<1>3. Hybrid!Encapsulate(i, n) = <<mine, Hybrid!Encapsulated(n, i)>>
  BY DEF Hybrid!Encapsulate
<1>4. Hybrid!Decapsulate(m, Sent(i, n, a)) = <<its, Hybrid!Encapsulated(m, i)>>
  BY DEF Hybrid!Decapsulate, Sent
<1>5. Hybrid!Encapsulated(n, i) = Hybrid!Encapsulated(m, i) <=> n = m
  BY DEF Hybrid!Encapsulated
<1>6. \A x, y, z : /\ [between |-> x] # [hashed |-> y] /\ [by |-> x, with |-> y] # [hashed |-> z]
                   /\ [by |-> x, with |-> y] # [between |-> z]
  <2>1. \A x, y, z : /\ DOMAIN [between |-> x] = {"between"} /\ DOMAIN [hashed |-> x] = {"hashed"}
                     /\ DOMAIN [by |-> x, with |-> y] = {"by", "with"}
    OBVIOUS
  <2> QED BY <2>1
<1>7. n = m => (mine = its <=> (i \in equipped <=> responder))
  <2>1. CASE i \in equipped /\ responder
    <3>1. mine = [between |-> {i, n}] /\ its = [between |-> {m, i}]
      BY <1>1, <1>2, <2>1 DEF Hybrid!Exchange
    <3> QED BY <2>1, <3>1
  <2>2. CASE i \in equipped /\ ~responder
    <3>1. mine = [by |-> i, with |-> n] /\ its = [hashed |-> Hybrid!PublicKey(m)]
      BY <1>1, <1>2, <2>2 DEF Hybrid!Exchange, Hybrid!Hashed
    <3> QED BY <1>6, <2>2, <3>1
  <2>3. CASE i \notin equipped /\ responder
    <3>1. mine = [hashed |-> public] /\ its = [by |-> m, with |-> i]
      BY <1>1, <1>2, <2>3 DEF Hybrid!Exchange, Hybrid!Hashed
    <3> QED BY <1>6, <2>3, <3>1
  <2>4. CASE i \notin equipped /\ ~responder
    BY <2>4
  <2> QED BY <2>1, <2>2, <2>3, <2>4
<1> HIDE DEF mine, its
<1>8. Hybrid!Encapsulate(i, n) = Hybrid!Decapsulate(m, Sent(i, n, a)) <=> mine = its /\ n = m
  BY <1>3, <1>4, <1>5
<1> QED BY <1>7, <1>8

(* The random number of an initiator tells its secrets from all others.     *)
LEMMA OwnSecret ==
  ASSUME NEW i, NEW j, i # j, NEW n, NEW k, NEW m, NEW a, NEW b
  PROVE  /\ Hybrid!Encapsulate(i, n) # Hybrid!Encapsulate(j, k)
         /\ Hybrid!Encapsulate(i, n) # Hybrid!Decapsulate(m, Sent(j, a, b))
<1>1. \A x, y, u, v : Hybrid!Encapsulated(x, i) # Hybrid!Encapsulated(y, j)
  BY DEF Hybrid!Encapsulated
<1>2. Sent(j, a, b).random = j
  BY DEF Sent
<1>3. \A p, q, x, y : <<p, Hybrid!Encapsulated(x, i)>> # <<q, Hybrid!Encapsulated(y, j)>>
  BY <1>1
<1> QED BY <1>2, <1>3 DEF Hybrid!Encapsulate, Hybrid!Decapsulate

LEMMA HybridImplies == HybridInv => Hybrid!TypeOK /\ Hybrid!EndsAgree
<1> SUFFICES ASSUME HybridInv PROVE Hybrid!TypeOK /\ Hybrid!EndsAgree
  OBVIOUS
<1> USE DEF HybridInv
<1>0. pair \in Nat /\ Hybrid!Pairs = 1..MaxPairs /\ MaxPairs \in Nat
  BY BoundsAssumption DEF Hybrid!Pairs
<1>1. ASSUME NEW i \in Initiators
      PROVE  \/ Silent(i)
             \/ \E n \in 1..pair : \E m \in {0} \cup n..pair :
                  /\ Met(i, n, m) /\ message[i] # NoMessage /\ ours[i] # NoSecret
                  /\ m = 0 <=> theirs[i] = NoSecret
                  /\ message[i].for = n /\ message[i].answered = m
  <2>1. ASSUME NEW n \in 1..pair, NEW m \in {0} \cup n..pair, Met(i, n, m)
        PROVE  /\ Met(i, n, m) /\ message[i] # NoMessage /\ ours[i] # NoSecret
               /\ m = 0 <=> theirs[i] = NoSecret
               /\ message[i].for = n /\ message[i].answered = m
    <3>1. n \in Hybrid!Pairs /\ (m # 0 => m \in Hybrid!Pairs) /\ m \in {0} \cup Hybrid!Pairs
      BY <1>0
    <3>2. Sent(i, n, m) \in Hybrid!Messages /\ Hybrid!Encapsulate(i, n) \in Hybrid!Secrets
      BY <3>1, SecretsOf
    <3>3. m # 0 => Hybrid!Decapsulate(m, Sent(i, n, m)) \in Hybrid!Secrets
      BY <3>1, SecretsOf
    <3>4. Sent(i, n, m).for = n /\ Sent(i, n, m).answered = m
      BY DEF Sent
    <3> QED BY <2>1, <3>2, <3>3, <3>4, NullsAssumption DEF Met
  <2> QED BY <2>1
<1>2. Hybrid!TypeOK
  <2>1. ASSUME NEW i \in Initiators
        PROVE  /\ ours[i] = NoSecret <=> message[i] = NoMessage
               /\ message[i] # NoMessage =>
                    /\ message[i].for \in 1..pair
                    /\ message[i].answered \in {0} \cup message[i].for..pair
                    /\ message[i].answered = 0 <=> theirs[i] = NoSecret
    BY <1>1 DEF Silent
  <2> QED BY <2>1 DEF Hybrid!TypeOK
<1>3. ASSUME NEW i \in Initiators, theirs[i] # NoSecret
      PROVE  ours[i] = theirs[i] <=>
               (i \in equipped <=> responder) /\ message[i].for = message[i].answered
  <2>1. PICK n \in 1..pair : \E m \in {0} \cup n..pair :
               Met(i, n, m) /\ m # 0 /\ message[i].for = n /\ message[i].answered = m
    BY <1>1, <1>3 DEF Silent
  <2>2. PICK m \in {0} \cup n..pair :
               Met(i, n, m) /\ m # 0 /\ message[i].for = n /\ message[i].answered = m
    BY <2>1
  <2> QED BY <2>2, SameSecret DEF Met
<1>4. ASSUME NEW i \in Initiators, NEW j \in Initiators, i # j,
             ours[i] # NoSecret, ours[j] # NoSecret
      PROVE  ours[i] # ours[j] /\ ours[i] # theirs[j]
  <2>1. PICK n, m : Met(i, n, m)
    BY <1>1, <1>4 DEF Silent
  <2>2. PICK k, a : Met(j, k, a)
    BY <1>1, <1>4 DEF Silent
  <2> QED BY <1>4, <2>1, <2>2, OwnSecret DEF Met
<1>5. Hybrid!EndsAgree
  BY <1>3, <1>4 DEF Hybrid!EndsAgree
<1> QED BY <1>2, <1>5

-----------------------------------------------------------------------------
(* What a sender decides.  An adaptive session leaves the bound of its      *)
(* transitions by the two that need no data.  A series of calls against the *)
(* strategy has as many members as the scheduler counted, but for the first *)
(* one, which made the default strategy.                                    *)
Transitioned ==
  /\ activeToGhost \in Nat /\ ghostToActive \in Nat /\ ghostToClosed \in Nat
  /\ state \in {"CONNECTING", "ACTIVE"} => transitions <= MaxTransitions
  /\ state = "GHOST" => transitions <= MaxTransitions + 1
Voted ==
  /\ against \in Nat
  /\ spectrum = Unset \/ strategy = Unset => stability = 0
  /\ strategy # Unset => stability <= against + (IF strategy = Send!Default THEN 1 ELSE 0)

SendInv == Send!TypeOK /\ Send!GhostIsCounted /\ Transitioned /\ Voted

LEMMA MemoryOrders ==
  /\ \A p \in Send!Profiles : Send!KMemory[p] \in 2..5
  /\ \A m : Send!Detect(m) \in Send!Profiles
  /\ \A n : Send!OptimalK(n) \in 1..5
<1>1. Send!Profiles = {"critical_iot", "standard_iot", "batch_sensor", "mobile", "lan",
                       "wan_challenged"}
  BY DEF Send!Profiles, Send!TIdle
<1>2. \A p \in Send!Profiles : Send!KMemory[p] \in 2..5
  BY <1>1 DEF Send!KMemory
<1>3. \A m : Send!Detect(m) \in Send!Profiles
  BY <1>1 DEF Send!Detect
<1>4. ASSUME NEW n PROVE Send!OptimalK(n) \in 1..5
  <2> DEFINE Aic(k) == IF n < Enough THEN Send!EmpiricalAIC[k] ELSE 2 * k
  <2>1. \E k \in 1..5 : \A j \in 1..5 \ {k} : Aic(k) < Aic(j)
    <3>1. CASE n < Enough
      <4>1. \A j \in 1..5 \ {3} : Aic(3) < Aic(j)
        BY <3>1 DEF Send!EmpiricalAIC
      <4> QED BY <4>1
    <3>2. CASE ~(n < Enough)
      <4>1. \A j \in 1..5 \ {1} : Aic(1) < Aic(j)
        BY <3>2
      <4> QED BY <4>1
    <3> QED BY <3>1, <3>2
  <2>2. Send!OptimalK(n) = CHOOSE k \in 1..5 : \A j \in 1..5 \ {k} : Aic(k) < Aic(j)
    BY DEF Send!OptimalK
  <2> HIDE DEF Aic
  <2> QED BY <2>1, <2>2
<1> QED BY <1>2, <1>3, <1>4

(* A number that is a multiple of Every, and not 0, is not below it.        *)
LEMMA Multiples ==
  ASSUME NEW n \in Nat, n > 0, n % Every = 0
  PROVE  n >= Every
<1>1. Every \in Nat /\ Every > 0
  BY BoundsAssumption
<1>2. n < Every => n % Every = n
  BY <1>1
<1> QED BY <1>1, <1>2

(* A transition from one state to another is counted once.                  *)
LEMMA Counted ==
  ASSUME SendInv, NEW new \in {"ACTIVE", "GHOST", "CLOSED"}, Send!To(new),
         \/ state \in {"CONNECTING", "GHOST"} /\ new = "ACTIVE" /\ transitions < MaxTransitions
         \/ state = "ACTIVE" /\ new = "GHOST"
         \/ state = "GHOST" /\ new = "CLOSED"
  PROVE  /\ Transitioned'
         /\ state' = new /\ transitions' = transitions + 1
         /\ transitions' \in 0..MaxTransitions + 2
         /\ activeToGhost' - ghostToActive' - ghostToClosed' = Send!One(state' = "GHOST")
         /\ transitions' = activeToGhost' + ghostToActive' + ghostToClosed'
                             + Send!One(state' # "CONNECTING")
<1>1. /\ activeToGhost \in Nat /\ ghostToActive \in Nat /\ ghostToClosed \in Nat
      /\ transitions \in Nat /\ MaxTransitions \in Nat
  BY BoundsAssumption DEF SendInv, Transitioned, Send!TypeOK
<1>2. /\ state' = new /\ transitions' = transitions + 1
      /\ activeToGhost' = activeToGhost + Send!One(state = "ACTIVE" /\ new = "GHOST")
      /\ ghostToActive' = ghostToActive + Send!One(state = "GHOST" /\ new = "ACTIVE")
      /\ ghostToClosed' = ghostToClosed + Send!One(state = "GHOST" /\ new = "CLOSED")
  BY DEF Send!To
<1>3. /\ activeToGhost - ghostToActive - ghostToClosed = Send!One(state = "GHOST")
      /\ transitions = activeToGhost + ghostToActive + ghostToClosed
                         + Send!One(state # "CONNECTING")
      /\ state \in {"CONNECTING", "ACTIVE"} => transitions <= MaxTransitions
      /\ state = "GHOST" => transitions <= MaxTransitions + 1
  BY DEF SendInv, Send!GhostIsCounted, Transitioned
<1>4. CASE state \in {"CONNECTING", "GHOST"} /\ new = "ACTIVE" /\ transitions < MaxTransitions
  BY <1>1, <1>2, <1>3, <1>4 DEF Transitioned, Send!One
<1>5. CASE state = "ACTIVE" /\ new = "GHOST"
  BY <1>1, <1>2, <1>3, <1>5 DEF Transitioned, Send!One
<1>6. CASE state = "GHOST" /\ new = "CLOSED"
  BY <1>1, <1>2, <1>3, <1>6 DEF Transitioned, Send!One
<1> QED BY <1>4, <1>5, <1>6

LEMMA MemoryIsEarned ==
  ASSUME SendInv, NEW T \in Nat, T >= transitions,
         \/ memory' = memory
         \/ \E n : memory' = Send!OptimalK(n) /\ T > 0 /\ T % Every = 0
  PROVE  memory' \in 1..5 /\ (memory' = 1 => T >= Every)
<1>1. memory \in 1..5 /\ (memory = 1 => transitions >= Every) /\ transitions \in Nat
      /\ Every \in Nat
  BY BoundsAssumption DEF SendInv, Send!TypeOK, Send!GhostIsCounted
<1>2. CASE memory' = memory
  BY <1>1, <1>2
<1>3. CASE \E n : memory' = Send!OptimalK(n) /\ T > 0 /\ T % Every = 0
  BY <1>1, <1>3, Multiples, MemoryOrders
<1> QED BY <1>2, <1>3

LEMMA SessionStays ==
  ASSUME SendInv, Send!SessionNext
  PROVE  SendInv' /\ strategy' = strategy
<1> USE DEF SendInv, Send!TypeOK
<1>0. transitions \in Nat /\ MaxTransitions \in Nat /\ Threshold \in Nat
  BY BoundsAssumption
<1>1. ASSUME UNCHANGED <<spectrum, strategy, stability, against>>
      PROVE  /\ Voted' /\ strategy' = strategy
             /\ spectrum' \in Spectra \cup {Unset}
             /\ strategy' \in Spectra \cup {Send!Default, Unset}
             /\ stability' \in 0..Threshold - 1
  BY <1>1 DEF Voted
<1>2. ASSUME NEW g \in Gaps, Send!Elapse(g)
      PROVE  SendInv' /\ strategy' = strategy
  <2>1. /\ gap' = g
        /\ UNCHANGED <<state, profile, memory, activeToGhost, ghostToActive, ghostToClosed,
                       transitions, spectrum, strategy, stability, against, stamped>>
    BY <1>2 DEF Send!Elapse, Send!strategyVars
  <2>2. Transitioned' /\ Send!GhostIsCounted'
    BY <2>1 DEF Transitioned, Send!GhostIsCounted
  <2> QED BY <1>1, <2>1, <2>2
<1>3. ASSUME NEW m \in Measured, Send!SetNetwork(m)
      PROVE  SendInv' /\ strategy' = strategy
  <2>1. /\ profile' = Send!Detect(m)
        /\ UNCHANGED <<state, gap, memory, activeToGhost, ghostToActive, ghostToClosed,
                       transitions, spectrum, strategy, stability, against, stamped>>
    BY <1>3 DEF Send!SetNetwork, Send!strategyVars
  <2>2. Transitioned' /\ Send!GhostIsCounted'
    BY <2>1 DEF Transitioned, Send!GhostIsCounted
  <2> QED BY <1>1, <2>1, <2>2, MemoryOrders
<1>4. ASSUME Send!DataReceived
      PROVE  /\ Transitioned' /\ Send!GhostIsCounted'
             /\ state' \in {"CONNECTING", "ACTIVE", "GHOST", "CLOSED"}
             /\ gap' \in Gaps \cup {0} /\ profile' \in Send!Profiles /\ memory' \in 1..5
             /\ transitions' \in 0..MaxTransitions + 2
  <2>1. gap' = 0 /\ transitions < MaxTransitions /\ UNCHANGED <<profile, memory>>
    BY <1>4 DEF Send!DataReceived
  <2>2. CASE state \in {"GHOST", "CONNECTING"}
    <3>1. Send!To("ACTIVE")
      BY <1>4, <2>2 DEF Send!DataReceived
    <3>2. /\ Transitioned'
          /\ state' = "ACTIVE" /\ transitions' = transitions + 1
          /\ transitions' \in 0..MaxTransitions + 2
          /\ activeToGhost' - ghostToActive' - ghostToClosed' = Send!One(state' = "GHOST")
          /\ transitions' = activeToGhost' + ghostToActive' + ghostToClosed'
                              + Send!One(state' # "CONNECTING")
      BY <2>1, <2>2, <3>1, Counted
    <3>3. memory' = 1 => transitions' >= Every
      BY <1>0, <2>1, <3>2, MemoryIsEarned
    <3> QED BY <2>1, <3>2, <3>3 DEF Send!GhostIsCounted
  <2>3. CASE state \notin {"GHOST", "CONNECTING"}
    <3>1. UNCHANGED <<state, transitions, activeToGhost, ghostToActive, ghostToClosed>>
      BY <1>4, <2>3 DEF Send!DataReceived, Send!Stays
    <3> QED BY <2>1, <3>1 DEF Transitioned, Send!GhostIsCounted
  <2> QED BY <2>2, <2>3
<1>5. CASE Send!OnDataReceived
  <2>1. Send!DataReceived /\ UNCHANGED <<spectrum, strategy, stability, against, stamped>>
    BY <1>5 DEF Send!OnDataReceived, Send!strategyVars
  <2> QED BY <1>1, <1>4, <2>1
<1>6. CASE Send!BuildSendDag
  <2>1. /\ Send!DataReceived /\ UNCHANGED <<spectrum, strategy, stability, against>>
        /\ stamped' = (state = "GHOST")
    BY <1>6 DEF Send!BuildSendDag, Send!strategyVars
  <2> QED BY <1>1, <1>4, <2>1
<1>7. CASE Send!Tick
  <2>1. /\ UNCHANGED <<gap, profile, spectrum, strategy, stability, against, stamped>>
        /\ \/ memory' = memory
           \/ \E n : memory' = Send!OptimalK(n) /\ transitions' > 0 /\ transitions' % Every = 0
    BY <1>7 DEF Send!Tick, Send!strategyVars
  <2>2. CASE Send!Stays
    <3>1. UNCHANGED <<state, transitions, activeToGhost, ghostToActive, ghostToClosed>>
      BY <2>2 DEF Send!Stays
    <3>2. memory' \in 1..5 /\ (memory' = 1 => transitions' >= Every)
      BY <1>0, <2>1, <3>1, MemoryIsEarned
    <3>3. Transitioned' /\ Send!GhostIsCounted'
      BY <3>1, <3>2 DEF Transitioned, Send!GhostIsCounted
    <3> QED BY <1>1, <2>1, <3>1, <3>2, <3>3
  <2>3. CASE \/ state = "ACTIVE" /\ Send!To("GHOST")
             \/ state = "GHOST" /\ Send!To("CLOSED")
    <3>1. PICK new \in {"GHOST", "CLOSED"} :
            /\ Send!To(new)
            /\ \/ state = "ACTIVE" /\ new = "GHOST"
               \/ state = "GHOST" /\ new = "CLOSED"
      BY <2>3
    <3>2. /\ Transitioned'
          /\ state' = new /\ transitions' = transitions + 1
          /\ transitions' \in 0..MaxTransitions + 2
          /\ activeToGhost' - ghostToActive' - ghostToClosed' = Send!One(state' = "GHOST")
          /\ transitions' = activeToGhost' + ghostToActive' + ghostToClosed'
                              + Send!One(state' # "CONNECTING")
      BY <3>1, Counted
    <3>3. memory' \in 1..5 /\ (memory' = 1 => transitions' >= Every)
      BY <1>0, <2>1, <3>2, MemoryIsEarned
    <3>4. Send!GhostIsCounted'
      BY <3>2, <3>3 DEF Send!GhostIsCounted
    <3> QED BY <1>1, <2>1, <3>2, <3>3, <3>4
  <2> QED BY <1>7, <2>2, <2>3 DEF Send!Tick, Send!IsIdle, Send!IsGone
<1> QED BY <1>2, <1>3, <1>5, <1>6, <1>7 DEF Send!SessionNext

LEMMA VoteStays ==
  ASSUME SendInv, Send!VoteNext
  PROVE  SendInv' /\ Send!ChangeIsEarned
<1> USE DEF SendInv, Send!TypeOK
<1>0. /\ Threshold \in Nat /\ Threshold >= 1 /\ stability \in Nat /\ against \in Nat
      /\ Unset \notin Spectra /\ Send!Default # Unset
  BY BoundsAssumption, NullsAssumption DEF Voted
<1>1. UNCHANGED <<state, gap, profile, memory, activeToGhost, ghostToActive, ghostToClosed,
                  transitions, stamped>>
  BY DEF Send!VoteNext, Send!CurrentStrategy, Send!Observe, Send!ghostVars
<1>2. Transitioned' /\ Send!GhostIsCounted'
  BY <1>1 DEF Transitioned, Send!GhostIsCounted
<1>3. ASSUME NEW s \in Spectra, Send!Observe(s)
      PROVE  SendInv' /\ Send!ChangeIsEarned
  <2>1. spectrum' = s /\ UNCHANGED <<strategy, stability, against>>
    BY <1>3 DEF Send!Observe
  <2>2. Voted'
    BY <1>0, <2>1 DEF Voted
  <2> QED BY <1>1, <1>2, <2>1, <2>2 DEF Send!ChangeIsEarned
<1>4. CASE Send!CurrentStrategy
  <2> DEFINE Against == IF Send!Proposes /\ Send!Disagrees /\ strategy' = strategy
                        THEN against + 1 ELSE 0
  <2>0. against' = Against /\ UNCHANGED spectrum
    BY <1>4 DEF Send!CurrentStrategy
  <2>1. CASE ~Send!Proposes /\ strategy' = Send!OrDefault(strategy) /\ UNCHANGED stability
    <3>1. spectrum = Unset /\ stability = 0 /\ against' = 0
      BY <2>0, <2>1 DEF Send!Proposes, Voted
    <3>2. Voted' /\ strategy' \in Spectra \cup {Send!Default, Unset}
      BY <1>0, <2>0, <2>1, <3>1 DEF Voted, Send!OrDefault
    <3>3. Send!ChangeIsEarned
      BY <2>1 DEF Send!ChangeIsEarned, Send!OrDefault
    <3> QED BY <1>1, <1>2, <2>0, <2>1, <3>2, <3>3
  <2>2. CASE Send!Proposes /\ ~Send!Disagrees /\ Send!Confirm
    <3>1. stability' = 0 /\ against' = 0 /\ strategy' = strategy
      BY <2>0, <2>2 DEF Send!Confirm
    <3>2. Voted'
      BY <1>0, <3>1 DEF Voted
    <3>3. Send!ChangeIsEarned
      BY <3>1 DEF Send!ChangeIsEarned
    <3> QED BY <1>0, <1>1, <1>2, <2>0, <3>1, <3>2, <3>3
  <2>3. CASE Send!Proposes /\ Send!Disagrees /\ Send!Object
    <3>1. /\ stability + 1 < Threshold /\ stability' = stability + 1
          /\ strategy' = Send!OrDefault(strategy) /\ spectrum # Unset
      BY <2>3 DEF Send!Object, Send!Proposes
    <3>2. CASE strategy = Unset
      <4>1. stability' = 1 /\ strategy' = Send!Default /\ against' = 0
        BY <1>0, <2>0, <3>1, <3>2 DEF Voted, Send!OrDefault
      <4>2. Voted' /\ Send!ChangeIsEarned
        BY <1>0, <2>0, <3>1, <3>2, <4>1 DEF Voted, Send!ChangeIsEarned
      <4> QED BY <1>0, <1>1, <1>2, <2>0, <3>1, <4>1, <4>2
    <3>3. CASE strategy # Unset
      <4>1. strategy' = strategy /\ against' = against + 1
        BY <2>0, <2>3, <3>1, <3>3 DEF Send!OrDefault
      <4>2. Voted' /\ Send!ChangeIsEarned
        BY <1>0, <2>0, <3>1, <3>3, <4>1 DEF Voted, Send!ChangeIsEarned
      <4> QED BY <1>0, <1>1, <1>2, <2>0, <3>1, <4>1, <4>2
    <3> QED BY <3>2, <3>3
  <2>4. CASE Send!Proposes /\ Send!Disagrees /\ Send!Replace
    <3>1. /\ stability + 1 >= Threshold /\ stability' = 0 /\ strategy' = spectrum
          /\ spectrum # Unset /\ against' \in Nat
      BY <1>0, <2>0, <2>4 DEF Send!Replace, Send!Proposes
    <3>2. Voted'
      BY <1>0, <2>0, <3>1 DEF Voted
    <3>3. Send!ChangeIsEarned
      BY <1>0, <3>1 DEF Voted, Send!ChangeIsEarned
    <3> QED BY <1>0, <1>1, <1>2, <2>0, <3>1, <3>2, <3>3
  <2> QED BY <1>4, <2>1, <2>2, <2>3, <2>4 DEF Send!CurrentStrategy
<1> QED BY <1>3, <1>4 DEF Send!VoteNext

LEMMA SendBegins == Send!Init => SendInv
<1> SUFFICES ASSUME Send!Init PROVE SendInv
  OBVIOUS
<1>1. /\ state = "CONNECTING" /\ gap = 0 /\ profile \in Send!Profiles
      /\ memory = Send!KMemory[profile]
      /\ activeToGhost = 0 /\ ghostToActive = 0 /\ ghostToClosed = 0 /\ transitions = 0
      /\ spectrum = Unset /\ strategy = Unset /\ stability = 0 /\ against = 0
  BY DEF Send!Init
<1>2. stamped \in BOOLEAN
  BY DEF Send!Init
<1>3. memory \in 2..5
  BY <1>1, MemoryOrders
<1>4. Send!TypeOK
  BY <1>1, <1>2, <1>3, BoundsAssumption DEF Send!TypeOK
<1>5. Send!GhostIsCounted /\ Transitioned /\ Voted
  BY <1>1, <1>3, BoundsAssumption DEF Send!GhostIsCounted, Send!One, Transitioned, Voted
<1> QED BY <1>4, <1>5 DEF SendInv

LEMMA SendRests ==
  ASSUME SendInv, UNCHANGED sendVars
  PROVE  SendInv' /\ strategy' = strategy
BY DEF SendInv, sendVars, Send!TypeOK, Send!GhostIsCounted, Transitioned, Voted

-----------------------------------------------------------------------------
(* What the schedulers learn.  A decision is counted when theta learns of   *)
(* it, and the count goes wherever theta goes.                              *)
Learnt == UNION {[1..n -> Chunks] : n \in 0..MaxLearnt}
Profiles == [theta : Learnt, decisions : 0..MaxLearnt, old : BOOLEAN]

LearnInv ==
  /\ native \in BOOLEAN /\ strayed \in BOOLEAN
  /\ theta \in [Schedulers -> Learnt]
  /\ decisions \in [Schedulers -> 0..MaxLearnt]
  /\ device \in [Schedulers -> Devices \cup {NoDevice}]
  /\ cache \in [Devices -> Profiles \cup {NoProfile}]
  /\ core \in Seq(Chunks) /\ Len(core) <= MaxCore
  /\ \A s \in Schedulers : decisions[s] = Len(theta[s])
  /\ \A d \in Devices : cache[d] # NoProfile => cache[d].decisions = Len(cache[d].theta)

LEMMA Sequences == Learnt = {seq \in Seq(Chunks) : Len(seq) <= MaxLearnt}
<1>1. ASSUME NEW seq \in Seq(Chunks), Len(seq) <= MaxLearnt
      PROVE  seq \in Learnt
  <2>1. Len(seq) \in Nat /\ seq \in [1..Len(seq) -> Chunks]
    BY LenProperties
  <2>2. Len(seq) \in 0..MaxLearnt
    BY <1>1, <2>1, BoundsAssumption
  <2> QED BY <2>1, <2>2 DEF Learnt
<1>2. ASSUME NEW seq \in Learnt
      PROVE  seq \in Seq(Chunks) /\ Len(seq) <= MaxLearnt
  <2>1. PICK n \in 0..MaxLearnt : seq \in [1..n -> Chunks]
    BY DEF Learnt
  <2>2. n \in Nat /\ n <= MaxLearnt
    BY <2>1, BoundsAssumption
  <2>3. seq \in Seq(Chunks)
    BY <2>1, <2>2, SeqDef
  <2>4. Len(seq) = n
    BY <2>1, <2>2, <2>3
  <2> QED BY <2>2, <2>3, <2>4
<1> QED BY <1>1, <1>2

LEMMA LearnTyped == LearnInv => Learn!TypeOK
BY DEF LearnInv, Learn!TypeOK, Learnt, Profiles

(* Learning of one chunk more.                                              *)
LEMMA OneMore ==
  ASSUME LearnInv, NEW s \in Schedulers, NEW chunk \in Chunks, Learn!Learns(s, chunk)
  PROVE  /\ theta' \in [Schedulers -> Learnt] /\ decisions' \in [Schedulers -> 0..MaxLearnt]
         /\ \A r \in Schedulers : decisions'[r] = Len(theta'[r])
<1>1. /\ theta[s] \in Seq(Chunks) /\ Len(theta[s]) < MaxLearnt /\ Len(theta[s]) \in Nat
      /\ theta' = [theta EXCEPT ![s] = Append(theta[s], chunk)]
      /\ decisions' = [decisions EXCEPT ![s] = decisions[s] + 1]
  BY Sequences, LenProperties DEF LearnInv, Learn!Learns
<1>2. Append(theta[s], chunk) \in Seq(Chunks) /\ Len(Append(theta[s], chunk)) = Len(theta[s]) + 1
  BY <1>1, AppendProperties
<1>3. Append(theta[s], chunk) \in Learnt
  BY <1>1, <1>2, Sequences, BoundsAssumption
<1>4. decisions[s] = Len(theta[s]) /\ decisions[s] + 1 \in 0..MaxLearnt
  BY <1>1, BoundsAssumption DEF LearnInv
<1> QED BY <1>1, <1>2, <1>3, <1>4 DEF LearnInv

LEMMA LearnStays ==
  ASSUME LearnInv, Learn!Next
  PROVE  LearnInv'
<1> USE DEF LearnInv
<1>1. CASE Learn!Decides
  <2>1. PICK s \in Schedulers :
          \/ \E chunk \in Chunks : Learn!Decide(s, chunk) \/ Learn!DecideInTime(s, chunk)
          \/ Learn!DecideInHaste(s)
          \/ Learn!DecideEmergency(s)
    BY <1>1 DEF Learn!Decides
  <2>2. UNCHANGED <<native, device, cache>>
    BY <1>1 DEF Learn!Decides
  <2>3. \A chunk \in Chunks : Learn!CoreLearns(chunk) =>
                                core' \in Seq(Chunks) /\ Len(core') <= MaxCore
    BY AppendProperties, LenProperties, BoundsAssumption DEF Learn!CoreLearns
  <2>4. ASSUME NEW chunk \in Chunks, Learn!Decide(s, chunk)
        PROVE  LearnInv'
    <3>1. /\ Learn!Learns(s, chunk) /\ UNCHANGED strayed
          /\ Learn!CoreLearns(chunk) \/ UNCHANGED core
      BY <2>4 DEF Learn!Decide
    <3> QED BY <2>2, <2>3, <3>1, OneMore
  <2>5. ASSUME NEW chunk \in Chunks, Learn!DecideInTime(s, chunk)
        PROVE  LearnInv'
    <3>1. CASE native
      <4>1. Learn!CoreLearns(chunk) /\ strayed' = TRUE /\ UNCHANGED <<theta, decisions>>
        BY <2>5, <3>1 DEF Learn!DecideInTime
      <4> QED BY <2>2, <2>3, <4>1
    <3>2. CASE ~native
      BY <2>4, <2>5, <3>2 DEF Learn!DecideInTime
    <3> QED BY <3>1, <3>2
  <2>6. CASE Learn!DecideInHaste(s)
    BY <2>4, <2>6, ChunksAssumption DEF Learn!DecideInHaste
  <2>7. CASE Learn!DecideEmergency(s)
    <3>1. Learn!Learns(s, Micro) /\ strayed' = TRUE /\ UNCHANGED core
      BY <2>7 DEF Learn!DecideEmergency
    <3> QED BY <2>2, <3>1, OneMore, ChunksAssumption
  <2> QED BY <2>1, <2>4, <2>5, <2>6, <2>7
<1>2. CASE Learn!EvictExpired
  <2>1. /\ \A d \in Devices : cache'[d] \in {cache[d], NoProfile}
        /\ cache' \in [Devices -> Profiles \cup {NoProfile}]
        /\ UNCHANGED <<native, theta, decisions, device, core, strayed>>
    BY <1>2 DEF Learn!EvictExpired
  <2> QED BY <2>1
<1>3. ASSUME NEW s \in Schedulers, Learn!ResetWeights(s) PROVE LearnInv'
  <2>1. << >> \in Learnt /\ Len(<< >>) = 0 /\ 0 \in 0..MaxLearnt
    BY Sequences, EmptySeq, BoundsAssumption
  <2>2. /\ theta' = [theta EXCEPT ![s] = << >>] /\ decisions' = [decisions EXCEPT ![s] = 0]
        /\ strayed' = TRUE /\ UNCHANGED <<native, device, cache, core>>
    BY <1>3 DEF Learn!ResetWeights
  <2>3. \A r \in Schedulers : decisions'[r] = Len(theta'[r])
    BY <2>1, <2>2
  <2> QED BY <2>1, <2>2, <2>3
<1>4. ASSUME NEW s \in Schedulers
      PROVE  /\ Learn!Saved(s) \in Profiles
             /\ Learn!Saved(s).decisions = Len(Learn!Saved(s).theta)
  BY DEF Learn!Saved, Profiles
<1>5. ASSUME NEW s \in Schedulers, NEW d \in Devices, cache' = [cache EXCEPT ![d] = Learn!Saved(s)]
      PROVE  /\ cache' \in [Devices -> Profiles \cup {NoProfile}]
             /\ \A e \in Devices : cache'[e] # NoProfile =>
                                     cache'[e].decisions = Len(cache'[e].theta)
  BY <1>4, <1>5
<1>6. ASSUME NEW s \in Schedulers, Learn!Detach(s) PROVE LearnInv'
  <2>1. /\ device[s] \in Devices /\ cache' = [cache EXCEPT ![device[s]] = Learn!Saved(s)]
        /\ device' = [device EXCEPT ![s] = NoDevice]
        /\ UNCHANGED <<native, theta, decisions, core, strayed>>
    BY <1>6 DEF Learn!Detach
  <2> QED BY <1>5, <2>1
<1>7. ASSUME NEW s \in Schedulers, NEW d \in Devices, Learn!Save(s, d) PROVE LearnInv'
  BY <1>5, <1>7 DEF Learn!Save
<1>8. ASSUME NEW s \in Schedulers, NEW d \in Devices, Learn!Attach(s, d) PROVE LearnInv'
  <2>1. /\ cache[d] # NoProfile /\ theta' = [theta EXCEPT ![s] = cache[d].theta]
        /\ decisions' = [decisions EXCEPT ![s] = cache[d].decisions]
        /\ device' = [device EXCEPT ![s] = d] /\ strayed' = TRUE
        /\ UNCHANGED <<native, cache, core>>
    BY <1>8 DEF Learn!Attach, Learn!Loaded, Learn!Held
  <2>2. /\ cache[d].theta \in Learnt /\ cache[d].decisions \in 0..MaxLearnt
        /\ cache[d].decisions = Len(cache[d].theta)
    BY <2>1 DEF Profiles
  <2>3. \A r \in Schedulers : decisions'[r] = Len(theta'[r])
    BY <2>1, <2>2
  <2> QED BY <2>1, <2>2, <2>3
<1>9. ASSUME NEW d \in Devices, Learn!AttachToOld(d) PROVE LearnInv'
  <2>1. /\ cache' = [cache EXCEPT ![d] = NoProfile]
        /\ UNCHANGED <<native, theta, decisions, device, core, strayed>>
    BY <1>9 DEF Learn!AttachToOld
  <2> QED BY <2>1
<1>10. ASSUME NEW d \in Devices, Learn!Expire(d) PROVE LearnInv'
  <2>1. /\ cache[d] \in Profiles /\ cache' = [cache EXCEPT ![d] = [cache[d] EXCEPT !.old = TRUE]]
        /\ UNCHANGED <<native, theta, decisions, device, core, strayed>>
    BY <1>10 DEF Learn!Expire, Learn!Loaded, Learn!Held
  <2>2. /\ [cache[d] EXCEPT !.old = TRUE] \in Profiles
        /\ [cache[d] EXCEPT !.old = TRUE].theta = cache[d].theta
        /\ [cache[d] EXCEPT !.old = TRUE].decisions = cache[d].decisions
    BY <2>1 DEF Profiles
  <2>3. cache[d] # NoProfile
    BY <1>10 DEF Learn!Expire, Learn!Loaded, Learn!Held
  <2>4. cache' \in [Devices -> Profiles \cup {NoProfile}]
    BY <2>1, <2>2
  <2>5. \A e \in Devices : cache'[e] # NoProfile => cache'[e].decisions = Len(cache'[e].theta)
    BY <2>1, <2>2, <2>3
  <2> QED BY <2>1, <2>4, <2>5
<1> QED BY <1>1, <1>2, <1>3, <1>6, <1>7, <1>8, <1>9, <1>10 DEF Learn!Next

LEMMA LearnBegins == Learn!Init => LearnInv
<1> SUFFICES ASSUME Learn!Init PROVE LearnInv
  OBVIOUS
<1>1. /\ << >> \in Learnt /\ Len(<< >>) = 0 /\ 0 \in 0..MaxLearnt /\ 0 <= MaxCore
      /\ << >> \in Seq(Chunks)
  BY Sequences, EmptySeq, BoundsAssumption
<1>2. \A s \in Schedulers : decisions[s] = Len(theta[s])
  BY <1>1 DEF Learn!Init
<1>3. \A d \in Devices : cache[d] = NoProfile
  BY DEF Learn!Init
<1>4. native \in BOOLEAN /\ strayed \in BOOLEAN
  BY DEF Learn!Init
<1>5. core \in Seq(Chunks) /\ Len(core) <= MaxCore
  BY <1>1 DEF Learn!Init
<1>6. /\ theta \in [Schedulers -> Learnt] /\ decisions \in [Schedulers -> 0..MaxLearnt]
      /\ device \in [Schedulers -> Devices \cup {NoDevice}]
      /\ cache \in [Devices -> Profiles \cup {NoProfile}]
  BY <1>1 DEF Learn!Init
<1> QED BY <1>2, <1>3, <1>4, <1>5, <1>6 DEF LearnInv

LEMMA LearnRests ==
  ASSUME LearnInv, UNCHANGED learnVars
  PROVE  LearnInv'
BY DEF LearnInv, learnVars

-----------------------------------------------------------------------------
(* The run of the vehicles.  Who is in an emergency started no longer ago   *)
(* than it lasts; in a cascade that is the lead vehicle alone, which hears  *)
(* of itself from nobody.                                                   *)
Kept(counts) ==
  /\ counts \in [sent : Nat, delivered : Nat, met : Nat]
  /\ counts.met <= counts.delivered /\ counts.delivered <= counts.sent
StepsBegun == IF turn = 0 THEN tick ELSE tick + 1
StartedLately(r) ==
  \E at \in Nat : r \in Vehicles!Starts(at) /\ StepsBegun <= at + ClearAfter
CascadeGoesOn ==
  /\ alarmed = IF lead = NoLead THEN {} ELSE {lead}
  /\ lead \notin reached /\ denm.delivered >= Cardinality(reached)
  /\ lead = NoLead => reached = {}

VehiclesInv ==
  /\ scenario \in {"urban", "highway", "cascade"}
  /\ radios \in 0..MaxRadios /\ tick \in 0..TotalSteps + 1 /\ turn \in 0..radios
  /\ turn # 0 => tick <= TotalSteps
  /\ alarmed \subseteq 1..radios /\ lead \in 1..radios \cup {NoLead}
  /\ Kept(bsm) /\ Kept(denm)
  /\ lossObs \in [1..radios -> [sent : Nat, lost : Nat]]
  /\ reached \subseteq 1..radios
  /\ scenario # "cascade" => lead = NoLead /\ \A r \in alarmed : StartedLately(r)
  /\ scenario = "cascade" => CascadeGoesOn

(* What LossesAreObserved says beside the sums over the senders.            *)
MetricsAreSound ==
  /\ bsm.met <= bsm.delivered /\ bsm.delivered <= bsm.sent
  /\ denm.met <= denm.delivered /\ denm.delivered <= denm.sent
  /\ scenario = "cascade" => CascadeGoesOn
  /\ tick > Vehicles!Second + ClearAfter => scenario = "cascade" \/ alarmed = {}

LEMMA Emergencies ==
  /\ Vehicles!First \in Nat /\ Vehicles!Second \in Nat /\ Vehicles!First <= Vehicles!Second
  /\ \A at \in Nat : \A r \in Vehicles!Starts(at) :
       /\ r \in 1..radios /\ scenario # "cascade" /\ at <= Vehicles!Second
<1>1. TotalSteps \in Nat
  BY BoundsAssumption
<1>2. Vehicles!First \in Nat /\ Vehicles!Second \in Nat /\ Vehicles!First <= Vehicles!Second
  BY <1>1 DEF Vehicles!First, Vehicles!Second
<1> QED BY <1>2 DEF Vehicles!Starts, Vehicles!Injected

LEMMA VehiclesImply == VehiclesInv => Vehicles!TypeOK /\ MetricsAreSound
<1> SUFFICES ASSUME VehiclesInv PROVE Vehicles!TypeOK /\ MetricsAreSound
  OBVIOUS
<1>1. Vehicles!TypeOK
  BY DEF VehiclesInv, Kept, Vehicles!TypeOK
<1>2. tick > Vehicles!Second + ClearAfter /\ scenario # "cascade" => alarmed = {}
  <2> SUFFICES ASSUME tick > Vehicles!Second + ClearAfter, scenario # "cascade",
                      NEW r \in alarmed
               PROVE  FALSE
    OBVIOUS
  <2>1. PICK at \in Nat : r \in Vehicles!Starts(at) /\ StepsBegun <= at + ClearAfter
    BY DEF VehiclesInv, StartedLately
  <2>2. at <= Vehicles!Second /\ Vehicles!Second \in Nat /\ ClearAfter \in Nat
    BY <2>1, Emergencies, BoundsAssumption
  <2>3. StepsBegun >= tick /\ tick \in Nat /\ StepsBegun \in Nat
    BY BoundsAssumption DEF StepsBegun, VehiclesInv
  <2> QED BY <2>1, <2>2, <2>3
<1> QED BY <1>1, <1>2 DEF VehiclesInv, Kept, MetricsAreSound

LEMMA NextStepStays ==
  ASSUME VehiclesInv, Vehicles!NextStep
  PROVE  VehiclesInv'
<1> USE DEF VehiclesInv
<1>0. /\ radios \in Nat /\ tick \in Nat /\ turn = 0 /\ tick <= TotalSteps
      /\ TotalSteps \in Nat /\ ClearAfter \in Nat /\ MaxRadios \in Nat
  BY BoundsAssumption DEF Vehicles!NextStep
<1>1. UNCHANGED <<scenario, radios, bsm, denm, lossObs, reached>>
  BY DEF Vehicles!NextStep
<1>2. /\ tick' \in 0..TotalSteps + 1 /\ turn' \in 0..radios
      /\ turn' # 0 => tick' <= TotalSteps
      /\ StepsBegun' = tick + 1
  <2>1. CASE Vehicles!Due
    BY <1>0, <2>1 DEF Vehicles!NextStep, Vehicles!Due, StepsBegun
  <2>2. CASE ~Vehicles!Due
    BY <1>0, <2>2 DEF Vehicles!NextStep, StepsBegun
  <2> QED BY <2>1, <2>2
<1>3. Kept(bsm)' /\ Kept(denm)'
  BY <1>1 DEF Kept
<1>4. CASE scenario = "cascade" /\ lead' \in 1..radios /\ alarmed' = (alarmed \cup {lead'})
           /\ lead = NoLead
  <2>1. alarmed = {} /\ alarmed' = {lead'} /\ reached = {}
    BY <1>4 DEF CascadeGoesOn
  <2>2. lead' # NoLead
    BY <1>0, <1>4, NullsAssumption
  <2>3. CascadeGoesOn'
    BY <1>1, <1>4, <2>1, <2>2 DEF CascadeGoesOn
  <2> QED BY <1>1, <1>2, <1>3, <1>4, <2>1, <2>3
<1>5. CASE /\ alarmed' = (alarmed \cup Vehicles!Starts(tick)) \ Vehicles!Ends(tick)
           /\ UNCHANGED lead
  <2>1. alarmed' \subseteq 1..radios
    BY <1>0, <1>5, Emergencies
  <2>2. CASE scenario = "cascade"
    <3>1. \A at \in Nat : Vehicles!Starts(at) = {}
      BY <2>2, Emergencies
    <3>2. Vehicles!Ends(tick) = {}
      BY <1>0, <3>1 DEF Vehicles!Ends
    <3>3. alarmed' = alarmed
      BY <1>0, <1>5, <3>1, <3>2
    <3>4. CascadeGoesOn'
      BY <1>1, <1>5, <2>2, <3>3 DEF CascadeGoesOn
    <3> QED BY <1>1, <1>2, <1>3, <1>5, <2>1, <2>2, <3>4
  <2>3. CASE scenario # "cascade"
    <3>1. ASSUME NEW r \in alarmed' PROVE StartedLately(r)'
      <4>1. PICK at \in Nat : r \in Vehicles!Starts(at) /\ tick <= at + ClearAfter
        <5>1. CASE r \in alarmed
          BY <1>0, <2>3, <5>1 DEF StartedLately, StepsBegun
        <5>2. CASE r \in Vehicles!Starts(tick)
          BY <1>0, <5>2
        <5> QED BY <1>5, <3>1, <5>1, <5>2
      <4>2. tick # at + ClearAfter
        <5>1. ASSUME tick = at + ClearAfter PROVE FALSE
          <6>1. tick >= ClearAfter /\ tick - ClearAfter = at
            BY <1>0, <5>1
          <6>2. r \in Vehicles!Ends(tick)
            BY <4>1, <6>1 DEF Vehicles!Ends
          <6> QED BY <1>5, <3>1, <6>2
        <5> QED BY <5>1
      <4>3. tick + 1 <= at + ClearAfter
        BY <1>0, <4>1, <4>2
      <4>4. Vehicles!Starts(at)' = Vehicles!Starts(at)
        BY <1>1 DEF Vehicles!Starts, Vehicles!Injected, Vehicles!First, Vehicles!Second
      <4> QED BY <1>2, <4>1, <4>3, <4>4 DEF StartedLately
    <3> QED BY <1>1, <1>2, <1>3, <1>5, <2>1, <2>3, <3>1
  <2> QED BY <2>2, <2>3
<1> QED BY <1>4, <1>5 DEF Vehicles!NextStep

(* A subset of the radios is finite, and a part of it is not larger.        *)
LEMMA Sizes ==
  ASSUME radios \in Nat, NEW S \in SUBSET (1..radios), NEW T \in SUBSET S
  PROVE  /\ IsFiniteSet(S) /\ IsFiniteSet(T)
         /\ Cardinality(S) \in Nat /\ Cardinality(T) \in Nat
         /\ Cardinality(T) <= Cardinality(S)
<1>1. IsFiniteSet(1..radios)
  BY FS_Interval
<1>2. IsFiniteSet(S)
  BY <1>1, FS_Subset
<1> QED BY <1>2, FS_Subset, FS_CardinalityType

LEMMA UnionSize ==
  ASSUME radios \in Nat, NEW S \in SUBSET (1..radios), NEW T \in SUBSET (1..radios)
  PROVE  Cardinality(S \cup T) <= Cardinality(S) + Cardinality(T)
<1>1. /\ IsFiniteSet(S) /\ IsFiniteSet(T) /\ Cardinality(S) \in Nat /\ Cardinality(T) \in Nat
      /\ Cardinality(S \cap T) \in Nat
  BY Sizes
<1>2. Cardinality(S \cup T) = Cardinality(S) + Cardinality(T) - Cardinality(S \cap T)
  BY <1>1, FS_Union
<1> QED BY <1>1, <1>2

LEMMA CountsKept ==
  ASSUME NEW counts, Kept(counts), NEW n \in Nat, NEW got \in 0..n, NEW met \in 0..got
  PROVE  Kept(Vehicles!Counted(counts, n, got, met))
BY DEF Kept, Vehicles!Counted

LEMMA ObservedTyped ==
  ASSUME NEW r, lossObs[r].sent \in Nat, lossObs[r].lost \in Nat, NEW n \in Nat, NEW d \in 0..n
  PROVE  Vehicles!Observed(r, n, d) \in [sent : Nat, lost : Nat]
<1>1. lossObs[r].sent + n \in Nat /\ n - d \in Nat
  OBVIOUS
<1>2. lossObs[r].lost + (n - d) \in Nat
  BY <1>1
<1> QED BY <1>1, <1>2, Zenon DEF Vehicles!Observed

(* The cardinality that the instance defines is the one of the theorems.    *)
LEMMA SameCardinality == \A S : Vehicles!Cardinality(S) = Cardinality(S)
BY Zenon DEF Vehicles!Cardinality, Cardinality

LEMMA BroadcastStays ==
  ASSUME VehiclesInv, Vehicles!Broadcast
  PROVE  VehiclesInv'
<1> USE DEF VehiclesInv
<1>0. /\ radios \in Nat /\ tick \in Nat /\ turn # 0 /\ turn \in 1..radios /\ tick <= TotalSteps
      /\ TotalSteps \in Nat /\ MaxRadios \in Nat
  BY BoundsAssumption DEF Vehicles!Broadcast
<1>1. PICK far \in SUBSET (1..radios \ {turn}) : \E near \in SUBSET far :
        Vehicles!Transmits(near, IF turn \in alarmed THEN far ELSE {})
  BY DEF Vehicles!Broadcast
<1> DEFINE warned == IF turn \in alarmed THEN far ELSE {}
<1>13. PICK near \in SUBSET far : Vehicles!Transmits(near, warned)
  BY <1>1
<1> HIDE DEF warned
<1>2. PICK got \in 0..Cardinality(near), heard \in SUBSET warned :
        /\ \E met \in 0..got : bsm' = Vehicles!Counted(bsm, Cardinality(near), got, met)
        /\ \E met \in 0..Cardinality(heard) :
             denm' = Vehicles!Counted(denm, Cardinality(warned), Cardinality(heard), met)
        /\ lossObs' = [lossObs EXCEPT ![turn] =
             Vehicles!Observed(turn, Cardinality(near) + Cardinality(warned),
                               got + Cardinality(heard))]
        /\ reached' = IF scenario = "cascade" /\ lead # NoLead
                      THEN reached \cup heard ELSE reached
  BY <1>13, SameCardinality DEF Vehicles!Transmits
<1>3. UNCHANGED <<scenario, radios, alarmed, lead>>
  BY DEF Vehicles!Broadcast
<1>4. /\ near \in SUBSET (1..radios) /\ warned \in SUBSET (1..radios)
      /\ heard \in SUBSET (1..radios) /\ turn \notin heard /\ heard \in SUBSET warned
      /\ turn \notin alarmed => heard = {}
  BY DEF warned
<1>5. /\ Cardinality(near) \in Nat /\ Cardinality(warned) \in Nat /\ Cardinality(heard) \in Nat
      /\ Cardinality(heard) <= Cardinality(warned)
  BY <1>0, <1>4, Sizes
<1>6. Kept(bsm)'
  <2>1. PICK met \in 0..got : bsm' = Vehicles!Counted(bsm, Cardinality(near), got, met)
    BY <1>2
  <2> QED BY <1>5, <2>1, CountsKept
<1>7. Kept(denm)' /\ denm'.delivered = denm.delivered + Cardinality(heard)
  <2>1. PICK met \in 0..Cardinality(heard) :
          denm' = Vehicles!Counted(denm, Cardinality(warned), Cardinality(heard), met)
    BY <1>2
  <2>2. Cardinality(heard) \in 0..Cardinality(warned)
    BY <1>5
  <2>3. Kept(denm)'
    BY <1>5, <2>1, <2>2, CountsKept
  <2> QED BY <2>1, <2>3 DEF Vehicles!Counted
<1>8. lossObs' \in [1..radios' -> [sent : Nat, lost : Nat]]
  <2>1. lossObs[turn].sent \in Nat /\ lossObs[turn].lost \in Nat
    BY <1>0
  <2>2. got \in Nat /\ got <= Cardinality(near)
    BY <1>5
  <2>3. Vehicles!Observed(turn, Cardinality(near) + Cardinality(warned),
                          got + Cardinality(heard)) \in [sent : Nat, lost : Nat]
    <3>1. /\ Cardinality(near) + Cardinality(warned) \in Nat
          /\ got + Cardinality(heard) \in 0..Cardinality(near) + Cardinality(warned)
      BY <1>5, <2>2
    <3> QED BY <2>1, <3>1, ObservedTyped
  <2> QED BY <1>2, <1>3, <2>3
<1>9. /\ tick' \in 0..TotalSteps + 1 /\ turn' \in 0..radios'
      /\ turn' # 0 => tick' <= TotalSteps
      /\ StepsBegun' = StepsBegun
  <2>1. \/ turn < radios /\ turn' = turn + 1 /\ tick' = tick
        \/ turn' = 0 /\ tick' = tick + 1
    BY DEF Vehicles!Broadcast
  <2> QED BY <1>0, <1>3, <2>1 DEF StepsBegun
<1>10. reached' \subseteq 1..radios'
  BY <1>2, <1>3, <1>4
<1>11. scenario # "cascade" => lead' = NoLead /\ \A r \in alarmed' : StartedLately(r)'
  <2>1. \A at : Vehicles!Starts(at)' = Vehicles!Starts(at)
    BY <1>3 DEF Vehicles!Starts, Vehicles!Injected, Vehicles!First, Vehicles!Second
  <2>2. \A r : StartedLately(r)' <=> StartedLately(r)
    BY <1>9, <2>1 DEF StartedLately
  <2> QED BY <1>3, <2>2
<1>12. scenario = "cascade" => CascadeGoesOn'
  <2> SUFFICES ASSUME scenario = "cascade" PROVE CascadeGoesOn'
    OBVIOUS
  <2>1. /\ alarmed = IF lead = NoLead THEN {} ELSE {lead}
        /\ lead \notin reached /\ denm.delivered >= Cardinality(reached)
        /\ lead = NoLead => reached = {}
    BY DEF CascadeGoesOn
  <2>2. lead \notin heard
    <3>1. CASE turn \in alarmed
      BY <1>4, <2>1, <3>1
    <3>2. CASE turn \notin alarmed
      BY <1>4, <3>2
    <3> QED BY <3>1, <3>2
  <2>3. /\ Cardinality(reached \cup heard) <= Cardinality(reached) + Cardinality(heard)
        /\ Cardinality(reached) \in Nat /\ Cardinality(reached \cup heard) \in Nat
    BY <1>0, <1>4, UnionSize, Sizes
  <2>4. denm'.delivered >= Cardinality(reached') 
    <3>1. denm.delivered \in Nat
      BY DEF Kept
    <3>2. reached' = reached \/ reached' = reached \cup heard
      BY <1>2
    <3>3. CASE reached' = reached
      BY <1>5, <1>7, <2>1, <2>3, <3>1, <3>3
    <3>4. CASE reached' = reached \cup heard
      <4>1. Cardinality(reached') <= Cardinality(reached) + Cardinality(heard)
            /\ Cardinality(reached') \in Nat
        BY <2>3, <3>4
      <4> QED BY <1>5, <1>7, <2>1, <2>3, <3>1, <4>1
    <3> QED BY <3>2, <3>3, <3>4
  <2>5. lead' \notin reached' /\ (lead' = NoLead => reached' = {})
    BY <1>2, <1>3, <2>1, <2>2
  <2> QED BY <1>3, <2>1, <2>4, <2>5 DEF CascadeGoesOn
<1> QED BY <1>3, <1>6, <1>7, <1>8, <1>9, <1>10, <1>11, <1>12

LEMMA VehiclesBegin == Vehicles!Init => VehiclesInv
<1> SUFFICES ASSUME Vehicles!Init PROVE VehiclesInv
  OBVIOUS
<1>1. Kept(Vehicles!Nothing)
  BY DEF Kept, Vehicles!Nothing
<1>2. Cardinality({}) = 0
  BY FS_EmptySet
<1>3. /\ scenario \in {"urban", "highway", "cascade"} /\ radios \in 0..MaxRadios
      /\ tick = 0 /\ turn = 0 /\ alarmed = {} /\ lead = NoLead
      /\ bsm = Vehicles!Nothing /\ denm = Vehicles!Nothing /\ reached = {}
      /\ lossObs = [r \in 1..radios |-> [sent |-> 0, lost |-> 0]]
  BY DEF Vehicles!Init
<1>4. lossObs \in [1..radios -> [sent : Nat, lost : Nat]]
  BY <1>3
<1>5. CascadeGoesOn
  BY <1>2, <1>3 DEF CascadeGoesOn, Vehicles!Nothing
<1> QED BY <1>1, <1>3, <1>4, <1>5, BoundsAssumption DEF VehiclesInv

LEMMA VehiclesRest ==
  ASSUME VehiclesInv, UNCHANGED vehicleVars
  PROVE  VehiclesInv'
<1>1. UNCHANGED <<scenario, radios, tick, turn, alarmed, lead, bsm, denm, lossObs, reached>>
  BY DEF vehicleVars
<1>2. \A r : StartedLately(r)' <=> StartedLately(r)
  BY <1>1 DEF StartedLately, StepsBegun, Vehicles!Starts, Vehicles!Injected, Vehicles!First,
              Vehicles!Second
<1>3. CascadeGoesOn' <=> CascadeGoesOn
  BY <1>1 DEF CascadeGoesOn
<1> QED BY <1>1, <1>2, <1>3 DEF VehiclesInv, Kept

-----------------------------------------------------------------------------
(* The parts together.                                                      *)
IInv ==
  /\ part \in Parts
  /\ RotationInv /\ HandshakeInv /\ SendInv /\ LearnInv /\ HybridInv /\ VehiclesInv

LEMMA Begins == Init => IInv
BY RotationBegins, HandshakeBegins, SendBegins, LearnBegins, HybridBegins, VehiclesBegin
DEF Init, IInv

LEMMA Continues ==
  ASSUME IInv, [Next]_vars
  PROVE  IInv' /\ (strategy' # strategy => Send!ChangeIsEarned)
<1>1. CASE UNCHANGED vars
  BY <1>1, RotationRests, HandshakeRests, SendRests, LearnRests, HybridRests, VehiclesRest
  DEF vars, IInv
<1>2. CASE RotationStep
  BY <1>2, RotationStays, HandshakeRests, SendRests, LearnRests, HybridRests, VehiclesRest
  DEF RotationStep, IInv
<1>3. CASE HandshakeStep
  BY <1>3, RotationRests, HandshakeStays, SendRests, LearnRests, HybridRests, VehiclesRest
  DEF HandshakeStep, IInv
<1>4. CASE SendStep
  <2>1. /\ part' \in Parts \/ part' = part
        /\ RotationInv' /\ HandshakeInv' /\ LearnInv' /\ HybridInv' /\ VehiclesInv'
    BY <1>4, RotationRests, HandshakeRests, LearnRests, HybridRests, VehiclesRest
    DEF SendStep, IInv
  <2>2. SendInv' /\ (strategy' # strategy => Send!ChangeIsEarned)
    BY <1>4, SessionStays, VoteStays DEF SendStep, IInv
  <2> QED BY <1>4, <2>1, <2>2 DEF SendStep, IInv, Parts
<1>5. CASE LearnStep
  BY <1>5, RotationRests, HandshakeRests, SendRests, LearnStays, HybridRests, VehiclesRest
  DEF LearnStep, IInv
<1>6. CASE HybridStep
  BY <1>6, RotationRests, HandshakeRests, SendRests, LearnRests, HybridStays, VehiclesRest
  DEF HybridStep, IInv
<1>7. CASE VehicleStep
  BY <1>7, RotationRests, HandshakeRests, SendRests, LearnRests, HybridRests,
     NextStepStays, BroadcastStays
  DEF VehicleStep, IInv, Vehicles!Next
<1> QED BY <1>1, <1>2, <1>3, <1>4, <1>5, <1>6, <1>7 DEF Next

(* In every behaviour of SessionLife the invariant of each part holds.      *)
THEOREM Invariance == Spec => []IInv
<1>1. Init => IInv
  BY Begins
<1>2. IInv /\ [Next]_vars => IInv'
  BY Continues
<1> QED BY <1>1, <1>2, PTL DEF Spec

(* The state of every part keeps its type and its bounds.                   *)
THEOREM TypeCorrect == Spec => []TypeOK
<1>1. IInv => TypeOK
  BY RotationImplies, HandshakeImplies, LearnTyped, HybridImplies, VehiclesImply
  DEF IInv, SendInv, TypeOK
<1> QED BY <1>1, Invariance, PTL

(* As long as no two rotations overlap, the key that the id of a rotation   *)
(* stands for is found (key_rotation.py:179), for any number of tasks,      *)
(* rotations that fail and any interval and overlap.                        *)
THEOREM RotatedKeysAreFound == Spec => []KeysAreFound
<1>1. IInv => KeysAreFound
  BY RotationImplies DEF IInv, KeysAreFound
<1> QED BY <1>1, Invariance, PTL

(* A client that came through has the keys of the server at the other end,  *)
(* after a resumption as after a full handshake (handshake.py:271), and the *)
(* ends of a hybrid handshake agree exactly if both are equipped alike and  *)
(* the pair was not renewed (pqc_handshake.py:350).                         *)
THEOREM EndsHaveTheSameKeys == Spec => []KeysAgree
<1>1. IInv => KeysAgree
  BY HandshakeImplies, HybridImplies DEF IInv, KeysAgree
<1> QED BY <1>1, Invariance, PTL

(* However many connections resume with a ticket, whatever expires or is    *)
(* issued meanwhile, at most one gets its keys (session_ticket.py:100).     *)
THEOREM TicketsGiveKeysOnce == Spec => []TicketsAreSingleUse
<1>1. IInv => TicketsAreSingleUse
  BY HandshakeImplies DEF IInv, TicketsAreSingleUse
<1> QED BY <1>1, Invariance, PTL

(* The scheduler leaves a strategy only after as many calls in a row        *)
(* against it as its threshold asks for (qft_scheduler.py:551).             *)
THEOREM ChangesTakeASeries == Spec => ChangesAreEarned
<1>1. IInv /\ [Next]_vars => [Send!ChangeIsEarned]_vars
  BY Continues DEF Send!ChangeIsEarned
<1> QED BY <1>1, Invariance, PTL DEF Spec, ChangesAreEarned

-----------------------------------------------------------------------------
(* The sums over the schedulers and over the senders of a run.              *)
LEMMA SameSum == \A f : Learn!SumFunction(f) = SumFunction(f)
                        /\ Vehicles!SumFunction(f) = SumFunction(f)
BY Zenon
DEF Learn!SumFunction, Learn!SumFunctionOnSet, Learn!FoldFunctionOnSet, Learn!MapThenFoldSet,
    Vehicles!SumFunction, Vehicles!SumFunctionOnSet, Vehicles!FoldFunctionOnSet,
    Vehicles!MapThenFoldSet,
    SumFunction, SumFunctionOnSet, FoldFunctionOnSet, MapThenFoldSet

LEMMA SameSize == \A S : Learn!Cardinality(S) = Cardinality(S)
BY Zenon DEF Learn!Cardinality, Cardinality

(* How often all the schedulers together reinforced a strategy.             *)
ByAll(chunk) == SumFunction([s \in Schedulers |-> Learn!Times(theta[s], chunk)])
CoreLearnsAll ==
  native /\ ~strayed => \A chunk \in Chunks : Learn!Times(core, chunk) = ByAll(chunk)

(* The losses that the protocol holds against each sender, and the messages *)
(* it saw of it.                                                            *)
SentOf == [r \in 1..radios |-> lossObs[r].sent]
LostOf == [r \in 1..radios |-> lossObs[r].lost]
LossesAddUp ==
  /\ SumFunction(SentOf) = bsm.sent + denm.sent
  /\ SumFunction(LostOf) = (bsm.sent - bsm.delivered) + (denm.sent - denm.delivered)

(* A strategy that is reinforced once more was reinforced once more.        *)
LEMMA TimesGrow ==
  ASSUME NEW seq \in Seq(Chunks), NEW chunk \in Chunks, NEW c \in Chunks
  PROVE  /\ Learn!Times(seq, c) \in Nat
         /\ Learn!Times(Append(seq, chunk), c)
              = Learn!Times(seq, c) + (IF chunk = c THEN 1 ELSE 0)
<1> DEFINE next == Append(seq, chunk)
           n == Len(seq)
           A == {i \in DOMAIN seq : seq[i] = c}
           B == {i \in DOMAIN next : next[i] = c}
<1>1. n \in Nat /\ DOMAIN seq = 1..n /\ n + 1 \notin 1..n
  BY LenProperties
<1>2. /\ DOMAIN next = 1..(n + 1) /\ next[n + 1] = chunk
      /\ \A i \in 1..n : next[i] = seq[i]
  BY AppendProperties, <1>1
<1>3. 1..(n + 1) = (1..n) \cup {n + 1}
  BY <1>1
<1>4. IsFiniteSet(A) /\ Cardinality(A) \in Nat /\ n + 1 \notin A
  <2>1. A \in SUBSET (1..n) /\ n + 1 \notin A
    BY <1>1
  <2>2. IsFiniteSet(1..n)
    BY <1>1, FS_Interval
  <2> HIDE DEF A
  <2>3. IsFiniteSet(A)
    BY <2>1, <2>2, FS_Subset
  <2> QED BY <2>1, <2>3, FS_CardinalityType
<1>5. B = IF chunk = c THEN A \cup {n + 1} ELSE A
  BY <1>1, <1>2, <1>3
<1> HIDE DEF A, B
<1>6. Cardinality(B) = Cardinality(A) + (IF chunk = c THEN 1 ELSE 0)
  <2>1. CASE chunk = c
    <3>1. B = A \cup {n + 1}
      BY <1>5, <2>1
    <3>2. Cardinality(A \cup {n + 1}) = Cardinality(A) + 1
      BY <1>4, FS_AddElement
    <3> QED BY <2>1, <3>1, <3>2
  <2>2. CASE chunk # c
    BY <1>4, <1>5, <2>2
  <2> QED BY <2>1, <2>2
<1> QED BY <1>4, <1>6, SameSize DEF Learn!Times, A, B

LEMMA CoreGoesOn ==
  ASSUME LearnInv, CoreLearnsAll, NEW s \in Schedulers, NEW chunk \in Chunks,
         Learn!Decide(s, chunk), native, ~strayed, NEW c \in Chunks
  PROVE  Learn!Times(core, c)' = ByAll(c)'
<1> DEFINE f == [r \in Schedulers |-> Learn!Times(theta[r], c)]
           g == [r \in Schedulers |-> Learn!Times(theta'[r], c)]
           one == IF chunk = c THEN 1 ELSE 0
<1>1. theta' = [theta EXCEPT ![s] = Append(theta[s], chunk)] /\ core' = Append(core, chunk)
  BY DEF Learn!Decide, Learn!Learns, Learn!CoreLearns
<1>2. /\ core \in Seq(Chunks) /\ theta \in [Schedulers -> Learnt]
      /\ \A r \in Schedulers : theta[r] \in Seq(Chunks)
  BY Sequences DEF LearnInv
<1>3. f \in [Schedulers -> Int]
  BY <1>2, TimesGrow
<1>4. g[s] = f[s] + one /\ \A r \in Schedulers \ {s} : g[r] = f[r]
  BY <1>1, <1>2, TimesGrow
<1>5. g \in [Schedulers -> Int]
  <2>1. \A r \in Schedulers : g[r] \in Int
    BY <1>3, <1>4
  <2> QED BY <2>1
<1>6. Learn!Times(core', c) = Learn!Times(core, c) + one
  BY <1>1, <1>2, TimesGrow
<1>7. Learn!Times(core, c) = SumFunction(f)
  BY DEF CoreLearnsAll, ByAll
<1> HIDE DEF f, g, one
<1>8. SumFunction(g) = SumFunction(f) + g[s] - f[s] /\ SumFunction(f) \in Int
  BY <1>3, <1>4, <1>5, SchedulersAssumption, SumChanges
<1>9. f[s] \in Int /\ one \in Int
  BY <1>3 DEF one
<1>10. SumFunction(g) = SumFunction(f) + one
  BY <1>4, <1>8, <1>9
<1>11. Learn!Times(core', c) = SumFunction(g)
  BY <1>6, <1>7, <1>10
<1>12. Learn!Times(core, c)' = Learn!Times(core', c) /\ ByAll(c)' = SumFunction(g)
  BY DEF Learn!Times, ByAll, g
<1> QED BY <1>11, <1>12

LEMMA CoreStays ==
  ASSUME LearnInv, CoreLearnsAll, Learn!Next
  PROVE  CoreLearnsAll'
<1> SUFFICES ASSUME native', ~strayed' PROVE \A c \in Chunks : Learn!Times(core, c)' = ByAll(c)'
  BY DEF CoreLearnsAll
<1>1. CASE UNCHANGED <<native, strayed, core, theta>>
  BY <1>1 DEF CoreLearnsAll, ByAll, Learn!Times
<1>2. CASE Learn!Decides
  <2>1. PICK s \in Schedulers :
          \/ \E chunk \in Chunks : Learn!Decide(s, chunk) \/ Learn!DecideInTime(s, chunk)
          \/ Learn!DecideInHaste(s)
          \/ Learn!DecideEmergency(s)
    BY <1>2 DEF Learn!Decides
  <2>2. native
    BY <1>2 DEF Learn!Decides
  <2>3. ASSUME NEW chunk \in Chunks, Learn!Decide(s, chunk)
        PROVE  \A c \in Chunks : Learn!Times(core, c)' = ByAll(c)'
    <3>1. ~strayed
      BY <2>3 DEF Learn!Decide
    <3> QED BY <2>2, <2>3, <3>1, CoreGoesOn
  <2>4. ASSUME NEW chunk \in Chunks, Learn!DecideInTime(s, chunk) PROVE FALSE
    BY <2>2, <2>4 DEF Learn!DecideInTime
  <2>5. CASE Learn!DecideInHaste(s)
    BY <2>3, <2>5, ChunksAssumption DEF Learn!DecideInHaste
  <2>6. ~Learn!DecideEmergency(s)
    BY DEF Learn!DecideEmergency
  <2> QED BY <2>1, <2>3, <2>4, <2>5, <2>6
<1>3. CASE Learn!EvictExpired
  BY <1>1, <1>3 DEF Learn!EvictExpired
<1>4. ASSUME NEW s \in Schedulers, Learn!ResetWeights(s) PROVE FALSE
  BY <1>4 DEF Learn!ResetWeights
<1>5. ASSUME NEW s \in Schedulers, Learn!Detach(s)
      PROVE  UNCHANGED <<native, strayed, core, theta>>
  BY <1>5 DEF Learn!Detach
<1>6. ASSUME NEW s \in Schedulers, NEW d \in Devices, Learn!Save(s, d)
      PROVE  UNCHANGED <<native, strayed, core, theta>>
  BY <1>6 DEF Learn!Save
<1>7. ASSUME NEW s \in Schedulers, NEW d \in Devices, Learn!Attach(s, d) PROVE FALSE
  BY <1>7 DEF Learn!Attach
<1>8. ASSUME NEW d \in Devices, Learn!AttachToOld(d)
      PROVE  UNCHANGED <<native, strayed, core, theta>>
  BY <1>8 DEF Learn!AttachToOld
<1>9. ASSUME NEW d \in Devices, Learn!Expire(d)
      PROVE  UNCHANGED <<native, strayed, core, theta>>
  BY <1>9 DEF Learn!Expire
<1> QED BY <1>1, <1>2, <1>3, <1>4, <1>5, <1>6, <1>7, <1>8, <1>9 DEF Learn!Next

LEMMA LossesStay ==
  ASSUME VehiclesInv, LossesAddUp, Vehicles!Broadcast
  PROVE  LossesAddUp'
<1>1. /\ radios \in Nat /\ turn \in 1..radios /\ radios' = radios
      /\ lossObs \in [1..radios -> [sent : Nat, lost : Nat]] /\ Kept(bsm) /\ Kept(denm)
  BY BoundsAssumption DEF VehiclesInv, Vehicles!Broadcast
<1>2. PICK far \in SUBSET (1..radios \ {turn}) : \E near \in SUBSET far :
        Vehicles!Transmits(near, IF turn \in alarmed THEN far ELSE {})
  BY DEF Vehicles!Broadcast
<1> DEFINE warned == IF turn \in alarmed THEN far ELSE {}
<1>3. PICK near \in SUBSET far : Vehicles!Transmits(near, warned)
  BY <1>2
<1>4. near \in SUBSET (1..radios) /\ warned \in SUBSET (1..radios)
  OBVIOUS
<1> HIDE DEF warned
<1>5. PICK got \in 0..Cardinality(near), heard \in SUBSET warned :
        /\ \E met \in 0..got : bsm' = Vehicles!Counted(bsm, Cardinality(near), got, met)
        /\ \E met \in 0..Cardinality(heard) :
             denm' = Vehicles!Counted(denm, Cardinality(warned), Cardinality(heard), met)
        /\ lossObs' = [lossObs EXCEPT ![turn] =
             Vehicles!Observed(turn, Cardinality(near) + Cardinality(warned),
                               got + Cardinality(heard))]
  <2>1. \E got \in 0..Vehicles!Cardinality(near), heard \in SUBSET warned :
          /\ \E met \in 0..got :
               bsm' = Vehicles!Counted(bsm, Vehicles!Cardinality(near), got, met)
          /\ \E met \in 0..Vehicles!Cardinality(heard) :
               denm' = Vehicles!Counted(denm, Vehicles!Cardinality(warned),
                                        Vehicles!Cardinality(heard), met)
          /\ lossObs' = [lossObs EXCEPT ![turn] =
               Vehicles!Observed(turn,
                                 Vehicles!Cardinality(near) + Vehicles!Cardinality(warned),
                                 got + Vehicles!Cardinality(heard))]
    BY <1>3, Zenon DEF Vehicles!Transmits
  <2>2. \A S : Vehicles!Cardinality(S) = Cardinality(S)
    BY SameCardinality, Zenon
  <2> QED BY <2>1, <2>2, Zenon
<1> DEFINE n == Cardinality(near)
           w == Cardinality(warned)
           h == Cardinality(heard)
<1>6. n \in Nat /\ w \in Nat /\ h \in Nat /\ h <= w /\ got \in Nat /\ got <= n
  BY <1>1, <1>4, Sizes
<1>7. /\ bsm'.sent = bsm.sent + n /\ bsm'.delivered = bsm.delivered + got
      /\ denm'.sent = denm.sent + w /\ denm'.delivered = denm.delivered + h
  BY <1>5 DEF Vehicles!Counted
<1>8. lossObs' = [lossObs EXCEPT ![turn] =
                    [sent |-> lossObs[turn].sent + (n + w),
                     lost |-> lossObs[turn].lost + ((n + w) - (got + h))]]
  BY <1>5 DEF Vehicles!Observed
<1> HIDE DEF n, w, h
<1>9. /\ SentOf \in [1..radios -> Int] /\ LostOf \in [1..radios -> Int]
      /\ SentOf[turn] = lossObs[turn].sent /\ LostOf[turn] = lossObs[turn].lost
  BY <1>1 DEF SentOf, LostOf
<1>10. /\ SentOf' = [r \in 1..radios |-> lossObs'[r].sent]
       /\ LostOf' = [r \in 1..radios |-> lossObs'[r].lost]
  BY <1>1 DEF SentOf, LostOf
<1>11. /\ SentOf'[turn] = SentOf[turn] + (n + w)
       /\ LostOf'[turn] = LostOf[turn] + ((n + w) - (got + h))
       /\ \A r \in 1..radios \ {turn} : SentOf'[r] = SentOf[r] /\ LostOf'[r] = LostOf[r]
  <2>1. lossObs'[turn] = [sent |-> lossObs[turn].sent + (n + w),
                          lost |-> lossObs[turn].lost + ((n + w) - (got + h))]
    BY <1>1, <1>8
  <2>2. \A r \in 1..radios \ {turn} : lossObs'[r] = lossObs[r]
    BY <1>1, <1>8
  <2> QED BY <1>1, <1>9, <1>10, <2>1, <2>2 DEF SentOf, LostOf
<1>12. SentOf' \in [1..radios -> Int] /\ LostOf' \in [1..radios -> Int]
  <2>1. \A r \in 1..radios : SentOf'[r] \in Int /\ LostOf'[r] \in Int
    <3> TAKE r \in 1..radios
    <3>1. SentOf[r] \in Int /\ LostOf[r] \in Int /\ SentOf[turn] \in Int /\ LostOf[turn] \in Int
      BY <1>1, <1>9
    <3>2. CASE r = turn
      BY <1>6, <1>11, <3>1, <3>2
    <3>3. CASE r # turn
      BY <1>11, <3>1, <3>3
    <3> QED BY <3>2, <3>3
  <2> QED BY <1>10, <2>1
<1>13. IsFiniteSet(1..radios)
  BY <1>1, FS_Interval
<1>14. /\ SumFunction(SentOf') = SumFunction(SentOf) + SentOf'[turn] - SentOf[turn]
       /\ SumFunction(SentOf) \in Int
  <2>1. PICK f : f = SentOf
    OBVIOUS
  <2>2. PICK g : g = SentOf'
    OBVIOUS
  <2>3. PICK S : S = 1..radios
    OBVIOUS
  <2>4. /\ IsFiniteSet(S) /\ turn \in S /\ f \in [S -> Int] /\ g \in [S -> Int]
        /\ \A r \in S \ {turn} : g[r] = f[r]
    BY <1>1, <1>9, <1>11, <1>12, <1>13, <2>1, <2>2, <2>3
  <2>5. SumFunction(g) = SumFunction(f) + g[turn] - f[turn] /\ SumFunction(f) \in Int
    BY <2>4, SumChanges
  <2> QED BY <2>1, <2>2, <2>5
<1>15. /\ SumFunction(LostOf') = SumFunction(LostOf) + LostOf'[turn] - LostOf[turn]
       /\ SumFunction(LostOf) \in Int
  <2>1. PICK f : f = LostOf
    OBVIOUS
  <2>2. PICK g : g = LostOf'
    OBVIOUS
  <2>3. PICK S : S = 1..radios
    OBVIOUS
  <2>4. /\ IsFiniteSet(S) /\ turn \in S /\ f \in [S -> Int] /\ g \in [S -> Int]
        /\ \A r \in S \ {turn} : g[r] = f[r]
    BY <1>1, <1>9, <1>11, <1>12, <1>13, <2>1, <2>2, <2>3
  <2>5. SumFunction(g) = SumFunction(f) + g[turn] - f[turn] /\ SumFunction(f) \in Int
    BY <2>4, SumChanges
  <2> QED BY <2>1, <2>2, <2>5
<1>16. SentOf[turn] \in Int /\ LostOf[turn] \in Int
  BY <1>1, <1>9
<1>17. /\ SumFunction(SentOf') = SumFunction(SentOf) + (n + w)
       /\ SumFunction(LostOf') = SumFunction(LostOf) + ((n + w) - (got + h))
  BY <1>6, <1>11, <1>14, <1>15, <1>16
<1>18. /\ bsm.sent \in Nat /\ bsm.delivered \in Nat
       /\ denm.sent \in Nat /\ denm.delivered \in Nat
  BY <1>1 DEF Kept
<1>19. SumFunction(SentOf') = bsm'.sent + denm'.sent
  BY <1>6, <1>7, <1>17, <1>18 DEF LossesAddUp
<1>20. SumFunction(LostOf') = (bsm'.sent - bsm'.delivered) + (denm'.sent - denm'.delivered)
  BY <1>6, <1>7, <1>17, <1>18 DEF LossesAddUp
<1> QED BY <1>19, <1>20 DEF LossesAddUp

(* The sums are part of an invariant that rests on the first.               *)
Sums == CoreLearnsAll /\ LossesAddUp

LEMMA SumsBegin == Init => Sums
<1> SUFFICES ASSUME Init PROVE Sums
  OBVIOUS
<1>1. CoreLearnsAll
  <2> SUFFICES ASSUME NEW c \in Chunks PROVE Learn!Times(core, c) = ByAll(c)
    BY DEF CoreLearnsAll
  <2> DEFINE f == [s \in Schedulers |-> Learn!Times(theta[s], c)]
  <2>1. core = << >> /\ theta = [s \in Schedulers |-> << >>]
    BY DEF Init, Learn!Init
  <2>2. Learn!Times(<< >>, c) = 0
    <3>1. {i \in DOMAIN << >> : << >>[i] = c} = {}
      BY EmptySeq
    <3> QED BY <3>1, FS_EmptySet, SameSize DEF Learn!Times
  <2>3. \A s \in Schedulers : f[s] = 0
    BY <2>1, <2>2
  <2>4. DOMAIN f = Schedulers
    OBVIOUS
  <2> HIDE DEF f
  <2>5. SumFunction(f) = 0
    BY <2>3, <2>4, SchedulersAssumption, SumOfNothing
  <2> QED BY <2>1, <2>2, <2>5 DEF f, ByAll
<1>2. LossesAddUp
  <2>1. /\ bsm = Vehicles!Nothing /\ denm = Vehicles!Nothing /\ radios \in 0..MaxRadios
        /\ lossObs = [r \in 1..radios |-> [sent |-> 0, lost |-> 0]]
    BY DEF Init, Vehicles!Init
  <2>2. /\ DOMAIN SentOf = 1..radios /\ DOMAIN LostOf = 1..radios
        /\ \A r \in 1..radios : SentOf[r] = 0 /\ LostOf[r] = 0
    BY <2>1 DEF SentOf, LostOf
  <2>3. IsFiniteSet(1..radios)
    BY <2>1, BoundsAssumption, FS_Interval
  <2>4. SumFunction(SentOf) = 0 /\ SumFunction(LostOf) = 0
    BY <2>2, <2>3, SumOfNothing
  <2> QED BY <2>1, <2>4 DEF LossesAddUp, Vehicles!Nothing
<1> QED BY <1>1, <1>2 DEF Sums

LEMMA SumsRest ==
  /\ CoreLearnsAll /\ UNCHANGED learnVars => CoreLearnsAll'
  /\ LossesAddUp /\ UNCHANGED vehicleVars => LossesAddUp'
<1>1. ASSUME CoreLearnsAll, UNCHANGED learnVars PROVE CoreLearnsAll'
  <2>1. UNCHANGED <<native, strayed, core, theta>>
    BY <1>1 DEF learnVars
  <2> QED BY <1>1, <2>1 DEF CoreLearnsAll, ByAll, Learn!Times
<1>2. ASSUME LossesAddUp, UNCHANGED vehicleVars PROVE LossesAddUp'
  <2>1. UNCHANGED <<radios, bsm, denm, lossObs>>
    BY <1>2 DEF vehicleVars
  <2> QED BY <1>2, <2>1 DEF LossesAddUp, SentOf, LostOf
<1> QED BY <1>1, <1>2

LEMMA SumsStay == IInv /\ Sums /\ [Next]_vars => Sums'
<1> SUFFICES ASSUME IInv, Sums, [Next]_vars PROVE Sums'
  OBVIOUS
<1>1. CASE UNCHANGED <<learnVars, vehicleVars>>
  BY <1>1, SumsRest DEF Sums
<1>2. CASE LearnStep
  BY <1>2, CoreStays, SumsRest DEF LearnStep, IInv, Sums
<1>3. CASE VehicleStep
  <2>1. CASE Vehicles!NextStep
    <3>1. UNCHANGED <<radios, bsm, denm, lossObs>>
      BY <2>1 DEF Vehicles!NextStep
    <3>2. LossesAddUp'
      BY <3>1 DEF Sums, LossesAddUp, SentOf, LostOf
    <3> QED BY <1>3, <3>2, SumsRest DEF VehicleStep, Sums
  <2>2. CASE Vehicles!Broadcast
    BY <1>3, <2>2, LossesStay, SumsRest DEF VehicleStep, IInv, Sums
  <2> QED BY <1>3, <2>1, <2>2 DEF VehicleStep, Vehicles!Next
<1> QED BY <1>1, <1>2, <1>3
     DEF Next, vars, RotationStep, HandshakeStep, SendStep, HybridStep

(* The two sums that no other part of the state bears on stay true: what    *)
(* the core learnt, and what the protocol holds against the senders.        *)
THEOREM SumsAreKept == Spec => []Sums
BY SumsBegin, SumsStay, Invariance, PTL DEF Spec

(* However two connections of a device save, load and reset what they have  *)
(* learnt, the decisions of a scheduler are the updates of its theta; while *)
(* it was taught through decide() alone the core of the thread has learnt   *)
(* what all the schedulers did (qft_scheduler.py:243); the estimator of an  *)
(* adaptive session counts every way into GHOST and out of it; and what the *)
(* protocol holds against the senders of a run is what the metrics of the   *)
(* run say was lost (protocols.py:222).                                     *)
THEOREM EverythingLearntIsCounted == Spec => []LearningIsCounted
<1>1. IInv /\ Sums => LearningIsCounted
  <2> SUFFICES ASSUME IInv, Sums PROVE LearningIsCounted
    OBVIOUS
  <2>1. Send!GhostIsCounted
    BY DEF IInv, SendInv
  <2>2. Learn!CountsFitTheta
    BY SameSum DEF IInv, LearnInv, Sums, CoreLearnsAll, ByAll, Learn!CountsFitTheta, Learn!Held
  <2>3. Vehicles!LossesAreObserved
    BY VehiclesImply, SameSum, SameCardinality
    DEF IInv, Sums, LossesAddUp, SentOf, LostOf, MetricsAreSound, CascadeGoesOn,
        Vehicles!LossesAreObserved
  <2> QED BY <2>1, <2>2, <2>3 DEF LearningIsCounted
<1> QED BY <1>1, Invariance, SumsAreKept, PTL
=============================================================================
