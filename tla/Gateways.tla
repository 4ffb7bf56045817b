------------------------------ MODULE Gateways ------------------------------
(***************************************************************************)
(* What carries other protocols over QDAP: the envelopes of HTTP requests  *)
(* and answers (proxy/http_bridge.py, proxy_server.py), and the priority   *)
(* and the deadline of a request (priority_mapper.py), of a message of a   *)
(* web socket (websocket/priority_rules.py) and of a topic                 *)
(* (broker/qdap_transport.py).  Headers are a function of their names; a   *)
(* content type is its two halves, a topic the sequence of its levels.     *)
(***************************************************************************)
EXTENDS Integers, Sequences, SequencesExt, QFrame

(* Values of headers; UTF-8 cannot hold the last.                           *)
Number(n) == <<"number", n>>
Word(w) == <<"word", w>>
Unreadable == <<"unreadable", "">>
IsNumber(value) == value[1] = "number"

Get(headers, name, default) ==
  IF name \in DOMAIN headers THEN headers[name] ELSE default

(* PRIORITY_MAP and DEADLINE_MAP, in the order they are looked through.     *)
AnyKind == "any"
ContentTypes == <<
  [prefix |-> <<"audio", AnyKind>>, priority |-> 1000, deadline |-> 50],
  [prefix |-> <<"video", AnyKind>>, priority |-> 900, deadline |-> 100],
  [prefix |-> <<"application", "x-emergency">>, priority |-> 950, deadline |-> 10],
  [prefix |-> <<"image", AnyKind>>, priority |-> 500, deadline |-> 500],
  [prefix |-> <<"application", "json">>, priority |-> 300, deadline |-> 500],
  [prefix |-> <<"application", "xml">>, priority |-> 300, deadline |-> 500],
  [prefix |-> <<"text", AnyKind>>, priority |-> 100, deadline |-> 2000],
  [prefix |-> <<"application", AnyKind>>, priority |-> 200, deadline |-> 500]>>
Urgency(entry) == [priority |-> entry.priority, deadline |-> entry.deadline]
DefaultUrgency == [priority |-> 200, deadline |-> 500]

ByContent(type) ==
  LET fits == SelectSeq(ContentTypes, LAMBDA e :
                e.prefix[1] = type[1] /\ e.prefix[2] \in {AnyKind, type[2]})
  IN  IF fits = << >> THEN DefaultUrgency ELSE Urgency(fits[1])

(* X-QDAP-Priority and X-QDAP-Deadline-Ms count if both are numbers.        *)
ContentTypeToPriority(type, headers) ==
  LET priority == Get(headers, "X-QDAP-Priority", Word("none"))
      deadline == Get(headers, "X-QDAP-Deadline-Ms", Number(500))
  IN  IF IsNumber(priority) /\ IsNumber(deadline)
      THEN [priority |-> priority[2], deadline |-> deadline[2]] ELSE ByContent(type)

ForQdap(name) == name \in {"X-QDAP-Priority", "X-QDAP-Deadline-Ms"}
Forwarded(headers) == [name \in {n \in DOMAIN headers : ~ForQdap(n)} |-> headers[name]]

(* An envelope is the fields of a JSON object; a payload may be none.       *)
HttpToQdapPayload(r) ==
  LET headers == Forwarded(r.headers)
      urgency == ContentTypeToPriority(Get(r.headers, "Content-Type", <<"", "">>), r.headers)
  IN  IF \E name \in DOMAIN headers : headers[name] = Unreadable THEN Raised
      ELSE [ok |-> TRUE, urgency |-> urgency,
            payload |-> [object |-> TRUE, fields |->
              [method |-> r.method, path |-> r.path, headers |-> headers, body |-> r.body]]]

QdapPayloadToHttp(payload) ==
  IF ~payload.object THEN Raised
  ELSE IF ~({"method", "path", "headers", "body"} \subseteq DOMAIN payload.fields) THEN Raised
  ELSE [ok |-> TRUE, request |-> payload.fields]

BuildResponsePayload(status, headers, body) ==
  [object |-> TRUE, fields |-> [status |-> status, headers |-> headers, body |-> body]]

(* Whatever is no answer is the body of one.                                *)
ParseResponsePayload(payload) ==
  IF ~payload.object THEN [status |-> 200, headers |-> << >>, body |-> payload]
  ELSE [status |-> Get(payload.fields, "status", 200),
        headers |-> Get(payload.fields, "headers", << >>),
        body |-> Get(payload.fields, "body", << >>)]

(* handle_client_request, once it has an answer, or none.                   *)
NoAnswer == [object |-> FALSE, none |-> TRUE]
HandleClientRequest(r, answer) ==
  IF ~HttpToQdapPayload(r).ok THEN [status |-> 502]
  ELSE IF answer = NoAnswer THEN [status |-> 504]
  ELSE ParseResponsePayload(answer)

(* The gateways give the two ends of a connection to the constructor of a   *)
(* session, which takes an id and a secret and raises: it derives no key    *)
(* from a writer.  What they would do with a session is not reached.        *)
NewSession(reader, writer) == Raised

(* _send_qdap: connects, is refused or gives up after 10 s.  Only who gets  *)
(* an answer closes the connection.                                         *)
SendQdap(connection) ==
  LET session == NewSession(connection, connection)
  IN  [answer |-> IF connection = "open" /\ session.ok THEN session.answer ELSE NoAnswer,
       left |-> connection = "open" /\ ~session.ok]

(* handle_qdap_connection, at the other end, asks the backend for what came *)
(* over a session, and closes the connection in any case.                   *)
HandleQdapConnection(connection) ==
  LET session == NewSession(connection, connection)
  IN  [asked |-> IF session.ok THEN QdapPayloadToHttp(session.payload) ELSE Raised,
       left |-> FALSE]

(* handle_websocket forwards messages over a session, or says that there is *)
(* none and leaves the connection as it is.                                 *)
HandleWebsocket(connection, messages) ==
  LET session == NewSession(connection, connection)
  IN  IF connection = "open" /\ session.ok
      THEN [closed |-> 0, forwarded |-> messages, left |-> FALSE]
      ELSE [closed |-> 1011, forwarded |-> << >>, left |-> connection = "open"]

-----------------------------------------------------------------------------
(* TYPE_PRIORITY: the type of a message may go on behind these.  A message  *)
(* that is no JSON object has the default.                                  *)
MessageTypes ==
  [emergency |-> <<1000, 10>>, alarm |-> <<1000, 10>>, alert |-> <<900, 20>>,
   audio |-> <<850, 50>>, video |-> <<800, 100>>, sensor |-> <<500, 500>>,
   telemetry |-> <<500, 500>>, command |-> <<700, 100>>, data |-> <<300, 2000>>,
   log |-> <<100, 5000>>, ping |-> <<50, 10000>>]
MessageToPriority(type) ==
  IF type \in DOMAIN MessageTypes
  THEN [priority |-> MessageTypes[type][1], deadline |-> MessageTypes[type][2]]
  ELSE DefaultUrgency

(* EMERGENCY_PATTERNS: the first of them in any case, the others not.       *)
AnyCase == {"emergency", "EMERGENCY"}
IsEmergency(topic) ==
  \/ \E n \in DOMAIN topic : topic[n] \in AnyCase \cup {"alert", "alarm", "critical"}
  \/ Len(topic) > 1 /\ topic[1] \in {"ems", "hospital"}
TopicToPriority(topic, size) ==
  IF IsEmergency(topic) THEN 1000
  ELSE IF size < 64 THEN 800
  ELSE IF size < 1024 THEN 500
  ELSE 100

WrapInQFrame(topic, payload) == <<TopicToPriority(topic, Len(payload))>> \o payload
UnwrapQFrame(data) == [priority |-> data[1], payload |-> Tail(data)]
=============================================================================
