---------------------------- MODULE Credentials ----------------------------
(***************************************************************************)
(* What two ends show each other: the hellos of a handshake and the keys   *)
(* that come of them (security/handshake.py), the ticket of a session      *)
(* (security/session_ticket.py) and the signature of a ghost frame         *)
(* (qdap_core/src/ghost_session.rs, _rust_bridge.py).  Curves, signatures  *)
(* and hashes are given; as in Layouts a field is one number of the wire.  *)
(***************************************************************************)
EXTENDS Layouts

HandshakeVersion == 1
CLIENT_HELLO == 1
SERVER_HELLO == 2
HelloSize == 5  \* magic, version, type, public key, signature

PublicKey(private) == 10 + private
SharedSecret(private, public) == private * (public - 10)
Signature(identity, public, nonce) == Sha3(<<identity, public>> \o nonce)

BuildHello(type, private, identity, nonce) ==
  <<Magic, HandshakeVersion, type, PublicKey(private),
    Signature(identity, PublicKey(private), nonce)>>

ParseHello(data) ==
  IF \/ Len(data) < HelloSize
     \/ data[1] # Magic \/ data[2] # HandshakeVersion
     \/ data[3] \notin {CLIENT_HELLO, SERVER_HELLO}
  THEN Raised
  ELSE [ok |-> TRUE, type |-> data[3], public |-> data[4], signature |-> data[5]]

DeriveSessionKeys(secret, salt) ==
  [data |-> Sha3(<<secret, 1>> \o salt), hmac |-> Sha3(<<secret, 2>> \o salt),
   id |-> Sha3(<<secret, 3>> \o salt)]
JointSalt(mine, theirs) == [i \in DOMAIN mine |-> (mine[i] + theirs[i]) % 2]

(* An end has read the salt and the hello of its peer.                      *)
Handshake(expected, own, peer, salt, data) ==
  LET hello == ParseHello(data)
  IN  IF ~hello.ok THEN Raised
      ELSE IF hello.type # expected \/ hello.signature # Signature(peer, hello.public, salt)
      THEN Raised
      ELSE [ok |-> TRUE,
            keys |-> DeriveSessionKeys(SharedSecret(own.private, hello.public),
                                       JointSalt(own.salt, salt))]
ClientHandshake(own, server, salt, data) == Handshake(SERVER_HELLO, own, server, salt, data)
ServerHandshake(own, client, salt, data) == Handshake(CLIENT_HELLO, own, client, salt, data)

-----------------------------------------------------------------------------
(* A ticket: its id, when it expires, the key enciphered by the master key  *)
(* of the store, and a code over all of that.                               *)
TicketSize == 7
CreateTicket(master, id, nonce, expiry, key) ==
  LET cipher == Cipher(master, nonce, <<key>>)
      payload == <<id, expiry>> \o nonce \o cipher \o <<Tag(master, nonce, <<id>>, cipher)>>
  IN  Append(payload, Sha3(<<master>> \o payload))

ReadTicket(master, wire, now) ==
  IF \/ Len(wire) < TicketSize
     \/ Last(wire) # Sha3(<<master>> \o Front(wire))
     \/ now > wire[2]
  THEN Raised
  ELSE LET nonce == SubSeq(wire, 3, 4)
           cipher == SubSeq(wire, 5, Len(wire) - 2)
       IN  IF wire[Len(wire) - 1] # Tag(master, nonce, <<wire[1]>>, cipher) THEN Raised
           ELSE [ok |-> TRUE, id |-> wire[1], key |-> Clear(master, nonce, cipher)[1]]

-----------------------------------------------------------------------------
(* A ghost signature speaks for the number of a frame and the beginning of  *)
(* its payload, 32 bytes in the code.                                       *)
SignedBytes == 1
GhostSign(key, seq, payload) == <<Sha3(<<key, seq>> \o Slice(payload, 0, SignedBytes))>>
GhostVerify(key, seq, payload, signature) ==
  Len(signature) = 1 /\ signature = GhostSign(key, seq, payload)
=============================================================================
