-------------------------- MODULE HybridHandshake --------------------------
(***************************************************************************)
(* The hybrid handshake (security/pqc_handshake.py): initiators that wrap  *)
(* a secret for the key pair a responder published, which the responder    *)
(* renews.  A pair is the number of its generation, a secret is the term   *)
(* that the code hashes.  Each end works with X25519 if its cryptography   *)
(* package is there and with a hash if not; the mode that is asked for and *)
(* the signature, which nobody verifies, change nothing.                   *)
(***************************************************************************)
EXTENDS Naturals

CONSTANTS
  Initiators,
  NoMessage, NoSecret,
  MaxPairs             \* bound: key pairs the responder generates

VARIABLES
  equipped,            \* the initiators with the package
  responder,           \* has the responder got it?
  pair,                \* its current key pair
  message,             \* of each initiator; history: the pairs it is for and answered with
  ours, theirs         \* secrets of the initiators, and of the responder for them

vars == <<equipped, responder, pair, message, ours, theirs>>

Init ==
  /\ equipped \in SUBSET Initiators /\ responder \in BOOLEAN
  /\ pair = 1
  /\ message = [i \in Initiators |-> NoMessage]
  /\ ours = [i \in Initiators |-> NoSecret]
  /\ theirs = [i \in Initiators |-> NoSecret]

-----------------------------------------------------------------------------
(* generate_hybrid_keypair(): without the package the public key is a hash. *)
PublicKey(n) == [of |-> n, genuine |-> responder]

(* X25519: both ends of two genuine keys find the same; bytes that are no   *)
(* public key of anybody give something nobody else finds.                  *)
Exchange(own, peer) ==
  IF peer.genuine THEN [between |-> {own, peer.of}] ELSE [by |-> own, with |-> peer.of]
Hashed(key) == [hashed |-> key]

(* ML-KEM: the text carries the random number, the secret key the public.   *)
Encapsulated(n, random) == <<"kem", n, random>>

(* hybrid_encapsulate() of initiator i for the key pair n.                  *)
ClassicalText(i) == [of |-> i, genuine |-> i \in equipped]
Encapsulate(i, n) ==
  <<IF i \in equipped THEN Exchange(i, PublicKey(n)) ELSE Hashed(PublicKey(n)),
    Encapsulated(n, i)>>

(* hybrid_decapsulate() of the responder with the key pair n.               *)
Decapsulate(n, m) ==
  <<IF responder THEN Exchange(n, m.classical) ELSE Hashed(PublicKey(n)),
    Encapsulated(n, m.random)>>

Initiate(i) ==
  /\ message[i] = NoMessage
  /\ message' = [message EXCEPT ![i] =
       [classical |-> ClassicalText(i), random |-> i, for |-> pair, answered |-> 0]]
  /\ ours' = [ours EXCEPT ![i] = Encapsulate(i, pair)]
  /\ UNCHANGED <<equipped, responder, pair, theirs>>

Respond(i) ==
  /\ message[i] # NoMessage
  /\ theirs[i] = NoSecret
  /\ theirs' = [theirs EXCEPT ![i] = Decapsulate(pair, message[i])]
  /\ message' = [message EXCEPT ![i].answered = pair]
  /\ UNCHANGED <<equipped, responder, pair, ours>>

Renew ==
  /\ pair < MaxPairs
  /\ pair' = pair + 1
  /\ UNCHANGED <<equipped, responder, message, ours, theirs>>

Next == Renew \/ \E i \in Initiators : Initiate(i) \/ Respond(i)

-----------------------------------------------------------------------------
Pairs == 1..MaxPairs
Messages ==
  [classical : [of : Initiators, genuine : BOOLEAN], random : Initiators,
   for : Pairs, answered : {0} \cup Pairs]
Secrets ==
  ([between : SUBSET (Initiators \cup Pairs)]
     \cup [by : Initiators \cup Pairs, with : Initiators \cup Pairs]
     \cup [hashed : [of : Pairs, genuine : BOOLEAN]])
  \X ({"kem"} \X Pairs \X Initiators)

TypeOK ==
  /\ equipped \subseteq Initiators /\ responder \in BOOLEAN
  /\ pair \in Pairs
  /\ message \in [Initiators -> Messages \cup {NoMessage}]
  /\ ours \in [Initiators -> Secrets \cup {NoSecret}]
  /\ theirs \in [Initiators -> Secrets \cup {NoSecret}]
  /\ \A i \in Initiators :
       /\ ours[i] = NoSecret <=> message[i] = NoMessage
       /\ message[i] # NoMessage => /\ message[i].for \in 1..pair
                                    /\ message[i].answered \in {0} \cup message[i].for..pair
                                    /\ message[i].answered = 0 <=> theirs[i] = NoSecret

(* An initiator and the responder agree exactly when they work alike and    *)
(* the pair was not renewed in between: the fall-back of one end does not   *)
(* meet X25519 at the other.  No two initiators ever have the same secret.  *)
EndsAgree ==
  /\ \A i \in Initiators :
       theirs[i] # NoSecret =>
         (ours[i] = theirs[i] <=>
            (i \in equipped <=> responder) /\ message[i].for = message[i].answered)
  /\ \A i, j \in {x \in Initiators : ours[x] # NoSecret} :
       i # j => ours[i] # ours[j] /\ ours[i] # theirs[j]
=============================================================================
