------------------------------ MODULE MCBroker ------------------------------
(* Topics and filters of Broker, and the symmetry of its ids. *)
EXTENDS Broker, TLC

MCFilters == {<<"a", "+">>}
MCTopics == {<<"a", "b">>}
Symmetry == Permutations(Conns) \cup Permutations(Clients)
=============================================================================
