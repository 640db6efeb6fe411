---------------------------- MODULE MCRendezvous ----------------------------
(* Rendezvous with two servers; the first id is taken at both. *)
EXTENDS Rendezvous

CONSTANTS h1, h2

MCHosts == {h1, h2}
MCTaken == [h \in MCHosts |-> {1}]
=============================================================================
