---------------------------- MODULE MCVideoFlow ----------------------------
(* VideoFlow for TLC: connections are interchangeable, displays as well.    *)
EXTENDS VideoFlow

Symmetry == Permutations(Conns) \cup Permutations(Displays)
=============================================================================
