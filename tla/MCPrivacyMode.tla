--------------------------- MODULE MCPrivacyMode ---------------------------
(* PrivacyMode for TLC: connections are interchangeable.                    *)
EXTENDS PrivacyMode, TLC

Symmetry == Permutations(Conns)
=============================================================================
