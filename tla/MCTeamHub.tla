----------------------------- MODULE MCTeamHub -----------------------------
(* TeamHub for TLC: who logs in where, and how many sockets a tab may have. *)
EXTENDS TeamHub

CONSTANTS u1, u2

(* On every tab one user logs in, perhaps once more, and another after that. *)
TwiceThenOther == [t \in Tabs |-> <<u1, u1, u2>>]

(* A second socket at the same time in one tab only.                        *)
SecondInOne == LET first == CHOOSE t \in Tabs : TRUE
               IN [t \in Tabs |-> IF t = first THEN {1, 2} ELSE {1}]
=============================================================================
