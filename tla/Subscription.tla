---------------------------- MODULE Subscription ----------------------------
(***************************************************************************)
(* What a service promises its connections, without the two subscriber      *)
(* maps, the snapshot and the worker: a connection joins and leaves, and    *)
(* while it is a member, and only then, messages reach it.  A connection    *)
(* that has left has heard nothing it could still act upon.                 *)
(***************************************************************************)
CONSTANTS Conns,   \* connection ids
          States,  \* contents a message can carry
          Nothing  \* a connection that has heard nothing since it joined

VARIABLES member,  \* the connections that receive the service
          heard,   \* heard[c]: the last content c received as a member
          up       \* the service has not been stopped

vars == <<member, heard, up>>

Init ==
    /\ member = {}
    /\ heard = [c \in Conns |-> Nothing]
    /\ up = TRUE

Join(c) ==
    /\ up
    /\ member' = member \cup {c}
    /\ UNCHANGED <<heard, up>>

Leave(c) ==
    /\ up
    /\ member' = member \ {c}
    /\ heard' = [heard EXCEPT ![c] = Nothing]
    /\ UNCHANGED up

(* One content to some of the members, all of them at once. *)
Deliver(S, v) ==
    /\ S \subseteq member
    /\ heard' = [c \in Conns |-> IF c \in S THEN v ELSE heard[c]]
    /\ UNCHANGED <<member, up>>

Stop ==
    /\ up
    /\ up' = FALSE
    /\ UNCHANGED <<member, heard>>

Next ==
    \/ \E c \in Conns : Join(c) \/ Leave(c)
    \/ \E S \in SUBSET Conns, v \in States \cup {Nothing} : Deliver(S, v)
    \/ Stop

Spec == Init /\ [][Next]_vars
=============================================================================
