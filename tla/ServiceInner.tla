---------------------------- MODULE ServiceInner ----------------------------
(***************************************************************************)
(* ServiceInner of src/rustdesk/src/server/service.rs: the subscribers of  *)
(* one service and the flag that keeps its worker alive.  One record stands *)
(* for the struct behind the RwLock, and each operator for one critical     *)
(* section of that lock:                                                    *)
(*                                                                         *)
(*   subscribes      connections that get every message of the service      *)
(*   new_subscribes  connections that wait for the snapshot                 *)
(*   active          cleared by join, read by the worker                    *)
(***************************************************************************)

Inner(C) == [subscribes : SUBSET C, new_subscribes : SUBSET C, active : BOOLEAN]

(* ServiceTmpl::new *)
NewService == [subscribes |-> {}, new_subscribes |-> {}, active |-> TRUE]

Members(s) == s.subscribes \cup s.new_subscribes

HasSubscribes(s) == s.subscribes # {} \/ s.new_subscribes # {}

Ok(s) == s.active /\ HasSubscribes(s)

(* Mutant of OnSubscribe: the early return is missing. *)
OnSubscribeUnchecked(s, c, needSnapshot) ==
    IF needSnapshot THEN [s EXCEPT !.new_subscribes = @ \cup {c}]
    ELSE [s EXCEPT !.subscribes = @ \cup {c}]

OnSubscribe(s, c, needSnapshot) ==
    IF c \in s.subscribes THEN s
    ELSE IF needSnapshot THEN [s EXCEPT !.new_subscribes = @ \cup {c}]
    ELSE [s EXCEPT !.subscribes = @ \cup {c}]

(* Mutants of OnUnsubscribe: only one of the maps is looked at. *)
OnUnsubscribeOld(s, c) == [s EXCEPT !.subscribes = @ \ {c}]
OnUnsubscribeNew(s, c) == [s EXCEPT !.new_subscribes = @ \ {c}]

(* new_subscribes is looked at only when subscribes did not hold c. *)
OnUnsubscribe(s, c) ==
    IF c \in s.subscribes THEN [s EXCEPT !.subscribes = @ \ {c}]
    ELSE [s EXCEPT !.new_subscribes = @ \ {c}]

(* Mutant of SwapNewSubscribes: drained, not inserted. *)
DrainNewSubscribes(s) == [s EXCEPT !.new_subscribes = {}]

SwapNewSubscribes(s) ==
    [s EXCEPT !.subscribes = @ \cup s.new_subscribes, !.new_subscribes = {}]

Deactivate(s) == [s EXCEPT !.active = FALSE]
=============================================================================
