---------------------------- MODULE ServiceProofs ----------------------------
(***************************************************************************)
(* Service for every set of connections and contents: its safety invariants *)
(* and that it implements Subscription.  All rest on one inductive          *)
(* invariant, IInv: what the snapshot in progress has sent, and what an     *)
(* is_subed in progress has read, as facts about the two maps.              *)
(***************************************************************************)
EXTENDS Service, TLAPS

(* The snapshot in progress was sent to whoever waited for it then; a       *)
(* service without snapshots never fills new_subscribes.                    *)
SnapshotInv ==
    /\ ~NeedSnapshot => svc.new_subscribes = {} /\ slipped = {}
    /\ NeedSnapshot => \A c \in svc.subscribes \ late : heard[c] = state
    /\ worker = "swap" => \A c \in svc.new_subscribes \ late : heard[c] = state

(* What is_subed has read so far is still true, but for the swap; and only  *)
(* the drop of Server, after which no operation starts, clears active.      *)
ServerInv ==
    /\ srv.op \notin {"join", "joined"} => svc.active
    /\ srv.op = "second_read" => srv.conn \notin svc.subscribes \ slipped
    /\ srv.op = "decide" /\ ~srv.hit => srv.conn \notin Members(svc) \ slipped

IInv == TypeOK /\ Disjoint /\ SnapshotInv /\ ServerInv /\ RevokeHolds

-----------------------------------------------------------------------------
(* The operators of ServiceInner as set operations on the members. *)

(* Subscribing adds the connection, to one map only. *)
LEMMA SubscribeAdds ==
    ASSUME NEW C, NEW s \in Inner(C), NEW c \in C, NEW n \in BOOLEAN,
           s.subscribes \cap s.new_subscribes = {},
           ~n => s.new_subscribes = {}
    PROVE  /\ OnSubscribe(s, c, n) \in Inner(C)
           /\ OnSubscribe(s, c, n).subscribes \cap OnSubscribe(s, c, n).new_subscribes = {}
           /\ Members(OnSubscribe(s, c, n)) = Members(s) \cup {c}
           /\ OnSubscribe(s, c, n).active = s.active
           /\ n => OnSubscribe(s, c, n).subscribes = s.subscribes
           /\ n => OnSubscribe(s, c, n).new_subscribes \subseteq s.new_subscribes \cup {c}
           /\ ~n => OnSubscribe(s, c, n).new_subscribes = s.new_subscribes
  BY DEF OnSubscribe, Members, Inner

(* Unsubscribing removes the connection from both maps: one look is enough, *)
(* because the maps are disjoint.                                           *)
LEMMA UnsubscribeRemoves ==
    ASSUME NEW C, NEW s \in Inner(C), NEW c \in C,
           s.subscribes \cap s.new_subscribes = {}
    PROVE  /\ OnUnsubscribe(s, c) \in Inner(C)
           /\ Members(OnUnsubscribe(s, c)) = Members(s) \ {c}
           /\ OnUnsubscribe(s, c).subscribes = s.subscribes \ {c}
           /\ OnUnsubscribe(s, c).new_subscribes = s.new_subscribes \ {c}
           /\ OnUnsubscribe(s, c).active = s.active
  BY DEF OnUnsubscribe, Members, Inner

(* The swap moves members, it neither adds nor loses one. *)
LEMMA SwapKeepsMembers ==
    ASSUME NEW C, NEW s \in Inner(C)
    PROVE  /\ SwapNewSubscribes(s) \in Inner(C)
           /\ Members(SwapNewSubscribes(s)) = Members(s)
           /\ SwapNewSubscribes(s).subscribes = Members(s)
           /\ SwapNewSubscribes(s).new_subscribes = {}
           /\ SwapNewSubscribes(s).active = s.active
  BY DEF SwapNewSubscribes, Members, Inner

-----------------------------------------------------------------------------
(* IInv holds initially. *)
LEMMA InitIInv == Init => IInv
<1> SUFFICES ASSUME Init PROVE IInv
    OBVIOUS
<1> USE DEF Init, NewService, Free
<1>1. svc.subscribes = {} /\ svc.new_subscribes = {} /\ svc \in Inner(Conns)
  BY DEF Inner
<1>2. TypeOK
  BY <1>1 DEF TypeOK, Pcs, Contents
<1>3. Disjoint /\ SnapshotInv
  BY <1>1 DEF Disjoint, SnapshotInv
<1>4. ServerInv /\ RevokeHolds
  BY <1>1 DEF ServerInv, RevokeHolds
<1> QED BY <1>2, <1>3, <1>4 DEF IInv

(* Every action preserves IInv. *)
LEMMA NextIInv == IInv /\ [Next]_vars => IInv'
<1> SUFFICES ASSUME IInv, [Next]_vars PROVE IInv'
    OBVIOUS
<1> USE NeedSnapshotAssumption
<1> USE DEF IInv, TypeOK, Disjoint, SnapshotInv, ServerInv, RevokeHolds, Contents
<1>1. ASSUME NEW c \in Conns, NEW b \in BOOLEAN, AddConnection(c, b) PROVE IInv'
  <2>1. CASE b
    <3> DEFINE t == OnSubscribe(svc, c, NeedSnapshot)
    <3>1. /\ t \in Inner(Conns)
          /\ t.subscribes \cap t.new_subscribes = {}
          /\ Members(t) = Members(svc) \cup {c}
          /\ NeedSnapshot => t.subscribes = svc.subscribes
          /\ NeedSnapshot => t.new_subscribes \subseteq svc.new_subscribes \cup {c}
          /\ ~NeedSnapshot => t.new_subscribes = svc.new_subscribes
          /\ t.active = svc.active
      BY SubscribeAdds
    <3>2. svc' = t /\ Arrive(c) /\ revoked' = revoked \ {c}
      BY <1>1, <2>1 DEF AddConnection
    <3>3. TypeOK'
      BY <1>1, <3>1, <3>2 DEF AddConnection, Arrive
    <3>4. SnapshotInv'
      BY <1>1, <3>1, <3>2 DEF AddConnection, Arrive, Members
    <3> QED
      BY <1>1, <3>1, <3>2, <3>3, <3>4 DEF AddConnection, Arrive, Free
  <2>2. CASE ~b
    BY <1>1, <2>2 DEF AddConnection, Free
  <2> QED BY <2>1, <2>2
<1>2. ASSUME NEW c \in Conns, RemoveConnection(c) PROVE IInv'
  <2> DEFINE t == OnUnsubscribe(svc, c)
  <2>1. /\ t \in Inner(Conns)
        /\ Members(t) = Members(svc) \ {c}
        /\ t.subscribes = svc.subscribes \ {c}
        /\ t.new_subscribes = svc.new_subscribes \ {c}
        /\ t.active = svc.active
    BY UnsubscribeRemoves
  <2>2. TypeOK'
    BY <1>2, <2>1 DEF RemoveConnection, Forget
  <2>3. SnapshotInv'
    BY <1>2, <2>1 DEF RemoveConnection, Forget
  <2> QED BY <1>2, <2>1, <2>2, <2>3 DEF RemoveConnection, Forget, Free
<1>3. ASSUME NEW c \in Conns, NEW b \in BOOLEAN, SubscribeBegin(c, b) PROVE IInv'
  <2>1. TypeOK'
    BY <1>3 DEF SubscribeBegin, Subscribing, SubscribeOps, ghosts
  <2> QED BY <1>3, <2>1 DEF SubscribeBegin, Subscribing, ghosts, Free
<1>4. CASE SubscribeSecondRead
  <2>1. srv \in SubscribeOps
    BY <1>4 DEF SubscribeSecondRead, Free
  <2>2. TypeOK'
    BY <1>4, <2>1 DEF SubscribeSecondRead, Subscribing, SubscribeOps, ghosts
  <2> QED BY <1>4, <2>1, <2>2 DEF SubscribeSecondRead, Subscribing, SubscribeOps, ghosts, Members
<1>5. CASE SubscribeDecide
  <2>1. srv \in SubscribeOps
    BY <1>5 DEF SubscribeDecide, Free
  <2> DEFINE c == srv.conn
  <2>2. c \in Conns /\ srv.sub \in BOOLEAN /\ srv.hit \in BOOLEAN
    BY <2>1 DEF SubscribeOps
  <2>3. CASE srv.hit = srv.sub
    <3>1. UNCHANGED <<svc, heard, late>>
      BY <1>5, <2>2, <2>3 DEF SubscribeDecide
    <3>2. TypeOK'
      BY <1>5, <2>2, <3>1 DEF SubscribeDecide, Free
    <3>3. SnapshotInv'
      BY <1>5, <2>2, <3>1 DEF SubscribeDecide
    <3>4. RevokeHolds'
      BY <1>5, <2>2, <2>3, <3>1 DEF SubscribeDecide
    <3> QED BY <1>5, <3>1, <3>2, <3>3, <3>4 DEF SubscribeDecide, Free
  <2>4. CASE srv.hit # srv.sub /\ srv.sub
    <3> DEFINE t == OnSubscribe(svc, c, NeedSnapshot)
    <3>1. /\ t \in Inner(Conns)
          /\ t.subscribes \cap t.new_subscribes = {}
          /\ Members(t) = Members(svc) \cup {c}
          /\ NeedSnapshot => t.subscribes = svc.subscribes
          /\ NeedSnapshot => t.new_subscribes \subseteq svc.new_subscribes \cup {c}
          /\ ~NeedSnapshot => t.new_subscribes = svc.new_subscribes
          /\ t.active = svc.active
      BY <2>2, SubscribeAdds
    <3>2. svc' = t /\ Arrive(c) /\ revoked' = revoked \ {c} /\ slipped' = slipped \ {c}
      BY <1>5, <2>4 DEF SubscribeDecide
    <3>3. TypeOK'
      BY <1>5, <2>2, <3>1, <3>2 DEF SubscribeDecide, Arrive, Free
    <3>4. SnapshotInv'
      BY <1>5, <3>1, <3>2 DEF SubscribeDecide, Arrive, Members
    <3> QED BY <1>5, <3>1, <3>2, <3>3, <3>4 DEF SubscribeDecide, Free
  <2>5. CASE srv.hit # srv.sub /\ ~srv.sub
    <3> DEFINE t == OnUnsubscribe(svc, c)
    <3>1. /\ t \in Inner(Conns)
          /\ Members(t) = Members(svc) \ {c}
          /\ t.subscribes = svc.subscribes \ {c}
          /\ t.new_subscribes = svc.new_subscribes \ {c}
          /\ t.active = svc.active
      BY <2>2, UnsubscribeRemoves
    <3>2. svc' = t /\ Forget(c) /\ revoked' = revoked \cup {c} /\ slipped' = slipped \ {c}
      BY <1>5, <2>2, <2>5 DEF SubscribeDecide
    <3>3. TypeOK'
      BY <1>5, <2>2, <3>1, <3>2 DEF SubscribeDecide, Forget, Free
    <3>4. SnapshotInv'
      BY <1>5, <3>1, <3>2 DEF SubscribeDecide, Forget
    <3> QED BY <1>5, <3>1, <3>2, <3>3, <3>4 DEF SubscribeDecide, Free
  <2> QED BY <2>3, <2>4, <2>5
<1>6. CASE ServerDrop
  <2>1. /\ svc' \in Inner(Conns)
        /\ svc'.subscribes = svc.subscribes
        /\ svc'.new_subscribes = svc.new_subscribes
    BY <1>6 DEF ServerDrop, Deactivate, Inner
  <2> QED BY <1>6, <2>1 DEF ServerDrop, ghosts, Members
<1>7. CASE JoinReturns
  BY <1>7 DEF JoinReturns, ghosts
<1>8. CASE LoopHead
  BY <1>8 DEF LoopHead, ghosts, Pcs
<1>9. CASE CheckSubscribers
  BY <1>9 DEF CheckSubscribers, ghosts, Pcs, HasSubscribes
<1>10. CASE PollFails
  BY <1>10 DEF PollFails, ghosts, Pcs
<1>11. ASSUME NEW v \in States \cup {state}, Poll(v) PROVE IInv'
  <2>1. CASE v = state
    BY <1>11, <2>1 DEF Poll, Pcs
  <2>2. CASE v # state
    <3>1. Send(svc.subscribes, v) /\ late' = late \ svc.subscribes
      BY <1>11, <2>2 DEF Poll
    <3>2. svc.subscribes \subseteq Conns
      BY DEF Inner
    <3>3. TypeOK'
      BY <1>11, <3>1 DEF Poll, Send, Pcs
    <3>4. SnapshotInv'
      BY <1>11, <3>1, <3>2 DEF Poll, Send
    <3> QED BY <1>11, <3>3, <3>4 DEF Poll
  <2> QED BY <2>1, <2>2
<1>12. CASE SnapshotBegin
  BY <1>12 DEF SnapshotBegin, ghosts, Pcs
<1>13. CASE SnapshotSend
  <2>1. svc.subscribes \subseteq Conns /\ svc.new_subscribes \subseteq Conns
    BY DEF Inner
  <2>2. TypeOK'
    BY <1>13, <2>1 DEF SnapshotSend, Send, Pcs
  <2>3. SnapshotInv'
    BY <1>13, <2>1 DEF SnapshotSend, Send
  <2> QED BY <1>13, <2>2, <2>3 DEF SnapshotSend
<1>14. CASE SnapshotSwap
  <2> DEFINE t == SwapNewSubscribes(svc)
  <2>1. /\ t \in Inner(Conns)
        /\ Members(t) = Members(svc)
        /\ t.subscribes = svc.subscribes \cup svc.new_subscribes
        /\ t.new_subscribes = {}
        /\ t.active = svc.active
    BY SwapKeepsMembers DEF Members
  <2>2. TypeOK'
    BY <1>14, <2>1 DEF SnapshotSwap, Pcs, Inner
  <2>3. SnapshotInv'
    BY <1>14, <2>1 DEF SnapshotSwap
  <2>4. RevokeHolds'
    BY <1>14, <2>1 DEF SnapshotSwap
  <2>5. ServerInv'
    BY <1>14, <2>1 DEF SnapshotSwap
  <2> QED BY <1>14, <2>1, <2>2, <2>3, <2>4, <2>5 DEF SnapshotSwap
<1>15. CASE UNCHANGED vars
  BY <1>15 DEF vars
<1> QED
  BY <1>1, <1>2, <1>3, <1>4, <1>5, <1>6, <1>7, <1>8, <1>9, <1>10, <1>11, <1>12, <1>13,
     <1>14, <1>15 DEF Next, ConnOp, Work, Finished

(* IInv holds in every reachable state. *)
LEMMA Invariance == Spec => []IInv
  BY InitIInv, NextIInv, PTL DEF Spec

-----------------------------------------------------------------------------
(* Every variable keeps its type, whatever the interleaving of the Server   *)
(* operations with the worker of ServiceTmpl::repeat.                       *)
THEOREM TypeCorrect == Spec => []TypeOK
<1>1. IInv => TypeOK
  BY DEF IInv
<1> QED BY <1>1, Invariance, PTL

(* No connection is ever in both maps, which on_unsubscribe relies on.      *)
THEOREM MapsDisjoint == Spec => []Disjoint
<1>1. IInv => Disjoint
  BY DEF IInv
<1> QED BY <1>1, Invariance, PTL

(* Between two rounds of the worker every subscriber has the last content,  *)
(* but for those that arrived between the snapshot's send and its swap.     *)
THEOREM SubscribersInSync == Spec => []InSync
<1>1. IInv => InSync
  BY DEF IInv, SnapshotInv, InSync
<1> QED BY <1>1, Invariance, PTL

(* An unsubscription that returned took effect, but for the swap that came  *)
(* between the two reads of is_subed.                                       *)
THEOREM RevocationHolds == Spec => []RevokeHolds
<1>1. IInv => RevokeHolds
  BY DEF IInv
<1> QED BY <1>1, Invariance, PTL

-----------------------------------------------------------------------------
(* Each step of Service is a step of Subscription, or changes nothing there. *)
LEMMA StepRefines == IInv /\ [Next]_vars => [Abstract!Next]_(Abstract!vars)
<1> SUFFICES ASSUME IInv, [Next]_vars PROVE [Abstract!Next]_(Abstract!vars)
    OBVIOUS
<1> USE NeedSnapshotAssumption
<1> USE DEF IInv, TypeOK, Disjoint, SnapshotInv, ServerInv, Abstract!Next, Abstract!vars
<1>0. svc.subscribes \subseteq Members(svc) /\ svc.new_subscribes \subseteq Members(svc)
  BY DEF Members
<1>1. ASSUME NEW c \in Conns, NEW b \in BOOLEAN, AddConnection(c, b)
      PROVE  Abstract!Join(c) \/ UNCHANGED Abstract!vars
  <2>1. /\ Members(OnSubscribe(svc, c, NeedSnapshot)) = Members(svc) \cup {c}
        /\ OnSubscribe(svc, c, NeedSnapshot).active = svc.active
    BY SubscribeAdds
  <2>2. svc.active
    BY <1>1 DEF AddConnection, Free
  <2> QED BY <1>1, <2>1, <2>2 DEF AddConnection, Arrive, Abstract!Join
<1>2. ASSUME NEW c \in Conns, RemoveConnection(c)
      PROVE  Abstract!Leave(c)
  <2>1. /\ Members(OnUnsubscribe(svc, c)) = Members(svc) \ {c}
        /\ OnUnsubscribe(svc, c).active = svc.active
    BY UnsubscribeRemoves
  <2>2. svc.active
    BY <1>2 DEF RemoveConnection, Free
  <2> QED BY <1>2, <2>1, <2>2 DEF RemoveConnection, Forget, Abstract!Leave
<1>3. ASSUME NEW c \in Conns, NEW b \in BOOLEAN, SubscribeBegin(c, b)
      PROVE  UNCHANGED Abstract!vars
  BY <1>3 DEF SubscribeBegin, ghosts
<1>4. CASE SubscribeSecondRead
  BY <1>4 DEF SubscribeSecondRead, ghosts
<1>5. CASE SubscribeDecide
  <2>1. srv.conn \in Conns
    BY <1>5 DEF SubscribeDecide, SubscribeOps, Free
  <2> DEFINE c == srv.conn
  <2>2. /\ Members(OnSubscribe(svc, c, NeedSnapshot)) = Members(svc) \cup {c}
        /\ OnSubscribe(svc, c, NeedSnapshot).active = svc.active
    BY <2>1, SubscribeAdds
  <2>3. /\ Members(OnUnsubscribe(svc, c)) = Members(svc) \ {c}
        /\ OnUnsubscribe(svc, c).active = svc.active
    BY <2>1, UnsubscribeRemoves
  <2>4. svc.active
    BY <1>5 DEF SubscribeDecide
  <2>5. Abstract!Join(c) \/ Abstract!Leave(c) \/ UNCHANGED Abstract!vars
    BY <1>5, <2>2, <2>3, <2>4
       DEF SubscribeDecide, Arrive, Forget, Abstract!Join, Abstract!Leave
  <2> QED BY <2>1, <2>5
<1>6. CASE ServerDrop
  <2>1. /\ Members(svc') = Members(svc)
        /\ svc.active = TRUE /\ svc'.active = FALSE
    BY <1>6 DEF ServerDrop, Deactivate, Inner, Members, Free
  <2>2. Abstract!Stop
    BY <1>6, <2>1 DEF ServerDrop, ghosts, Abstract!Stop
  <2> QED BY <2>2
<1>7. CASE LoopHead \/ CheckSubscribers \/ PollFails \/ SnapshotBegin \/ JoinReturns
  BY <1>7 DEF LoopHead, CheckSubscribers, PollFails, SnapshotBegin, JoinReturns, ghosts
<1>8. ASSUME NEW v \in States \cup {state}, Poll(v)
      PROVE  [Abstract!Next]_(Abstract!vars)
  <2>1. v \in States \cup {Nothing}
    BY DEF Contents
  <2>2. Abstract!Deliver(svc.subscribes, v) \/ UNCHANGED Abstract!vars
    BY <1>0, <1>8 DEF Poll, Send, Abstract!Deliver
  <2>3. svc.subscribes \in SUBSET Conns
    BY DEF Inner
  <2> QED BY <2>1, <2>2, <2>3
<1>9. CASE SnapshotSend
  <2>1. state \in States \cup {Nothing}
    BY DEF Contents
  <2>2. Abstract!Deliver(svc.new_subscribes, state)
    BY <1>0, <1>9 DEF SnapshotSend, Send, Abstract!Deliver
  <2>3. svc.new_subscribes \in SUBSET Conns
    BY DEF Inner
  <2> QED BY <2>1, <2>2, <2>3
<1>10. CASE SnapshotSwap
  BY <1>10, SwapKeepsMembers DEF SnapshotSwap
<1>11. CASE UNCHANGED vars
  BY <1>11 DEF vars
<1> QED
  BY <1>1, <1>2, <1>3, <1>4, <1>5, <1>6, <1>7, <1>8, <1>9, <1>10, <1>11
     DEF Next, ConnOp, Work, Finished, vars

(* The two maps with their snapshot and worker implement plain membership.  *)
THEOREM Refinement == Spec => ImplementsSubscription
<1>1. Init => Abstract!Init
  BY DEF Init, Abstract!Init, NewService, Members
<1>2. IInv /\ [Next]_vars => [Abstract!Next]_(Abstract!vars)
  BY StepRefines
<1> QED
  BY <1>1, <1>2, Invariance, PTL DEF Spec, ImplementsSubscription, Abstract!Spec
=============================================================================
