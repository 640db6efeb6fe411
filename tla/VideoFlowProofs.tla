--------------------------- MODULE VideoFlowProofs ---------------------------
(***************************************************************************)
(* VideoFlow, for any connections, any finite set of displays and any       *)
(* bounds: types, the first frame of every viewer, the backlog, and, for    *)
(* one display, on whom a wait is given up.                                 *)
(***************************************************************************)
EXTENDS VideoFlow, FiniteSetTheorems, TLAPS

(* A viewer without a frame is one the next frame is a key frame for, or    *)
(* one that took over an encoder nobody else watched.                       *)
FirstInv ==
    \A d \in Displays, c \in Conns :
        c \in svc[d].subscribes /\ first[d][c] = None =>
            pc[d] = "idle" \/ fresh[d] \/ c \in takeover[d]

(* The snapshot's callback lets nobody share the encoder. *)
SwapInv == \A d \in Displays : pc[d] = "swap" => svc[d].subscribes = {}

(* The displays that wait for c to fetch their frame. *)
Unanswered(c) ==
    {d \in Displays : pc[d] \in {"wait", "recv"} /\ c \in sent[d] \ fetched[d]}

(* What is on its way for c is waited for, or was paid for with slack. *)
BacklogInv ==
    \A c \in Conns : slack < MaxSlack /\ conn[c] = "open" =>
        InFlight(c) <= Cardinality(Unanswered(c)) + slack

-----------------------------------------------------------------------------
(* How many answers of c a queue holds. *)
Owed(s, c) == Cardinality({i \in DOMAIN s : s[i] = c})

LEMMA OwedIsNat ==
    ASSUME NEW s \in Seq(Conns), NEW c
    PROVE  IsFiniteSet({i \in DOMAIN s : s[i] = c}) /\ Owed(s, c) \in Nat
<1>1. DOMAIN s = 1..Len(s) /\ Len(s) \in Nat
  OBVIOUS
<1>2. IsFiniteSet(DOMAIN s)
  BY <1>1, FS_Interval
<1>3. {i \in DOMAIN s : s[i] = c} \in SUBSET (DOMAIN s)
  OBVIOUS
<1>4. IsFiniteSet({i \in DOMAIN s : s[i] = c})
  BY <1>2, <1>3, FS_Subset
<1> QED BY <1>4, FS_CardinalityType DEF Owed

(* One answer more. *)
LEMMA OwedAppend ==
    ASSUME NEW s \in Seq(Conns), NEW c, NEW x \in Conns
    PROVE  Owed(Append(s, x), c) = IF x = c THEN Owed(s, c) + 1 ELSE Owed(s, c)
<1> DEFINE old == {i \in DOMAIN s : s[i] = c}
           new == {i \in DOMAIN Append(s, x) : Append(s, x)[i] = c}
<1>1. new = IF x = c THEN old \cup {Len(s) + 1} ELSE old
  OBVIOUS
<1>2. Len(s) + 1 \notin old
  OBVIOUS
<1>3. IsFiniteSet(old)
  BY OwedIsNat
<1>4. Cardinality(old \cup {Len(s) + 1}) = Cardinality(old) + 1
  <2> HIDE DEF old
  <2> QED BY <1>2, <1>3, FS_AddElement
<1>5. Owed(s, c) = Cardinality(old) /\ Owed(Append(s, x), c) = Cardinality(new)
  BY DEF Owed
<1> HIDE DEF old, new
<1> QED BY <1>1, <1>4, <1>5

(* One answer less. *)
LEMMA OwedTail ==
    ASSUME NEW s \in Seq(Conns), s # <<>>, NEW c
    PROVE  Owed(Tail(s), c) = IF Head(s) = c THEN Owed(s, c) - 1 ELSE Owed(s, c)
<1> DEFINE old == {i \in DOMAIN s : s[i] = c}
           new == {i \in DOMAIN Tail(s) : Tail(s)[i] = c}
           shift == [i \in new |-> i + 1]
<1>1. /\ Len(s) \in Nat /\ Len(s) >= 1 /\ DOMAIN s = 1..Len(s)
      /\ Tail(s) \in Seq(Conns) /\ DOMAIN Tail(s) = 1..(Len(s) - 1)
      /\ \A i \in 1..(Len(s) - 1) : Tail(s)[i] = s[i + 1]
      /\ Head(s) = s[1]
  OBVIOUS
<1>2. shift \in [new -> old \ {1}]
  BY <1>1
<1>3. \A a, b \in new : shift[a] = shift[b] => a = b
  BY <1>1
<1>4. ASSUME NEW t \in old \ {1} PROVE \E i \in new : shift[i] = t
  <2>1. t - 1 \in new
    BY <1>1
  <2>2. shift[t - 1] = t
    BY <1>1, <2>1
  <2> QED BY <2>1, <2>2
<1>5. IsFiniteSet(new) /\ IsFiniteSet(old)
  BY <1>1, OwedIsNat
<1>6. ExistsBijection(new, old \ {1})
  <2> HIDE DEF shift, new, old
  <2> QED BY <1>2, <1>3, <1>4 DEF ExistsBijection, Bijection, Injection, Surjection, IsInjective
<1>7. Cardinality(old \ {1}) = Cardinality(new)
  <2> HIDE DEF new, old
  <2> QED BY <1>5, <1>6, FS_Bijection
<1>8. Cardinality(old \ {1}) = IF 1 \in old THEN Cardinality(old) - 1 ELSE Cardinality(old)
  <2> HIDE DEF new, old
  <2> QED BY <1>5, FS_RemoveElement
<1>9. 1 \in old <=> Head(s) = c
  BY <1>1
<1>10. Owed(s, c) = Cardinality(old) /\ Owed(Tail(s), c) = Cardinality(new)
  BY DEF Owed
<1> HIDE DEF old, new, shift
<1> QED BY <1>7, <1>8, <1>9, <1>10

(* Fetch appends one answer. *)
LEMMA OneAnswer ==
    ASSUME NEW s \in Seq(Conns), NEW c \in Conns
    PROVE  s \o [i \in 1..1 |-> c] = Append(s, c)
<1>1. [i \in 1..1 |-> c] \in Seq(Conns) /\ Len([i \in 1..1 |-> c]) = 1
  OBVIOUS
<1>2. [i \in 1..1 |-> c][1] = c
  OBVIOUS
<1>3. s \o [i \in 1..1 |-> c] \in Seq(Conns) /\ Append(s, c) \in Seq(Conns)
  BY <1>1
<1>4. Len(s \o [i \in 1..1 |-> c]) = Len(s) + 1 /\ Len(Append(s, c)) = Len(s) + 1
  BY <1>1
<1>5. \A j \in 1..(Len(s) + 1) : (s \o [i \in 1..1 |-> c])[j] = Append(s, c)[j]
  BY <1>1, <1>2
<1> QED BY <1>3, <1>4, <1>5

-----------------------------------------------------------------------------
(* Types *)

LEMMA ServiceTypes ==
    ASSUME NEW s \in Inner(Conns), NEW c \in Conns
    PROVE  /\ OnSubscribe(s, c, TRUE) \in Inner(Conns)
           /\ OnUnsubscribe(s, c) \in Inner(Conns)
           /\ s.subscribes \in SUBSET Conns /\ s.new_subscribes \in SUBSET Conns
BY DEF Inner, OnSubscribe, OnUnsubscribe

LEMMA SwapTypes ==
    ASSUME NEW s \in Inner(Conns) PROVE SwapNewSubscribes(s) \in Inner(Conns)
BY DEF Inner, SwapNewSubscribes

LEMMA BeginWaitTypes ==
    ASSUME TypeOK, NEW d \in Displays, BeginWait(d)
    PROVE  fetched' \in [Displays -> SUBSET Conns] /\ rounds' \in [Displays -> 0..MaxRounds]
<1>1. 0 \in 0..MaxRounds
  BY BoundsAssumption
<1>2. rounds' \in [Displays -> 0..MaxRounds]
  BY <1>1 DEF BeginWait, TypeOK
<1>3. fetched' \in [Displays -> SUBSET Conns]
  BY DEF BeginWait, TypeOK
<1> QED BY <1>2, <1>3

LEMMA LeaveTypes ==
    ASSUME TypeOK, NEW c \in Conns, NEW D \in SUBSET Displays, Leave(c, D)
    PROVE  /\ svc' \in [Displays -> Inner(Conns)]
           /\ first' \in [Displays -> [Conns -> {None, "key", "delta"}]]
           /\ takeover' \in [Displays -> SUBSET Conns]
<1>1. svc' \in [Displays -> Inner(Conns)]
  BY ServiceTypes DEF TypeOK, Leave
<1>2. first' \in [Displays -> [Conns -> {None, "key", "delta"}]]
  BY DEF TypeOK, Leave
<1>3. takeover' \in [Displays -> SUBSET Conns]
  BY DEF TypeOK, Leave
<1> QED BY <1>1, <1>2, <1>3

LEMMA SlackTypes ==
    ASSUME slack \in 0..MaxSlack
    PROVE  /\ More(slack) \in 0..MaxSlack
           /\ More(slack) >= slack
           /\ More(slack) < MaxSlack => More(slack) = slack + 1
BY BoundsAssumption DEF More

LEMMA RoundTypes ==
    ASSUME TypeOK, NEW d \in Displays, RoundPasses(d) \/ UNCHANGED rounds
    PROVE  rounds' \in [Displays -> 0..MaxRounds]
<1>1. CASE RoundPasses(d)
  <2>1. \A e \in Displays : rounds[e] \in 0..MaxRounds
    BY DEF TypeOK
  <2>2. ASSUME NEW e \in Displays
        PROVE  (IF (e = d \/ pc[e] = "wait") /\ rounds[e] < MaxRounds
                THEN rounds[e] + 1 ELSE rounds[e]) \in 0..MaxRounds
    BY <2>1, BoundsAssumption
  <2> QED BY <1>1, <2>2 DEF RoundPasses
<1>2. CASE UNCHANGED rounds
  BY <1>2 DEF TypeOK
<1> QED BY <1>1, <1>2

(* Every step keeps the types. *)
LEMMA ConnTypes ==
    ASSUME TypeOK, NEW c \in Conns, Conn(c)
    PROVE  TypeOK'
<1>1. ASSUME NEW d \in Displays, Subscribe(c, d) PROVE TypeOK'
  BY <1>1, ServiceTypes DEF TypeOK, Subscribe, waiting
<1>2. ASSUME NEW d \in Displays, Unsubscribe(c, d) PROVE TypeOK'
  BY <1>2, LeaveTypes DEF TypeOK, Unsubscribe, waiting
<1>3. CASE Fetch(c)
  <2>1. notifier' = Append(notifier, c)
    BY <1>3, OneAnswer DEF Fetch, Answer, TypeOK
  <2>2. notifier' \in Seq(Conns)
    BY <2>1 DEF TypeOK
  <2>3. queue' \in [Conns -> Seq(Displays)]
    BY <1>3 DEF Fetch, Answer, TypeOK
  <2> QED BY <1>3, <2>2, <2>3 DEF TypeOK, Fetch, Answer, services, waiting
<1>4. CASE NotifyClose(c)
  BY <1>4 DEF TypeOK, NotifyClose, services, waiting
<1>5. CASE RemoveConnection(c)
  <2>1. queue' \in [Conns -> Seq(Displays)] /\ conn' \in [Conns -> {"open", "closing", "closed"}]
    BY <1>5 DEF RemoveConnection, TypeOK
  <2> QED BY <1>5, <2>1, LeaveTypes DEF TypeOK, RemoveConnection, waiting
<1> QED BY <1>1, <1>2, <1>3, <1>4, <1>5 DEF Conn

LEMMA WorkTypes ==
    ASSUME TypeOK, NEW d \in Displays, Work(d) \/ Switch(d)
    PROVE  TypeOK'
<1> USE DEF TypeOK, Pcs, Goto, services, waiting
<1>1. CASE Enter(d)
  BY <1>1 DEF Enter
<1>2. CASE CheckOk(d)
  BY <1>2 DEF CheckOk
<1>3. CASE Switch(d)
  BY <1>3, SlackTypes DEF Switch
<1>4. CASE Capture(d)
  <2>1. pc' \in [Displays -> Pcs]
    BY <1>4 DEF Capture, BeginWait
  <2>2. fetched' \in [Displays -> SUBSET Conns] /\ rounds' \in [Displays -> 0..MaxRounds]
    BY <1>4, BeginWaitTypes DEF Capture
  <2> QED BY <1>4, <2>1, <2>2 DEF Capture
<1>5. CASE Snapshot(d)
  BY <1>5 DEF Snapshot
<1>6. CASE SnapshotCallback(d)
  BY <1>6 DEF SnapshotCallback
<1>7. CASE Swap(d)
  <2>1. svc' \in [Displays -> Inner(Conns)]
    <3>1. SwapNewSubscribes(svc[d]) \in Inner(Conns)
      <4>1. svc[d] \in Inner(Conns)
        OBVIOUS
      <4> QED BY <4>1, SwapTypes
    <3> QED BY <1>7, <3>1 DEF Swap
  <2>2. takeover' \in [Displays -> SUBSET Conns]
    BY <1>7 DEF Swap, Inner
  <2> QED BY <1>7, <2>1, <2>2 DEF Swap
<1>8. CASE SendFrame(d)
  <2>1. sent' \in [Displays -> SUBSET Conns]
    BY <1>8 DEF SendFrame, Inner
  <2>2. queue' \in [Conns -> Seq(Displays)]
    BY <1>8 DEF SendFrame
  <2>3. first' \in [Displays -> [Conns -> {None, "key", "delta"}]]
    BY <1>8 DEF SendFrame
  <2>4. /\ pc' \in [Displays -> Pcs] /\ fetched' \in [Displays -> SUBSET Conns]
        /\ rounds' \in [Displays -> 0..MaxRounds] /\ fresh' \in [Displays -> BOOLEAN]
    BY <1>8, BoundsAssumption DEF SendFrame, BeginWait
  <2> QED BY <1>8, <2>1, <2>2, <2>3, <2>4 DEF SendFrame
<1>9. CASE EncodeFails(d)
  <2>1. pc' \in [Displays -> Pcs]
    BY <1>9 DEF EncodeFails, BeginWait
  <2>2. fetched' \in [Displays -> SUBSET Conns] /\ rounds' \in [Displays -> 0..MaxRounds]
    BY <1>9, BeginWaitTypes DEF EncodeFails
  <2> QED BY <1>9, <2>1, <2>2 DEF EncodeFails
<1>10. CASE TryWaitNext(d)
  BY <1>10 DEF TryWaitNext
<1>11. CASE Receive(d)
  <2>1. Head(notifier) \in Conns /\ notifier' \in Seq(Conns)
    BY <1>11 DEF Receive
  <2>2. fetched' \in [Displays -> SUBSET Conns]
    BY <1>11, <2>1 DEF Receive
  <2>3. pc' \in [Displays -> Pcs]
    BY <1>11 DEF Receive
  <2>4. slack' \in 0..MaxSlack
    BY <1>11, SlackTypes DEF Receive
  <2>5. rounds' \in [Displays -> 0..MaxRounds]
    BY <1>11, RoundTypes DEF Receive
  <2> QED BY <1>11, <2>1, <2>2, <2>3, <2>4, <2>5 DEF Receive
<1>12. CASE ReceiveTimeout(d)
  <2>1. rounds' \in [Displays -> 0..MaxRounds]
    BY <1>12, RoundTypes DEF ReceiveTimeout
  <2>2. slack' \in 0..MaxSlack
    BY <1>12, SlackTypes DEF ReceiveTimeout
  <2> QED BY <1>12, <2>1, <2>2 DEF ReceiveTimeout
<1>13. CASE Pace(d)
  BY <1>13 DEF Pace
<1> QED BY <1>1, <1>2, <1>3, <1>4, <1>5, <1>6, <1>7, <1>8, <1>9, <1>10, <1>11, <1>12, <1>13
        DEF Work

LEMMA TypesInductive == TypeOK /\ [Next]_vars => TypeOK'
<1> SUFFICES ASSUME TypeOK, [Next]_vars PROVE TypeOK'
  OBVIOUS
<1>1. CASE UNCHANGED vars \/ Quiet
  BY <1>1 DEF TypeOK, vars, Quiet
<1> QED BY <1>1, ConnTypes, WorkTypes DEF Next

LEMMA InitTypes == Init => TypeOK
BY BoundsAssumption DEF Init, TypeOK, Pcs, Inner, NewService, None

(* Services, workers, answers and connections keep their types.             *)
THEOREM TypeCorrect == Spec => []TypeOK
BY InitTypes, TypesInductive, PTL DEF Spec

-----------------------------------------------------------------------------
(* First frames *)

LEMMA LeaveFirsts ==
    ASSUME TypeOK, FirstInv, SwapInv, KeyFrameFirst,
           NEW c \in Conns, NEW D \in SUBSET Displays, Leave(c, D),
           pc' = pc, fresh' = fresh
    PROVE  FirstInv' /\ SwapInv' /\ KeyFrameFirst'
<1>1. ASSUME NEW d \in Displays
      PROVE  svc'[d].subscribes = IF d \in D THEN svc[d].subscribes \ {c} ELSE svc[d].subscribes
  <2>1. svc[d] \in Inner(Conns)
    BY DEF TypeOK
  <2>2. OnUnsubscribe(svc[d], c).subscribes = svc[d].subscribes \ {c}
    BY <2>1 DEF OnUnsubscribe, Inner
  <2>3. svc'[d] = IF d \in D THEN OnUnsubscribe(svc[d], c) ELSE svc[d]
    BY DEF Leave
  <2> QED BY <2>2, <2>3
<1>2. ASSUME NEW d \in Displays, NEW b \in Conns
      PROVE  /\ first'[d][b] = IF d \in D /\ b = c THEN None ELSE first[d][b]
             /\ b # c => (b \in takeover'[d] <=> b \in takeover[d])
             /\ d \notin D => takeover'[d] = takeover[d]
  BY DEF Leave, TypeOK
<1>3. FirstInv'
  <2> SUFFICES ASSUME NEW d \in Displays, NEW b \in Conns,
                      b \in svc'[d].subscribes, first'[d][b] = None
               PROVE  pc[d] = "idle" \/ fresh[d] \/ b \in takeover'[d]
    BY DEF FirstInv
  <2>1. b \in svc[d].subscribes /\ ~ (d \in D /\ b = c)
    BY <1>1
  <2>2. first[d][b] = None /\ (b \in takeover[d] => b \in takeover'[d])
    BY <1>2, <2>1
  <2> QED BY <2>1, <2>2 DEF FirstInv
<1>4. SwapInv'
  BY <1>1 DEF SwapInv
<1>5. KeyFrameFirst'
  BY <1>2 DEF KeyFrameFirst, None
<1> QED BY <1>3, <1>4, <1>5

LEMMA FirstsInductive ==
    ASSUME TypeOK, FirstInv, SwapInv, KeyFrameFirst, [Next]_vars
    PROVE  FirstInv' /\ SwapInv' /\ KeyFrameFirst'
<1> USE DEF FirstInv, SwapInv, KeyFrameFirst
<1>1. ASSUME NEW c \in Conns, Conn(c) PROVE FirstInv' /\ SwapInv' /\ KeyFrameFirst'
  <2>1. ASSUME NEW d \in Displays, Subscribe(c, d)
        PROVE  FirstInv' /\ SwapInv' /\ KeyFrameFirst'
    <3>1. \A e \in Displays : svc'[e].subscribes = svc[e].subscribes
      BY <2>1 DEF Subscribe, OnSubscribe, TypeOK, Inner
    <3> QED BY <2>1, <3>1 DEF Subscribe
  <2>2. ASSUME NEW d \in Displays, Unsubscribe(c, d)
        PROVE  FirstInv' /\ SwapInv' /\ KeyFrameFirst'
    BY <2>2, LeaveFirsts DEF Unsubscribe
  <2>3. CASE Fetch(c) \/ NotifyClose(c)
    BY <2>3 DEF Fetch, Answer, NotifyClose, services
  <2>4. CASE RemoveConnection(c)
    BY <2>4, LeaveFirsts DEF RemoveConnection
  <2> QED BY <1>1, <2>1, <2>2, <2>3, <2>4 DEF Conn
<1>2. ASSUME NEW d \in Displays, Work(d) \/ Switch(d)
      PROVE  FirstInv' /\ SwapInv' /\ KeyFrameFirst'
  <2>1. CASE Enter(d)
    BY <2>1 DEF Enter, Goto, services, TypeOK
  <2>2. CASE CheckOk(d) \/ Switch(d) \/ Capture(d) \/ EncodeFails(d) \/ Pace(d)
    <3>1. /\ pc[d] # "idle" /\ UNCHANGED <<services, fresh>>
          /\ \A e \in Displays : e # d => pc'[e] = pc[e]
          /\ pc'[d] \notin {"swap"}
      BY <2>2 DEF CheckOk, Switch, Capture, EncodeFails, Pace, BeginWait, Goto, TypeOK
    <3> QED BY <3>1 DEF services
  <2>3. CASE Snapshot(d) \/ TryWaitNext(d) \/ Receive(d) \/ ReceiveTimeout(d)
    <3>1. /\ pc[d] # "idle" /\ UNCHANGED <<services, fresh>>
          /\ \A e \in Displays : e # d => pc'[e] = pc[e]
          /\ pc'[d] \notin {"swap"}
      BY <2>3 DEF Snapshot, TryWaitNext, Receive, ReceiveTimeout, Goto, TypeOK
    <3> QED BY <3>1 DEF services
  <2>4. CASE SnapshotCallback(d)
    BY <2>4 DEF SnapshotCallback, Goto, services, TypeOK
  <2>5. CASE Swap(d)
    <3>1. /\ pc'[d] \in {"encode", "idle"} /\ fresh' = fresh /\ first' = first
          /\ \A e \in Displays : e # d => pc'[e] = pc[e] /\ svc'[e] = svc[e]
          /\ svc'[d].subscribes = svc[d].subscribes \cup svc[d].new_subscribes
      BY <2>5 DEF Swap, Goto, SwapNewSubscribes, TypeOK, Inner
    <3>2. \A e \in Displays : takeover[e] \subseteq takeover'[e]
      BY <2>5 DEF Swap, TypeOK
    <3>3. CASE pc[d] = "swap"
      <4>1. svc[d].subscribes = {}
        BY <3>3
      <4>2. fresh[d] \/ svc[d].new_subscribes \subseteq takeover'[d]
        BY <2>5, <3>3, <4>1 DEF Swap, TypeOK
      <4>3. FirstInv'
        BY <3>1, <3>2, <4>1, <4>2
      <4> QED BY <3>1, <3>2, <4>3
    <3>4. CASE pc[d] # "swap"
      <4>1. pc'[d] = "idle"
        BY <2>5, <3>4 DEF Swap, Goto, TypeOK
      <4> QED BY <3>1, <3>2, <4>1
    <3> QED BY <3>3, <3>4
  <2>6. CASE SendFrame(d)
    <3>1. /\ pc[d] = "encode" /\ pc'[d] = "wait" /\ svc' = svc /\ takeover' = takeover
          /\ \A e \in Displays : e # d =>
                pc'[e] = pc[e] /\ fresh'[e] = fresh[e] /\ first'[e] = first[e]
      BY <2>6 DEF SendFrame, BeginWait, Goto, TypeOK
    <3>2. \A c \in Conns : first'[d][c] =
            IF c \in svc[d].subscribes /\ first[d][c] = None
            THEN IF fresh[d] THEN "key" ELSE "delta" ELSE first[d][c]
      BY <2>6 DEF SendFrame, TypeOK
    <3>3. FirstInv'
      BY <3>1, <3>2 DEF None
    <3>4. KeyFrameFirst'
      BY <3>1, <3>2
    <3> QED BY <3>1, <3>3, <3>4
  <2> QED BY <1>2, <2>1, <2>2, <2>3, <2>4, <2>5, <2>6 DEF Work
<1>3. CASE UNCHANGED vars \/ Quiet
  BY <1>3 DEF vars, Quiet
<1> QED BY <1>1, <1>2, <1>3 DEF Next

(* Nobody's first frame needs one that was sent before, but for who takes    *)
(* over an encoder in the moment its last viewer leaves.                    *)
THEOREM FirstsAreKeys == Spec => []KeyFrameFirst
<1>1. Init => FirstInv /\ SwapInv /\ KeyFrameFirst
  BY DEF Init, FirstInv, SwapInv, KeyFrameFirst, None, NewService
<1>2. TypeOK /\ (FirstInv /\ SwapInv /\ KeyFrameFirst) /\ [Next]_vars
        => (FirstInv /\ SwapInv /\ KeyFrameFirst)'
  BY FirstsInductive
<1> QED BY <1>1, <1>2, TypeCorrect, PTL DEF Spec

-----------------------------------------------------------------------------
(* The backlog *)

LEMMA Sizes ==
    ASSUME NEW S \in SUBSET Displays, NEW T \in SUBSET Displays
    PROVE  /\ Cardinality(S) \in Nat /\ Cardinality(S) <= Cardinality(Displays)
           /\ Cardinality(T) \in Nat /\ Cardinality(Displays) \in Nat
           /\ S \subseteq T => Cardinality(S) <= Cardinality(T)
           /\ \A d \in Displays : S \subseteq T \cup {d} => Cardinality(S) <= Cardinality(T) + 1
           /\ \A d \in Displays : S \cup {d} \subseteq T /\ d \notin S =>
                  Cardinality(S) + 1 <= Cardinality(T)
<1>1. IsFiniteSet(S) /\ IsFiniteSet(T)
  BY DisplaysAssumption, FS_Subset
<1>2. /\ Cardinality(S) \in Nat /\ Cardinality(T) \in Nat /\ Cardinality(Displays) \in Nat
      /\ Cardinality(S) <= Cardinality(Displays)
  BY <1>1, DisplaysAssumption, FS_CardinalityType, FS_Subset
<1>3. S \subseteq T => Cardinality(S) <= Cardinality(T)
  BY <1>1, FS_Subset
<1>4. ASSUME NEW d \in Displays, S \subseteq T \cup {d}
      PROVE  Cardinality(S) <= Cardinality(T) + 1
  <2>1. /\ IsFiniteSet(T \cup {d})
        /\ Cardinality(T \cup {d}) = IF d \in T THEN Cardinality(T) ELSE Cardinality(T) + 1
    BY <1>1, FS_AddElement
  <2>2. Cardinality(S) <= Cardinality(T \cup {d})
    BY <1>4, <2>1, FS_Subset
  <2> QED BY <1>2, <2>1, <2>2
<1>5. ASSUME NEW d \in Displays, S \cup {d} \subseteq T, d \notin S
      PROVE  Cardinality(S) + 1 <= Cardinality(T)
  <2>1. Cardinality(S \cup {d}) = Cardinality(S) + 1
    BY <1>1, <1>5, FS_AddElement
  <2>2. Cardinality(S \cup {d}) <= Cardinality(T)
    BY <1>1, <1>5, FS_Subset
  <2> QED BY <2>1, <2>2
<1> QED BY <1>2, <1>3, <1>4, <1>5

LEMMA InFlightIs ==
    ASSUME TypeOK, NEW c \in Conns
    PROVE  InFlight(c) = Len(queue[c]) + Owed(notifier, c)
           /\ Len(queue[c]) \in Nat /\ Owed(notifier, c) \in Nat /\ slack \in Nat
<1>1. Len(queue[c]) \in Nat /\ slack \in Nat /\ notifier \in Seq(Conns)
  BY BoundsAssumption DEF TypeOK
<1>2. Owed(notifier, c) \in Nat
  BY <1>1, OwedIsNat
<1> QED BY <1>1, <1>2 DEF InFlight, Owed

(* A step that sends and answers nothing keeps the account if no wait gives  *)
(* up on anybody, or if slack pays for the one that does.                   *)
LEMMA NothingMoves ==
    ASSUME TypeOK, TypeOK', BacklogInv, UNCHANGED <<queue, notifier, conn>>,
           NEW d \in Displays,
           \A c \in Conns : Unanswered(c) \subseteq Unanswered(c)' \cup {d},
           \/ slack' = More(slack)
           \/ slack' = slack /\ \A c \in Conns : Unanswered(c) \subseteq Unanswered(c)'
    PROVE  BacklogInv'
<1> SUFFICES ASSUME NEW c \in Conns, slack' < MaxSlack, conn'[c] = "open"
             PROVE  InFlight(c)' <= Cardinality(Unanswered(c)') + slack'
  BY DEF BacklogInv
<1>1. InFlight(c)' = InFlight(c) /\ InFlight(c) \in Int /\ slack \in 0..MaxSlack
  <2>1. InFlight(c) \in Int /\ slack \in 0..MaxSlack
    BY InFlightIs DEF TypeOK
  <2> QED BY <2>1 DEF InFlight
<1>2. Unanswered(c) \in SUBSET Displays /\ Unanswered(c)' \in SUBSET Displays
  BY DEF Unanswered
<1> DEFINE A == Cardinality(Unanswered(c))
           B == Cardinality(Unanswered(c)')
<1>3. /\ A \in Nat /\ B \in Nat /\ A <= B + 1
      /\ Unanswered(c) \subseteq Unanswered(c)' => A <= B
  BY <1>2, Sizes
<1>4. slack < MaxSlack => InFlight(c) <= A + slack
  BY DEF BacklogInv
<1>5. slack < MaxSlack
  BY <1>1, SlackTypes, BoundsAssumption
<1> HIDE DEF A, B
<1>6. CASE slack' = More(slack)
  <2>1. slack' = slack + 1
    BY <1>1, <1>6, SlackTypes
  <2> QED BY <1>1, <1>3, <1>4, <1>5, <2>1 DEF B
<1>7. CASE slack' = slack /\ Unanswered(c) \subseteq Unanswered(c)'
  BY <1>1, <1>3, <1>4, <1>5, <1>7 DEF B
<1> QED BY <1>6, <1>7

LEMMA ConnBacklog ==
    ASSUME TypeOK, TypeOK', BacklogInv, NEW b \in Conns, Conn(b)
    PROVE  BacklogInv'
<1> SUFFICES ASSUME NEW c \in Conns, slack' < MaxSlack, conn'[c] = "open"
             PROVE  InFlight(c)' <= Cardinality(Unanswered(c)') + slack'
  BY DEF BacklogInv
<1>1. slack' = slack /\ conn[c] = "open" /\ UNCHANGED <<pc, sent, fetched>>
  BY DEF Conn, Subscribe, Unsubscribe, Fetch, Answer, NotifyClose, RemoveConnection,
         waiting, TypeOK
<1>2. Unanswered(c)' = Unanswered(c)
  BY <1>1 DEF Unanswered
<1>3. InFlight(c)' = InFlight(c)
  <2>1. InFlight(c) = Len(queue[c]) + Owed(notifier, c)
        /\ Len(queue[c]) \in Nat /\ Owed(notifier, c) \in Nat
    BY InFlightIs
  <2>2. InFlight(c)' = Len(queue'[c]) + Owed(notifier', c)
    BY DEF InFlight, Owed
  <2>3. CASE \E d \in Displays : Subscribe(b, d) \/ Unsubscribe(b, d)
    BY <2>1, <2>2, <2>3 DEF Subscribe, Unsubscribe
  <2>4. CASE Fetch(b)
    <3>1. notifier' = Append(notifier, b)
      BY <2>4, OneAnswer DEF Fetch, Answer, TypeOK
    <3>2. Owed(notifier', c) = IF b = c THEN Owed(notifier, c) + 1 ELSE Owed(notifier, c)
      BY <3>1, OwedAppend DEF TypeOK
    <3>3. Len(queue'[c]) = IF b = c THEN Len(queue[c]) - 1 ELSE Len(queue[c])
      BY <2>4 DEF Fetch, Answer, TypeOK
    <3> QED BY <2>1, <2>2, <3>2, <3>3
  <2>5. CASE NotifyClose(b)
    <3>1. b # c /\ notifier' = Append(notifier, b) /\ queue' = queue
      BY <2>5, <1>1 DEF NotifyClose, TypeOK
    <3>2. Owed(notifier', c) = Owed(notifier, c)
      BY <3>1, OwedAppend DEF TypeOK
    <3> QED BY <2>1, <2>2, <3>1, <3>2
  <2>6. CASE RemoveConnection(b)
    <3>1. b # c /\ notifier' = notifier /\ queue'[c] = queue[c]
      BY <2>6, <1>1 DEF RemoveConnection, TypeOK
    <3> QED BY <2>1, <2>2, <3>1
  <2> QED BY <2>3, <2>4, <2>5, <2>6 DEF Conn
<1> QED BY <1>1, <1>2, <1>3 DEF BacklogInv

LEMMA SendBacklog ==
    ASSUME TypeOK, TypeOK', BacklogInv, NEW d \in Displays, SendFrame(d)
    PROVE  BacklogInv'
<1> SUFFICES ASSUME NEW c \in Conns, slack' < MaxSlack, conn'[c] = "open"
             PROVE  InFlight(c)' <= Cardinality(Unanswered(c)') + slack'
  BY DEF BacklogInv
<1>1. /\ UNCHANGED <<notifier, conn, slack>> /\ pc[d] = "encode" /\ pc'[d] = "wait"
      /\ sent'[d] = svc[d].subscribes /\ fetched'[d] = {}
      /\ \A e \in Displays : e # d =>
            pc'[e] = pc[e] /\ sent'[e] = sent[e] /\ fetched'[e] = fetched[e]
      /\ queue'[c] = IF c \in svc[d].subscribes /\ InFlight(c) < MaxQueue
                     THEN Append(queue[c], d) ELSE queue[c]
  BY DEF SendFrame, BeginWait, Goto, TypeOK
<1>2. /\ Unanswered(c) \in SUBSET Displays /\ Unanswered(c)' \in SUBSET Displays
      /\ d \notin Unanswered(c) /\ Unanswered(c) \subseteq Unanswered(c)'
      /\ c \in svc[d].subscribes => d \in Unanswered(c)'
  BY <1>1 DEF Unanswered
<1> DEFINE A == Cardinality(Unanswered(c))
           B == Cardinality(Unanswered(c)')
<1>3. A \in Nat /\ B \in Nat /\ A <= B /\ (c \in svc[d].subscribes => A + 1 <= B)
  BY <1>2, Sizes
<1>4. /\ InFlight(c) = Len(queue[c]) + Owed(notifier, c)
      /\ Len(queue[c]) \in Nat /\ Owed(notifier, c) \in Nat /\ slack \in Nat
  BY InFlightIs
<1>5. InFlight(c)' = Len(queue'[c]) + Owed(notifier, c)
  BY <1>1 DEF InFlight, Owed
<1>6. \/ Len(queue'[c]) = Len(queue[c])
      \/ Len(queue'[c]) = Len(queue[c]) + 1 /\ c \in svc[d].subscribes
  BY <1>1 DEF TypeOK
<1>7. InFlight(c) <= A + slack
  BY <1>1 DEF BacklogInv
<1> HIDE DEF A, B
<1> QED BY <1>1, <1>3, <1>4, <1>5, <1>6, <1>7 DEF B

LEMMA ReceiveBacklog ==
    ASSUME TypeOK, TypeOK', BacklogInv, NEW d \in Displays, Receive(d)
    PROVE  BacklogInv'
<1> SUFFICES ASSUME NEW c \in Conns, slack' < MaxSlack, conn'[c] = "open"
             PROVE  InFlight(c)' <= Cardinality(Unanswered(c)') + slack'
  BY DEF BacklogInv
<1> DEFINE h == Head(notifier)
           A == Cardinality(Unanswered(c))
           B == Cardinality(Unanswered(c)')
<1>1. /\ UNCHANGED <<conn, queue, sent>> /\ pc[d] = "recv" /\ notifier # <<>>
      /\ notifier' = Tail(notifier) /\ notifier \in Seq(Conns) /\ h \in Conns
      /\ fetched'[d] = fetched[d] \cup {h}
      /\ \A e \in Displays : e # d => pc'[e] = pc[e] /\ fetched'[e] = fetched[e]
  BY DEF Receive, Goto, TypeOK
<1>2. /\ slack \in 0..MaxSlack
      /\ \/ slack' = More(slack)
         \/ slack' = slack /\ (pc'[d] = "wait" \/ fetched'[d] = sent[d])
  BY DEF Receive, TypeOK
<1>3. /\ Unanswered(c) \in SUBSET Displays /\ Unanswered(c)' \in SUBSET Displays
      /\ Unanswered(c) \subseteq Unanswered(c)' \cup {d}
      /\ slack' = slack /\ c # h => Unanswered(c) \subseteq Unanswered(c)'
  <2>1. Unanswered(c) \in SUBSET Displays /\ Unanswered(c)' \in SUBSET Displays
    BY DEF Unanswered
  <2>2. Unanswered(c) \subseteq Unanswered(c)' \cup {d}
    BY <1>1 DEF Unanswered
  <2>3. ASSUME c # h, pc'[d] = "wait" \/ fetched'[d] = sent[d], d \in Unanswered(c)
        PROVE  d \in Unanswered(c)'
    <3>1. c \in sent[d] /\ c \notin fetched'[d]
      BY <1>1, <2>3 DEF Unanswered
    <3>2. pc'[d] = "wait"
      BY <2>3, <3>1
    <3> QED BY <1>1, <3>1, <3>2 DEF Unanswered
  <2>4. slack' = slack /\ slack' < MaxSlack => pc'[d] = "wait" \/ fetched'[d] = sent[d]
    BY <1>2, BoundsAssumption DEF More
  <2> QED BY <2>1, <2>2, <2>3, <2>4
<1>4. A \in Nat /\ B \in Nat /\ A <= B + 1 /\ (slack' = slack /\ c # h => A <= B)
  BY <1>3, Sizes
<1>5. /\ InFlight(c) = Len(queue[c]) + Owed(notifier, c)
      /\ Len(queue[c]) \in Nat /\ Owed(notifier, c) \in Nat
  BY InFlightIs
<1>6. Owed(Tail(notifier), c) = IF h = c THEN Owed(notifier, c) - 1 ELSE Owed(notifier, c)
  BY <1>1, OwedTail
<1>7. InFlight(c)' = Len(queue[c]) + Owed(Tail(notifier), c)
  BY <1>1 DEF InFlight, Owed
<1>8. slack < MaxSlack /\ (slack' = slack \/ slack' = slack + 1)
  BY <1>2, SlackTypes, BoundsAssumption
<1>9. InFlight(c) <= A + slack
  BY <1>1, <1>8 DEF BacklogInv
<1> HIDE DEF h, A, B
<1> QED BY <1>2, <1>4, <1>5, <1>6, <1>7, <1>8, <1>9 DEF B

LEMMA WorkBacklog ==
    ASSUME TypeOK, TypeOK', BacklogInv, NEW d \in Displays, Work(d) \/ Switch(d)
    PROVE  BacklogInv'
<1>1. CASE Enter(d) \/ CheckOk(d) \/ Capture(d) \/ Snapshot(d) \/ SnapshotCallback(d)
           \/ Swap(d) \/ EncodeFails(d) \/ Pace(d)
  <2>1. /\ UNCHANGED <<queue, notifier, conn, slack>> /\ pc[d] \notin {"wait", "recv"}
        /\ \A e \in Displays : e # d =>
              pc'[e] = pc[e] /\ sent'[e] = sent[e] /\ fetched'[e] = fetched[e]
    BY <1>1 DEF Enter, CheckOk, Capture, Snapshot, SnapshotCallback, Swap, EncodeFails,
                Pace, BeginWait, Goto, waiting, services, TypeOK
  <2>2. \A c \in Conns : Unanswered(c) \subseteq Unanswered(c)'
    BY <2>1 DEF Unanswered
  <2> QED BY <2>1, <2>2, NothingMoves
<1>2. CASE Switch(d) \/ ReceiveTimeout(d) \/ TryWaitNext(d)
  <2>1. /\ UNCHANGED <<queue, notifier, conn, sent, fetched>>
        /\ \A e \in Displays : e # d => pc'[e] = pc[e]
        /\ \/ slack' = More(slack)
           \/ slack' = slack /\ (pc'[d] \in {"wait", "recv"} \/ pc[d] \notin {"wait", "recv"}
                                 \/ sent[d] = {})
    BY <1>2 DEF Switch, ReceiveTimeout, TryWaitNext, Goto, waiting, services, TypeOK
  <2>2. \A c \in Conns : Unanswered(c) \subseteq Unanswered(c)' \cup {d}
    BY <2>1 DEF Unanswered
  <2>3. \/ slack' = More(slack)
        \/ slack' = slack /\ \A c \in Conns : Unanswered(c) \subseteq Unanswered(c)'
    BY <2>1 DEF Unanswered
  <2> QED BY <2>1, <2>2, <2>3, NothingMoves
<1> QED BY <1>1, <1>2, SendBacklog, ReceiveBacklog DEF Work

LEMMA BacklogInductive ==
    ASSUME TypeOK, TypeOK', BacklogInv, [Next]_vars
    PROVE  BacklogInv'
<1>1. CASE UNCHANGED vars \/ Quiet
  BY <1>1 DEF BacklogInv, InFlight, Unanswered, vars, Quiet
<1> QED BY <1>1, ConnBacklog, WorkBacklog DEF Next

LEMMA InitBacklog == Init => BacklogInv
<1> SUFFICES ASSUME Init, NEW c \in Conns
             PROVE  InFlight(c) <= Cardinality(Unanswered(c)) + slack
  BY DEF BacklogInv
<1>1. {i \in DOMAIN notifier : notifier[i] = c} = {} /\ Len(queue[c]) = 0 /\ slack = 0
  BY DEF Init
<1>2. InFlight(c) = 0
  BY <1>1, FS_EmptySet DEF InFlight
<1>3. Unanswered(c) \in SUBSET Displays
  BY DEF Unanswered
<1>4. Cardinality(Unanswered(c)) \in Nat
  BY <1>3, Sizes
<1> QED BY <1>1, <1>2, <1>4

(* At most one frame of each display is on its way to a connection, and one  *)
(* for each wait that ended early.                                          *)
THEOREM BacklogBounded == Spec => []Backpressure
<1>1. TypeOK /\ BacklogInv => Backpressure
  <2> SUFFICES ASSUME TypeOK, BacklogInv, NEW c \in Conns, slack < MaxSlack, conn[c] = "open"
               PROVE  InFlight(c) <= Cardinality(Displays) + slack
    BY DEF Backpressure
  <2>1. Unanswered(c) \in SUBSET Displays
    BY DEF Unanswered
  <2> DEFINE A == Cardinality(Unanswered(c))
  <2>2. A \in Nat /\ Cardinality(Displays) \in Nat /\ A <= Cardinality(Displays)
    BY <2>1, Sizes
  <2>3. InFlight(c) \in Nat /\ slack \in Nat
    BY InFlightIs
  <2>4. InFlight(c) <= A + slack
    BY DEF BacklogInv
  <2> HIDE DEF A
  <2> QED BY <2>2, <2>3, <2>4
<1>2. TypeOK /\ TypeOK' /\ BacklogInv /\ [Next]_vars => BacklogInv'
  BY BacklogInductive
<1> QED BY <1>1, <1>2, InitBacklog, TypeCorrect, PTL DEF Spec
-----------------------------------------------------------------------------
(* Waits that are given up *)

(* A worker counts what it has sent and what was fetched, so both are sets   *)
(* of a size, however many connections there may be in all.                 *)
FiniteInv ==
    \A d \in Displays :
        /\ IsFiniteSet(svc[d].subscribes) /\ IsFiniteSet(svc[d].new_subscribes)
        /\ IsFiniteSet(sent[d]) /\ IsFiniteSet(fetched[d])

(* Nothing is sent before the frame, and a wait that goes on lacks answers. *)
WaitInv ==
    \A d \in Displays :
        /\ pc[d] \in {"frame", "snapshot", "callback", "swap", "encode"} => sent[d] = {}
        /\ pc[d] = "wait" =>
              fetched[d] = {} \/ Cardinality(fetched[d]) < Cardinality(sent[d])
        /\ pc[d] = "recv" => Cardinality(fetched[d]) < Cardinality(sent[d])

Has(s, c) == \E i \in DOMAIN s : s[i] = c

(* A receiver that is still there has the frame before it, or its answer is *)
(* on its way or counted; a wait that goes on has rounds left.              *)
AnswerInv ==
    \A d \in Displays : pc[d] \in {"wait", "recv"} =>
        /\ rounds[d] < MaxRounds
        /\ \A c \in sent[d] : conn[c] = "open" =>
              c \in fetched[d] \/ queue[c] # <<>> \/ Has(notifier, c)

LEMMA HasLemma ==
    ASSUME NEW s \in Seq(Conns), NEW c \in Conns
    PROVE  /\ \A x \in Conns : Has(s, c) \/ x = c => Has(Append(s, x), c)
           /\ s # <<>> /\ Has(s, c) => Head(s) = c \/ Has(Tail(s), c)
<1>1. ASSUME NEW x \in Conns, Has(s, c) \/ x = c
      PROVE  Has(Append(s, x), c)
  <2>1. CASE x = c
    <3>1. Len(s) + 1 \in DOMAIN Append(s, x) /\ Append(s, x)[Len(s) + 1] = c
      BY <2>1
    <3> QED BY <3>1 DEF Has
  <2>2. CASE Has(s, c)
    <3>1. PICK i \in DOMAIN s : s[i] = c
      BY <2>2 DEF Has
    <3>2. i \in DOMAIN Append(s, x) /\ Append(s, x)[i] = c
      BY <3>1
    <3> QED BY <3>2 DEF Has
  <2> QED BY <1>1, <2>1, <2>2
<1>2. ASSUME s # <<>>, Has(s, c), Head(s) # c
      PROVE  Has(Tail(s), c)
  <2>1. PICK i \in DOMAIN s : s[i] = c
    BY <1>2 DEF Has
  <2>2. i # 1
    BY <1>2, <2>1
  <2>3. i - 1 \in DOMAIN Tail(s) /\ Tail(s)[i - 1] = c
    BY <1>2, <2>1, <2>2
  <2> QED BY <2>3 DEF Has
<1> QED BY <1>1, <1>2

(* What is in flight is in the queue or among the answers. *)
LEMMA InFlightHas ==
    ASSUME TypeOK, NEW c \in Conns, queue[c] = <<>>, ~Has(notifier, c)
    PROVE  InFlight(c) = 0
<1>1. {i \in DOMAIN notifier : notifier[i] = c} = {}
  BY DEF Has
<1>2. Len(queue[c]) = 0
  OBVIOUS
<1> QED BY <1>1, <1>2, FS_EmptySet DEF InFlight

LEMMA FiniteInductive ==
    ASSUME TypeOK, FiniteInv, [Next]_vars
    PROVE  FiniteInv'
<1> USE DEF FiniteInv
<1>1. ASSUME NEW c \in Conns, Conn(c) PROVE FiniteInv'
  <2>0. \A d \in Displays : svc[d] \in Inner(Conns)
    BY DEF TypeOK
  <2>1. ASSUME NEW d \in Displays, Subscribe(c, d)
        PROVE  FiniteInv'
    <3>1. IsFiniteSet(svc[d].new_subscribes \cup {c})
      BY FS_AddElement
    <3>2. /\ svc'[d].subscribes = svc[d].subscribes
          /\ svc'[d].new_subscribes \in {svc[d].new_subscribes, svc[d].new_subscribes \cup {c}}
          /\ \A e \in Displays : e # d => svc'[e] = svc[e]
      BY <2>0, <2>1 DEF Subscribe, OnSubscribe, TypeOK, Inner
    <3> QED BY <2>1, <3>1, <3>2 DEF Subscribe, waiting
  <2>2. ASSUME NEW D \in SUBSET Displays, Leave(c, D), UNCHANGED waiting
        PROVE  FiniteInv'
    <3>1. ASSUME NEW d \in Displays
          PROVE  /\ svc'[d].subscribes \in SUBSET svc[d].subscribes
                 /\ svc'[d].new_subscribes \in SUBSET svc[d].new_subscribes
      BY <2>0, <2>2 DEF Leave, OnUnsubscribe, Inner
    <3>2. ASSUME NEW d \in Displays
          PROVE  IsFiniteSet(svc'[d].subscribes) /\ IsFiniteSet(svc'[d].new_subscribes)
      BY <3>1, FS_Subset
    <3> QED BY <2>2, <3>2 DEF waiting
  <2>3. CASE Fetch(c) \/ NotifyClose(c)
    BY <2>3 DEF Fetch, Answer, NotifyClose, services, waiting
  <2>4. ASSUME NEW d \in Displays, Unsubscribe(c, d)
        PROVE  FiniteInv'
    <3>1. {d} \in SUBSET Displays
      OBVIOUS
    <3> QED BY <2>2, <2>4, <3>1 DEF Unsubscribe
  <2>5. CASE RemoveConnection(c)
    BY <2>2, <2>5 DEF RemoveConnection
  <2> QED BY <1>1, <2>1, <2>3, <2>4, <2>5 DEF Conn
<1>2. ASSUME NEW d \in Displays, Work(d) \/ Switch(d)
      PROVE  FiniteInv'
  <2>1. CASE Enter(d) \/ Switch(d) \/ Snapshot(d) \/ SnapshotCallback(d) \/ TryWaitNext(d)
             \/ ReceiveTimeout(d) \/ Pace(d)
    BY <2>1 DEF Enter, Switch, Snapshot, SnapshotCallback, TryWaitNext, ReceiveTimeout, Pace,
                services, waiting
  <2>2. CASE CheckOk(d) \/ Capture(d) \/ EncodeFails(d)
    <3>1. /\ svc' = svc
          /\ \A e \in Displays : sent'[e] \in {sent[e], {}} /\ fetched'[e] \in {fetched[e], {}}
      BY <2>2 DEF CheckOk, Capture, EncodeFails, BeginWait, services, TypeOK
    <3> QED BY <3>1, FS_EmptySet
  <2>3. CASE Swap(d)
    <3>1. IsFiniteSet(svc[d].subscribes \cup svc[d].new_subscribes)
      BY FS_Union
    <3>2. /\ svc'[d].subscribes = svc[d].subscribes \cup svc[d].new_subscribes
          /\ svc'[d].new_subscribes = {}
          /\ \A e \in Displays : e # d => svc'[e] = svc[e]
          /\ UNCHANGED <<sent, fetched>>
      BY <2>3 DEF Swap, SwapNewSubscribes, TypeOK, Inner, waiting
    <3> QED BY <3>1, <3>2, FS_EmptySet
  <2>4. CASE SendFrame(d)
    <3>1. /\ svc' = svc /\ sent'[d] = svc[d].subscribes
          /\ \A e \in Displays : e # d => sent'[e] = sent[e]
          /\ \A e \in Displays : fetched'[e] \in {fetched[e], {}}
      BY <2>4 DEF SendFrame, BeginWait, TypeOK
    <3> QED BY <3>1, FS_EmptySet
  <2>5. CASE Receive(d)
    <3>1. /\ svc' = svc /\ sent' = sent /\ fetched'[d] = fetched[d] \cup {Head(notifier)}
          /\ \A e \in Displays : e # d => fetched'[e] = fetched[e]
      BY <2>5 DEF Receive, services, TypeOK
    <3>2. IsFiniteSet(fetched[d] \cup {Head(notifier)})
      BY FS_AddElement
    <3> QED BY <3>1, <3>2
  <2> QED BY <1>2, <2>1, <2>2, <2>3, <2>4, <2>5 DEF Work
<1>3. CASE UNCHANGED vars \/ Quiet
  BY <1>3 DEF vars, Quiet
<1> QED BY <1>1, <1>2, <1>3 DEF Next

(* The sizes that are compared are numbers. *)
LEMMA SizesOfWait ==
    ASSUME FiniteInv, NEW d \in Displays
    PROVE  /\ Cardinality(sent[d]) \in Nat /\ Cardinality(fetched[d]) \in Nat
           /\ Cardinality({}) = 0 /\ (sent[d] # {} => Cardinality(sent[d]) > 0)
           /\ Cardinality(fetched[d]) < Cardinality(sent[d]) => sent[d] \ fetched[d] # {}
<1>1. IsFiniteSet(sent[d]) /\ IsFiniteSet(fetched[d])
  BY DEF FiniteInv
<1>2. Cardinality(sent[d]) \in Nat /\ Cardinality(fetched[d]) \in Nat
  BY <1>1, FS_CardinalityType
<1>3. Cardinality({}) = 0 /\ (Cardinality(sent[d]) = 0 <=> sent[d] = {})
  BY <1>1, FS_EmptySet
<1>4. sent[d] \in SUBSET fetched[d] => Cardinality(sent[d]) <= Cardinality(fetched[d])
  BY <1>1, FS_Subset
<1> QED BY <1>2, <1>3, <1>4

LEMMA WaitInductive ==
    ASSUME TypeOK, FiniteInv, FiniteInv', WaitInv, [Next]_vars
    PROVE  WaitInv'
<1> USE DEF WaitInv
<1>1. ASSUME NEW c \in Conns, Conn(c) PROVE WaitInv'
  <2>1. UNCHANGED <<pc, sent, fetched>>
    BY <1>1 DEF Conn, Subscribe, Unsubscribe, Fetch, Answer, NotifyClose, RemoveConnection,
                waiting
  <2> QED BY <2>1
<1>2. ASSUME NEW d \in Displays, Work(d) \/ Switch(d)
      PROVE  WaitInv'
  <2>1. \A e \in Displays : e # d =>
            pc'[e] = pc[e] /\ sent'[e] = sent[e] /\ fetched'[e] = fetched[e]
    BY <1>2 DEF Work, Enter, CheckOk, Switch, Capture, Snapshot, SnapshotCallback, Swap,
                SendFrame, EncodeFails, TryWaitNext, Receive, ReceiveTimeout, Pace,
                BeginWait, Goto, waiting, TypeOK
  <2>2. CASE Enter(d) \/ CheckOk(d) \/ Switch(d) \/ Snapshot(d) \/ SnapshotCallback(d)
             \/ Swap(d) \/ Pace(d)
    <3>1. /\ pc'[d] \notin {"wait", "recv"}
          /\ pc'[d] \in {"frame", "snapshot", "callback", "swap", "encode"} =>
                 sent'[d] = {}
      BY <2>2 DEF Enter, CheckOk, Switch, Snapshot, SnapshotCallback, Swap, Pace,
                  Goto, waiting, TypeOK
    <3> QED BY <2>1, <3>1
  <2>3. CASE Capture(d) \/ EncodeFails(d) \/ SendFrame(d)
    <3>1. \/ pc'[d] = "wait" /\ fetched'[d] = {}
          \/ pc'[d] = "snapshot" /\ sent'[d] = {}
          \/ pc'[d] = "idle"
      BY <2>3 DEF Capture, EncodeFails, SendFrame, BeginWait, Goto, TypeOK
    <3> QED BY <2>1, <3>1
  <2>4. CASE TryWaitNext(d)
    <3>1. /\ pc[d] = "wait" /\ UNCHANGED <<sent, fetched>>
          /\ pc'[d] = "received" \/ (pc'[d] = "recv" /\ sent[d] # {})
      BY <2>4 DEF TryWaitNext, Goto, waiting, TypeOK
    <3>2. sent[d] # {} => Cardinality(fetched[d]) < Cardinality(sent[d])
      BY <3>1, SizesOfWait
    <3> QED BY <2>1, <3>1, <3>2
  <2>5. CASE Receive(d)
    <3>1. /\ pc'[d] \in {"received", "gave_up", "wait"}
          /\ pc'[d] = "wait" => ~(Cardinality(fetched'[d]) >= Cardinality(sent'[d]))
      BY <2>5 DEF Receive, Goto, TypeOK
    <3>2. Cardinality(fetched'[d]) \in Nat /\ Cardinality(sent'[d]) \in Nat
      BY FS_CardinalityType DEF FiniteInv
    <3> QED BY <2>1, <3>1, <3>2
  <2>6. CASE ReceiveTimeout(d)
    <3>1. /\ pc[d] = "recv" /\ pc'[d] \in {"gave_up", "wait"} /\ UNCHANGED <<sent, fetched>>
      BY <2>6 DEF ReceiveTimeout, Goto, TypeOK
    <3> QED BY <2>1, <3>1
  <2> QED BY <1>2, <2>2, <2>3, <2>4, <2>5, <2>6 DEF Work
<1>3. CASE UNCHANGED vars \/ Quiet
  BY <1>3 DEF vars, Quiet
<1> QED BY <1>1, <1>2, <1>3 DEF Next

-----------------------------------------------------------------------------
(* One display: nobody else takes the answers that its worker waits for. *)

LEMMA ConnAnswers ==
    ASSUME TypeOK, TypeOK', AnswerInv, NEW b \in Conns, Conn(b)
    PROVE  AnswerInv'
<1> SUFFICES ASSUME NEW d \in Displays, pc'[d] \in {"wait", "recv"}
             PROVE  /\ rounds'[d] < MaxRounds
                    /\ \A c \in sent'[d] : conn'[c] = "open" =>
                          c \in fetched'[d] \/ queue'[c] # <<>> \/ Has(notifier', c)
  BY DEF AnswerInv, Has
<1>1. UNCHANGED <<pc, sent, fetched, rounds>>
  BY DEF Conn, Subscribe, Unsubscribe, Fetch, Answer, NotifyClose, RemoveConnection, waiting
<1>2. ASSUME NEW c \in sent[d], conn'[c] = "open",
             c \in fetched[d] \/ queue[c] # <<>> \/ Has(notifier, c)
      PROVE  c \in fetched[d] \/ queue'[c] # <<>> \/ Has(notifier', c)
  <2>0. c \in Conns /\ notifier \in Seq(Conns)
    BY DEF TypeOK
  <2>1. CASE \E e \in Displays : Subscribe(b, e) \/ Unsubscribe(b, e)
    BY <1>2, <2>1 DEF Subscribe, Unsubscribe
  <2>2. CASE Fetch(b)
    <3>1. notifier' = Append(notifier, b)
      BY <2>2, OneAnswer DEF Fetch, Answer, TypeOK
    <3>2. Has(notifier, c) \/ b = c => Has(notifier', c)
      BY <2>0, <3>1, HasLemma
    <3>3. b # c => queue'[c] = queue[c]
      BY <2>2 DEF Fetch, Answer, TypeOK
    <3> QED BY <1>2, <3>2, <3>3
  <2>3. CASE NotifyClose(b)
    <3>1. notifier' = Append(notifier, b) /\ queue' = queue
      BY <2>3 DEF NotifyClose
    <3>2. Has(notifier, c) => Has(notifier', c)
      BY <2>0, <3>1, HasLemma
    <3> QED BY <1>2, <3>1, <3>2
  <2>4. CASE RemoveConnection(b)
    <3>1. b # c /\ notifier' = notifier /\ queue'[c] = queue[c]
      BY <1>2, <2>0, <2>4 DEF RemoveConnection, TypeOK
    <3> QED BY <1>2, <3>1
  <2> QED BY <2>1, <2>2, <2>3, <2>4 DEF Conn
<1>3. \A c \in sent[d] : conn'[c] = "open" => conn[c] = "open"
  BY DEF Conn, Subscribe, Unsubscribe, Fetch, Answer, NotifyClose, RemoveConnection, TypeOK
<1> QED BY <1>1, <1>2, <1>3 DEF AnswerInv

LEMMA WorkAnswers ==
    ASSUME TypeOK, TypeOK', WaitInv, AnswerInv,
           NEW d, Displays = {d}, Work(d) \/ Switch(d)
    PROVE  AnswerInv'
<1> SUFFICES ASSUME pc'[d] \in {"wait", "recv"}
             PROVE  /\ rounds'[d] < MaxRounds
                    /\ \A c \in sent'[d] : conn'[c] = "open" =>
                          c \in fetched'[d] \/ queue'[c] # <<>> \/ Has(notifier', c)
  BY DEF AnswerInv, Has
<1>0. 0 < MaxRounds /\ rounds[d] \in 0..MaxRounds
  BY BoundsAssumption DEF TypeOK
<1>1. CASE Capture(d) \/ EncodeFails(d)
  <2>1. rounds'[d] = 0 /\ sent'[d] = {}
    BY <1>1 DEF Capture, EncodeFails, BeginWait, Goto, TypeOK, WaitInv
  <2> QED BY <1>0, <2>1
<1>2. CASE SendFrame(d)
  <2>1. /\ rounds'[d] = 0 /\ sent'[d] = svc[d].subscribes /\ UNCHANGED <<notifier, conn>>
        /\ \A c \in Conns : queue'[c] =
              IF c \in svc[d].subscribes /\ InFlight(c) < MaxQueue
              THEN Append(queue[c], d) ELSE queue[c]
    BY <1>2 DEF SendFrame, BeginWait, TypeOK
  <2>2. MaxQueue \in Nat /\ MaxQueue > 0
    <3>1. Cardinality(Displays) = 1
      BY FS_Singleton
    <3> QED BY <3>1, BoundsAssumption DEF MaxQueue
  <2>3. ASSUME NEW c \in svc[d].subscribes, c \in Conns
        PROVE  queue'[c] # <<>> \/ Has(notifier, c)
    <3>1. CASE InFlight(c) < MaxQueue
      <4>1. queue'[c] = Append(queue[c], d) /\ queue[c] \in Seq(Displays)
        BY <2>1, <2>3, <3>1 DEF TypeOK
      <4> QED BY <4>1
    <3>2. CASE ~(InFlight(c) < MaxQueue)
      <4>1. InFlight(c) # 0
        BY <2>2, <3>2
      <4> QED BY <2>1, <2>3, <3>2, <4>1, InFlightHas
    <3> QED BY <3>1, <3>2
  <2>4. svc[d].subscribes \subseteq Conns
    BY DEF TypeOK, Inner
  <2> QED BY <1>0, <2>1, <2>3, <2>4
<1>3. CASE TryWaitNext(d)
  <2>1. pc[d] = "wait" /\ UNCHANGED <<sent, fetched, rounds, notifier, conn, queue>>
    BY <1>3 DEF TryWaitNext, waiting
  <2> QED BY <2>1 DEF AnswerInv
<1>4. CASE Receive(d)
  <2>1. /\ pc[d] = "recv" /\ notifier # <<>> /\ notifier' = Tail(notifier)
        /\ fetched'[d] = fetched[d] \cup {Head(notifier)}
        /\ UNCHANGED <<sent, conn, queue>>
    BY <1>4 DEF Receive, TypeOK
  <2>2. ASSUME NEW c \in sent[d], Has(notifier, c)
        PROVE  c \in fetched'[d] \/ Has(notifier', c)
    <3>1. c \in Conns /\ notifier \in Seq(Conns)
      BY DEF TypeOK
    <3> QED BY <2>1, <2>2, <3>1, HasLemma
  <2>3. rounds'[d] < MaxRounds
    <3>1. pc'[d] = "wait" /\ ~(rounds'[d] >= MaxRounds)
      BY <1>4 DEF Receive, Goto, TypeOK
    <3> QED BY <3>1, BoundsAssumption DEF TypeOK
  <2> QED BY <2>1, <2>2, <2>3 DEF AnswerInv
<1>5. CASE ReceiveTimeout(d)
  <2>1. /\ pc[d] = "recv" /\ UNCHANGED <<sent, fetched, notifier, conn, queue>>
        /\ rounds'[d] # MaxRounds
    BY <1>5 DEF ReceiveTimeout, Goto, TypeOK
  <2>2. rounds'[d] < MaxRounds
    BY <2>1, BoundsAssumption DEF TypeOK
  <2> QED BY <2>1, <2>2 DEF AnswerInv
<1>6. CASE Enter(d) \/ CheckOk(d) \/ Switch(d) \/ Snapshot(d) \/ SnapshotCallback(d)
           \/ Swap(d) \/ Pace(d)
  BY <1>6 DEF Enter, CheckOk, Switch, Snapshot, SnapshotCallback, Swap, Pace, Goto, TypeOK
<1> QED BY <1>1, <1>2, <1>3, <1>4, <1>5, <1>6 DEF Work

LEMMA AnswersInductive ==
    ASSUME TypeOK, TypeOK', WaitInv, AnswerInv, NEW d, Displays = {d}, [Next]_vars
    PROVE  AnswerInv'
<1>1. CASE UNCHANGED vars \/ Quiet
  BY <1>1 DEF AnswerInv, Has, vars, Quiet
<1> QED BY <1>1, ConnAnswers, WorkAnswers DEF Next

(* A wait is given up on somebody whose answer was not taken yet, and that  *)
(* answer is where AnswerInv says.                                          *)
LEMMA GivesUpStep ==
    ASSUME TypeOK, TypeOK', FiniteInv, FiniteInv', WaitInv, AnswerInv,
           NEW d, Displays = {d}, [Next]_vars,
           pc[d] # "gave_up", pc'[d] = "gave_up"
    PROVE  \E c \in sent[d] \ fetched'[d] :
               Contains(queue[c], d) \/ conn[c] # "open" \/ Contains(notifier', c)
<1>1. Receive(d) \/ ReceiveTimeout(d)
  <2>1. CASE \E c \in Conns : Conn(c)
    BY <2>1 DEF Conn, Subscribe, Unsubscribe, Fetch, Answer, NotifyClose, RemoveConnection
  <2>2. CASE UNCHANGED vars \/ Quiet
    BY <2>2 DEF vars, Quiet
  <2>3. CASE Work(d) \/ Switch(d)
    BY <2>3 DEF Work, Enter, CheckOk, Switch, Capture, Snapshot, SnapshotCallback, Swap,
                SendFrame, EncodeFails, TryWaitNext, Pace, BeginWait, Goto, TypeOK
  <2> QED BY <2>1, <2>2, <2>3 DEF Next
<1>2. pc[d] = "recv" /\ sent' = sent
  BY <1>1 DEF Receive, ReceiveTimeout
<1>3. Cardinality(fetched'[d]) < Cardinality(sent'[d])
  <2>1. CASE Receive(d)
    <3>1. ~(Cardinality(fetched'[d]) >= Cardinality(sent[d]))
      BY <2>1 DEF Receive, Goto, TypeOK
    <3>2. Cardinality(fetched'[d]) \in Nat /\ Cardinality(sent'[d]) \in Nat
      BY FS_CardinalityType DEF FiniteInv
    <3> QED BY <1>2, <3>1, <3>2
  <2>2. CASE ReceiveTimeout(d)
    BY <1>2, <2>2 DEF ReceiveTimeout, WaitInv
  <2> QED BY <1>1, <2>1, <2>2
<1>4. PICK c \in sent[d] : c \notin fetched'[d]
  <2>1. IsFiniteSet(sent'[d]) /\ IsFiniteSet(fetched'[d])
    BY DEF FiniteInv
  <2>2. sent'[d] \in SUBSET fetched'[d] => Cardinality(sent'[d]) <= Cardinality(fetched'[d])
    BY <2>1, FS_Subset
  <2>3. Cardinality(fetched'[d]) \in Nat /\ Cardinality(sent'[d]) \in Nat
    BY <2>1, FS_CardinalityType
  <2> QED BY <1>2, <1>3, <2>2, <2>3
<1>5. c \in Conns /\ notifier \in Seq(Conns) /\ queue[c] \in Seq({d})
  BY <1>4 DEF TypeOK
<1>6. conn[c] # "open" \/ queue[c] # <<>> \/ (c \notin fetched[d] /\ Has(notifier, c))
  <2>1. c \notin fetched[d]
    BY <1>1, <1>4 DEF Receive, ReceiveTimeout, TypeOK
  <2> QED BY <1>2, <1>4, <2>1 DEF AnswerInv
<1>7. queue[c] # <<>> => Contains(queue[c], d)
  BY <1>5 DEF Contains
<1>8. Has(notifier, c) => Contains(notifier', c)
  <2>1. CASE Receive(d)
    <3>1. notifier # <<>> /\ notifier' = Tail(notifier) /\ Head(notifier) \in fetched'[d]
      BY <2>1 DEF Receive, TypeOK
    <3>2. Has(notifier, c) => Has(Tail(notifier), c)
      BY <1>4, <1>5, <3>1, HasLemma
    <3> QED BY <3>1, <3>2 DEF Has, Contains
  <2>2. CASE ReceiveTimeout(d)
    BY <2>2 DEF ReceiveTimeout, Has
  <2> QED BY <1>1, <2>1, <2>2
<1> QED BY <1>4, <1>6, <1>7, <1>8

LEMMA InitWaits == Init => FiniteInv /\ WaitInv /\ AnswerInv
<1> SUFFICES ASSUME Init, NEW d \in Displays
             PROVE  /\ svc[d].subscribes = {} /\ svc[d].new_subscribes = {}
                    /\ sent[d] = {} /\ fetched[d] = {} /\ pc[d] = "idle"
  BY FS_EmptySet DEF FiniteInv, WaitInv, AnswerInv
<1> QED BY DEF Init, NewService

(* With one display, no answer of a wait is lost: it is given up only on a   *)
(* receiver that has not fetched the frame or has ended, or whose answer is *)
(* still to be taken.                                                       *)
THEOREM GaveUpOnMissing ==
    ASSUME NEW only, Displays = {only}
    PROVE  Spec => GivesUpOnMissing
<1> DEFINE MissingOne ==
              \A d \in Displays : pc[d] # "gave_up" /\ pc'[d] = "gave_up" =>
                 \E c \in sent[d] \ fetched'[d] :
                    Contains(queue[c], d) \/ conn[c] # "open" \/ Contains(notifier', c)
<1>1. TypeOK /\ TypeOK' /\ (FiniteInv /\ WaitInv /\ AnswerInv) /\ [Next]_vars
        => (FiniteInv /\ WaitInv /\ AnswerInv)'
  BY FiniteInductive, WaitInductive, AnswersInductive
<1>2. ASSUME TypeOK, TypeOK', FiniteInv, FiniteInv', WaitInv, AnswerInv, [Next]_vars
      PROVE  MissingOne
  <2>1. ASSUME NEW d \in Displays, pc[d] # "gave_up", pc'[d] = "gave_up"
        PROVE  \E c \in sent[d] \ fetched'[d] :
                  Contains(queue[c], d) \/ conn[c] # "open" \/ Contains(notifier', c)
    <3>1. Displays = {d}
      OBVIOUS
    <3> QED BY <1>2, <2>1, <3>1, GivesUpStep
  <2> QED BY <2>1
<1> QED BY <1>1, <1>2, InitWaits, TypeCorrect, PTL DEF Spec, GivesUpOnMissing
=============================================================================
