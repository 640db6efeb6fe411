---------------------------- MODULE PrivacyProofs ----------------------------
(***************************************************************************)
(* Proofs about PrivacyMode, for any set of connections and both kinds of   *)
(* driver: the mode has at most one owner, which never outlives its         *)
(* connection but for a late thread, the magnifier's mode never is on       *)
(* without its hook, and a peer is told of the loss of a mode unless it is  *)
(* one of the losses that nobody is told of.                                *)
(***************************************************************************)
EXTENDS PrivacyMode, TLAPS

Blocked(m) == m.owner # None /\ m.impl = Topmost => m.hook = "set"

(* A connection asks only while it is open, has threads only after its      *)
(* login, and at most one of them that it waits for.                        *)
RequestInv ==
    /\ \A c \in Conns : phase[c] # "idle" => conn[c] = "open"
    /\ \A j \in jobs : conn[j.conn] # "new" /\ (~j.late => phase[j.conn] = "wait")
    /\ \A i, j \in jobs : i.conn = j.conn /\ ~i.late /\ ~j.late => i = j

(* The owner has logged in and is not closed, but for the late thread.      *)
OwnerInv ==
    mode.owner \in Conns =>
        /\ conn[mode.owner] # "new"
        /\ conn[mode.owner] = "closed" => mode.owner \in stuck

IInv == TypeOK /\ RequestInv /\ OwnerInv /\ Blocked(mode)

Results == {"ok", "no_plugin", "err"}

(* Turning off leaves the mode well formed, without an owner.               *)
LEMMA OffFrees ==
    ASSUME NEW m \in Modes
    PROVE  Off(m) \in Modes /\ Off(m).owner = None /\ Off(m).impl = m.impl
BY DEF Off, Modes

(* In whoever's name: the mode is off afterwards or as it was, and it is    *)
(* off if it was the caller's.                                              *)
LEMMA TurnOffOutcome ==
    ASSUME NEW m \in Modes, NEW by \in Conns \cup {None}
    PROVE  /\ TurnOff(m, by) \in Modes
           /\ TurnOff(m, by) = m \/ TurnOff(m, by).owner = None
           /\ by = None \/ m.owner = by => TurnOff(m, by).owner = None
BY OffFrees DEF TurnOff, MayTurnOff

(* A new implementation comes without an owner.                             *)
LEMMA ReplaceFrees ==
    ASSUME NEW m \in Modes, NEW impl \in Impls
    PROVE  /\ Replace(m, impl) \in Modes
           /\ Replace(m, impl) = m \/ Replace(m, impl).owner = None
           /\ m.impl # impl => Replace(m, impl).owner = None
<1>1. CASE m.impl = impl
  BY <1>1 DEF Replace
<1>2. CASE m.impl # impl
  BY <1>2, OffFrees DEF Replace, Modes
<1> QED BY <1>1, <1>2

(* An implementation that is off is on for the caller afterwards, or off.   *)
LEMMA StartOutcome ==
    ASSUME NEW m \in Modes, m.owner = None, NEW c \in Conns, NEW out \in Start(m, c)
    PROVE  /\ out[1] \in Results
           /\ out[2] \in Modes
           /\ out[2].owner \in {None, c}
           /\ Blocked(out[2])
<1>1. CASE out = <<"err", m>> \/ out = <<"no_plugin", m>>
  BY <1>1 DEF Results, Blocked
<1>2. ASSUME NEW n \in Settled(m), out = Hooked(n, c)
      PROVE  /\ out[1] \in Results
             /\ out[2] \in Modes
             /\ out[2].owner \in {None, c}
             /\ Blocked(out[2])
  <2>1. n \in Modes /\ n.owner = None /\ n.impl = m.impl
    BY <1>2 DEF Settled, Modes
  <2>2. CASE n.hook = "none"
    <3>1. out = <<"ok", [n EXCEPT !.owner = c, !.hook = "set"]>>
      BY <1>2, <2>2 DEF Hooked
    <3> QED BY <2>1, <3>1 DEF Results, Modes, Blocked
  <2>3. CASE n.hook # "none" /\ n.impl = Virtual
    <3>1. out = <<"ok", [n EXCEPT !.owner = c]>>
      BY <1>2, <2>3 DEF Hooked
    <3> QED BY <2>1, <2>3, <3>1 DEF Results, Modes, Blocked, Virtual, Topmost
  <2>4. CASE n.hook # "none" /\ n.impl # Virtual
    <3>1. out = <<"err", n>>
      BY <1>2, <2>4 DEF Hooked
    <3> QED BY <2>1, <3>1 DEF Results, Blocked
  <2> QED BY <2>2, <2>3, <2>4
<1> QED BY <1>1, <1>2 DEF Start

(* turn_on_privacy_sync leaves somebody else's mode alone; otherwise the     *)
(* mode is off afterwards or belongs to the caller.                         *)
LEMMA TurnOnOutcome ==
    ASSUME NEW m \in Modes, Blocked(m), NEW c \in Conns, NEW impl \in Impls,
           NEW out \in TurnOn(m, c, impl)
    PROVE  /\ out[1] \in Results
           /\ out[2] \in Modes
           /\ out[2].owner \in {None, c} \/ out[2] = m
           /\ m.owner \notin {None, c} => out[2] = m
           /\ Blocked(out[2])
<1>1. CASE m.owner = c /\ m.impl = impl
  <2>1. out = <<"ok", m>>
    BY <1>1 DEF TurnOn
  <2> QED BY <2>1, <1>1 DEF Results
<1>2. CASE m.owner \notin {c, None}
  <2>1. out = <<"err", m>>
    BY <1>2 DEF TurnOn
  <2> QED BY <2>1 DEF Results
<1>3. CASE m.owner \in {c, None} /\ ~(m.owner = c /\ m.impl = impl)
  <2>1. out \in Start(Replace(m, impl), c)
    BY <1>3 DEF TurnOn
  <2>2. Replace(m, impl) \in Modes /\ Replace(m, impl).owner = None
    BY <1>3, ReplaceFrees
  <2> QED BY <1>3, <2>1, <2>2, StartOutcome
<1> QED BY <1>1, <1>2, <1>3

LEMMA InitIInv == Init => IInv
<1> SUFFICES ASSUME Init PROVE IInv
  OBVIOUS
<1>1. mode \in Modes /\ mode.owner = None
  BY DEF Init, Modes
<1>2. TypeOK
  BY <1>1 DEF Init, TypeOK, Impls, Jobs
<1>3. RequestInv
  BY DEF Init, RequestInv
<1> QED BY <1>1, <1>2, <1>3, NoneAssumption DEF IInv, OwnerInv, Blocked

LEMMA NextIInv == IInv /\ [Next]_vars => IInv'
<1> SUFFICES ASSUME IInv, [Next]_vars PROVE IInv'
  OBVIOUS
<1> USE DEF IInv
<1>a. mode \in Modes /\ mode.owner \in Conns \cup {None}
  BY DEF TypeOK, Modes
<1>j. \A j \in jobs : j.conn \in Conns /\ j.impl \in Impls /\ j.late \in BOOLEAN
  BY DEF TypeOK, Jobs
<1>b. Impls = {Topmost, Virtual} /\ Topmost \in Impls /\ Virtual \in Impls
  BY DEF Impls
(* What changes the mode by turning it off, or leaves it.                   *)
<1>o. ASSUME mode' \in Modes, mode' = mode \/ mode'.owner = None,
             UNCHANGED <<conn, stuck>>
      PROVE  OwnerInv' /\ Blocked(mode')
  BY <1>o, NoneAssumption DEF OwnerInv, Blocked
<1>1. ASSUME NEW c \in Conns, Login(c) PROVE IInv'
  <2>1. TypeOK'
    BY <1>1 DEF Login, TypeOK
  <2>2. RequestInv'
    BY <1>1 DEF Login, RequestInv, TypeOK, Jobs
  <2>3. OwnerInv' /\ Blocked(mode)'
    BY <1>1, <1>a DEF Login, OwnerInv, Blocked, TypeOK
  <2> QED BY <2>1, <2>2, <2>3
<1>2. ASSUME NEW c \in Conns, NEW impl \in Impls, Request(c, impl) PROVE IInv'
  <2>0. [conn |-> c, impl |-> impl, late |-> FALSE] \in Jobs
    BY DEF Jobs
  <2>1. TypeOK'
    BY <1>2, <2>0 DEF Request, AtRest, TypeOK
  <2>2. CASE jobs' = jobs
    <3>1. RequestInv'
      BY <1>2, <1>j, <2>2 DEF Request, AtRest, RequestInv, TypeOK
    <3> QED BY <1>2, <1>a, <1>o, <2>1, <3>1 DEF Request
  <2>3. CASE jobs' = jobs \cup {[conn |-> c, impl |-> impl, late |-> FALSE]}
    <3>1. /\ conn[c] = "open" /\ phase[c] = "idle" /\ conn' = conn
          /\ phase' = [phase EXCEPT ![c] = "wait"] \/ phase' = [phase EXCEPT ![c] = "sync"]
      BY <1>2 DEF Request, AtRest
    <3>2. phase' = [phase EXCEPT ![c] = "wait"] \/ jobs' = jobs
      BY <1>2 DEF Request
    <3>3. \A j \in jobs : j.conn = c => j.late
      BY <1>j, <3>1 DEF RequestInv
    <3>4. CASE phase' = [phase EXCEPT ![c] = "wait"]
      <4>1. \A d \in Conns : phase'[d] # "idle" => conn'[d] = "open"
        BY <3>1, <3>4 DEF RequestInv, TypeOK
      <4>2. \A j \in jobs' : conn'[j.conn] # "new" /\ (~j.late => phase'[j.conn] = "wait")
        BY <1>j, <2>3, <3>1, <3>4 DEF RequestInv, TypeOK
      <4>3. \A i, j \in jobs' : i.conn = j.conn /\ ~i.late /\ ~j.late => i = j
        <5> SUFFICES ASSUME NEW i \in jobs', NEW j \in jobs', i.conn = j.conn,
                            ~i.late, ~j.late
                     PROVE  i = j
          OBVIOUS
        <5> DEFINE new == [conn |-> c, impl |-> impl, late |-> FALSE]
        <5>1. new.conn = c
          OBVIOUS
        <5>2. (i \in jobs \/ i = new) /\ (j \in jobs \/ j = new)
          BY <2>3
        <5> HIDE DEF new
        <5>3. CASE i \in jobs /\ j \in jobs
          BY <5>3 DEF RequestInv
        <5>4. CASE i = new \/ j = new
          BY <3>3, <5>1, <5>2, <5>4
        <5> QED BY <5>2, <5>3, <5>4
      <4>4. RequestInv'
        BY <4>1, <4>2, <4>3 DEF RequestInv
      <4> QED BY <1>2, <1>a, <1>o, <2>1, <4>4 DEF Request
    <3> QED BY <2>2, <3>2, <3>4
  <2> QED BY <1>2, <2>2, <2>3 DEF Request
<1>3. ASSUME NEW c \in Conns, SyncTurnOn(c) PROVE IInv'
  <2>0. PICK out \in TurnOn(mode, c, wanted[c]) :
            phase' = [phase EXCEPT ![c] = out[1]] /\ mode' = out[2]
    BY <1>3 DEF SyncTurnOn
  <2>1. wanted[c] \in Impls /\ conn[c] = "open"
    BY <1>3 DEF SyncTurnOn, TypeOK, RequestInv
  <2>2. /\ out[1] \in Results /\ mode' \in Modes /\ Blocked(mode')
        /\ mode'.owner \in {None, c} \/ mode' = mode
    BY <2>0, <2>1, <1>a, TurnOnOutcome
  <2>3. TypeOK'
    BY <1>3, <2>0, <2>2 DEF SyncTurnOn, TypeOK, Results
  <2>4. RequestInv'
    BY <1>3, <2>0, <2>1 DEF SyncTurnOn, RequestInv, TypeOK
  <2>5. OwnerInv'
    BY <1>3, <2>1, <2>2, NoneAssumption DEF SyncTurnOn, OwnerInv
  <2> QED BY <2>2, <2>3, <2>4, <2>5
<1>4. ASSUME NEW c \in Conns, Timeout(c) PROVE IInv'
  <2>1. /\ jobs' \subseteq Jobs
        /\ \A j \in jobs' : \E i \in jobs :
              (j = i /\ j.conn # c) \/ (j.conn = c /\ i.conn = c /\ j.late)
    <3>1. ASSUME NEW j \in jobs'
          PROVE  /\ j \in Jobs
                 /\ \E i \in jobs : (j = i /\ j.conn # c) \/ (j.conn = c /\ i.conn = c /\ j.late)
      <4>1. PICK i \in jobs : j = IF i.conn = c THEN [i EXCEPT !.late = TRUE] ELSE i
        BY <1>4 DEF Timeout
      <4>2. i \in [conn : Conns, impl : Impls, late : BOOLEAN]
        BY DEF TypeOK, Jobs
      <4>3. CASE i.conn = c
        <5>1. j = [i EXCEPT !.late = TRUE]
          BY <4>1, <4>3
        <5>2. j = [conn |-> i.conn, impl |-> i.impl, late |-> TRUE]
          BY <4>2, <5>1
        <5> QED BY <1>j, <4>3, <5>2 DEF Jobs
      <4>4. CASE i.conn # c
        <5>1. j = i
          BY <4>1, <4>4
        <5> QED BY <4>2, <4>4, <5>1 DEF Jobs
      <4> QED BY <4>3, <4>4
    <3> QED BY <3>1
  <2>2. TypeOK'
    BY <1>4, <2>1 DEF Timeout, TypeOK
  <2>3. RequestInv'
    <3>1. \A d \in Conns : phase'[d] # "idle" => conn'[d] = "open"
      BY <1>4 DEF Timeout, RequestInv, TypeOK
    <3>2. \A j \in jobs' : conn'[j.conn] # "new" /\ (~j.late => phase'[j.conn] = "wait")
      BY <1>4, <1>j, <2>1 DEF Timeout, RequestInv, TypeOK
    <3>3. \A i, j \in jobs' : i.conn = j.conn /\ ~i.late /\ ~j.late => i = j
      BY <1>j, <2>1 DEF RequestInv
    <3> QED BY <3>1, <3>2, <3>3 DEF RequestInv
  <2> QED BY <1>4, <1>a, <1>o, <2>2, <2>3 DEF Timeout
<1>5. ASSUME NEW c \in Conns, Succeeded(c) PROVE IInv'
  <2>1. mode' \in Modes /\ (mode' = mode \/ mode'.owner = None)
    BY <1>5, <1>a, TurnOffOutcome DEF Succeeded
  <2>2. TypeOK'
    BY <1>5, <2>1 DEF Succeeded, Tell, TypeOK
  <2>3. RequestInv'
    <3>1. /\ phase[c] = "ok" /\ phase' = [phase EXCEPT ![c] = "idle"]
          /\ conn' = conn /\ jobs' = jobs
      BY <1>5 DEF Succeeded, Tell
    <3> QED BY <3>1, <1>j DEF RequestInv, TypeOK
  <2> QED BY <1>5, <1>o, <2>1, <2>2, <2>3 DEF Succeeded
<1>6. ASSUME NEW c \in Conns, Failed(c) PROVE IInv'
  <2>1. TypeOK'
    BY <1>6 DEF Failed, Tell, TypeOK
  <2>2. RequestInv'
    BY <1>6 DEF Failed, Tell, RequestInv, TypeOK
  <2> QED BY <1>6, <1>a, <1>o, <2>1, <2>2 DEF Failed
<1>7. ASSUME NEW c \in Conns, SeeOn(c) PROVE IInv'
  <2>1. TypeOK'
    BY <1>7 DEF SeeOn, TypeOK
  <2>2. RequestInv'
    BY <1>7 DEF SeeOn, RequestInv, TypeOK
  <2> QED BY <1>7, <1>a, <1>o, <2>1, <2>2 DEF SeeOn
<1>8. ASSUME NEW c \in Conns, Undo(c) PROVE IInv'
  <2>1. mode' \in Modes /\ (mode' = mode \/ mode'.owner = None)
    BY <1>8, <1>a, TurnOffOutcome DEF Undo
  <2>2. TypeOK'
    BY <1>8, <1>a, <2>1 DEF Undo, Tell, Lost, TypeOK
  <2>3. RequestInv'
    BY <1>8 DEF Undo, Tell, RequestInv, TypeOK
  <2> QED BY <1>8, <1>o, <2>1, <2>2, <2>3 DEF Undo
<1>9. ASSUME NEW c \in Conns, RequestOff(c) \/ HearNotice(c) PROVE IInv'
  <2>1. mode' \in Modes /\ (mode' = mode \/ mode'.owner = None)
    BY <1>9, <1>a, TurnOffOutcome DEF RequestOff, HearNotice
  <2>2. TypeOK'
    BY <1>9, <2>1 DEF RequestOff, HearNotice, TypeOK
  <2>3. RequestInv'
    BY <1>9 DEF RequestOff, HearNotice, RequestInv
  <2> QED BY <1>9, <1>o, <2>1, <2>2, <2>3 DEF RequestOff, HearNotice
<1>10. ASSUME NEW c \in Conns, LoopEnds(c) PROVE IInv'
  <2>1. TypeOK'
    BY <1>10 DEF LoopEnds, TypeOK
  <2>2. RequestInv'
    BY <1>10 DEF LoopEnds, AtRest, RequestInv, TypeOK, Jobs
  <2>3. OwnerInv' /\ Blocked(mode)'
    BY <1>10 DEF LoopEnds, OwnerInv, Blocked, TypeOK
  <2> QED BY <2>1, <2>2, <2>3
<1>11. ASSUME NEW c \in Conns, CloseCheck(c) PROVE IInv'
  <2>1. TypeOK'
    BY <1>11 DEF CloseCheck, TypeOK
  <2>2. RequestInv'
    BY <1>11 DEF CloseCheck, RequestInv, TypeOK, Jobs
  <2>3. OwnerInv' /\ Blocked(mode)'
    BY <1>11 DEF CloseCheck, OwnerInv, Blocked, TypeOK
  <2> QED BY <2>1, <2>2, <2>3
<1>12. ASSUME NEW c \in Conns, CloseOff(c) PROVE IInv'
  <2>1. /\ mode' \in Modes
        /\ mode' = mode \/ mode'.owner = None
        /\ mode.owner = c => mode'.owner = None
    BY <1>12, <1>a, TurnOffOutcome DEF CloseOff
  <2>2. TypeOK'
    BY <1>12, <2>1 DEF CloseOff, TypeOK
  <2>3. RequestInv'
    BY <1>12 DEF CloseOff, RequestInv, TypeOK, Jobs
  <2>4. OwnerInv' /\ Blocked(mode')
    BY <1>12, <2>1, NoneAssumption DEF CloseOff, OwnerInv, Blocked, TypeOK
  <2> QED BY <2>1, <2>2, <2>3, <2>4
<1>13. ASSUME NEW j \in jobs, ThreadTurnOn(j) PROVE IInv'
  <2>0. PICK out \in TurnOn(mode, j.conn, j.impl) :
            /\ mode' = out[2]
            /\ phase' \in IF j.late THEN {phase}
                          ELSE {[phase EXCEPT ![j.conn] = r] : r \in {out[1], "err"}}
    BY <1>13 DEF ThreadTurnOn
  <2>1. j.conn \in Conns /\ j.impl \in Impls
    BY DEF TypeOK, Jobs
  <2>2. /\ out[1] \in Results /\ mode' \in Modes /\ Blocked(mode')
        /\ mode'.owner \in {None, j.conn} \/ mode' = mode
    BY <2>0, <2>1, <1>a, TurnOnOutcome
  <2>3. TypeOK'
    BY <1>13, <2>0, <2>1, <2>2 DEF ThreadTurnOn, TypeOK, Results
  <2>4. RequestInv'
    <3>1. jobs' = jobs \ {j} /\ conn' = conn
      BY <1>13 DEF ThreadTurnOn
    <3>2. CASE j.late
      <4>1. phase' = phase
        BY <2>0, <3>2
      <4> QED BY <3>1, <4>1 DEF RequestInv
    <3>3. CASE ~j.late
      <4>1. PICK r \in {out[1], "err"} : phase' = [phase EXCEPT ![j.conn] = r]
        BY <2>0, <3>3
      <4>2. phase[j.conn] = "wait" /\ conn[j.conn] = "open"
        BY <2>1, <3>3 DEF RequestInv
      <4>3. \A i \in jobs' : i.conn = j.conn => i.late
        BY <3>1, <3>3 DEF RequestInv
      <4>4. \A c \in Conns : phase'[c] # "idle" => conn'[c] = "open"
        BY <3>1, <4>1, <4>2 DEF RequestInv, TypeOK
      <4>5. \A i \in jobs' : conn'[i.conn] # "new" /\ (~i.late => phase'[i.conn] = "wait")
        BY <1>j, <2>1, <3>1, <4>1, <4>3 DEF RequestInv, TypeOK
      <4>6. \A h, i \in jobs' : h.conn = i.conn /\ ~h.late /\ ~i.late => h = i
        BY <3>1 DEF RequestInv
      <4> QED BY <4>4, <4>5, <4>6 DEF RequestInv
    <3> QED BY <3>2, <3>3
  <2>5. OwnerInv'
    BY <1>13, <2>1, <2>2, NoneAssumption DEF ThreadTurnOn, OwnerInv, RequestInv
  <2> QED BY <2>2, <2>3, <2>4, <2>5
<1>14. ASSUME Local PROVE IInv'
  <2>1. /\ mode' \in Modes
        /\ Blocked(mode')
        /\ mode'.owner = mode.owner \/ mode'.owner = None
    <3>1. CASE HotKey \/ ResetDriver
      BY <3>1, <1>a, TurnOffOutcome DEF HotKey, ResetDriver, Blocked
    <3>2. ASSUME NEW impl \in Impls, Switch(impl) PROVE <2>1!1 /\ <2>1!2 /\ <2>1!3
      BY <3>2, <1>a, ReplaceFrees DEF Switch, Blocked
    <3>3. CASE HookExits
      BY <3>3, <1>a DEF HookExits, Modes, Blocked
    <3> QED BY <1>14, <3>1, <3>2, <3>3 DEF Local
  <2>2. TypeOK'
    BY <1>14, <1>a, <2>1 DEF Local, HotKey, ResetDriver, Switch, HookExits, Lost, TypeOK
  <2>3. RequestInv'
    BY <1>14 DEF Local, HotKey, ResetDriver, Switch, HookExits, RequestInv
  <2>4. UNCHANGED <<conn, stuck>>
    BY <1>14 DEF Local, HotKey, ResetDriver, Switch, HookExits
  <2>5. OwnerInv'
    BY <2>1, <2>4, NoneAssumption DEF OwnerInv
  <2> QED BY <2>1, <2>2, <2>3, <2>5
<1>15. CASE UNCHANGED vars
  BY <1>15 DEF vars, TypeOK, RequestInv, OwnerInv, Blocked
<1> QED
  BY <1>1, <1>2, <1>3, <1>4, <1>5, <1>6, <1>7, <1>8, <1>9, <1>10, <1>11, <1>12, <1>13,
     <1>14, <1>15 DEF Next, Peer

LEMMA Invariance == Spec => []IInv
BY InitIInv, NextIInv, PTL DEF Spec

(* Every variable keeps its type. *)
THEOREM TypeCorrect == Spec => []TypeOK
<1>1. IInv => TypeOK
  BY DEF IInv
<1> QED BY <1>1, Invariance, PTL

(* No mode outlives its connection, a late thread's excepted. *)
THEOREM OwnerIsLive == Spec => []OwnerLive
<1>1. IInv => OwnerLive
  BY DEF IInv, OwnerInv, OwnerLive
<1> QED BY <1>1, Invariance, PTL

(* The magnifier's mode is never on without its hook. *)
THEOREM InputIsBlocked == Spec => []InputBlocked
<1>1. IInv => InputBlocked
  BY DEF IInv, Blocked, InputBlocked
<1> QED BY <1>1, Invariance, PTL

(* The owner changes only by way of nobody. *)
THEOREM OneOwner == Spec => Exclusive
<1>1. ASSUME IInv, [Next]_vars, mode.owner # None, mode'.owner # None
      PROVE  mode'.owner = mode.owner
  <2>a. mode \in Modes /\ mode.owner \in Conns \cup {None} /\ Blocked(mode)
    BY <1>1 DEF IInv, TypeOK, Modes
  <2>1. ASSUME NEW c \in Conns, NEW impl \in Impls, NEW out \in TurnOn(mode, c, impl),
               mode' = out[2]
        PROVE  mode'.owner = mode.owner
    BY <1>1, <2>a, <2>1, TurnOnOutcome
  <2>2. ASSUME NEW by \in Conns \cup {None}, mode' = TurnOff(mode, by)
        PROVE  mode'.owner = mode.owner
    BY <1>1, <2>a, <2>2, TurnOffOutcome
  <2>3. ASSUME NEW c \in Conns, Peer(c) PROVE mode'.owner = mode.owner
    <3>1. CASE SyncTurnOn(c)
      BY <1>1, <2>1, <3>1 DEF SyncTurnOn, IInv, TypeOK
    <3>2. CASE Succeeded(c) \/ Undo(c) \/ RequestOff(c) \/ CloseOff(c)
      BY <2>2, <3>2 DEF Succeeded, Undo, RequestOff, CloseOff
    <3> QED BY <2>3, <3>1, <3>2
            DEF Peer, Login, Request, Timeout, Failed, SeeOn, HearNotice, LoopEnds, CloseCheck
  <2>4. ASSUME NEW j \in jobs, ThreadTurnOn(j) PROVE mode'.owner = mode.owner
    <3>1. j.conn \in Conns /\ j.impl \in Impls
      BY <1>1 DEF IInv, TypeOK, Jobs
    <3> QED BY <2>1, <2>4, <3>1 DEF ThreadTurnOn
  <2>5. CASE Local
    <3>1. CASE HotKey \/ ResetDriver
      BY <2>2, <3>1 DEF HotKey, ResetDriver
    <3>2. ASSUME NEW impl \in Impls, Switch(impl) PROVE mode'.owner = mode.owner
      BY <1>1, <2>a, <3>2, ReplaceFrees DEF Switch
    <3>3. CASE HookExits
      BY <2>a, <3>3 DEF HookExits, Modes
    <3> QED BY <2>5, <3>1, <3>2, <3>3 DEF Local
  <2>6. CASE UNCHANGED vars
    BY <2>6 DEF vars
  <2> QED BY <1>1, <2>3, <2>4, <2>5, <2>6 DEF Next
<1>2. IInv /\ [Next]_vars => [mode.owner # None /\ mode'.owner # None
                                => mode'.owner = mode.owner]_vars
  BY <1>1
<1> QED BY <1>2, Invariance, PTL DEF Spec, Exclusive
-----------------------------------------------------------------------------
(* What a peer believes of its mode. *)

(* Why c may be told that it has the mode.                                  *)
Excused(c) == mode.owner = c \/ notice[c] \/ c \in robbed

(* c has, or had a moment ago, a mode that it was promised and that its own *)
(* request has not lost it since.                                           *)
Held(c) ==
    \/ phase[c] = "ok"
    \/ told[c] /\ phase[c] \in {"idle", "sync", "wait"}

BeliefInv ==
    \A c \in Conns :
        /\ conn[c] = "new" => ~told[c]
        /\ conn[c] = "open" /\ Held(c) => Excused(c)

(* Success means that the caller is the owner.                              *)
LEMMA TurnOnSuccess ==
    ASSUME NEW m \in Modes, NEW c \in Conns, NEW impl \in Impls,
           NEW out \in TurnOn(m, c, impl), out[1] = "ok"
    PROVE  out[2].owner = c
<1>1. ASSUME NEW m0 \in Modes, out \in Start(m0, c)
      PROVE  out[2].owner = c
  <2>1. PICK n \in Settled(m0) : out = Hooked(n, c)
    BY <1>1 DEF Start
  <2>2. n \in Modes
    BY <2>1 DEF Settled, Modes
  <2> QED BY <2>1, <2>2 DEF Hooked, Modes
<1>2. CASE out \in Start(Replace(m, impl), c)
  BY <1>1, <1>2, ReplaceFrees
<1> QED BY <1>2 DEF TurnOn

(* Whoever's turn_on_privacy it is, nobody else loses the mode by it.       *)
LEMMA TurnOnKeepsOthers ==
    ASSUME NEW m \in Modes, Blocked(m), NEW c \in Conns, NEW impl \in Impls,
           NEW out \in TurnOn(m, c, impl), NEW d \in Conns \ {c}, m.owner = d
    PROVE  out[2].owner = d
BY NoneAssumption, TurnOnOutcome

LEMMA NextBelief == IInv /\ BeliefInv /\ [Next]_vars => BeliefInv'
<1> SUFFICES ASSUME IInv, BeliefInv, [Next]_vars,
                    NEW c \in Conns
             PROVE  /\ conn'[c] = "new" => ~told'[c]
                    /\ conn'[c] = "open" /\ Held(c)' => Excused(c)'
  BY DEF BeliefInv
<1> DEFINE Goal == /\ conn'[c] = "new" => ~told'[c]
                   /\ conn'[c] = "open" /\ Held(c)' => Excused(c)'
<1>a. TypeOK /\ RequestInv /\ Blocked(mode) /\ mode \in Modes
  BY DEF IInv, TypeOK
<1>b. /\ conn[c] = "new" => ~told[c]
      /\ conn[c] = "open" /\ Held(c) => Excused(c)
  BY DEF BeliefInv
<1>c. conn[c] = "new" => phase[c] = "idle"
  BY <1>a DEF RequestInv
(* A step that is not c's own, in which c does not lose its excuse.         *)
<1>d. ASSUME conn'[c] = conn[c], phase'[c] = phase[c], told'[c] = told[c],
             conn[c] = "open" /\ Excused(c) => Excused(c)'
      PROVE  Goal
  BY <1>b, <1>d DEF Held
(* A step of another connection.                                            *)
<1>1. ASSUME NEW d \in Conns, Peer(d), d # c PROVE Goal
  <2>0. /\ conn'[c] = conn[c] /\ phase'[c] = phase[c] /\ told'[c] = told[c]
        /\ notice'[c] = notice[c]
    <3>1. CASE Login(d) \/ LoopEnds(d) \/ CloseCheck(d) \/ CloseOff(d)
      BY <1>1, <1>a, <3>1 DEF Login, LoopEnds, CloseCheck, CloseOff, TypeOK
    <3>2. CASE (\E impl \in Impls : Request(d, impl)) \/ SyncTurnOn(d) \/ Timeout(d) \/ SeeOn(d)
      BY <1>1, <1>a, <3>2 DEF Request, SyncTurnOn, Timeout, SeeOn, TypeOK
    <3>3. CASE Succeeded(d) \/ Failed(d) \/ Undo(d)
      BY <1>1, <1>a, <3>3 DEF Succeeded, Failed, Undo, Tell, TypeOK
    <3>4. CASE RequestOff(d) \/ HearNotice(d)
      BY <1>1, <1>a, <3>4 DEF RequestOff, HearNotice, TypeOK
    <3> QED BY <1>1, <3>1, <3>2, <3>3, <3>4 DEF Peer
  <2>1. c \in robbed => c \in robbed'
    BY <1>1 DEF Peer, Login, Request, SyncTurnOn, Timeout, Succeeded, Failed, SeeOn, Undo,
                RequestOff, HearNotice, LoopEnds, CloseCheck, CloseOff
  <2>2. mode.owner = c => mode'.owner = c \/ c \in robbed'
    <3>0. SUFFICES ASSUME mode.owner = c PROVE mode'.owner = c \/ c \in robbed'
      OBVIOUS
    <3>1. CASE SyncTurnOn(d)
      BY <1>1, <1>a, <3>0, <3>1, TurnOnKeepsOthers DEF SyncTurnOn, TypeOK
    <3>2. CASE Undo(d)
      BY <1>1, <3>0, <3>2, NoneAssumption DEF Undo, Lost
    <3>3. CASE Succeeded(d) \/ RequestOff(d) \/ CloseOff(d)
      BY <1>1, <3>0, <3>3, NoneAssumption DEF Succeeded, RequestOff, CloseOff, TurnOff, MayTurnOff
    <3> QED BY <1>1, <3>0, <3>1, <3>2, <3>3
            DEF Peer, Login, Request, Timeout, Failed, SeeOn, HearNotice, LoopEnds, CloseCheck
  <2> QED BY <2>0, <2>1, <2>2, <1>d DEF Excused
<1>2. CASE Login(c)
  BY <1>2, <1>a, <1>b, <1>c DEF Login, Held, TypeOK
<1>3. CASE \E impl \in Impls : Request(c, impl)
  BY <1>3, <1>a, <1>b DEF Request, AtRest, Held, Excused, TypeOK
<1>4. CASE SyncTurnOn(c)
  <2>1. PICK out \in TurnOn(mode, c, wanted[c]) :
            phase' = [phase EXCEPT ![c] = out[1]] /\ mode' = out[2]
    BY <1>4 DEF SyncTurnOn
  <2>2. wanted[c] \in Impls /\ phase \in [Conns -> {"idle", "sync", "wait", "ok", "no_plugin", "err", "undo"}]
    BY <1>a DEF TypeOK
  <2>3. phase'[c] = out[1] /\ out[1] \in Results
    BY <1>a, <2>1, <2>2, TurnOnOutcome
  <2>4. phase'[c] = "ok" => mode'.owner = c
    BY <1>a, <2>1, <2>2, <2>3, TurnOnSuccess
  <2> QED BY <1>4, <1>b, <1>c, <2>3, <2>4 DEF SyncTurnOn, Held, Excused, Results
<1>5. CASE Timeout(c) \/ SeeOn(c)
  BY <1>5, <1>a, <1>b DEF Timeout, SeeOn, Held, TypeOK
<1>6. CASE Succeeded(c)
  <2>1. conn[c] = "open" /\ conn' = conn
    BY <1>6, <1>a DEF Succeeded, RequestInv
  <2>2. CASE told' = [told EXCEPT ![c] = FALSE]
    BY <1>6, <1>a, <2>1, <2>2 DEF Succeeded, Tell, Held, TypeOK
  <2>3. CASE mode' = mode /\ notice' = notice
             /\ robbed' = (IF mode.owner = c THEN robbed \ {c} ELSE robbed)
    BY <1>6, <1>b, <2>1, <2>3 DEF Succeeded, Held, Excused
  <2> QED BY <1>6, <2>2, <2>3 DEF Succeeded, Tell
<1>7. CASE Failed(c) \/ Undo(c)
  BY <1>7, <1>a, <1>b DEF Failed, Undo, Tell, Held, RequestInv, TypeOK
<1>8. CASE RequestOff(c)
  <2>1. CASE MayTurnOff(mode, c)
    BY <1>8, <1>a, <2>1 DEF RequestOff, AtRest, Held, TypeOK
  <2>2. CASE ~MayTurnOff(mode, c)
    <3>1. mode' = mode /\ told' = told
      BY <1>8, <2>2 DEF RequestOff, TurnOff
    <3> QED BY <1>8, <1>d, <3>1 DEF RequestOff, Excused
  <2> QED BY <2>1, <2>2
<1>9. CASE HearNotice(c)
  BY <1>9, <1>a DEF HearNotice, AtRest, Held, TypeOK
<1>10. CASE LoopEnds(c) \/ CloseCheck(c) \/ CloseOff(c)
  <2>1. conn'[c] \notin {"new", "open"}
    BY <1>10, <1>a DEF LoopEnds, CloseCheck, CloseOff, TypeOK
  <2> QED BY <2>1
<1>11. ASSUME NEW j \in jobs, ThreadTurnOn(j) PROVE Goal
  <2>0. j.conn \in Conns /\ j.impl \in Impls /\ j.late \in BOOLEAN
    BY <1>a DEF TypeOK, Jobs
  <2>1. PICK out \in TurnOn(mode, j.conn, j.impl) :
            /\ mode' = out[2]
            /\ phase' \in IF j.late THEN {phase}
                          ELSE {[phase EXCEPT ![j.conn] = r] : r \in {out[1], "err"}}
    BY <1>11 DEF ThreadTurnOn
  <2>2. /\ UNCHANGED <<conn, told, notice>>
        /\ robbed' = IF j.late /\ mode'.owner # j.conn THEN robbed \cup {j.conn} ELSE robbed
    BY <1>11 DEF ThreadTurnOn
  <2>3. out[1] \in Results
    BY <1>a, <2>0, TurnOnOutcome
  <2>4. CASE j.conn # c
    <3>1. phase'[c] = phase[c]
      BY <1>a, <2>0, <2>1, <2>4 DEF TypeOK
    <3>2. mode.owner = c => mode'.owner = c
      BY <1>a, <2>0, <2>1, <2>4, TurnOnKeepsOthers
    <3> QED BY <1>d, <2>2, <3>1, <3>2 DEF Excused
  <2>5. CASE j.conn = c /\ j.late
    <3>1. phase' = phase
      BY <2>1, <2>5
    <3> QED BY <1>d, <2>2, <2>5, <3>1 DEF Excused
  <2>6. CASE j.conn = c /\ ~j.late
    <3>1. PICK r \in {out[1], "err"} : phase' = [phase EXCEPT ![c] = r]
      BY <2>1, <2>6
    <3>2. phase'[c] = r /\ r \in Results
      BY <1>a, <2>3, <3>1 DEF TypeOK, Results
    <3>3. phase'[c] = "ok" => mode'.owner = c
      BY <1>a, <2>0, <2>1, <2>6, <3>1, <3>2, TurnOnSuccess
    <3> QED BY <1>b, <2>2, <3>2, <3>3 DEF Held, Excused, Results
  <2> QED BY <2>0, <2>4, <2>5, <2>6
<1>12. CASE Local
  <2>1. UNCHANGED <<conn, phase, told>>
    BY <1>12 DEF Local, HotKey, ResetDriver, HookExits, Switch
  <2>2. conn[c] = "open" /\ Excused(c) => Excused(c)'
    <3>1. CASE HotKey
      BY <3>1, NoneAssumption DEF HotKey, Excused
    <3>2. CASE ResetDriver
      BY <3>2, NoneAssumption DEF ResetDriver, Lost, Excused
    <3>3. ASSUME NEW impl \in Impls, Switch(impl)
          PROVE  conn[c] = "open" /\ Excused(c) => Excused(c)'
      BY <3>3, NoneAssumption DEF Switch, Lost, Replace, Excused
    <3>4. CASE HookExits
      BY <1>a, <3>4 DEF HookExits, Excused, Modes
    <3> QED BY <1>12, <3>1, <3>2, <3>3, <3>4 DEF Local
  <2> QED BY <1>d, <2>1, <2>2
<1>13. CASE UNCHANGED vars
  BY <1>13, <1>d DEF vars, Excused
<1> QED
  BY <1>1, <1>2, <1>3, <1>4, <1>5, <1>6, <1>7, <1>8, <1>9, <1>10, <1>11, <1>12, <1>13
  DEF Next, Peer

(* A peer that believes in its privacy has it, is about to hear that it has *)
(* not, or lost it to something that notifies nobody: through every failed, *)
(* late or undone request and every way in which the host ends the mode.    *)
THEOREM BeliefIsTracked == Spec => []BeliefTracked
<1>1. Init => BeliefInv
  BY DEF Init, BeliefInv, Held
<1>2. BeliefInv => BeliefTracked
  BY DEF BeliefInv, BeliefTracked, AtRest, Held, Excused
<1> QED BY <1>1, <1>2, NextBelief, Invariance, PTL DEF Spec

(* What OthersKeepMode claims is true of all but one of the steps of a      *)
(* connection: the one that turns the mode off after a request that failed. *)
(* Late threads take the mode from nobody either.                           *)
THEOREM OnlyUndoTakes ==
    Spec => [][/\ \A c \in Conns :
                     Peer(c) /\ ~Undo(c) /\ mode.owner # None /\ mode'.owner # mode.owner
                        => mode.owner = c
               /\ \A j \in jobs :
                     ThreadTurnOn(j) /\ mode.owner # None /\ mode'.owner # mode.owner
                        => mode.owner = j.conn]_vars
<1> DEFINE P == \A c \in Conns :
                   Peer(c) /\ ~Undo(c) /\ mode.owner # None /\ mode'.owner # mode.owner
                      => mode.owner = c
           Q == \A j \in jobs :
                   ThreadTurnOn(j) /\ mode.owner # None /\ mode'.owner # mode.owner
                      => mode.owner = j.conn
<1>1. ASSUME IInv PROVE P /\ Q
  <2>a. TypeOK /\ mode \in Modes /\ mode.owner \in Conns \cup {None} /\ Blocked(mode)
    BY <1>1 DEF IInv, TypeOK, Modes
  <2>1. ASSUME NEW c \in Conns, NEW impl \in Impls, NEW out \in TurnOn(mode, c, impl),
               mode' = out[2], mode.owner \notin {None, c}
        PROVE  mode'.owner = mode.owner
    BY <2>a, <2>1, TurnOnOutcome
  <2>2. ASSUME NEW c \in Conns, Peer(c), ~Undo(c), mode.owner \notin {None, c}
        PROVE  mode'.owner = mode.owner
    <3>1. CASE SyncTurnOn(c)
      BY <2>a, <2>1, <2>2, <3>1 DEF SyncTurnOn, TypeOK
    <3>2. CASE Succeeded(c) \/ RequestOff(c) \/ CloseOff(c)
      BY <2>2, <3>2, NoneAssumption
         DEF Succeeded, RequestOff, CloseOff, TurnOff, MayTurnOff
    <3> QED BY <2>2, <3>1, <3>2
            DEF Peer, Login, Request, Timeout, Failed, SeeOn, HearNotice, LoopEnds, CloseCheck
  <2>3. ASSUME NEW j \in jobs, ThreadTurnOn(j), mode.owner \notin {None, j.conn}
        PROVE  mode'.owner = mode.owner
    <3>1. j.conn \in Conns /\ j.impl \in Impls
      BY <2>a DEF TypeOK, Jobs
    <3> QED BY <2>1, <2>3, <3>1 DEF ThreadTurnOn
  <2>4. P
    BY <2>2
  <2>5. Q
    BY <2>3
  <2> QED BY <2>4, <2>5
<1>2. IInv /\ [Next]_vars => [P /\ Q]_vars
  BY <1>1
<1> QED BY <1>2, Invariance, PTL DEF Spec
=============================================================================
