-------------------------- MODULE RendezvousProofs --------------------------
(***************************************************************************)
(* The registration loop of Rendezvous, for any servers, ids and bounds:    *)
(* whoever solves a mismatch is at work or all are about to end, and no     *)
(* change of the servers is forgotten but where ChangeNoticed says so.      *)
(***************************************************************************)
EXTENDS Rendezvous, TLAPS

(* Between two rounds no task runs and no mismatch is being solved; a       *)
(* change of the list between its reading and the clearing is forgotten or  *)
(* has a check to come.                                                     *)
BetweenRounds ==
    /\ pc # "run" => running = {}
    /\ pc = "clear" => solving = NoHost
    /\ pc = "clear" /\ used # servers =>
          (\E c \in checks : c.old # servers) \/ lost \/ blind

IInv == TypeOK /\ BetweenRounds /\ SolverRuns /\ ChangeNoticed

-----------------------------------------------------------------------------
(* The type invariant in three parts. *)
LoopType ==
    /\ pc \in {"read", "clear", "run"}
    /\ servers \in SUBSET Hosts /\ used \in SUBSET Hosts /\ running \in SUBSET Hosts
    /\ should_exit \in BOOLEAN /\ lost \in BOOLEAN
    /\ blind \in BOOLEAN /\ checks \in SUBSET Checks
    /\ faults \in 0..MaxFaults /\ changes \in 0..MaxChanges /\ strategies \in 0..MaxStrategies
    /\ losses \in 0..MaxLosses
ConfigType ==
    /\ key_confirmed \in BOOLEAN
    /\ id \in 1..MaxId
    /\ host_confirmed \in SUBSET Hosts
    /\ solving \in Hosts \cup {NoHost}
NetType ==
    /\ sent \in [Hosts -> BOOLEAN]
    /\ request \in [Hosts -> Requests] /\ reply \in [Hosts -> Replies]
    /\ known \in [Hosts -> SUBSET (1..MaxId)]

LEMMA TypeParts == TypeOK <=> LoopType /\ ConfigType /\ NetType
BY DEF TypeOK, LoopType, ConfigType, NetType

(* What is sent is a request. *)
LEMMA RequestTypes ==
    /\ None \in Requests
    /\ \A i \in 1..MaxId : RegisterPk(i) \in Requests /\ RegisterPeer(i) \in Requests
BY DEF Requests, RegisterPk, RegisterPeer

LEMMA SendType ==
    ASSUME request \in [Hosts -> Requests],
           NEW h \in Hosts, NEW m \in Requests, Send(h, m)
    PROVE  request' \in [Hosts -> Requests]
BY DEF Send

(* A server answers a request with one of the replies. *)
LEMMA AnswerType ==
    ASSUME NEW h \in Hosts, NEW m \in Requests, m # None
    PROVE  Answer(h, m) \in Replies
<1>1. m.type \in {"peer", "pk"}
  BY DEF Requests, None
<1> QED BY <1>1 DEF Answer, Replies

LEMMA InitInv == Init => IInv
<1> SUFFICES ASSUME Init
             PROVE  IInv
  OBVIOUS
<1> USE MaxIdAssumption, BoundsAssumption, HostsAssumption
<1>1. LoopType
  <2>1. /\ pc = "read" /\ servers \in SUBSET Hosts
        /\ used = {} /\ running = {} /\ should_exit = FALSE
        /\ checks = {} /\ lost = FALSE /\ blind = FALSE
        /\ faults = 0 /\ changes = 0 /\ strategies = 0 /\ losses = 0
    BY DEF Init
  <2>2. /\ faults \in 0..MaxFaults /\ changes \in 0..MaxChanges
        /\ strategies \in 0..MaxStrategies /\ losses \in 0..MaxLosses
    BY <2>1
  <2>3. /\ should_exit \in BOOLEAN /\ lost \in BOOLEAN /\ blind \in BOOLEAN
        /\ checks \in SUBSET Checks
    BY <2>1
  <2> QED BY <2>1, <2>2, <2>3 DEF LoopType
<1>2. ConfigType
  <2>1. /\ key_confirmed \in BOOLEAN /\ host_confirmed \in SUBSET Hosts
        /\ id = 1 /\ solving = NoHost
    BY DEF Init
  <2> QED BY <2>1 DEF ConfigType
<1>3. NetType
  BY RequestTypes DEF Init, NetType, Replies
<1>4. BetweenRounds /\ SolverRuns /\ ChangeNoticed
  BY DEF Init, BetweenRounds, SolverRuns, ChangeNoticed
<1> QED BY <1>1, <1>2, <1>3, <1>4, TypeParts DEF IInv

-----------------------------------------------------------------------------
(* Changing the list touches neither the tasks nor the network. *)
LEMMA ChangeLeaves ==
    ChangeServers =>
        UNCHANGED <<pc, used, running, config, sent, request, reply, known, faults, losses>>
BY DEF ChangeServers, Remember, Store, DropCheck, StoreStrategy

(* A check keeps its type, from the remembering to the drop. *)
LEMMA ChangeType == LoopType /\ ChangeServers => LoopType'
<1> SUFFICES ASSUME LoopType, ChangeServers
             PROVE  LoopType'
  OBVIOUS
<1> USE BoundsAssumption DEF LoopType
<1>0. UNCHANGED <<pc, used, running, faults, losses>>
  BY ChangeLeaves
<1>1. CASE Remember
  <2>1. changes' \in 1..MaxChanges
    BY <1>1 DEF Remember
  <2>2. [n |-> changes', old |-> servers, stored |-> FALSE] \in Checks
    BY <2>1 DEF Checks
  <2>3. /\ checks' \in SUBSET Checks
        /\ UNCHANGED <<servers, should_exit, strategies, lost, blind>>
    BY <1>1, <2>2 DEF Remember
  <2>4. changes' \in 0..MaxChanges
    BY <2>1
  <2> QED BY <1>0, <2>3, <2>4
<1>2. ASSUME NEW c \in checks, DropCheck(c)
      PROVE  LoopType'
  BY <1>0, <1>2 DEF DropCheck
<1>3. ASSUME NEW S \in SUBSET Hosts \ {{}}, NEW c \in checks, Store(c, S)
      PROVE  LoopType'
  <2>1. c \in Checks /\ [c EXCEPT !.stored = TRUE] \in Checks
    BY DEF Checks
  <2>2. blind' \in BOOLEAN
    BY <1>3 DEF Store
  <2> QED BY <1>0, <1>3, <2>1, <2>2 DEF Store
<1>4. ASSUME NEW S \in SUBSET Hosts \ {{}}, StoreStrategy(S)
      PROVE  LoopType'
  BY <1>0, <1>4 DEF StoreStrategy
<1> QED BY <1>1, <1>2, <1>3, <1>4 DEF ChangeServers

LEMMA LoopStep == TypeOK /\ [Next]_vars => LoopType'
<1> SUFFICES ASSUME TypeOK, [Next]_vars
             PROVE  LoopType'
  OBVIOUS
<1> USE BoundsAssumption DEF LoopType
<1>0. LoopType
  BY TypeParts
<1>1. CASE StartAll
  BY <1>0, <1>1 DEF StartAll, ReadServers, StartTasks, AllEnded, bounds
<1>2. CASE ChangeServers
  BY <1>0, <1>2, ChangeType
<1>3. ASSUME NEW h \in Hosts, Exit(h) \/ Fail(h)
      PROVE  LoopType'
  <2>1. /\ running' = running \ {h} /\ should_exit' \in BOOLEAN
        /\ UNCHANGED <<pc, servers, used, checks, changes, strategies, losses, lost, blind>>
    BY <1>3 DEF Exit, Fail, EndTask, bounds
  <2>2. faults' \in 0..MaxFaults
    BY <1>0, <1>3 DEF Exit, Fail, bounds
  <2> QED BY <1>0, <2>1, <2>2
<1>4. ASSUME NEW h \in Hosts, Tick(h)
      PROVE  LoopType'
  BY <1>0, <1>4 DEF Tick, loop
<1>5. ASSUME NEW h \in Hosts, Handle(h)
      PROVE  LoopType'
  BY <1>0, <1>5 DEF Handle, PeerResponse, PeerResponseRequestPk, PkOk, PkMismatch,
                    Receive, loop, bounds
<1>6. ASSUME NEW h \in Hosts, Serve(h) \/ Lose(h)
      PROVE  LoopType'
  BY <1>0, <1>6 DEF Serve, Lose, loop, bounds
<1>7. CASE UNCHANGED vars
  BY <1>0, <1>7 DEF vars, loop, bounds
<1> QED BY <1>1, <1>2, <1>3, <1>4, <1>5, <1>6, <1>7 DEF Next

LEMMA ConfigStep == TypeOK /\ [Next]_vars => ConfigType'
<1> SUFFICES ASSUME TypeOK, [Next]_vars
             PROVE  ConfigType'
  OBVIOUS
<1> USE MaxIdAssumption DEF ConfigType
<1>0. ConfigType
  BY TypeParts
<1>1. CASE StartAll
  BY <1>0, <1>1 DEF StartAll, ReadServers, StartTasks, AllEnded, config
<1>2. CASE ChangeServers
  BY <1>0, <1>2, ChangeLeaves DEF config
<1>3. ASSUME NEW h \in Hosts, Exit(h) \/ Fail(h) \/ Tick(h) \/ Serve(h) \/ Lose(h)
      PROVE  ConfigType'
  BY <1>0, <1>3 DEF Exit, Fail, Tick, Serve, Lose, config
<1>4. ASSUME NEW h \in Hosts, Handle(h)
      PROVE  ConfigType'
  <2>1. CASE PeerResponse(h) \/ PeerResponseRequestPk(h)
    BY <1>0, <2>1 DEF PeerResponse, PeerResponseRequestPk, config
  <2>2. CASE PkOk(h)
    BY <1>0, <2>2 DEF PkOk
  <2>3. CASE PkMismatch(h)
    <3>1. CASE UNCHANGED config
      BY <1>0, <3>1 DEF config
    <3>2. CASE ~UNCHANGED config
      <4>1. /\ key_confirmed' = FALSE /\ host_confirmed' \in {host_confirmed, {}}
            /\ id < MaxId /\ id' = id + 1 /\ solving' = h
        BY <2>3, <3>2 DEF PkMismatch
      <4>2. id' \in 1..MaxId
        BY <1>0, <4>1
      <4>3. key_confirmed' \in BOOLEAN
        BY <4>1
      <4> QED BY <1>0, <4>1, <4>2, <4>3
    <3> QED BY <3>1, <3>2
  <2> QED BY <1>4, <2>1, <2>2, <2>3 DEF Handle
<1>5. CASE UNCHANGED vars
  BY <1>0, <1>5 DEF vars, config
<1> QED BY <1>1, <1>2, <1>3, <1>4, <1>5 DEF Next

LEMMA NetStep == TypeOK /\ ConfigType' /\ [Next]_vars => NetType'
<1> SUFFICES ASSUME TypeOK, ConfigType', [Next]_vars
             PROVE  NetType'
  OBVIOUS
<1>0. NetType /\ ConfigType
  BY TypeParts
<1>1. CASE StartAll
  BY <1>0, <1>1, RequestTypes
     DEF StartAll, ReadServers, StartTasks, AllEnded, NetType, Replies
<1>2. CASE ChangeServers
  BY <1>0, <1>2, ChangeLeaves DEF NetType
<1>3. ASSUME NEW h \in Hosts, Exit(h) \/ Fail(h)
      PROVE  NetType'
  BY <1>0, <1>3 DEF Exit, Fail, NetType
<1>4. ASSUME NEW h \in Hosts, Tick(h)
      PROVE  NetType'
  <2>1. request' \in [Hosts -> Requests]
    <3>1. RegisterPk(id) \in Requests /\ RegisterPeer(id) \in Requests
      BY <1>0, RequestTypes DEF ConfigType
    <3>2. UNCHANGED request \/ Send(h, RegisterPk(id)) \/ Send(h, RegisterPeer(id))
      BY <1>4 DEF Tick, SendRegisterPeer
    <3> QED BY <1>0, <3>1, <3>2, SendType DEF NetType
  <2> QED BY <1>0, <1>4, <2>1 DEF Tick, NetType
<1>5. ASSUME NEW h \in Hosts, Handle(h)
      PROVE  NetType'
  <2>1. request' \in [Hosts -> Requests]
    <3>1. RegisterPk(id) \in Requests /\ RegisterPk(id') \in Requests
      BY <1>0, RequestTypes DEF ConfigType
    <3>2. UNCHANGED request \/ Send(h, RegisterPk(id)) \/ Send(h, RegisterPk(id'))
      BY <1>5 DEF Handle, PeerResponse, PeerResponseRequestPk, PkOk, PkMismatch
    <3> QED BY <1>0, <3>1, <3>2, SendType DEF NetType
  <2>2. PICK r : Receive(h, r)
    BY <1>5 DEF Handle, PeerResponse, PeerResponseRequestPk, PkOk, PkMismatch
  <2> QED BY <1>0, <2>1, <2>2 DEF Receive, NetType, Replies
<1>6. ASSUME NEW h \in Hosts, Serve(h)
      PROVE  NetType'
  <2>1. request[h] \in Requests /\ request[h] # None
    BY <1>0, <1>6 DEF Serve, NetType
  <2>2. request[h].id \in 1..MaxId
    BY <2>1 DEF Requests
  <2>3. Answer(h, request[h]) \in Replies
    BY <2>1, AnswerType
  <2>4. reply' \in [Hosts -> Replies]
    BY <1>0, <1>6, <2>3 DEF Serve, NetType
  <2>5. known' \in [Hosts -> SUBSET (1..MaxId)]
    BY <1>0, <1>6, <2>2 DEF Serve, NetType
  <2>6. request' \in [Hosts -> Requests] /\ UNCHANGED sent
    BY <1>0, <1>6, RequestTypes DEF Serve, NetType
  <2> QED BY <1>0, <2>4, <2>5, <2>6 DEF NetType
<1>7. ASSUME NEW h \in Hosts, Lose(h)
      PROVE  NetType'
  BY <1>0, <1>7, RequestTypes DEF Lose, NetType, Replies
<1>8. CASE UNCHANGED vars
  BY <1>0, <1>8 DEF vars, NetType
<1> QED BY <1>1, <1>2, <1>3, <1>4, <1>5, <1>6, <1>7, <1>8 DEF Next

(* Whatever is stored, a check that differs from it remains, or the change  *)
(* is one of those that are forgotten.                                      *)
LEMMA ChangeRound ==
    IInv /\ ChangeServers => BetweenRounds' /\ SolverRuns' /\ ChangeNoticed'
<1> DEFINE Open == (\E c \in checks : c.old # servers) \/ lost \/ blind
<1> SUFFICES ASSUME IInv, ChangeServers
             PROVE  BetweenRounds' /\ SolverRuns' /\ ChangeNoticed'
  OBVIOUS
<1>0. /\ UNCHANGED <<pc, used, running, config>>
      /\ LoopType
  BY ChangeLeaves, TypeParts DEF IInv
<1>1. should_exit => should_exit'
  BY DEF ChangeServers, Remember, Store, DropCheck, StoreStrategy
<1>2. (pc = "clear" \/ pc = "run") /\ used' # servers' =>
          Open' \/ (pc = "run" /\ should_exit')
  <2> SUFFICES ASSUME pc = "clear" \/ pc = "run", used' # servers'
               PROVE  Open' \/ (pc = "run" /\ should_exit')
    OBVIOUS
  <2>0. used # servers => Open \/ (pc = "run" /\ should_exit)
    BY DEF IInv, BetweenRounds, ChangeNoticed
  <2>1. CASE Remember
    BY <1>0, <2>0, <2>1 DEF Remember
  <2>2. ASSUME NEW c \in checks, DropCheck(c)
        PROVE  Open' \/ (pc = "run" /\ should_exit')
    <3>1. UNCHANGED <<servers, blind>> /\ checks' = checks \ {c}
      BY <2>2 DEF DropCheck
    <3>2. CASE c.old = servers
      <4>1. \A x \in checks : x.old # servers => x \in checks' /\ x.old # servers'
        BY <3>1, <3>2
      <4>2. (lost => lost') /\ (should_exit => should_exit')
        BY <2>2 DEF DropCheck
      <4> QED BY <1>0, <2>0, <3>1, <4>1, <4>2
    <3>3. CASE c.old # servers
      BY <1>0, <2>2, <3>1, <3>3 DEF DropCheck, Changed
    <3> QED BY <3>2, <3>3
  <2>3. ASSUME NEW S \in SUBSET Hosts \ {{}}, NEW c \in checks, Store(c, S)
        PROVE  Open' \/ (pc = "run" /\ should_exit')
    <3> DEFINE d == [c EXCEPT !.stored = TRUE]
    <3>1. d \in checks' /\ d.old = c.old
      BY <1>0, <2>3 DEF Store, LoopType, Checks
    <3>2. CASE S # servers
      BY <2>3, <3>1, <3>2 DEF Store
    <3>3. CASE S = servers
      <4>1. \A x \in checks : x.old # servers => Open'
        BY <2>3, <3>1, <3>3 DEF Store
      <4> QED BY <1>0, <2>0, <2>3, <3>3, <4>1 DEF Store
    <3> QED BY <3>2, <3>3
  <2>4. ASSUME NEW S \in SUBSET Hosts \ {{}}, StoreStrategy(S)
        PROVE  Open' \/ (pc = "run" /\ should_exit')
    BY <1>0, <2>0, <2>4 DEF StoreStrategy
  <2> QED BY <2>1, <2>2, <2>3, <2>4 DEF ChangeServers
<1>3. SolverRuns'
  BY <1>0, <1>1 DEF IInv, SolverRuns, config
<1>4. BetweenRounds'
  BY <1>0, <1>2 DEF IInv, BetweenRounds, config
<1>5. ChangeNoticed'
  BY <1>0, <1>2 DEF ChangeNoticed
<1> QED BY <1>3, <1>4, <1>5

(* A round of start_all begins with nothing to solve and ends with nobody   *)
(* at work, and whoever ends tells the others.                              *)
LEMMA RoundStep ==
    IInv /\ [Next]_vars => BetweenRounds' /\ SolverRuns' /\ ChangeNoticed'
<1> SUFFICES ASSUME IInv, [Next]_vars
             PROVE  BetweenRounds' /\ SolverRuns' /\ ChangeNoticed'
  OBVIOUS
<1> USE HostsAssumption DEF IInv, BetweenRounds, SolverRuns, ChangeNoticed
<1>0. LoopType /\ ConfigType
  BY TypeParts
<1>1. CASE StartAll
  BY <1>0, <1>1 DEF StartAll, ReadServers, StartTasks, AllEnded, config, bounds, LoopType
<1>2. CASE ChangeServers
  BY <1>0, <1>2, ChangeRound
<1>3. ASSUME NEW h \in Hosts, Exit(h) \/ Fail(h)
      PROVE  BetweenRounds' /\ SolverRuns' /\ ChangeNoticed'
  BY <1>0, <1>3 DEF Exit, Fail, EndTask, config, bounds
<1>4. ASSUME NEW h \in Hosts, Tick(h) \/ Serve(h) \/ Lose(h)
      PROVE  BetweenRounds' /\ SolverRuns' /\ ChangeNoticed'
  BY <1>0, <1>4 DEF Tick, Serve, Lose, config, loop, bounds
<1>5. ASSUME NEW h \in Hosts, Handle(h)
      PROVE  BetweenRounds' /\ SolverRuns' /\ ChangeNoticed'
  <2>1. h \in running /\ UNCHANGED <<loop, bounds>>
    BY <1>5 DEF Handle, PeerResponse, PeerResponseRequestPk, PkOk, PkMismatch, Receive
  <2>2. solving' \in {solving, NoHost, h}
    BY <1>5 DEF Handle, PeerResponse, PeerResponseRequestPk, PkOk, PkMismatch, config
  <2> QED BY <1>0, <2>1, <2>2 DEF loop, bounds, LoopType
<1>6. CASE UNCHANGED vars
  BY <1>6 DEF vars, config, loop, bounds
<1> QED BY <1>1, <1>2, <1>3, <1>4, <1>5, <1>6 DEF Next

(* The inductive invariant: types, the rounds of start_all and the two      *)
(* properties.                                                              *)
THEOREM Invariance == Spec => []IInv
<1>1. IInv /\ [Next]_vars => IInv'
  <2> SUFFICES ASSUME IInv, [Next]_vars
               PROVE  IInv'
    OBVIOUS
  <2>1. TypeOK'
    BY LoopStep, ConfigStep, NetStep, TypeParts, PTL DEF IInv
  <2> QED BY <2>1, RoundStep DEF IInv
<1> QED BY <1>1, InitInv, PTL DEF Spec

(* The typing invariant, for any servers, ids and bounds. *)
THEOREM TypeCorrect == Spec => []TypeOK
BY Invariance, PTL DEF IInv

(* SOLVING_PK_MISMATCH never names a server whose task has ended without    *)
(* ending the others too: nobody waits for ever for a mismatch to be solved *)
(* by a task that is gone.                                                  *)
THEOREM SolverAlwaysRuns == Spec => []SolverRuns
BY Invariance, PTL DEF IInv

(* A change of the servers takes effect: the tasks of an old list are told  *)
(* to end, or will be when a check is dropped, unless restart() fell in the *)
(* gap of start_all, a strategy made the change, or a check compares with a *)
(* list that was overtaken.                                                 *)
THEOREM ChangesNoticed == Spec => []ChangeNoticed
BY Invariance, PTL DEF IInv
=============================================================================
