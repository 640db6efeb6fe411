----------------------------- MODULE Rendezvous -----------------------------
(***************************************************************************)
(* How a host registers its id with the rendezvous servers over UDP         *)
(* (src/rustdesk/src/rendezvous_mediator.rs): the loop of start_all, which  *)
(* runs one task per server until one of them ends, and the tasks           *)
(* (start_udp), which share the id, the confirmed keys and                  *)
(* SOLVING_PK_MISMATCH.                                                     *)
(*                                                                         *)
(* A datagram may be lost, late or overtaken.  Between a task and its       *)
(* server one request and one reply are under way at a time: a newer one    *)
(* replaces it or is itself lost.  Time is a choice: an answer may be taken *)
(* for late, a registration for expired, whenever a timer ticks.  What is   *)
(* reported of a server's latency is left out, and with it the failures     *)
(* that are counted for it.                                                 *)
(***************************************************************************)
EXTENDS Naturals, FiniteSets

CONSTANTS Hosts,         \* rendezvous servers
          Taken,         \* Taken[h]: the ids that are someone else's at h
          MaxId,         \* ids this host can try
          MaxFaults,     \* socket errors
          MaxChanges,    \* changes of the list of servers under a check
          MaxStrategies, \* strategies that change it
          MaxLosses,     \* datagrams that are lost or late
          NoHost         \* the empty SOLVING_PK_MISMATCH

ASSUME HostsAssumption == IsFiniteSet(Hosts) /\ NoHost \notin Hosts
ASSUME MaxIdAssumption == MaxId \in Nat \ {0}
ASSUME TakenAssumption == Taken \in [Hosts -> SUBSET (1..MaxId)]
ASSUME BoundsAssumption == MaxFaults \in Nat /\ MaxChanges \in Nat /\ MaxStrategies \in Nat /\ MaxLosses \in Nat

VARIABLES
    pc,             \* where start_all is: "read", "clear", "run"
    servers,        \* Config::get_rendezvous_servers()
    used,           \* the servers start_all has read
    running,        \* the servers whose task runs
    should_exit,    \* SHOULD_EXIT
    id,             \* Config::get_id(), numbered in the order they are tried
    key_confirmed, host_confirmed,     \* of Config
    solving,        \* SOLVING_PK_MISMATCH
    sent,           \* last_register_sent is Some
    request, reply, \* the datagram under way to and from each server
    known,          \* the ids whose key a server has for this host
    checks,         \* the CheckIfRestart alive: what each remembers of the list
    faults, changes, strategies, losses,
    lost,           \* history: a restart fell between the reading and the clearing
    blind           \* history: the last change was not, or wrongly, compared

config == <<id, key_confirmed, host_confirmed, solving>>
loop == <<pc, servers, used, running, should_exit, checks>>
bounds == <<faults, changes, strategies, losses, lost, blind>>
vars == <<loop, config, sent, request, reply, known, bounds>>

None == [type |-> "none", id |-> 0]
Requests == [type : {"peer", "pk"}, id : 1..MaxId] \cup {None}
Checks == [n : 1..MaxChanges, old : SUBSET Hosts, stored : BOOLEAN]
Replies == {"none", "peer", "peer_request_pk", "pk_ok", "pk_mismatch"}

Send(h, m) == request' = [request EXCEPT ![h] = m]

RegisterPk(i) == [type |-> "pk", id |-> i]
RegisterPeer(i) == [type |-> "peer", id |-> i]

Init ==
    /\ pc = "read"
    /\ servers \in SUBSET Hosts /\ servers # {}
    /\ used = {} /\ running = {} /\ should_exit = FALSE
    /\ id = 1
    /\ \E H \in SUBSET Hosts :
          /\ host_confirmed = H /\ key_confirmed = (H # {})
          /\ known = [h \in Hosts |-> {i \in {1} : h \in H /\ i \notin Taken[h]}]
    /\ solving = NoHost
    /\ sent = [h \in Hosts |-> FALSE]
    /\ request = [h \in Hosts |-> None] /\ reply = [h \in Hosts |-> "none"]
    /\ checks = {}
    /\ faults = 0 /\ changes = 0 /\ strategies = 0 /\ losses = 0
    /\ lost = FALSE /\ blind = FALSE

-----------------------------------------------------------------------------
(* start_all *)

(* The servers are read ... *)
ReadServers ==
    /\ pc = "read"
    /\ pc' = "clear"
    /\ solving' = NoHost
    /\ used' = servers
    /\ lost' = FALSE /\ blind' = FALSE
    /\ UNCHANGED <<servers, running, should_exit, checks, id, key_confirmed, host_confirmed,
                   sent, request, reply, known, faults, changes, strategies, losses>>

(* ... and SHOULD_EXIT is cleared, whoever has set it.  Each task begins    *)
(* with a socket of its own.                                                *)
StartTasks ==
    /\ pc = "clear"
    /\ pc' = "run"
    /\ should_exit' = FALSE
    /\ running' = used
    /\ sent' = [h \in Hosts |-> FALSE]
    /\ request' = [h \in Hosts |-> None] /\ reply' = [h \in Hosts |-> "none"]
    /\ UNCHANGED <<servers, used, checks, config, known, bounds>>

(* join_all: all have ended. *)
AllEnded ==
    /\ pc = "run" /\ running = {}
    /\ pc' = "read"
    /\ UNCHANGED <<servers, used, running, should_exit, checks, config, sent, request, reply,
                   known, bounds>>

-----------------------------------------------------------------------------
(* Who changes the list.  The settings of another process (Data::Options,   *)
(* SyncConfig) and a server (ConfigureUpdate) do it under a CheckIfRestart,  *)
(* or a variable v0, which remembers the list, and compares when the new one *)
(* is stored and answered.  Several may be under way.                       *)

(* The list is remembered. *)
Remember ==
    /\ changes < MaxChanges
    /\ changes' = changes + 1
    /\ checks' = checks \cup {[n |-> changes', old |-> servers, stored |-> FALSE]}
    /\ UNCHANGED <<pc, servers, used, running, should_exit, config, sent, request, reply,
                   known, faults, strategies, losses, lost, blind>>

(* New servers are stored; the answer is sent meanwhile.  A check that       *)
(* remembers an older list may find nothing new in them.                     *)
Store(c, S) ==
    /\ ~c.stored
    /\ servers' = S
    /\ checks' = (checks \ {c}) \cup {[c EXCEPT !.stored = TRUE]}
    /\ blind' = IF S = servers THEN blind ELSE S = c.old
    /\ UNCHANGED <<pc, used, running, should_exit, config, sent, request, reply, known,
                   faults, changes, strategies, losses, lost>>

(* Mutant of Changed: the number of servers is compared. *)
ChangedCount(S) == Cardinality(S) # Cardinality(servers)

Changed(old) == old # servers

(* The check is dropped: if the list differs, restart(). *)
DropCheck(c) ==
    /\ c.stored
    /\ checks' = checks \ {c}
    /\ should_exit' = (should_exit \/ Changed(c.old))
    /\ lost' = (lost \/ (pc = "clear" /\ used # servers /\ Changed(c.old)))
    /\ UNCHANGED <<pc, servers, used, running, config, sent, request, reply, known, faults,
                   changes, strategies, losses, blind>>

(* A strategy of the API server is stored without a check. *)
StoreStrategy(S) ==
    /\ strategies < MaxStrategies
    /\ strategies' = strategies + 1
    /\ servers' = S
    /\ blind' = (blind \/ S # servers)
    /\ UNCHANGED <<pc, used, running, should_exit, checks, config, sent, request, reply,
                   known, faults, changes, losses, lost>>

ChangeServers ==
    \/ Remember
    \/ \E c \in checks : DropCheck(c)
    \/ \E S \in SUBSET Hosts \ {{}} : StoreStrategy(S) \/ \E c \in checks : Store(c, S)

-----------------------------------------------------------------------------
(* How the tasks end. *)

(* Mutant of EndTask: the other tasks are not told. *)
EndTaskAlone(h) ==
    /\ running' = running \ {h}
    /\ UNCHANGED should_exit

(* A task ends, and "once one exits, the others also exit".                 *)
EndTask(h) ==
    /\ running' = running \ {h}
    /\ should_exit' = TRUE

Exit(h) ==
    /\ h \in running /\ should_exit
    /\ EndTask(h)
    /\ UNCHANGED <<pc, servers, used, checks, config, sent, request, reply, known, bounds>>

(* The socket fails. *)
Fail(h) ==
    /\ h \in running /\ faults < MaxFaults
    /\ faults' = faults + 1
    /\ EndTask(h)
    /\ UNCHANGED <<pc, servers, used, checks, config, sent, request, reply, known, changes,
                   strategies, losses, lost, blind>>

-----------------------------------------------------------------------------
(* start_udp *)

MyTurn(h) == solving \in {NoHost, h}

(* register_peer: nothing while another server's mismatch is being solved.  *)
SendRegisterPeer(h) ==
    IF ~MyTurn(h) THEN UNCHANGED request
    ELSE IF ~key_confirmed \/ h \notin host_confirmed THEN Send(h, RegisterPk(id))
    ELSE Send(h, RegisterPeer(id))

(* Mutant of MayRegister: a request without an answer is waited for.        *)
MayRegisterOnce(h) == ~sent[h]

(* The timer ticks: the registration has expired, or the answer is late,    *)
(* because it is lost or still under way.                                   *)
MayRegister(h) == TRUE

Idle(h) == request[h] = None /\ reply[h] = "none"

Tick(h) ==
    /\ h \in running /\ ~should_exit
    /\ MayRegister(h)
    /\ losses' = losses + IF Idle(h) THEN 0 ELSE 1
    /\ losses' <= MaxLosses
    /\ SendRegisterPeer(h)
    /\ sent' = [sent EXCEPT ![h] = TRUE]
    /\ UNCHANGED <<loop, config, reply, known, faults, changes, strategies, lost,
                   blind>>

(* Any answer does for the request that is awaited (update_latency). *)
Receive(h, r) ==
    /\ h \in running /\ reply[h] = r
    /\ reply' = [reply EXCEPT ![h] = "none"]
    /\ sent' = [sent EXCEPT ![h] = FALSE]
    /\ UNCHANGED <<loop, known, bounds>>

(* RegisterPeerResponse *)
PeerResponse(h) ==
    /\ Receive(h, "peer")
    /\ UNCHANGED <<config, request>>

PeerResponseRequestPk(h) ==
    /\ Receive(h, "peer_request_pk")
    /\ Send(h, RegisterPk(id))
    /\ UNCHANGED config

(* RegisterPkResponse, OK, whichever server is being solved for. *)
PkOk(h) ==
    /\ Receive(h, "pk_ok")
    /\ key_confirmed' = TRUE
    /\ host_confirmed' = host_confirmed \cup {h}
    /\ solving' = NoHost
    /\ UNCHANGED <<id, request>>

(* RegisterPkResponse, UUID_MISMATCH: handle_uuid_mismatch.  Whether        *)
(* set_key_confirmed(false) also forgets the hosts is the library's matter. *)
PkMismatch(h) ==
    /\ Receive(h, "pk_mismatch")
    /\ IF MyTurn(h)
       THEN /\ key_confirmed' = FALSE
            /\ host_confirmed' \in {host_confirmed, {}}
            /\ id < MaxId /\ id' = id + 1
            /\ solving' = h
            /\ Send(h, RegisterPk(id'))
       ELSE UNCHANGED <<config, request>>

-----------------------------------------------------------------------------
(* A rendezvous server, which is not part of this code: it knows the keys   *)
(* it has accepted, refuses the ids of others and asks for keys it misses.  *)
Answer(h, m) ==
    CASE m.type = "pk" /\ m.id \in Taken[h] -> "pk_mismatch"
      [] m.type = "pk" /\ m.id \notin Taken[h] -> "pk_ok"
      [] m.type = "peer" /\ m.id \in known[h] -> "peer"
      [] m.type = "peer" /\ m.id \notin known[h] -> "peer_request_pk"

Serve(h) ==
    /\ request[h] # None
    /\ LET m == request[h]
       IN  /\ reply' = [reply EXCEPT ![h] = Answer(h, m)]
           /\ known' = [known EXCEPT ![h] =
                           IF Answer(h, m) = "pk_ok" THEN @ \cup {m.id} ELSE @]
    /\ request' = [request EXCEPT ![h] = None]
    /\ UNCHANGED <<loop, config, sent, bounds>>

(* The network loses a request, or an answer. *)
Lose(h) ==
    /\ losses < MaxLosses
    /\ losses' = losses + 1
    /\ \/ request[h] # None /\ request' = [request EXCEPT ![h] = None] /\ UNCHANGED reply
       \/ reply[h] # "none" /\ reply' = [reply EXCEPT ![h] = "none"] /\ UNCHANGED request
    /\ UNCHANGED <<loop, config, sent, known, faults, changes, strategies, lost,
                   blind>>

Handle(h) ==
    PeerResponse(h) \/ PeerResponseRequestPk(h) \/ PkOk(h) \/ PkMismatch(h)

StartAll == ReadServers \/ StartTasks \/ AllEnded

Next ==
    \/ StartAll
    \/ ChangeServers
    \/ \E h \in Hosts : Exit(h) \/ Fail(h) \/ Tick(h) \/ Handle(h) \/ Serve(h) \/ Lose(h)

Spec == Init /\ [][Next]_vars

(* Each loop takes its turns; what is not lost arrives. *)
FairSpec ==
    /\ Spec
    /\ WF_vars(StartAll)
    /\ \A h \in Hosts :
          WF_vars(Exit(h) \/ Tick(h)) /\ WF_vars(Serve(h)) /\ WF_vars(Handle(h))

-----------------------------------------------------------------------------
(* Type invariant. *)
TypeOK ==
    /\ pc \in {"read", "clear", "run"}
    /\ servers \in SUBSET Hosts /\ used \in SUBSET Hosts /\ running \in SUBSET Hosts
    /\ should_exit \in BOOLEAN /\ key_confirmed \in BOOLEAN /\ lost \in BOOLEAN
    /\ blind \in BOOLEAN /\ checks \in SUBSET Checks
    /\ id \in 1..MaxId
    /\ host_confirmed \in SUBSET Hosts
    /\ solving \in Hosts \cup {NoHost}
    /\ sent \in [Hosts -> BOOLEAN]
    /\ request \in [Hosts -> Requests] /\ reply \in [Hosts -> Replies]
    /\ known \in [Hosts -> SUBSET (1..MaxId)]
    /\ faults \in 0..MaxFaults /\ changes \in 0..MaxChanges /\ strategies \in 0..MaxStrategies
    /\ losses \in 0..MaxLosses

(* Whoever holds the others back while it changes the id is at work, or all *)
(* of them are about to end.                                                *)
SolverRuns == solving # NoHost => solving \in running \/ should_exit

(* A change of the list of servers is not forgotten while tasks run with     *)
(* the old one: they are told to end, or a check that will tell them is      *)
(* still to be dropped.  It is forgotten if restart() fell between the       *)
(* reading of the list and the clearing of SHOULD_EXIT, if it was a          *)
(* strategy's, or if its check remembers a list that was overtaken and       *)
(* stored again.                                                             *)
ChangeNoticed ==
    pc = "run" /\ used # servers =>
        should_exit \/ (\E c \in checks : c.old # servers) \/ lost \/ blind

Registered == pc = "run" /\ running = used /\ \A h \in used : id \in known[h]

(* Over a lossy network, through refused ids, socket errors and restarts,   *)
(* every server in use ends up knowing this host's id, which then stays.    *)
Settles == <>[]Registered

=============================================================================
