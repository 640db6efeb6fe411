------------------------------- MODULE Service -------------------------------
(***************************************************************************)
(* One service of the host (src/rustdesk/src/server/service.rs) with the    *)
(* three parties that take its lock:                                        *)
(*                                                                         *)
(*   - the connections, which reach it through Server (server.rs) and hold  *)
(*     the Server lock meanwhile, so one operation of theirs runs at a time;*)
(*   - the worker thread of ServiceTmpl::repeat, whose callback is that of  *)
(*     the mouse cursor service (input_service.rs, run_cursor): poll the    *)
(*     source, send a change to the subscribers, then the snapshot;         *)
(*   - the owner of Server, whose drop joins the worker.                    *)
(*                                                                         *)
(* Each read() or write() of the RwLock is a step of its own.  The rust     *)
(* toolchain of the build (1.75) ends the first read guard of is_subed      *)
(* before it takes the second, so another thread can write in between.      *)
(***************************************************************************)
EXTENDS ServiceInner

CONSTANTS Conns,         \* connection ids, Subscriber::id
          States,        \* contents the polled source can show
          Nothing,       \* no content: the default of the worker's state
          NeedSnapshot   \* ServiceInner.need_snapshot

ASSUME NothingAssumption == Nothing \notin States
ASSUME NeedSnapshotAssumption == NeedSnapshot \in BOOLEAN

VARIABLES
    svc,        \* ServiceInner
    worker,     \* what the worker thread does next
    may_reset,  \* the worker's flag: the callback ran since the last reset
    state,      \* the worker's last content (StateCursor.hcursor, cursor_data)
    srv,        \* the Server lock: the operation that holds it
    phase,      \* phase[c]: the connection in Server.connections
    heard,      \* heard[c]: last content sent to c since it subscribed
    late,       \* ghost: subscribed after the snapshot was sent, before the swap
    revoked,    \* ghost: connections whose last operation was an unsubscription
    slipped     \* ghost: moved by a swap between the two reads of is_subed

vars == <<svc, worker, may_reset, state, srv, phase, heard, late, revoked, slipped>>
ghosts == <<heard, late, revoked, slipped>>

Contents == States \cup {Nothing}

Free == [op |-> "free"]
Subscribing(pc, c, sub, hit) == [op |-> pc, conn |-> c, sub |-> sub, hit |-> hit]

Init ==
    /\ svc = NewService
    /\ worker = "loop"
    /\ may_reset = FALSE
    /\ state = Nothing
    /\ srv = Free
    /\ phase = [c \in Conns |-> "new"]
    /\ heard = [c \in Conns |-> Nothing]
    /\ late = {} /\ revoked = {} /\ slipped = {}

-----------------------------------------------------------------------------
(* The connections, through Server. *)

(* Ghosts of a subscription and of its end. *)
Arrive(c) ==
    /\ late' = IF worker = "swap" /\ c \notin Members(svc) THEN late \cup {c} ELSE late
    /\ UNCHANGED heard

Forget(c) ==
    /\ heard' = [heard EXCEPT ![c] = Nothing]
    /\ late' = late \ {c}

(* Server::add_connection: subscribed unless the service is in noperms. *)
AddConnection(c, permitted) ==
    /\ srv = Free
    /\ phase[c] = "new"
    /\ phase' = [phase EXCEPT ![c] = "open"]
    /\ \/ permitted /\ svc' = OnSubscribe(svc, c, NeedSnapshot) /\ Arrive(c)
                    /\ revoked' = revoked \ {c}
       \/ ~permitted /\ UNCHANGED <<svc, heard, late, revoked>>
    /\ UNCHANGED <<worker, may_reset, state, srv, slipped>>

(* Server::remove_connection: also for a connection that was never added. *)
RemoveConnection(c) ==
    /\ srv = Free
    /\ phase[c] # "closed"
    /\ phase' = [phase EXCEPT ![c] = "closed"]
    /\ svc' = OnUnsubscribe(svc, c)
    /\ Forget(c)
    /\ revoked' = revoked \cup {c}
    /\ slipped' = slipped \ {c}
    /\ UNCHANGED <<worker, may_reset, state, srv>>

(* Server::subscribe, first read of is_subed: `subscribes`.  A permission     *)
(* can be switched, and so c subscribed, before add_connection.             *)
SubscribeBegin(c, sub) ==
    /\ srv = Free
    /\ phase[c] # "closed"
    /\ srv' = IF c \in svc.subscribes THEN Subscribing("decide", c, sub, TRUE)
              ELSE Subscribing("second_read", c, sub, FALSE)
    /\ UNCHANGED <<svc, worker, may_reset, state, phase, ghosts>>

(* Second read of is_subed: `new_subscribes`. *)
SubscribeSecondRead ==
    /\ srv.op = "second_read"
    /\ srv' = Subscribing("decide", srv.conn, srv.sub, srv.conn \in svc.new_subscribes)
    /\ UNCHANGED <<svc, worker, may_reset, state, phase, ghosts>>

(* The rest of Server::subscribe: nothing to do, subscribe, or unsubscribe. *)
SubscribeDecide ==
    /\ srv.op = "decide"
    /\ LET c == srv.conn IN
       \/ /\ srv.hit = srv.sub
          /\ UNCHANGED <<svc, heard, late>>
       \/ /\ srv.hit # srv.sub /\ srv.sub
          /\ svc' = OnSubscribe(svc, c, NeedSnapshot)
          /\ Arrive(c)
       \/ /\ srv.hit # srv.sub /\ ~srv.sub
          /\ svc' = OnUnsubscribe(svc, c)
          /\ Forget(c)
    /\ revoked' = IF srv.sub THEN revoked \ {srv.conn} ELSE revoked \cup {srv.conn}
    /\ slipped' = IF srv.sub \/ srv.hit THEN slipped \ {srv.conn} ELSE slipped
    /\ srv' = Free
    /\ UNCHANGED <<worker, may_reset, state, phase>>

(* Drop for Server: join clears active, then waits for the worker. *)
ServerDrop ==
    /\ srv = Free
    /\ svc' = Deactivate(svc)
    /\ srv' = [op |-> "join"]
    /\ UNCHANGED <<worker, may_reset, state, phase, ghosts>>

JoinReturns ==
    /\ srv.op = "join"
    /\ worker = "exited"
    /\ srv' = [op |-> "joined"]
    /\ UNCHANGED <<svc, worker, may_reset, state, phase, ghosts>>

-----------------------------------------------------------------------------
(* The worker: ServiceTmpl::repeat with run_cursor as its callback. *)

(* Mutant of LoopHead: the flag is not looked at. *)
LoopHeadForever ==
    /\ worker = "loop"
    /\ worker' = "check"
    /\ UNCHANGED <<svc, may_reset, state, srv, phase, ghosts>>

LoopHead ==
    /\ worker = "loop"
    /\ worker' = IF svc.active THEN "check" ELSE "exited"
    /\ UNCHANGED <<svc, may_reset, state, srv, phase, ghosts>>

(* Mutant of CheckSubscribers: the state is never reset. *)
CheckSubscribersNoReset ==
    /\ worker = "check"
    /\ may_reset' = (may_reset \/ HasSubscribes(svc))
    /\ worker' = IF HasSubscribes(svc) THEN "poll" ELSE "loop"
    /\ UNCHANGED <<svc, state, srv, phase, ghosts>>

(* has_subscribes, and init or reset of the callback's state. *)
CheckSubscribers ==
    /\ worker = "check"
    /\ \/ /\ HasSubscribes(svc)
          /\ may_reset' = TRUE
          /\ worker' = "poll"
          /\ UNCHANGED state
       \/ /\ ~HasSubscribes(svc)
          /\ may_reset' = FALSE
          /\ state' = IF may_reset THEN Nothing ELSE state
          /\ worker' = "loop"
    /\ UNCHANGED <<svc, srv, phase, ghosts>>

(* get_cursor or get_cursor_data fails: the callback returns the error. *)
PollFails ==
    /\ worker = "poll"
    /\ worker' = "loop"
    /\ UNCHANGED <<svc, may_reset, state, srv, phase, ghosts>>

Send(S, v) == heard' = [c \in Conns |-> IF c \in S THEN v ELSE heard[c]]

(* The source shows v (or, with v = state, nothing new): a change goes to   *)
(* `subscribes` through send_shared.                                        *)
Poll(v) ==
    /\ worker = "poll"
    /\ worker' = "snapshot"
    /\ state' = v
    /\ IF v = state THEN UNCHANGED <<heard, late>>
       ELSE Send(svc.subscribes, v) /\ late' = late \ svc.subscribes
    /\ UNCHANGED <<svc, may_reset, srv, phase, revoked, slipped>>

(* Mutant of SnapshotBegin: looks at the wrong map. *)
SnapshotBeginWrongMap ==
    /\ worker = "snapshot"
    /\ worker' = IF svc.subscribes # {} THEN "send_new" ELSE "loop"
    /\ UNCHANGED <<svc, may_reset, state, srv, phase, ghosts>>

(* ServiceTmpl::snapshot: nothing to do when nobody waits. *)
SnapshotBegin ==
    /\ worker = "snapshot"
    /\ worker' = IF svc.new_subscribes # {} THEN "send_new" ELSE "loop"
    /\ UNCHANGED <<svc, may_reset, state, srv, phase, ghosts>>

(* Mutant of SnapshotSend: sends to the wrong map. *)
SnapshotSendWrongMap ==
    /\ worker = "send_new"
    /\ worker' = "swap"
    /\ Send(svc.subscribes, state)
    /\ UNCHANGED <<svc, may_reset, state, srv, phase, late, revoked, slipped>>

(* The snapshot's callback: ServiceSwap::send_shared to `new_subscribes`. *)
SnapshotSend ==
    /\ worker = "send_new"
    /\ worker' = "swap"
    /\ Send(svc.new_subscribes, state)
    /\ UNCHANGED <<svc, may_reset, state, srv, phase, late, revoked, slipped>>

(* Drop for ServiceSwap: whoever is in `new_subscribes` by now is promoted. *)
SnapshotSwap ==
    /\ worker = "swap"
    /\ worker' = "loop"
    /\ svc' = SwapNewSubscribes(svc)
    /\ slipped' = slipped \cup {c \in svc.new_subscribes :
                                  srv.op = "second_read" /\ srv.conn = c}
    /\ UNCHANGED <<may_reset, state, srv, phase, heard, late, revoked>>

-----------------------------------------------------------------------------
ConnOp == \E c \in Conns :
    \/ \E b \in BOOLEAN : AddConnection(c, b) \/ SubscribeBegin(c, b)
    \/ RemoveConnection(c)

Work ==
    \/ LoopHead \/ CheckSubscribers
    \/ PollFails \/ \E v \in States : Poll(v)
    \/ Poll(state)
    \/ SnapshotBegin \/ SnapshotSend \/ SnapshotSwap

(* The owner has joined the worker: nothing runs any more. *)
Finished == srv.op = "joined" /\ UNCHANGED vars

Next ==
    \/ ConnOp
    \/ SubscribeSecondRead \/ SubscribeDecide
    \/ ServerDrop \/ JoinReturns
    \/ Work
    \/ Finished

(* The worker thread and a connection inside Server::subscribe keep running; *)
(* a poll that is tried for ever succeeds some time.                         *)
Fairness ==
    /\ WF_vars(Work)
    /\ SF_vars(\E v \in States \cup {state} : Poll(v))
    /\ WF_vars(SubscribeSecondRead \/ SubscribeDecide)
    /\ WF_vars(JoinReturns)

Spec == Init /\ [][Next]_vars
LiveSpec == Spec /\ Fairness

-----------------------------------------------------------------------------
Pcs == {"loop", "check", "poll", "snapshot", "send_new", "swap", "exited"}

SubscribeOps ==
    [op : {"second_read", "decide"}, conn : Conns, sub : BOOLEAN, hit : BOOLEAN]

(* Types of the shared state and of the threads. *)
TypeOK ==
    /\ svc \in Inner(Conns)
    /\ worker \in Pcs
    /\ may_reset \in BOOLEAN
    /\ state \in Contents
    /\ srv \in {Free, [op |-> "join"], [op |-> "joined"]} \cup SubscribeOps
    /\ phase \in [Conns -> {"new", "open", "closed"}]
    /\ heard \in [Conns -> Contents]
    /\ late \subseteq Conns /\ revoked \subseteq Conns /\ slipped \subseteq Conns

(* A connection is in one of the two maps: on_unsubscribe looks in          *)
(* new_subscribes only when subscribes did not hold the connection, so one  *)
(* found in both would keep the second entry after it left.                 *)
Disjoint == svc.subscribes \cap svc.new_subscribes = {}

(* Between two rounds of the worker every subscriber has been sent the      *)
(* content the worker believes is known: a subscriber that joined while the *)
(* source stood still got it from the snapshot.  The exception, and the     *)
(* only one, is a connection that subscribed after the snapshot was sent    *)
(* and before ServiceSwap's drop promoted it.                               *)
InSync ==
    NeedSnapshot /\ worker = "loop" =>
        \A c \in svc.subscribes \ late : heard[c] = state

(* Once Server::subscribe(.., false) or remove_connection has returned, the *)
(* connection is in neither map, until it subscribes again; unless the swap *)
(* moved it between the two reads of is_subed, when the call returns with   *)
(* nothing done.  A service that needs no snapshot has no such case, and    *)
(* remove_connection, which does not ask is_subed, always takes effect.     *)
RevokeHolds == revoked \cap Members(svc) \subseteq (IF NeedSnapshot THEN slipped ELSE {})

(* A connection that waits for the snapshot is promoted, leaves, or sees    *)
(* the service stop: failing polls only delay it.                           *)
Promoted ==
    \A c \in Conns : c \in svc.new_subscribes ~> (c \notin svc.new_subscribes \/ ~svc.active)

(* When the last subscriber leaves, the callback's state is reset (for the  *)
(* cursor: keys held too long are released), unless somebody joins first.   *)
ResetWhenIdle ==
    (may_reset /\ ~HasSubscribes(svc)) ~> (~may_reset \/ HasSubscribes(svc) \/ ~svc.active)

(* The drop of Server returns: join waits for a worker that sees active.    *)
JoinTerminates == srv.op = "join" ~> srv.op = "joined"

(* The two maps, the snapshot and the worker implement plain membership:    *)
(* content reaches members only, and a message reaches them all at once.    *)
Abstract == INSTANCE Subscription WITH member <- Members(svc), up <- svc.active
ImplementsSubscription == Abstract!Spec
==============================================================================
