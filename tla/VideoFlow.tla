------------------------------ MODULE VideoFlow ------------------------------
(***************************************************************************)
(* The video services of the host (src/rustdesk/src/server/                 *)
(* video_service.rs): one worker per captured display, and the connections  *)
(* that receive their frames.  A worker sends a frame to its subscribers    *)
(* and then waits for them to fetch it.  All workers take the answers from  *)
(* one queue, FRAME_FETCHED_NOTIFIER, in which an answer names a connection *)
(* but neither a display nor a frame.                                       *)
(*                                                                         *)
(* The subscriber maps are those of ServiceInner; their races with          *)
(* Server::subscribe are the subject of Service, so subscribing is one step *)
(* here.                                                                    *)
(***************************************************************************)
EXTENDS ServiceInner, SequencesExt

CONSTANTS Conns,      \* connection ids
          Displays,   \* displays with a video service
          MaxRounds,  \* rounds of 300 ms in the wait of 3000 ms
          MaxSlack    \* cap of the ghost `slack`, and of the queues with it

ASSUME BoundsAssumption == MaxRounds \in Nat \ {0} /\ MaxSlack \in Nat
ASSUME DisplaysAssumption == IsFiniteSet(Displays)

VARIABLES
    svc,       \* svc[d]: ServiceInner of the display's service
    pc,        \* pc[d]: what its worker does next
    fresh,     \* fresh[d]: the encoder has made no frame, the next is a key frame
    sent,      \* sent[d]: VideoFrameController.send_conn_ids
    fetched,   \* fetched[d]: fetched_conn_ids of the wait in progress
    rounds,    \* rounds[d]: 300 ms of that wait that have passed
    notifier,  \* FRAME_FETCHED_NOTIFIER, ids of connections
    holder,    \* the worker inside recv, which holds the receiver's lock
    conn,      \* conn[c]: the connection's loop
    queue,     \* queue[c]: displays of the frames c has not fetched, in order
    first,     \* first[d][c]: the first frame c got since it subscribed to d
    takeover,  \* ghost: promoted to a running encoder that nobody else watched
    slack      \* ghost: waits that ended without an answer from each receiver

vars == <<svc, pc, fresh, sent, fetched, rounds, notifier, holder, conn, queue,
          first, takeover, slack>>
services == <<svc, first, takeover>>
waiting == <<sent, fetched, rounds>>

None == "none"
MaxQueue == Cardinality(Displays) + MaxSlack

(* Frames and answers of c that are under way; SendFrame caps them.         *)
InFlight(c) == Len(queue[c]) + Cardinality({i \in DOMAIN notifier : notifier[i] = c})

Init ==
    /\ svc = [d \in Displays |-> NewService]
    /\ pc = [d \in Displays |-> "idle"]
    /\ fresh = [d \in Displays |-> FALSE]
    /\ sent = [d \in Displays |-> {}]
    /\ fetched = [d \in Displays |-> {}]
    /\ rounds = [d \in Displays |-> 0]
    /\ notifier = <<>>
    /\ holder = None
    /\ conn = [c \in Conns |-> "open"]
    /\ queue = [c \in Conns |-> <<>>]
    /\ first = [d \in Displays |-> [c \in Conns |-> None]]
    /\ takeover = [d \in Displays |-> {}]
    /\ slack = 0

-----------------------------------------------------------------------------
(* The connections. *)

(* add_connection for the primary display, capture_displays for the others. *)
Subscribe(c, d) ==
    /\ conn[c] = "open"
    /\ c \notin Members(svc[d])
    /\ svc' = [svc EXCEPT ![d] = OnSubscribe(@, c, TRUE)]
    /\ UNCHANGED <<pc, fresh, waiting, notifier, holder, conn, queue, first, takeover, slack>>

Leave(c, D) ==
    /\ svc' = [d \in Displays |-> IF d \in D THEN OnUnsubscribe(svc[d], c) ELSE svc[d]]
    /\ first' = [d \in Displays |-> IF d \in D THEN [first[d] EXCEPT ![c] = None] ELSE first[d]]
    /\ takeover' = [d \in Displays |-> IF d \in D THEN takeover[d] \ {c} ELSE takeover[d]]

Unsubscribe(c, d) ==
    /\ conn[c] = "open"
    /\ c \in Members(svc[d])
    /\ Leave(c, {d})
    /\ UNCHANGED <<pc, fresh, waiting, notifier, holder, conn, queue, slack>>

Answer(c, times) ==
    /\ conn[c] = "open"
    /\ queue[c] # <<>>
    /\ queue' = [queue EXCEPT ![c] = Tail(@)]
    /\ notifier' = notifier \o [i \in 1..times |-> c]
    /\ UNCHANGED <<services, pc, fresh, waiting, holder, conn, slack>>

(* Mutants: the peer's VideoReceived is counted on top of the loop's own     *)
(* answer, or neither is.                                                   *)
FetchTwice(c) == Answer(c, 2)
FetchUnanswered(c) == Answer(c, 0)

(* The loop takes a frame from rx_video and answers for the peer, or the    *)
(* peer's VideoReceived comes back: either way in the order of the frames.  *)
Fetch(c) == Answer(c, 1)

(* The loop has ended: an answer in its name, so that nobody waits for it.  *)
(* It is a subscriber still, and what is queued for it stays unfetched.     *)
NotifyClose(c) ==
    /\ conn[c] = "open"
    /\ conn' = [conn EXCEPT ![c] = "closing"]
    /\ notifier' = Append(notifier, c)
    /\ UNCHANGED <<services, pc, fresh, waiting, holder, queue, slack>>

(* Server::remove_connection *)
RemoveConnection(c) ==
    /\ conn[c] = "closing"
    /\ conn' = [conn EXCEPT ![c] = "closed"]
    /\ queue' = [queue EXCEPT ![c] = <<>>]
    /\ Leave(c, Displays)
    /\ UNCHANGED <<pc, fresh, waiting, notifier, holder, slack>>

-----------------------------------------------------------------------------
(* The worker of display d: ServiceTmpl::run around video_service::run. *)

More(n) == IF n < MaxSlack THEN n + 1 ELSE n

Goto(d, label) == pc' = [pc EXCEPT ![d] = label]

(* run is entered with subscribers: capturer and encoder are set up. *)
Enter(d) ==
    /\ pc[d] = "idle"
    /\ HasSubscribes(svc[d])
    /\ Goto(d, "check")
    /\ fresh' = [fresh EXCEPT ![d] = TRUE]
    /\ UNCHANGED <<services, waiting, notifier, holder, conn, queue, slack>>

(* Mutant: loop without sp.ok(). *)
CheckOkNever(d) ==
    /\ pc[d] = "check"
    /\ Goto(d, "frame")
    /\ sent' = [sent EXCEPT ![d] = {}]
    /\ UNCHANGED <<services, fresh, fetched, rounds, notifier, holder, conn, queue, slack>>

(* while sp.ok(), and the reset of the frame controller before a frame. *)
CheckOk(d) ==
    /\ pc[d] = "check"
    /\ Goto(d, IF Ok(svc[d]) THEN "frame" ELSE "idle")
    /\ sent' = [sent EXCEPT ![d] = {}]
    /\ UNCHANGED <<services, fresh, fetched, rounds, notifier, holder, conn, queue, slack>>

(* Refresh, codec, quality, privacy mode, resolution or capture error: run  *)
(* returns an error and the encoder is dropped.  The privacy mode is looked *)
(* at in the wait as well, which then ends without its answers.             *)
Switch(d) ==
    /\ pc[d] \in {"check", "frame", "wait"}
    /\ Goto(d, "idle")
    /\ slack' = IF pc[d] = "wait" /\ sent[d] # {} THEN More(slack) ELSE slack
    /\ UNCHANGED <<services, fresh, waiting, notifier, holder, conn, queue>>

BeginWait(d) ==
    /\ Goto(d, "wait")
    /\ fetched' = [fetched EXCEPT ![d] = {}]
    /\ rounds' = [rounds EXCEPT ![d] = 0]

(* The capturer has a picture (or an old one is encoded again), or nothing  *)
(* to send this time.                                                       *)
Capture(d) ==
    /\ pc[d] = "frame"
    /\ \/ Goto(d, "snapshot") /\ UNCHANGED <<fetched, rounds>>
       \/ BeginWait(d)
    /\ UNCHANGED <<services, fresh, sent, notifier, holder, conn, queue, slack>>

(* snapshot in handle_one_frame, whose callback bails when the encoder has  *)
(* subscribers already.                                                     *)
Snapshot(d) ==
    /\ pc[d] = "snapshot"
    /\ Goto(d, IF svc[d].new_subscribes = {} THEN "encode" ELSE "callback")
    /\ UNCHANGED <<services, fresh, waiting, notifier, holder, conn, queue, slack>>

(* Mutant: the callback lets a joiner share the running encoder. *)
SnapshotCallbackShares(d) ==
    /\ pc[d] = "callback"
    /\ Goto(d, "swap")
    /\ UNCHANGED <<services, fresh, waiting, notifier, holder, conn, queue, slack>>

SnapshotCallback(d) ==
    /\ pc[d] = "callback"
    /\ Goto(d, IF svc[d].subscribes # {} THEN "swap_and_switch" ELSE "swap")
    /\ UNCHANGED <<services, fresh, waiting, notifier, holder, conn, queue, slack>>

(* Drop for ServiceSwap, on success and on SWITCH. *)
Swap(d) ==
    /\ pc[d] \in {"swap", "swap_and_switch"}
    /\ Goto(d, IF pc[d] = "swap" THEN "encode" ELSE "idle")
    /\ svc' = [svc EXCEPT ![d] = SwapNewSubscribes(@)]
    /\ takeover' = IF pc[d] = "swap" /\ ~fresh[d] /\ svc[d].subscribes = {}
                   THEN [takeover EXCEPT ![d] = @ \cup svc[d].new_subscribes] ELSE takeover
    /\ UNCHANGED <<fresh, waiting, notifier, holder, conn, queue, first, slack>>

(* encode_to_message, send_video_frame and set_send *)
SendFrame(d) ==
    /\ pc[d] = "encode"
    /\ sent' = [sent EXCEPT ![d] = svc[d].subscribes]
    /\ queue' = [c \in Conns |->
          IF c \in svc[d].subscribes /\ InFlight(c) < MaxQueue
          THEN Append(queue[c], d) ELSE queue[c]]
    /\ first' = [first EXCEPT ![d] = [c \in Conns |->
          IF c \in svc[d].subscribes /\ @[c] = None
          THEN IF fresh[d] THEN "key" ELSE "delta" ELSE @[c]]]
    /\ fresh' = [fresh EXCEPT ![d] = FALSE]
    /\ BeginWait(d)
    /\ UNCHANGED <<svc, notifier, holder, conn, takeover, slack>>

(* Encoding fails: nothing is sent, or the encoder is given up. *)
EncodeFails(d) ==
    /\ pc[d] = "encode"
    /\ \/ BeginWait(d)
       \/ Goto(d, "idle") /\ UNCHANGED <<fetched, rounds>>
    /\ UNCHANGED <<services, fresh, sent, notifier, holder, conn, queue, slack>>

(* try_wait_next: returns at once without receivers, else takes the lock.   *)
TryWaitNext(d) ==
    /\ pc[d] = "wait"
    /\ \/ sent[d] = {} /\ Goto(d, "received") /\ UNCHANGED holder
       \/ sent[d] # {} /\ holder = None /\ holder' = d /\ Goto(d, "recv")
    /\ UNCHANGED <<services, fresh, waiting, notifier, conn, queue, slack>>

(* 300 ms pass for d and for whoever waits for the lock, up to the 3000 ms  *)
(* after which wait_begin.elapsed() ends a wait.                            *)
RoundPasses(d) ==
    rounds' = [e \in Displays |->
          IF (e = d \/ pc[e] = "wait") /\ rounds[e] < MaxRounds
          THEN rounds[e] + 1 ELSE rounds[e]]

(* An answer, whoever it is from and however late in its round it comes, and *)
(* the two tests that end the wait.                                         *)
Receive(d) ==
    /\ pc[d] = "recv"
    /\ notifier # <<>>
    /\ notifier' = Tail(notifier)
    /\ holder' = None
    /\ fetched' = [fetched EXCEPT ![d] = @ \cup {Head(notifier)}]
    /\ RoundPasses(d) \/ UNCHANGED rounds
    /\ Goto(d, CASE Cardinality(fetched'[d]) >= Cardinality(sent[d]) -> "received"
                 [] OTHER -> IF rounds'[d] >= MaxRounds THEN "gave_up" ELSE "wait")
    /\ slack' = IF pc'[d] # "wait" /\ fetched'[d] # sent[d] THEN More(slack) ELSE slack
    /\ UNCHANGED <<services, fresh, sent, conn, queue>>

(* Mutant: the wait's clock is started again in every round. *)
ReceiveTimeoutRestarts(d) ==
    /\ pc[d] = "recv"
    /\ notifier = <<>>
    /\ holder' = None
    /\ Goto(d, "wait")
    /\ UNCHANGED <<services, fresh, waiting, notifier, conn, queue, slack>>

(* A round of 300 ms without an answer.                                     *)
ReceiveTimeout(d) ==
    /\ pc[d] = "recv"
    /\ notifier = <<>>
    /\ holder' = None
    /\ RoundPasses(d)
    /\ Goto(d, IF rounds'[d] = MaxRounds THEN "gave_up" ELSE "wait")
    /\ slack' = IF pc'[d] = "gave_up" THEN More(slack) ELSE slack
    /\ UNCHANGED <<services, fresh, sent, fetched, notifier, conn, queue>>

(* The rest of the frame's time. *)
Pace(d) ==
    /\ pc[d] \in {"received", "gave_up"}
    /\ Goto(d, "check")
    /\ UNCHANGED <<services, fresh, waiting, notifier, holder, conn, queue, slack>>

-----------------------------------------------------------------------------
Conn(c) ==
    \/ \E d \in Displays : Subscribe(c, d) \/ Unsubscribe(c, d)
    \/ Fetch(c) \/ NotifyClose(c) \/ RemoveConnection(c)

Work(d) ==
    \/ Enter(d) \/ CheckOk(d) \/ Capture(d)
    \/ Snapshot(d) \/ SnapshotCallback(d) \/ Swap(d)
    \/ SendFrame(d) \/ EncodeFails(d)
    \/ TryWaitNext(d) \/ Receive(d) \/ ReceiveTimeout(d) \/ Pace(d)

(* No connection is left and the workers hibernate. *)
Quiet ==
    /\ \A c \in Conns : conn[c] = "closed"
    /\ \A d \in Displays : pc[d] = "idle"
    /\ UNCHANGED vars

Next ==
    \/ \E c \in Conns : Conn(c)
    \/ \E d \in Displays : Work(d) \/ Switch(d)
    \/ Quiet

Spec == Init /\ [][Next]_vars

(* The worker keeps running, the tokio mutex serves its waiters in turn, and *)
(* neither a switch, nor an empty capture, nor a failing encoder comes at    *)
(* every turn.  Connections owe nothing: a peer may never answer.            *)
Fairness ==
    \A d \in Displays :
        /\ WF_vars(Work(d))
        /\ SF_vars(TryWaitNext(d))
        /\ SF_vars(CheckOk(d))
        /\ SF_vars(Capture(d) /\ pc'[d] = "snapshot")
        /\ SF_vars(SendFrame(d))

LiveSpec == Spec /\ Fairness

-----------------------------------------------------------------------------
Pcs == {"idle", "check", "frame", "snapshot", "callback", "swap", "swap_and_switch",
        "encode", "wait", "recv", "received", "gave_up"}

(* Types of the services, the workers and the connections.                  *)
TypeOK ==
    /\ svc \in [Displays -> Inner(Conns)]
    /\ pc \in [Displays -> Pcs]
    /\ fresh \in [Displays -> BOOLEAN]
    /\ sent \in [Displays -> SUBSET Conns]
    /\ fetched \in [Displays -> SUBSET Conns]
    /\ rounds \in [Displays -> 0..MaxRounds]
    /\ notifier \in Seq(Conns)
    /\ holder \in Displays \cup {None}
    /\ conn \in [Conns -> {"open", "closing", "closed"}]
    /\ queue \in [Conns -> Seq(Displays)]
    /\ first \in [Displays -> [Conns -> {None, "key", "delta"}]]
    /\ takeover \in [Displays -> SUBSET Conns]
    /\ slack \in 0..MaxSlack

(* A frame that cannot be decoded by itself is nobody's first frame: who    *)
(* joins a running encoder is promoted together with a switch to a new one. *)
(* The exception is a connection that joins a display in the moment its     *)
(* last viewer leaves it, before the worker has noticed.                    *)
KeyFrameFirst ==
    \A d \in Displays, c \in Conns : first[d][c] = "delta" => c \in takeover[d]

(* Frames do not pile up in a connection: each display has at most one on   *)
(* its way, and one more for each wait that was given up, was cut short by  *)
(* a switch, or was ended by an answer that another connection owed.        *)
Backpressure ==
    \A c \in Conns : slack < MaxSlack /\ conn[c] = "open" =>
        InFlight(c) <= Cardinality(Displays) + slack

(* No answer of a wait is lost: after 3 s it is given up only for a receiver *)
(* whose answer it has not taken and that has not fetched the frame, or has *)
(* ended, or whose answer is next in the queue because another one used up  *)
(* the time.                                                                *)
GivesUpOnMissing ==
    [][\A d \in Displays : pc[d] # "gave_up" /\ pc'[d] = "gave_up" =>
          \E c \in sent[d] \ fetched'[d] :
              Contains(queue[c], d) \/ conn[c] # "open" \/ Contains(notifier', c)]_vars

(* A display that keeps its viewers, and whose picture keeps changing, keeps *)
(* encoding frames for them, even if one of them never answers.             *)
FlowsOn ==
    \A d \in Displays :
        (<>[](svc[d].new_subscribes = {}) /\ <>[](svc[d].subscribes # {}))
            => []<>(pc[d] = "encode")

(* The capture of a display nobody watches ends, even from inside a wait.   *)
StopsUnwatched ==
    \A d \in Displays : ~HasSubscribes(svc[d]) ~> (pc[d] = "idle" \/ HasSubscribes(svc[d]))
=============================================================================
