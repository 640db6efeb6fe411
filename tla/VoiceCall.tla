------------------------------ MODULE VoiceCall ------------------------------
(***************************************************************************)
(* A voice call between the peer of a session and the host.  Three loops    *)
(* take part, joined by queues that keep their order: the client's io loop  *)
(* (src/rustdesk/src/client/io_loop.rs), the host's connection              *)
(* (src/rustdesk/src/server/connection.rs) and the connection manager       *)
(* (src/rustdesk/src/ui_cm_interface.rs) whose user answers.                *)
(*                                                                         *)
(* A request carries the time it was made, and the answer carries it back.  *)
(* Neither side forgets a request when the call is closed, and nothing keeps *)
(* the client's user from asking again while a call is shown.  What the user *)
(* of either side clicks reaches its loop later: a button may have been     *)
(* pressed on a view of the call that is over when the loop reads it.       *)
(***************************************************************************)
EXTENDS Naturals, Sequences

CONSTANTS MaxRequests,   \* calls the client's user asks for
          MaxQueue       \* messages on the way when a user closes or answers

ASSUME MaxRequestsAssumption == MaxRequests \in Nat
ASSUME MaxQueueAssumption == MaxQueue \in Nat

VARIABLES
    clock,      \* req_timestamp of the last request
    pending,    \* the client's voice_call_request_timestamp, 0 for None
    mic,        \* the client's stop_voice_call_sender is Some
    status,     \* the client's VoiceCallStatus
    asked,      \* the host's voice_call_request_timestamp, 0 for None
    calling,    \* the host's voice_calling
    device,     \* VOICE_CALL_INPUT_DEVICE is Some
    manager,    \* the connection manager's view of the call
    toHost, toClient, toManager, fromManager,
    gone,       \* the connection has ended
    agreed,     \* history: requests the host's user accepted
    talk,       \* history: the request the client records for, 0 for none
    refused,    \* history: the host refused a caller who was recording, and since
                \* then has neither accepted a request nor hung up
    crossed     \* history: an answer or a hang-up met a call that was over (see Crossings)

client == <<clock, pending, mic, status, talk>>
host == <<asked, calling, device, refused>>
queues == <<toHost, toClient, toManager, fromManager>>
vars == <<client, host, manager, queues, gone, agreed, crossed>>

Request(t) == [type |-> "request", ts |-> t]

Response(t, accepted) ==
    [type |-> IF accepted THEN "accepted" ELSE "refused", ts |-> t]
CloseRequest == [type |-> "close", ts |-> 0]

Messages == [type : {"request", "accepted", "refused", "close"}, ts : 0..MaxRequests]
Statuses == {"notStarted", "waitingForResponse", "connected"}

(* Nothing is on its way between the three. *)
Quiet == toHost = <<>> /\ toClient = <<>> /\ toManager = <<>> /\ fromManager = <<>>

(* Crossings: the client closes, or asks again, while an answer is on its   *)
(* way to it; the host answers a request its caller no longer waits for;    *)
(* the manager hangs up when the next request is already waiting, or its    *)
(* hang-up reaches a client that has asked again.                           *)
AnswerUnderWay == \E i \in DOMAIN toClient : toClient[i].type \in {"accepted", "refused"}
NobodyWaits == asked # pending \/ status # "waitingForResponse"

Init ==
    /\ clock = 0 /\ pending = 0 /\ mic = FALSE /\ status = "notStarted"
    /\ asked = 0 /\ calling = FALSE /\ device = FALSE
    /\ manager = "idle"
    /\ toHost = <<>> /\ toClient = <<>> /\ toManager = <<>> /\ fromManager = <<>>
    /\ gone = FALSE
    /\ agreed = {} /\ talk = 0 /\ refused = FALSE /\ crossed = FALSE

-----------------------------------------------------------------------------
(* The client. *)

(* Data::NewVoiceCall, offered at any time.  A recording goes on.           *)
NewVoiceCall ==
    /\ ~gone
    /\ clock < MaxRequests
    /\ clock' = clock + 1
    /\ pending' = clock'
    /\ status' = "waitingForResponse"
    /\ toHost' = Append(toHost, Request(clock'))
    /\ crossed' = (crossed \/ AnswerUnderWay)
    /\ UNCHANGED <<mic, talk, host, manager, toClient, toManager, fromManager, gone, agreed>>

(* Data::CloseVoiceCall, from a button that was shown during some call: the  *)
(* pending request is kept.                                                 *)
CloseVoiceCall ==
    /\ ~gone /\ clock > 0
    /\ Len(toHost) + Len(toManager) < MaxQueue
    /\ mic' = FALSE /\ talk' = 0
    /\ status' = "notStarted"
    /\ toHost' = Append(toHost, CloseRequest)
    /\ crossed' = (crossed \/ AnswerUnderWay)
    /\ UNCHANGED <<clock, pending, host, manager, toClient, toManager, fromManager,
                   gone, agreed>>

(* VoiceCallRequest from the host: it can only close.  A client that does   *)
(* not record takes no notice.                                              *)
ClientRequest ==
    /\ ~gone /\ toClient # <<>> /\ Head(toClient).type = "close"
    /\ toClient' = Tail(toClient)
    /\ mic' = FALSE /\ talk' = 0
    /\ status' = IF mic THEN "notStarted" ELSE status
    /\ crossed' = (crossed \/ (mic /\ status = "waitingForResponse"))
    /\ UNCHANGED <<clock, pending, host, manager, toHost, toManager, fromManager,
                   gone, agreed>>

(* Mutant of Answer: the answer to another request is taken for this one's. *)
AnswerToAny(m) ==
    IF pending # 0
    THEN /\ mic' = (m.type = "accepted" \/ mic)
         /\ talk' = IF m.type = "accepted" THEN m.ts ELSE talk
         /\ status' = IF m.type = "accepted" THEN "connected" ELSE "notStarted"
    ELSE UNCHANGED <<mic, talk, status>>

Answer(m) ==
    IF pending # 0 /\ m.ts = pending
    THEN /\ mic' = (m.type = "accepted" \/ mic)
         /\ talk' = IF m.type = "accepted" THEN m.ts ELSE talk
         /\ status' = IF m.type = "accepted" THEN "connected" ELSE "notStarted"
    ELSE UNCHANGED <<mic, talk, status>>

(* VoiceCallResponse: the request is no longer pending, whatever it says.   *)
ClientResponse ==
    /\ ~gone /\ toClient # <<>> /\ Head(toClient).type \in {"accepted", "refused"}
    /\ toClient' = Tail(toClient)
    /\ Answer(Head(toClient))
    /\ pending' = 0
    /\ UNCHANGED <<clock, host, manager, toHost, toManager, fromManager,
                   gone, agreed, crossed>>

-----------------------------------------------------------------------------
(* The host's connection. *)

(* Mutant of HostRequest: only the first request of a connection is shown. *)
HostRequestOnce ==
    /\ ~gone /\ toHost # <<>> /\ Head(toHost).type = "request"
    /\ toHost' = Tail(toHost)
    /\ asked' = Head(toHost).ts
    /\ toManager' = IF Head(toHost).ts = 1 THEN Append(toManager, "incoming") ELSE toManager
    /\ UNCHANGED <<client, calling, device, refused, manager, toClient, fromManager,
                   gone, agreed, crossed>>

(* VoiceCallRequest with is_connect. *)
HostRequest ==
    /\ ~gone /\ toHost # <<>> /\ Head(toHost).type = "request"
    /\ toHost' = Tail(toHost)
    /\ asked' = Head(toHost).ts
    /\ toManager' = Append(toManager, "incoming")
    /\ UNCHANGED <<client, calling, device, refused, manager, toClient, fromManager,
                   gone, agreed, crossed>>

(* Mutant of Hangup: the input device of the call stays. *)
HangupKeepingDevice ==
    /\ calling' = FALSE /\ refused' = FALSE
    /\ toManager' = Append(toManager, "closed")
    /\ UNCHANGED <<asked, device>>

(* Mutant of Hangup: the manager, which may be asking, is not told. *)
HangupQuietly ==
    /\ calling' = FALSE /\ device' = FALSE /\ refused' = FALSE
    /\ UNCHANGED <<asked, toManager>>

(* close_voice_call: the request that waits for its answer is kept.         *)
Hangup ==
    /\ calling' = FALSE /\ device' = FALSE /\ refused' = FALSE
    /\ toManager' = Append(toManager, "closed")
    /\ UNCHANGED asked

(* VoiceCallRequest without is_connect. *)
HostClose ==
    /\ ~gone /\ toHost # <<>> /\ Head(toHost).type = "close"
    /\ toHost' = Tail(toHost)
    /\ Hangup
    /\ UNCHANGED <<client, manager, toClient, fromManager, gone, agreed, crossed>>

(* handle_voice_call: an answer nobody waits for changes nothing.  A refusal *)
(* leaves the input device as it is.                                        *)
HandleVoiceCall(accepted) ==
    IF asked = 0 THEN UNCHANGED <<host, toManager, toClient, agreed, crossed>>
    ELSE /\ asked' = 0
         /\ device' = (accepted \/ device)
         /\ calling' = accepted
         /\ refused' = (~accepted /\ (refused \/ mic))
         /\ toManager' = Append(toManager, IF accepted THEN "started" ELSE "closed")
         /\ toClient' = Append(toClient, Response(asked, accepted))
         /\ agreed' = IF accepted THEN agreed \cup {asked} ELSE agreed
         /\ crossed' = (crossed \/ NobodyWaits)

(* ipc::Data::VoiceCallResponse *)
ManagerAnswered ==
    /\ ~gone /\ fromManager # <<>> /\ Head(fromManager) \in {"accept", "refuse"}
    /\ fromManager' = Tail(fromManager)
    /\ HandleVoiceCall(Head(fromManager) = "accept")
    /\ UNCHANGED <<client, manager, toHost, gone>>

(* Mutant of ManagerClosed: the peer is not told. *)
ManagerClosedQuietly ==
    /\ ~gone /\ fromManager # <<>> /\ Head(fromManager) = "close"
    /\ fromManager' = Tail(fromManager)
    /\ Hangup
    /\ crossed' = (crossed \/ asked # 0)
    /\ UNCHANGED <<client, manager, toHost, toClient, gone, agreed>>

(* ipc::Data::CloseVoiceCall: the peer is told. *)
ManagerClosed ==
    /\ ~gone /\ fromManager # <<>> /\ Head(fromManager) = "close"
    /\ fromManager' = Tail(fromManager)
    /\ Hangup
    /\ toClient' = Append(toClient, CloseRequest)
    /\ crossed' = (crossed \/ asked # 0)
    /\ UNCHANGED <<client, manager, toHost, gone, agreed>>

-----------------------------------------------------------------------------
(* The connection manager. *)

(* voice_call_incoming, voice_call_started, voice_call_closed *)
ManagerUpdate ==
    /\ ~gone /\ toManager # <<>>
    /\ toManager' = Tail(toManager)
    /\ manager' = CASE Head(toManager) = "incoming" -> "incoming"
                    [] Head(toManager) = "started" -> "inCall"
                    [] Head(toManager) = "closed" -> "idle"
    /\ UNCHANGED <<client, host, toHost, toClient, fromManager, gone, agreed, crossed>>

(* The user's button: what is shown changes when the host answers, so it    *)
(* may be pressed again until then.                                         *)
Press(shown, data) ==
    /\ ~gone /\ manager = shown
    /\ Len(fromManager) + Len(toManager) < MaxQueue
    /\ fromManager' = Append(fromManager, data)
    /\ UNCHANGED <<client, host, manager, toHost, toClient, toManager, gone, agreed, crossed>>

Accept == Press("incoming", "accept")
Refuse == Press("incoming", "refuse")
CloseFromManager == Press("inCall", "close")

(* on_close at the host and the end of the client's io loop: each resets    *)
(* what the call used on its side.                                          *)
Disconnect ==
    /\ ~gone
    /\ gone' = TRUE
    /\ mic' = FALSE /\ talk' = 0
    /\ device' = FALSE
    /\ UNCHANGED <<clock, pending, status, asked, calling, refused, manager, queues, agreed,
                   crossed>>

Deliver ==
    \/ ClientRequest \/ ClientResponse
    \/ HostRequest \/ HostClose \/ ManagerAnswered \/ ManagerClosed
    \/ ManagerUpdate

Users == NewVoiceCall \/ CloseVoiceCall \/ Accept \/ Refuse \/ CloseFromManager

Next == Deliver \/ Users \/ Disconnect

Spec == Init /\ [][Next]_vars

(* Each loop goes on reading each of its queues; no user has to do anything. *)
FairSpec ==
    /\ Spec
    /\ WF_vars(ClientRequest \/ ClientResponse)
    /\ WF_vars(HostRequest \/ HostClose)
    /\ WF_vars(ManagerAnswered \/ ManagerClosed)
    /\ WF_vars(ManagerUpdate)

-----------------------------------------------------------------------------
(* Type invariant. *)
TypeOK ==
    /\ clock \in 0..MaxRequests /\ pending \in 0..MaxRequests /\ asked \in 0..MaxRequests
    /\ mic \in BOOLEAN /\ calling \in BOOLEAN /\ device \in BOOLEAN
    /\ gone \in BOOLEAN /\ crossed \in BOOLEAN
    /\ status \in Statuses /\ manager \in {"idle", "incoming", "inCall"}
    /\ toHost \in Seq(Messages) /\ toClient \in Seq(Messages)
    /\ toManager \in Seq({"incoming", "started", "closed"})
    /\ fromManager \in Seq({"accept", "refuse", "close"})
    /\ agreed \subseteq 1..MaxRequests
    /\ talk \in 0..MaxRequests /\ refused \in BOOLEAN

(* The client records only for a request the host's user has accepted, and   *)
(* shows a call only while that is its last request: one that asks again    *)
(* during a call goes on recording for the one before.                      *)
MicAccepted ==
    /\ mic => talk \in agreed /\ talk <= clock
    /\ status = "connected" /\ ~gone => mic /\ talk = clock
    /\ mic /\ talk = clock => status = "connected"

(* Once nothing is on its way the three agree on the call, and recorder and  *)
(* input device go together.  They stay on without a call only when a       *)
(* request that was made during one was refused.  A crossing is excepted.   *)
AgreeWhenQuiet ==
    Quiet /\ ~gone /\ ~crossed =>
        /\ mic = device
        /\ CASE status = "notStarted" -> manager = "idle" /\ ~calling /\ (mic => refused)
             [] status = "waitingForResponse" -> manager = "incoming" /\ asked = pending
             [] status = "connected" -> manager = "inCall" /\ calling /\ mic

(* The host's input device is in use only during a call, or after the        *)
(* refusal of a request whose caller was recording.                         *)
DeviceInCall == device => ~gone /\ (calling \/ refused \/ crossed)

(* A client that waits has the host's user asked, also one that asks again   *)
(* during a call.                                                           *)
Announced ==
    status = "waitingForResponse"
        ~> (status # "waitingForResponse" \/ manager = "incoming" \/ gone \/ crossed)

(* When the host's user has hung up the client's recording ends: only the    *)
(* refusal of a request made during a call leaves it on.                    *)
MicStops == (mic /\ ~calling) ~> (~mic \/ calling \/ refused \/ crossed)
=============================================================================
