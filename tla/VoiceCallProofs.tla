--------------------------- MODULE VoiceCallProofs ---------------------------
(***************************************************************************)
(* VoiceCall for any number of requests, made during a call or not, and any  *)
(* length of the queues.  The client records only for a request the host's  *)
(* user has accepted; and the client, the host and the manager agree on the *)
(* call as soon as nothing is on its way between them.                      *)
(***************************************************************************)
EXTENDS VoiceCall, TLAPS

(* Every acceptance on its way to the client is one of the host's user. *)
AnswersGiven ==
    \A i \in DOMAIN toClient : toClient[i].type = "accepted" => toClient[i].ts \in agreed

(* The request the client waits for is its last one, and not the one it      *)
(* records for.                                                             *)
OnePending == pending \in {0, clock} /\ (mic /\ pending # 0 => talk # clock)

IInv == TypeOK /\ AnswersGiven /\ OnePending /\ MicAccepted

-----------------------------------------------------------------------------
(* The type invariant in three parts. *)
Stamps ==
    /\ clock \in 0..MaxRequests /\ pending \in 0..MaxRequests /\ asked \in 0..MaxRequests
    /\ agreed \subseteq 1..MaxRequests /\ talk \in 0..MaxRequests
Flags ==
    /\ mic \in BOOLEAN /\ calling \in BOOLEAN /\ device \in BOOLEAN
    /\ gone \in BOOLEAN /\ refused \in BOOLEAN /\ crossed \in BOOLEAN
    /\ status \in Statuses /\ manager \in {"idle", "incoming", "inCall"}
Queued ==
    /\ toHost \in Seq(Messages) /\ toClient \in Seq(Messages)
    /\ toManager \in Seq({"incoming", "started", "closed"})
    /\ fromManager \in Seq({"accept", "refuse", "close"})

LEMMA TypeParts == TypeOK <=> Stamps /\ Flags /\ Queued
BY DEF TypeOK, Stamps, Flags, Queued

LEMMA InitInv == Init => IInv
<1> SUFFICES ASSUME Init
             PROVE  IInv
  OBVIOUS
<1>1. Stamps
  BY MaxRequestsAssumption DEF Init, Stamps
<1>2. Flags
  BY DEF Init, Flags, Statuses
<1>3. Queued
  BY DEF Init, Queued
<1>4. AnswersGiven
  BY DEF Init, AnswersGiven
<1>5. OnePending /\ MicAccepted
  BY DEF Init, OnePending, MicAccepted
<1> QED BY <1>1, <1>2, <1>3, <1>4, <1>5, TypeParts DEF IInv

(* The messages are messages. *)
LEMMA MessageType ==
    /\ CloseRequest \in Messages
    /\ \A t \in 0..MaxRequests : Request(t) \in Messages
    /\ \A t \in 0..MaxRequests : \A a \in BOOLEAN : Response(t, a) \in Messages
BY MaxRequestsAssumption DEF CloseRequest, Request, Response, Messages

(* The time stamps are those of requests. *)
LEMMA StampsStep == TypeOK /\ [Next]_vars => Stamps'
<1> SUFFICES ASSUME TypeOK, [Next]_vars
             PROVE  Stamps'
  OBVIOUS
<1> USE MaxRequestsAssumption DEF Stamps
<1>0. Stamps /\ Queued
  BY TypeParts
<1>1. CASE NewVoiceCall
  BY <1>0, <1>1 DEF NewVoiceCall, host
<1>2. CASE ClientResponse
  <2>1. UNCHANGED <<clock, asked, agreed>> /\ pending' = 0
        /\ talk' \in {talk, Head(toClient).ts}
    BY <1>2 DEF ClientResponse, Answer, host
  <2>2. Head(toClient) \in Messages
    BY <1>0, <1>2 DEF ClientResponse, Queued
  <2> QED BY <1>0, <2>1, <2>2 DEF Messages
<1>3. CASE HostRequest
  <2>1. Head(toHost) \in Messages
    BY <1>0, <1>3 DEF HostRequest, Queued
  <2> QED BY <1>0, <1>3, <2>1 DEF HostRequest, Messages, client
<1>4. CASE ManagerAnswered
  <2>1. UNCHANGED <<clock, pending, talk>>
    BY <1>4 DEF ManagerAnswered, client
  <2>2. UNCHANGED <<asked, agreed>> \/ (asked # 0 /\ asked' = 0 /\ agreed' \subseteq agreed \cup {asked})
    BY <1>4 DEF ManagerAnswered, HandleVoiceCall, host
  <2>3. asked # 0 => asked \in 1..MaxRequests
    BY <1>0
  <2>4. agreed' \subseteq 1..MaxRequests
    BY <1>0, <2>2, <2>3
  <2>5. asked' \in 0..MaxRequests
    BY <1>0, <2>2
  <2> QED BY <1>0, <2>1, <2>4, <2>5
<1>5. CASE UNCHANGED <<clock, pending, asked, agreed>> /\ talk' \in {0, talk}
  BY <1>0, <1>5
<1> QED BY <1>1, <1>2, <1>3, <1>4, <1>5
        DEF Next, Deliver, Users, CloseVoiceCall, ClientRequest, HostClose, ManagerClosed,
            Hangup, ManagerUpdate, Accept, Refuse, CloseFromManager, Press, Disconnect,
            vars, client, host

(* The queues hold messages. *)
LEMMA QueuedStep == TypeOK /\ [Next]_vars => Queued'
<1> SUFFICES ASSUME TypeOK, [Next]_vars
             PROVE  Queued'
  OBVIOUS
<1> USE DEF Queued
<1>0. Stamps /\ Queued
  BY TypeParts
<1>1. CASE NewVoiceCall
  <2>1. Request(clock') \in Messages
    BY <1>0, <1>1, MaxRequestsAssumption, MessageType DEF NewVoiceCall, Stamps
  <2> QED BY <1>0, <1>1, <2>1 DEF NewVoiceCall
<1>2. CASE CloseVoiceCall
  BY <1>0, <1>2, MessageType DEF CloseVoiceCall
<1>3. CASE ClientRequest \/ ClientResponse
  <2>1. /\ toClient' = Tail(toClient) /\ toClient # <<>>
        /\ UNCHANGED <<toHost, toManager, fromManager>>
    BY <1>3 DEF ClientRequest, ClientResponse
  <2> QED BY <1>0, <2>1
<1>4. CASE HostRequest
  BY <1>0, <1>4 DEF HostRequest
<1>5. CASE HostClose
  BY <1>0, <1>5 DEF HostClose, Hangup
<1>6. CASE ManagerAnswered
  <2>1. CASE asked = 0
    BY <1>0, <1>6, <2>1 DEF ManagerAnswered, HandleVoiceCall
  <2>2. CASE asked # 0
    <3> DEFINE m == Response(asked, Head(fromManager) = "accept")
               x == IF Head(fromManager) = "accept" THEN "started" ELSE "closed"
    <3>1. m \in Messages
      BY <1>0, MessageType DEF Stamps
    <3>2. x \in {"incoming", "started", "closed"}
      OBVIOUS
    <3>3. /\ toClient' = Append(toClient, m) /\ toManager' = Append(toManager, x)
          /\ fromManager' = Tail(fromManager) /\ fromManager # <<>> /\ toHost' = toHost
      BY <1>6, <2>2 DEF ManagerAnswered, HandleVoiceCall
    <3> HIDE DEF m, x
    <3> QED BY <1>0, <3>1, <3>2, <3>3
  <2> QED BY <2>1, <2>2
<1>7. CASE ManagerClosed
  <2>1. /\ toClient' = Append(toClient, CloseRequest)
        /\ toManager' = Append(toManager, "closed")
        /\ fromManager' = Tail(fromManager) /\ fromManager # <<>> /\ toHost' = toHost
    BY <1>7 DEF ManagerClosed, Hangup
  <2> QED BY <1>0, <2>1, MessageType
<1>8. CASE ManagerUpdate
  BY <1>0, <1>8 DEF ManagerUpdate
<1>9. CASE Accept \/ Refuse \/ CloseFromManager
  <2>1. PICK x \in {"accept", "refuse", "close"} : fromManager' = Append(fromManager, x)
    BY <1>9 DEF Accept, Refuse, CloseFromManager, Press
  <2>2. UNCHANGED <<toHost, toClient, toManager>>
    BY <1>9 DEF Accept, Refuse, CloseFromManager, Press
  <2> QED BY <1>0, <2>1, <2>2
<1>10. CASE Disconnect \/ UNCHANGED vars
  BY <1>0, <1>10 DEF Disconnect, vars, queues
<1> QED BY <1>1, <1>2, <1>3, <1>4, <1>5, <1>6, <1>7, <1>8, <1>9, <1>10
        DEF Next, Deliver, Users

(* The flags are Boolean. *)
LEMMA FlagsStep == TypeOK /\ [Next]_vars => Flags'
<1> SUFFICES ASSUME TypeOK, [Next]_vars
             PROVE  Flags'
  OBVIOUS
<1> USE DEF Flags, Statuses
<1>0. Flags /\ Queued
  BY TypeParts
<1>1. CASE NewVoiceCall \/ CloseVoiceCall
  BY <1>0, <1>1 DEF NewVoiceCall, CloseVoiceCall, host
<1>2. CASE ClientRequest \/ HostRequest
  BY <1>0, <1>2 DEF ClientRequest, HostRequest, host, client
<1>3. CASE ClientResponse
  BY <1>0, <1>3 DEF ClientResponse, Answer, host
<1>4. CASE HostClose \/ ManagerClosed
  BY <1>0, <1>4 DEF HostClose, ManagerClosed, Hangup, client
<1>5. CASE ManagerAnswered
  BY <1>0, <1>5 DEF ManagerAnswered, HandleVoiceCall, client, host
<1>6. CASE ManagerUpdate
  <2>1. Head(toManager) \in {"incoming", "started", "closed"}
    BY <1>0, <1>6 DEF ManagerUpdate, Queued
  <2> QED BY <1>0, <1>6, <2>1 DEF ManagerUpdate, client, host
<1>7. CASE Accept \/ Refuse \/ CloseFromManager
  BY <1>0, <1>7 DEF Accept, Refuse, CloseFromManager, Press, client, host
<1>8. CASE Disconnect \/ UNCHANGED vars
  BY <1>0, <1>8 DEF Disconnect, vars, client, host
<1> QED BY <1>1, <1>2, <1>3, <1>4, <1>5, <1>6, <1>7, <1>8 DEF Next, Deliver, Users

(* Only an answer of the host's user puts an acceptance on its way. *)
LEMMA AnswersStep == IInv /\ [Next]_vars => AnswersGiven'
<1> SUFFICES ASSUME IInv, [Next]_vars
             PROVE  AnswersGiven'
  OBVIOUS
<1> USE DEF IInv, TypeOK, AnswersGiven
<1>1. CASE ClientRequest \/ ClientResponse
  <2>1. toClient' = Tail(toClient) /\ toClient # <<>> /\ agreed' = agreed
    BY <1>1 DEF ClientRequest, ClientResponse
  <2>2. toClient \in Seq(Messages)
    OBVIOUS
  <2>3. \A i \in DOMAIN toClient' : i + 1 \in DOMAIN toClient /\ toClient'[i] = toClient[i + 1]
    BY <2>1, <2>2
  <2> QED BY <2>1, <2>3
<1>2. CASE ManagerAnswered
  <2>1. CASE asked = 0
    BY <1>2, <2>1 DEF ManagerAnswered, HandleVoiceCall
  <2>2. CASE asked # 0
    <3> DEFINE accepted == Head(fromManager) = "accept"
               m == Response(asked, accepted)
    <3>1. m \in Messages
      BY MessageType
    <3>2. m.type = "accepted" => accepted /\ m.ts = asked
      BY DEF Response
    <3>3. toClient' = Append(toClient, m)
          /\ agreed' = IF accepted THEN agreed \cup {asked} ELSE agreed
      BY <1>2, <2>2 DEF ManagerAnswered, HandleVoiceCall
    <3> HIDE DEF m, accepted
    <3> QED BY <3>1, <3>2, <3>3
  <2> QED BY <2>1, <2>2
<1>3. CASE ManagerClosed
  BY <1>3, MessageType DEF ManagerClosed, CloseRequest
<1>4. CASE UNCHANGED toClient /\ UNCHANGED agreed
  BY <1>4
<1> QED BY <1>1, <1>2, <1>3, <1>4
        DEF Next, Deliver, Users, NewVoiceCall, CloseVoiceCall, HostRequest, HostClose,
            ManagerUpdate, Accept, Refuse, CloseFromManager, Press, Disconnect, vars, queues

(* The microphone follows the answer to the last request. *)
LEMMA MicStep == IInv /\ [Next]_vars => OnePending' /\ MicAccepted'
<1> SUFFICES ASSUME IInv, [Next]_vars
             PROVE  OnePending' /\ MicAccepted'
  OBVIOUS
<1> USE DEF IInv, TypeOK, OnePending, MicAccepted
<1>1. CASE NewVoiceCall
  BY <1>1 DEF NewVoiceCall
<1>2. CASE CloseVoiceCall
  BY <1>2 DEF CloseVoiceCall
<1>3. CASE ClientRequest
  BY <1>3 DEF ClientRequest
<1>4. CASE ClientResponse
  <2>1. Head(toClient) = toClient[1] /\ 1 \in DOMAIN toClient
    BY <1>4 DEF ClientResponse
  <2>2. Head(toClient).type = "accepted" => Head(toClient).ts \in agreed
    BY <2>1 DEF AnswersGiven
  <2>3. /\ ~gone /\ pending' = 0 /\ UNCHANGED <<clock, agreed, gone>>
        /\ Answer(Head(toClient))
    BY <1>4 DEF ClientResponse
  <2>4. CASE pending # 0 /\ Head(toClient).ts = pending /\ Head(toClient).type = "accepted"
    <3>1. mic' = TRUE /\ talk' = clock /\ status' = "connected" /\ talk' \in agreed
      BY <2>2, <2>3, <2>4 DEF Answer
    <3> QED BY <2>3, <3>1
  <2>5. CASE pending # 0 /\ Head(toClient).ts = pending /\ Head(toClient).type # "accepted"
    <3>1. mic' = mic /\ talk' = talk /\ status' = "notStarted"
      BY <2>3, <2>5 DEF Answer
    <3> QED BY <2>3, <2>5, <3>1
  <2>6. CASE ~(pending # 0 /\ Head(toClient).ts = pending)
    <3>1. UNCHANGED <<mic, talk, status>>
      BY <2>3, <2>6 DEF Answer
    <3> QED BY <2>3, <3>1
  <2> QED BY <2>4, <2>5, <2>6
<1>5. CASE Disconnect
  BY <1>5 DEF Disconnect
<1>6. CASE UNCHANGED client /\ UNCHANGED gone /\ agreed \subseteq agreed'
  BY <1>6 DEF client
<1> QED BY <1>1, <1>2, <1>3, <1>4, <1>5, <1>6
        DEF Next, Deliver, Users, HostRequest, HostClose, ManagerAnswered, HandleVoiceCall,
            ManagerClosed, ManagerUpdate, Accept, Refuse, CloseFromManager, Press, vars, client

(* The strengthening holds in every reachable state. *)
THEOREM Invariance == Spec => []IInv
<1>1. IInv /\ [Next]_vars => IInv'
  <2>1. TypeOK /\ [Next]_vars => TypeOK'
    BY StampsStep, QueuedStep, FlagsStep, TypeParts DEF TypeOK, Stamps, Flags, Queued
  <2> QED BY <2>1, AnswersStep, MicStep DEF IInv
<1> QED BY InitInv, <1>1, PTL DEF Spec

(* Type correctness. *)
THEOREM TypeCorrect == Spec => []TypeOK
BY Invariance, PTL DEF IInv

(* The client records only for a request the host's user has accepted, and  *)
(* shows a call only while that is its last one.                            *)
THEOREM MicAlwaysAccepted == Spec => []MicAccepted
BY Invariance, PTL DEF IInv
-----------------------------------------------------------------------------
(* The three views of a call.  Everything below is about a connection that  *)
(* lasts and in which nothing has crossed; what has crossed stays so.       *)

(* What the manager will show when it has taken what is on its way to it:   *)
(* the host's last word.                                                    *)
ShownBy(x) ==
    IF x = "incoming" THEN "incoming" ELSE IF x = "started" THEN "inCall" ELSE "idle"
Shown == IF toManager = <<>> THEN manager ELSE ShownBy(toManager[Len(toManager)])

IsAnswer(m) == m.type \in {"accepted", "refused"}

(* The host's state goes with its last word.                                *)
HostShown ==
    /\ Shown = "incoming" => asked # 0
    /\ Shown = "inCall" => asked = 0 /\ calling
    /\ Shown = "idle" => ~calling
    /\ calling => device
    /\ device => calling \/ refused

(* The last message to the host says what the client shows.  The host has   *)
(* not seen the last request while one is on its way.                       *)
ToHostInv ==
    /\ asked <= clock
    /\ \A i \in DOMAIN toHost :
          /\ toHost[i].type \in {"request", "close"}
          /\ toHost[i].type = "request" =>
                toHost[i].ts # 0 /\ toHost[i].ts <= clock /\ asked # clock
          /\ i = Len(toHost) =>
                IF toHost[i].type = "request"
                THEN status = "waitingForResponse" /\ toHost[i].ts = clock
                ELSE status = "notStarted"
    /\ \A i, j \in DOMAIN toHost :
          i < j /\ toHost[i].type = "request" /\ toHost[j].type = "request"
                => toHost[i].ts # clock

(* One answer at most is on its way to the client.  It is to the request    *)
(* the client waits for, the host has nothing else to read, and the call is *)
(* on if the answer says so and no close follows it.                        *)
ToClientInv ==
    \A i \in DOMAIN toClient :
        /\ toClient[i].type # "request"
        /\ IsAnswer(toClient[i]) =>
              /\ status = "waitingForResponse" /\ toClient[i].ts = pending
              /\ toHost = <<>> /\ asked = 0
              /\ \A j \in DOMAIN toClient : IsAnswer(toClient[j]) => i = j
              /\ Shown = IF toClient[i].type = "accepted" /\ i = Len(toClient)
                         THEN "inCall" ELSE "idle"
              /\ i # Len(toClient) => ~device

Answered == \E i \in DOMAIN toClient : IsAnswer(toClient[i])

(* What the client shows, once the host has read everything.                *)
StatusInv ==
    /\ status = "waitingForResponse" => pending = clock /\ clock # 0
    /\ status = "waitingForResponse" /\ toHost = <<>> =>
          (Shown = "incoming" /\ asked = pending) \/ Answered
    /\ status = "notStarted" /\ toHost = <<>> => Shown = "idle"
    /\ status = "connected" =>
          /\ toHost = <<>> /\ asked = 0
          /\ Shown = IF toClient = <<>> THEN "inCall" ELSE "idle"

(* The host's input device is on for a client that records, has just been   *)
(* accepted or has just closed; the client records to a host whose device   *)
(* is on, or that has just closed.                                          *)
Has(q, type) == \E i \in DOMAIN q : q[i].type = type
RecordInv ==
    /\ device => mic \/ Has(toHost, "close") \/ Has(toClient, "accepted")
    /\ mic => ~Has(toHost, "close")
    /\ mic => device \/ Has(toClient, "close")
    /\ mic /\ device /\ toClient # <<>> => status = "waitingForResponse"

Aligned == HostShown /\ ToHostInv /\ ToClientInv /\ StatusInv /\ RecordInv

CallInv ==
    /\ gone => ~device
    /\ ~gone /\ ~crossed => Aligned

(* A queue with one more message, and with one less. *)
LEMMA Longer ==
    ASSUME NEW S, NEW s \in Seq(S), NEW e \in S, NEW t, t = Append(s, e)
    PROVE  /\ Len(s) \in Nat /\ DOMAIN s = 1..Len(s) /\ (s = <<>> <=> Len(s) = 0)
           /\ t # <<>> /\ Len(t) = Len(s) + 1 /\ DOMAIN t = 1..(Len(s) + 1)
           /\ \A i \in DOMAIN s : t[i] = s[i]
           /\ t[Len(s) + 1] = e
OBVIOUS

LEMMA Shorter ==
    ASSUME NEW S, NEW s \in Seq(S), s # <<>>, NEW t, t = Tail(s)
    PROVE  /\ Len(s) \in Nat \ {0} /\ DOMAIN s = 1..Len(s) /\ Head(s) = s[1]
           /\ Len(t) = Len(s) - 1 /\ DOMAIN t = 1..(Len(s) - 1)
           /\ t = <<>> <=> Len(s) = 1
           /\ \A i \in DOMAIN t : i + 1 \in DOMAIN s /\ t[i] = s[i + 1]
<1>1. Len(s) \in Nat \ {0} /\ DOMAIN s = 1..Len(s) /\ Head(s) = s[1]
  OBVIOUS
<1>2. t \in Seq(S) /\ Len(t) = Len(s) - 1 /\ DOMAIN t = 1..Len(t)
  OBVIOUS
<1>3. t = <<>> <=> Len(t) = 0
  BY <1>2
<1>4. \A i \in 1..Len(t) : t[i] = s[i + 1]
  BY <1>2
<1> QED BY <1>1, <1>2, <1>3, <1>4

LEMMA HasAppend ==
    ASSUME NEW s \in Seq(Messages), NEW e \in Messages, NEW t, t = Append(s, e), NEW type
    PROVE  Has(t, type) <=> Has(s, type) \/ e.type = type
<1>1. /\ Len(s) \in Nat /\ DOMAIN s = 1..Len(s) /\ DOMAIN t = 1..(Len(s) + 1)
      /\ \A i \in DOMAIN s : t[i] = s[i]
      /\ t[Len(s) + 1] = e
  BY Longer
<1> QED BY <1>1 DEF Has

LEMMA HasTail ==
    ASSUME NEW s \in Seq(Messages), s # <<>>, NEW t, t = Tail(s), NEW type
    PROVE  Has(s, type) <=> s[1].type = type \/ Has(t, type)
<1>1. /\ Len(s) \in Nat \ {0} /\ DOMAIN s = 1..Len(s) /\ DOMAIN t = 1..(Len(s) - 1)
      /\ \A i \in DOMAIN t : i + 1 \in DOMAIN s /\ t[i] = s[i + 1]
  BY Shorter
<1>2. ASSUME NEW i \in DOMAIN s, s[i].type = type, i # 1 PROVE Has(t, type)
  <2>1. i - 1 \in DOMAIN t /\ t[i - 1] = s[i]
    BY <1>1, <1>2
  <2> QED BY <1>2, <2>1 DEF Has
<1> QED BY <1>1, <1>2 DEF Has

(* The host's last word.                                                    *)
LEMMA LastWord ==
    ASSUME TypeOK
    PROVE  /\ Shown \in {"idle", "incoming", "inCall"}
           /\ \A x \in {"incoming", "started", "closed"} :
                 toManager' = Append(toManager, x) => Shown' = ShownBy(x)
           /\ UNCHANGED <<manager, toManager>> => Shown' = Shown
           /\ ManagerUpdate => Shown' = Shown
<1>1. toManager \in Seq({"incoming", "started", "closed"})
      /\ manager \in {"idle", "incoming", "inCall"}
  BY DEF TypeOK
<1>2. Shown \in {"idle", "incoming", "inCall"}
  BY <1>1 DEF Shown, ShownBy
<1>3. ASSUME NEW x \in {"incoming", "started", "closed"}, toManager' = Append(toManager, x)
      PROVE  Shown' = ShownBy(x)
  <2>1. toManager' # <<>> /\ toManager'[Len(toManager')] = x
    BY <1>1, <1>3
  <2> QED BY <2>1 DEF Shown
<1>4. ASSUME ManagerUpdate PROVE Shown' = Shown
  <2>1. toManager # <<>> /\ toManager' = Tail(toManager)
    BY <1>4 DEF ManagerUpdate
  <2>2. CASE Len(toManager) = 1
    <3>1. toManager' = <<>> /\ Head(toManager) = toManager[Len(toManager)]
      BY <1>1, <2>1, <2>2
    <3>2. Head(toManager) \in {"incoming", "started", "closed"}
      BY <1>1, <2>1
    <3>3. manager' = ShownBy(Head(toManager))
      BY <1>4, <3>2 DEF ManagerUpdate, ShownBy
    <3> QED BY <2>1, <3>1, <3>3 DEF Shown
  <2>3. CASE Len(toManager) # 1
    <3>1. toManager' # <<>> /\ toManager'[Len(toManager')] = toManager[Len(toManager)]
      <4>1. /\ Len(toManager) \in Nat \ {0} /\ Len(toManager') = Len(toManager) - 1
            /\ toManager' # <<>> /\ DOMAIN toManager' = 1..(Len(toManager) - 1)
            /\ \A i \in DOMAIN toManager' : toManager'[i] = toManager[i + 1]
        BY <1>1, <2>1, <2>3, Shorter
      <4>2. Len(toManager') \in DOMAIN toManager'
        BY <2>3, <4>1
      <4> QED BY <4>1, <4>2
    <3>2. /\ Shown = ShownBy(toManager[Len(toManager)])
          /\ Shown' = ShownBy(toManager'[Len(toManager')])
      BY <2>1, <3>1 DEF Shown
    <3> QED BY <3>1, <3>2
  <2> QED BY <1>1, <2>2, <2>3
<1> QED BY <1>2, <1>3, <1>4 DEF Shown

LEMMA InitCall == Init => CallInv
<1> SUFFICES ASSUME Init PROVE CallInv
  OBVIOUS
<1>1. DOMAIN toHost = {} /\ DOMAIN toClient = {} /\ Shown = "idle"
  BY DEF Init, Shown
<1> QED BY <1>1 DEF Init, CallInv, Aligned, HostShown, ToHostInv, ToClientInv, StatusInv,
                    RecordInv, Has

(* The client's steps. *)
LEMMA ClientAligned ==
    IInv /\ Aligned /\ ~crossed'
        /\ (NewVoiceCall \/ CloseVoiceCall \/ ClientRequest \/ ClientResponse) => Aligned'
<1> SUFFICES ASSUME IInv, Aligned, ~crossed',
                    NewVoiceCall \/ CloseVoiceCall \/ ClientRequest \/ ClientResponse
             PROVE  Aligned'
  OBVIOUS
<1>a. /\ TypeOK /\ OnePending /\ MicAccepted
      /\ HostShown /\ ToHostInv /\ ToClientInv /\ StatusInv /\ RecordInv
  BY DEF IInv, Aligned
<1>b. /\ clock \in Nat /\ pending \in Nat /\ asked \in Nat
      /\ toHost \in Seq(Messages) /\ toClient \in Seq(Messages)
      /\ status \in Statuses /\ mic \in BOOLEAN
  BY <1>a, MaxRequestsAssumption DEF TypeOK
<1>c. Shown' = Shown /\ UNCHANGED host
  BY <1>a, LastWord DEF NewVoiceCall, CloseVoiceCall, ClientRequest, ClientResponse
<1>d. HostShown'
  BY <1>a, <1>c DEF HostShown, host
<1>1. CASE NewVoiceCall
  <2>1. Request(clock + 1) \in Messages
    BY <1>1, <1>b, MaxRequestsAssumption, MessageType DEF NewVoiceCall
  <2>2. toHost' = Append(toHost, Request(clock + 1)) /\ clock' = clock + 1
        /\ pending' = clock + 1 /\ status' = "waitingForResponse" /\ ~AnswerUnderWay
        /\ toClient' = toClient /\ asked' = asked /\ mic' = mic
    BY <1>1 DEF NewVoiceCall, host
  <2>3. Request(clock + 1).type = "request" /\ Request(clock + 1).ts = clock + 1
    BY DEF Request
  <2> HIDE DEF Request
  <2>l. /\ Len(toHost) \in Nat /\ DOMAIN toHost = 1..Len(toHost)
        /\ toHost = <<>> <=> Len(toHost) = 0
        /\ Len(toHost') = Len(toHost) + 1 /\ DOMAIN toHost' = 1..(Len(toHost) + 1)
        /\ \A i \in 1..Len(toHost) : toHost'[i] = toHost[i]
        /\ toHost'[Len(toHost) + 1].type = "request"
        /\ toHost'[Len(toHost) + 1].ts = clock + 1
    BY <1>b, <2>1, <2>2, <2>3, Longer
  <2>4. ToHostInv'
    <3>1. asked' <= clock'
      BY <1>a, <1>b, <2>2 DEF ToHostInv
    <3>2. ASSUME NEW i \in DOMAIN toHost'
          PROVE  /\ toHost'[i].type \in {"request", "close"}
                 /\ toHost'[i].type = "request" =>
                       toHost'[i].ts # 0 /\ toHost'[i].ts <= clock' /\ asked' # clock'
                 /\ i = Len(toHost') =>
                       IF toHost'[i].type = "request"
                       THEN status' = "waitingForResponse" /\ toHost'[i].ts = clock'
                       ELSE status' = "notStarted"
      <4>1. CASE i = Len(toHost) + 1
        BY <1>a, <1>b, <1>c, <2>2, <2>l, <4>1 DEF ToHostInv
      <4>2. CASE i \in 1..Len(toHost)
        <5>1. toHost[i] \in Messages
          BY <1>b, <4>2
        <5>2. toHost[i].ts \in Nat
          BY <1>b, <5>1 DEF Messages
        <5> QED BY <1>a, <1>b, <1>c, <2>2, <2>l, <4>2, <5>2 DEF ToHostInv
      <4> QED BY <2>l, <3>2, <4>1, <4>2
    <3>3. ASSUME NEW i \in DOMAIN toHost', NEW j \in DOMAIN toHost'
          PROVE  i < j /\ toHost'[i].type = "request" /\ toHost'[j].type = "request"
                     => toHost'[i].ts # clock'
      <4>1. CASE i \in 1..Len(toHost)
        <5>1. toHost[i] \in Messages
          BY <1>b, <4>1
        <5>2. toHost[i].ts \in Nat
          BY <1>b, <5>1 DEF Messages
        <5>3. toHost[i].type = "request" => toHost[i].ts <= clock
          BY <1>a, <2>l, <4>1 DEF ToHostInv
        <5> QED BY <1>b, <2>2, <2>l, <4>1, <5>2, <5>3
      <4>2. CASE i = Len(toHost) + 1
        BY <2>l, <4>2
      <4> QED BY <2>l, <4>1, <4>2
    <3> QED BY <3>1, <3>2, <3>3 DEF ToHostInv
  <2>5. ToClientInv'
    BY <1>a, <2>2 DEF ToClientInv, AnswerUnderWay, IsAnswer
  <2>6. StatusInv'
    BY <1>b, <2>1, <2>2, Longer DEF StatusInv
  <2>7. RecordInv'
    <3> DEFINE m == Request(clock + 1)
    <3>0. m \in Messages /\ m.type = "request" /\ toHost' = Append(toHost, m)
      BY <2>1, <2>2, <2>3
    <3> HIDE DEF m
    <3>1. Has(toHost', "close") <=> Has(toHost, "close")
      BY <1>b, <3>0, HasAppend
    <3> QED BY <1>a, <1>c, <2>2, <3>1 DEF RecordInv, host
  <2> QED BY <1>d, <2>4, <2>5, <2>6, <2>7 DEF Aligned
<1>2. CASE CloseVoiceCall
  <2>1. CloseRequest \in Messages /\ CloseRequest.type = "close"
    BY MessageType DEF CloseRequest
  <2>2. toHost' = Append(toHost, CloseRequest) /\ clock' = clock /\ pending' = pending
        /\ status' = "notStarted" /\ ~AnswerUnderWay /\ mic' = FALSE
        /\ toClient' = toClient /\ asked' = asked
    BY <1>2 DEF CloseVoiceCall, host
  <2> HIDE DEF CloseRequest
  <2>3. ToHostInv'
    BY <1>a, <1>b, <1>c, <2>1, <2>2, Longer DEF ToHostInv
  <2>4. ToClientInv'
    BY <1>a, <2>2 DEF ToClientInv, AnswerUnderWay, IsAnswer
  <2>5. StatusInv'
    BY <1>b, <2>1, <2>2, Longer DEF StatusInv
  <2>6. RecordInv'
    <3>1. Has(toHost', "close")
      BY <1>b, <2>1, <2>2, HasAppend
    <3> QED BY <2>2, <3>1 DEF RecordInv
  <2> QED BY <1>d, <2>3, <2>4, <2>5, <2>6 DEF Aligned
<1>3. CASE ClientRequest
  <2>1. /\ toClient # <<>> /\ toClient' = Tail(toClient) /\ toClient[1].type = "close"
        /\ UNCHANGED <<clock, pending, asked, toHost>>
        /\ mic' = FALSE /\ status' = IF mic THEN "notStarted" ELSE status
        /\ ~gone /\ ~(mic /\ status = "waitingForResponse")
    BY <1>3, <1>b DEF ClientRequest, host
  <2>2. status = "connected" => mic
    BY <1>a, <2>1 DEF MicAccepted
  <2>3. mic /\ status = "connected" => toHost = <<>> /\ Shown = "idle"
    BY <1>a, <2>1 DEF StatusInv
  <2>4. ToHostInv'
    BY <1>a, <1>b, <1>c, <2>1, <2>3 DEF ToHostInv
  <2>l. /\ Len(toClient) \in Nat \ {0} /\ Len(toClient') = Len(toClient) - 1
        /\ DOMAIN toClient = 1..Len(toClient) /\ DOMAIN toClient' = 1..Len(toClient')
        /\ \A i \in DOMAIN toClient' : i + 1 \in DOMAIN toClient /\ toClient'[i] = toClient[i + 1]
    BY <1>b, <2>1, Shorter
  <2>5. ToClientInv'
    <3> SUFFICES ASSUME NEW i \in DOMAIN toClient'
                 PROVE  /\ toClient'[i].type # "request"
                        /\ IsAnswer(toClient'[i]) =>
                              /\ status' = "waitingForResponse" /\ toClient'[i].ts = pending'
                              /\ toHost' = <<>> /\ asked' = 0
                              /\ \A j \in DOMAIN toClient' : IsAnswer(toClient'[j]) => i = j
                              /\ Shown' = IF toClient'[i].type = "accepted" /\ i = Len(toClient')
                                          THEN "inCall" ELSE "idle"
                              /\ i # Len(toClient') => ~device'
      BY DEF ToClientInv, IsAnswer
    <3> DEFINE k == i + 1
    <3>1. /\ k \in DOMAIN toClient /\ toClient'[i] = toClient[k]
          /\ i = Len(toClient') <=> k = Len(toClient)
      BY <2>l
    <3>2. toClient[k].type # "request"
      BY <1>a, <3>1 DEF ToClientInv
    <3>3. ASSUME IsAnswer(toClient[k])
          PROVE  /\ status = "waitingForResponse" /\ toClient[k].ts = pending
                 /\ toHost = <<>> /\ asked = 0
                 /\ \A j \in DOMAIN toClient : IsAnswer(toClient[j]) => k = j
                 /\ Shown = IF toClient[k].type = "accepted" /\ k = Len(toClient)
                            THEN "inCall" ELSE "idle"
                 /\ k # Len(toClient) => ~device
      BY <1>a, <3>1, <3>3 DEF ToClientInv
    <3>4. ASSUME IsAnswer(toClient[k]), NEW j \in DOMAIN toClient', IsAnswer(toClient'[j])
          PROVE  i = j
      <4>1. j + 1 \in DOMAIN toClient /\ IsAnswer(toClient[j + 1])
        BY <2>l, <3>4
      <4>2. k = j + 1
        BY <3>3, <3>4, <4>1
      <4> QED BY <2>l, <4>2
    <3> HIDE DEF k
    <3> QED BY <1>c, <2>1, <2>2, <3>1, <3>2, <3>3, <3>4 DEF host
  <2>6. Answered => Answered'
    <3> SUFFICES ASSUME NEW i \in DOMAIN toClient, IsAnswer(toClient[i])
                 PROVE  \E k \in DOMAIN toClient' : IsAnswer(toClient'[k])
      BY DEF Answered
    <3>1. i # 1
      BY <2>1 DEF IsAnswer
    <3>2. i - 1 \in DOMAIN toClient' /\ toClient'[i - 1] = toClient[i]
      BY <1>b, <2>1, <3>1, Shorter
    <3> QED BY <3>2
  <2>7. StatusInv'
    BY <1>a, <1>b, <1>c, <2>1, <2>2, <2>3, <2>6 DEF StatusInv, Statuses
  <2>8. RecordInv'
    <3>1. Has(toClient', "accepted") <=> Has(toClient, "accepted")
      BY <1>b, <2>1, HasTail
    <3>2. mic => ~device
      BY <1>a, <2>1 DEF RecordInv
    <3> QED BY <1>a, <1>c, <2>1, <3>1, <3>2 DEF RecordInv, host
  <2> QED BY <1>d, <2>4, <2>5, <2>7, <2>8 DEF Aligned
<1>4. CASE ClientResponse
  <2>0. toClient # <<>> /\ Head(toClient) = toClient[1] /\ 1 \in DOMAIN toClient
    BY <1>4, <1>b DEF ClientResponse
  <2>1. /\ toClient' = Tail(toClient) /\ IsAnswer(toClient[1]) /\ pending' = 0
        /\ UNCHANGED <<clock, asked, toHost>>
    BY <1>4, <2>0 DEF ClientResponse, IsAnswer, host
  <2>2. /\ status = "waitingForResponse" /\ toClient[1].ts = pending
        /\ toHost = <<>> /\ asked = 0 /\ pending # 0
        /\ \A j \in DOMAIN toClient : IsAnswer(toClient[j]) => j = 1
        /\ Shown = IF toClient[1].type = "accepted" /\ 1 = Len(toClient)
                   THEN "inCall" ELSE "idle"
        /\ 1 # Len(toClient) => ~device
    BY <1>a, <2>0, <2>1 DEF ToClientInv, StatusInv
  <2>3. /\ mic' = (toClient[1].type = "accepted" \/ mic)
        /\ status' = IF toClient[1].type = "accepted" THEN "connected" ELSE "notStarted"
    BY <1>4, <2>0, <2>2 DEF ClientResponse, Answer
  <2>4. ToHostInv'
    BY <1>a, <1>b, <2>1, <2>2 DEF ToHostInv
  <2>5. ToClientInv'
    BY <1>a, <1>b, <2>0, <2>1, <2>2, Shorter DEF ToClientInv
  <2>6. StatusInv'
    BY <1>b, <1>c, <2>0, <2>1, <2>2, <2>3, Shorter DEF StatusInv
  <2>7. RecordInv'
    <3>1. toClient' = <<>> <=> 1 = Len(toClient)
      BY <1>b, <2>0, <2>1, Shorter
    <3>2. /\ Has(toClient', "close") <=> Has(toClient, "close")
          /\ Has(toClient, "accepted") <=>
                toClient[1].type = "accepted" \/ Has(toClient', "accepted")
      BY <1>b, <2>0, <2>1, HasTail DEF IsAnswer
    <3>3. ~Has(toHost', "close")
      BY <2>1, <2>2 DEF Has
    <3>4. toClient' # <<>> => ~device
      BY <2>2, <3>1
    <3>5. toClient' = <<>> /\ toClient[1].type = "accepted" => device
      BY <1>a, <2>2, <3>1 DEF HostShown
    <3>6. toClient' # <<>> => Has(toClient', "close")
      <4> SUFFICES ASSUME toClient' # <<>> PROVE Has(toClient', "close")
        OBVIOUS
      <4>1. 2 \in DOMAIN toClient
        <5>1. Len(toClient) \in Nat \ {0, 1} /\ DOMAIN toClient = 1..Len(toClient)
          BY <1>b, <2>0, <3>1
        <5> QED BY <5>1
      <4>2. ~IsAnswer(toClient[2]) /\ toClient[2].type # "request" /\ toClient[2] \in Messages
        BY <1>a, <1>b, <2>2, <4>1 DEF ToClientInv
      <4>3. toClient[2].type = "close"
        BY <4>2 DEF IsAnswer, Messages
      <4> QED BY <3>2, <4>1, <4>3 DEF Has
    <3>7. device' = device
      BY <1>c DEF host
    <3>8. ~Has(toHost, "close")
      BY <2>2 DEF Has
    <3>9. CASE toClient[1].type = "accepted"
      <4>1. mic' = TRUE /\ (device \/ Has(toClient', "close"))
        BY <2>3, <3>5, <3>6, <3>9
      <4> QED BY <3>3, <3>4, <3>7, <4>1 DEF RecordInv
    <3>10. CASE toClient[1].type # "accepted"
      <4>1. mic' = mic
        BY <1>b, <2>3, <3>10
      <4> QED BY <1>a, <3>2, <3>3, <3>4, <3>7, <3>8, <3>10, <4>1 DEF RecordInv
    <3> QED BY <3>9, <3>10
  <2> QED BY <1>d, <2>4, <2>5, <2>6, <2>7 DEF Aligned
<1> QED BY <1>1, <1>2, <1>3, <1>4

(* The host reads what the client says.                                     *)
LEMMA HostAligned == IInv /\ Aligned /\ (HostRequest \/ HostClose) => Aligned'
<1> SUFFICES ASSUME IInv, Aligned, HostRequest \/ HostClose
             PROVE  Aligned'
  OBVIOUS
<1>a. /\ TypeOK /\ HostShown /\ ToHostInv /\ ToClientInv /\ StatusInv /\ RecordInv
  BY DEF IInv, Aligned
<1>b. /\ clock \in Nat /\ pending \in Nat /\ asked \in Nat
      /\ toHost \in Seq(Messages) /\ toClient \in Seq(Messages) /\ status \in Statuses
  BY <1>a, MaxRequestsAssumption DEF TypeOK
<1>c. /\ UNCHANGED <<client, toClient>>
      /\ toHost # <<>> /\ toHost' = Tail(toHost) /\ Head(toHost) = toHost[1]
      /\ 1 \in DOMAIN toHost
  BY <1>b DEF HostRequest, HostClose
(* The host has something to read: no answer is on its way.                 *)
<1>d. ~Answered /\ status # "connected"
  BY <1>a, <1>c DEF Answered, ToClientInv, StatusInv
<1>e. ToClientInv'
  BY <1>a, <1>c, <1>d DEF ToClientInv, Answered
<1>1. CASE HostRequest
  <2>1. /\ toHost[1].type = "request" /\ asked' = toHost[1].ts /\ asked' # 0
        /\ UNCHANGED <<calling, device, refused>>
    BY <1>a, <1>c, <1>1 DEF HostRequest, ToHostInv
  <2>2. Shown' = "incoming"
    <3>1. toManager' = Append(toManager, "incoming")
      BY <1>1 DEF HostRequest
    <3> QED BY <1>a, <3>1, LastWord DEF ShownBy
  <2>3. HostShown'
    BY <1>a, <2>1, <2>2 DEF HostShown
  <2>4. ToHostInv'
    BY <1>a, <1>b, <1>c, <2>1, Shorter DEF ToHostInv, client
  <2>5. StatusInv'
    BY <1>a, <1>b, <1>c, <1>d, <2>1, <2>2, Shorter DEF ToHostInv, StatusInv, client
  <2>6. RecordInv'
    <3>1. Has(toHost', "close") <=> Has(toHost, "close")
      BY <1>b, <1>c, <2>1, HasTail
    <3> QED BY <1>a, <1>c, <2>1, <3>1 DEF RecordInv, client
  <2> QED BY <1>e, <2>3, <2>4, <2>5, <2>6 DEF Aligned
<1>2. CASE HostClose
  <2>1. /\ toHost[1].type = "close" /\ asked' = asked /\ ~calling' /\ ~device'
    BY <1>c, <1>2 DEF HostClose, Hangup
  <2>2. Shown' = "idle"
    <3>1. toManager' = Append(toManager, "closed")
      BY <1>2 DEF HostClose, Hangup
    <3> QED BY <1>a, <3>1, LastWord DEF ShownBy
  <2>3. HostShown'
    BY <2>1, <2>2 DEF HostShown
  <2>4. ToHostInv'
    <3>1. /\ Len(toHost) \in Nat \ {0} /\ Len(toHost') = Len(toHost) - 1
          /\ DOMAIN toHost = 1..Len(toHost) /\ DOMAIN toHost' = 1..Len(toHost')
          /\ \A i \in DOMAIN toHost' : i + 1 \in DOMAIN toHost /\ toHost'[i] = toHost[i + 1]
      BY <1>b, <1>c, Shorter
    <3> QED BY <1>a, <1>b, <1>c, <2>1, <2>2, <3>1 DEF ToHostInv, client
  <2>5. StatusInv'
    BY <1>a, <1>b, <1>c, <1>d, <2>1, <2>2, Shorter DEF ToHostInv, StatusInv, client
  <2>6. RecordInv'
    <3>1. Has(toHost, "close")
      BY <1>c, <2>1 DEF Has
    <3>2. ~mic'
      BY <1>a, <1>c, <3>1 DEF RecordInv, client
    <3> QED BY <2>1, <3>2 DEF RecordInv
  <2> QED BY <1>e, <2>3, <2>4, <2>5, <2>6 DEF Aligned
<1> QED BY <1>1, <1>2

(* The host hears its user.                                                 *)
LEMMA UserAligned ==
    IInv /\ Aligned /\ ~crossed' /\ (ManagerAnswered \/ ManagerClosed) => Aligned'
<1> SUFFICES ASSUME IInv, Aligned, ~crossed', ManagerAnswered \/ ManagerClosed
             PROVE  Aligned'
  OBVIOUS
<1>a. /\ TypeOK /\ HostShown /\ ToHostInv /\ ToClientInv /\ StatusInv /\ RecordInv
  BY DEF IInv, Aligned
<1>b. /\ clock \in Nat /\ pending \in Nat /\ asked \in 0..MaxRequests
      /\ toHost \in Seq(Messages) /\ toClient \in Seq(Messages) /\ status \in Statuses
      /\ MaxRequests \in Nat
  BY <1>a, MaxRequestsAssumption DEF TypeOK
<1>c. UNCHANGED <<client, toHost>>
  BY DEF ManagerAnswered, ManagerClosed
<1>1. CASE ManagerAnswered /\ asked = 0
  <2>1. UNCHANGED <<asked, calling, device, refused, toClient>> /\ Shown' = Shown
    BY <1>a, <1>1, LastWord DEF ManagerAnswered, HandleVoiceCall, host
  <2> QED BY <1>a, <1>c, <2>1
          DEF Aligned, HostShown, ToHostInv, ToClientInv, StatusInv, RecordInv, Answered, client
<1>2. CASE ManagerAnswered /\ asked # 0
  <2> DEFINE accepted == Head(fromManager) = "accept"
             m == Response(asked, accepted)
             x == IF accepted THEN "started" ELSE "closed"
  <2>1. /\ asked = pending /\ status = "waitingForResponse" /\ asked' = 0
        /\ device' = (accepted \/ device) /\ calling' = accepted
        /\ refused' = (~accepted /\ (refused \/ mic))
        /\ toManager' = Append(toManager, x) /\ toClient' = Append(toClient, m)
    BY <1>2 DEF ManagerAnswered, HandleVoiceCall, NobodyWaits
  <2>2. /\ m \in Messages /\ IsAnswer(m) /\ m.ts = asked
        /\ m.type = "accepted" <=> accepted
    BY <1>b, MessageType DEF Response, IsAnswer
  <2>3. x \in {"incoming", "started", "closed"}
    OBVIOUS
  <2>4. Shown' = IF accepted THEN "inCall" ELSE "idle"
    <3>1. Shown' = ShownBy(x)
      BY <1>a, <2>1, <2>3, LastWord
    <3> QED BY <3>1 DEF ShownBy
  <2> HIDE DEF accepted, m, x
(* It is the last request that the host answers, so it has read everything. *)
  <2>5. toHost = <<>>
    <3> SUFFICES ASSUME toHost # <<>> PROVE FALSE
      OBVIOUS
    <3>1. Len(toHost) \in DOMAIN toHost
      BY <1>b
    <3>2. toHost[Len(toHost)].type = "request"
      BY <1>a, <2>1, <3>1 DEF ToHostInv
    <3> QED BY <1>a, <2>1, <3>1, <3>2 DEF ToHostInv, StatusInv
  <2>6. ~Answered
    BY <1>a, <1>2 DEF Answered, ToClientInv
  <2>7. Shown = "incoming"
    BY <1>a, <2>1, <2>5, <2>6 DEF StatusInv
(* A device that is on is a recording caller's. *)
  <2>r. device => mic
    <3>1. ~Has(toHost, "close") /\ ~Has(toClient, "accepted")
      BY <2>5, <2>6 DEF Has, Answered, IsAnswer
    <3> QED BY <1>a, <3>1 DEF RecordInv
  <2>8. HostShown'
    BY <1>a, <2>1, <2>4, <2>r DEF HostShown
  <2>9. ToHostInv'
    BY <1>a, <1>b, <1>c, <2>1, <2>5 DEF ToHostInv, client
  <2>10. ToClientInv'
    <3>1. /\ Len(toClient) \in Nat /\ DOMAIN toClient = 1..Len(toClient)
          /\ Len(toClient') = Len(toClient) + 1 /\ DOMAIN toClient' = 1..(Len(toClient) + 1)
          /\ \A i \in 1..Len(toClient) : toClient'[i] = toClient[i]
          /\ toClient'[Len(toClient) + 1] = m
      BY <1>b, <2>1, <2>2, Longer
    <3>2. \A i \in 1..Len(toClient) : toClient'[i].type # "request" /\ ~IsAnswer(toClient'[i])
      BY <1>a, <2>6, <3>1 DEF ToClientInv, Answered
    <3>3. m.type # "request"
      BY <2>2 DEF IsAnswer
    <3>4. m.ts = pending' /\ status' = "waitingForResponse" /\ toHost' = <<>>
      BY <1>c, <2>1, <2>2, <2>5 DEF client
    <3>5. \A i \in DOMAIN toClient' : IsAnswer(toClient'[i]) => i = Len(toClient) + 1
      BY <3>1, <3>2
    <3>6. Shown' = IF m.type = "accepted" THEN "inCall" ELSE "idle"
      BY <2>2, <2>4
    <3>7. Len(toClient') = Len(toClient) + 1
      BY <3>1
    <3> QED BY <2>1, <3>1, <3>2, <3>3, <3>4, <3>5, <3>6, <3>7 DEF ToClientInv
  <2>11. Answered'
    <3>1. Len(toClient) + 1 \in DOMAIN toClient' /\ toClient'[Len(toClient) + 1] = m
      BY <1>b, <2>1, <2>2, Longer
    <3> QED BY <2>2, <3>1 DEF Answered
  <2>12. StatusInv'
    BY <1>a, <1>c, <2>1, <2>11 DEF StatusInv, client
  <2>13. RecordInv'
    <3>1. /\ Has(toClient', "accepted") <=> Has(toClient, "accepted") \/ accepted
          /\ Has(toClient', "close") <=> Has(toClient, "close")
      BY <1>b, <2>1, <2>2, HasAppend DEF IsAnswer
    <3>2. UNCHANGED <<mic, toHost, status>>
      BY <1>c DEF client
    <3> QED BY <1>a, <2>1, <3>1, <3>2 DEF RecordInv
  <2> QED BY <2>8, <2>9, <2>10, <2>12, <2>13 DEF Aligned
<1>3. CASE ManagerClosed
  <2>1. /\ asked = 0 /\ asked' = 0 /\ ~calling' /\ ~device'
        /\ toManager' = Append(toManager, "closed")
        /\ toClient' = Append(toClient, CloseRequest)
    BY <1>3 DEF ManagerClosed, Hangup
  <2>2. Shown' = "idle" /\ Shown # "incoming"
    BY <1>a, <2>1, LastWord DEF ShownBy, HostShown
  <2>3. CloseRequest \in Messages /\ CloseRequest.type = "close"
    BY MessageType DEF CloseRequest
  <2> HIDE DEF CloseRequest
  <2>4. HostShown'
    BY <2>1, <2>2 DEF HostShown
  <2>5. ToHostInv'
    BY <1>a, <1>c, <2>1, <2>2 DEF ToHostInv, client
  <2>6. ToClientInv'
    BY <1>a, <1>b, <1>c, <2>1, <2>2, <2>3, Longer DEF ToClientInv, IsAnswer, client
  <2>7. Answered => Answered'
    <3> SUFFICES ASSUME NEW i \in DOMAIN toClient, IsAnswer(toClient[i])
                 PROVE  \E k \in DOMAIN toClient' : IsAnswer(toClient'[k])
      BY DEF Answered, IsAnswer
    <3>1. i \in DOMAIN toClient' /\ toClient'[i] = toClient[i]
      BY <1>b, <2>1, <2>3, Longer
    <3> QED BY <3>1
  <2>8. StatusInv'
    BY <1>a, <1>b, <1>c, <2>1, <2>2, <2>3, <2>7, Longer DEF StatusInv, client
  <2>9. RecordInv'
    <3>1. Has(toClient', "close")
      BY <1>b, <2>1, <2>3, HasAppend
    <3> QED BY <1>a, <1>c, <2>1, <3>1 DEF RecordInv, client
  <2> QED BY <2>4, <2>5, <2>6, <2>8, <2>9 DEF Aligned
<1> QED BY <1>1, <1>2, <1>3

LEMMA CallStep == IInv /\ CallInv /\ [Next]_vars => CallInv'
<1> SUFFICES ASSUME IInv, CallInv, [Next]_vars
             PROVE  CallInv'
  OBVIOUS
<1>a. TypeOK
  BY DEF IInv
<1>1. CASE Disconnect
  BY <1>1 DEF Disconnect, CallInv
<1>2. CASE UNCHANGED vars
  <2>1. Shown' = Shown
    BY <1>2 DEF vars, queues, Shown
  <2> QED BY <1>2, <2>1
          DEF CallInv, Aligned, HostShown, ToHostInv, ToClientInv, StatusInv, RecordInv, Answered,
              vars, client, host, queues
<1>3. CASE Deliver \/ Users
  <2>1. ~gone /\ ~gone'
    BY <1>3 DEF Deliver, Users, ClientRequest, ClientResponse, HostRequest, HostClose,
       ManagerAnswered, ManagerClosed, ManagerUpdate, NewVoiceCall, CloseVoiceCall,
       Accept, Refuse, CloseFromManager, Press
  <2>2. crossed => crossed'
    BY <1>3 DEF Deliver, Users, ClientRequest, ClientResponse, HostRequest, HostClose,
       ManagerAnswered, HandleVoiceCall, ManagerClosed, ManagerUpdate, NewVoiceCall,
       CloseVoiceCall, Accept, Refuse, CloseFromManager, Press
  <2>3. ASSUME ~crossed' PROVE Aligned'
    <3>0. Aligned
      BY <2>1, <2>2, <2>3 DEF CallInv
    <3>1. CASE NewVoiceCall \/ CloseVoiceCall \/ ClientRequest \/ ClientResponse
      BY <2>3, <3>0, <3>1, ClientAligned
    <3>2. CASE HostRequest \/ HostClose
      BY <3>0, <3>2, HostAligned
    <3>3. CASE ManagerAnswered \/ ManagerClosed
      BY <2>3, <3>0, <3>3, UserAligned
    <3>4. CASE ManagerUpdate \/ Accept \/ Refuse \/ CloseFromManager
      <4>1. UNCHANGED <<client, host, toHost, toClient>>
        BY <3>4 DEF ManagerUpdate, Accept, Refuse, CloseFromManager, Press
      <4>2. Shown' = Shown
        BY <1>a, <3>4, LastWord DEF Accept, Refuse, CloseFromManager, Press
      <4> QED BY <3>0, <4>1, <4>2
              DEF Aligned, HostShown, ToHostInv, ToClientInv, StatusInv, RecordInv, Answered,
                  client, host
    <3> QED BY <1>3, <3>1, <3>2, <3>3, <3>4 DEF Deliver, Users
  <2> QED BY <2>1, <2>3 DEF CallInv
<1> QED BY <1>1, <1>2, <1>3 DEF Next

LEMMA CallInvariance == Spec => []CallInv
BY InitCall, CallStep, Invariance, PTL DEF Spec

(* Client, host and manager agree on the call once nothing is on its way,   *)
(* and recorder and device go together, however many calls there were, made *)
(* during another or not, and however long the queues.                      *)
THEOREM AgreementWhenQuiet == Spec => []AgreeWhenQuiet
<1>1. IInv /\ CallInv => AgreeWhenQuiet
  <2> SUFFICES ASSUME IInv, CallInv, Quiet, ~gone, ~crossed
               PROVE  /\ mic = device
                      /\ CASE status = "notStarted" ->
                                  manager = "idle" /\ ~calling /\ (mic => refused)
                           [] status = "waitingForResponse" ->
                                  manager = "incoming" /\ asked = pending
                           [] status = "connected" -> manager = "inCall" /\ calling /\ mic
    BY DEF AgreeWhenQuiet
  <2>1. TypeOK /\ MicAccepted /\ HostShown /\ StatusInv /\ RecordInv
    BY DEF IInv, CallInv, Aligned
  <2>2. Shown = manager /\ ~Answered
    BY DEF Quiet, Shown, Answered
  <2>3. toHost = <<>> /\ toClient = <<>>
    BY DEF Quiet
  <2>4. \A type : ~Has(toHost, type) /\ ~Has(toClient, type)
    BY <2>3 DEF Has
  <2>5. mic = device
    BY <2>1, <2>4 DEF RecordInv, TypeOK
  <2>6. CASE status = "notStarted"
    BY <2>1, <2>2, <2>3, <2>5, <2>6 DEF HostShown, StatusInv
  <2>7. CASE status = "waitingForResponse"
    BY <2>1, <2>2, <2>3, <2>5, <2>7 DEF StatusInv
  <2>8. CASE status = "connected"
    BY <2>1, <2>2, <2>3, <2>5, <2>8 DEF MicAccepted, HostShown, StatusInv
  <2> QED BY <2>1, <2>6, <2>7, <2>8 DEF TypeOK, Statuses
<1> QED BY <1>1, Invariance, CallInvariance, PTL

(* The input device is in use only during a call, or after the refusal of a *)
(* caller that was recording.                                               *)
THEOREM DeviceOnlyInCall == Spec => []DeviceInCall
<1>1. IInv /\ CallInv => DeviceInCall
  <2> SUFFICES ASSUME IInv, CallInv, device PROVE ~gone /\ (calling \/ refused \/ crossed)
    BY DEF DeviceInCall
  <2>1. ~gone
    BY DEF CallInv
  <2>2. ASSUME ~crossed PROVE calling \/ refused
    BY <2>1, <2>2 DEF CallInv, Aligned, HostShown
  <2> QED BY <2>1, <2>2
<1> QED BY <1>1, Invariance, CallInvariance, PTL
=============================================================================
