------------------------------- MODULE TeamHub -------------------------------
(***************************************************************************)
(* Who is online in the team app: the WebSocket hub of src/server/routes.ts *)
(* and the one hook that connects to it, the useWebSocket of AuthProvider   *)
(* (src/client/src/hooks/useWebSocket.tsx, context/AuthContext.tsx).        *)
(*                                                                         *)
(* A tab opens a socket when its user is known, authenticates on it as that *)
(* user, and opens another five seconds after one closed.  The hub lists    *)
(* the sockets of each user and broadcasts who comes and who has gone.      *)
(* Every handler of the hub runs alone up to its await.                     *)
(***************************************************************************)
EXTENDS Naturals, Sequences

CONSTANTS Users,
          Tabs,
          Slots,     \* Slots[t]: the sockets that t may have at a time, numbered
          Accounts,  \* Accounts[t]: the users who log in on tab t, one after the
                     \*   other's logout
          None       \* nobody, or no socket

TabOf(s) == s[1]

SocketsOf(t) == {t} \X Slots[t]

Sockets == UNION {SocketsOf(t) : t \in Tabs}

AccountsOf(t) == {Accounts[t][i] : i \in DOMAIN Accounts[t]}

ASSUME AccountsAssumption == Accounts \in [Tabs -> Seq(Users) \ {<<>>}]
ASSUME NoneAssumption == None \notin Users /\ None \notin Sockets

VARIABLES
    user,              \* user[t]: who AuthProvider knows to be logged in
    turn,              \* turn[t]: whose turn it is in Accounts[t]
    socketRef,         \* socketRef[t]: the hook's current socket
    browser,           \* browser[s]: the socket in the browser; "closed" has
                       \*   its reconnection timer running
    account,           \* account[s]: the userId that connect was given
    server,            \* server[s]: the socket in wss.clients
    uplink,            \* uplink[s]: the "authenticate" messages on their way
    userId,            \* userId[s]: the variable of the connection's handlers
    loading,           \* loading[s]: handlers that await getRecentMessages
    connectedClients,  \* connectedClients[u][s]: entries of s in the list of u,
                       \*   whose order nothing reads
    left,              \* left: users whose list keeps a socket that is gone and
                       \*   has lost its slot to a later one
    said,              \* said[u]: the last user_status broadcast about u
    failed,            \* ghost: sockets that getRecentMessages failed for
    mixed              \* ghost: sockets that authenticated as several users

tabVars == <<user, turn, socketRef>>
socketVars == <<browser, account, uplink>>
hubVars == <<userId, loading, connectedClients, left, said, failed, mixed>>
vars == <<user, turn, socketRef, browser, account, server, uplink, userId, loading,
          connectedClients, left, said, failed, mixed>>

Init ==
    /\ user = [t \in Tabs |-> None]
    /\ turn = [t \in Tabs |-> 1]
    /\ socketRef = [t \in Tabs |-> None]
    /\ browser = [s \in Sockets |-> "idle"]
    /\ account \in [Sockets -> {None}]
    /\ server = [s \in Sockets |-> "none"]
    /\ uplink = [s \in Sockets |-> <<>>]
    /\ userId = [s \in Sockets |-> None]
    /\ loading = [s \in Sockets |-> 0]
    /\ connectedClients = [u \in Users |-> [s \in Sockets |-> 0]]
    /\ left = {}
    /\ said = [u \in Users |-> "nothing"]
    /\ failed = {} /\ mixed = {}

-----------------------------------------------------------------------------
(* The browser. *)

(* Nothing of an earlier socket is left in the slot.                        *)
Free(s) == browser[s] = "idle" /\ server[s] # "open" /\ loading[s] = 0

(* Mutant: only whether there is a socket is looked at. *)
HasSocket(t) == socketRef[t] # None

(* The early return of connect.                                             *)
AlreadyConnected(t) == socketRef[t] # None /\ browser[socketRef[t]] = "open"

(* new WebSocket, in slot s *)
Open(t, s) ==
    /\ socketRef' = [socketRef EXCEPT ![t] = s]
    /\ server' = [server EXCEPT ![s] = "none"]
    /\ userId' = [userId EXCEPT ![s] = None]
    /\ left' = left \cup {v \in Users : connectedClients[v][s] > 0}
    /\ connectedClients' = [v \in Users |-> [connectedClients[v] EXCEPT ![s] = 0]]
    /\ mixed' = mixed \ {s}
    /\ UNCHANGED <<uplink, loading, said, failed>>

Keep == UNCHANGED <<socketRef, server, uplink, hubVars>>

(* AuthProvider's effect: the user is known, by a login or by the session.  *)
Login(t) ==
    LET u == Accounts[t][turn[t]] IN
    /\ user[t] = None
    /\ UNCHANGED turn
    /\ user' = [user EXCEPT ![t] = u]
    /\ \/ AlreadyConnected(t) /\ Keep /\ UNCHANGED <<browser, account>>
       \/ /\ ~AlreadyConnected(t)
          /\ \E s \in SocketsOf(t) :
                /\ Free(s)
                /\ Open(t, s)
                /\ browser' = [browser EXCEPT ![s] = "connecting"]
                /\ account' = [account EXCEPT ![s] = u]

Closing(state) == IF state \in {"connecting", "open"} THEN "closing" ELSE state

(* logout: disconnect, and the user is fetched again.  The next one may log  *)
(* in, if there is one.                                                     *)
Logout(t) ==
    /\ user[t] # None /\ turn[t] < Len(Accounts[t])
    /\ turn' = [turn EXCEPT ![t] = @ + 1]
    /\ user' = [user EXCEPT ![t] = None]
    /\ socketRef' = [socketRef EXCEPT ![t] = None]
    /\ browser' = [s \in Sockets |->
                     IF s = socketRef[t] THEN Closing(browser[s]) ELSE browser[s]]
    /\ UNCHANGED <<account, server, uplink, hubVars>>

(* The page is left or reloaded: its sockets and its timers are gone.       *)
Leave(t) ==
    /\ user' = [user EXCEPT ![t] = None]
    /\ socketRef' = [socketRef EXCEPT ![t] = None]
    /\ browser' = [s \in Sockets |-> IF TabOf(s) = t THEN "idle" ELSE browser[s]]
    /\ account' = [s \in Sockets |-> IF TabOf(s) = t THEN None ELSE account[s]]
    /\ UNCHANGED <<turn, server, uplink, hubVars>>

(* onopen authenticates on the hook's current socket, which need not be the *)
(* one that opened; a send on one that is still connecting throws.          *)
Opened(s) ==
    LET current == socketRef[TabOf(s)] IN
    /\ browser[s] = "connecting"
    /\ server[s] # "none"
    /\ browser' = [browser EXCEPT ![s] = "open"]
    /\ uplink' = [x \in Sockets |->
                    IF x = current /\ browser'[x] = "open" /\ server[x] = "open"
                      THEN Append(uplink[x], account[s]) ELSE uplink[x]]
    /\ UNCHANGED <<tabVars, account, server, hubVars>>

(* onclose: one side has closed the socket, or the network dropped it.      *)
ClosedByPeer(s) == browser[s] = "closing" \/ server[s] = "closed"

Closed(s) ==
    /\ browser[s] \in {"connecting", "open", "closing"}
    /\ browser' = [browser EXCEPT ![s] = "closed"]
    /\ UNCHANGED <<tabVars, account, server, uplink, hubVars>>

(* The timer of onclose, whatever the tab did in the meantime.              *)
Reconnects(s) ==
    LET t == TabOf(s) IN
    /\ browser[s] = "closed"
    /\ \/ /\ AlreadyConnected(t)
          /\ browser' = [browser EXCEPT ![s] = "idle"]
          /\ account' = [account EXCEPT ![s] = None]
          /\ Keep
       \/ /\ ~AlreadyConnected(t)
          /\ \E x \in SocketsOf(t) :
                /\ Free(x) \/ (x = s /\ server[s] # "open" /\ loading[s] = 0)
                /\ Open(t, x)
                /\ browser' = [browser EXCEPT ![s] = "idle", ![x] = "connecting"]
                /\ account' = [account EXCEPT ![s] = None, ![x] = account[s]]
    /\ UNCHANGED <<user, turn>>

-----------------------------------------------------------------------------
(* The hub. *)

Accept(s) ==
    /\ browser[s] \in {"connecting", "closing"}
    /\ server[s] = "none"
    /\ server' = [server EXCEPT ![s] = "open"]
    /\ UNCHANGED <<tabVars, socketVars, hubVars>>

(* "authenticate", up to the await.                                         *)
Authenticate(s) ==
    /\ server[s] = "open"
    /\ uplink[s] # <<>>
    /\ LET u == Head(uplink[s]) IN
       /\ userId' = [userId EXCEPT ![s] = u]
       /\ connectedClients' = [connectedClients EXCEPT ![u][s] = @ + 1]
       /\ mixed' = IF userId[s] \in {None, u} THEN mixed ELSE mixed \cup {s}
    /\ uplink' = [uplink EXCEPT ![s] = Tail(@)]
    /\ loading' = [loading EXCEPT ![s] = @ + 1]
    /\ UNCHANGED <<tabVars, browser, account, server, left, said, failed>>

(* Mutant: the status is sent once more. *)
HistoryLoadedAgain(s) ==
    /\ userId[s] # None
    /\ loading' = [loading EXCEPT ![s] = @ - 1]
    /\ said' = [said EXCEPT ![userId[s]] = "online"]
    /\ UNCHANGED <<tabVars, socketVars, server, userId, connectedClients, left, failed,
                   mixed>>

(* After the await: the history to the socket, the status to everybody; the *)
(* socket may have closed since.                                            *)
HistoryLoaded(s) ==
    /\ loading[s] > 0
    /\ loading' = [loading EXCEPT ![s] = @ - 1]
    /\ said' = [said EXCEPT ![userId[s]] = "online"]
    /\ UNCHANGED <<tabVars, socketVars, server, userId, connectedClients, left, failed,
                   mixed>>

(* The catch around the handler only logs.                                  *)
HistoryFails(s) ==
    /\ loading[s] > 0
    /\ loading' = [loading EXCEPT ![s] = @ - 1]
    /\ failed' = IF server[s] = "open" THEN failed \cup {s} ELSE failed
    /\ UNCHANGED <<tabVars, socketVars, server, userId, connectedClients, left, said,
                   mixed>>

(* Mutant: one entry is spliced out of the list. *)
RemainingSpliced(list, s) == [list EXCEPT ![s] = IF @ > 0 THEN @ - 1 ELSE 0]

Remaining(list, s) == [list EXCEPT ![s] = 0]

(* Mutant: every socket that closes takes its user offline. *)
AnyLeaves(list) == TRUE

NoneLeft(list) == \A s \in Sockets : list[s] = 0

(* The "close" event: the browser is gone, or the network dropped it.       *)
LeftByPeer(s) == browser[s] \in {"idle", "closing", "closed"}

CloseHandler(s) ==
    /\ server[s] = "open"
    /\ server' = [server EXCEPT ![s] = "closed"]
    /\ \/ userId[s] = None /\ UNCHANGED <<connectedClients, said>>
       \/ /\ userId[s] # None
          /\ LET u == userId[s]
                 updatedConnections == Remaining(connectedClients[u], s)
             IN /\ connectedClients' = [connectedClients EXCEPT ![u] = updatedConnections]
                /\ said' = IF NoneLeft(updatedConnections) /\ u \notin left
                             THEN [said EXCEPT ![u] = "offline"] ELSE said
    /\ uplink' = [uplink EXCEPT ![s] = <<>>]
    /\ failed' = failed \ {s}
    /\ UNCHANGED <<tabVars, browser, account, userId, loading, left, mixed>>

-----------------------------------------------------------------------------
Next ==
    \/ \E t \in Tabs : Login(t) \/ Logout(t) \/ Leave(t)
    \/ \E s \in Sockets : Opened(s) \/ Closed(s) \/ Reconnects(s)
    \/ \E s \in Sockets : \/ Accept(s) \/ Authenticate(s) \/ HistoryLoaded(s)
                          \/ HistoryFails(s) \/ CloseHandler(s)

Spec == Init /\ [][Next]_vars

(* The network drops s, for one side of it.                                 *)
Drops(s) == (Closed(s) /\ ~ClosedByPeer(s)) \/ (CloseHandler(s) /\ ~LeftByPeer(s))

(* Browser and hub keep running, the database answers, and each side learns *)
(* in the end that the other one has closed a socket.                       *)
Fairness ==
    \A s \in Sockets :
        /\ WF_vars(Opened(s) \/ (ClosedByPeer(s) /\ Closed(s)) \/ Reconnects(s))
        /\ WF_vars(Accept(s) \/ Authenticate(s) \/ HistoryLoaded(s)
                     \/ (LeftByPeer(s) /\ CloseHandler(s)))

(* The network, which may fail every attempt for as long as it likes, is    *)
(* stable in the end.                                                       *)
LiveSpec == Spec /\ Fairness /\ <>[][~ \E s \in Sockets : Drops(s)]_vars

-----------------------------------------------------------------------------
(* Properties. *)

(* Types of the tabs, the sockets and the hub.                              *)
TypeOK ==
    /\ user \in [Tabs -> Users \cup {None}]
    /\ socketRef \in [Tabs -> Sockets \cup {None}]
    /\ browser \in [Sockets -> {"idle", "connecting", "open", "closing", "closed"}]
    /\ account \in [Sockets -> Users \cup {None}]
    /\ server \in [Sockets -> {"none", "open", "closed"}]
    /\ uplink \in [Sockets -> Seq(Users)]
    /\ userId \in [Sockets -> Users \cup {None}]
    /\ loading \in [Sockets -> Nat]
    /\ connectedClients \in [Users -> [Sockets -> Nat]]
    /\ said \in [Users -> {"nothing", "online", "offline"}]
    /\ failed \subseteq Sockets /\ mixed \subseteq Sockets /\ left \subseteq Users
    /\ turn \in [Tabs -> Nat] /\ \A t \in Tabs : turn[t] \in DOMAIN Accounts[t]

(* The sockets in the list of u.                                            *)
Listed(u) == {s \in Sockets : connectedClients[u][s] > 0}

(* The hub lists for a user exactly the open sockets authenticated as that  *)
(* user, however often a socket authenticated: none that has closed stays,  *)
(* and the close of one never drops another.  Only a socket that            *)
(* authenticated as several users stays listed for the earlier ones, for    *)
(* ever: two accounts on a tab may meet on one.                              *)
ListedIffOpen ==
    \A u \in Users : \A s \in Sockets :
        /\ server[s] = "open" /\ userId[s] = u => s \in Listed(u)
        /\ s \in Listed(u) => (server[s] = "open" /\ userId[s] = u) \/ s \in mixed

(* Whoever was last told that a user is offline was told right: the user's  *)
(* sockets have all closed, or those opened since are still on their way    *)
(* through the database, were refused by it, or are of several users.       *)
OfflineIsTrue ==
    \A u \in Users : said[u] = "offline" =>
        \A s \in Listed(u) : loading[s] > 0 \/ s \in failed \/ s \in mixed

(* The hook's socket was opened, and is open, for another account: a timer  *)
(* of the account before, and connect returns early.                        *)
ConnectedForOther(t, u) ==
    \E s \in SocketsOf(t) : socketRef[t] = s /\ browser[s] = "open" /\ account[s] # u

(* A tab whose user stays logged in gets the user listed, through whatever  *)
(* failures of its sockets, reloads and logins before, of this account or   *)
(* another; if not, the tab has been connected for another account, and     *)
(* keeps being so.                                                          *)
ComesOnline ==
    \A t \in Tabs : \A u \in AccountsOf(t) :
        (user[t] = u) ~>
            \/ user[t] # u
            \/ \E s \in SocketsOf(t) : s \in Listed(u)
            \/ ConnectedForOther(t, u)
=============================================================================
