----------------------------- MODULE TeamProofs -----------------------------
(***************************************************************************)
(* The team app, for any users, tabs, sockets and readings.                 *)
(*                                                                         *)
(* TeamHub: the hub never forgets an open socket, and beyond the sockets    *)
(* that authenticated as several users it lists only open ones, and an      *)
(* offline it said is true; a tab with one account has no such socket.      *)
(* Locations: no interval is left behind, no report ends silently without   *)
(* being stored and logged, and rows are out of order only where two        *)
(* reports crossed.                                                         *)
(***************************************************************************)
EXTENDS TeamHub, Locations, TLAPS

-----------------------------------------------------------------------------
(* The hub: who is listed, and what was last said *)

(* A socket that is not idle was opened for a user, the hook's socket is    *)
(* the tab's own, and one that the hub has not accepted is of nobody.       *)
Wired ==
    /\ \A s \in Sockets : browser[s] # "idle" => account[s] \in Users
    /\ \A t \in Tabs : socketRef[t] \in SocketsOf(t) \cup {None}
    /\ \A s \in Sockets : server[s] = "none" => userId[s] = None

(* The hub never loses an open socket: whatever user its handlers have last *)
(* noted, it is in the list of that user (connectedClients in routes.ts).   *)
OpenIsListed ==
    \A s \in Sockets :
        server[s] = "open" /\ userId[s] # None => s \in Listed(userId[s])

HubInv == TypeOK /\ Wired /\ OpenIsListed

(* A socket belongs to one tab. *)
LEMMA SocketTab ==
    /\ \A s \in Sockets : TabOf(s) \in Tabs /\ s \in SocketsOf(TabOf(s))
    /\ \A t \in Tabs : \A s \in SocketsOf(t) : s \in Sockets /\ TabOf(s) = t
BY DEF Sockets, SocketsOf, TabOf

LEMMA HubInit == Init => HubInv
<1> SUFFICES ASSUME Init
             PROVE  HubInv
  OBVIOUS
<1>1. TypeOK
  <2>1. turn \in [Tabs -> Nat] /\ \A t \in Tabs : turn[t] \in DOMAIN Accounts[t]
    <3>1. ASSUME NEW t \in Tabs
          PROVE  1 \in DOMAIN Accounts[t]
      <4>1. Accounts[t] \in Seq(Users) /\ Accounts[t] # <<>>
        BY AccountsAssumption
      <4>2. Len(Accounts[t]) \in Nat /\ Len(Accounts[t]) # 0
        BY <4>1
      <4> QED BY <4>1, <4>2
    <3> QED BY <3>1 DEF Init
  <2> QED BY <2>1 DEF Init, TypeOK
<1>2. Wired /\ OpenIsListed
  BY DEF Init, Wired, OpenIsListed
<1> QED BY <1>1, <1>2 DEF HubInv

(* A new socket of t, for a user that logs in or whose timer has fired.     *)
LEMMA OpenKeeps ==
    ASSUME HubInv, NEW t \in Tabs, NEW u \in Users, NEW x \in SocketsOf(t),
           NEW done \in Sockets, TabOf(done) = t,
           Open(t, x), UNCHANGED turn,
           \/ /\ browser' = [browser EXCEPT ![x] = "connecting"]
              /\ account' = [account EXCEPT ![x] = u]
           \/ /\ browser' = [browser EXCEPT ![done] = "idle", ![x] = "connecting"]
              /\ account' = [account EXCEPT ![done] = None, ![x] = u],
           user' \in [Tabs -> Users \cup {None}]
    PROVE  HubInv'
<1>0. x \in Sockets /\ TabOf(x) = t
  BY SocketTab
<1>1. TypeOK'
  <2>1. connectedClients' \in [Users -> [Sockets -> Nat]]
    <3>1. ASSUME NEW v \in Users
          PROVE  [connectedClients[v] EXCEPT ![x] = 0] \in [Sockets -> Nat]
      BY DEF HubInv, TypeOK
    <3> QED BY <3>1 DEF Open
  <2>2. /\ browser' \in [Sockets -> {"idle", "connecting", "open", "closing", "closed"}]
        /\ account' \in [Sockets -> Users \cup {None}]
    <3>1. CASE /\ browser' = [browser EXCEPT ![x] = "connecting"]
               /\ account' = [account EXCEPT ![x] = u]
      BY <1>0, <3>1 DEF HubInv, TypeOK
    <3>2. CASE /\ browser' = [browser EXCEPT ![done] = "idle", ![x] = "connecting"]
               /\ account' = [account EXCEPT ![done] = None, ![x] = u]
      <4>1. browser' \in [Sockets -> {"idle", "connecting", "open", "closing", "closed"}]
        BY <1>0, <3>2 DEF HubInv, TypeOK
      <4>2. account' \in [Sockets -> Users \cup {None}]
        BY <1>0, <3>2 DEF HubInv, TypeOK
      <4> QED BY <4>1, <4>2
    <3> QED BY <3>1, <3>2
  <2>3. /\ socketRef' \in [Tabs -> Sockets \cup {None}]
        /\ server' \in [Sockets -> {"none", "open", "closed"}]
        /\ userId' \in [Sockets -> Users \cup {None}]
        /\ left' \subseteq Users /\ mixed' \subseteq Sockets
    BY <1>0 DEF HubInv, TypeOK, Open
  <2> QED BY <2>1, <2>2, <2>3 DEF HubInv, TypeOK, Open
<1>2. Wired'
  BY <1>0 DEF HubInv, TypeOK, Wired, Open
<1>3. OpenIsListed'
  BY <1>0 DEF HubInv, TypeOK, OpenIsListed, Open, Listed
<1> QED BY <1>1, <1>2, <1>3 DEF HubInv

(* Whoever's turn it is is one of the accounts of the tab, ...              *)
LEMMA TurnUser ==
    ASSUME TypeOK, NEW t \in Tabs
    PROVE  Accounts[t][turn[t]] \in Users /\ Accounts[t][turn[t]] \in AccountsOf(t)
BY AccountsAssumption DEF TypeOK, AccountsOf

(* ... also after a logout.                                                 *)
LEMMA NextTurn ==
    ASSUME TypeOK, NEW t \in Tabs, Logout(t)
    PROVE  turn' \in [Tabs -> Nat] /\ \A x \in Tabs : turn'[x] \in DOMAIN Accounts[x]
<1>1. turn' = [turn EXCEPT ![t] = turn[t] + 1] /\ turn[t] < Len(Accounts[t])
  BY DEF Logout
<1>2. turn[t] \in Nat /\ turn[t] + 1 \in DOMAIN Accounts[t]
  BY <1>1, AccountsAssumption DEF TypeOK
<1> QED BY <1>1, <1>2 DEF TypeOK

LEMMA TabKeeps ==
    ASSUME HubInv, NEW t \in Tabs,
           Login(t) \/ Logout(t) \/ Leave(t)
    PROVE  HubInv'
<1> USE AccountsAssumption, NoneAssumption, SocketTab
<1>1. CASE Login(t)
  <2> DEFINE u == Accounts[t][turn[t]]
  <2>0. u \in Users /\ user' = [user EXCEPT ![t] = u] /\ UNCHANGED turn
    BY <1>1, TurnUser DEF Login, HubInv
  <2> HIDE DEF u
  <2>1. CASE Keep /\ UNCHANGED <<browser, account>>
    BY <2>0, <2>1 DEF Keep, hubVars, HubInv, TypeOK, Wired, OpenIsListed, Listed
  <2>2. ASSUME NEW x \in SocketsOf(t), Open(t, x),
               browser' = [browser EXCEPT ![x] = "connecting"],
               account' = [account EXCEPT ![x] = u]
        PROVE  HubInv'
    <3>1. user' \in [Tabs -> Users \cup {None}]
      BY <2>0 DEF HubInv, TypeOK
    <3> QED BY <2>0, <2>2, <3>1, OpenKeeps
  <2> QED BY <1>1, <2>1, <2>2 DEF Login, u
<1>2. CASE Logout(t)
  <2>0. turn' \in [Tabs -> Nat] /\ \A x \in Tabs : turn'[x] \in DOMAIN Accounts[x]
    BY <1>2, NextTurn DEF HubInv
  <2>1. TypeOK'
    BY <1>2, <2>0 DEF HubInv, TypeOK, Logout, Closing, hubVars
  <2>2. Wired'
    BY <1>2 DEF HubInv, TypeOK, Wired, Logout, Closing, hubVars
  <2>3. OpenIsListed'
    BY <1>2 DEF HubInv, OpenIsListed, Logout, hubVars, Listed
  <2> QED BY <2>1, <2>2, <2>3 DEF HubInv
<1>3. CASE Leave(t)
  <2>1. TypeOK'
    BY <1>3 DEF HubInv, TypeOK, Leave, hubVars
  <2>2. Wired'
    BY <1>3 DEF HubInv, TypeOK, Wired, Leave, hubVars
  <2>3. OpenIsListed'
    BY <1>3 DEF HubInv, OpenIsListed, Leave, hubVars, Listed
  <2> QED BY <2>1, <2>2, <2>3 DEF HubInv
<1> QED BY <1>1, <1>2, <1>3

LEMMA SocketKeeps ==
    ASSUME HubInv, NEW s \in Sockets, Opened(s) \/ Closed(s) \/ Reconnects(s)
    PROVE  HubInv'
<1> USE SocketTab
<1>1. CASE Opened(s)
  <2>1. account[s] \in Users
    BY <1>1 DEF Opened, HubInv, Wired
  <2>2. /\ browser' = [browser EXCEPT ![s] = "open"]
        /\ \A x \in Sockets : uplink'[x] = uplink[x] \/ uplink'[x] = Append(uplink[x], account[s])
        /\ uplink' = [x \in Sockets |-> uplink'[x]]
        /\ UNCHANGED <<tabVars, account, server, hubVars>>
    BY <1>1 DEF Opened
  <2>3. uplink' \in [Sockets -> Seq(Users)]
    <3>1. ASSUME NEW x \in Sockets PROVE uplink'[x] \in Seq(Users)
      <4>1. uplink[x] \in Seq(Users)
        BY DEF HubInv, TypeOK
      <4>2. Append(uplink[x], account[s]) \in Seq(Users)
        BY <2>1, <4>1
      <4> QED BY <2>2, <4>1, <4>2
    <3> QED BY <2>2, <3>1
  <2>4. TypeOK'
    BY <2>2, <2>3 DEF HubInv, TypeOK, tabVars, hubVars
  <2>5. Wired' /\ OpenIsListed'
    BY <2>1, <2>2 DEF HubInv, TypeOK, Wired, OpenIsListed, Listed, tabVars, hubVars
  <2> QED BY <2>4, <2>5 DEF HubInv
<1>2. CASE Closed(s)
  <2>1. TypeOK'
    BY <1>2 DEF Closed, HubInv, TypeOK, tabVars, hubVars
  <2>2. Wired' /\ OpenIsListed'
    BY <1>2 DEF Closed, HubInv, TypeOK, Wired, OpenIsListed, Listed, tabVars, hubVars
  <2> QED BY <2>1, <2>2 DEF HubInv
<1>3. CASE Reconnects(s)
  <2>0. /\ account[s] \in Users /\ UNCHANGED turn /\ user' \in [Tabs -> Users \cup {None}]
        /\ TabOf(s) \in Tabs
    BY <1>3 DEF Reconnects, HubInv, TypeOK, Wired
  <2>1. CASE /\ Keep /\ browser' = [browser EXCEPT ![s] = "idle"]
             /\ account' = [account EXCEPT ![s] = None] /\ UNCHANGED turn
    BY <2>0, <2>1 DEF Keep, hubVars, HubInv, TypeOK, Wired, OpenIsListed, Listed
  <2>2. ASSUME NEW x \in SocketsOf(TabOf(s)), Open(TabOf(s), x), UNCHANGED turn,
               browser' = [browser EXCEPT ![s] = "idle", ![x] = "connecting"],
               account' = [account EXCEPT ![s] = None, ![x] = account[s]]
        PROVE  HubInv'
    BY <2>0, <2>2, OpenKeeps
  <2> QED BY <1>3, <2>1, <2>2 DEF Reconnects
<1> QED BY <1>1, <1>2, <1>3

LEMMA HubKeeps ==
    ASSUME HubInv, NEW s \in Sockets,
           \/ Accept(s) \/ Authenticate(s) \/ HistoryLoaded(s)
           \/ HistoryFails(s) \/ CloseHandler(s)
    PROVE  HubInv'
<1> USE NoneAssumption DEF HubInv
<1>1. CASE Accept(s)
  <2>1. TypeOK'
    BY <1>1 DEF Accept, TypeOK, tabVars, socketVars, hubVars
  <2>2. Wired' /\ OpenIsListed'
    BY <1>1 DEF Accept, TypeOK, Wired, OpenIsListed, Listed, tabVars, socketVars, hubVars
  <2> QED BY <2>1, <2>2
<1>2. CASE Authenticate(s)
  <2> DEFINE u == Head(uplink[s])
  <2>1. u \in Users /\ Tail(uplink[s]) \in Seq(Users)
    BY <1>2 DEF Authenticate, TypeOK
  <2>2. /\ server[s] = "open"
        /\ userId' = [userId EXCEPT ![s] = u]
        /\ connectedClients' = [connectedClients EXCEPT ![u][s] = @ + 1]
        /\ uplink' = [uplink EXCEPT ![s] = Tail(@)]
        /\ loading' = [loading EXCEPT ![s] = @ + 1]
        /\ mixed' \in {mixed, mixed \cup {s}}
        /\ UNCHANGED <<user, turn, socketRef, browser, account, server, left, said, failed>>
    BY <1>2 DEF Authenticate, tabVars
  <2> HIDE DEF u
  <2>3. TypeOK'
    BY <2>1, <2>2 DEF TypeOK
  <2>4. Wired'
    BY <2>1, <2>2 DEF TypeOK, Wired
  <2>5. OpenIsListed'
    BY <2>1, <2>2 DEF TypeOK, OpenIsListed, Listed
  <2> QED BY <2>3, <2>4, <2>5
<1>3. CASE HistoryLoaded(s) \/ HistoryFails(s)
  <2>0. /\ loading[s] > 0 /\ loading' = [loading EXCEPT ![s] = @ - 1]
        /\ said' = said \/ said' = [said EXCEPT ![userId[s]] = "online"]
        /\ failed' \subseteq failed \cup {s}
        /\ UNCHANGED <<user, turn, socketRef, browser, account, server, uplink, userId,
                       connectedClients, left, mixed>>
    BY <1>3 DEF HistoryLoaded, HistoryFails, tabVars, socketVars
  <2>1. TypeOK'
    <3>1. loading' \in [Sockets -> Nat]
      BY <2>0 DEF TypeOK
    <3>2. said' \in [Users -> {"nothing", "online", "offline"}]
      BY <2>0 DEF TypeOK
    <3> QED BY <2>0, <3>1, <3>2 DEF TypeOK
  <2>2. Wired' /\ OpenIsListed'
    BY <1>3 DEF HistoryLoaded, HistoryFails, Wired, OpenIsListed, Listed, tabVars, socketVars
  <2> QED BY <2>1, <2>2
<1>4. CASE CloseHandler(s)
  <2>1. /\ server' = [server EXCEPT ![s] = "closed"]
        /\ uplink' = [uplink EXCEPT ![s] = <<>>]
        /\ failed' = failed \ {s}
        /\ UNCHANGED <<user, turn, socketRef, browser, account, userId, loading, left, mixed>>
    BY <1>4 DEF CloseHandler, tabVars
  <2>2. \/ userId[s] = None /\ UNCHANGED <<connectedClients, said>>
        \/ /\ userId[s] \in Users
           /\ connectedClients' = [connectedClients EXCEPT
                   ![userId[s]] = [connectedClients[userId[s]] EXCEPT ![s] = 0]]
           /\ \/ said' = said
              \/ said' = [said EXCEPT ![userId[s]] = "offline"]
    BY <1>4 DEF CloseHandler, Remaining, TypeOK
  <2>3. TypeOK'
    <3>1. connectedClients' \in [Users -> [Sockets -> Nat]]
      <4>1. ASSUME NEW u \in Users
            PROVE  [connectedClients[u] EXCEPT ![s] = 0] \in [Sockets -> Nat]
        BY DEF TypeOK
      <4>2. connectedClients \in [Users -> [Sockets -> Nat]]
        BY DEF TypeOK
      <4> QED BY <2>2, <4>1, <4>2
    <3>2. said' \in [Users -> {"nothing", "online", "offline"}]
      BY <2>2 DEF TypeOK
    <3>3. /\ server' \in [Sockets -> {"none", "open", "closed"}]
          /\ uplink' \in [Sockets -> Seq(Users)]
      BY <2>1 DEF TypeOK
    <3> QED BY <2>1, <3>1, <3>2, <3>3 DEF TypeOK
  <2>4. Wired'
    BY <2>1 DEF TypeOK, Wired
  <2>5. OpenIsListed'
    <3> SUFFICES ASSUME NEW x \in Sockets, server'[x] = "open", userId'[x] # None
                 PROVE  connectedClients'[userId'[x]][x] > 0
      BY <2>1 DEF OpenIsListed, Listed
    <3>1. x # s /\ server[x] = "open" /\ userId'[x] = userId[x]
      BY <2>1 DEF TypeOK
    <3>2. userId[x] \in Users /\ connectedClients[userId[x]][x] > 0
      BY <3>1 DEF TypeOK, OpenIsListed, Listed
    <3>3. connectedClients \in [Users -> [Sockets -> Nat]]
      BY DEF TypeOK
    <3>4. CASE UNCHANGED connectedClients
      BY <3>1, <3>2, <3>4
    <3>5. CASE /\ userId[s] \in Users
               /\ connectedClients' = [connectedClients EXCEPT
                       ![userId[s]] = [connectedClients[userId[s]] EXCEPT ![s] = 0]]
      <4>1. CASE userId[x] = userId[s]
        <5>1. connectedClients'[userId[x]] = [connectedClients[userId[x]] EXCEPT ![s] = 0]
          BY <3>3, <3>5, <4>1
        <5> QED BY <3>1, <3>2, <3>3, <5>1
      <4>2. CASE userId[x] # userId[s]
        BY <3>1, <3>2, <3>3, <3>5, <4>2
      <4> QED BY <4>1, <4>2
    <3> QED BY <2>2, <3>4, <3>5
  <2> QED BY <2>3, <2>4, <2>5
<1> QED BY <1>1, <1>2, <1>3, <1>4

LEMMA HubPreserves == HubInv /\ [Next]_vars => HubInv'
<1> SUFFICES ASSUME HubInv, [Next]_vars
             PROVE  HubInv'
  OBVIOUS
<1>1. ASSUME NEW s \in Sockets, Opened(s) \/ Closed(s) \/ Reconnects(s)
      PROVE  HubInv'
  BY <1>1, SocketKeeps
<1>2. ASSUME NEW t \in Tabs,
             Login(t) \/ Logout(t) \/ Leave(t)
      PROVE  HubInv'
  BY <1>2, TabKeeps
<1>3. CASE UNCHANGED vars
  BY <1>3 DEF vars, hubVars, tabVars, socketVars, HubInv, TypeOK, Wired, OpenIsListed, Listed
<1> QED BY <1>1, <1>2, <1>3, HubKeeps DEF Next

(* What holds however many users share a tab. *)
THEOREM HubInvariance == Spec => []HubInv
BY HubInit, HubPreserves, PTL DEF Spec

-----------------------------------------------------------------------------
(* The sockets of one user *)

(* A socket that authenticated as one user only is listed only while it is  *)
(* open, and for the user that its handlers have noted.                     *)
ListedIsOpen ==
    \A s \in Sockets \ mixed :
        \A u \in Users : s \in Listed(u) => server[s] = "open" /\ userId[s] = u

TabInv == ListedIsOpen /\ OfflineIsTrue

LEMMA TabInit == Init => TabInv
BY DEF Init, TabInv, ListedIsOpen, OfflineIsTrue, Listed

(* Nothing of TabInv depends on the tabs and the state of the browser.      *)
LEMMA TabUnchanged ==
    ASSUME TabInv, UNCHANGED <<server, userId, loading, connectedClients, said, failed, mixed>>
    PROVE  TabInv'
BY DEF TabInv, ListedIsOpen, OfflineIsTrue, Listed

(* A new socket is in no list.                                              *)
LEMMA OpenLists ==
    ASSUME HubInv, TabInv, NEW t \in Tabs, NEW x \in SocketsOf(t), Open(t, x)
    PROVE  TabInv'
<1>0. x \in Sockets
  BY SocketTab
<1>1. ASSUME NEW u \in Users, NEW y \in Listed(u)'
      PROVE  /\ y \in Listed(u) /\ y \in Sockets /\ y # x
             /\ y \in mixed' <=> y \in mixed
  <2>1. y \in Sockets /\ connectedClients'[u][y] > 0
    BY DEF Listed
  <2>2. connectedClients'[u] = [connectedClients[u] EXCEPT ![x] = 0]
    BY DEF Open
  <2>3. connectedClients[u] \in [Sockets -> Nat]
    BY DEF HubInv, TypeOK
  <2>4. y # x /\ connectedClients[u][y] > 0
    BY <1>0, <2>1, <2>2, <2>3
  <2> QED BY <2>1, <2>4 DEF Listed, Open
<1>2. ListedIsOpen'
  <2> SUFFICES ASSUME NEW y \in Sockets, y \notin mixed', NEW u \in Users, y \in Listed(u)'
               PROVE  server'[y] = "open" /\ userId'[y] = u
    BY DEF ListedIsOpen
  <2>1. y \in Listed(u) /\ y # x /\ y \notin mixed
    BY <1>1
  <2> QED BY <2>1 DEF TabInv, ListedIsOpen, Open, HubInv, TypeOK
<1>3. OfflineIsTrue'
  <2> SUFFICES ASSUME NEW u \in Users, said[u] = "offline", NEW y \in Listed(u)'
               PROVE  loading[y] > 0 \/ y \in failed \/ y \in mixed'
    BY DEF OfflineIsTrue, Open
  <2> QED BY <1>1 DEF TabInv, OfflineIsTrue
<1> QED BY <1>2, <1>3 DEF TabInv

LEMMA HubLists ==
    ASSUME HubInv, TabInv, NEW s \in Sockets,
           \/ Accept(s) \/ Authenticate(s) \/ HistoryLoaded(s)
           \/ HistoryFails(s) \/ CloseHandler(s)
    PROVE  TabInv'
<1> USE NoneAssumption
<1>1. CASE Accept(s)
  BY <1>1 DEF Accept, hubVars, TabInv, ListedIsOpen, OfflineIsTrue, Listed, HubInv, TypeOK
<1>2. CASE Authenticate(s)
  <2> DEFINE w == Head(uplink[s])
  <2>1. w \in Users
    BY <1>2 DEF Authenticate, HubInv, TypeOK
  <2>2. /\ server[s] = "open"
        /\ userId' = [userId EXCEPT ![s] = w]
        /\ connectedClients' = [connectedClients EXCEPT ![w][s] = @ + 1]
        /\ loading' = [loading EXCEPT ![s] = @ + 1]
        /\ mixed' = IF userId[s] \in {None, w} THEN mixed ELSE mixed \cup {s}
        /\ UNCHANGED <<server, said, failed>>
    BY <1>2 DEF Authenticate
  <2> HIDE DEF w
  <2>3. ASSUME NEW x \in Sockets, NEW u \in Users, x \in Listed(u)'
        PROVE  x \in Listed(u) \/ (x = s /\ u = w)
    BY <2>2, <2>3 DEF Listed, HubInv, TypeOK
  <2>4. ListedIsOpen'
    <3> SUFFICES ASSUME NEW x \in Sockets, x \notin mixed', NEW u \in Users, x \in Listed(u)'
                 PROVE  server'[x] = "open" /\ userId'[x] = u
      BY DEF ListedIsOpen
    <3>0. x \notin mixed
      BY <2>2
    <3>1. CASE x # s
      BY <2>2, <2>3, <3>0, <3>1 DEF TabInv, ListedIsOpen, HubInv, TypeOK
    <3>2. CASE x = s
      <4>1. userId[s] \in {None, w}
        BY <2>2, <3>2
      <4>2. x \in Listed(u) => userId[s] = u
        BY <3>0, <3>2 DEF TabInv, ListedIsOpen
      <4>3. u = w
        BY <2>3, <4>1, <4>2
      <4> QED BY <2>2, <3>2, <4>3 DEF HubInv, TypeOK
    <3> QED BY <3>1, <3>2
  <2>5. OfflineIsTrue'
    <3> SUFFICES ASSUME NEW u \in Users, said[u] = "offline", NEW x \in Listed(u)'
                 PROVE  loading'[x] > 0 \/ x \in failed \/ x \in mixed'
      BY <2>2 DEF OfflineIsTrue
    <3>1. x \in Sockets
      BY DEF Listed
    <3>2. loading'[x] >= loading[x] /\ (x = s => loading'[x] > 0) /\ loading[x] \in Nat
      BY <2>2, <3>1 DEF HubInv, TypeOK
    <3> QED BY <2>2, <2>3, <3>1, <3>2 DEF TabInv, OfflineIsTrue
  <2> QED BY <2>4, <2>5 DEF TabInv
<1>3. CASE HistoryLoaded(s)
  <2>1. ListedIsOpen'
    BY <1>3 DEF HistoryLoaded, TabInv, ListedIsOpen, Listed
  <2>2. OfflineIsTrue'
    <3> SUFFICES ASSUME NEW u \in Users, said'[u] = "offline", NEW x \in Listed(u), x \notin mixed
                 PROVE  loading'[x] > 0 \/ x \in failed
      BY <1>3 DEF HistoryLoaded, OfflineIsTrue, Listed
    <3>1. x \in Sockets
      BY DEF Listed
    <3>2. userId[x] = u
      BY <3>1 DEF TabInv, ListedIsOpen
    <3>3. x # s /\ said[u] = "offline"
      BY <1>3, <3>2 DEF HistoryLoaded, HubInv, TypeOK
    <3> QED BY <1>3, <3>1, <3>3 DEF HistoryLoaded, TabInv, OfflineIsTrue, HubInv, TypeOK
  <2> QED BY <2>1, <2>2 DEF TabInv
<1>4. CASE HistoryFails(s)
  <2>1. ListedIsOpen'
    BY <1>4 DEF HistoryFails, TabInv, ListedIsOpen, Listed
  <2>2. OfflineIsTrue'
    <3> SUFFICES ASSUME NEW u \in Users, said[u] = "offline", NEW x \in Listed(u), x \notin mixed
                 PROVE  loading'[x] > 0 \/ x \in failed'
      BY <1>4 DEF HistoryFails, OfflineIsTrue, Listed
    <3>1. x \in Sockets /\ server[x] = "open"
      BY DEF Listed, TabInv, ListedIsOpen
    <3> QED BY <1>4, <3>1 DEF HistoryFails, TabInv, OfflineIsTrue, HubInv, TypeOK
  <2> QED BY <2>1, <2>2 DEF TabInv
<1>5. CASE CloseHandler(s)
  <2>1. /\ server' = [server EXCEPT ![s] = "closed"]
        /\ failed' = failed \ {s}
        /\ UNCHANGED <<userId, loading, mixed>>
    BY <1>5 DEF CloseHandler
  <2>2. \/ userId[s] = None /\ UNCHANGED <<connectedClients, said>>
        \/ /\ userId[s] \in Users
           /\ connectedClients' = [connectedClients EXCEPT
                   ![userId[s]] = [connectedClients[userId[s]] EXCEPT ![s] = 0]]
           /\ \/ said' = said
              \/ /\ said' = [said EXCEPT ![userId[s]] = "offline"]
                 /\ NoneLeft([connectedClients[userId[s]] EXCEPT ![s] = 0])
    BY <1>5 DEF CloseHandler, Remaining, HubInv, TypeOK
  <2>3. ASSUME NEW x \in Sockets, x \notin mixed, NEW u \in Users, x \in Listed(u)'
        PROVE  x \in Listed(u) /\ x # s
    <3>0. /\ connectedClients'[u][x] > 0
          /\ connectedClients \in [Users -> [Sockets -> Nat]]
      BY <2>3 DEF Listed, HubInv, TypeOK
    <3>1. connectedClients[u][x] > 0 /\ (userId[s] = u => x # s)
      <4>1. CASE UNCHANGED connectedClients /\ userId[s] = None
        BY <3>0, <4>1
      <4>2. CASE userId[s] \in Users /\ userId[s] # u
        BY <2>2, <3>0, <4>2
      <4>3. CASE userId[s] = u
        <5>1. connectedClients'[u] = [connectedClients[u] EXCEPT ![s] = 0]
          BY <2>2, <3>0, <4>3
        <5> QED BY <3>0, <5>1
      <4> QED BY <2>2, <4>1, <4>2, <4>3
    <3>2. x \in Listed(u)
      BY <3>1 DEF Listed
    <3>3. x = s => userId[s] = u
      BY <2>3, <3>2 DEF TabInv, ListedIsOpen
    <3> QED BY <3>1, <3>2, <3>3
  <2>4. ListedIsOpen'
    <3> SUFFICES ASSUME NEW x \in Sockets, x \notin mixed, NEW u \in Users, x \in Listed(u)'
                 PROVE  server'[x] = "open" /\ userId'[x] = u
      BY <2>1 DEF ListedIsOpen
    <3>1. x \in Listed(u) /\ x # s
      BY <2>3
    <3> QED BY <2>1, <3>1 DEF TabInv, ListedIsOpen, HubInv, TypeOK
  <2>5. OfflineIsTrue'
    <3> SUFFICES ASSUME NEW u \in Users, said'[u] = "offline", NEW x \in Listed(u)', x \notin mixed
                 PROVE  loading'[x] > 0 \/ x \in failed'
      BY <2>1 DEF OfflineIsTrue
    <3>1. x \in Sockets /\ x \in Listed(u) /\ x # s
      BY <2>3 DEF Listed
    <3>2. said[u] = "offline"
      <4>1. connectedClients'[u][x] > 0
        BY DEF Listed
      <4> QED BY <2>2, <3>1, <4>1 DEF NoneLeft, HubInv, TypeOK
    <3> QED BY <2>1, <3>1, <3>2 DEF TabInv, OfflineIsTrue
  <2> QED BY <2>4, <2>5 DEF TabInv
<1> QED BY <1>1, <1>2, <1>3, <1>4, <1>5

LEMMA TabPreserves == HubInv /\ TabInv /\ [Next]_vars => TabInv'
<1> SUFFICES ASSUME HubInv, TabInv, [Next]_vars
             PROVE  TabInv'
  OBVIOUS
<1>1. ASSUME NEW t \in Tabs, Login(t) \/ Logout(t) \/ Leave(t)
      PROVE  TabInv'
  <2>1. CASE UNCHANGED hubVars /\ UNCHANGED server
    BY <2>1, TabUnchanged DEF hubVars
  <2>2. ASSUME NEW x \in SocketsOf(t), Open(t, x)
        PROVE  TabInv'
    BY <2>2, OpenLists
  <2> QED BY <1>1, <2>1, <2>2 DEF Login, Logout, Leave, Keep
<1>2. ASSUME NEW s \in Sockets, Opened(s) \/ Closed(s) \/ Reconnects(s)
      PROVE  TabInv'
  <2>1. CASE UNCHANGED hubVars /\ UNCHANGED server
    BY <2>1, TabUnchanged DEF hubVars
  <2>2. ASSUME NEW x \in SocketsOf(TabOf(s)), Open(TabOf(s), x)
        PROVE  TabInv'
    BY <2>2, OpenLists, SocketTab
  <2> QED BY <1>2, <2>1, <2>2 DEF Opened, Closed, Reconnects, Keep
<1>3. CASE UNCHANGED vars
  BY <1>3, TabUnchanged DEF vars
<1> QED BY <1>1, <1>2, <1>3, HubLists DEF Next

(* The lists and the last word on each user, whoever shares a tab.          *)
THEOREM TabInvariance == Spec => []TabInv
BY TabInit, TabPreserves, HubInvariance, PTL DEF Spec

-----------------------------------------------------------------------------
(* The tabs with one account *)

(* Whom a socket is opened, authenticates and is noted for is one of the    *)
(* accounts of its tab.                                                     *)
Owned ==
    \A s \in Sockets :
        /\ account[s] \in AccountsOf(TabOf(s)) \cup {None}
        /\ userId[s] \in AccountsOf(TabOf(s)) \cup {None}
        /\ uplink[s] \in Seq(AccountsOf(TabOf(s)))

(* Nobody but one user logs in on the tab of s.                             *)
Single(s) == \A u, v \in AccountsOf(TabOf(s)) : u = v

(* A socket of such a tab authenticates as one user only.                   *)
SingleUser == \A s \in mixed : ~Single(s)

(* A queue of users of a tab stays one. *)
LEMMA Queues ==
    ASSUME NEW S, NEW q \in Seq(S)
    PROVE  /\ <<>> \in Seq(S)
           /\ \A u \in S : Append(q, u) \in Seq(S)
           /\ q # <<>> => Head(q) \in S /\ Tail(q) \in Seq(S)
OBVIOUS

LEMMA OwnedInit == Init => Owned /\ SingleUser
BY DEF Init, Owned, SingleUser

LEMMA OpenOwned ==
    ASSUME HubInv, Owned, SingleUser, NEW t \in Tabs, NEW u \in AccountsOf(t),
           NEW x \in SocketsOf(t), NEW done \in Sockets, TabOf(done) = t, Open(t, x),
           \/ account' = [account EXCEPT ![x] = u]
           \/ account' = [account EXCEPT ![done] = None, ![x] = u]
    PROVE  Owned' /\ SingleUser'
<1>0. x \in Sockets /\ TabOf(x) = t
  BY SocketTab
<1>1. \A s \in Sockets : account'[s] \in {account[s], None} \/ (s = x /\ account'[s] = u)
  <2>1. account \in [Sockets -> Users \cup {None}]
    BY DEF HubInv, TypeOK
  <2> QED BY <1>0, <2>1
<1>2. \A s \in Sockets : userId'[s] \in {userId[s], None} /\ uplink'[s] = uplink[s]
  BY DEF Open, HubInv, TypeOK
<1>3. Owned'
  BY <1>0, <1>1, <1>2 DEF Owned
<1>4. SingleUser'
  BY DEF SingleUser, Open, Single
<1> QED BY <1>3, <1>4

LEMMA OwnedPreserves == HubInv /\ Owned /\ SingleUser /\ [Next]_vars => Owned' /\ SingleUser'
<1> SUFFICES ASSUME HubInv, Owned, SingleUser, [Next]_vars
             PROVE  Owned' /\ SingleUser'
  OBVIOUS
<1> USE SocketTab
<1>1. ASSUME NEW t \in Tabs, Login(t)
      PROVE  Owned' /\ SingleUser'
  <2> DEFINE u == Accounts[t][turn[t]]
  <2>1. u \in AccountsOf(t)
    BY TurnUser DEF HubInv
  <2> HIDE DEF u
  <2>2. CASE Keep /\ UNCHANGED account
    BY <2>2 DEF Keep, hubVars, Owned, SingleUser, Single
  <2>3. ASSUME NEW x \in SocketsOf(t), Open(t, x), account' = [account EXCEPT ![x] = u]
        PROVE  Owned' /\ SingleUser'
    BY <2>1, <2>3, OpenOwned
  <2> QED BY <1>1, <2>2, <2>3 DEF Login, u
<1>2. ASSUME NEW t \in Tabs, Logout(t) \/ Leave(t)
      PROVE  Owned' /\ SingleUser'
  <2>1. /\ \A s \in Sockets : account'[s] \in {account[s], None}
        /\ UNCHANGED <<uplink, userId, mixed>>
    BY <1>2 DEF Logout, Leave, hubVars
  <2> QED BY <2>1 DEF Owned, SingleUser, Single
<1>3. ASSUME NEW s \in Sockets, Opened(s)
      PROVE  Owned' /\ SingleUser'
  <2> DEFINE current == socketRef[TabOf(s)]
  <2>1. account[s] \in AccountsOf(TabOf(s))
    BY <1>3, NoneAssumption DEF Opened, HubInv, Wired, Owned
  <2>2. /\ \A x \in Sockets : \/ uplink'[x] = uplink[x]
                              \/ x = current /\ uplink'[x] = Append(uplink[x], account[s])
        /\ UNCHANGED <<account, userId, mixed>>
    BY <1>3 DEF Opened, hubVars
  <2>3. \A x \in Sockets : x = current => TabOf(x) = TabOf(s)
    BY NoneAssumption DEF HubInv, Wired
  <2> HIDE DEF current
  <2>4. ASSUME NEW x \in Sockets
        PROVE  uplink'[x] \in Seq(AccountsOf(TabOf(x)))
    <3>1. uplink[x] \in Seq(AccountsOf(TabOf(x)))
      BY DEF Owned
    <3>2. x = current => Append(uplink[x], account[s]) \in Seq(AccountsOf(TabOf(x)))
      BY <2>1, <2>3, <3>1, Queues
    <3> QED BY <2>2, <3>1, <3>2
  <2> QED BY <2>2, <2>4 DEF Owned, SingleUser, Single
<1>4. ASSUME NEW s \in Sockets, Closed(s)
      PROVE  Owned' /\ SingleUser'
  BY <1>4 DEF Closed, hubVars, Owned, SingleUser, Single
<1>5. ASSUME NEW s \in Sockets, Reconnects(s)
      PROVE  Owned' /\ SingleUser'
  <2>1. account[s] \in AccountsOf(TabOf(s))
    BY <1>5, NoneAssumption DEF Reconnects, HubInv, Wired, Owned
  <2>2. CASE Keep /\ account' = [account EXCEPT ![s] = None]
    BY <2>2 DEF Keep, hubVars, Owned, SingleUser, Single, HubInv, TypeOK
  <2>3. ASSUME NEW x \in SocketsOf(TabOf(s)), Open(TabOf(s), x),
               account' = [account EXCEPT ![s] = None, ![x] = account[s]]
        PROVE  Owned' /\ SingleUser'
    BY <2>1, <2>3, OpenOwned
  <2> QED BY <1>5, <2>2, <2>3 DEF Reconnects
<1>6. ASSUME NEW s \in Sockets, Authenticate(s)
      PROVE  Owned' /\ SingleUser'
  <2> DEFINE w == Head(uplink[s])
  <2>1. w \in AccountsOf(TabOf(s)) /\ Tail(uplink[s]) \in Seq(AccountsOf(TabOf(s)))
    BY <1>6, Queues DEF Authenticate, Owned
  <2>2. /\ userId' = [userId EXCEPT ![s] = w]
        /\ uplink' = [uplink EXCEPT ![s] = Tail(@)]
        /\ mixed' = IF userId[s] \in {None, w} THEN mixed ELSE mixed \cup {s}
        /\ UNCHANGED account
    BY <1>6 DEF Authenticate
  <2> HIDE DEF w
  <2>3. Owned'
    BY <2>1, <2>2 DEF Owned, HubInv, TypeOK
  <2>4. SingleUser'
    <3>1. userId[s] \notin {None, w} => ~Single(s)
      BY <2>1 DEF Owned, Single
    <3> QED BY <2>2, <3>1 DEF SingleUser, Single
  <2> QED BY <2>3, <2>4
<1>7. ASSUME NEW s \in Sockets,
             Accept(s) \/ HistoryLoaded(s) \/ HistoryFails(s) \/ CloseHandler(s)
      PROVE  Owned' /\ SingleUser'
  <2>1. /\ UNCHANGED <<account, userId, mixed>>
        /\ uplink' \in {uplink, [uplink EXCEPT ![s] = <<>>]}
    BY <1>7 DEF Accept, HistoryLoaded, HistoryFails, CloseHandler, socketVars, hubVars
  <2>2. <<>> \in Seq(AccountsOf(TabOf(s)))
    OBVIOUS
  <2> QED BY <2>1, <2>2 DEF Owned, SingleUser, Single, HubInv, TypeOK
<1>8. CASE UNCHANGED vars
  BY <1>8 DEF vars, Owned, SingleUser, Single
<1> QED BY <1>1, <1>2, <1>3, <1>4, <1>5, <1>6, <1>7, <1>8 DEF Next

(* A socket of a tab with one account never authenticates as several users, *)
(* also where onopen sends on another socket: for such tabs the two         *)
(* properties below hold without the exception.                             *)
THEOREM OneAccountOneUser == Spec => [](\A s \in Sockets : Single(s) => s \notin mixed)
<1>1. Owned /\ SingleUser => \A s \in Sockets : Single(s) => s \notin mixed
  BY DEF SingleUser
<1> QED BY <1>1, OwnedInit, OwnedPreserves, HubInvariance, PTL DEF Spec

-----------------------------------------------------------------------------
(* The properties of TeamHub *)

(* Types of the hub, for any users, tabs, slots and accounts.               *)
THEOREM HubTypeCorrect == Spec => []TypeOK
BY HubInvariance, PTL DEF HubInv

(* The hub forgets no open socket: whichever users share a tab, the socket  *)
(* stays in the list of the user that it authenticated as last.             *)
THEOREM NobodyForgotten == Spec => []OpenIsListed
BY HubInvariance, PTL DEF HubInv

(* The hub lists for a user exactly the open sockets that authenticated as  *)
(* that user, however often they did, and else only sockets that            *)
(* authenticated as several users.                                          *)
THEOREM ListsAreOpen == Spec => []ListedIffOpen
<1>1. HubInv /\ TabInv => ListedIffOpen
  <2> SUFFICES ASSUME HubInv, TabInv, NEW u \in Users, NEW s \in Sockets
               PROVE  /\ server[s] = "open" /\ userId[s] = u => s \in Listed(u)
                      /\ s \in Listed(u) => \/ server[s] = "open" /\ userId[s] = u
                                            \/ s \in mixed
    BY DEF ListedIffOpen
  <2>1. server[s] = "open" /\ userId[s] = u => s \in Listed(u)
    BY NoneAssumption DEF HubInv, OpenIsListed
  <2>2. s \in Listed(u) => (server[s] = "open" /\ userId[s] = u) \/ s \in mixed
    BY DEF TabInv, ListedIsOpen
  <2> QED BY <2>1, <2>2
<1> QED BY <1>1, HubInvariance, TabInvariance, PTL

(* An offline that was told last is true, but for the sockets whose history *)
(* is still loading or could not be read, and those of several users.       *)
THEOREM OfflineWasTrue == Spec => []OfflineIsTrue
BY TabInvariance, PTL DEF TabInv

-----------------------------------------------------------------------------
(* Locations: the hook and its reports *)

(* What a handler has done is in the tables, and a client that was told of  *)
(* nothing has an answer of success.                                        *)
Progress ==
    \A r \in Readings :
        /\ handler[r] \in {"stored", "ok"} => r \in Stored
        /\ handler[r] = "ok" => r \in logged
        /\ request[r] = "ended" /\ r \notin told => handler[r] = "ok"

(* The reports that are begun are not stored yet, and what is stored has    *)
(* been read; without a crossing only the last report can be begun.         *)
Begun ==
    /\ \A r \in Readings : handler[r] = "begun" => r \notin Stored
    /\ \A r \in Readings : handler[r] # "none" => r <= reading
    /\ \A i \in DOMAIN rows : handler[rows[i]] # "none"
    /\ \A r \in Readings : handler[r] = "begun" => crossed \/ r = reading

TrackInv == TrackTypeOK /\ TimerOwned /\ Progress /\ LoggedIsStored /\ Begun /\ InOrder

-----------------------------------------------------------------------------
(* The type invariant in two parts. *)
HookType ==
    /\ page \in {"away", "shown"}
    /\ isTracking \in BOOLEAN /\ wanted \in BOOLEAN
    /\ cleanup \in {"none", "noop", "clear"}
    /\ timers \in Nat /\ pending \in 0..MaxPending
ReportType ==
    /\ crossed \in BOOLEAN
    /\ reading \in 0..MaxReadings
    /\ request \in [Readings -> {"none", "waiting", "ended"}]
    /\ handler \in [Readings -> {"none", "begun", "stored", "ok", "refused", "lost"}]
    /\ rows \in Seq(Readings)
    /\ logged \subseteq Readings /\ told \subseteq Readings

LEMMA TrackTypeParts == TrackTypeOK <=> HookType /\ ReportType
BY DEF TrackTypeOK, HookType, ReportType

(* The steps of the hook alone. *)
HookStep == Show \/ Render \/ LeavePage \/ TimerFires \/ LocationError

LEMMA TrackInitInv == TrackInit => TrackInv
<1> SUFFICES ASSUME TrackInit
             PROVE  TrackInv
  OBVIOUS
<1> USE BoundsAssumption
<1>1. HookType /\ TimerOwned
  <2>1. isTracking \in BOOLEAN /\ wanted \in BOOLEAN
    BY DEF TrackInit
  <2>2. /\ page = "away" /\ cleanup = "none" /\ timers = 0 /\ pending = 0
    BY DEF TrackInit
  <2> QED BY <2>1, <2>2 DEF HookType, TimerOwned
<1>2. ReportType
  <2>1. crossed \in BOOLEAN
    BY DEF TrackInit
  <2>2. /\ reading = 0 /\ rows = <<>> /\ logged = {} /\ told = {}
        /\ request = [r \in Readings |-> "none"] /\ handler = [r \in Readings |-> "none"]
    BY DEF TrackInit
  <2> QED BY <2>1, <2>2 DEF ReportType
<1>3. Progress /\ LoggedIsStored /\ Begun /\ InOrder
  BY DEF TrackInit, Progress, LoggedIsStored, Begun, InOrder, Stored
<1> QED BY <1>1, <1>2, <1>3, TrackTypeParts DEF TrackInv

(* A run of the effect keeps one interval for one cleanup. *)
LEMMA RunEffectStep ==
    ASSUME NEW tracking \in BOOLEAN, NEW before \in {"none", "noop", "clear"},
           HookType, timers = ClearedBy(before), RunEffect(tracking, before)
    PROVE  /\ isTracking' \in BOOLEAN /\ wanted' \in BOOLEAN
           /\ cleanup' \in {"noop", "clear"}
           /\ timers' = IF cleanup' = "clear" THEN 1 ELSE 0
           /\ pending' \in 0..MaxPending
<1> USE BoundsAssumption DEF HookType, RunEffect, ClearedBy, UpdateCurrentLocation
<1>1. isTracking' \in BOOLEAN
  OBVIOUS
<1>2. CASE tracking
  <2>1. wanted' \in BOOLEAN
    BY <1>2
  <2>2. cleanup' = "noop" /\ timers' = timers - ClearedBy(before)
        /\ UNCHANGED pending
    BY <1>2
  <2> QED BY <1>1, <2>1, <2>2
<1>3. CASE ~tracking
  <2>1. wanted' \in BOOLEAN
    BY <1>3
  <2>2. cleanup' = "clear" /\ timers' = (timers - ClearedBy(before)) + 1
        /\ pending < MaxPending /\ pending' = pending + 1
    BY <1>3
  <2> QED BY <1>1, <2>1, <2>2
<1> QED BY <1>2, <1>3

(* After a run of the effect, the interval is the cleanup's. *)
LEMMA EffectOwned ==
    ASSUME page' = "shown", isTracking' \in BOOLEAN, wanted' \in BOOLEAN,
           cleanup' \in {"noop", "clear"}, timers' = IF cleanup' = "clear" THEN 1 ELSE 0,
           pending' \in 0..MaxPending
    PROVE  HookType' /\ TimerOwned'
BY DEF HookType, TimerOwned

LEMMA HookPreserves ==
    TrackTypeOK /\ TimerOwned /\ [TrackNext]_trackVars => HookType' /\ TimerOwned'
<1> SUFFICES ASSUME TrackTypeOK, TimerOwned, [TrackNext]_trackVars
             PROVE  HookType' /\ TimerOwned'
  OBVIOUS
<1> USE BoundsAssumption
<1>0. HookType
  BY TrackTypeParts
<1>a. timers = ClearedBy(cleanup)
  BY <1>0 DEF TimerOwned, ClearedBy, HookType
<1>1. CASE Show
  <2>1. RunEffect(FALSE, "none") /\ page' = "shown"
    BY <1>1 DEF Show
  <2>2. timers = ClearedBy("none")
    BY <1>0, <1>1 DEF Show, TimerOwned, ClearedBy, HookType
  <2>3. /\ isTracking' \in BOOLEAN /\ wanted' \in BOOLEAN
        /\ cleanup' \in {"noop", "clear"}
        /\ timers' = IF cleanup' = "clear" THEN 1 ELSE 0
        /\ pending' \in 0..MaxPending
    BY <1>0, <2>1, <2>2, RunEffectStep
  <2> QED BY <2>1, <2>3, EffectOwned
<1>2. CASE Render
  <2>1. RunEffect(wanted, cleanup) /\ page' = page /\ page = "shown"
    BY <1>2 DEF Render
  <2>2. wanted \in BOOLEAN /\ cleanup \in {"none", "noop", "clear"}
    BY <1>0 DEF HookType
  <2>3. /\ isTracking' \in BOOLEAN /\ wanted' \in BOOLEAN
        /\ cleanup' \in {"noop", "clear"}
        /\ timers' = IF cleanup' = "clear" THEN 1 ELSE 0
        /\ pending' \in 0..MaxPending
    BY <1>0, <1>a, <2>1, <2>2, RunEffectStep
  <2> QED BY <2>1, <2>3, EffectOwned
<1>3. CASE LeavePage
  <2>1. isTracking' \in BOOLEAN /\ wanted' \in BOOLEAN
    BY <1>3 DEF LeavePage
  <2>2. /\ page' = "away" /\ cleanup' = "none" /\ timers' = timers - ClearedBy(cleanup)
        /\ pending' = pending
    BY <1>3 DEF LeavePage
  <2> QED BY <1>0, <1>a, <2>1, <2>2 DEF HookType, TimerOwned, ClearedBy
<1>4. CASE TimerFires \/ Located \/ LocationError
  BY <1>0, <1>4 DEF TimerFires, Located, LocationError, UpdateCurrentLocation, hook,
                    HookType, TimerOwned
<1>5. ASSUME NEW r \in Readings,
             \/ CreateLocation(r) \/ LogUserActivity(r) \/ Refuse(r) \/ NeverArrives(r)
             \/ \E lost \in BOOLEAN : Answered(r, lost)
      PROVE  HookType' /\ TimerOwned'
  BY <1>0, <1>5 DEF CreateLocation, LogUserActivity, Refuse, NeverArrives, Answered, hook,
                    HookType, TimerOwned
<1>6. CASE UNCHANGED trackVars
  BY <1>0, <1>6 DEF trackVars, hook, HookType, TimerOwned
<1> QED BY <1>1, <1>2, <1>3, <1>4, <1>5, <1>6 DEF TrackNext

-----------------------------------------------------------------------------
ReportInv == ReportType /\ Progress /\ LoggedIsStored /\ Begun /\ InOrder

(* Nothing of the reports depends on the hook. *)
LEMMA ReportsUnchanged ==
    ReportInv /\ UNCHANGED <<reading, request, tables, told, crossed>> => ReportInv'
<1> SUFFICES ASSUME ReportInv, UNCHANGED <<reading, request, handler, rows, logged, told, crossed>>
             PROVE  ReportInv'
  BY DEF tables
<1> QED BY DEF ReportInv, ReportType, Progress, LoggedIsStored, Begun, InOrder, Stored

(* A position is posted. *)
LEMMA LocatedStep == ReportInv /\ Located => ReportInv'
<1> SUFFICES ASSUME ReportInv, Located
             PROVE  ReportInv'
  OBVIOUS
<1> USE BoundsAssumption DEF ReportInv, ReportType
<1>1. /\ reading' = reading + 1 /\ reading' \in Readings
      /\ request' = [request EXCEPT ![reading'] = "waiting"]
      /\ handler' = [handler EXCEPT ![reading'] = "begun"]
      /\ crossed' = (crossed \/ \E r \in Readings : handler[r] = "begun")
      /\ UNCHANGED <<rows, logged, told>>
  BY DEF Located, Readings
<1>2. handler[reading'] = "none"
  BY <1>1 DEF Begun, Readings
<1>3. Stored' = Stored /\ reading' \notin Stored
  BY <1>1, <1>2 DEF Stored, Begun
<1>4. ReportType'
  <2>1. crossed' \in BOOLEAN
    BY <1>1
  <2>2. reading' \in 0..MaxReadings
    BY <1>1 DEF Readings
  <2> QED BY <1>1, <2>1, <2>2
<1>5. Progress' /\ LoggedIsStored'
  BY <1>1, <1>2, <1>3 DEF Progress, LoggedIsStored
<1>6. Begun'
  <2>1. \A r \in Readings : handler'[r] = "begun" => crossed' \/ r = reading'
    BY <1>1
  <2>2. \A r \in Readings : handler'[r] # "none" => r <= reading'
    BY <1>1 DEF Begun, Readings
  <2>3. \A i \in DOMAIN rows : handler'[rows[i]] # "none"
    BY <1>1 DEF Begun
  <2> QED BY <1>1, <1>3, <2>1, <2>2, <2>3 DEF Begun
<1>7. InOrder'
  <2>1. crossed => crossed'
    BY <1>1
  <2> QED BY <1>1, <2>1 DEF InOrder
<1> QED BY <1>4, <1>5, <1>6, <1>7

(* A row is appended. *)
LEMMA CreateStep ==
    ASSUME ReportInv, NEW r \in Readings, CreateLocation(r)
    PROVE  ReportInv'
<1> USE DEF ReportInv, ReportType
<1>1. /\ handler[r] = "begun"
      /\ rows' = Append(rows, r)
      /\ handler' = [handler EXCEPT ![r] = "stored"]
      /\ UNCHANGED <<reading, request, logged, told, crossed>>
  BY DEF CreateLocation, Storable
<1>2. /\ DOMAIN rows' = 1..(Len(rows) + 1) /\ DOMAIN rows = 1..Len(rows)
      /\ rows'[Len(rows) + 1] = r
      /\ \A i \in DOMAIN rows : rows'[i] = rows[i] /\ rows[i] \in Readings
      /\ Len(rows) \in Nat
  BY <1>1
<1>3. Stored' = Stored \cup {r}
  BY <1>2 DEF Stored
<1>4. ReportType'
  BY <1>1
<1>5. Progress' /\ LoggedIsStored'
  BY <1>1, <1>3 DEF Progress, LoggedIsStored
<1>6. r \notin Stored
  BY <1>1 DEF Begun
<1>7. Begun'
  <2>1. \A s \in Readings : handler'[s] = "begun" => s \notin Stored'
    BY <1>1, <1>3 DEF Begun
  <2>2. \A i \in DOMAIN rows' : handler'[rows'[i]] # "none"
    BY <1>1, <1>2 DEF Begun
  <2> QED BY <1>1, <2>1, <2>2 DEF Begun
<1>8. InOrder'
  <2> SUFFICES ASSUME NEW i \in DOMAIN rows', NEW j \in DOMAIN rows', i < j
               PROVE  rows'[i] < rows'[j] \/ (crossed' /\ rows'[i] # rows'[j])
    BY DEF InOrder
  <2>1. i \in DOMAIN rows /\ rows'[i] = rows[i]
    BY <1>2
  <2>2. CASE j \in DOMAIN rows
    BY <1>1, <1>2, <2>1, <2>2 DEF InOrder
  <2>3. CASE j = Len(rows) + 1
    <3>1. rows[i] # r /\ rows[i] \in Readings
      BY <1>2, <1>6, <2>1 DEF Stored
    <3>2. rows[i] <= reading
      BY <2>1, <3>1 DEF Begun
    <3>3. crossed \/ r = reading
      BY <1>1 DEF Begun
    <3> QED BY <1>1, <1>2, <2>1, <2>3, <3>1, <3>2, <3>3 DEF Readings
  <2> QED BY <1>2, <2>2, <2>3
<1> QED BY <1>4, <1>5, <1>7, <1>8

(* The other steps of a handler and its client store nothing. *)
LEMMA HandlerStep ==
    ASSUME ReportInv, NEW r \in Readings,
           \/ LogUserActivity(r) \/ Refuse(r) \/ NeverArrives(r)
           \/ \E lost \in BOOLEAN : Answered(r, lost)
    PROVE  ReportInv'
<1> USE DEF ReportInv, ReportType
<1>0. UNCHANGED <<reading, rows, crossed>> /\ Stored' = Stored
  BY DEF LogUserActivity, Refuse, NeverArrives, Answered, tables, Stored
<1>1. CASE LogUserActivity(r)
  BY <1>0, <1>1 DEF LogUserActivity, Loggable, Progress, LoggedIsStored, Begun, InOrder
<1>2. CASE Refuse(r)
  BY <1>0, <1>2 DEF Refuse, Progress, LoggedIsStored, Begun, InOrder
<1>3. CASE NeverArrives(r)
  BY <1>0, <1>3 DEF NeverArrives, Progress, LoggedIsStored, Begun, InOrder
<1>4. ASSUME NEW lost \in BOOLEAN, Answered(r, lost)
      PROVE  ReportInv'
  <2>1. /\ request' = [request EXCEPT ![r] = "ended"]
        /\ told' = told \cup {r} \/ (told' = told /\ handler[r] = "ok")
        /\ UNCHANGED <<handler, logged>>
    BY <1>4 DEF Answered, Fails, tables
  <2> QED BY <1>0, <2>1 DEF Progress, LoggedIsStored, Begun, InOrder
<1> QED BY <1>1, <1>2, <1>3, <1>4

LEMMA ReportsPreserve == ReportInv /\ [TrackNext]_trackVars => ReportInv'
<1> SUFFICES ASSUME ReportInv, [TrackNext]_trackVars
             PROVE  ReportInv'
  OBVIOUS
<1>1. CASE HookStep \/ UNCHANGED trackVars
  <2>1. UNCHANGED <<reading, request, tables, told, crossed>>
    BY <1>1 DEF HookStep, Show, Render, LeavePage, TimerFires, LocationError, trackVars
  <2> QED BY <2>1, ReportsUnchanged
<1> QED BY <1>1, LocatedStep, CreateStep, HandlerStep DEF TrackNext, HookStep

(* The inductive invariant. *)
THEOREM TrackInvariance == TrackSpec => []TrackInv
<1>1. TrackInv /\ [TrackNext]_trackVars => TrackInv'
  <2> SUFFICES ASSUME TrackInv, [TrackNext]_trackVars
               PROVE  TrackInv'
    OBVIOUS
  <2>1. HookType' /\ TimerOwned'
    BY HookPreserves DEF TrackInv
  <2>2. ReportInv'
    BY ReportsPreserve, TrackTypeParts DEF TrackInv, ReportInv
  <2>3. TrackTypeOK'
    BY <2>1, <2>2, TrackTypeParts, PTL DEF ReportInv
  <2> QED BY <2>1, <2>2, <2>3 DEF TrackInv, ReportInv
<1> QED BY <1>1, TrackInitInv, PTL DEF TrackSpec

(* The typing invariant, for any number of readings. *)
THEOREM TrackTypeCorrect == TrackSpec => []TrackTypeOK
BY TrackInvariance, PTL DEF TrackInv

(* Every interval of the hook is one that its last cleanup clears. *)
THEOREM TimersOwned == TrackSpec => []TimerOwned
BY TrackInvariance, PTL DEF TrackInv

(* A report that ends without a word to the user is stored and logged.      *)
THEOREM NothingIsSilent == TrackSpec => []NothingSilent
<1>1. TrackInv => NothingSilent
  BY DEF TrackInv, Progress, NothingSilent
<1> QED BY <1>1, TrackInvariance, PTL

(* An activity is logged only of a position that is stored.                 *)
THEOREM LoggedAreStored == TrackSpec => []LoggedIsStored
BY TrackInvariance, PTL DEF TrackInv

(* Rows are distinct, and out of order only where two reports crossed.      *)
THEOREM RowsInOrder == TrackSpec => []InOrder
BY TrackInvariance, PTL DEF TrackInv
=============================================================================
