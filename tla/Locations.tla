------------------------------ MODULE Locations ------------------------------
(***************************************************************************)
(* How a user's position gets to the team server: the hook of a page        *)
(* (src/client/src/hooks/useLocationTracking.tsx) with the way React runs   *)
(* its effect, the reports it posts, and the handler that stores each and   *)
(* then logs it (src/server/routes.ts, storage.ts).                         *)
(*                                                                         *)
(* The hook's own useWebSocket never connects, so every position is posted. *)
(* A reading of the position may fail, a request or its answer may be lost, *)
(* and each statement of the handler may fail.  Positions are numbered in   *)
(* the order they are read.                                                 *)
(***************************************************************************)
EXTENDS Naturals, Sequences

CONSTANTS MaxReadings,  \* positions read
          MaxPending    \* readings under way at a time

ASSUME BoundsAssumption == MaxReadings \in Nat /\ MaxPending \in Nat \ {0}

Readings == 1..MaxReadings

VARIABLES
    page,        \* the page that uses the hook is shown
    isTracking,  \* the state of the hook, as last rendered
    wanted,      \* the state after the updates that are queued
    cleanup,     \* what the last run of the effect has returned
    timers,      \* intervals that are set
    pending,     \* calls of getCurrentPosition that have not answered
    reading,     \* the last position read
    request,     \* request[r]: where the report of r is at the client
    handler,     \* handler[r]: where it is at the server
    rows,        \* table locations, in the order of its timestamps
    logged,      \* reports whose activity is in table messages
    told,        \* reports whose failure the user was told of
    crossed      \* history: two reports were under way at once

hook == <<page, isTracking, wanted, cleanup, timers>>
tables == <<handler, rows, logged>>
trackVars == <<hook, pending, reading, request, tables, told, crossed>>

TrackInit ==
    /\ page = "away"
    /\ isTracking = FALSE /\ wanted = FALSE
    /\ cleanup = "none" /\ timers = 0 /\ pending = 0 /\ reading = 0
    /\ request = [r \in Readings |-> "none"] /\ handler = [r \in Readings |-> "none"]
    /\ rows = <<>> /\ logged = {} /\ told = {}
    /\ crossed = FALSE

-----------------------------------------------------------------------------
(* The hook *)

(* updateCurrentLocation *)
UpdateCurrentLocation ==
    /\ pending < MaxPending
    /\ pending' = pending + 1

(* Mutant of ClearedBy: the interval is forgotten. *)
ClearedByNone(c) == 0

(* The intervals that the function an effect has returned clears. *)
ClearedBy(c) == IF c = "clear" THEN 1 ELSE 0

(* A run of the effect on an instance that is rendered with `tracking`,     *)
(* after the cleanup of the run before: startTracking, unless it tracks.    *)
RunEffect(tracking, before) ==
    /\ isTracking' = tracking
    /\ IF tracking
       THEN /\ wanted' = IF before = "clear" THEN FALSE ELSE tracking
            /\ cleanup' = "noop"
            /\ timers' = timers - ClearedBy(before)
            /\ UNCHANGED pending
       ELSE /\ wanted' = TRUE
            /\ cleanup' = "clear"
            /\ timers' = (timers - ClearedBy(before)) + 1
            /\ UpdateCurrentLocation

(* The page is shown. *)
Show ==
    /\ page = "away"
    /\ page' = "shown"
    /\ RunEffect(FALSE, "none")
    /\ UNCHANGED <<reading, request, tables, told, crossed>>

(* A queued update is rendered: startTracking is another function now, so   *)
(* the effect is cleaned up and run again.                                  *)
Render ==
    /\ page = "shown" /\ wanted # isTracking
    /\ RunEffect(wanted, cleanup)
    /\ UNCHANGED <<page, reading, request, tables, told, crossed>>

(* The page is left, or the user logs out: the last cleanup. *)
LeavePage ==
    /\ page = "shown"
    /\ page' = "away"
    /\ isTracking' = FALSE /\ wanted' = FALSE
    /\ cleanup' = "none"
    /\ timers' = timers - ClearedBy(cleanup)
    /\ UNCHANGED <<pending, reading, request, tables, told, crossed>>

TimerFires ==
    /\ timers > 0
    /\ UpdateCurrentLocation
    /\ UNCHANGED <<hook, reading, request, tables, told, crossed>>

(* The position is known and posted, whether or not the page is still shown.*)
Located ==
    /\ pending > 0 /\ reading < MaxReadings
    /\ pending' = pending - 1
    /\ reading' = reading + 1
    /\ request' = [request EXCEPT ![reading'] = "waiting"]
    /\ handler' = [handler EXCEPT ![reading'] = "begun"]
    /\ crossed' = (crossed \/ \E r \in Readings : handler[r] = "begun")
    /\ UNCHANGED <<hook, rows, logged, told>>

LocationError ==
    /\ pending > 0
    /\ pending' = pending - 1
    /\ UNCHANGED <<hook, reading, request, tables, told, crossed>>

-----------------------------------------------------------------------------
(* The handler of POST /api/locations *)

(* Mutant of Storable: a handler that has failed begins again.              *)
StorableAgain(r) == handler[r] \in {"begun", "refused"}

Storable(r) == handler[r] = "begun"

(* createLocation; the row is stamped with the time of the statement.       *)
CreateLocation(r) ==
    /\ Storable(r)
    /\ rows' = Append(rows, r)
    /\ handler' = [handler EXCEPT ![r] = "stored"]
    /\ UNCHANGED <<hook, pending, reading, request, logged, told, crossed>>

Loggable(r) == handler[r] = "stored"

(* logUserActivity *)
LogUserActivity(r) ==
    /\ Loggable(r)
    /\ logged' = logged \cup {r}
    /\ handler' = [handler EXCEPT ![r] = "ok"]
    /\ UNCHANGED <<hook, pending, reading, request, rows, told, crossed>>

(* A statement fails, or the body or the session is refused. *)
Refuse(r) ==
    /\ handler[r] \in {"begun", "stored"}
    /\ handler' = [handler EXCEPT ![r] = "refused"]
    /\ UNCHANGED <<hook, pending, reading, request, rows, logged, told, crossed>>

(* Mutant of Fails: an error status is not looked at (throwIfResNotOk). *)
FailsOnlyLost(r, lost) == lost

(* apiRequest throws. *)
Fails(r, lost) == lost \/ handler[r] = "refused"

(* The answer arrives, or the connection breaks; the handler goes on.       *)
Answered(r, lost) ==
    /\ request[r] = "waiting"
    /\ lost \/ handler[r] \in {"ok", "refused"}
    /\ request' = [request EXCEPT ![r] = "ended"]
    /\ told' = IF Fails(r, lost) THEN told \cup {r} ELSE told
    /\ UNCHANGED <<hook, pending, reading, tables, crossed>>

(* A request that never arrived is not handled. *)
NeverArrives(r) ==
    /\ handler[r] = "begun" /\ r \in told
    /\ handler' = [handler EXCEPT ![r] = "lost"]
    /\ UNCHANGED <<hook, pending, reading, request, rows, logged, told, crossed>>

TrackNext ==
    \/ Show \/ Render \/ LeavePage \/ TimerFires \/ Located \/ LocationError
    \/ \E r \in Readings :
          \/ CreateLocation(r) \/ LogUserActivity(r) \/ Refuse(r) \/ NeverArrives(r)
          \/ \E lost \in BOOLEAN : Answered(r, lost)

TrackSpec == TrackInit /\ [][TrackNext]_trackVars

-----------------------------------------------------------------------------
(* Type invariant. *)
TrackTypeOK ==
    /\ page \in {"away", "shown"}
    /\ isTracking \in BOOLEAN /\ wanted \in BOOLEAN /\ crossed \in BOOLEAN
    /\ cleanup \in {"none", "noop", "clear"}
    /\ timers \in Nat /\ pending \in 0..MaxPending /\ reading \in 0..MaxReadings
    /\ request \in [Readings -> {"none", "waiting", "ended"}]
    /\ handler \in [Readings -> {"none", "begun", "stored", "ok", "refused", "lost"}]
    /\ rows \in Seq(Readings)
    /\ logged \subseteq Readings /\ told \subseteq Readings

(* Every interval is one that the last cleanup clears: none is left behind  *)
(* by a rendering, or runs on after the page.                               *)
TimerOwned ==
    /\ timers = 1 <=> cleanup = "clear"
    /\ timers <= 1 /\ (timers = 1 => page = "shown")

Stored == {rows[i] : i \in DOMAIN rows}

(* A report that has ended without a word to the user is stored and logged, *)
(* whatever was lost or failed on the way.                                  *)
NothingSilent ==
    \A r \in Readings :
        request[r] = "ended" /\ r \notin told => r \in Stored \cap logged

(* No activity says of a position that it was updated before it is stored.  *)
LoggedIsStored == logged \subseteq Stored

(* The table holds no report twice, and an older position is the newer row  *)
(* only where two reports were under way at once.                           *)
InOrder ==
    \A i, j \in DOMAIN rows : i < j => rows[i] < rows[j] \/ (crossed /\ rows[i] # rows[j])
=============================================================================
