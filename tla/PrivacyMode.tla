----------------------------- MODULE PrivacyMode -----------------------------
(***************************************************************************)
(* Privacy mode of the host: src/rustdesk/src/privacy_mode.rs, its two      *)
(* implementations in privacy_mode/, and the connections that ask for it    *)
(* (server/connection.rs).  The mode is a global behind one mutex and       *)
(* belongs to one connection.  Turning it on blocks the local input with a  *)
(* hook whose thread ends on its own some time after it was told to.        *)
(*                                                                         *)
(* What happens under the mutex is one step, except that the hook's thread  *)
(* may end in the middle of it.  Windows' own calls succeed once the mode   *)
(* is on; turning it on can fail for reasons of the host.                   *)
(***************************************************************************)
EXTENDS FiniteSets

CONSTANTS Conns,  \* connection ids
          None,   \* INVALID_PRIVACY_MODE_CONN_ID
          Async   \* the virtual display driver is amyuni's, which is slow

ASSUME NoneAssumption == None \notin Conns
ASSUME AsyncAssumption == Async \in BOOLEAN

(* win_topmost_window, for the magnifier and for excluded windows, and      *)
(* win_virtual_display.                                                     *)
Topmost == "topmost"
Virtual == "virtual"
Impls == {Topmost, Virtual}

VARIABLES
    mode,    \* PRIVACY_MODE: the implementation and its conn_id; its hook
    conn,    \* conn[c]: the connection's life
    phase,   \* phase[c]: where its turn_on_privacy is
    wanted,  \* wanted[c]: the implementation it asks for
    jobs,    \* threads of turn_on_privacy_async; late: nobody waits for them
    told,    \* told[c]: the peer believes that its mode is on
    notice,  \* notice[c]: OffByPeer is on its way to c
    robbed,  \* ghost: lost the mode to something that does not notify it
    stuck    \* ghost: got the mode from a late thread, after it had closed

vars == <<mode, conn, phase, wanted, jobs, told, notice, robbed, stuck>>

Init ==
    /\ mode \in [impl : Impls, owner : {None}, hook : {"none"}]
    /\ conn = [c \in Conns |-> "new"]
    /\ phase = [c \in Conns |-> "idle"]
    /\ wanted \in [Conns -> {Topmost}]
    /\ jobs = {}
    /\ told = [c \in Conns |-> FALSE]
    /\ notice = [c \in Conns |-> FALSE]
    /\ robbed = {}
    /\ stuck = {}

-----------------------------------------------------------------------------
(* The mode. *)

(* turn_off_privacy past its check; unhook posts a message to the thread.   *)
Off(m) == [m EXCEPT !.owner = None, !.hook = IF @ = "set" THEN "exiting" ELSE @]

(* check_off_conn_id *)
MayTurnOff(m, by) == m.owner = None \/ by = None \/ m.owner = by

TurnOff(m, by) == IF MayTurnOff(m, by) THEN Off(m) ELSE m

(* clear or Drop of the old implementation, and a new one.                  *)
Replace(m, impl) == IF m.impl = impl THEN m ELSE [Off(m) EXCEPT !.impl = impl]

(* The thread of a hook that is going may end while we are at it.           *)
Settled(m) == IF m.hook = "exiting" THEN {m, [m EXCEPT !.hook = "none"]} ELSE {m}

(* Mutant: its failure is ignored by both implementations. *)
HookedAnyway(m, c) ==
    <<"ok", [m EXCEPT !.owner = c, !.hook = IF @ = "none" THEN "set" ELSE @]>>

(* hook: fails while a thread is there.  One implementation gives up then,  *)
(* the other goes on without.                                               *)
Hooked(m, c) ==
    IF m.hook = "none" THEN <<"ok", [m EXCEPT !.owner = c, !.hook = "set"]>>
    ELSE IF m.impl = Virtual THEN <<"ok", [m EXCEPT !.owner = c]>>
    ELSE <<"err", m>>

(* turn_on_privacy of an implementation that is off: results and outcomes.  *)
Start(m, c) ==
    {<<"err", m>>}
    \cup (IF m.impl = Topmost THEN {<<"no_plugin", m>>} ELSE {})
    \cup {Hooked(n, c) : n \in Settled(m)}

(* Mutant: the caller is not compared with the owner. *)
TurnOnUnchecked(m, c, impl) ==
    IF m.owner # None /\ m.impl = impl THEN {<<"ok", [m EXCEPT !.owner = c]>>}
    ELSE Start(Replace(m, impl), c)

(* turn_on_privacy_sync *)
TurnOn(m, c, impl) ==
    IF m.owner = c /\ m.impl = impl THEN {<<"ok", m>>}
    ELSE IF m.owner \notin {c, None} THEN {<<"err", m>>}
    ELSE Start(Replace(m, impl), c)

-----------------------------------------------------------------------------
(* The connections. *)

(* check_privacy_mode_on: nobody logs in while the mode is on. *)
Login(c) ==
    /\ conn[c] = "new"
    /\ conn' = [conn EXCEPT ![c] = IF mode.owner = None THEN "open" ELSE "closed"]
    /\ UNCHANGED <<mode, phase, wanted, jobs, told, notice, robbed, stuck>>

AtRest(c) == conn[c] = "open" /\ phase[c] = "idle"

(* turn_on_privacy up to its choice, by the implementation of the moment.   *)
Request(c, impl) ==
    /\ AtRest(c)
    /\ wanted' = [wanted EXCEPT ![c] = impl]
    /\ IF Async /\ mode.impl = Virtual
       THEN /\ phase' = [phase EXCEPT ![c] = "wait"]
            /\ jobs' = jobs \cup {[conn |-> c, impl |-> impl, late |-> FALSE]}
       ELSE /\ phase' = [phase EXCEPT ![c] = "sync"]
            /\ UNCHANGED jobs
    /\ UNCHANGED <<mode, conn, told, notice, robbed, stuck>>

SyncTurnOn(c) ==
    /\ phase[c] = "sync"
    /\ \E out \in TurnOn(mode, c, wanted[c]) :
          /\ phase' = [phase EXCEPT ![c] = out[1]]
          /\ mode' = out[2]
    /\ UNCHANGED <<conn, wanted, jobs, told, notice, robbed, stuck>>

(* The thread gets the lock.  Its answer may come after the 5 seconds too.  *)
ThreadTurnOn(j) ==
    /\ jobs' = jobs \ {j}
    /\ \E out \in TurnOn(mode, j.conn, j.impl) :
          /\ mode' = out[2]
          /\ phase' \in IF j.late THEN {phase}
                        ELSE {[phase EXCEPT ![j.conn] = r] : r \in {out[1], "err"}}
    /\ robbed' = IF j.late /\ mode'.owner # j.conn THEN robbed \cup {j.conn} ELSE robbed
    /\ stuck' = IF conn[j.conn] = "closed" /\ mode'.owner = j.conn
                THEN stuck \cup {j.conn} ELSE stuck
    /\ UNCHANGED <<conn, wanted, told, notice>>

(* 5 seconds have gone and the thread is still without the lock. *)
Timeout(c) ==
    /\ phase[c] = "wait"
    /\ phase' = [phase EXCEPT ![c] = "err"]
    /\ jobs' = {IF j.conn = c THEN [j EXCEPT !.late = TRUE] ELSE j : j \in jobs}
    /\ UNCHANGED <<mode, conn, wanted, told, notice, robbed, stuck>>

Lost == {mode.owner} \ {None}

Tell(c, on) ==
    /\ told' = [told EXCEPT ![c] = on]
    /\ phase' = [phase EXCEPT ![c] = "idle"]

(* Ok(true): the capture is tried out where the magnifier is used, and the  *)
(* mode is turned off again if it fails.                                    *)
Succeeded(c) ==
    /\ phase[c] = "ok"
    /\ \/ /\ Tell(c, TRUE)
          /\ robbed' = IF mode.owner = c THEN robbed \ {c} ELSE robbed
          /\ UNCHANGED mode
       \/ /\ mode.impl = Topmost
          /\ mode' = TurnOff(mode, c)
          /\ Tell(c, FALSE)
          /\ UNCHANGED robbed
    /\ UNCHANGED <<conn, wanted, jobs, notice, stuck>>

(* Ok(false), or an error with the mode off. *)
Failed(c) ==
    /\ \/ phase[c] = "no_plugin"
       \/ phase[c] = "err" /\ mode.owner = None
    /\ Tell(c, FALSE)
    /\ UNCHANGED <<mode, conn, wanted, jobs, notice, robbed, stuck>>

(* An error with the mode on, whoever it belongs to: it is turned off in    *)
(* nobody's name, which check_off_conn_id lets pass.                        *)
SeeOn(c) ==
    /\ phase[c] = "err"
    /\ mode.owner # None
    /\ phase' = [phase EXCEPT ![c] = "undo"]
    /\ UNCHANGED <<mode, conn, wanted, jobs, told, notice, robbed, stuck>>

Undo(c) ==
    /\ phase[c] = "undo"
    /\ mode' = TurnOff(mode, None)
    /\ robbed' = robbed \cup (Lost \ {c})
    /\ Tell(c, FALSE)
    /\ UNCHANGED <<conn, wanted, jobs, notice, stuck>>

(* turn_off_privacy: OffSucceeded, or OffFailed, which the peer only shows. *)
RequestOff(c) ==
    /\ AtRest(c)
    /\ mode' = TurnOff(mode, c)
    /\ told' = IF MayTurnOff(mode, c) THEN [told EXCEPT ![c] = FALSE] ELSE told
    /\ UNCHANGED <<conn, phase, wanted, jobs, notice, robbed, stuck>>

HearNotice(c) ==
    /\ AtRest(c)
    /\ notice[c]
    /\ notice' = [notice EXCEPT ![c] = FALSE]
    /\ told' = [told EXCEPT ![c] = FALSE]
    /\ UNCHANGED <<mode, conn, phase, wanted, jobs, robbed, stuck>>

(* The end of a connection: it looks whether the mode is its own, and turns *)
(* it off in a second step.                                                 *)
LoopEnds(c) ==
    /\ AtRest(c)
    /\ conn' = [conn EXCEPT ![c] = "closing"]
    /\ UNCHANGED <<mode, phase, wanted, jobs, told, notice, robbed, stuck>>

(* Mutant: the mode is left on. *)
CloseCheckForgets(c) ==
    /\ conn[c] = "closing"
    /\ conn' = [conn EXCEPT ![c] = "closed"]
    /\ UNCHANGED <<mode, phase, wanted, jobs, told, notice, robbed, stuck>>

CloseCheck(c) ==
    /\ conn[c] = "closing"
    /\ conn' = [conn EXCEPT ![c] = IF mode.owner = c THEN "closing_off" ELSE "closed"]
    /\ UNCHANGED <<mode, phase, wanted, jobs, told, notice, robbed, stuck>>

CloseOff(c) ==
    /\ conn[c] = "closing_off"
    /\ mode' = TurnOff(mode, c)
    /\ conn' = [conn EXCEPT ![c] = "closed"]
    /\ UNCHANGED <<phase, wanted, jobs, told, notice, robbed, stuck>>

-----------------------------------------------------------------------------
(* The host's user. *)

(* Mutant: the notification goes to nobody. *)
HotKeySilent ==
    /\ mode.hook # "none"
    /\ mode' = TurnOff(mode, None)
    /\ UNCHANGED <<conn, phase, wanted, jobs, told, notice, robbed, stuck>>

(* Ctrl+P, seen by the hook: every connection is notified. *)
HotKey ==
    /\ mode.hook # "none"
    /\ mode' = TurnOff(mode, None)
    /\ notice' = [c \in Conns |-> notice[c] \/ (mode.owner # None /\ conn[c] = "open")]
    /\ UNCHANGED <<conn, phase, wanted, jobs, told, robbed, stuck>>

(* virtual_display_manager::reset_all *)
ResetDriver ==
    /\ mode' = TurnOff(mode, None)
    /\ robbed' = robbed \cup Lost
    /\ UNCHANGED <<conn, phase, wanted, jobs, told, notice, stuck>>

(* switch, when the options change *)
Switch(impl) ==
    /\ mode' = Replace(mode, impl)
    /\ robbed' = IF mode.impl # impl THEN robbed \cup Lost ELSE robbed
    /\ UNCHANGED <<conn, phase, wanted, jobs, told, notice, stuck>>

(* The hook's thread takes its message. *)
HookExits ==
    /\ mode.hook = "exiting"
    /\ mode' = [mode EXCEPT !.hook = "none"]
    /\ UNCHANGED <<conn, phase, wanted, jobs, told, notice, robbed, stuck>>

-----------------------------------------------------------------------------
Peer(c) ==
    \/ Login(c)
    \/ \E impl \in Impls : Request(c, impl)
    \/ SyncTurnOn(c) \/ Timeout(c) \/ Succeeded(c) \/ Failed(c) \/ SeeOn(c) \/ Undo(c)
    \/ RequestOff(c) \/ HearNotice(c)
    \/ LoopEnds(c) \/ CloseCheck(c) \/ CloseOff(c)

Local == HotKey \/ ResetDriver \/ HookExits \/ \E impl \in Impls : Switch(impl)

Next ==
    \/ \E c \in Conns : Peer(c)
    \/ \E j \in jobs : ThreadTurnOn(j)
    \/ Local

Spec == Init /\ [][Next]_vars

-----------------------------------------------------------------------------
Modes == [impl : Impls, owner : Conns \cup {None}, hook : {"none", "set", "exiting"}]
Jobs == [conn : Conns, impl : Impls, late : BOOLEAN]

(* Types of the mode, the connections and the threads.                      *)
TypeOK ==
    /\ mode \in Modes
    /\ conn \in [Conns -> {"new", "open", "closing", "closing_off", "closed"}]
    /\ phase \in [Conns -> {"idle", "sync", "wait", "ok", "no_plugin", "err", "undo"}]
    /\ wanted \in [Conns -> Impls]
    /\ jobs \subseteq Jobs
    /\ told \in [Conns -> BOOLEAN]
    /\ notice \in [Conns -> BOOLEAN]
    /\ robbed \subseteq Conns
    /\ stuck \subseteq Conns

(* The mode never stays with a connection that has closed, which would keep *)
(* everybody else from logging in; but a thread that nobody waits for any   *)
(* more can turn it on for a connection that is already gone.               *)
OwnerLive ==
    mode.owner \in Conns /\ conn[mode.owner] = "closed" => mode.owner \in stuck

(* The mode passes from one connection to another only by being off between. *)
Exclusive ==
    [][mode.owner # None /\ mode'.owner # None => mode'.owner = mode.owner]_vars

(* The magnifier's mode is never on without the hook that blocks the local  *)
(* input, not even when it is turned on while an old hook is on its way out. *)
InputBlocked ==
    mode.owner # None /\ mode.impl = Topmost => mode.hook = "set"

(* A peer that believes in its privacy has it, or is about to hear that it  *)
(* has not, unless the mode was ended for it without a notification.        *)
BeliefTracked ==
    \A c \in Conns :
        AtRest(c) /\ told[c] => mode.owner = c \/ notice[c] \/ c \in robbed

(* privacy_mode.rs, 38: "Failed to turn off privacy mode that belongs to    *)
(* someone else."  A connection's request that fails does turn it off.      *)
OthersKeepMode ==
    [][\A c \in Conns :
          Peer(c) /\ mode.owner # None /\ mode'.owner # mode.owner => mode.owner = c]_vars
=============================================================================
