------------------------------ MODULE VideoQoS ------------------------------
(***************************************************************************)
(* The frame rate of the host (src/rustdesk/src/server/video_qos.rs): one   *)
(* rate for all users, from the delays that each connection measures by     *)
(* TestDelay once a second (server/connection.rs), the limits that the      *)
(* users set and the age of the newest user.  A video worker adjusts it     *)
(* once a second too.                                                       *)
(*                                                                         *)
(* Delays are in ms.  The bit rate ratio, which follows the same delays, is *)
(* left out; of the quality it keeps the minimal and the normal rate.       *)
(***************************************************************************)
EXTENDS Integers, Sequences, FiniteSets, FiniteSetsExt, Functions

CONSTANTS Users,            \* connections
          NormalDelays,     \* delays of the network when nothing is wrong,
          BadDelays,        \* when something is,
          SlowDelay,        \* when the answer takes more than a second
          LateDelay,        \* or more than two
          FpsOptions,       \* limits that users set
          Qualities,        \* image qualities that users set
          MIN_SAMPLES, WINDOW_SAMPLES,      \* of RttCalculator: 10 and 60
          MaxBad,           \* answers that are bad, slow or late
          MaxChanges        \* options set and connections opened

FPS == 30
MIN_FPS == 1
MAX_FPS == 120
INIT_FPS == 15
HISTORY_DELAY_LEN == 2
DELAY_THRESHOLD_150MS == 150

ASSUME UsersAssumption == IsFiniteSet(Users)
ASSUME DelaysAssumption ==
    /\ NormalDelays \cup BadDelays \subseteq 10..999
    /\ SlowDelay \in 1000..2000 /\ LateDelay \in Nat /\ LateDelay > 2000
ASSUME OptionsAssumption ==
    FpsOptions \subseteq MIN_FPS..MAX_FPS /\ Qualities \subseteq {"best", "balanced", "low"}
ASSUME SamplesAssumption == MIN_SAMPLES \in Nat \ {0} /\ WINDOW_SAMPLES \in Nat \ {0}
ASSUME BoundsAssumption == MaxBad \in Nat /\ MaxChanges \in Nat

VARIABLES
    users,      \* VideoQoS.users: a function from the open connections
    fps,        \* VideoQoS.fps
    young,      \* new_user_instant is less than a second ago
    test,       \* last_test_delay of each connection: how long ago it was sent
    bad, changes

vars == <<users, fps, young, test, bad, changes>>

(* UserData::default(): 0 is the None of an Option. *)
NewUser ==
    [fps |-> 0, custom_fps |-> 0, auto_adjust_fps |-> 0,
     quality |-> [time |-> 0, value |-> "balanced"],
     response_delayed |-> FALSE, delay_history |-> <<>>,
     samples |-> <<>>, min_rtt |-> 0, smoothed_rtt |-> 0,
     quick_increase_fps_count |-> 0, increase_fps_count |-> 0]

Least(a, b) == Min({a, b})
Greatest(a, b) == Max({a, b})
Clamp(x, low, high) == IF x < low THEN low ELSE IF x > high THEN high ELSE x
CeilDiv(a, b) == (a + b - 1) \div b

Init ==
    /\ users = <<>> /\ fps = FPS /\ young = TRUE
    /\ test = [u \in Users |-> "none"]
    /\ bad = 0 /\ changes = 0

-----------------------------------------------------------------------------
(* The delays of a user *)

(* RttCalculator::update *)
UpdateRtt(user, delay) ==
    LET kept == IF Len(user.samples) >= WINDOW_SAMPLES THEN Tail(user.samples) ELSE user.samples
        window == Append(kept, delay)
        min == IF user.min_rtt = 0 THEN delay ELSE Least(user.min_rtt, delay)
    IN  [user EXCEPT !.min_rtt = min,
                     !.samples = window,
                     !.smoothed_rtt = IF Len(window) >= WINDOW_SAMPLES
                                      THEN (min + Min(Range(window))) \div 2 ELSE @]

(* RttCalculator::get_rtt: 0 where it is not known. *)
Rtt(user) ==
    IF user.smoothed_rtt = 0 /\ Len(user.samples) >= MIN_SAMPLES
    THEN user.min_rtt ELSE user.smoothed_rtt

(* Mutant of AddDelay: nothing is forgotten. *)
AddDelayUntrimmed(user, delay) ==
    [UpdateRtt(user, delay) EXCEPT !.delay_history = Append(@, delay)]

(* UserDelay::add_delay: the history is trimmed before it grows. *)
AddDelay(user, delay) ==
    [UpdateRtt(user, delay) EXCEPT
        !.delay_history = Append(IF Len(@) > HISTORY_DELAY_LEN THEN Tail(@) ELSE @, delay)]

(* The sum of a history, which has at most HISTORY_DELAY_LEN + 1 entries. *)
Total(history) ==
    LET entry(i) == IF i <= Len(history) THEN history[i] ELSE 0
    IN  entry(1) + entry(2) + entry(3)

(* UserDelay::avg_delay: an average that is not above the RTT stays whole. *)
AvgDelay(user) ==
    LET n == Len(user.delay_history)
        avg == Total(user.delay_history) \div n
    IN  IF n = 0 THEN DELAY_THRESHOLD_150MS
        ELSE IF avg > Rtt(user) THEN avg - Rtt(user) ELSE avg

-----------------------------------------------------------------------------
(* The rate of all users *)

UserFps(user) ==
    LET custom == IF user.custom_fps = 0 THEN FPS ELSE user.custom_fps
    IN  IF user.auto_adjust_fps = 0 THEN custom ELSE Least(user.auto_adjust_fps, custom)

(* VideoQoS::highest_fps; the options of users are in its limits. *)
HighestFps(us) ==
    IF DOMAIN us = {} THEN FPS ELSE Min({UserFps(us[u]) : u \in DOMAIN us})

Rates(us) ==
    IF DOMAIN us = {} THEN {INIT_FPS}
    ELSE {IF us[u].fps = 0 THEN INIT_FPS ELSE us[u].fps : u \in DOMAIN us}

(* Mutant of SomeDelayed: everybody must be late. *)
AllDelayed(us) == DOMAIN us # {} /\ \A u \in DOMAIN us : us[u].response_delayed

SomeDelayed(us) == \E u \in DOMAIN us : us[u].response_delayed

(* VideoQoS::adjust_fps: the slowest user's rate, within the limits.  None   *)
(* of them is below MIN_FPS.                                                *)
AdjustFps(us) ==
    Min(Rates(us) \cup {HighestFps(us)}
        \cup (IF SomeDelayed(us) THEN {MIN_FPS + 1} ELSE {})
        \cup (IF young THEN {INIT_FPS} ELSE {}))

(* VideoQoS::latest_quality *)
LatestQuality(us) ==
    (CHOOSE q \in {us[u].quality : u \in DOMAIN us} :
        \A u \in DOMAIN us : us[u].quality.time <= q.time).value

QualityMinFps(quality) == CASE quality = "best" -> 8 [] quality = "low" -> 12 [] OTHER -> 10

(* Mutant of NextFps: the minimal rate of a good network is its maximum.    *)
NextFpsAtMost(avg, old_avg, quick, min_fps) ==
    IF avg < DELAY_THRESHOLD_150MS THEN Least(min_fps, fps + (IF quick THEN 5 ELSE 1))
    ELSE (DELAY_THRESHOLD_150MS * min_fps) \div avg

(* The step of user_network_delay from the rate of all users, on a good     *)
(* network up and on a bad one down.  The division of the code is in f32;   *)
(* it agrees with this one where avg / 150 is exact.                        *)
NextFps(avg, old_avg, quick, min_fps) ==
    LET normal_fps == 2 * min_fps
        dividend_ms == DELAY_THRESHOLD_150MS * min_fps
        devide_fps == CeilDiv(fps * DELAY_THRESHOLD_150MS, avg)
        one == IF fps < normal_fps THEN 1 ELSE 0
    IN  CASE avg < 50  -> Greatest(min_fps, fps + (IF quick THEN 5 ELSE one))
          [] avg \in 50..99 -> Greatest(min_fps, fps + (IF avg < old_avg THEN one ELSE 0))
          [] avg \in 100..149 -> Greatest(min_fps, fps)
          [] avg \in 150..199 -> Greatest(min_fps, devide_fps)
          [] avg \in 200..299 -> Least(min_fps, devide_fps)
          [] avg \in 300..599 -> dividend_ms \div avg
          [] OTHER -> Least(dividend_ms \div avg, devide_fps)

(* The user after VideoQoS::user_network_delay has added the delay: avg and  *)
(* old_avg are the averages after and before it.                            *)
Measured(added, old_avg, avg, min_fps, highest) ==
    LET quick == added.quick_increase_fps_count + 1
        steady == IF avg < DELAY_THRESHOLD_150MS THEN added.increase_fps_count + 1 ELSE 0
        next == NextFps(avg, old_avg, quick >= 3, min_fps) + (IF steady >= 3 THEN 1 ELSE 0)
    IN  [added EXCEPT !.fps = Clamp(next, MIN_FPS, highest),
                      !.quick_increase_fps_count =
                            IF avg < 50 THEN (IF quick >= 3 THEN 0 ELSE quick)
                            ELSE IF avg > 50 THEN 0 ELSE @,
                      !.increase_fps_count = IF steady >= 3 THEN 0 ELSE steady]

-----------------------------------------------------------------------------
(* AuthedConnID::new and its drop.  A new user does not touch the rate; the  *)
(* test that is out may have been sent before the login.  The last one to   *)
(* leave takes the state along.                                             *)

Open(u) ==
    /\ u \notin DOMAIN users /\ changes < MaxChanges
    /\ users' = [v \in DOMAIN users \cup {u} |-> IF v = u THEN NewUser ELSE users[v]]
    /\ \E age \in {"none", "sent"} : test' = [test EXCEPT ![u] = age]
    /\ young' = TRUE /\ changes' = changes + 1
    /\ UNCHANGED <<fps, bad>>

Close(u) ==
    /\ u \in DOMAIN users
    /\ users' = [v \in DOMAIN users \ {u} |-> users[v]]
    /\ test' = [test EXCEPT ![u] = "none"]
    /\ IF DOMAIN users = {u} THEN fps' = FPS /\ young' = TRUE ELSE UNCHANGED <<fps, young>>
    /\ UNCHANGED <<bad, changes>>

(* A second after the latest connection. *)
Age == young /\ young' = FALSE /\ UNCHANGED <<users, fps, test, bad, changes>>

(* The second of a video worker: update_display_data. *)
Second ==
    /\ fps' = AdjustFps(users)
    /\ UNCHANGED <<users, young, test, bad, changes>>

(* update_options and Misc::AutoAdjustFps: the rate follows at the next     *)
(* adjustment.                                                              *)
SetOption(u, option) ==
    /\ u \in DOMAIN users /\ changes < MaxChanges
    /\ users' = [users EXCEPT ![u] = option]
    /\ changes' = changes + 1
    /\ UNCHANGED <<fps, young, test, bad>>

CustomFps(u, n) == SetOption(u, [users[u] EXCEPT !.custom_fps = n])
AutoAdjustFps(u, n) == SetOption(u, [users[u] EXCEPT !.auto_adjust_fps = n])
ImageQuality(u, q) ==
    SetOption(u, [users[u] EXCEPT !.quality = [time |-> changes + 1, value |-> q]])

(* test_delay_timer of a connection.  A test is sent where none is out; one *)
(* that is out has become slow, and late after two seconds, as long as it   *)
(* is not answered.                                                         *)
SendTest(u) ==
    /\ test[u] = "none"
    /\ test' = [test EXCEPT ![u] = "sent"]
    /\ UNCHANGED bad

AwaitTest(u) ==
    \/ /\ test[u] = "sent" /\ bad < MaxBad
       /\ test' = [test EXCEPT ![u] = "slow"]
       /\ bad' = bad + 1
    \/ /\ test[u] = "slow"
       /\ \E age \in {"slow", "late"} : test' = [test EXCEPT ![u] = age]
       /\ UNCHANGED bad
    \/ test[u] = "late" /\ UNCHANGED <<test, bad>>

(* VideoQoS::user_delay_response_elapsed *)
ResponseElapsed(user, late) ==
    IF late THEN AddDelay([user EXCEPT !.response_delayed = TRUE], LateDelay)
    ELSE [user EXCEPT !.response_delayed = FALSE]

TimerTick(u) ==
    /\ u \in DOMAIN users
    /\ SendTest(u) \/ AwaitTest(u)
    /\ users' = [users EXCEPT ![u] = ResponseElapsed(@, test'[u] = "late")]
    /\ fps' = IF test'[u] = "late" THEN AdjustFps(users') ELSE fps
    /\ UNCHANGED <<young, changes>>

(* The peer answers the test: TestDelay in on_message, user_network_delay.  *)
Answer(u, delay) ==
    /\ u \in DOMAIN users
    /\ CASE test[u] = "sent" ->
                \/ delay \in NormalDelays /\ UNCHANGED bad
                \/ delay \in BadDelays /\ bad < MaxBad /\ bad' = bad + 1
         [] test[u] = "slow" -> delay = SlowDelay /\ UNCHANGED bad
         [] test[u] = "late" -> delay = LateDelay /\ UNCHANGED bad
         [] test[u] = "none" -> FALSE
    /\ test' = [test EXCEPT ![u] = "none"]
    /\ \E added \in {AddDelay(users[u], delay)},
          min_fps \in {QualityMinFps(LatestQuality(users))}, highest \in {HighestFps(users)} :
       \E avg \in {Greatest(AvgDelay(added), 10)} :
          users' = [users EXCEPT ![u] =
                        Measured(added, AvgDelay(users[u]), avg, min_fps, highest)]
    /\ fps' = AdjustFps(users')
    /\ UNCHANGED <<young, changes>>

Delays == NormalDelays \cup BadDelays \cup {SlowDelay, LateDelay}
Answered(u) == \E delay \in Delays : Answer(u, delay)

Next ==
    \/ \E u \in Users : Open(u) \/ Close(u) \/ TimerTick(u) \/ Answered(u)
    \/ \E u \in Users, n \in FpsOptions : CustomFps(u, n) \/ AutoAdjustFps(u, n)
    \/ \E u \in Users, q \in Qualities : ImageQuality(u, q)
    \/ Age
    \/ Second

Spec == Init /\ [][Next]_vars

(* A clock that goes on, a worker that asks for the rate once a second, and *)
(* peers that answer: one that does not for 30 seconds is disconnected.     *)
Fairness ==
    /\ WF_vars(Age) /\ WF_vars(Second)
    /\ \A u \in Users : WF_vars(TimerTick(u) /\ test[u] = "none") /\ WF_vars(Answered(u))

FairSpec == Spec /\ Fairness

-----------------------------------------------------------------------------
UserType ==
    [fps : 0..MAX_FPS, custom_fps : 0..MAX_FPS, auto_adjust_fps : 0..MAX_FPS,
     quality : [time : Nat, value : Qualities \cup {"balanced"}],
     response_delayed : BOOLEAN, delay_history : Seq(Nat),
     samples : Seq(Nat), min_rtt : Nat, smoothed_rtt : Nat,
     quick_increase_fps_count : 0..2, increase_fps_count : 0..2]

UserOK(user) ==
    /\ user \in UserType
    /\ Len(user.delay_history) <= HISTORY_DELAY_LEN + 1
    /\ Len(user.samples) <= WINDOW_SAMPLES

(* Types: what is measured of open connections stays in the limits of       *)
(* video_qos.rs: the windows do not grow, the counters start again, and the *)
(* rate is one that spf can divide by.                                      *)
TypeOK ==
    /\ DOMAIN users \subseteq Users
    /\ \A u \in DOMAIN users : UserOK(users[u])
    /\ fps \in MIN_FPS..MAX_FPS /\ young \in BOOLEAN
    /\ test \in [Users -> {"none", "sent", "slow", "late"}]
    /\ bad \in 0..MaxBad /\ changes \in 0..MaxChanges

(* While any user's answer is late the rate is at its minimum, or one above *)
(* it: whatever the others answer and set, who comes and goes, and which    *)
(* worker reports (response_delayed in adjust_fps).                         *)
DelayedCaps == SomeDelayed(users) => fps <= MIN_FPS + 1

(* Whatever a user's network did and whoever else was there, once the user  *)
(* is alone and the network is as it should be, the rate climbs to what the *)
(* user allows, and stays there (user_network_delay, response_delayed).     *)
AloneRecovers ==
    <>[](Cardinality(DOMAIN users) = 1) => <>[](fps = HighestFps(users))

(* "TestDelay receive => update user's fps according to network delay [...] *)
(* When network delay < DELAY_THRESHOLD_150MS, [...] increase fps"          *)
(* (src/rustdesk/src/server/video_qos.rs:11), and the rate of all users is  *)
(* the least of theirs: where it stays good for all of them it reaches what *)
(* all of them allow.                                                       *)
AllRecover == <>[](DOMAIN users # {} => fps = HighestFps(users))
=============================================================================
