--------------------------- MODULE VideoQoSProofs ---------------------------
(***************************************************************************)
(* VideoQoS, for any connections, delays and options: the windows and the   *)
(* counters stay in their limits, and a user whose answer is late holds the *)
(* rate down.                                                               *)
(***************************************************************************)
EXTENDS VideoQoS, WellFoundedInduction, TLAPS

IInv == TypeOK /\ DelayedCaps

-----------------------------------------------------------------------------
(* A non-empty set of natural numbers has a least element. *)
LEMMA MinInNat ==
    ASSUME NEW S \in SUBSET Nat, S # {}
    PROVE  Min(S) \in S /\ \A y \in S : Min(S) <= y
<1> DEFINE R == OpToRel(<, Nat)
<1>1. IsWellFoundedOn(R, Nat)
  BY NatLessThanWellFounded
<1>2. PICK x \in S : \A y \in S : ~ (<<y, x>> \in R)
  <2> HIDE DEF R
  <2> QED BY <1>1, WFMin
<1>3. \A a, b \in Nat : a < b => <<a, b>> \in R
  BY DEF OpToRel
<1>4. \A y \in S : x <= y
  <2> HIDE DEF R
  <2> TAKE y \in S
  <2>1. y \in Nat /\ x \in Nat
    OBVIOUS
  <2>2. ~ (y < x)
    BY <1>2, <1>3, <2>1
  <2> QED BY <2>1, <2>2
<1> HIDE DEF R
<1> QED BY <1>4 DEF Min

(* Of two numbers the lesser and the greater are among them. *)
LEMMA Pairs ==
    ASSUME NEW a \in Int, NEW b \in Int
    PROVE  /\ Least(a, b) \in {a, b} /\ Least(a, b) <= a /\ Least(a, b) <= b
           /\ Greatest(a, b) \in {a, b} /\ Greatest(a, b) >= a /\ Greatest(a, b) >= b
<1>1. \E x \in {a, b} : \A y \in {a, b} : x <= y
  <2>1. CASE a <= b
    BY <2>1
  <2>2. CASE b < a
    BY <2>2
  <2> QED BY <2>1, <2>2
<1>2. \E x \in {a, b} : \A y \in {a, b} : x >= y
  <2>1. CASE a <= b
    BY <2>1
  <2>2. CASE b < a
    BY <2>2
  <2> QED BY <2>1, <2>2
<1>3. Least(a, b) \in {a, b} /\ \A y \in {a, b} : Least(a, b) <= y
  BY <1>1 DEF Least, Min
<1>4. Greatest(a, b) \in {a, b} /\ \A y \in {a, b} : Greatest(a, b) >= y
  BY <1>2 DEF Greatest, Max
<1> QED BY <1>3, <1>4

-----------------------------------------------------------------------------
(* What the users allow is a rate, and so is what they get; with a late     *)
(* answer it is at most one above the minimum.                              *)

LEMMA HighestIsRate ==
    ASSUME NEW us, \A u \in DOMAIN us : UserOK(us[u])
    PROVE  HighestFps(us) \in MIN_FPS..MAX_FPS
<1>1. ASSUME NEW u \in DOMAIN us
      PROVE  UserFps(us[u]) \in MIN_FPS..MAX_FPS
  <2>1. us[u].custom_fps \in 0..MAX_FPS /\ us[u].auto_adjust_fps \in 0..MAX_FPS
    BY <1>1 DEF UserOK, UserType
  <2> DEFINE custom == IF us[u].custom_fps = 0 THEN FPS ELSE us[u].custom_fps
  <2>2. custom \in MIN_FPS..MAX_FPS
    BY <2>1 DEF FPS, MIN_FPS, MAX_FPS
  <2>3. us[u].auto_adjust_fps # 0 =>
            Least(us[u].auto_adjust_fps, custom) \in {us[u].auto_adjust_fps, custom}
    <3> HIDE DEF custom
    <3> QED BY <2>1, <2>2, Pairs DEF MIN_FPS, MAX_FPS
  <2>4. UserFps(us[u]) = IF us[u].auto_adjust_fps = 0 THEN custom
                         ELSE Least(us[u].auto_adjust_fps, custom)
    BY DEF UserFps
  <2> HIDE DEF custom
  <2> QED BY <2>1, <2>2, <2>3, <2>4 DEF MIN_FPS, MAX_FPS
<1> DEFINE S == {UserFps(us[u]) : u \in DOMAIN us}
<1>2. S \subseteq MIN_FPS..MAX_FPS
  BY <1>1
<1>3. CASE DOMAIN us = {}
  BY <1>3 DEF HighestFps, FPS, MIN_FPS, MAX_FPS
<1>4. CASE DOMAIN us # {}
  <2>1. S # {} /\ S \in SUBSET Nat
    BY <1>2, <1>4 DEF MIN_FPS, MAX_FPS
  <2>2. Min(S) \in S
    <3> HIDE DEF S
    <3> QED BY <2>1, MinInNat
  <2> QED BY <1>2, <1>4, <2>2 DEF HighestFps
<1> QED BY <1>3, <1>4

LEMMA AdjustedIsRate ==
    ASSUME NEW us, \A u \in DOMAIN us : UserOK(us[u])
    PROVE  /\ AdjustFps(us) \in MIN_FPS..MAX_FPS
           /\ SomeDelayed(us) => AdjustFps(us) <= MIN_FPS + 1
<1> DEFINE S == Rates(us) \cup {HighestFps(us)}
                \cup (IF SomeDelayed(us) THEN {MIN_FPS + 1} ELSE {})
                \cup (IF young THEN {INIT_FPS} ELSE {})
<1>1. Rates(us) \subseteq MIN_FPS..MAX_FPS
  <2>1. \A u \in DOMAIN us : us[u].fps \in 0..MAX_FPS
    BY DEF UserOK, UserType
  <2>2. \A u \in DOMAIN us :
            (IF us[u].fps = 0 THEN INIT_FPS ELSE us[u].fps) \in MIN_FPS..MAX_FPS
    BY <2>1 DEF INIT_FPS, MIN_FPS, MAX_FPS
  <2>3. {INIT_FPS} \subseteq MIN_FPS..MAX_FPS
    BY DEF INIT_FPS, MIN_FPS, MAX_FPS
  <2> QED BY <2>2, <2>3 DEF Rates
<1>2. HighestFps(us) \in MIN_FPS..MAX_FPS
  BY HighestIsRate
<1>3. S \subseteq MIN_FPS..MAX_FPS /\ S # {}
  <2>1. MIN_FPS + 1 \in MIN_FPS..MAX_FPS /\ INIT_FPS \in MIN_FPS..MAX_FPS
    BY DEF INIT_FPS, MIN_FPS, MAX_FPS
  <2> QED BY <1>1, <1>2, <2>1
<1>4. S \in SUBSET Nat
  BY <1>3 DEF MIN_FPS, MAX_FPS
<1>5. Min(S) \in S /\ \A y \in S : Min(S) <= y
  <2> HIDE DEF S
  <2> QED BY <1>3, <1>4, MinInNat
<1>6. AdjustFps(us) = Min(S)
  BY DEF AdjustFps
<1>7. SomeDelayed(us) => MIN_FPS + 1 \in S
  OBVIOUS
<1> HIDE DEF S
<1> QED BY <1>3, <1>5, <1>6, <1>7

-----------------------------------------------------------------------------
(* A new delay keeps the windows in their limits. *)

LEMMA WindowTypes ==
    ASSUME NEW user, UserOK(user), NEW delay \in Nat
    PROVE  /\ UpdateRtt(user, delay) \in UserType
           /\ Len(UpdateRtt(user, delay).samples) <= WINDOW_SAMPLES
           /\ UpdateRtt(user, delay).delay_history = user.delay_history
<1> DEFINE kept == IF Len(user.samples) >= WINDOW_SAMPLES THEN Tail(user.samples)
                   ELSE user.samples
           window == Append(kept, delay)
           min == IF user.min_rtt = 0 THEN delay ELSE Least(user.min_rtt, delay)
           smoothed == IF Len(window) >= WINDOW_SAMPLES
                       THEN (min + Min(Range(window))) \div 2 ELSE user.smoothed_rtt
<1> USE SamplesAssumption
<1>1. /\ user \in UserType /\ user.samples \in Seq(Nat) /\ Len(user.samples) <= WINDOW_SAMPLES
      /\ user.min_rtt \in Nat /\ user.smoothed_rtt \in Nat
  BY DEF UserOK, UserType
<1>2. kept \in Seq(Nat) /\ Len(kept) < WINDOW_SAMPLES
  <2>1. CASE Len(user.samples) >= WINDOW_SAMPLES
    <3>1. user.samples # <<>>
      BY <1>1, <2>1
    <3>2. Tail(user.samples) \in Seq(Nat) /\ Len(Tail(user.samples)) = Len(user.samples) - 1
      BY <1>1, <3>1
    <3> QED BY <1>1, <2>1, <3>2
  <2>2. CASE ~ (Len(user.samples) >= WINDOW_SAMPLES)
    BY <1>1, <2>2
  <2> QED BY <2>1, <2>2
<1>3. window \in Seq(Nat) /\ Len(window) <= WINDOW_SAMPLES /\ Len(window) > 0
  <2> HIDE DEF kept
  <2> QED BY <1>2
<1>4. min \in Nat
  BY <1>1, Pairs
<1>5. smoothed \in Nat
  <2>1. Range(window) \in SUBSET Nat /\ Range(window) # {}
    <3> HIDE DEF window
    <3>1. DOMAIN window = 1..Len(window)
      BY <1>3
    <3>2. \A i \in DOMAIN window : window[i] \in Nat
      BY <1>3
    <3>3. 1 \in DOMAIN window
      BY <1>3, <3>1
    <3> QED BY <3>2, <3>3 DEF Range
  <2>2. Min(Range(window)) \in Nat
    <3> HIDE DEF window
    <3> QED BY <2>1, MinInNat
  <2> HIDE DEF window, min
  <2>3. (min + Min(Range(window))) \div 2 \in Nat
    <3> DEFINE m == Min(Range(window))
    <3>1. m \in Nat
      BY <2>2
    <3> HIDE DEF m
    <3>2. (min + m) \div 2 \in Nat
      BY <1>4, <3>1
    <3> QED BY <3>2 DEF m
  <2> QED BY <1>1, <2>3
<1>6. UpdateRtt(user, delay) =
        [user EXCEPT !.min_rtt = min, !.samples = window, !.smoothed_rtt = smoothed]
  BY DEF UpdateRtt
<1> HIDE DEF window, min, smoothed
<1> QED BY <1>1, <1>3, <1>4, <1>5, <1>6 DEF UserType

LEMMA AddDelayTypes ==
    ASSUME NEW user, UserOK(user), NEW delay \in Nat
    PROVE  UserOK(AddDelay(user, delay))
<1> DEFINE updated == UpdateRtt(user, delay)
           old == updated.delay_history
           kept == IF Len(old) > HISTORY_DELAY_LEN THEN Tail(old) ELSE old
<1>1. /\ updated \in UserType /\ Len(updated.samples) <= WINDOW_SAMPLES
      /\ old = user.delay_history
  BY WindowTypes
<1>2. old \in Seq(Nat) /\ Len(old) <= HISTORY_DELAY_LEN + 1
  <2> HIDE DEF updated
  <2> QED BY <1>1 DEF UserOK, UserType
<1>3. kept \in Seq(Nat) /\ Len(kept) <= HISTORY_DELAY_LEN
  <2> HIDE DEF old
  <2>1. CASE Len(old) > HISTORY_DELAY_LEN
    <3>1. old # <<>>
      BY <1>2, <2>1 DEF HISTORY_DELAY_LEN
    <3>2. Tail(old) \in Seq(Nat) /\ Len(Tail(old)) = Len(old) - 1
      BY <1>2, <3>1
    <3> QED BY <1>2, <2>1, <3>2 DEF HISTORY_DELAY_LEN
  <2>2. CASE ~ (Len(old) > HISTORY_DELAY_LEN)
    BY <1>2, <2>2 DEF HISTORY_DELAY_LEN
  <2> QED BY <2>1, <2>2
<1>4. Append(kept, delay) \in Seq(Nat) /\ Len(Append(kept, delay)) <= HISTORY_DELAY_LEN + 1
  <2> HIDE DEF kept
  <2> QED BY <1>3 DEF HISTORY_DELAY_LEN
<1>5. AddDelay(user, delay) = [updated EXCEPT !.delay_history = Append(kept, delay)]
  BY DEF AddDelay
<1> HIDE DEF kept, updated
<1> QED BY <1>1, <1>4, <1>5 DEF UserOK, UserType

(* The average delay is a number. *)
LEMMA AverageType ==
    ASSUME NEW user, UserOK(user)
    PROVE  AvgDelay(user) \in Int
<1> DEFINE history == user.delay_history
           n == Len(history)
           avg == Total(history) \div n
<1>1. /\ history \in Seq(Nat) /\ user.samples \in Seq(Nat)
      /\ user.min_rtt \in Nat /\ user.smoothed_rtt \in Nat
  BY DEF UserOK, UserType
<1>2. Rtt(user) \in Nat
  BY <1>1 DEF Rtt
<1>3. Total(history) \in Nat
  <2> HIDE DEF history
  <2> QED BY <1>1 DEF Total
<1>4. n \in Nat
  <2> HIDE DEF history
  <2> QED BY <1>1
<1>5. n # 0 => avg \in Int
  <2> DEFINE total == Total(history)
  <2>1. total \in Nat
    BY <1>3
  <2> HIDE DEF total, n
  <2>2. n # 0 => total \div n \in Int
    BY <1>4, <2>1
  <2> QED BY <2>2 DEF total
<1>6. AvgDelay(user) = IF n = 0 THEN DELAY_THRESHOLD_150MS
                       ELSE IF avg > Rtt(user) THEN avg - Rtt(user) ELSE avg
  BY DEF AvgDelay
<1> HIDE DEF avg, n
<1> QED BY <1>2, <1>4, <1>5, <1>6 DEF DELAY_THRESHOLD_150MS

LEMMA NextIsInt ==
    ASSUME fps \in Nat, NEW avg \in Nat, avg >= 10, NEW old_avg \in Int,
           NEW quick \in BOOLEAN, NEW min_fps \in {8, 10, 12}
    PROVE  NextFps(avg, old_avg, quick, min_fps) \in Int
<1> DEFINE dividend == DELAY_THRESHOLD_150MS * min_fps
           product == fps * DELAY_THRESHOLD_150MS
           devide_fps == CeilDiv(product, avg)
           ratio == dividend \div avg
           one == IF fps < 2 * min_fps THEN 1 ELSE 0
           five == fps + (IF quick THEN 5 ELSE one)
           some == fps + (IF avg < old_avg THEN one ELSE 0)
<1>1. dividend \in Nat /\ product \in Nat
  BY DEF DELAY_THRESHOLD_150MS
<1>2. ratio \in Int /\ devide_fps \in Int
  <2> HIDE DEF dividend, product
  <2>1. ratio \in Int
    BY <1>1
  <2>2. product + avg - 1 \in Nat
    BY <1>1
  <2>3. (product + avg - 1) \div avg \in Int
    <3> DEFINE sum == product + avg - 1
    <3>1. sum \in Nat
      BY <2>2
    <3> HIDE DEF sum
    <3>2. sum \div avg \in Int
      BY <3>1
    <3> QED BY <3>2 DEF sum
  <2> QED BY <2>1, <2>3 DEF CeilDiv
<1>3. one \in {0, 1}
  OBVIOUS
<1>4. five \in Int /\ some \in Int /\ min_fps \in Int
  <2> HIDE DEF one
  <2> QED BY <1>3
<1>5. /\ Greatest(min_fps, five) \in Int /\ Greatest(min_fps, some) \in Int
      /\ Greatest(min_fps, fps) \in Int
  <2> HIDE DEF five, some
  <2> QED BY <1>4, Pairs
<1>6. /\ Greatest(min_fps, devide_fps) \in Int /\ Least(min_fps, devide_fps) \in Int
      /\ Least(ratio, devide_fps) \in Int
  <2> HIDE DEF ratio, devide_fps
  <2> QED BY <1>2, <1>4, Pairs
<1>7. NextFps(avg, old_avg, quick, min_fps) =
        CASE avg < 50  -> Greatest(min_fps, five)
          [] avg \in 50..99 -> Greatest(min_fps, some)
          [] avg \in 100..149 -> Greatest(min_fps, fps)
          [] avg \in 150..199 -> Greatest(min_fps, devide_fps)
          [] avg \in 200..299 -> Least(min_fps, devide_fps)
          [] avg \in 300..599 -> ratio
          [] OTHER -> Least(ratio, devide_fps)
  BY DEF NextFps
<1> HIDE DEF five, some, ratio, devide_fps
<1> QED BY <1>2, <1>5, <1>6, <1>7

(* What an answer leaves in the user is in its limits. *)
LEMMA MeasuredOK ==
    ASSUME fps \in Nat, NEW added, UserOK(added), NEW old_avg \in Int,
           NEW avg \in Nat, avg >= 10, NEW min_fps \in {8, 10, 12},
           NEW highest \in MIN_FPS..MAX_FPS
    PROVE  UserOK(Measured(added, old_avg, avg, min_fps, highest))
<1> DEFINE quick == added.quick_increase_fps_count + 1
           steady == IF avg < DELAY_THRESHOLD_150MS THEN added.increase_fps_count + 1 ELSE 0
           next == NextFps(avg, old_avg, quick >= 3, min_fps)
                     + (IF steady >= 3 THEN 1 ELSE 0)
           rate == Clamp(next, MIN_FPS, highest)
           quick1 == IF avg < 50 THEN (IF quick >= 3 THEN 0 ELSE quick)
                     ELSE IF avg > 50 THEN 0 ELSE added.quick_increase_fps_count
           steady1 == IF steady >= 3 THEN 0 ELSE steady
<1>1. added \in UserType
      /\ added.quick_increase_fps_count \in 0..2 /\ added.increase_fps_count \in 0..2
  BY DEF UserOK, UserType
<1>2. quick \in 1..3 /\ steady \in 0..3
  BY <1>1
<1>3. quick1 \in 0..2 /\ steady1 \in 0..2
  <2> HIDE DEF quick, steady
  <2> QED BY <1>1, <1>2
<1>4. next \in Int
  <2>1. NextFps(avg, old_avg, quick >= 3, min_fps) \in Int
    <3>1. (quick >= 3) \in BOOLEAN
      OBVIOUS
    <3> HIDE DEF quick
    <3> QED BY <3>1, NextIsInt
  <2>2. (IF steady >= 3 THEN 1 ELSE 0) \in {0, 1}
    OBVIOUS
  <2> HIDE DEF quick, steady
  <2> QED BY <2>1, <2>2
<1>5. rate \in 0..MAX_FPS
  <2> HIDE DEF next
  <2> QED BY <1>4 DEF Clamp, MIN_FPS, MAX_FPS
<1>6. Measured(added, old_avg, avg, min_fps, highest) =
        [added EXCEPT !.fps = rate, !.quick_increase_fps_count = quick1,
                      !.increase_fps_count = steady1]
  BY DEF Measured
<1> HIDE DEF rate, quick1, steady1
<1> QED BY <1>1, <1>3, <1>5, <1>6 DEF UserOK, UserType

-----------------------------------------------------------------------------
(* The type invariant without the users. *)
RestType ==
    /\ fps \in MIN_FPS..MAX_FPS /\ young \in BOOLEAN
    /\ test \in [Users -> {"none", "sent", "slow", "late"}]
    /\ bad \in 0..MaxBad /\ changes \in 0..MaxChanges

UsersOK(us) == DOMAIN us \subseteq Users /\ \A u \in DOMAIN us : UserOK(us[u])

LEMMA TypeParts == TypeOK <=> UsersOK(users) /\ RestType
BY DEF TypeOK, UsersOK, RestType

LEMMA TypePartsNext ==
    ASSUME UsersOK(users'), RestType'
    PROVE  TypeOK'
BY DEF TypeOK, UsersOK, RestType

LEMMA NewUserOK == UserOK(NewUser) /\ NewUser.response_delayed = FALSE
<1>1. <<>> \in Seq(Nat) /\ Len(<<>>) = 0
  OBVIOUS
<1> QED BY <1>1, SamplesAssumption
        DEF UserOK, UserType, NewUser, HISTORY_DELAY_LEN, MAX_FPS

(* A change of one user that leaves it OK leaves all of them OK. *)
LEMMA OneChanged ==
    ASSUME UsersOK(users), NEW u \in DOMAIN users, NEW user, UserOK(user)
    PROVE  /\ UsersOK([users EXCEPT ![u] = user])
           /\ DOMAIN [users EXCEPT ![u] = user] = DOMAIN users
           /\ [users EXCEPT ![u] = user][u] = user
           /\ \A v \in DOMAIN users : v # u => [users EXCEPT ![u] = user][v] = users[v]
BY DEF UsersOK

LEMMA InitInv == Init => IInv
<1> SUFFICES ASSUME Init
             PROVE  IInv
  OBVIOUS
<1>1. DOMAIN users = {}
  BY DEF Init
<1>2. UsersOK(users)
  BY <1>1 DEF UsersOK
<1>3. fps \in MIN_FPS..MAX_FPS
  BY DEF Init, FPS, MIN_FPS, MAX_FPS
<1>4. young \in BOOLEAN /\ test \in [Users -> {"none", "sent", "slow", "late"}]
  BY DEF Init
<1>5. bad \in 0..MaxBad /\ changes \in 0..MaxChanges
  BY BoundsAssumption DEF Init
<1>6. DelayedCaps
  BY <1>1 DEF DelayedCaps, SomeDelayed
<1> QED BY <1>2, <1>3, <1>4, <1>5, <1>6, TypeParts DEF IInv, RestType

LEMMA OpenInv ==
    ASSUME IInv, NEW u \in Users, Open(u)
    PROVE  IInv'
<1>1. UsersOK(users) /\ RestType
  BY TypeParts DEF IInv
<1>2. users' = [v \in DOMAIN users \cup {u} |-> IF v = u THEN NewUser ELSE users[v]]
  BY DEF Open
<1>3. UsersOK(users')
  BY <1>1, <1>2, NewUserOK DEF UsersOK
<1>4. RestType'
  <2>1. changes' \in 0..MaxChanges
    BY <1>1, BoundsAssumption DEF Open, RestType
  <2>2. test' \in [Users -> {"none", "sent", "slow", "late"}]
    BY <1>1 DEF Open, RestType
  <2>3. young' = TRUE /\ fps' = fps /\ bad' = bad
    BY DEF Open
  <2> QED BY <1>1, <2>1, <2>2, <2>3 DEF RestType
<1>5. SomeDelayed(users') => SomeDelayed(users)
  BY <1>2, NewUserOK DEF SomeDelayed
<1>6. fps' = fps
  BY DEF Open
<1>7. DelayedCaps'
  BY <1>5, <1>6 DEF IInv, DelayedCaps
<1> QED BY <1>3, <1>4, <1>7, TypePartsNext DEF IInv

LEMMA CloseInv ==
    ASSUME IInv, NEW u \in Users, Close(u)
    PROVE  IInv'
<1>1. UsersOK(users) /\ RestType
  BY TypeParts DEF IInv
<1>2. users' = [v \in DOMAIN users \ {u} |-> users[v]]
  BY DEF Close
<1>3. UsersOK(users')
  BY <1>1, <1>2 DEF UsersOK
<1>4. fps' \in {fps, FPS} /\ young' \in {young, TRUE}
  BY DEF Close
<1>5. fps' \in MIN_FPS..MAX_FPS
  BY <1>1, <1>4 DEF RestType, FPS, MIN_FPS, MAX_FPS
<1>6. RestType'
  <2>1. test' \in [Users -> {"none", "sent", "slow", "late"}] /\ bad' = bad /\ changes' = changes
    BY <1>1 DEF Close, RestType
  <2>2. young' \in BOOLEAN
    BY <1>1, <1>4 DEF RestType
  <2> QED BY <1>1, <1>5, <2>1, <2>2 DEF RestType
<1>7. SomeDelayed(users') => SomeDelayed(users) /\ fps' = fps
  <2>1. SomeDelayed(users') => SomeDelayed(users)
    BY <1>2 DEF SomeDelayed
  <2>2. SomeDelayed(users') => DOMAIN users # {u}
    BY <1>2 DEF SomeDelayed
  <2> QED BY <2>1, <2>2 DEF Close
<1>8. DelayedCaps'
  BY <1>7 DEF IInv, DelayedCaps
<1> QED BY <1>3, <1>6, <1>8, TypePartsNext DEF IInv

LEMMA AgeInv ==
    ASSUME IInv, Age
    PROVE  IInv'
<1>1. UsersOK(users) /\ RestType
  BY TypeParts DEF IInv
<1>2. users' = users /\ fps' = fps /\ young' = FALSE
  BY DEF Age
<1>3. RestType'
  BY <1>1 DEF Age, RestType
<1>4. DelayedCaps'
  BY <1>2 DEF IInv, DelayedCaps
<1>5. UsersOK(users')
  BY <1>1, <1>2
<1> QED BY <1>3, <1>4, <1>5, TypePartsNext DEF IInv

LEMMA SecondInv ==
    ASSUME IInv, Second
    PROVE  IInv'
<1>1. UsersOK(users) /\ RestType
  BY TypeParts DEF IInv
<1>2. fps' = AdjustFps(users) /\ users' = users
  BY DEF Second
<1>3. fps' \in MIN_FPS..MAX_FPS /\ (SomeDelayed(users') => fps' <= MIN_FPS + 1)
  BY <1>1, <1>2, AdjustedIsRate DEF UsersOK
<1>4. RestType'
  BY <1>1, <1>3 DEF Second, RestType
<1>5. DelayedCaps'
  BY <1>3 DEF DelayedCaps
<1> QED BY <1>1, <1>2, <1>4, <1>5, TypePartsNext DEF IInv

(* An option of a user whose lateness stays as it is. *)
LEMMA SetOptionInv ==
    ASSUME IInv, NEW u \in Users, NEW option, SetOption(u, option),
           UserOK(option), option.response_delayed = users[u].response_delayed
    PROVE  IInv'
<1>1. UsersOK(users) /\ RestType /\ u \in DOMAIN users
  BY TypeParts DEF IInv, SetOption
<1>2. users' = [users EXCEPT ![u] = option] /\ fps' = fps
  BY DEF SetOption
<1>3. UsersOK(users')
  BY <1>1, <1>2, OneChanged
<1>4. RestType'
  <2>1. changes' \in 0..MaxChanges
    BY <1>1, BoundsAssumption DEF SetOption, RestType
  <2> QED BY <1>1, <2>1 DEF SetOption, RestType
<1>5. SomeDelayed(users') => SomeDelayed(users)
  BY <1>1, <1>2, OneChanged DEF SomeDelayed
<1>6. DelayedCaps'
  BY <1>2, <1>5 DEF IInv, DelayedCaps
<1> QED BY <1>3, <1>4, <1>6, TypePartsNext DEF IInv

LEMMA OptionsInv ==
    ASSUME IInv, NEW u \in Users,
           \/ \E n \in FpsOptions : CustomFps(u, n) \/ AutoAdjustFps(u, n)
           \/ \E q \in Qualities : ImageQuality(u, q)
    PROVE  IInv'
<1>1. UsersOK(users) /\ RestType
  BY TypeParts DEF IInv
<1>2. u \in DOMAIN users
  BY DEF CustomFps, AutoAdjustFps, ImageQuality, SetOption
<1>3. UserOK(users[u]) /\ users[u] \in UserType
  BY <1>1, <1>2 DEF UsersOK, UserOK
<1>4. CASE \E n \in FpsOptions : CustomFps(u, n) \/ AutoAdjustFps(u, n)
  <2>1. PICK n \in FpsOptions : CustomFps(u, n) \/ AutoAdjustFps(u, n)
    BY <1>4
  <2>2. n \in 0..MAX_FPS
    BY OptionsAssumption DEF MIN_FPS, MAX_FPS
  <2>3. CASE CustomFps(u, n)
    <3> DEFINE option == [users[u] EXCEPT !.custom_fps = n]
    <3>1. UserOK(option) /\ option.response_delayed = users[u].response_delayed
      BY <1>3, <2>2 DEF UserOK, UserType
    <3>2. SetOption(u, option)
      BY <2>3 DEF CustomFps
    <3> HIDE DEF option
    <3> QED BY <3>1, <3>2, SetOptionInv
  <2>4. CASE AutoAdjustFps(u, n)
    <3> DEFINE option == [users[u] EXCEPT !.auto_adjust_fps = n]
    <3>1. UserOK(option) /\ option.response_delayed = users[u].response_delayed
      BY <1>3, <2>2 DEF UserOK, UserType
    <3>2. SetOption(u, option)
      BY <2>4 DEF AutoAdjustFps
    <3> HIDE DEF option
    <3> QED BY <3>1, <3>2, SetOptionInv
  <2> QED BY <2>1, <2>3, <2>4
<1>5. CASE \E q \in Qualities : ImageQuality(u, q)
  <2>1. PICK q \in Qualities : ImageQuality(u, q)
    BY <1>5
  <2> DEFINE option == [users[u] EXCEPT !.quality = [time |-> changes + 1, value |-> q]]
  <2>2. changes + 1 \in Nat
    BY <1>1, BoundsAssumption DEF RestType
  <2>3. UserOK(option) /\ option.response_delayed = users[u].response_delayed
    BY <1>3, <2>2 DEF UserOK, UserType
  <2>4. SetOption(u, option)
    BY <2>1 DEF ImageQuality
  <2> HIDE DEF option
  <2> QED BY <2>3, <2>4, SetOptionInv
<1> QED BY <1>4, <1>5

LEMMA TimerTickInv ==
    ASSUME IInv, NEW u \in Users, TimerTick(u)
    PROVE  IInv'
<1>1. UsersOK(users) /\ RestType /\ u \in DOMAIN users
  BY TypeParts DEF IInv, TimerTick
<1> DEFINE late == test'[u] = "late"
           user == ResponseElapsed(users[u], late)
           delayed == [users[u] EXCEPT !.response_delayed = TRUE]
<1>2. UserOK(users[u]) /\ users[u] \in UserType
  BY <1>1 DEF UsersOK, UserOK
<1>3. users' = [users EXCEPT ![u] = user]
  BY DEF TimerTick
<1>4. fps' = IF late THEN AdjustFps(users') ELSE fps
  BY DEF TimerTick
<1>5. UserOK(user)
  <2>1. CASE late
    <3>1. UserOK(delayed)
      BY <1>2 DEF UserOK, UserType
    <3>2. LateDelay \in Nat
      BY DelaysAssumption
    <3>3. UserOK(AddDelay(delayed, LateDelay))
      <4> HIDE DEF delayed
      <4> QED BY <3>1, <3>2, AddDelayTypes
    <3> QED BY <2>1, <3>3 DEF ResponseElapsed
  <2>2. CASE ~ late
    BY <1>2, <2>2 DEF ResponseElapsed, UserOK, UserType
  <2> QED BY <2>1, <2>2
<1>6. ~ late => user.response_delayed = FALSE
  BY <1>2 DEF ResponseElapsed, UserType
<1> HIDE DEF user
<1>7. UsersOK(users')
  BY <1>1, <1>3, <1>5, OneChanged
<1>8. late => fps' \in MIN_FPS..MAX_FPS /\ (SomeDelayed(users') => fps' <= MIN_FPS + 1)
  BY <1>4, <1>7, AdjustedIsRate DEF UsersOK
<1>9. ~ late => fps' = fps /\ (SomeDelayed(users') => SomeDelayed(users))
  BY <1>1, <1>3, <1>4, <1>5, <1>6, OneChanged DEF SomeDelayed
<1>10. RestType'
  <2>1. fps' \in MIN_FPS..MAX_FPS
    BY <1>1, <1>8, <1>9 DEF RestType
  <2>2. test' \in [Users -> {"none", "sent", "slow", "late"}]
    BY <1>1 DEF TimerTick, SendTest, AwaitTest, RestType
  <2>3. bad' \in 0..MaxBad
    BY <1>1, BoundsAssumption DEF TimerTick, SendTest, AwaitTest, RestType
  <2>4. young' = young /\ changes' = changes
    BY DEF TimerTick
  <2> QED BY <1>1, <2>1, <2>2, <2>3, <2>4 DEF RestType
<1>11. DelayedCaps'
  BY <1>8, <1>9 DEF IInv, DelayedCaps
<1> QED BY <1>7, <1>10, <1>11, TypePartsNext DEF IInv

LEMMA AnswerInv ==
    ASSUME IInv, NEW u \in Users, NEW delay \in Delays, Answer(u, delay)
    PROVE  IInv'
<1>1. UsersOK(users) /\ RestType /\ u \in DOMAIN users
  BY TypeParts DEF IInv, Answer
<1>2. delay \in Nat
  <2>1. delay \in NormalDelays \cup BadDelays \/ delay = SlowDelay \/ delay = LateDelay
    BY DEF Delays
  <2>2. CASE delay \in NormalDelays \cup BadDelays
    <3>1. delay \in 10..999
      BY <2>2, DelaysAssumption
    <3> QED BY <3>1
  <2>3. CASE delay = SlowDelay \/ delay = LateDelay
    <3>1. SlowDelay \in Nat /\ LateDelay \in Nat
      BY DelaysAssumption
    <3> QED BY <2>3, <3>1
  <2> QED BY <2>1, <2>2, <2>3
<1>3. UserOK(users[u])
  BY <1>1 DEF UsersOK
<1> DEFINE added == AddDelay(users[u], delay)
           old_avg == AvgDelay(users[u])
           avg == Greatest(AvgDelay(added), 10)
           min_fps == QualityMinFps(LatestQuality(users))
           highest == HighestFps(users)
           user == Measured(added, old_avg, avg, min_fps, highest)
<1>4. users' = [users EXCEPT ![u] = user]
  BY DEF Answer
<1>5. UserOK(added) /\ old_avg \in Int
  BY <1>2, <1>3, AddDelayTypes, AverageType
<1>6. avg \in Nat /\ avg >= 10
  <2>1. AvgDelay(added) \in Int
    BY <1>5, AverageType
  <2> HIDE DEF added
  <2> QED BY <2>1, Pairs
<1>7. min_fps \in {8, 10, 12}
  BY DEF QualityMinFps
<1>8. highest \in MIN_FPS..MAX_FPS
  BY <1>1, HighestIsRate DEF UsersOK
<1>9. UserOK(user)
  <2>1. fps \in Nat
    BY <1>1 DEF RestType, MIN_FPS, MAX_FPS
  <2> HIDE DEF added, old_avg, avg, min_fps, highest
  <2> QED BY <1>5, <1>6, <1>7, <1>8, <2>1, MeasuredOK
<1> HIDE DEF user
<1>10. UsersOK(users')
  BY <1>1, <1>4, <1>9, OneChanged
<1>11. fps' = AdjustFps(users')
  BY DEF Answer
<1>12. fps' \in MIN_FPS..MAX_FPS /\ (SomeDelayed(users') => fps' <= MIN_FPS + 1)
  BY <1>10, <1>11, AdjustedIsRate DEF UsersOK
<1>13. RestType'
  <2>1. test' \in [Users -> {"none", "sent", "slow", "late"}]
    BY <1>1 DEF Answer, RestType
  <2>2. bad' \in 0..MaxBad
    <3>1. test[u] \in {"none", "sent", "slow", "late"}
      BY <1>1 DEF RestType
    <3>2. test[u] = "sent" => bad' = bad \/ (bad < MaxBad /\ bad' = bad + 1)
      BY DEF Answer
    <3>3. test[u] \in {"slow", "late"} => bad' = bad
      BY DEF Answer
    <3>4. test[u] # "none"
      BY DEF Answer
    <3>5. bad' = bad \/ (bad < MaxBad /\ bad' = bad + 1)
      BY <3>1, <3>2, <3>3, <3>4
    <3> QED BY <1>1, <3>5, BoundsAssumption DEF RestType
  <2>3. young' = young /\ changes' = changes
    BY DEF Answer
  <2> QED BY <1>1, <1>12, <2>1, <2>2, <2>3 DEF RestType
<1>14. DelayedCaps'
  BY <1>12 DEF DelayedCaps
<1> QED BY <1>10, <1>13, <1>14, TypePartsNext DEF IInv

LEMMA NextInv == IInv /\ [Next]_vars => IInv'
<1> SUFFICES ASSUME IInv, [Next]_vars
             PROVE  IInv'
  OBVIOUS
<1>1. CASE \E u \in Users : Open(u) \/ Close(u) \/ TimerTick(u) \/ Answered(u)
  <2>1. PICK u \in Users : Open(u) \/ Close(u) \/ TimerTick(u) \/ Answered(u)
    BY <1>1
  <2>2. CASE Answered(u)
    BY <2>2, AnswerInv DEF Answered
  <2> QED BY <2>1, <2>2, OpenInv, CloseInv, TimerTickInv
<1>2. CASE \/ \E u \in Users, n \in FpsOptions : CustomFps(u, n) \/ AutoAdjustFps(u, n)
           \/ \E u \in Users, q \in Qualities : ImageQuality(u, q)
  BY <1>2, OptionsInv
<1>3. CASE Age
  BY <1>3, AgeInv
<1>4. CASE Second
  BY <1>4, SecondInv
<1>5. CASE UNCHANGED vars
  BY <1>5 DEF vars, IInv, TypeOK, DelayedCaps
<1> QED BY <1>1, <1>2, <1>3, <1>4, <1>5 DEF Next

-----------------------------------------------------------------------------
(* The inductive invariant holds in every reachable state (video_qos.rs). *)
THEOREM Invariance == Spec => []IInv
BY InitInv, NextInv, PTL DEF Spec

(* For any number of connections, delays and options the histories, the     *)
(* windows and the counters of video_qos.rs stay in their limits, and the   *)
(* rate is one that spf can divide by.                                      *)
THEOREM TypeCorrect == Spec => []TypeOK
<1>1. IInv => TypeOK
  BY DEF IInv
<1> QED BY <1>1, Invariance, PTL

(* For any number of connections, a late answer of any of them holds the    *)
(* rate at its minimum, or one above it (adjust_fps).                       *)
THEOREM LateHoldsRate == Spec => []DelayedCaps
<1>1. IInv => DelayedCaps
  BY DEF IInv
<1> QED BY <1>1, Invariance, PTL
=============================================================================
