------------------------- MODULE ResetButtonProofs -------------------------
(***************************************************************************)
(* reset_button_task resets neither too late nor much too early, for every *)
(* threshold, every interval and every way of pressing.                    *)
(***************************************************************************)
EXTENDS ResetButton, Integers, TLAPS

(* While the task polls, it has not counted up to the threshold, and the   *)
(* next poll is an interval away at most.                                  *)
Polling == task = "poll" => hold_time < THRESHOLD /\ timer <= INTERVAL

(* Only one of the two goes on.                                            *)
OneGoesOn == (down => released = 0) /\ (~down => pressed = 0)

(* A press is as old as the polls that found it, and the one to come.      *)
PressIsCounted == task = "poll" => pressed + timer <= (hold_time + 1) * INTERVAL

(* As long as polls are counted, no release has been long enough to be     *)
(* seen, and the last one that was is as old as they are.                  *)
ReleaseIsOld == task = "poll" /\ hold_time > 0 => /\ released + timer <= INTERVAL
                                                  /\ since + timer >= hold_time * INTERVAL

(* The inductive invariant.                                                *)
IInv == TypeOK /\ Polling /\ OneGoesOn /\ PressIsCounted /\ ReleaseIsOld

-----------------------------------------------------------------------------
(* One interval more; and no more of them than the threshold.              *)
LEMMA Distributes == ASSUME NEW h \in Nat, NEW d \in Nat PROVE (h + 1) * d = h * d + d /\ h * d \in Nat
OBVIOUS

LEMMA Monotonic == ASSUME NEW h \in Nat, NEW t \in Nat, NEW d \in Nat, h <= t PROVE h * d <= t * d
OBVIOUS

(* What the history variables count is never more than one moment more.    *)
LEMMA CountedOnce ==
    ASSUME ButtonAssumption, NEW n \in 0..Longest
    PROVE  /\ Longest \in Nat /\ Counted(n) \in 0..Longest
           /\ Counted(n) = n + 1 \/ (Counted(n) = n /\ n = THRESHOLD * INTERVAL + 1)
BY DEF ButtonAssumption, Longest, Counted

(* The numbers of a state, one by one.                                     *)
LEMMA Numbers ==
    ASSUME ButtonAssumption, TypeOK
    PROVE  /\ THRESHOLD \in Nat \ {0} /\ INTERVAL \in Nat \ {0} /\ DELAY \in Nat
           /\ THRESHOLD * INTERVAL \in Nat /\ Longest = THRESHOLD * INTERVAL + 1
           /\ hold_time \in 0..THRESHOLD /\ timer \in 0..(INTERVAL + DELAY)
           /\ pressed \in 0..Longest /\ released \in 0..Longest /\ since \in 0..Longest
           /\ down \in BOOLEAN /\ nvs \in BOOLEAN /\ task \in {"poll", "restart"}
BY DEF ButtonAssumption, TypeOK, Longest

-----------------------------------------------------------------------------
(* The invariant is inductive: one lemma per action.                       *)

(* A boot with the button up.                                              *)
LEMMA InitInv == ASSUME ButtonAssumption PROVE Init => IInv
<1> SUFFICES ASSUME Init PROVE IInv
    OBVIOUS
<1> DEFINE l == THRESHOLD * INTERVAL
<1>1. l \in Nat /\ THRESHOLD \in Nat \ {0} /\ INTERVAL \in Nat \ {0} /\ DELAY \in Nat
    BY DEF ButtonAssumption
<1>2. Longest = l + 1
    BY DEF Longest
<1>3. (hold_time + 1) * INTERVAL = INTERVAL
    BY <1>1 DEF Init
<1> HIDE DEF l
<1>4. TypeOK
  <2>1. 0 \in 0..Longest /\ 0 \in 0..THRESHOLD /\ 0 \in 0..(INTERVAL + DELAY)
      BY <1>1, <1>2
  <2> QED BY <2>1 DEF Init, TypeOK
<1> QED BY <1>1, <1>3, <1>4 DEF Init, IInv, Polling, OneGoesOn, PressIsCounted, ReleaseIsOld

(* A press or a release starts the count of what begins with it.           *)
LEMMA TogglesInv ==
    ASSUME ButtonAssumption, IInv, Toggles
    PROVE  IInv'
<1> DEFINE counted == hold_time * INTERVAL
<1>1. /\ timer \in Nat /\ hold_time \in Nat /\ INTERVAL \in Nat /\ Longest \in Nat
      /\ down \in BOOLEAN
    BY Numbers DEF IInv
<1>2. /\ counted \in Nat /\ (hold_time + 1) * INTERVAL = counted + INTERVAL
    BY <1>1, Distributes
<1>3. /\ down' = ~down /\ pressed' = 0 /\ released' = 0
      /\ UNCHANGED <<task, timer, hold_time, nvs, since>>
    BY DEF Toggles
<1>4. TypeOK'
    BY <1>1, <1>3 DEF IInv, TypeOK, Longest
<1>5. Polling' /\ OneGoesOn'
    BY <1>3 DEF IInv, Polling, OneGoesOn
<1> HIDE DEF counted
<1>6. PressIsCounted'
  <2> SUFFICES ASSUME task = "poll" PROVE 0 + timer <= (hold_time + 1) * INTERVAL
      BY <1>3 DEF PressIsCounted
  <2>1. timer <= INTERVAL
      BY DEF IInv, Polling
  <2> QED BY <1>1, <1>2, <2>1
<1>7. ReleaseIsOld'
    BY <1>1, <1>3 DEF IInv, Polling, ReleaseIsOld
<1> QED BY <1>4, <1>5, <1>6, <1>7 DEF IInv

(* A configuration is stored.                                              *)
LEMMA ConfiguresInv == IInv /\ Configures => IInv'
BY DEF IInv, Configures, TypeOK, Longest, Polling, OneGoesOn, PressIsCounted, ReleaseIsOld

(* A moment passes: the timer has one less, the rest one more.             *)
LEMMA MomentInv ==
    ASSUME ButtonAssumption, IInv, Moment
    PROVE  IInv'
<1> DEFINE l == THRESHOLD * INTERVAL
           counted == hold_time * INTERVAL
<1>1. /\ l \in Nat /\ Longest = l + 1 /\ INTERVAL \in Nat \ {0} /\ DELAY \in Nat /\ THRESHOLD \in Nat
      /\ hold_time \in 0..THRESHOLD /\ timer \in 0..(INTERVAL + DELAY) /\ down \in BOOLEAN
      /\ pressed \in 0..Longest /\ released \in 0..Longest /\ since \in 0..Longest
    BY Numbers DEF IInv
<1>2. /\ counted \in Nat /\ (hold_time + 1) * INTERVAL = counted + INTERVAL /\ counted <= l
    BY <1>1, Distributes, Monotonic
<1>3. /\ timer > 0 /\ timer' = timer - 1 /\ UNCHANGED <<down, task, hold_time, nvs>>
      /\ pressed' = IF down THEN Counted(pressed) ELSE 0
      /\ released' = IF down THEN 0 ELSE Counted(released)
      /\ since' = IF released' > INTERVAL THEN 0 ELSE Counted(since)
    BY DEF Moment
<1>4. /\ Counted(pressed) \in 0..Longest /\ Counted(pressed) <= pressed + 1
      /\ Counted(released) \in 0..Longest /\ Counted(released) <= released + 1
      /\ Counted(since) \in 0..Longest /\ (Counted(since) = since + 1 \/ Counted(since) = l + 1)
    BY <1>1, CountedOnce
<1> HIDE DEF l, counted
<1>5. /\ pressed' \in 0..Longest /\ released' \in 0..Longest /\ since' \in 0..Longest
      /\ pressed' <= pressed + 1 /\ released' <= released + 1
  <2>1. 0 \in 0..Longest /\ 0 <= pressed + 1 /\ 0 <= released + 1
      BY <1>1
  <2>2. /\ pressed' \in 0..Longest /\ released' \in 0..Longest
        /\ pressed' <= pressed + 1 /\ released' <= released + 1
    <3>1. CASE down
      <4>1. pressed' = Counted(pressed) /\ released' = 0
          BY <1>3, <3>1
      <4> QED BY ONLY <1>4, <2>1, <4>1
    <3>2. CASE ~down
      <4>1. pressed' = 0 /\ released' = Counted(released)
          BY <1>3, <3>2
      <4> QED BY ONLY <1>4, <2>1, <4>1
    <3> QED BY <3>1, <3>2
  <2>3. since' \in 0..Longest
      BY <1>1, <1>3, <1>4, <2>1
  <2> QED BY <2>2, <2>3
<1>6. TypeOK'
    BY <1>1, <1>3, <1>5 DEF IInv, TypeOK, Longest
<1>7. Polling' /\ OneGoesOn'
    BY <1>1, <1>3 DEF IInv, Polling, OneGoesOn
<1>8. PressIsCounted'
  <2> SUFFICES ASSUME task = "poll" PROVE pressed' + (timer - 1) <= (hold_time + 1) * INTERVAL
      BY <1>3 DEF PressIsCounted
  <2>1. pressed + timer <= counted + INTERVAL
      BY <1>2 DEF IInv, PressIsCounted
  <2> DEFINE p == pressed'
  <2>2. p \in Int /\ p <= pressed + 1
      BY <1>1, <1>5
  <2> HIDE DEF p
  <2>3. p + (timer - 1) <= counted + INTERVAL
      BY <1>1, <1>2, <2>1, <2>2
  <2> QED BY <1>2, <2>3 DEF p
<1>9. ReleaseIsOld'
  <2> SUFFICES ASSUME task = "poll", hold_time > 0
               PROVE  /\ released' + (timer - 1) <= INTERVAL
                      /\ since' + (timer - 1) >= hold_time * INTERVAL
      BY <1>3 DEF ReleaseIsOld
  <2> DEFINE r == released'
             s == since'
  <2>1. r \in Int /\ r <= released + 1 /\ s \in Int /\ released + timer <= INTERVAL
      BY <1>1, <1>5 DEF IInv, ReleaseIsOld
  <2>2. ~(released' > INTERVAL)
    <3> HIDE DEF r
    <3>1. ~(r > INTERVAL)
        BY <1>1, <1>3, <2>1
    <3> QED BY <3>1 DEF r
  <2>3. s = since + 1 \/ s = l + 1
      BY <1>1, <1>3, <1>4, <2>2
  <2>4. since + timer >= counted
      BY DEF IInv, ReleaseIsOld, counted
  <2> HIDE DEF r, s
  <2>5. r + (timer - 1) <= INTERVAL /\ s + (timer - 1) >= counted
      BY <1>1, <1>2, <1>3, <2>1, <2>3, <2>4
  <2> QED BY <2>5 DEF r, s, counted
<1> QED BY <1>6, <1>7, <1>8, <1>9 DEF IInv

(* A poll that finds the button down, or resets.                           *)
LEMMA FindsDownInv ==
    ASSUME ButtonAssumption, IInv, FindsDown
    PROVE  IInv'
<1> DEFINE h == hold_time + 1
           counted == hold_time * INTERVAL
<1>1. /\ Longest \in Nat /\ INTERVAL \in Nat \ {0} /\ DELAY \in Nat /\ THRESHOLD \in Nat \ {0}
      /\ hold_time \in Nat /\ pressed \in Nat /\ since \in Nat
    BY Numbers DEF IInv
<1>2. /\ task = "poll" /\ timer = 0 /\ down /\ hold_time < THRESHOLD /\ released = 0
      /\ hold_time' = h /\ UNCHANGED <<down, pressed, released, since>>
      /\ pressed + 0 <= h * INTERVAL
      /\ hold_time > 0 => since + 0 >= counted
    BY DEF FindsDown, Due, IInv, Polling, OneGoesOn, PressIsCounted, ReleaseIsOld
<1>3. h \in Nat /\ h <= THRESHOLD /\ h > 0
    BY <1>1, <1>2
<1>4. /\ counted \in Nat /\ h * INTERVAL = counted + INTERVAL
      /\ h * INTERVAL \in Nat /\ (h + 1) * INTERVAL = h * INTERVAL + INTERVAL
    BY <1>1, <1>3, Distributes
<1>5. since + INTERVAL >= h * INTERVAL
  <2>1. CASE hold_time = 0
      BY <1>1, <1>4, <2>1
  <2>2. CASE hold_time > 0
    <3> HIDE DEF counted, h
    <3> QED BY <1>1, <1>2, <1>4, <2>2
  <2> QED BY <1>1, <2>1, <2>2
<1> HIDE DEF h, counted
<1>6. CASE LongEnough
  <2>1. nvs' = FALSE /\ task' = "restart" /\ timer' = DELAY
      BY <1>6 DEF FindsDown
  <2>2. TypeOK'
    <3>1. h \in 0..THRESHOLD /\ DELAY \in 0..(INTERVAL + DELAY)
        BY <1>1, <1>3
    <3> QED BY <1>2, <2>1, <3>1 DEF IInv, TypeOK, Longest
  <2> QED BY <1>2, <2>1, <2>2 DEF IInv, Polling, OneGoesOn, PressIsCounted, ReleaseIsOld
<1>7. CASE ~LongEnough
  <2>1. timer' = INTERVAL /\ UNCHANGED <<nvs, task>>
      BY <1>7 DEF FindsDown
  <2>2. h < THRESHOLD
      BY <1>1, <1>3, <1>7 DEF LongEnough, h
  <2>3. TypeOK'
      BY <1>1, <1>2, <1>3, <2>1 DEF IInv, TypeOK, Longest
  <2>4. Polling' /\ OneGoesOn'
      BY <1>1, <1>2, <2>1, <2>2 DEF IInv, Polling, OneGoesOn
  <2>5. PressIsCounted'
    <3>1. pressed + INTERVAL <= (h + 1) * INTERVAL
        BY <1>1, <1>2, <1>4
    <3> QED BY <1>2, <2>1, <3>1 DEF PressIsCounted
  <2>6. ReleaseIsOld'
    <3>1. 0 + INTERVAL <= INTERVAL
        BY <1>1
    <3> QED BY <1>2, <1>5, <2>1, <3>1 DEF ReleaseIsOld
  <2> QED BY <2>3, <2>4, <2>5, <2>6 DEF IInv
<1> QED BY <1>6, <1>7

(* A poll that finds it up forgets what was counted.                       *)
LEMMA FindsUpInv ==
    ASSUME ButtonAssumption, IInv, FindsUp
    PROVE  IInv'
<1>1. /\ INTERVAL \in Nat \ {0} /\ DELAY \in Nat /\ THRESHOLD \in Nat \ {0}
    BY DEF ButtonAssumption
<1>2. /\ task = "poll" /\ ~down /\ pressed = 0 /\ timer' = INTERVAL /\ hold_time' = 0
      /\ UNCHANGED <<down, task, nvs, pressed, released, since>>
    BY DEF FindsUp, Due, IInv, OneGoesOn
<1>3. TypeOK'
    BY <1>1, <1>2 DEF IInv, TypeOK, Longest
<1>4. (0 + 1) * INTERVAL = INTERVAL
    BY <1>1
<1>5. PressIsCounted'
    BY <1>1, <1>2, <1>4 DEF PressIsCounted
<1> QED BY <1>1, <1>2, <1>3, <1>5 DEF IInv, Polling, OneGoesOn, ReleaseIsOld

(* The next boot counts from zero, with the button as it is.               *)
LEMMA RestartsInv ==
    ASSUME ButtonAssumption, IInv, Restarts
    PROVE  IInv'
<1>1. /\ INTERVAL \in Nat \ {0} /\ DELAY \in Nat /\ THRESHOLD \in Nat \ {0} /\ Longest \in Nat
    BY Numbers DEF IInv
<1>2. /\ timer = 0 /\ task' = "poll" /\ hold_time' = 0 /\ pressed' = 0 /\ released' = 0 /\ since' = 0
      /\ UNCHANGED <<down, timer, nvs>>
    BY DEF Restarts
<1>3. TypeOK'
    BY <1>1, <1>2 DEF IInv, TypeOK, Longest
<1>4. (0 + 1) * INTERVAL = INTERVAL
    BY <1>1
<1> QED BY <1>1, <1>2, <1>3, <1>4 DEF IInv, Polling, OneGoesOn, PressIsCounted, ReleaseIsOld

(* Nothing else happens.                                                   *)
LEMMA NextInv ==
    ASSUME ButtonAssumption, IInv, [Next]_vars
    PROVE  IInv'
<1>1. CASE UNCHANGED vars
    BY <1>1 DEF vars, IInv, TypeOK, Longest, Polling, OneGoesOn, PressIsCounted, ReleaseIsOld
<1>2. CASE Next
    BY <1>2, TogglesInv, ConfiguresInv, MomentInv, FindsDownInv, FindsUpInv, RestartsInv DEF Next
<1> QED BY <1>1, <1>2

(* The invariant holds throughout.                                         *)
LEMMA Invariance ==
    ASSUME ButtonAssumption
    PROVE  Spec => []IInv
<1>1. Init => IInv
    BY InitInv
<1>2. IInv /\ [Next]_vars => IInv'
    BY NextInv
<1> QED BY <1>1, <1>2, PTL DEF Spec

-----------------------------------------------------------------------------
(* The results, for every threshold, interval and delay.                   *)

(* Every variable keeps its type: no count passes its bound.               *)
THEOREM TypeCorrect ==
    ASSUME ButtonAssumption
    PROVE  Spec => []TypeOK
<1>1. IInv => TypeOK
    BY DEF IInv
<1> QED BY <1>1, Invariance, PTL

(* A button that has been down for the threshold without a break resets    *)
(* (27-51): RESET_HOLD_TIME_MS is never exceeded, wherever between two     *)
(* polls the press began.                                                  *)
THEOREM HeldLongEnoughResets ==
    ASSUME ButtonAssumption
    PROVE  Spec => []LongPressResets
<1>1. ASSUME IInv PROVE LongPressResets
  <2> SUFFICES ASSUME task = "poll" PROVE pressed <= THRESHOLD * INTERVAL
    <3>1. task \in {"poll", "restart"} /\ pressed \in Nat /\ THRESHOLD * INTERVAL \in Nat
        BY <1>1, Numbers DEF IInv
    <3> QED BY <3>1 DEF LongPressResets
  <2> DEFINE h == hold_time + 1
             counted == h * INTERVAL
             l == THRESHOLD * INTERVAL
  <2>1. /\ THRESHOLD \in Nat /\ INTERVAL \in Nat /\ l \in Nat /\ hold_time \in Nat
        /\ pressed \in Nat /\ timer \in Nat /\ hold_time < THRESHOLD
      BY <1>1, Numbers DEF IInv, Polling
  <2>2. h \in Nat /\ h <= THRESHOLD
      BY <2>1
  <2>3. counted <= l /\ counted \in Nat
    <3> HIDE DEF h
    <3> QED BY <2>1, <2>2, Distributes, Monotonic
  <2>4. pressed + timer <= counted
      BY <1>1 DEF IInv, PressIsCounted
  <2> HIDE DEF counted, l
  <2>5. pressed <= l
      BY <2>1, <2>3, <2>4
  <2> QED BY <2>5 DEF l
<1> QED BY <1>1, Invariance, PTL

(* A reset comes at least an interval less than the threshold after the    *)
(* last release that is longer than an interval (29-57): nobody who lets   *)
(* go in time, for long enough to be seen, loses the configuration.        *)
THEOREM NotTooEarly ==
    ASSUME ButtonAssumption
    PROVE  Spec => NoEarlyReset
<1> DEFINE Early == task' = "restart" /\ task = "poll" => since >= (THRESHOLD - 1) * INTERVAL
<1>1. ASSUME IInv, Next PROVE Early
  <2> SUFFICES ASSUME task' = "restart", task = "poll" PROVE since >= (THRESHOLD - 1) * INTERVAL
      OBVIOUS
  <2>1. FindsDown /\ LongEnough
      BY <1>1 DEF Next, Toggles, Configures, Moment, FindsDown, FindsUp, Restarts
  <2>2. /\ THRESHOLD \in Nat \ {0} /\ INTERVAL \in Nat /\ hold_time \in Nat /\ since \in Nat
        /\ hold_time < THRESHOLD /\ timer = 0
      BY <1>1, <2>1, Numbers DEF IInv, Polling, FindsDown, Due
  <2>3. hold_time = THRESHOLD - 1
      BY <2>1, <2>2 DEF LongEnough
  <2>4. CASE hold_time = 0
      BY <2>2, <2>3, <2>4
  <2>5. CASE hold_time > 0
    <3> DEFINE counted == hold_time * INTERVAL
    <3>1. counted \in Nat
        BY <2>2, Distributes
    <3>2. since + 0 >= counted
        BY <1>1, <2>2, <2>5 DEF IInv, ReleaseIsOld
    <3> HIDE DEF counted
    <3>3. since >= counted
        BY <2>2, <3>1, <3>2
    <3> QED BY <2>3, <3>3 DEF counted
  <2> QED BY <2>2, <2>4, <2>5
<1>2. IInv /\ [Next]_vars => [Early]_vars
    BY <1>1
<1> QED BY <1>2, Invariance, PTL DEF Spec, NoEarlyReset
=============================================================================
