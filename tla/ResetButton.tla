---------------------------- MODULE ResetButton ----------------------------
(***************************************************************************)
(* reset_button_task (peripherals.c) in time: it samples the button once   *)
(* per interval, so that presses and releases in between are not seen.     *)
(* WifiProv has the same task among the others, without time.  A moment is *)
(* a part of an interval.                                                  *)
(***************************************************************************)
EXTENDS Naturals

CONSTANTS THRESHOLD,  \* RESET_HOLD_TIME_MS in intervals
          INTERVAL,   \* check_interval in moments
          DELAY       \* the delay before esp_restart in moments
ButtonAssumption == THRESHOLD \in Nat \ {0} /\ INTERVAL \in Nat \ {0} /\ DELAY \in Nat

VARIABLES down, \* GPIO 0 is low
          task, timer, hold_time, \* "poll" or "restart"; moments of its vTaskDelay left; in intervals
          nvs,  \* a configuration is stored
          pressed, released, \* history: moments the button has been down, up without a break
          since \* history: moments since the end of the last release nobody could miss
vars == <<down, task, timer, hold_time, nvs, pressed, released, since>>

Init == /\ down = FALSE /\ task = "poll" /\ timer = 0 /\ hold_time = 0 /\ nvs = FALSE
        /\ pressed = 0 /\ released = 0 /\ since = 0
-----------------------------------------------------------------------------
\* The user, and the contacts, at any moment.
Toggles == down' = ~down /\ pressed' = 0 /\ released' = 0 /\ UNCHANGED <<task, timer, hold_time, nvs, since>>
Configures == nvs' = TRUE /\ UNCHANGED <<down, task, timer, hold_time, pressed, released, since>>
Longest == THRESHOLD * INTERVAL + 1
Counted(n) == IF n < Longest THEN n + 1 ELSE n
Moment == /\ timer > 0 /\ timer' = timer - 1
          /\ pressed' = (IF down THEN Counted(pressed) ELSE 0)
          /\ released' = (IF down THEN 0 ELSE Counted(released))
          /\ since' = (IF released' > INTERVAL THEN 0 ELSE Counted(since))
          /\ UNCHANGED <<down, task, hold_time, nvs>>

\* A turn of the loop.
Due == task = "poll" /\ timer = 0
\* The one below with > for >= (a mutant).
LongEnoughLater == hold_time + 1 > THRESHOLD
LongEnough == hold_time + 1 >= THRESHOLD
FindsDown == /\ Due /\ down
             /\ hold_time' = hold_time + 1
             /\ IF LongEnough THEN nvs' = FALSE /\ task' = "restart" /\ timer' = DELAY
                ELSE timer' = INTERVAL /\ UNCHANGED <<nvs, task>>
             /\ UNCHANGED <<down, pressed, released, since>>
FindsUp == Due /\ ~down /\ timer' = INTERVAL /\ hold_time' = 0 /\ UNCHANGED <<down, task, nvs, pressed, released, since>>
\* esp_restart, and the task of the next boot.
Restarts == /\ task = "restart" /\ timer = 0 /\ task' = "poll" /\ hold_time' = 0
            /\ pressed' = 0 /\ released' = 0 /\ since' = 0 /\ UNCHANGED <<down, timer, nvs>>
Next == Toggles \/ Configures \/ Moment \/ FindsDown \/ FindsUp \/ Restarts
Spec == Init /\ [][Next]_vars
-----------------------------------------------------------------------------
TypeOK == /\ {down, nvs} \subseteq BOOLEAN /\ task \in {"poll", "restart"} /\ hold_time \in 0..THRESHOLD
          /\ timer \in 0..(INTERVAL + DELAY) /\ {pressed, released, since} \subseteq 0..Longest
\* A button that is down for the threshold without a break resets, wherever in
\* an interval the press began (27-51).
LongPressResets == pressed > THRESHOLD * INTERVAL => task = "restart"
\* A reset comes one interval less than the threshold after the last release
\* that is longer than an interval, at the least: 2.9 s, not 3, for the first
\* poll counts as an interval; shorter releases are not seen (29-57).
NoEarlyReset == [][task' = "restart" /\ task = "poll" => since >= (THRESHOLD - 1) * INTERVAL]_vars
=============================================================================
