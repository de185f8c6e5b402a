---------------------------- MODULE WifiProvProofs ----------------------------
(***************************************************************************)
(* The invariants of WifiProv for every set of configurations, every retry *)
(* limit and every number of forms posted and of power cuts.               *)
(***************************************************************************)
EXTENDS WifiProv, SequenceTheorems, TLAPS

(* The parts of the inductive invariant that are not properties of         *)
(* themselves.  Before app_main nothing of the program is under way; the   *)
(* web server means AP+STA mode.                                           *)
OffIsClean == mode = "off" => /\ sta = Idle /\ events = <<>> /\ handler = "idle"
                              /\ post = "idle" /\ button = "poll" /\ ram = Unset
                              /\ s_retry_num = 0 /\ calls = 0

ServerMeansAp == server => mode = "APSTA"

PollsBelowHold == button = "poll" => hold_time < HoldPolls

(* A station that is down has the news of it last in the queue, unless it  *)
(* was told already: a stale GOT_IP is never the last word.                *)
DownIsAnnounced ==
    sta.st = "idle" /\ events # <<>> => events[Len(events)] = "DISCONNECTED"

(* Every retry counted is a call made, or the one the backoff leads to;    *)
(* only a form between its set_config and its reset has the old count.     *)
RetriesAreCalls ==
    post # "reset" => /\ s_retry_num <= calls + 1
                      /\ handler # "backoff" => s_retry_num <= calls

IInv == /\ TypeOK
        /\ OffIsClean
        /\ ServerMeansAp
        /\ PollsBelowHold
        /\ ResetForgetsInSta
        /\ DownIsAnnounced
        /\ RetryChainUnbroken
        /\ RetriesAreCalls
-----------------------------------------------------------------------------
(* Appending an event leaves a queue that ends with it; handling one that  *)
(* is not the last leaves a queue with the same end.                       *)
LEMMA QueueEnds ==
    ASSUME NEW e \in {"GOT_IP", "DISCONNECTED"},
           events \in Seq({"GOT_IP", "DISCONNECTED"})
    PROVE  /\ Append(events, e) \in Seq({"GOT_IP", "DISCONNECTED"})
           /\ Append(events, e) # <<>>
           /\ Append(events, e)[Len(Append(events, e))] = e
           /\ events # <<>> =>
                  /\ Tail(events) \in Seq({"GOT_IP", "DISCONNECTED"})
                  /\ Tail(events) = <<>> => events[Len(events)] = Head(events)
                  /\ Tail(events) # <<>> =>
                         Tail(events)[Len(Tail(events))] = events[Len(events)]
  <1> DEFINE E == {"GOT_IP", "DISCONNECTED"}
  <1>1. /\ Append(events, e) \in Seq(E)
        /\ Append(events, e) # <<>>
        /\ Append(events, e)[Len(Append(events, e))] = e
    BY AppendProperties, LenProperties
  <1>2. ASSUME events # <<>>
        PROVE  /\ Tail(events) \in Seq(E)
               /\ Tail(events) = <<>> => events[Len(events)] = Head(events)
               /\ Tail(events) # <<>> =>
                      Tail(events)[Len(Tail(events))] = events[Len(events)]
    <2>1. /\ Tail(events) \in Seq(E)
          /\ Len(Tail(events)) = Len(events) - 1
          /\ \A k \in 1..Len(Tail(events)) : Tail(events)[k] = events[k + 1]
      BY <1>2, HeadTailProperties
    <2>2. Len(events) \in Nat /\ Len(Tail(events)) \in Nat
      BY <2>1, LenProperties
    <2>3. ASSUME Tail(events) # <<>> PROVE Len(Tail(events)) \in 1..Len(Tail(events))
      BY <2>1, <2>2, <2>3, EmptySeq
    <2>4. Tail(events) = <<>> => Len(events) = 1
      BY <2>1, <2>2, EmptySeq
    <2>5. Tail(events) # <<>> => Tail(events)[Len(Tail(events))] = events[Len(events)]
      BY <2>1, <2>2, <2>3
    <2> QED BY <2>1, <2>4, <2>5
  <1> QED BY <1>1, <1>2

(* The counts the code is built with, and the empty queue.                 *)
LEMMA Counts ==
    /\ MAX_RETRY \in Nat /\ MAX_RETRY > 0
    /\ HoldPolls \in Nat /\ HoldPolls > 0
    /\ MaxPosts \in Nat /\ MaxCuts \in Nat
    /\ <<>> \in Seq({"GOT_IP", "DISCONNECTED"})
  BY CountAssumption, EmptySeq

(* The power comes on with nothing under way.                              *)
LEMMA InitInv == Init => IInv
  <1> SUFFICES ASSUME Init PROVE IInv
    OBVIOUS
  <1> USE DEF Init, Idle
  <1>1. TypeOK
    <2>1. events \in Seq({"GOT_IP", "DISCONNECTED"})
      BY Counts
    <2>2. /\ server \in BOOLEAN /\ router \in BOOLEAN
          /\ sta \in [st : {"idle", "trying", "up"}, on : Configs \cup {Unset}]
      OBVIOUS
    <2> QED BY <2>1, <2>2, Counts DEF TypeOK
  <1>2. OffIsClean /\ ServerMeansAp /\ ResetForgetsInSta /\ RetryChainUnbroken
    BY DEF OffIsClean, ServerMeansAp, ResetForgetsInSta, RetryChainUnbroken
  <1>3. PollsBelowHold /\ DownIsAnnounced /\ RetriesAreCalls
    BY Counts DEF PollsBelowHold, DownIsAnnounced, RetriesAreCalls
  <1> QED BY <1>1, <1>2, <1>3 DEF IInv

(* A restart, for whichever of its reasons, leaves the clean state.        *)
LEMMA RestartedInv ==
    ASSUME IInv, Restarted, UNCHANGED <<nvs, router>>,
           posts' \in 0..MaxPosts, cuts' \in 0..MaxCuts
    PROVE  IInv'
  <1> USE DEF Restarted, Idle
  <1>1. TypeOK'
    <2>1. events' \in Seq({"GOT_IP", "DISCONNECTED"})
      BY Counts
    <2>2. server' \in BOOLEAN /\ sta' \in [st : {"idle", "trying", "up"}, on : Configs \cup {Unset}]
      OBVIOUS
    <2>3. router' \in BOOLEAN
      BY DEF IInv, TypeOK
    <2> QED BY <2>1, <2>2, <2>3, Counts DEF IInv, TypeOK
  <1>2. OffIsClean' /\ ServerMeansAp' /\ ResetForgetsInSta'
    BY DEF OffIsClean, ServerMeansAp, ResetForgetsInSta
  <1>3. PollsBelowHold' /\ DownIsAnnounced' /\ RetryChainUnbroken' /\ RetriesAreCalls'
    BY Counts DEF PollsBelowHold, DownIsAnnounced, RetryChainUnbroken, RetriesAreCalls
  <1> QED BY <1>1, <1>2, <1>3 DEF IInv
-----------------------------------------------------------------------------
(* The end of an attempt, either way, is announced.                        *)
LEMMA AttemptEndsInv ==
    ASSUME IInv, AttemptEnds
    PROVE  IInv'
  <1>1. PICK e \in {"GOT_IP", "DISCONNECTED"} :
            /\ events' = Append(events, e)
            /\ sta' = IF e = "GOT_IP" THEN [sta EXCEPT !.st = "up"] ELSE Idle
    BY DEF AttemptEnds
  <1>2. /\ UNCHANGED <<mode, server, flash, ram, calls, handler, s_retry_num, post, buttonVars>>
        /\ sta.st = "trying"
    BY DEF AttemptEnds
  <1>3. /\ events' \in Seq({"GOT_IP", "DISCONNECTED"}) /\ events' # <<>>
        /\ events'[Len(events')] = e
    BY <1>1, QueueEnds DEF IInv, TypeOK
  <1>4. TypeOK'
    BY <1>1, <1>2, <1>3 DEF IInv, TypeOK, flash, buttonVars, Idle
  <1>5. mode # "off"
    BY <1>2 DEF IInv, OffIsClean, Idle
  <1>6. DownIsAnnounced'
    BY <1>1, <1>3 DEF IInv, TypeOK, DownIsAnnounced, Idle
  <1>7. OffIsClean' /\ RetryChainUnbroken'
    BY <1>2, <1>3, <1>5 DEF OffIsClean, RetryChainUnbroken, Quiet
  <1> QED
    BY <1>2, <1>4, <1>6, <1>7
    DEF IInv, ServerMeansAp, PollsBelowHold, ResetForgetsInSta, RetriesAreCalls, flash, buttonVars

(* So is a lost link.                                                      *)
LEMMA LinkLostInv ==
    ASSUME IInv, LinkLost
    PROVE  IInv'
  <1>1. /\ events' = Append(events, "DISCONNECTED") /\ sta' = Idle
        /\ UNCHANGED <<mode, server, flash, ram, calls, handler, s_retry_num, post, buttonVars>>
        /\ sta.st = "up"
    BY DEF LinkLost
  <1>2. /\ events' \in Seq({"GOT_IP", "DISCONNECTED"}) /\ events' # <<>>
        /\ events'[Len(events')] = "DISCONNECTED"
    BY <1>1, QueueEnds DEF IInv, TypeOK
  <1>3. TypeOK'
    BY <1>1, <1>2 DEF IInv, TypeOK, flash, buttonVars, Idle
  <1>4. mode # "off"
    BY <1>1 DEF IInv, OffIsClean, Idle
  <1>5. OffIsClean' /\ DownIsAnnounced' /\ RetryChainUnbroken'
    BY <1>1, <1>2, <1>4 DEF OffIsClean, DownIsAnnounced, RetryChainUnbroken, Quiet
  <1> QED
    BY <1>1, <1>3, <1>5
    DEF IInv, ServerMeansAp, PollsBelowHold, ResetForgetsInSta, RetriesAreCalls, flash, buttonVars

(* The router going or coming is not noticed by the program.               *)
LEMMA RouterChangesInv ==
    ASSUME IInv, RouterChanges
    PROVE  IInv'
  <1> USE DEF RouterChanges, driver, loopVars, buttonVars
  <1>1. TypeOK'
    BY DEF IInv, TypeOK
  <1> QED
    BY <1>1
    DEF IInv, OffIsClean, ServerMeansAp, PollsBelowHold, ResetForgetsInSta,
        DownIsAnnounced, RetryChainUnbroken, RetriesAreCalls, Quiet

(* The first attempt of a provisioned device is under way before anything  *)
(* could count as given up.                                                *)
LEMMA BootInv ==
    ASSUME IInv, Boot
    PROVE  IInv'
  <1> USE DEF Boot, InitNvs, Attempt, Called, loopVars, buttonVars, Idle
  <1>1. /\ mode = "off" /\ sta = Idle /\ events = <<>> /\ post = "idle" /\ button = "poll"
        /\ s_retry_num = 0 /\ calls = 0 /\ handler = "idle"
    BY DEF IInv, OffIsClean
  <1>2. nvs' \in Configs \cup {Unset} /\ ram' = nvs' /\ mode' # "off"
    BY DEF IInv, TypeOK
  <1>3. TypeOK'
    BY <1>1, <1>2, Counts DEF IInv, TypeOK
  <1>4. OffIsClean' /\ ServerMeansAp'
    BY <1>1, <1>2 DEF IInv, OffIsClean, ServerMeansAp
  <1>5. ResetForgetsInSta' /\ PollsBelowHold' /\ DownIsAnnounced'
    BY <1>1 DEF IInv, ResetForgetsInSta, PollsBelowHold, DownIsAnnounced
  <1>6. RetryChainUnbroken'
    BY <1>1 DEF RetryChainUnbroken, Quiet
  <1>7. RetriesAreCalls'
    <2>1. calls' = 0 \/ calls' = 0 + 1
      BY <1>1
    <2> QED BY <1>1, <2>1 DEF RetriesAreCalls
  <1> QED BY <1>3, <1>4, <1>5, <1>6, <1>7 DEF IInv
-----------------------------------------------------------------------------
(* A GOT_IP that a DISCONNECTED has overtaken is not the last event, so    *)
(* something is still under way when its handler has cleared the counter.  *)
LEMMA HandleGotIpInv ==
    ASSUME IInv, HandleGotIp
    PROVE  IInv'
  <1>1. /\ events # <<>> /\ Head(events) = "GOT_IP" /\ events' = Tail(events)
        /\ s_retry_num' = 0 /\ handler' \in {"idle", "restart"}
        /\ UNCHANGED <<mode, server, flash, driver, post, buttonVars>>
    BY DEF HandleGotIp
  <1>2. TypeOK'
    <2>1. events' \in Seq({"GOT_IP", "DISCONNECTED"})
      BY <1>1, QueueEnds DEF IInv, TypeOK
    <2> QED BY <1>1, <2>1, Counts DEF IInv, TypeOK, flash, driver, buttonVars
  <1>3. mode # "off"
    BY <1>1 DEF IInv, OffIsClean
  <1>4. DownIsAnnounced' /\ RetryChainUnbroken'
    <2>1. sta'.st = "idle" => events' # <<>> /\ events'[Len(events')] = "DISCONNECTED"
      BY <1>1, QueueEnds DEF IInv, TypeOK, DownIsAnnounced, driver
    <2> QED BY <2>1 DEF DownIsAnnounced, RetryChainUnbroken, Quiet
  <1>5. RetriesAreCalls'
    <2>1. calls \in Nat /\ calls' = calls
      BY <1>1, Counts DEF IInv, TypeOK, driver
    <2> QED BY <1>1, <2>1 DEF RetriesAreCalls
  <1>6. OffIsClean' /\ ServerMeansAp' /\ PollsBelowHold' /\ ResetForgetsInSta'
    BY <1>1, <1>3
    DEF IInv, OffIsClean, ServerMeansAp, PollsBelowHold, ResetForgetsInSta, flash, buttonVars
  <1> QED BY <1>2, <1>4, <1>5, <1>6 DEF IInv

(* A DISCONNECTED leads to the backoff, or finds the counter at its limit. *)
LEMMA HandleDisconnectedInv ==
    ASSUME IInv, HandleDisconnected
    PROVE  IInv'
  <1>1. /\ events # <<>> /\ events' = Tail(events) /\ handler = "idle"
        /\ \/ /\ s_retry_num < MAX_RETRY /\ s_retry_num' = s_retry_num + 1
              /\ handler' = "backoff"
           \/ s_retry_num >= MAX_RETRY /\ UNCHANGED <<s_retry_num, handler>>
        /\ UNCHANGED <<mode, server, flash, driver, post, buttonVars>>
    BY DEF HandleDisconnected
  <1>2. s_retry_num \in 0..MAX_RETRY /\ calls \in 0..MAX_RETRY
    BY DEF IInv, TypeOK
  <1>3. TypeOK'
    <2>1. events' \in Seq({"GOT_IP", "DISCONNECTED"})
      BY <1>1, QueueEnds DEF IInv, TypeOK
    <2>2. s_retry_num' \in 0..MAX_RETRY
      BY <1>1, <1>2, Counts
    <2> QED BY <1>1, <2>1, <2>2 DEF IInv, TypeOK, flash, driver, buttonVars
  <1>4. mode # "off"
    BY <1>1 DEF IInv, OffIsClean
  <1>5. DownIsAnnounced'
    BY <1>1, QueueEnds DEF IInv, TypeOK, DownIsAnnounced, driver
  <1>6. RetryChainUnbroken'
    BY <1>1, <1>2, Counts DEF RetryChainUnbroken, Quiet
  <1>7. RetriesAreCalls'
    BY <1>1, <1>2 DEF IInv, RetriesAreCalls, driver
  <1>8. OffIsClean' /\ ServerMeansAp' /\ PollsBelowHold' /\ ResetForgetsInSta'
    BY <1>1, <1>4
    DEF IInv, OffIsClean, ServerMeansAp, PollsBelowHold, ResetForgetsInSta, flash, buttonVars
  <1> QED BY <1>3, <1>5, <1>6, <1>7, <1>8 DEF IInv

(* esp_wifi_connect always leaves an attempt, or a connection, behind.     *)
LEMMA ConnectLeavesAttempt ==
    ASSUME IInv, esp_wifi_connect
    PROVE  /\ sta' \in [st : {"trying", "up"}, on : Configs \cup {Unset}]
           /\ calls' \in 0..MAX_RETRY
           /\ calls' = calls + 1 \/ (calls' = MAX_RETRY /\ calls = MAX_RETRY)
  <1>1. sta' \in [st : {"trying", "up"}, on : Configs \cup {Unset}]
    BY DEF IInv, TypeOK, esp_wifi_connect, Attempt
  <1>2. calls \in 0..MAX_RETRY
    BY DEF IInv, TypeOK
  <1> QED BY <1>1, <1>2, Counts DEF esp_wifi_connect, Called

(* The call the counted retry stood for is made.                           *)
LEMMA BackoffDoneInv ==
    ASSUME IInv, BackoffDone
    PROVE  IInv'
  <1>1. /\ handler = "backoff" /\ handler' = "idle"
        /\ UNCHANGED <<mode, server, flash, ram, events, s_retry_num, post, buttonVars>>
    BY DEF BackoffDone
  <1>2. /\ sta' \in [st : {"trying", "up"}, on : Configs \cup {Unset}]
        /\ calls' \in 0..MAX_RETRY
        /\ calls' = calls + 1 \/ (calls' = MAX_RETRY /\ calls = MAX_RETRY)
    BY ConnectLeavesAttempt DEF BackoffDone
  <1>3. TypeOK'
    BY <1>1, <1>2 DEF IInv, TypeOK, flash, buttonVars
  <1>4. mode # "off" /\ sta'.st # "idle"
    BY <1>1, <1>2 DEF IInv, OffIsClean
  <1>5. RetriesAreCalls'
    <2>1. calls \in Nat /\ s_retry_num \in 0..MAX_RETRY
      BY Counts DEF IInv, TypeOK
    <2>2. CASE calls' = calls + 1
      BY <1>1, <2>1, <2>2 DEF IInv, RetriesAreCalls
    <2>3. CASE calls' = MAX_RETRY
      BY <1>1, <2>1, <2>3, Counts DEF RetriesAreCalls
    <2> QED BY <1>2, <2>2, <2>3
  <1>6. OffIsClean' /\ ServerMeansAp' /\ PollsBelowHold' /\ ResetForgetsInSta'
    BY <1>1, <1>4
    DEF IInv, OffIsClean, ServerMeansAp, PollsBelowHold, ResetForgetsInSta, flash, buttonVars
  <1>7. DownIsAnnounced' /\ RetryChainUnbroken'
    BY <1>4 DEF DownIsAnnounced, RetryChainUnbroken, Quiet
  <1> QED BY <1>3, <1>5, <1>6, <1>7 DEF IInv
-----------------------------------------------------------------------------
(* A form stored means AP+STA mode, and its call is still to come.         *)
LEMMA PostSetConfigInv ==
    ASSUME IInv, NEW c \in Configs, PostSetConfig(c)
    PROVE  IInv'
  <1>1. /\ server /\ posts < MaxPosts /\ posts' = posts + 1
        /\ nvs' = c /\ ram' = c /\ calls' = 0 /\ post' = "reset"
        /\ UNCHANGED <<mode, server, cuts, router, sta, loopVars, buttonVars>>
    BY DEF PostSetConfig
  <1>2. TypeOK'
    <2>1. posts' \in 0..MaxPosts /\ calls' \in 0..MAX_RETRY
      BY <1>1, Counts DEF IInv, TypeOK
    <2> QED BY <1>1, <2>1 DEF IInv, TypeOK, loopVars, buttonVars
  <1>3. mode = "APSTA"
    BY <1>1 DEF IInv, ServerMeansAp
  <1>4. OffIsClean' /\ ServerMeansAp' /\ PollsBelowHold' /\ ResetForgetsInSta'
    BY <1>1, <1>3
    DEF IInv, OffIsClean, ServerMeansAp, PollsBelowHold, ResetForgetsInSta, buttonVars
  <1>5. DownIsAnnounced' /\ RetryChainUnbroken' /\ RetriesAreCalls'
    BY <1>1 DEF IInv, DownIsAnnounced, RetryChainUnbroken, RetriesAreCalls, Quiet, loopVars
  <1> QED BY <1>2, <1>4, <1>5 DEF IInv

(* From its reset on, the new configuration has the count to itself.       *)
LEMMA PostResetRetriesInv ==
    ASSUME IInv, PostResetRetries
    PROVE  IInv'
  <1>1. /\ post = "reset" /\ s_retry_num' = 0 /\ post' = "connect"
        /\ UNCHANGED <<mode, server, flash, driver, events, handler, buttonVars>>
    BY DEF PostResetRetries
  <1>2. TypeOK'
    BY <1>1, Counts DEF IInv, TypeOK, flash, driver, buttonVars
  <1>3. OffIsClean' /\ ServerMeansAp' /\ PollsBelowHold' /\ ResetForgetsInSta'
    BY <1>1
    DEF IInv, OffIsClean, ServerMeansAp, PollsBelowHold, ResetForgetsInSta, flash, buttonVars
  <1>4. DownIsAnnounced' /\ RetryChainUnbroken'
    BY <1>1 DEF IInv, DownIsAnnounced, RetryChainUnbroken, Quiet, driver
  <1>5. RetriesAreCalls'
    <2>1. calls \in Nat /\ calls' = calls
      BY <1>1, Counts DEF IInv, TypeOK, driver
    <2> QED BY <1>1, <2>1 DEF RetriesAreCalls
  <1> QED BY <1>2, <1>3, <1>4, <1>5 DEF IInv

(* The form's own call counts as one of the chances.                       *)
LEMMA PostConnectInv ==
    ASSUME IInv, PostConnect
    PROVE  IInv'
  <1>1. /\ post = "connect" /\ post' = "idle"
        /\ UNCHANGED <<mode, server, flash, ram, loopVars, buttonVars>>
    BY DEF PostConnect
  <1>2. /\ sta' \in [st : {"trying", "up"}, on : Configs \cup {Unset}]
        /\ calls' \in 0..MAX_RETRY
        /\ calls' = calls + 1 \/ (calls' = MAX_RETRY /\ calls = MAX_RETRY)
    BY ConnectLeavesAttempt DEF PostConnect
  <1>3. TypeOK'
    BY <1>1, <1>2 DEF IInv, TypeOK, flash, loopVars, buttonVars
  <1>4. mode # "off" /\ sta'.st # "idle"
    BY <1>1, <1>2 DEF IInv, OffIsClean
  <1>5. RetriesAreCalls'
    <2>1. calls \in Nat /\ s_retry_num \in 0..MAX_RETRY
      BY Counts DEF IInv, TypeOK
    <2>2. CASE calls' = calls + 1
      BY <1>1, <2>1, <2>2 DEF IInv, RetriesAreCalls, loopVars
    <2>3. CASE calls' = MAX_RETRY
      BY <1>1, <2>1, <2>3, Counts DEF RetriesAreCalls, loopVars
    <2> QED BY <1>2, <2>2, <2>3
  <1>6. OffIsClean' /\ ServerMeansAp' /\ PollsBelowHold' /\ ResetForgetsInSta'
    BY <1>1, <1>4
    DEF IInv, OffIsClean, ServerMeansAp, PollsBelowHold, ResetForgetsInSta, flash, buttonVars
  <1>7. DownIsAnnounced' /\ RetryChainUnbroken'
    BY <1>4 DEF DownIsAnnounced, RetryChainUnbroken, Quiet
  <1> QED BY <1>3, <1>5, <1>6, <1>7 DEF IInv
-----------------------------------------------------------------------------
(* The button: its task stops polling when it has erased the flash.        *)
LEMMA ButtonUpInv ==
    ASSUME IInv, ButtonUp
    PROVE  IInv'
  <1> USE DEF ButtonUp, flash, driver, loopVars
  <1>1. TypeOK'
    BY Counts DEF IInv, TypeOK
  <1>2. PollsBelowHold'
    BY Counts DEF PollsBelowHold
  <1> QED
    BY <1>1, <1>2
    DEF IInv, OffIsClean, ServerMeansAp, ResetForgetsInSta, DownIsAnnounced,
        RetryChainUnbroken, RetriesAreCalls, Quiet

(* The poll that erases the flash is the last one.                         *)
LEMMA ButtonDownInv ==
    ASSUME IInv, ButtonDown
    PROVE  IInv'
  <1>1. /\ mode # "off" /\ button = "poll" /\ hold_time' = hold_time + 1
        /\ \/ nvs' = Unset /\ button' = "restart"
           \/ hold_time + 1 < HoldPolls /\ UNCHANGED <<nvs, button>>
        /\ UNCHANGED <<mode, server, posts, cuts, router, driver, loopVars, post>>
    BY DEF ButtonDown
  <1>2. hold_time \in Nat /\ hold_time < HoldPolls
    BY <1>1, Counts DEF IInv, TypeOK, PollsBelowHold
  <1>3. TypeOK'
    <2>1. hold_time' \in 0..HoldPolls
      BY <1>1, <1>2, Counts
    <2> QED BY <1>1, <2>1 DEF IInv, TypeOK, driver, loopVars
  <1>4. PollsBelowHold' /\ ResetForgetsInSta'
    BY <1>1 DEF PollsBelowHold, ResetForgetsInSta
  <1>5. OffIsClean' /\ ServerMeansAp'
    BY <1>1 DEF IInv, OffIsClean, ServerMeansAp
  <1>6. DownIsAnnounced' /\ RetryChainUnbroken' /\ RetriesAreCalls'
    BY <1>1
    DEF IInv, DownIsAnnounced, RetryChainUnbroken, RetriesAreCalls, Quiet, driver, loopVars
  <1> QED BY <1>3, <1>4, <1>5, <1>6 DEF IInv
-----------------------------------------------------------------------------
(* Every step, and a stutter, keeps the invariant.                         *)
LEMMA NextInv == IInv /\ [Next]_vars => IInv'
  <1> SUFFICES ASSUME IInv, [Next]_vars PROVE IInv'
    OBVIOUS
  <1>1. CASE Boot
    BY <1>1, BootInv
  <1>2. CASE PowerCut
    <2>1. posts' \in 0..MaxPosts /\ cuts' \in 0..MaxCuts
      BY <1>2, Counts DEF IInv, TypeOK, PowerCut
    <2> QED BY <1>2, <2>1, RestartedInv DEF PowerCut
  <1>3. CASE RouterChanges
    BY <1>3, RouterChangesInv
  <1>4. CASE DriverStep
    BY <1>4, AttemptEndsInv, LinkLostInv DEF DriverStep
  <1>5. CASE ProvisioningDone \/ ButtonRestart
    <2>1. posts' \in 0..MaxPosts /\ cuts' \in 0..MaxCuts
      BY <1>5 DEF IInv, TypeOK, ProvisioningDone, ButtonRestart, flash
    <2> QED BY <1>5, <2>1, RestartedInv DEF ProvisioningDone, ButtonRestart, flash
  <1>6. CASE HandlerStep /\ ~ProvisioningDone
    BY <1>6, HandleGotIpInv, HandleDisconnectedInv, BackoffDoneInv DEF HandlerStep
  <1>7. ASSUME NEW c \in Configs, PostSetConfig(c) PROVE IInv'
    BY <1>7, PostSetConfigInv
  <1>8. CASE PostStep
    BY <1>8, PostResetRetriesInv, PostConnectInv DEF PostStep
  <1>9. CASE PostSetConfigFails
    <2>1. /\ Restarted /\ UNCHANGED <<nvs, cuts, router>>
          /\ posts' \in 0..MaxPosts
      BY <1>9, Counts DEF IInv, TypeOK, PostSetConfigFails
    <2> QED BY <2>1, RestartedInv DEF IInv, TypeOK
  <1>10. CASE ButtonUp \/ ButtonDown
    BY <1>10, ButtonUpInv, ButtonDownInv
  <1>11. CASE UNCHANGED vars
    BY <1>11
    DEF IInv, TypeOK, OffIsClean, ServerMeansAp, PollsBelowHold, ResetForgetsInSta,
        DownIsAnnounced, RetryChainUnbroken, RetriesAreCalls, Quiet,
        vars, flash, driver, loopVars, buttonVars
  <1> QED
    BY <1>1, <1>2, <1>3, <1>4, <1>5, <1>6, <1>7, <1>8, <1>9, <1>10, <1>11
    DEF Next, HandlerStep

(* The inductive invariant holds in every reachable state.                 *)
LEMMA Invariance == Spec => []IInv
  BY InitInv, NextInv, PTL DEF Spec

(* Every variable keeps its type, the retry counter its range.             *)
THEOREM TypeCorrect == Spec => []TypeOK
  <1>1. IInv => TypeOK
    BY DEF IInv
  <1> QED BY Invariance, <1>1, PTL

(* A configured station that is down, with nothing under way, has used up  *)
(* its retries, whatever forms, stale events and restarts came between.    *)
THEOREM ChainNeverBreaks == Spec => []RetryChainUnbroken
  <1>1. IInv => RetryChainUnbroken
    BY DEF IInv
  <1> QED BY Invariance, <1>1, PTL

(* The device gives a configuration up only after MAX_RETRY calls of       *)
(* esp_wifi_connect with it.                                               *)
THEOREM NoConfigGivenUpEarly == Spec => []NewConfigGetsRetries
  <1>1. IInv => NewConfigGetsRetries
    <2> SUFFICES ASSUME IInv, mode # "off", ram # Unset, Quiet
                 PROVE  calls = MAX_RETRY
      BY DEF NewConfigGetsRetries
    <2>1. s_retry_num = MAX_RETRY
      BY DEF IInv, RetryChainUnbroken
    <2>2. s_retry_num <= calls
      BY DEF IInv, RetriesAreCalls, Quiet
    <2> QED BY <2>1, <2>2, Counts DEF IInv, TypeOK
  <1> QED BY Invariance, <1>1, PTL

(* In STA mode nothing puts a configuration back between the erase and the *)
(* restart of the factory reset.                                           *)
THEOREM ResetIsFinalInSta == Spec => []ResetForgetsInSta
  <1>1. IInv => ResetForgetsInSta
    BY DEF IInv
  <1> QED BY Invariance, <1>1, PTL
=============================================================================
