------------------------------ MODULE WifiProv ------------------------------
(***************************************************************************)
(* Provisioning and reconnection (wifi_prov.c), the factory-reset button   *)
(* (peripherals.c) and the boot (main.c) of one device: the event handler, *)
(* the web server's POST handler and the button task run concurrently on   *)
(* s_retry_num, the WiFi driver and the configuration in NVS, and any of   *)
(* three things restarts the device: a successful provisioning, the button *)
(* and a power cut.                                                        *)
(*                                                                         *)
(* How long a delay lasts is left open.  The WiFi driver and the event     *)
(* loop are external, modelled as the code uses them.                      *)
(***************************************************************************)
EXTENDS Integers, Sequences

CONSTANTS
    Configs,    \* station configurations a user may post
    Right,      \* the one the router accepts
    Unset,      \* no configuration stored (ssid[0] = 0)
    Unfit,      \* flash without a free NVS page (ESP_ERR_NVS_NO_FREE_PAGES)
    MAX_RETRY,
    HoldPolls,  \* RESET_HOLD_TIME_MS / check_interval
    MaxPosts,   \* bound: forms posted
    MaxCuts     \* bound: power cuts

ASSUME ConfigAssumption == Right \in Configs /\ {Unset, Unfit} \cap Configs = {}
ASSUME CountAssumption == /\ {MAX_RETRY, HoldPolls} \subseteq Nat \ {0}
                          /\ {MaxPosts, MaxCuts} \subseteq Nat

VARIABLES
    mode,           \* "off" until app_main, then WIFI_MODE_STA or WIFI_MODE_APSTA
    server,         \* the web server runs (server # NULL)
    nvs,            \* the configuration in flash
    ram,            \* the driver's copy
    s_retry_num,
    sta,            \* the driver: "idle", "trying" or "up", with which config
    events,         \* the event loop's queue
    handler,        \* wifi_event_handler: "idle", in its backoff delay, or in
                    \*   the delay before esp_restart
    post,           \* wifi_config_post_handler: between requests ("idle"), or
                    \*   about to reset s_retry_num or to connect
    button,         \* reset_button_task: "poll", or in the delay before esp_restart
    hold_time,      \* polls in a row that found the button down
    router,         \* the router is up
    posts, cuts,    \* forms posted and power cuts so far
    calls           \* history: calls of esp_wifi_connect with the current config,
                    \*   counted up to MAX_RETRY

flash      == <<nvs, posts, cuts, router>>
driver     == <<ram, sta, calls>>
loopVars   == <<events, handler, s_retry_num>>
buttonVars == <<button, hold_time>>
vars       == <<mode, server, flash, driver, loopVars, post, buttonVars>>

Idle == [st |-> "idle", on |-> Unset]

(* What a restart leaves of the program's state: nothing.                  *)
Restarted == /\ mode' = "off" /\ server' = FALSE
             /\ ram' = Unset /\ sta' = Idle /\ calls' = 0
             /\ events' = <<>> /\ handler' = "idle" /\ s_retry_num' = 0
             /\ post' = "idle"
             /\ button' = "poll" /\ hold_time' = 0

(* A device fresh from the factory, one provisioned before, or one whose   *)
(* flash another program has filled.                                       *)
Init == /\ mode = "off" /\ server = FALSE
        /\ nvs \in Configs \cup {Unset, Unfit}
        /\ ram = Unset /\ sta = Idle /\ calls = 0
        /\ events = <<>> /\ handler = "idle" /\ s_retry_num = 0
        /\ post = "idle"
        /\ button = "poll" /\ hold_time = 0
        /\ router = TRUE
        /\ posts = 0 /\ cuts = 0
-----------------------------------------------------------------------------
(* The driver (external).  esp_wifi_connect starts an attempt; while one   *)
(* is under way it may be ignored or start afresh, and while connected it  *)
(* changes nothing.                                                        *)
Attempt(config) == sta' = [st |-> "trying", on |-> config]

Called == calls' = IF calls < MAX_RETRY THEN calls + 1 ELSE calls

esp_wifi_connect == /\ \/ sta.st # "up" /\ Attempt(ram)
                       \/ sta.st # "idle" /\ UNCHANGED sta
                    /\ Called

AttemptEnds == /\ sta.st = "trying"
               /\ \/ /\ router /\ sta.on = Right
                     /\ sta' = [sta EXCEPT !.st = "up"]
                     /\ events' = Append(events, "GOT_IP")
                  \/ /\ ~(router /\ sta.on = Right)
                     /\ sta' = Idle
                     /\ events' = Append(events, "DISCONNECTED")
               /\ UNCHANGED <<mode, server, flash, ram, calls, handler, s_retry_num, post, buttonVars>>

LinkLost == /\ sta.st = "up" /\ ~router
            /\ sta' = Idle
            /\ events' = Append(events, "DISCONNECTED")
            /\ UNCHANGED <<mode, server, flash, ram, calls, handler, s_retry_num, post, buttonVars>>

RouterChanges == /\ router' = ~router
                 /\ UNCHANGED <<mode, server, nvs, posts, cuts, driver, loopVars, post, buttonVars>>
-----------------------------------------------------------------------------
(* app_main erases a flash that NVS cannot use.                            *)
InitNvs == nvs' = IF nvs = Unfit THEN Unset ELSE nvs

(* wifi_init_softap_sta: a stored configuration means STA mode and a first *)
(* attempt, none means AP+STA with the web server, unless httpd_start      *)
(* fails.                                                                  *)
Boot == /\ mode = "off"
        /\ InitNvs
        /\ ram' = nvs'
        /\ \/ /\ nvs' # Unset
              /\ mode' = "STA" /\ Attempt(nvs') /\ Called
              /\ UNCHANGED server
           \/ /\ nvs' = Unset
              /\ mode' = "APSTA" /\ server' \in BOOLEAN
              /\ UNCHANGED <<sta, calls>>
        /\ UNCHANGED <<posts, cuts, router, loopVars, post, buttonVars>>

PowerCut == /\ cuts < MaxCuts
            /\ cuts' = cuts + 1
            /\ Restarted
            /\ UNCHANGED <<nvs, posts, router>>
-----------------------------------------------------------------------------
(* wifi_event_handler, called by the event loop for one event at a time.   *)
HandleGotIp == /\ handler = "idle" /\ events # <<>> /\ Head(events) = "GOT_IP"
               /\ events' = Tail(events)
               /\ s_retry_num' = 0
               /\ handler' = IF server THEN "restart" ELSE "idle"
               /\ UNCHANGED <<mode, server, flash, driver, post, buttonVars>>

(* The test below off by one (a mutant). *)
HandleDisconnectedOnceMore ==
    /\ handler = "idle" /\ events # <<>> /\ Head(events) = "DISCONNECTED"
    /\ events' = Tail(events)
    /\ \/ /\ s_retry_num <= MAX_RETRY
          /\ s_retry_num' = s_retry_num + 1
          /\ handler' = "backoff"
       \/ /\ s_retry_num > MAX_RETRY
          /\ UNCHANGED <<s_retry_num, handler>>
    /\ UNCHANGED <<mode, server, flash, driver, post, buttonVars>>

HandleDisconnected ==
    /\ handler = "idle" /\ events # <<>> /\ Head(events) = "DISCONNECTED"
    /\ events' = Tail(events)
    /\ \/ /\ s_retry_num < MAX_RETRY
          /\ s_retry_num' = s_retry_num + 1
          /\ handler' = "backoff"
       \/ /\ s_retry_num >= MAX_RETRY
          /\ UNCHANGED <<s_retry_num, handler>>
    /\ UNCHANGED <<mode, server, flash, driver, post, buttonVars>>

(* The end of the delay below without the call (a mutant). *)
BackoffForgets == /\ handler = "backoff"
                  /\ handler' = "idle"
                  /\ UNCHANGED <<mode, server, flash, driver, events, s_retry_num, post, buttonVars>>

(* The delay is over: try again. *)
BackoffDone == /\ handler = "backoff"
               /\ esp_wifi_connect
               /\ handler' = "idle"
               /\ UNCHANGED <<mode, server, flash, ram, events, s_retry_num, post, buttonVars>>

ProvisioningDone == /\ handler = "restart"
                    /\ Restarted
                    /\ UNCHANGED flash
-----------------------------------------------------------------------------
(* The handler below with a configuration kept in RAM only (a mutant). *)
PostSetRamOnly(c) == /\ server /\ post = "idle"
                     /\ posts < MaxPosts
                     /\ posts' = posts + 1
                     /\ ram' = c
                     /\ calls' = 0
                     /\ post' = "reset"
                     /\ UNCHANGED <<mode, server, nvs, cuts, router, sta, loopVars, buttonVars>>

(* wifi_config_post_handler for a form that parses; one that does not is   *)
(* answered and changes nothing.  esp_wifi_set_config also stores the      *)
(* configuration in flash.                                                 *)
PostSetConfig(c) == /\ server /\ post = "idle"
                    /\ posts < MaxPosts
                    /\ posts' = posts + 1
                    /\ nvs' = c /\ ram' = c
                    /\ calls' = 0
                    /\ post' = "reset"
                    /\ UNCHANGED <<mode, server, cuts, router, sta, loopVars, buttonVars>>

(* ESP_ERROR_CHECK: a configuration that the driver does not take, or      *)
(* cannot store, restarts the device with the flash as it was.             *)
PostSetConfigFails == /\ server /\ post = "idle"
                      /\ posts < MaxPosts
                      /\ posts' = posts + 1
                      /\ Restarted
                      /\ UNCHANGED <<nvs, cuts, router>>

(* The step below without the reset (a mutant). *)
PostKeepsRetries == /\ post = "reset"
                    /\ post' = "connect"
                    /\ UNCHANGED <<mode, server, flash, driver, loopVars, buttonVars>>

PostResetRetries == /\ post = "reset"
                    /\ s_retry_num' = 0
                    /\ post' = "connect"
                    /\ UNCHANGED <<mode, server, flash, driver, events, handler, buttonVars>>

PostConnect == /\ post = "connect"
               /\ esp_wifi_connect
               /\ post' = "idle"
               /\ UNCHANGED <<mode, server, flash, ram, loopVars, buttonVars>>
-----------------------------------------------------------------------------
(* reset_button_task: HoldPolls polls in a row with the button down erase  *)
(* the flash; the device restarts 3 seconds later, everything else running *)
(* on until then.                                                          *)
ButtonUp == /\ mode # "off" /\ button = "poll"
            /\ hold_time' = 0
            /\ UNCHANGED <<mode, server, flash, driver, loopVars, post, button>>

(* The poll below without nvs_flash_erase (a mutant). *)
ButtonDownNoErase == /\ mode # "off" /\ button = "poll"
                     /\ hold_time' = hold_time + 1
                     /\ button' = IF hold_time + 1 >= HoldPolls THEN "restart" ELSE "poll"
                     /\ UNCHANGED <<mode, server, flash, driver, loopVars, post>>

ButtonDown == /\ mode # "off" /\ button = "poll"
              /\ hold_time' = hold_time + 1
              /\ \/ /\ hold_time + 1 >= HoldPolls
                    /\ nvs' = Unset
                    /\ button' = "restart"
                 \/ /\ hold_time + 1 < HoldPolls
                    /\ UNCHANGED <<nvs, button>>
              /\ UNCHANGED <<mode, server, posts, cuts, router, driver, loopVars, post>>

ButtonRestart == /\ button = "restart"
                 /\ Restarted
                 /\ UNCHANGED flash
-----------------------------------------------------------------------------
HandlerStep == HandleGotIp \/ HandleDisconnected \/ BackoffDone \/ ProvisioningDone
DriverStep  == AttemptEnds \/ LinkLost
PostStep    == PostResetRetries \/ PostConnect

Next == \/ Boot \/ PowerCut \/ RouterChanges
        \/ DriverStep \/ HandlerStep
        \/ \E c \in Configs : PostSetConfig(c)
        \/ PostSetConfigFails
        \/ PostStep
        \/ ButtonUp \/ ButtonDown \/ ButtonRestart

(* Delays and attempts end, queued events are delivered and a handler that *)
(* runs goes on.  Users, the router, the power and the button may do as    *)
(* they like.                                                              *)
Fairness == /\ WF_vars(Boot) /\ WF_vars(AttemptEnds) /\ WF_vars(LinkLost)
            /\ WF_vars(HandlerStep) /\ WF_vars(PostStep) /\ WF_vars(ButtonRestart)

Spec == Init /\ [][Next]_vars /\ Fairness
-----------------------------------------------------------------------------
TypeOK == /\ mode \in {"off", "STA", "APSTA"}
          /\ server \in BOOLEAN /\ router \in BOOLEAN
          /\ nvs \in Configs \cup {Unset, Unfit}
          /\ ram \in Configs \cup {Unset}
          /\ s_retry_num \in 0..MAX_RETRY
          /\ sta \in [st : {"idle", "trying", "up"}, on : Configs \cup {Unset}]
          /\ events \in Seq({"GOT_IP", "DISCONNECTED"})
          /\ handler \in {"idle", "backoff", "restart"}
          /\ post \in {"idle", "reset", "connect"}
          /\ button \in {"poll", "restart"}
          /\ hold_time \in 0..HoldPolls
          /\ posts \in 0..MaxPosts /\ cuts \in 0..MaxCuts
          /\ calls \in 0..MAX_RETRY

(* Nothing is under way that could still bring the station up.             *)
Quiet == sta.st = "idle" /\ events = <<>> /\ handler = "idle" /\ post = "idle"

(* The chain of retries never breaks: a configured station that is down,   *)
(* with nothing under way, has used up its retries.  POSTs, stale events   *)
(* and delays may interleave as they like, each DISCONNECTED is answered   *)
(* by an attempt or found the counter at its limit.                        *)
RetryChainUnbroken == mode # "off" /\ ram # Unset /\ Quiet => s_retry_num = MAX_RETRY

(* wifi_prov.c:331, "on a new configuration reset the retry counter, give  *)
(* the new password 5 chances": the device does not give a configuration   *)
(* up before it has called esp_wifi_connect that often with it, however    *)
(* many events of the configuration before it are still to be handled.     *)
NewConfigGetsRetries == mode # "off" /\ ram # Unset /\ Quiet => calls = MAX_RETRY

(* In STA mode the reset is final: from the erase to the restart nothing   *)
(* puts a configuration back.                                              *)
ResetForgetsInSta == button = "restart" /\ mode = "STA" => nvs = Unset

(* A device that was given the right configuration restarts into STA mode  *)
(* with it and connects, over power cuts, restarts and attempts with the   *)
(* configuration before it that are still under way; unless another form   *)
(* is posted, the button erases the flash or the router goes.              *)
ProvisioningCompletes ==
    \A n \in 1..MaxPosts :
        (post = "connect" /\ ram = Right /\ posts = n /\ router)
            ~> \/ mode = "STA" /\ ram = Right /\ sta = [st |-> "up", on |-> Right]
               \/ posts > n \/ button = "restart" \/ ~router

(* A station that lost its router reconnects when the router comes back    *)
(* before the retries are used up.                                         *)
StationReconnects ==
    <>[]router =>
        ((mode = "STA" /\ ram = Right)
            ~> (sta.st = "up" \/ s_retry_num = MAX_RETRY \/ mode = "off"))
-----------------------------------------------------------------------------
(* Statements of the sources that the code does not keep.                  *)

(* peripherals.h:13, "hold for the given time to erase NVS and restart":   *)
(* the device restarts with nothing stored.                                *)
ResetForgets == button = "restart" => nvs = Unset
=============================================================================
