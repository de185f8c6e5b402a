----------------------------- MODULE SoftApProv -----------------------------
(***************************************************************************)
(* The provisioning examples (provisioning/legacy/softap_prov and          *)
(* custom_config): over the board's own access point a phone sets a        *)
(* configuration, applies it and asks for the result; 30 s after the       *)
(* first address a task of its own takes the service down and frees        *)
(* g_prov.  The next boot is a plain station.  Actors: the event loop, the *)
(* web server's task, the timer's, stop_prov_task, the driver and power.   *)
(***************************************************************************)
EXTENDS Naturals, Sequences

CONSTANTS ATTEMPTS,   \* EXAMPLE_AP_RECONN_ATTEMPTS
          MaxBoots, MaxSets, MaxEvents   \* bounds: boots, configurations set, events queued

VARIABLES main,       \* "boot", "provisioning", "stopped" or "station"
          g_prov,     \* FALSE when NULL
          wifi_state, reason,  \* its fields, as long as it is there
          timer,      \* "none", "idle" or "armed"
          stopper,    \* where stop_prov_task is: "none", "service", "handlers", "timer", "free"
          service, registered, \* endpoints answer; app_prov_event_handler is registered
          ctx, flash, \* configuration set; configuration stored: "none", "good", "bad"
          apsta, link, on, events, \* the driver; on is the configuration of its attempt or connection
          retry,      \* s_retry_num of the station
          boots, sets, \* bounds
          failure, connected, \* history: last failure; an address was got since boot
          asked,      \* history: the last configuration applied, and whether a call failed then
          late,       \* history: an address came after the timer had expired
          refused     \* history: with the timer's last expiry there was no memory for a task
vars == <<main, g_prov, wifi_state, reason, timer, stopper, service, registered, ctx, flash,
          apsta, link, on, events, retry, boots, sets, failure, connected, asked, late, refused>>
app == <<main, timer, stopper, service, registered, g_prov>>
count == <<boots, sets>>
past == <<asked, late, refused>>

Init == /\ main = "boot" /\ g_prov = FALSE /\ wifi_state = "CONNECTING" /\ reason = "none" /\ timer = "none"
        /\ stopper = "none" /\ service = FALSE /\ registered = FALSE /\ ctx = "none" /\ apsta = FALSE
        /\ link = "down" /\ on = "none" /\ events = <<>> /\ retry = 0 /\ failure = "none" /\ connected = FALSE
        /\ asked = [config |-> "none", failed |-> FALSE] /\ late = FALSE /\ refused = FALSE
        /\ flash = "none" /\ boots = 1 /\ sets = 0
-----------------------------------------------------------------------------
\* app_main with app_prov_is_provisioned.  A start that fails aborts, and the
\* board boots again.
StartProvisioning ==
    /\ main = "boot" /\ flash = "none" /\ main' = "provisioning" /\ g_prov' = TRUE
    /\ timer' = "idle" /\ registered' = TRUE /\ service' = TRUE
    /\ UNCHANGED <<wifi_state, reason, stopper, ctx, flash, apsta, link, on, events, retry, count, failure, connected,
                   past>>
StartStation ==
    /\ main = "boot" /\ flash # "none" /\ main' = "station" /\ events' = <<"START">>
    /\ UNCHANGED <<g_prov, wifi_state, reason, timer, stopper, service, registered, ctx, flash, apsta,
                   link, on, retry, count, failure, connected, past>>
\* All but the stored configuration is lost.
Restarted ==
    /\ main' = "boot" /\ g_prov' = FALSE /\ wifi_state' = "CONNECTING" /\ reason' = "none" /\ timer' = "none"
    /\ stopper' = "none" /\ service' = FALSE /\ registered' = FALSE /\ ctx' = "none" /\ apsta' = FALSE
    /\ link' = "down" /\ on' = "none" /\ events' = <<>> /\ retry' = 0 /\ failure' = "none" /\ connected' = FALSE
    /\ asked' = [config |-> "none", failed |-> FALSE] /\ late' = FALSE /\ refused' = FALSE
    /\ UNCHANGED <<flash, sets>>
PowerCut == main # "boot" /\ boots < MaxBoots /\ boots' = boots + 1 /\ Restarted

\* set_config_handler; without memory no configuration is set.
SetConfig == /\ service /\ sets < MaxSets /\ sets' = sets + 1 /\ ctx' \in {"good", "bad", "none"}
             /\ UNCHANGED <<app, wifi_state, reason, flash, apsta, link, on, events, retry, boots, failure, connected, past>>
\* apply_config_handler with app_prov_configure_sta, whose result it ignores: a
\* call of the driver fails, before or after the mode is changed and the
\* configuration stored, or the station starts over with it.  The rest of the
\* function (284) is done long before an attempt can end.
Started == events \o (IF apsta THEN <<>> ELSE <<"START">>)
ApplyFails == /\ \/ UNCHANGED <<flash, apsta, events>>
                 \/ flash' \in {flash, ctx} /\ apsta' = TRUE /\ events' = Started
              /\ UNCHANGED <<wifi_state, link, on>>
ApplyConnects == /\ flash' = ctx /\ apsta' = TRUE /\ link' = "trying" /\ on' = ctx /\ wifi_state' = "CONNECTING"
                 /\ events' = Started \o (IF link = "up" THEN <<"OTHER">> ELSE <<>>)
ApplyConfig == /\ service /\ ctx # "none" /\ ctx' = "none" /\ Len(events) < MaxEvents
               /\ \E fails \in BOOLEAN : /\ asked' = [config |-> ctx, failed |-> fails]
                                         /\ IF fails THEN ApplyFails ELSE ApplyConnects
               /\ UNCHANGED <<app, reason, retry, count, failure, connected, late, refused>>
\* get_status_handler
GetStatus == [state |-> wifi_state, reason |-> IF wifi_state = "DISCONNECTED" THEN reason ELSE "none"]
-----------------------------------------------------------------------------
\* The driver: the attempt ends, or the link is lost.
Disconnects == {"AUTH_ERROR", "AP_NOT_FOUND", "OTHER"}
AttemptEnds == /\ link = "trying" /\ Len(events) < MaxEvents
               /\ \/ on = "good" /\ link' = "up" /\ events' = Append(events, "GOT_IP") /\ UNCHANGED failure
                  \/ \E why \in Disconnects \ (IF on = "good" THEN {"AUTH_ERROR"} ELSE {}) :
                        link' = "down" /\ events' = Append(events, why) /\ failure' = why
               /\ UNCHANGED <<app, wifi_state, reason, ctx, flash, apsta, on, retry, count, connected, past>>
LinkLost == /\ link = "up" /\ Len(events) < MaxEvents
            /\ \E why \in Disconnects : link' = "down" /\ events' = Append(events, why) /\ failure' = why
            /\ UNCHANGED <<app, wifi_state, reason, ctx, flash, apsta, on, retry, count, connected, past>>
esp_wifi_connect == IF link = "down" THEN link' = "trying" /\ on' = flash ELSE UNCHANGED <<link, on>>

Event(e) == events # <<>> /\ Head(events) = e /\ events' = Tail(events)
\* app_prov_event_handler
StaStart == /\ registered /\ Event("START") /\ wifi_state' = "CONNECTING"
            /\ UNCHANGED <<app, reason, ctx, flash, apsta, link, on, retry, count, failure, connected, past>>
GotIp == /\ registered /\ Event("GOT_IP") /\ wifi_state' = "CONNECTED" /\ timer' = "armed" /\ connected' = TRUE
         /\ late' = (late \/ stopper # "none") /\ refused' = FALSE
         /\ UNCHANGED <<main, stopper, service, registered, g_prov, reason, ctx, flash, apsta, link, on, retry, count, failure,
                        asked>>
Disconnected(why) ==
    /\ registered /\ Event(why)
    /\ IF why = "OTHER" THEN wifi_state' = "CONNECTING" /\ esp_wifi_connect /\ UNCHANGED reason
       ELSE wifi_state' = "DISCONNECTED" /\ reason' = why /\ UNCHANGED <<link, on>>
    /\ UNCHANGED <<app, ctx, flash, apsta, retry, count, failure, connected, past>>
\* With nobody registered, or after provisioning, nothing happens.
Unheard == /\ ~registered /\ main # "station" /\ events # <<>> /\ events' = Tail(events)
           /\ UNCHANGED <<app, wifi_state, reason, ctx, flash, apsta, link, on, retry, count, failure, connected, past>>
\* event_handler of the station
MayRetry == retry < ATTEMPTS
StationEvent ==
    /\ main = "station" /\ events # <<>> /\ events' = Tail(events)
    /\ CASE Head(events) = "START" -> esp_wifi_connect /\ UNCHANGED <<retry, connected>>
         [] Head(events) = "GOT_IP" -> retry' = 0 /\ connected' = TRUE /\ UNCHANGED <<link, on>>
         [] Head(events) \in Disconnects /\ MayRetry -> esp_wifi_connect /\ retry' = retry + 1 /\ UNCHANGED connected
         [] OTHER -> UNCHANGED <<link, on, retry, connected>>
    /\ UNCHANGED <<app, wifi_state, reason, ctx, flash, apsta, count, failure, past>>
-----------------------------------------------------------------------------
\* _stop_prov_cb creates stop_prov_task, if there is memory for it.
StopCallback == /\ timer = "armed" /\ main = "provisioning" /\ stopper = "none" /\ timer' = "idle"
                /\ \/ stopper' = "service" /\ UNCHANGED refused
                   \/ UNCHANGED stopper /\ refused' = TRUE
                /\ UNCHANGED <<main, service, registered, g_prov, wifi_state, reason, ctx, flash, apsta, link, on, events, retry,
                               count, failure, connected, asked, late>>
\* Called by a timer that could not be deleted, it has nothing to stop: the
\* task goes through g_prov, which is NULL, and the board starts over.
StrayCallback == /\ timer = "armed" /\ main = "stopped"
                 /\ \/ Restarted /\ UNCHANGED boots
                    \/ /\ timer' = "idle"
                       /\ UNCHANGED <<main, stopper, service, registered, g_prov, wifi_state, reason, ctx, flash, apsta,
                                      link, on, events, retry, count, failure, connected, past>>
\* stop_prov_task: the server first (it waits for the request in progress), then
\* the handlers, then the access point and the timer, the data last.
StopService == /\ stopper = "service" /\ stopper' = "handlers" /\ service' = FALSE
               /\ UNCHANGED <<main, timer, registered, g_prov>>
\* The one below without unregistering (a mutant).
UnregisterNothing == /\ stopper = "handlers" /\ stopper' = "timer"
                     /\ UNCHANGED <<main, registered, timer, service, g_prov>>
Unregister == /\ stopper = "handlers" /\ stopper' = "timer" /\ registered' = FALSE
              /\ UNCHANGED <<main, timer, service, g_prov>>
\* esp_timer_delete refuses a timer that is running, and nobody looks.
DeleteTimer == /\ stopper = "timer" /\ stopper' = "free" /\ timer' = IF timer = "armed" THEN timer ELSE "none"
               /\ UNCHANGED <<main, service, registered, g_prov>>
FreeProv == /\ stopper = "free" /\ stopper' = "none" /\ g_prov' = FALSE /\ main' = "stopped"
            /\ UNCHANGED <<timer, service, registered>>
stop_prov_task == /\ StopService \/ Unregister \/ DeleteTimer \/ FreeProv
                  /\ UNCHANGED <<wifi_state, reason, ctx, flash, apsta, link, on, events, retry, count, failure, connected,
                                 past>>

EventTask == StaStart \/ GotIp \/ (\E why \in Disconnects : Disconnected(why)) \/ Unheard \/ StationEvent
Next == \/ StartProvisioning \/ StartStation \/ PowerCut \/ SetConfig \/ ApplyConfig
        \/ AttemptEnds \/ LinkLost \/ EventTask \/ StopCallback \/ StrayCallback \/ stop_prov_task
\* The tasks go on and an armed timer expires; phone and driver may do nothing.
Fairness == WF_vars(EventTask) /\ WF_vars(StopCallback) /\ WF_vars(stop_prov_task)
Spec == Init /\ [][Next]_vars /\ Fairness
-----------------------------------------------------------------------------
TypeOK == /\ main \in {"boot", "provisioning", "stopped", "station"} /\ {g_prov, service, registered, apsta, connected} \subseteq BOOLEAN
          /\ wifi_state \in {"CONNECTING", "CONNECTED", "DISCONNECTED"} /\ reason \in Disconnects \cup {"none"}
          /\ timer \in {"none", "idle", "armed"} /\ stopper \in {"none", "service", "handlers", "timer", "free"}
          /\ {ctx, flash} \subseteq {"none", "good", "bad"} /\ link \in {"down", "trying", "up"}
          /\ on \in {"none", "good", "bad"} /\ asked \in [config : {"none", "good", "bad"}, failed : BOOLEAN]
          /\ {late, refused} \subseteq BOOLEAN
          /\ Len(events) <= MaxEvents + 2 /\ retry \in 0..ATTEMPTS /\ boots \in 1..MaxBoots /\ sets \in 0..MaxSets
\* What the phone is told, once the attempt under way is over and its events
\* are handled, is what became of the station: whether it has an address, and
\* why not; and that with the last configuration applied, unless a call of the
\* driver failed then, of which the phone is not told (120, 158-208, 284).
StatusMatches == main = "provisioning" /\ registered /\ events = <<>> /\ link # "trying" =>
    /\ GetStatus.state = "CONNECTED" <=> link = "up"
    /\ GetStatus.state = "DISCONNECTED" => GetStatus.reason = failure
    /\ GetStatus.state # "CONNECTING" => on = asked.config \/ asked.failed
\* A handler or a request that comes late finds g_prov still there: it is freed
\* when neither can reach it any more (101-130).  The timer still can if an
\* address came between its expiry and the end of the handlers, and only then.
FreedLast == ~g_prov => ~registered /\ ~service /\ (timer = "none" \/ late)
\* The provisioned station that is not connected is still trying, or has
\* tried ATTEMPTS times in a row (36-45).
StationKeepsTrying == main = "station" /\ link = "down" /\ events = <<>> => retry = ATTEMPTS
\* Once the station has got an address the access point goes off by itself,
\* unless there is no memory for the task (139); another address gives it
\* another try.
ProvisioningEnds ==
    (main = "provisioning" /\ connected /\ ~refused) ~> (main # "provisioning" \/ refused)
=============================================================================
