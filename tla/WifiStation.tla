---------------------------- MODULE WifiStation ----------------------------
(***************************************************************************)
(* How the examples keep a station connected: the event handlers and the   *)
(* start-up code of eight of them over one model of the WiFi driver.  The   *)
(* driver posts events, the event loop's task calls the handler of the     *)
(* example, and the example's own task waits for the bits the handler sets.*)
(***************************************************************************)
EXTENDS Naturals, Sequences

CONSTANTS Apps,        \* the examples looked at
          MAX_RETRY,   \* EXAMPLE_ESP_MAXIMUM_RETRY
          MaxEvents    \* bound: events the driver queues

VARIABLES app,         \* the example this board runs
          main,        \* where its own task is; "aborted" when ESP_ERROR_CHECK failed
          started, link, scanning, \* the driver: running, "down"/"trying"/"up", a scan goes on
          events,      \* queue of the event loop
          bits, group, \* the event group's bits, and whether it exists
          registered,  \* the handlers are registered
          retry, reconnect, \* s_retry_num; iperf's reconnect flag
          setup,       \* smart config or WPS: "off", "on"
          wanted,      \* history: the example has asked for a connection
          missed,      \* history: a connect was refused because of a scan
          tries        \* history: attempts that failed since the last address
vars == <<app, main, started, link, scanning, events, bits, group, registered, retry, reconnect,
          setup, wanted, missed, tries>>
drv == <<started, link, scanning>>
hist == <<wanted, missed>>

Init == /\ app \in Apps /\ main = "boot" /\ started = FALSE /\ link = "down" /\ scanning = FALSE
        /\ events = <<>> /\ bits = {} /\ group = FALSE /\ registered = FALSE /\ retry = 0
        /\ reconnect = TRUE /\ setup = "off" /\ wanted = FALSE /\ missed = FALSE /\ tries = 0
-----------------------------------------------------------------------------
\* The driver.  esp_wifi_connect is refused when stopped or scanning.
Refused == ~started \/ scanning
esp_wifi_connect == /\ link' = IF ~Refused /\ link = "down" THEN "trying" ELSE link
                    /\ missed' = (missed \/ (Refused /\ scanning)) /\ wanted' = TRUE
                    /\ UNCHANGED <<started, scanning>>
\* ESP_ERROR_CHECK(esp_wifi_connect()), the task going on at next
Checked(next) == esp_wifi_connect /\ main' = IF Refused THEN "aborted" ELSE next
\* esp_wifi_disconnect, or stopping the station: an event if it had a link
Dropped(queue) == /\ link' = "down"
                  /\ events' = IF link = "up" THEN Append(queue, "DISCONNECTED") ELSE queue
Running == main # "aborted"
DriverPosts(e) == Running /\ Len(events) < MaxEvents /\ events' = Append(events, e)
AttemptEnds == /\ link = "trying" /\ ~scanning
               /\ \/ DriverPosts("GOT_IP") /\ link' = "up" /\ tries' = 0
                  \/ DriverPosts("DISCONNECTED") /\ link' = "down" /\ tries' = IF tries > MAX_RETRY THEN tries ELSE tries + 1
               /\ UNCHANGED <<app, main, started, scanning, bits, group, registered, retry, reconnect, setup, hist>>
LinkLost == /\ link = "up" /\ DriverPosts("DISCONNECTED") /\ link' = "down"
            /\ UNCHANGED <<app, main, started, scanning, bits, group, registered, retry, reconnect, setup, hist, tries>>
ScanEnds == /\ scanning /\ DriverPosts("SCAN_DONE") /\ scanning' = FALSE
            /\ UNCHANGED <<app, main, started, link, bits, group, registered, retry, reconnect, setup, hist, tries>>
\* What smart config or WPS finds out over the air
SetupEvent == /\ setup = "on" /\ Len(events) = 0
              /\ \E e \in IF app = "wps" THEN {"WPS_SUCCESS", "WPS_FAILED"} ELSE {"GOT_SSID_PSWD", "SEND_ACK_DONE"} :
                    DriverPosts(e)
              /\ UNCHANGED <<app, main, drv, bits, group, registered, retry, reconnect, setup, hist, tries>>
-----------------------------------------------------------------------------
\* app_main of each: create the group, register, start the station.
Start(next) == /\ main = "boot" /\ group' = TRUE /\ registered' = TRUE /\ started' = TRUE /\ main' = next
               /\ events' = <<"START">>
StartApp(a, next) == app = a /\ Start(next) /\ UNCHANGED <<app, link, scanning, bits, retry, reconnect, setup, hist, tries>>
StartStation     == StartApp("station", "waiting")
StartWpa2        == StartApp("wpa2", "running")
StartRoaming     == StartApp("roaming", "running")
StartSmartConfig == StartApp("smartconfig", "running")
StartIperf       == StartApp("iperf", "prompt")
StartConsole     == StartApp("console", "prompt")   \* at the first command
start_wps == /\ app = "wps" /\ Start("running") /\ setup' = "on"
             /\ UNCHANGED <<app, link, scanning, bits, retry, reconnect, hist, tries>>
example_connect == /\ app = "connect" /\ Start("waiting") /\ link' = "trying" /\ wanted' = TRUE
                   /\ UNCHANGED <<app, scanning, bits, retry, reconnect, setup, missed, tries>>

\* The event at the head of the queue, taken by the handler of example a
Event(a, e) == /\ Running /\ app = a /\ registered /\ events # <<>> /\ Head(events) = e /\ events' = Tail(events)
Same == UNCHANGED <<app, group, registered, tries>>
NoConnect == UNCHANGED <<drv, hist>>

\* Setting a bit of a deleted group stops the chip.
BitSet == main' = IF group THEN main ELSE "aborted"
StationDisconnected ==
    /\ Event("station", "DISCONNECTED")
    /\ IF retry < MAX_RETRY
       THEN esp_wifi_connect /\ retry' = retry + 1 /\ UNCHANGED <<bits, main>>
       ELSE NoConnect /\ BitSet /\ bits' = bits \cup {"FAIL"} /\ UNCHANGED retry
    /\ Same /\ UNCHANGED <<reconnect, setup>>
\* Every handler of START that connects
ConnectAtStart == /\ \E a \in {"station", "wpa2", "roaming"} : Event(a, "START")
                  /\ esp_wifi_connect /\ Same /\ UNCHANGED <<main, bits, retry, reconnect, setup>>
\* Handlers that connect again whatever the result of the call
Reconnects(a, cleared) == /\ Event(a, "DISCONNECTED") /\ esp_wifi_connect /\ bits' = bits \ cleared
                          /\ Same /\ UNCHANGED <<main, retry, reconnect, setup>>
Wpa2Disconnected == Reconnects("wpa2", {"CONNECTED"})
RoamingDisconnected == Reconnects("roaming", {})
ConsoleDisconnected == Reconnects("console", {"CONNECTED"})
SmartConfigDisconnected == Reconnects("smartconfig", {"CONNECTED"})
\* ... and those that abort when it is refused
WpsDisconnected == /\ Event("wps", "DISCONNECTED") /\ Checked(main)
                   /\ Same /\ UNCHANGED <<bits, retry, reconnect, setup>>
on_wifi_disconnect == /\ Event("connect", "DISCONNECTED") /\ Checked(main)
                      /\ Same /\ UNCHANGED <<bits, retry, reconnect, setup>>
IperfDisconnected == /\ Event("iperf", "DISCONNECTED")
                     /\ IF reconnect THEN esp_wifi_connect ELSE NoConnect
                     /\ bits' = (bits \ {"CONNECTED"}) \cup {"DISCONNECTED"}
                     /\ Same /\ UNCHANGED <<main, retry, reconnect, setup>>
\* Handlers of GOT_IP
GotIp == /\ \E a \in Apps : Event(a, "GOT_IP")
         /\ retry' = IF app = "station" THEN 0 ELSE retry
         /\ bits' = IF app \in {"wps", "roaming"} THEN bits ELSE (bits \cup {"CONNECTED"}) \ {"DISCONNECTED"}
         /\ BitSet
         /\ Same /\ NoConnect /\ UNCHANGED <<reconnect, setup>>
\* esp_wifi_disconnect, then a connection with what was sent
GotSsidPswd == /\ Event("smartconfig", "GOT_SSID_PSWD")
               /\ link' = "trying" /\ wanted' = TRUE
               /\ events' = IF link = "up" THEN Append(Tail(events), "DISCONNECTED") ELSE Tail(events)
               /\ Same /\ UNCHANGED <<started, scanning, missed, main, bits, retry, reconnect, setup>>
SendAckDone == /\ Event("smartconfig", "SEND_ACK_DONE") /\ bits' = bits \cup {"DONE"}
               /\ Same /\ NoConnect /\ UNCHANGED <<main, retry, reconnect, setup>>
\* START of smart config creates the task that starts it.
SmartConfigTaskStarts == /\ Event("smartconfig", "START") /\ setup' = "on" /\ main' = "sc_task"
                         /\ Same /\ NoConnect /\ UNCHANGED <<bits, retry, reconnect>>
WpsSuccess == /\ Event("wps", "WPS_SUCCESS") /\ setup' = "off" /\ Checked(main)
              /\ Same /\ UNCHANGED <<bits, retry, reconnect>>
WpsFailed == /\ Event("wps", "WPS_FAILED") /\ setup' = "on"
             /\ Same /\ NoConnect /\ UNCHANGED <<main, bits, retry, reconnect>>
\* An event nobody has registered for, or that only gets logged
Ignored == /\ Running /\ events # <<>> /\ events' = Tail(events)
           /\ \/ ~registered \/ Head(events) = "SCAN_DONE"
              \/ Head(events) = "START" /\ app \in {"connect", "console", "iperf", "wps"}
           /\ Same /\ NoConnect /\ UNCHANGED <<main, bits, retry, reconnect, setup>>
-----------------------------------------------------------------------------
\* The station example's task: once a bit is set, unregister, then delete the group.
StationUnregisters == /\ app = "station" /\ main = "waiting" /\ bits \cap {"CONNECTED", "FAIL"} # {}
                      /\ main' = IF "CONNECTED" \in bits THEN "connected" ELSE "failed"
                      /\ registered' = FALSE
                      /\ UNCHANGED <<app, drv, events, bits, group, retry, reconnect, setup, hist, tries>>
StationDeletesGroup == /\ app = "station" /\ main \in {"connected", "failed"} /\ group /\ group' = FALSE
                       /\ UNCHANGED <<app, main, drv, events, bits, registered, retry, reconnect, setup, hist, tries>>
\* example_connect returns; example_disconnect deletes the group, stops the
\* station and only then unregisters.
ConnectReturns == /\ app = "connect" /\ main = "waiting" /\ "CONNECTED" \in bits
                  /\ main' = "connected" /\ bits' = {}
                  /\ UNCHANGED <<app, drv, events, group, registered, retry, reconnect, setup, hist, tries>>
example_disconnect == /\ app = "connect" /\ main = "connected" /\ main' = "leaving" /\ group' = FALSE
                      /\ UNCHANGED <<app, drv, events, bits, registered, retry, reconnect, setup, hist, tries>>
StopWifi == /\ app = "connect" /\ main = "leaving" /\ started /\ started' = FALSE /\ wanted' = FALSE
            /\ Dropped(events)
            /\ UNCHANGED <<app, main, scanning, bits, group, registered, retry, reconnect, setup, missed, tries>>
StopUnregisters == /\ app = "connect" /\ main = "leaving" /\ ~started /\ main' = "left" /\ registered' = FALSE
                   /\ UNCHANGED <<app, drv, events, bits, group, retry, reconnect, setup, hist, tries>>
\* The consoles' join commands.  iperf's first leaves the access point it has,
\* without letting the handler connect, and waits a moment for the event.
ConsoleJoin == /\ app = "console" /\ main = "prompt" /\ Checked("joining")
               /\ UNCHANGED <<app, events, bits, group, registered, retry, reconnect, setup, tries>>
IperfLeave == /\ app = "iperf" /\ main = "prompt" /\ "CONNECTED" \in bits /\ main' = "unjoin"
              /\ reconnect' = FALSE /\ bits' = bits \ {"CONNECTED"} /\ Dropped(events)
              /\ UNCHANGED <<app, started, scanning, group, registered, retry, setup, hist, tries>>
IperfJoin == /\ app = "iperf" /\ (main = "unjoin" \/ (main = "prompt" /\ "CONNECTED" \notin bits))
             /\ Checked("joining") /\ reconnect' = TRUE
             /\ UNCHANGED <<app, events, bits, group, registered, retry, setup, tries>>
\* Joined, or timed out; the console's wait clears the bit.
JoinReturns == /\ main = "joining" /\ main' = "prompt"
               /\ bits' = IF app = "console" THEN bits \ {"CONNECTED"} ELSE bits
               /\ UNCHANGED <<app, drv, events, group, registered, retry, reconnect, setup, hist, tries>>
\* iperf's scan command aborts when the station is connecting; roaming scans
\* when a neighbour report has no list (neighbor_report_recv_cb).
IperfScan == /\ app = "iperf" /\ main = "prompt" /\ ~scanning
             /\ IF link = "trying" THEN main' = "aborted" /\ UNCHANGED drv
                ELSE scanning' = TRUE /\ UNCHANGED <<main, started, link>>
             /\ UNCHANGED <<app, events, bits, group, registered, retry, reconnect, setup, hist, tries>>
RoamingScan == /\ app = "roaming" /\ main = "running" /\ link = "up" /\ ~scanning /\ scanning' = TRUE
               /\ UNCHANGED <<app, main, started, link, events, bits, group, registered, retry, reconnect, setup, hist, tries>>
\* iperf's ap command; a short password leaves the flag set instead.
IperfAp == /\ app = "iperf" /\ main = "prompt" /\ ~scanning
           /\ \/ /\ reconnect' = FALSE /\ wanted' = FALSE /\ Dropped(events)
              \/ reconnect' = TRUE /\ UNCHANGED <<wanted, link, events>>
           /\ UNCHANGED <<app, main, started, scanning, bits, group, registered, retry, setup, missed, tries>>
\* smartconfig_example_task: any bit wakes it and both are cleared.
SmartConfigWaits == /\ app = "smartconfig" /\ main = "sc_task" /\ bits # {} /\ bits' = {}
                    /\ IF "DONE" \in bits THEN main' = "sc_over" /\ setup' = "off" ELSE UNCHANGED <<main, setup>>
                    /\ UNCHANGED <<app, drv, events, group, registered, retry, reconnect, hist, tries>>
-----------------------------------------------------------------------------
EventTask == \/ StationDisconnected \/ ConnectAtStart \/ Wpa2Disconnected \/ RoamingDisconnected
             \/ ConsoleDisconnected \/ SmartConfigDisconnected \/ WpsDisconnected \/ on_wifi_disconnect
             \/ IperfDisconnected \/ GotIp \/ GotSsidPswd \/ SendAckDone \/ SmartConfigTaskStarts
             \/ WpsSuccess \/ WpsFailed \/ Ignored
Boot == StartStation \/ StartWpa2 \/ StartRoaming \/ StartSmartConfig \/ StartIperf \/ StartConsole \/ start_wps \/ example_connect
Task == StationUnregisters \/ StationDeletesGroup \/ ConnectReturns \/ StopWifi \/ StopUnregisters
        \/ SmartConfigWaits \/ (main = "unjoin" /\ IperfJoin)
User == example_disconnect \/ ConsoleJoin \/ IperfLeave \/ IperfJoin \/ JoinReturns \/ IperfScan
        \/ RoamingScan \/ IperfAp
Driver == AttemptEnds \/ LinkLost \/ ScanEnds \/ SetupEvent
Next == EventTask \/ Boot \/ Task \/ User \/ Driver
\* The tasks go on, the driver brings an attempt and a scan to an end.
Fairness == WF_vars(EventTask) /\ WF_vars(AttemptEnds) /\ WF_vars(ScanEnds) /\ WF_vars(Boot) /\ WF_vars(Task)
Spec == Init /\ [][Next]_vars /\ Fairness
-----------------------------------------------------------------------------
TypeOK == /\ app \in Apps /\ link \in {"down", "trying", "up"} /\ retry \in 0..MAX_RETRY
          /\ Len(events) <= MaxEvents + 1 /\ bits \subseteq {"CONNECTED", "DISCONNECTED", "FAIL", "DONE"}
          /\ {started, scanning, group, registered, reconnect, wanted, missed} \subseteq BOOLEAN
Pending == \E i \in DOMAIN events : events[i] = "DISCONNECTED"
\* The four places where an example with no link has nothing left that makes
\* it connect again: the station example gave up (station 56) or, connected,
\* has unregistered its handlers (station 124-125); a scan was under way when
\* it tried (iperf 179, roaming 280); iperf's join command left its access
\* point and has not yet asked for the new one (iperf 146-152).
GaveUp == "FAIL" \in bits
Unregistered == app = "station" /\ main = "connected"
BetweenJoins == app = "iperf" /\ main = "unjoin"
\* An example that asked for a connection has one, is getting one or has the
\* event queued that makes it try again, but for the four places above; the
\* station example gives up only after more than its retries in a row.
KeepsTrying == /\ wanted /\ Running /\ link = "down" /\ ~Pending => missed \/ GaveUp \/ Unregistered \/ BetweenJoins
               /\ GaveUp /\ main = "failed" => tries > MAX_RETRY
\* No handler uses the event group once it is deleted, and no esp_wifi_connect
\* that must succeed is refused, but for example_disconnect and for iperf's
\* commands during a scan or an attempt.
AbortsOnlyThere == ~Running => app \in {"connect", "iperf"} /\ (app = "connect" => ~wanted \/ ~group)
\* Once the router accepts every attempt, an example that still has its
\* handlers, has not given up and met no scan stays connected.
StaysConnected == (<>[][link = "up" => link' = "up"]_vars /\ <>[][link = "trying" => link' # "down"]_vars
                   /\ <>[](wanted /\ Running /\ registered /\ ~missed /\ "FAIL" \notin bits)) => <>[](link = "up")
=============================================================================
