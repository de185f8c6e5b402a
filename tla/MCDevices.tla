------------------------------ MODULE MCDevices ------------------------------
(*****************************************************************************)
(* The examples of the station, its provisioning, the firmware update,       *)
(* ESP-NOW and iperf, the button of the programs of their own, and the SPI   *)
(* link, whose module is extended. A board, or the two boards of an          *)
(* example, runs one of them, which; the variables of the others stay as     *)
(* they are. The sizes are small against those of the code and keep their    *)
(* order: a receive buffer that cuts the lines of a header, chunks that do   *)
(* not divide what is written, a queue that fills.                           *)
(*****************************************************************************)
EXTENDS SpiLink, TLC

VARIABLE which   \* the example that runs: none of the others is there
VARIABLES app, station_main, started, station_link, scanning, station_events, bits, group,
          station_registered, station_retry, reconnect, setup, wanted, missed, tries
VARIABLES provisioning_main, g_prov, wifi_state, reason, provisioning_timer, stopper, service,
          provisioning_registered, ctx, flash, apsta, provisioning_link, on, provisioning_events,
          provisioning_retry, provisioning_boots, sets, failure, connected, asked, late, refused
VARIABLES console, running, ctrl, last, traffic, report, left, open, iperf_failed
VARIABLES file, pc, ota_wifi, ota_firm, taken, net, partition, boot, ota_boots, trouble
VARIABLES espnow_task, param, queue, espnow_wifi, air, peers, sent, espnow_failed
VARIABLES down, button_task, button_timer, hold_time, nvs, pressed, released, since

stationVars == <<app, station_main, started, station_link, scanning, station_events, bits, group,
                 station_registered, station_retry, reconnect, setup, wanted, missed, tries>>
provisioningVars == <<provisioning_main, g_prov, wifi_state, reason, provisioning_timer, stopper,
                      service, provisioning_registered, ctx, flash, apsta, provisioning_link, on,
                      provisioning_events, provisioning_retry, provisioning_boots, sets, failure,
                      connected, asked, late, refused>>
iperfVars == <<console, running, ctrl, last, traffic, report, left, open, iperf_failed>>
otaVars == <<file, pc, ota_wifi, ota_firm, taken, net, partition, boot, ota_boots, trouble>>
espnowVars == <<espnow_task, param, queue, espnow_wifi, air, peers, sent, espnow_failed>>
buttonVars == <<down, button_task, button_timer, hold_time, nvs, pressed, released, since>>

File(variant, content_len, skip, update) ==
    [variant |-> variant, content_len |-> content_len, skip |-> skip, ota_num |-> 2, update |-> update]
NoCopy(update) == File("no_copy", 8, 3, update)
Files == {File("copy", 5, 0, 0), File("with_old", 7, 3, 1), NoCopy(0), NoCopy(1)}
Nodes == {"n1", "n2"}
SameMagic   == [n \in Nodes |-> 1]
BiggerMagic == "n1" :> 1 @@ "n2" :> 2
EspNowStart == [n \in Nodes |-> [unicast |-> FALSE, broadcast |-> TRUE, state |-> 0, magic |-> 1,
                                 count |-> 2, dest_mac |-> "broadcast"]]

WifiStation == INSTANCE WifiStation WITH
    Apps <- {"station", "connect", "wpa2", "roaming", "console", "iperf", "smartconfig", "wps"},
    MAX_RETRY <- 2, MaxEvents <- 2, main <- station_main, link <- station_link,
    events <- station_events, registered <- station_registered, retry <- station_retry
SoftApProv == INSTANCE SoftApProv WITH
    ATTEMPTS <- 1, MaxBoots <- 2, MaxSets <- 2, MaxEvents <- 2, main <- provisioning_main,
    timer <- provisioning_timer, registered <- provisioning_registered, link <- provisioning_link,
    events <- provisioning_events, retry <- provisioning_retry, boots <- provisioning_boots
Iperf == INSTANCE Iperf WITH
    Modes <- {"udp_client", "udp_server", "tcp_client", "tcp_server"},
    Typed <- {[interval |-> 1, time |-> 2], [interval |-> 0, time |-> 2]}, DEFAULT_INTERVAL <- 3,
    DEFAULT_TIME <- 30, MaxSessions <- 2, failed <- iperf_failed
NativeOta == INSTANCE NativeOta WITH
    TEXT_BUFFSIZE <- 4, Files <- Files, MaxBoots <- 2, wifi <- ota_wifi, boots <- ota_boots
EspNow == INSTANCE EspNow WITH
    Nodes <- Nodes, SEND_COUNT <- 2, Draws <- {SameMagic, BiggerMagic}, QUEUE_SIZE <- 1,
    RX_BUFFERS <- 2, task <- espnow_task, wifi <- espnow_wifi, failed <- espnow_failed
ResetButton == INSTANCE ResetButton WITH
    THRESHOLD <- 3, INTERVAL <- 2, DELAY <- 1, task <- button_task, timer <- button_timer

ASSUME ResetButtonAssumption == ResetButton!ButtonAssumption

(* Where the others start does not matter. *)
Pin(example, var, value) == which = example \/ var = value

DevicesInit ==
    /\ which \in {"spi", "station", "provisioning", "iperf", "ota", "espnow", "button"}
    /\ Init /\ Pin("spi", mode, "send")
    /\ WifiStation!Init /\ Pin("station", app, "station")
    /\ SoftApProv!Init
    /\ Iperf!Init
    /\ NativeOta!Init /\ Pin("ota", file, NoCopy(0))
    /\ EspNow!Init /\ Pin("espnow", param, EspNowStart)
    /\ ResetButton!Init

DevicesNext ==
    \/ which = "spi" /\ Next /\ UNCHANGED <<which, stationVars, provisioningVars, iperfVars, otaVars, espnowVars, buttonVars>>
    \/ which = "station" /\ WifiStation!Next /\ UNCHANGED <<which, vars, provisioningVars, iperfVars, otaVars, espnowVars, buttonVars>>
    \/ which = "provisioning" /\ SoftApProv!Next /\ UNCHANGED <<which, vars, stationVars, iperfVars, otaVars, espnowVars, buttonVars>>
    \/ which = "iperf" /\ Iperf!Next /\ UNCHANGED <<which, vars, stationVars, provisioningVars, otaVars, espnowVars, buttonVars>>
    \/ which = "ota" /\ NativeOta!Next /\ UNCHANGED <<which, vars, stationVars, provisioningVars, iperfVars, espnowVars, buttonVars>>
    \/ which = "espnow" /\ EspNow!Next /\ UNCHANGED <<which, vars, stationVars, provisioningVars, iperfVars, otaVars, buttonVars>>
    \/ which = "button" /\ ResetButton!Next /\ UNCHANGED <<which, vars, stationVars, provisioningVars, iperfVars, otaVars, espnowVars>>

(* The fairness of each module, for the example that runs. *)
DevicesFairness ==
    /\ WF_vars(which = "spi" /\ MasterIsr)
    /\ WF_vars(which = "spi" /\ SlaveIsr)
    /\ WF_vars(which = "spi" /\ Writer)
    /\ WF_vars(which = "spi" /\ Reader)
    /\ WF_stationVars(which = "station" /\ WifiStation!EventTask)
    /\ WF_stationVars(which = "station" /\ WifiStation!AttemptEnds)
    /\ WF_stationVars(which = "station" /\ WifiStation!ScanEnds)
    /\ WF_stationVars(which = "station" /\ WifiStation!Boot)
    /\ WF_stationVars(which = "station" /\ WifiStation!Task)
    /\ WF_provisioningVars(which = "provisioning" /\ SoftApProv!EventTask)
    /\ WF_provisioningVars(which = "provisioning" /\ SoftApProv!StopCallback)
    /\ WF_provisioningVars(which = "provisioning" /\ SoftApProv!stop_prov_task)
    /\ \A s \in Iperf!Sessions : WF_iperfVars(which = "iperf" /\ Iperf!Prompt(s))
    /\ \A s \in Iperf!Sessions : WF_iperfVars(which = "iperf" /\ Iperf!iperf_report_task(s))
    /\ WF_otaVars(which = "ota" /\ NativeOta!TaskStep)
    /\ \A n \in Nodes : WF_espnowVars(which = "espnow" /\ EspNow!TaskStep(n))
    /\ \A n \in Nodes : WF_espnowVars(which = "espnow" /\ EspNow!Radio(n))
    /\ \A n \in Nodes : WF_espnowVars(which = "espnow" /\ EspNow!Post(n))
    /\ \A n \in Nodes : SF_espnowVars(which = "espnow" /\ EspNow!GetsThrough(n))

DevicesSpec == DevicesInit /\ [][DevicesNext]_<<which, vars, stationVars, provisioningVars, iperfVars, otaVars, espnowVars, buttonVars>> /\ DevicesFairness
-----------------------------------------------------------------------------

\* The phone is told what became of the station; with an address the service
\* ends by itself, if there is memory for its task, and g_prov is freed when
\* no request or event can reach it; the provisioned station gives up after
\* its attempts only.
ProvisioningEndsWell ==
    /\ (which = "provisioning" => [](SoftApProv!TypeOK /\
                                     SoftApProv!StatusMatches /\
                                     SoftApProv!FreedLast /\
                                     SoftApProv!StationKeepsTrying))
    /\ (which = "provisioning" => SoftApProv!ProvisioningEnds)

\* One iperf session at a time uses s_iperf_ctrl and its buffer, leaves no
\* descriptor open once it was set up, and with a report ends by itself.
IperfEndsWell ==
    /\ (which = "iperf" => [](Iperf!TypeOK /\ Iperf!BufferInUse /\ Iperf!ClosesItsSockets))
    /\ (which = "iperf" => Iperf!ReportedSessionEnds)

\* The update partition holds a beginning of the image however the response
\* is cut, and an update with nothing in its way completes.
UpdateIsWhole ==
    /\ (which = "ota" => [](NativeOta!TypeOK /\ NativeOta!WritesTheImage))
    /\ (which = "ota" => NativeOta!UpdateCompletes)

\* What is written into the SPI link arrives, and the HANDSHAKE line keeps
\* the master from overwriting a chunk that the slave has not handled.
SpiDelivers == OneChunkAtATime /\ (which = "spi" => AllArrives)

\* Of two ESP-NOW devices the one with the bigger magic number sends, to a
\* peer that can decrypt, exactly SEND_COUNT frames; one of them gets to do
\* so whatever is lost, and the other falls silent.
EspNowElects ==
    /\ (which = "espnow" => [](EspNow!TypeOK /\
                               EspNow!UnicastUnderstood /\
                               EspNow!SendsExactly))
    /\ (which = "espnow" => EspNow!ElectionEnds)
    /\ (which = "espnow" => EspNow!ReceiverFallsSilent)

\* A press of the threshold resets wherever in an interval it begins, and a
\* reset comes at least an interval less than the threshold after the last
\* release that can be seen.
ButtonResets ==
    /\ (which = "button" => [](ResetButton!TypeOK /\ ResetButton!LongPressResets))
    /\ ResetButton!NoEarlyReset
=============================================================================
