-------------------------------- MODULE Iperf --------------------------------
(***************************************************************************)
(* The iperf example (wifi/iperf): the console command starts and aborts   *)
(* measurements; each has a traffic task and, once there is traffic, a     *)
(* report task that ends it after its time.  All of them share the one     *)
(* s_iperf_ctrl.  The tasks of a session are told apart by its number.     *)
(***************************************************************************)
EXTENDS Naturals, FiniteSets

CONSTANTS Modes,        \* of "udp_client", "udp_server", "tcp_client", "tcp_server"
          Typed,        \* intervals and times given with a command: [interval, time], 0 for none
          DEFAULT_INTERVAL, DEFAULT_TIME,
          MaxSessions   \* bound: sessions started

VARIABLES console,   \* "idle" or "stopping": in iperf_stop
          running,   \* s_iperf_is_running
          ctrl,      \* s_iperf_ctrl: mode, turns (of a report), finish, buffer (allocated)
          last,      \* number of the last session started
          traffic,   \* where the traffic task of each session is
          report,    \* the report task of each session: "none", "loop", "delay"
          left,      \* intervals each report task has still to sleep
          open,      \* descriptors each session has open
          failed     \* history: a call that sets a session up failed
vars == <<console, running, ctrl, last, traffic, report, left, open, failed>>

Sessions == 1..MaxSessions
Init == /\ console = "idle" /\ running = FALSE /\ last = 0
        /\ ctrl = [mode |-> "none", turns |-> 0, finish |-> FALSE, buffer |-> FALSE]
        /\ traffic = [s \in Sessions |-> "none"] /\ report = [s \in Sessions |-> "none"]
        /\ left = [s \in Sessions |-> 0] /\ open = [s \in Sessions |-> 0]
        /\ failed = [s \in Sessions |-> FALSE]
-----------------------------------------------------------------------------
\* iperf_start: refused while running; with no memory for the buffer or the
\* task it returns with s_iperf_is_running still set.
iperf_start(mode, turns) ==
    /\ console = "idle" /\ ~running /\ last < MaxSessions
    /\ running' = TRUE /\ last' = last + 1
    /\ \/ /\ ctrl' = [mode |-> mode, turns |-> turns, finish |-> FALSE, buffer |-> TRUE]
          /\ traffic' = [traffic EXCEPT ![last + 1] = "socket"] /\ UNCHANGED failed
       \/ /\ ctrl' = [mode |-> mode, turns |-> turns, finish |-> FALSE, buffer |-> FALSE]
          /\ failed' = [failed EXCEPT ![last + 1] = TRUE] /\ UNCHANGED traffic
    /\ UNCHANGED <<console, report, left, open>>
\* wifi_cmd_iperf: what was not given has a default, and the time is one
\* interval at least; the report then sleeps until the time is reached.
wifi_cmd_iperf(mode, typed) ==
    LET interval == IF typed.interval = 0 THEN DEFAULT_INTERVAL ELSE typed.interval
        time == IF typed.time = 0 THEN DEFAULT_TIME ELSE IF typed.time <= interval THEN interval ELSE typed.time
    IN iperf_start(mode, (time + interval - 1) \div interval)
\* "iperf -a": iperf_stop asks the session to finish and waits until it has.
iperf_stop ==
    /\ console = "idle" /\ running /\ console' = "stopping"
    /\ ctrl' = [ctrl EXCEPT !.finish = TRUE]
    /\ UNCHANGED <<running, last, traffic, report, left, open, failed>>
StopReturns == /\ console = "stopping" /\ ~running /\ console' = "idle"
               /\ UNCHANGED <<running, ctrl, last, traffic, report, left, open, failed>>
-----------------------------------------------------------------------------
\* iperf_start_report, whose failure nobody looks at
StartReport(s) == \/ report' = [report EXCEPT ![s] = "loop"] /\ left' = [left EXCEPT ![s] = ctrl.turns]
                  \/ UNCHANGED <<report, left>>
Goto(s, pc) == traffic' = [traffic EXCEPT ![s] = pc]
At(s, mode, pc) == traffic[s] = pc /\ ctrl.mode = mode /\ UNCHANGED <<console, running, last>>

\* The set-up of iperf_run_*: socket, then bind and listen, or connect.  Only
\* the TCP server closes its socket when these fail.
Opens(s) == open' = [open EXCEPT ![s] = 1] /\ UNCHANGED <<ctrl, failed>>
SetUpFails(s, kept) == /\ \E n \in kept : open' = [open EXCEPT ![s] = n]
                       /\ failed' = [failed EXCEPT ![s] = TRUE] /\ Goto(s, "free")
                       /\ UNCHANGED <<ctrl, report, left>>
TcpServerSetUp(s) == /\ At(s, "tcp_server", "socket")
                     /\ \/ Opens(s) /\ Goto(s, "accept") /\ UNCHANGED <<report, left>>
                        \/ SetUpFails(s, {0})
UdpServerSetUp(s) == /\ At(s, "udp_server", "socket")
                     /\ \/ Opens(s) /\ Goto(s, "first") /\ UNCHANGED <<report, left>>
                        \/ SetUpFails(s, {0, 1})
UdpClientSetUp(s) == /\ At(s, "udp_client", "socket")
                     /\ \/ Opens(s) /\ Goto(s, "loop") /\ StartReport(s)
                        \/ SetUpFails(s, {0})
TcpClientSetUp(s) == /\ At(s, "tcp_client", "socket")
                     /\ \/ Opens(s) /\ Goto(s, "loop") /\ StartReport(s)
                        \/ SetUpFails(s, {0, 1})
\* The end of each: finish for the report task too, and every socket closed.
Finishing(s) == /\ ctrl' = [ctrl EXCEPT !.finish = TRUE] /\ Goto(s, "free")
                /\ open' = [open EXCEPT ![s] = 0] /\ UNCHANGED <<report, left, failed>>
\* The TCP server's outer loop: accept blocks until a client comes.
TcpServerAccept(s) ==
    /\ At(s, "tcp_server", "accept")
    /\ \/ ctrl.finish /\ Finishing(s)
       \/ /\ ~ctrl.finish /\ Goto(s, "loop") /\ open' = [open EXCEPT ![s] = 2]
          /\ StartReport(s) /\ UNCHANGED <<ctrl, failed>>
       \/ /\ ~ctrl.finish /\ Goto(s, "free") /\ open' = [open EXCEPT ![s] = 0]
          /\ UNCHANGED <<ctrl, report, left, failed>>
\* The inner loops.  They are left when finish is set or a call has failed (a
\* receive timeout is one); a transfer that works only counts.
TcpServerLeaves(s) == At(s, "tcp_server", "loop") /\ Finishing(s)
UdpClientLeaves(s) == At(s, "udp_client", "loop") /\ Finishing(s)
TcpClientLeaves(s) == At(s, "tcp_client", "loop") /\ Finishing(s)
\* The UDP server carries on after a failure; the first datagram starts the report.
UdpServerLeaves(s) == (\E pc \in {"first", "loop"} : At(s, "udp_server", pc)) /\ ctrl.finish /\ Finishing(s)
UdpServerFirst(s) == /\ At(s, "udp_server", "first") /\ ~ctrl.finish
                     /\ Goto(s, "loop") /\ StartReport(s) /\ UNCHANGED <<ctrl, open, failed>>
\* The flag first (a mutant).
FlagFirst(s) == /\ traffic[s] = "free" /\ running /\ running' = FALSE
                /\ UNCHANGED <<console, traffic, ctrl, last, report, left, open, failed>>
\* The end of iperf_task_traffic: the buffer first, then the flag.
FreeBuffer(s) == /\ traffic[s] = "free" /\ Goto(s, "exit") /\ ctrl' = [ctrl EXCEPT !.buffer = FALSE]
                 /\ UNCHANGED <<console, running, last, report, left, open, failed>>
Exit(s) == /\ traffic[s] = "exit" /\ Goto(s, "none") /\ running' = FALSE
           /\ UNCHANGED <<console, ctrl, last, report, left, open, failed>>
\* iperf_report_task: sleep an interval unless finished; at its time, or when
\* finished, set finish and go.
ReportEnds(s) ==
    /\ report[s] = "loop" /\ (ctrl.finish \/ left[s] = 0)
    /\ report' = [report EXCEPT ![s] = "none"] /\ ctrl' = [ctrl EXCEPT !.finish = TRUE]
    /\ UNCHANGED <<console, running, last, traffic, left, open, failed>>
ReportSleeps(s) == /\ report[s] = "loop" /\ ~ctrl.finish /\ left[s] > 0
                   /\ report' = [report EXCEPT ![s] = "delay"]
                   /\ UNCHANGED <<console, running, ctrl, last, traffic, left, open, failed>>
ReportWakes(s) == /\ report[s] = "delay"
                  /\ report' = [report EXCEPT ![s] = "loop"] /\ left' = [left EXCEPT ![s] = @ - 1]
                  /\ UNCHANGED <<console, running, ctrl, last, traffic, open, failed>>

iperf_run_tcp_server(s) == TcpServerSetUp(s) \/ TcpServerAccept(s) \/ TcpServerLeaves(s)
iperf_run_udp_server(s) == UdpServerSetUp(s) \/ UdpServerFirst(s) \/ UdpServerLeaves(s)
iperf_run_udp_client(s) == UdpClientSetUp(s) \/ UdpClientLeaves(s)
iperf_run_tcp_client(s) == TcpClientSetUp(s) \/ TcpClientLeaves(s)
iperf_task_traffic(s) == \/ iperf_run_tcp_server(s) \/ iperf_run_udp_server(s)
                         \/ iperf_run_udp_client(s) \/ iperf_run_tcp_client(s)
                         \/ FreeBuffer(s) \/ Exit(s)
iperf_report_task(s) == ReportEnds(s) \/ ReportSleeps(s) \/ ReportWakes(s)
Next == \/ \E mode \in Modes, typed \in Typed : wifi_cmd_iperf(mode, typed)
        \/ iperf_stop \/ StopReturns
        \/ \E s \in Sessions : iperf_task_traffic(s) \/ iperf_report_task(s)
\* Tasks that can run do, and a loop sees finish; a TCP client's send may block for ever, accept and
\* a UDP server's first datagram too.
Prompt(s) == \/ TcpServerSetUp(s) \/ UdpServerSetUp(s) \/ UdpClientSetUp(s) \/ TcpClientSetUp(s)
             \/ (ctrl.finish /\ (TcpServerLeaves(s) \/ UdpServerLeaves(s) \/ UdpClientLeaves(s)))
             \/ FreeBuffer(s) \/ Exit(s)
\* What is prompt happens, and a report task goes on.
Fairness == \A s \in Sessions : WF_vars(Prompt(s)) /\ WF_vars(iperf_report_task(s))
Spec == Init /\ [][Next]_vars /\ Fairness
-----------------------------------------------------------------------------
TypeOK == /\ console \in {"idle", "stopping"} /\ running \in BOOLEAN /\ last \in 0..MaxSessions
          /\ ctrl \in [mode : Modes \cup {"none"}, turns : Nat, finish : BOOLEAN, buffer : BOOLEAN]
          /\ traffic \in [Sessions -> {"none", "socket", "accept", "first", "loop", "free", "exit"}]
          /\ report \in [Sessions -> {"none", "loop", "delay"}] /\ \A s \in Sessions : left[s] \in 0..ctrl.turns \/ s < last
          /\ open \in [Sessions -> 0..2]
\* One session at a time uses s_iperf_ctrl, and its buffer is there while it
\* does: a new one cannot start before the old one has freed its own (365-370).
BufferInUse == \A s \in Sessions : traffic[s] \in {"socket", "accept", "first", "loop"} =>
    ctrl.buffer /\ \A t \in Sessions \ {s} : traffic[t] = "none"
\* A session that was set up leaves no descriptor open, however it ended.
ClosesItsSockets == \A s \in Sessions : traffic[s] = "none" => failed[s] \/ open[s] = 0
\* A measurement that has a report task ends by itself; a TCP client may be
\* stuck in send.
ReportedSessionEnds == \A s \in Sessions :
    (traffic[s] = "loop" /\ report[s] # "none" /\ ctrl.mode # "tcp_client") ~> traffic[s] = "none"
=============================================================================
