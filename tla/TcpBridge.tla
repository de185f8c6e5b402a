------------------------------ MODULE TcpBridge ------------------------------
(***************************************************************************)
(* The sessions of the TCP bridge (tcp_bridge.c): tcp_server_task accepts  *)
(* one client at a time and starts two tasks for it, tcp_to_uart_task and  *)
(* buffer_to_tcp_task, which share with it the structure ctx on its stack. *)
(* Either task ends the session by giving exit_sem ONCE for the server;    *)
(* the server then closes the socket, sleeps 500 ms for the tasks to be    *)
(* gone, deletes the semaphore and uses the same ctx for the next client.  *)
(* Nothing but that delay keeps a task of the old session off the          *)
(* semaphore and the ctx of the new one.                                   *)
(*                                                                         *)
(* Time is counted in ticks of 50 ms.  Running code takes no time: a tick  *)
(* passes only when every task waits.  The offline cache is LossyFifo,     *)
(* which UartCache implements.                                             *)
(***************************************************************************)
EXTENDS Integers, Sequences, FiniteSets, SeqEnds

CONSTANTS
    MaxSessions,    \* bound: clients that connect
    Fds,            \* LWIP_MAX_SOCKETS descriptors, 0 .. Fds - 1
    MaxHttp,        \* bound: connections the web server of wifi_prov.c gets
    Capacity,       \* UART_CACHE_SIZE
    ChunkMax,       \* BUF_SIZE
    MaxBytes,       \* bound: length of the serial stream
    MaxDown,        \* bound: chunks one client sends
    Grace,          \* ticks of the server's delay before it deletes exit_sem
    Poll,           \* ticks of the sender's delay on an empty cache
    UartTicks,      \* ticks uart_write_bytes of one chunk takes at most
    Wake,           \* ticks recv or send takes to return after close, at most
    Backoff,        \* ticks of the delay after a failed accept
    CreateMayFail,  \* xTaskCreate finds no memory, sometimes
    MallocMayFail   \* malloc of a task's buffer fails, sometimes

ASSUME SessionAssumption == MaxSessions \in Nat /\ Fds \in Nat \ {0} /\ MaxHttp \in Nat
ASSUME DataAssumption == /\ Capacity \in Nat \ {0} /\ ChunkMax \in Nat \ {0}
                         /\ MaxBytes \in Nat /\ MaxDown \in Nat
ASSUME TimeAssumption == /\ {Grace, Poll, UartTicks, Wake, Backoff} \subseteq Nat
                         /\ Poll > 0 /\ Poll < Grace
                         /\ UartTicks < Grace /\ Wake < Grace
ASSUME FailAssumption == {CreateMayFail, MallocMayFail} \subseteq BOOLEAN

Sessions == 1..MaxSessions

VARIABLES
    server,     \* tcp_server_task: where it is, and its delay
    cur,        \* clients accepted so far; the last one is client cur
    ctx,        \* bridge_context_t ctx: ONE structure, reused by every session;
                \*   a semaphore is named by the session it was created for
    given,      \* gives of each exit_sem that have not been taken
    deleted,    \* the semaphores deleted
    rx,         \* tcp_to_uart_task of each session: where it is, the connection
                \*   its recv is on, and its delay
    tx,         \* buffer_to_tcp_task of each session, likewise for send
    owner,      \* what each descriptor is open on
    peer,       \* each client: "away", "open", "left" (closed or reset its
                \*   end), "silent" (gone without a packet)
    arrived,    \* clients that have connected so far
    outbox,     \* chunks each client has still to send, and connections (Http)
                \*   the web server has still to get
    inbox,      \* chunks that arrived from each client, not yet received
    queue,      \* the cache
    received,   \* bytes of the serial stream written to the cache
    chunk,      \* what each sender got from rb_read
    sent        \* history: the bytes send() has accepted, in order

serverVars == <<server, cur>>
ctxVars    == <<ctx, given, deleted>>
netVars    == <<owner, peer, arrived, outbox, inbox>>
cacheVars  == <<queue, received, chunk, sent>>
vars       == <<serverVars, ctxVars, rx, tx, netVars, cacheVars>>

Cache == INSTANCE LossyFifo WITH Readers <- Sessions, next <- received

(* What a descriptor is open on: a client (its number), or one of these.   *)
Nothing  == 0
Listener == -1
Http     == -2

NoTask == [pc |-> "none", on |-> Nothing, t |-> 0]

(* Before the server's task runs; the clients will send down chunks each   *)
(* and the web server will get web connections.                            *)
Start(down, web) == /\ server = [pc |-> "socket", t |-> 0]
                    /\ cur = 0
                    /\ ctx = [sock |-> 0, sem |-> 0, running |-> FALSE]
                    /\ given = [s \in Sessions |-> 0]
                    /\ deleted = {}
                    /\ rx = [s \in Sessions |-> NoTask]
                    /\ tx = [s \in Sessions |-> NoTask]
                    /\ owner = [fd \in 0..(Fds - 1) |-> Nothing]
                    /\ peer = [s \in Sessions |-> "away"]
                    /\ arrived = 0
                    /\ outbox = [s \in Sessions \cup {Http} |-> IF s = Http THEN web ELSE down]
                    /\ inbox = [s \in Sessions |-> 0]
                    /\ sent = <<>>

Init == Start(MaxDown, MaxHttp) /\ Cache!Init
-----------------------------------------------------------------------------
(* Descriptors: lwIP hands out the lowest free one.  (External.)           *)
FreeFds     == {fd \in DOMAIN owner : owner[fd] = Nothing}
LowestFree  == CHOOSE fd \in FreeFds : \A g \in FreeFds : fd <= g
SockOpen(s) == \E fd \in DOMAIN owner : owner[fd] = s

(* socket, bind and listen.                                                *)
OpenListener == /\ server.pc = "socket"
                /\ \/ /\ FreeFds # {}
                      /\ owner' = [owner EXCEPT ![LowestFree] = Listener]
                      /\ server' = [server EXCEPT !.pc = "accept"]
                   \/ /\ FreeFds = {}
                      /\ server' = [server EXCEPT !.pc = "ended"]
                      /\ UNCHANGED owner
                /\ UNCHANGED <<cur, ctxVars, rx, tx, peer, arrived, outbox, inbox, cacheVars>>

Accept == /\ server.pc = "accept"
          /\ cur < arrived
          /\ FreeFds # {}
          /\ cur' = cur + 1
          /\ owner' = [owner EXCEPT ![LowestFree] = cur + 1]
          /\ server' = [server EXCEPT !.pc = "setup"]
          /\ UNCHANGED <<ctxVars, rx, tx, peer, arrived, outbox, inbox, cacheVars>>

(* No descriptor for the client: lwIP drops it and accept returns -1.      *)
AcceptFails == /\ server.pc = "accept"
               /\ cur < arrived
               /\ FreeFds = {}
               /\ cur' = cur + 1
               /\ peer' = [peer EXCEPT ![cur + 1] = "left"]
               /\ server' = [pc |-> "backoff", t |-> Backoff]
               /\ UNCHANGED <<ctxVars, rx, tx, owner, arrived, outbox, inbox, cacheVars>>

BackoffDone == /\ server.pc = "backoff" /\ server.t = 0
               /\ server' = [server EXCEPT !.pc = "accept"]
               /\ UNCHANGED <<cur, ctxVars, rx, tx, netVars, cacheVars>>

SetUpContext == /\ server.pc = "setup"
                /\ ctx' = [sock |-> CHOOSE fd \in DOMAIN owner : owner[fd] = cur,
                           sem |-> cur, running |-> TRUE]
                /\ server' = [server EXCEPT !.pc = "create_rx"]
                /\ UNCHANGED <<cur, given, deleted, rx, tx, netVars, cacheVars>>

(* xTaskCreate twice; the code does not look at its results.               *)
CreateRx == /\ server.pc = "create_rx"
            /\ \/ rx' = [rx EXCEPT ![cur].pc = "start"]
               \/ CreateMayFail /\ UNCHANGED rx
            /\ server' = [server EXCEPT !.pc = "create_tx"]
            /\ UNCHANGED <<cur, ctxVars, tx, netVars, cacheVars>>

CreateTx == /\ server.pc = "create_tx"
            /\ \/ tx' = [tx EXCEPT ![cur].pc = "start"]
               \/ CreateMayFail /\ UNCHANGED tx
            /\ server' = [server EXCEPT !.pc = "wait"]
            /\ UNCHANGED <<cur, ctxVars, rx, netVars, cacheVars>>

TakeExitSem == /\ server.pc = "wait"
               /\ given[cur] > 0
               /\ given' = [given EXCEPT ![cur] = @ - 1]
               /\ server' = [server EXCEPT !.pc = "stop"]
               /\ UNCHANGED <<cur, ctx, deleted, rx, tx, netVars, cacheVars>>

StopTasks == /\ server.pc = "stop"
             /\ ctx' = [ctx EXCEPT !.running = FALSE]
             /\ server' = [server EXCEPT !.pc = "close"]
             /\ UNCHANGED <<cur, given, deleted, rx, tx, netVars, cacheVars>>

(* A task inside recv or send of the connection being closed returns       *)
(* within Wake ticks.                                                      *)
WokenBy(s, task) == IF task.on = s THEN [task EXCEPT !.t = Wake] ELSE task

(* The clean-up below without shutdown and close, and with no delay before *)
(* the semaphore goes (mutants).                                           *)
CloseSocketForgotten == /\ server.pc = "close"
                        /\ server' = [pc |-> "grace", t |-> Grace]
                        /\ UNCHANGED <<cur, ctxVars, rx, tx, netVars, cacheVars>>

CloseSocketNoGrace == /\ server.pc = "close"
                      /\ owner' = [owner EXCEPT ![ctx.sock] = Nothing]
                      /\ rx' = [s \in Sessions |-> WokenBy(cur, rx[s])]
                      /\ tx' = [s \in Sessions |-> WokenBy(cur, tx[s])]
                      /\ server' = [pc |-> "grace", t |-> 0]
                      /\ UNCHANGED <<cur, ctxVars, peer, arrived, outbox, inbox, cacheVars>>

(* shutdown and close, then the delay.                                     *)
CloseSocket == /\ server.pc = "close"
               /\ owner' = [owner EXCEPT ![ctx.sock] = Nothing]
               /\ rx' = [s \in Sessions |-> WokenBy(cur, rx[s])]
               /\ tx' = [s \in Sessions |-> WokenBy(cur, tx[s])]
               /\ server' = [pc |-> "grace", t |-> Grace]
               /\ UNCHANGED <<cur, ctxVars, peer, arrived, outbox, inbox, cacheVars>>

DeleteExitSem == /\ server.pc = "grace" /\ server.t = 0
                 /\ deleted' = deleted \cup {cur}
                 /\ server' = [server EXCEPT !.pc = "accept"]
                 /\ UNCHANGED <<cur, ctx, given, rx, tx, netVars, cacheVars>>

ServerStep == \/ OpenListener \/ Accept \/ AcceptFails \/ BackoffDone
              \/ SetUpContext \/ CreateRx \/ CreateTx
              \/ TakeExitSem \/ StopTasks \/ CloseSocket \/ DeleteExitSem
-----------------------------------------------------------------------------
(* What the two tasks of a session have in common: where they read ctx and *)
(* the semaphore, which are those of session ctx.sem.                      *)
RxGoes(s, pc) == rx' = [rx EXCEPT ![s] = [NoTask EXCEPT !.pc = pc]]
TxGoes(s, pc) == tx' = [tx EXCEPT ![s] = [NoTask EXCEPT !.pc = pc]]

GiveExitSem == /\ given' = [given EXCEPT ![ctx.sem] = IF @ < 2 THEN @ + 1 ELSE @]
               /\ UNCHANGED <<ctx, deleted>>

StopRunning == /\ ctx' = [ctx EXCEPT !.running = FALSE]
               /\ UNCHANGED <<given, deleted>>

(* tcp_to_uart_task: malloc of the buffer; when it fails the task gives    *)
(* exit_sem at once and leaves running as it is.                           *)
RxStart(s) == /\ rx[s].pc = "start"
              /\ \/ RxGoes(s, "check")
                 \/ MallocMayFail /\ RxGoes(s, "give")
              /\ UNCHANGED <<serverVars, ctxVars, tx, netVars, cacheVars>>

RxCheck(s) == /\ rx[s].pc = "check"
              /\ RxGoes(s, IF ctx.running THEN "call" ELSE "exit")
              /\ UNCHANGED <<serverVars, ctxVars, tx, netVars, cacheVars>>

(* recv looks its descriptor up: on a free one it fails at once.           *)
RxCall(s) == /\ rx[s].pc = "call"
             /\ IF owner[ctx.sock] = Nothing
                THEN RxGoes(s, "exit")
                ELSE rx' = [rx EXCEPT ![s] = [pc |-> "recv", on |-> owner[ctx.sock], t |-> 0]]
             /\ UNCHANGED <<serverVars, ctxVars, tx, netVars, cacheVars>>

(* recv returns bytes of the client, and uart_write_bytes starts.          *)
RxData(s) == /\ rx[s].pc = "recv"
             /\ \/ /\ rx[s].on \in Sessions
                   /\ SockOpen(rx[s].on) /\ inbox[rx[s].on] > 0
                   /\ inbox' = [inbox EXCEPT ![rx[s].on] = @ - 1]
                \/ rx[s].on = Http /\ UNCHANGED inbox
             /\ \E t \in 0..UartTicks :
                    rx' = [rx EXCEPT ![s] = [NoTask EXCEPT !.pc = "uart", !.t = t]]
             /\ UNCHANGED <<serverVars, ctxVars, tx, owner, peer, arrived, outbox, cacheVars>>

(* The loop below going on after recv returned 0 (a mutant). *)
RxEndIgnored(s) == /\ rx[s].pc = "recv"
                   /\ rx[s].on \in Sessions /\ (peer[rx[s].on] = "left" \/ ~SockOpen(rx[s].on))
                   /\ RxGoes(s, "check")
                   /\ UNCHANGED <<serverVars, ctxVars, tx, netVars, cacheVars>>

(* recv returns 0 or -1: the client closed or reset, or the server closed. *)
RxEnd(s) == /\ rx[s].pc = "recv"
            /\ \/ rx[s].on = Http
               \/ rx[s].on \in Sessions /\ (peer[rx[s].on] = "left" \/ ~SockOpen(rx[s].on))
            /\ RxGoes(s, "exit")
            /\ UNCHANGED <<serverVars, ctxVars, tx, netVars, cacheVars>>

RxUartDone(s) == /\ rx[s].pc = "uart" /\ rx[s].t = 0
                 /\ RxGoes(s, "check")
                 /\ UNCHANGED <<serverVars, ctxVars, tx, netVars, cacheVars>>

RxExit(s) == /\ rx[s].pc = "exit"
             /\ StopRunning
             /\ RxGoes(s, "give")
             /\ UNCHANGED <<serverVars, tx, netVars, cacheVars>>

RxGive(s) == /\ rx[s].pc = "give"
             /\ GiveExitSem
             /\ RxGoes(s, "gone")
             /\ UNCHANGED <<serverVars, tx, netVars, cacheVars>>

RxStep(s) == \/ RxStart(s) \/ RxCheck(s) \/ RxCall(s) \/ RxData(s) \/ RxEnd(s)
             \/ RxUartDone(s) \/ RxExit(s) \/ RxGive(s)
-----------------------------------------------------------------------------
(* buffer_to_tcp_task, likewise.                                           *)
TxStart(s) == /\ tx[s].pc = "start"
              /\ \/ TxGoes(s, "check")
                 \/ MallocMayFail /\ TxGoes(s, "give")
              /\ UNCHANGED <<serverVars, ctxVars, rx, netVars, cacheVars>>

TxCheck(s) == /\ tx[s].pc = "check"
              /\ TxGoes(s, IF ctx.running THEN "read" ELSE "exit")
              /\ UNCHANGED <<serverVars, ctxVars, rx, netVars, cacheVars>>

(* rb_read; with nothing cached the task sleeps, and does not send.        *)
TxRead(s) == /\ tx[s].pc = "read"
             /\ Cache!Read(s)
             /\ IF queue = <<>>
                THEN tx' = [tx EXCEPT ![s] = [NoTask EXCEPT !.pc = "poll", !.t = Poll]]
                ELSE TxGoes(s, "call")
             /\ UNCHANGED <<serverVars, ctxVars, rx, netVars, sent>>

TxPollDone(s) == /\ tx[s].pc = "poll" /\ tx[s].t = 0
                 /\ TxGoes(s, "check")
                 /\ UNCHANGED <<serverVars, ctxVars, rx, netVars, cacheVars>>

(* send looks its descriptor up: on a free one it fails, and the bytes     *)
(* rb_read took out of the cache are gone.                                 *)
TxCall(s) == /\ tx[s].pc = "call"
             /\ \/ /\ owner[ctx.sock] = Nothing
                   /\ TxGoes(s, "exit")
                   /\ Cache!Consume(s)
                \/ /\ owner[ctx.sock] # Nothing
                   /\ tx' = [tx EXCEPT ![s] = [pc |-> "send", on |-> owner[ctx.sock], t |-> 0]]
                   /\ UNCHANGED <<queue, received, chunk>>
             /\ UNCHANGED <<serverVars, ctxVars, rx, netVars, sent>>

(* A send that takes one byte less, with the rest not sent again (a        *)
(* mutant).                                                                *)
TxSendShort(s) == /\ tx[s].pc = "send"
                  /\ tx[s].on = Http \/ SockOpen(tx[s].on)
                  /\ sent' = sent \o Prefix(chunk[s], Len(chunk[s]) - 1)
                  /\ Cache!Consume(s)
                  /\ TxGoes(s, "check")
                  /\ UNCHANGED <<serverVars, ctxVars, rx, netVars>>

(* send returns what it was given.  To a client that is gone it may do so  *)
(* until its TCP connection notices.                                       *)
TxSendOk(s) == /\ tx[s].pc = "send"
               /\ tx[s].on = Http \/ SockOpen(tx[s].on)
               /\ sent' = sent \o chunk[s]
               /\ Cache!Consume(s)
               /\ TxGoes(s, "check")
               /\ UNCHANGED <<serverVars, ctxVars, rx, netVars>>

(* send returns -1: the client is gone, or the server closed.              *)
TxSendFails(s) == /\ tx[s].pc = "send"
                  /\ \/ tx[s].on = Http
                     \/ tx[s].on \in Sessions /\ (peer[tx[s].on] # "open" \/ ~SockOpen(tx[s].on))
                  /\ Cache!Consume(s)
                  /\ TxGoes(s, "exit")
                  /\ UNCHANGED <<serverVars, ctxVars, rx, netVars, sent>>

TxExit(s) == /\ tx[s].pc = "exit"
             /\ StopRunning
             /\ TxGoes(s, "give")
             /\ UNCHANGED <<serverVars, rx, netVars, cacheVars>>

TxGive(s) == /\ tx[s].pc = "give"
             /\ GiveExitSem
             /\ TxGoes(s, "gone")
             /\ UNCHANGED <<serverVars, rx, netVars, cacheVars>>

TxStep(s) == \/ TxStart(s) \/ TxCheck(s) \/ TxRead(s) \/ TxPollDone(s) \/ TxCall(s)
             \/ TxSendFails(s) \/ TxExit(s) \/ TxGive(s)
-----------------------------------------------------------------------------
(* The serial line, the clients and the web server.                        *)

(* uart_rx_daemon_task stores the next n bytes.                            *)
UartIn(n) == /\ Cache!Write(n)
             /\ UNCHANGED <<serverVars, ctxVars, rx, tx, netVars, sent>>

(* A client connects; the listen backlog holds one that is not accepted.   *)
ClientConnects == /\ server.pc \notin {"socket", "ended"}
                  /\ arrived < MaxSessions
                  /\ arrived - cur < 1
                  /\ arrived' = arrived + 1
                  /\ peer' = [peer EXCEPT ![arrived + 1] = "open"]
                  /\ UNCHANGED <<serverVars, ctxVars, rx, tx, owner, outbox, inbox, cacheVars>>

ClientSends(s) == /\ peer[s] = "open"
                  /\ outbox[s] > 0
                  /\ outbox' = [outbox EXCEPT ![s] = @ - 1]
                  /\ inbox' = [inbox EXCEPT ![s] = @ + 1]
                  /\ UNCHANGED <<serverVars, ctxVars, rx, tx, owner, peer, arrived, cacheVars>>

ClientGoes(s, how) == /\ peer[s] = "open"
                      /\ peer' = [peer EXCEPT ![s] = how]
                      /\ UNCHANGED <<serverVars, ctxVars, rx, tx, owner, arrived, outbox, inbox, cacheVars>>

HttpOpens == /\ outbox[Http] > 0
             /\ outbox' = [outbox EXCEPT ![Http] = @ - 1]
             /\ FreeFds # {}
             /\ owner' = [owner EXCEPT ![LowestFree] = Http]
             /\ UNCHANGED <<serverVars, ctxVars, rx, tx, peer, arrived, inbox, cacheVars>>

HttpCloses(fd) == /\ owner[fd] = Http
                  /\ owner' = [owner EXCEPT ![fd] = Nothing]
                  /\ UNCHANGED <<serverVars, ctxVars, rx, tx, peer, arrived, outbox, inbox, cacheVars>>
-----------------------------------------------------------------------------
(* Time passes when every task waits: for its delay, for a client, for the *)
(* semaphore, or inside recv, uart_write_bytes or send.                    *)
ServerWaits == \/ server.pc = "ended"
               \/ server.pc = "accept" /\ cur = arrived
               \/ server.pc \in {"backoff", "grace"} /\ server.t > 0
               \/ server.pc = "wait" /\ given[cur] = 0

RxWaits(s) == \/ rx[s].pc \in {"none", "gone"}
              \/ rx[s].pc = "uart" /\ rx[s].t > 0
              \/ /\ rx[s].pc = "recv" /\ rx[s].on \in Sessions
                 /\ IF SockOpen(rx[s].on) THEN inbox[rx[s].on] = 0 /\ peer[rx[s].on] # "left"
                                          ELSE rx[s].t > 0
              \/ rx[s].pc = "recv" /\ rx[s].on = Http

TxWaits(s) == \/ tx[s].pc \in {"none", "gone"}
              \/ tx[s].pc = "poll" /\ tx[s].t > 0
              \/ /\ tx[s].pc = "send" /\ tx[s].on \in Sessions
                 /\ SockOpen(tx[s].on) \/ tx[s].t > 0
              \/ tx[s].pc = "send" /\ tx[s].on = Http

Delays == {server.t} \cup {rx[s].t : s \in Sessions} \cup {tx[s].t : s \in Sessions}
Down(t) == IF t > 0 THEN t - 1 ELSE 0

Tick == /\ ServerWaits
        /\ \A s \in Sessions : RxWaits(s) /\ TxWaits(s)
        /\ \E t \in Delays : t > 0
        /\ server' = [server EXCEPT !.t = Down(@)]
        /\ rx' = [s \in Sessions |-> [rx[s] EXCEPT !.t = Down(@)]]
        /\ tx' = [s \in Sessions |-> [tx[s] EXCEPT !.t = Down(@)]]
        /\ UNCHANGED <<cur, ctxVars, netVars, cacheVars>>

Next == \/ ServerStep
        \/ \E s \in Sessions : \/ RxStep(s) \/ TxStep(s) \/ TxSendOk(s)
                               \/ ClientSends(s)
                               \/ ClientGoes(s, "left") \/ ClientGoes(s, "silent")
        \/ \E n \in 1..ChunkMax : UartIn(n)
        \/ ClientConnects
        \/ HttpOpens \/ \E fd \in DOMAIN owner : HttpCloses(fd)
        \/ Tick

(* The scheduler runs every ready task and time passes.  Nothing is asked  *)
(* of clients, of the serial line or of a send to a client that does not   *)
(* read.                                                                   *)
Fairness == /\ WF_vars(ServerStep)
            /\ \A s \in Sessions : WF_vars(RxStep(s)) /\ WF_vars(TxStep(s))
            /\ WF_vars(Tick)

Spec == Init /\ [][Next]_vars /\ Fairness
-----------------------------------------------------------------------------
TaskState(pcs) == [pc : pcs, on : Sessions \cup {Nothing, Listener, Http}, t : Nat]

TypeOK ==
    /\ server \in [pc : {"socket", "accept", "backoff", "setup", "create_rx", "create_tx",
                          "wait", "stop", "close", "grace", "ended"}, t : Nat]
    /\ cur \in 0..MaxSessions
    /\ ctx \in [sock : 0..(Fds - 1), sem : 0..MaxSessions, running : BOOLEAN]
    /\ given \in [Sessions -> 0..2]
    /\ deleted \subseteq Sessions
    /\ rx \in [Sessions -> TaskState({"none", "start", "check", "call", "recv", "uart",
                                      "exit", "give", "gone"})]
    /\ tx \in [Sessions -> TaskState({"none", "start", "check", "read", "poll", "call",
                                      "send", "exit", "give", "gone"})]
    /\ owner \in [0..(Fds - 1) -> Sessions \cup {Nothing, Listener, Http}]
    /\ peer \in [Sessions -> {"away", "open", "left", "silent"}]
    /\ arrived \in 0..MaxSessions
    /\ outbox \in [Sessions \cup {Http} -> Nat]
    /\ inbox \in [Sessions -> 0..MaxDown]
    /\ queue \in Seq(Nat) /\ Len(queue) <= Capacity
    /\ received \in 0..MaxBytes
    /\ chunk \in [Sessions -> Seq(Nat)]
    /\ sent \in Seq(Nat)

Live(task) == task.pc \notin {"none", "gone"}

(* A task still alive works with the ctx and the semaphore of its OWN      *)
(* session, and that semaphore still exists: the delay before the server   *)
(* deletes it outlasts whatever the tasks may be waiting in.               *)
ContextNotStale ==
    \A s \in Sessions : Live(rx[s]) \/ Live(tx[s]) =>
        /\ ctx.sem = s
        /\ s \notin deleted

(* Between sessions the bridge holds no descriptor but the listening one:  *)
(* a device that serves clients for months must not run out of them.       *)
NoDescriptorLeft ==
    server.pc = "accept" => \A fd \in DOMAIN owner : owner[fd] \notin Sessions

(* Serial bytes reach the network in the order they came in, none twice,   *)
(* across the end of one session and the start of the next.                *)
SentInOrder == \A j, k \in DOMAIN sent : j < k => sent[j] < sent[k]

(* Bytes that are missing although fewer than Capacity younger ones came:  *)
(* no longer cached, in no sender's hands and never accepted by send.      *)
InHand(b) == \E s \in Sessions : \E k \in DOMAIN chunk[s] : chunk[s][k] = b
Cached(b) == \E k \in DOMAIN queue : queue[k] = b
Sent(b)   == \E k \in DOMAIN sent : sent[k] = b
Missing   == {b \in 1..received : /\ b > received - Capacity
                                  /\ ~Cached(b) /\ ~InHand(b) /\ ~Sent(b)}

(* Short of an overflow, the end of a session costs at most the one chunk  *)
(* its sender held; polling, closing and the next session cost nothing.    *)
LossPerSession ==
    Cardinality(Missing)
        <= ChunkMax * Cardinality({s \in Sessions : tx[s].pc \in {"exit", "give", "gone"}})

(* When a client closes its end, or either task leaves its loop, for       *)
(* whatever reason, the server comes back for the next client: one task    *)
(* gives exit_sem, and the other, wherever it waits, holds nothing up.     *)
Serving(s)  == cur = s /\ server.pc \notin {"socket", "accept", "backoff", "ended"}
LeftLoop(s) == rx[s].pc \in {"exit", "give", "gone"} \/ tx[s].pc \in {"exit", "give", "gone"}

SessionEnds ==
    \A s \in Sessions : (Serving(s) /\ (peer[s] = "left" \/ LeftLoop(s))) ~> ~Serving(s)

(* While a client that reads is connected, every cached byte is sent,      *)
(* those that piled up before it came included, unless younger bytes push  *)
(* it out of the full cache.                                               *)
ClientsRead == \A s \in Sessions : WF_vars(TxSendOk(s))
Connected   == server.pc = "wait" /\ peer[cur] = "open" /\ Live(rx[cur]) /\ Live(tx[cur])

CacheIsFlushed ==
    ClientsRead => \A b \in 1..MaxBytes :
        (Cached(b) /\ Connected) ~> (Sent(b) \/ b <= received - Capacity \/ ~Connected)
-----------------------------------------------------------------------------
(* Statements of the sources that the code does not keep.                  *)

(* tcp_bridge.h:11, "after a client connects, two tasks are started for    *)
(* full duplex": a client that was accepted gets both, or is let go.       *)
DuplexOrLetGo ==
    \A s \in Sessions :
        (Serving(s) /\ server.pc = "wait")
            ~> (~Serving(s) \/ (rx[s].pc # "none" /\ tx[s].pc # "none"))

(* tcp_bridge.h:10-11, the bridge carries the clients of port 8888: its    *)
(* tasks never read from or send to a connection of the web server.        *)
OnlyBridgeClients == \A s \in Sessions : rx[s].on # Http /\ tx[s].on # Http
=============================================================================
