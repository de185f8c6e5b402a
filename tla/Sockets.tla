------------------------------- MODULE Sockets -------------------------------
(***************************************************************************)
(* The socket examples (protocols/sockets): five programs of one task      *)
(* each, which opens a socket, talks to a peer until something fails,      *)
(* closes it and starts again.  Of the data only counts are kept: what     *)
(* waits in the socket and what was sent back.                             *)
(***************************************************************************)
EXTENDS Naturals

CONSTANTS Apps,              \* of "tcp_server", "tcp_client", "udp_server", "udp_client", "mcast"
          DualStack,         \* udp_multicast sends to an IPv4 and an IPv6 group
          MaxPeers, MaxData, \* bounds: connections or re-opened sockets; units the peers send
          MaxFail            \* bound: calls that fail for no reason of the peer

VARIABLES app,
          pc,         \* where the task is; "ended": it deleted itself
          fds,        \* descriptors it holds
          listening,  \* a pcb holds the server's port
          peer,       \* the connection: "none", "asking", "conn", "eof" or "reset"
          inbox,      \* units waiting in the socket
          rx, tx,     \* units received and not yet answered; the group the next packet goes to
          peers, sent, fails  \* so far: sockets, units of the peers, failed calls
vars == <<app, pc, fds, listening, peer, inbox, rx, tx, peers, sent, fails>>

Init == /\ app \in Apps /\ pc = "socket" /\ fds = 0 /\ listening = FALSE /\ peer = "none" /\ inbox = 0
        /\ rx = 0 /\ tx = 1 /\ peers = 0 /\ sent = 0 /\ fails = 0

MayFail == fails < MaxFail /\ fails' = fails + 1
Works == UNCHANGED fails
Goto(l) == pc' = l
\* shutdown and close of the socket that was talked on.
Close(l) == Goto(l) /\ fds' = fds - 1 /\ peer' = "none" /\ inbox' = 0 /\ rx' = 0
Stay == UNCHANGED <<fds, peer, inbox, rx>>
Opened == peers < MaxPeers /\ peers' = peers + 1 /\ fds' = fds + 1
-----------------------------------------------------------------------------
\* tcp_server_task.  The listening socket of a round is never closed, and its
\* port cannot be bound again; every failure up to accept ends the task.
TcpServerListen ==
    /\ pc = "socket"
    /\ \/ Works /\ Opened /\ listening' = TRUE /\ Goto(IF listening THEN "ended" ELSE "accept")
       \/ MayFail /\ Goto("ended") /\ UNCHANGED <<fds, listening, peers>>              \* socket
       \/ MayFail /\ Opened /\ Goto("ended") /\ UNCHANGED listening           \* bind, listen
    /\ UNCHANGED <<peer, inbox, rx, tx>>
TcpServerAccept ==
    /\ pc = "accept"
    /\ \/ Works /\ peer = "asking" /\ peer' = "conn" /\ fds' = fds + 1 /\ Goto("recv")
       \/ MayFail /\ Goto("ended") /\ UNCHANGED <<peer, fds>>
    /\ UNCHANGED <<listening, inbox, rx, tx, peers>>
\* The echo loop, left when the client has closed or either call fails.
TcpServerEcho ==
    /\ \/ pc = "recv" /\ Works /\ inbox > 0 /\ rx' = inbox /\ inbox' = 0 /\ Goto("send") /\ UNCHANGED <<fds, peer>>
       \/ pc = "recv" /\ Works /\ inbox = 0 /\ peer \in {"eof", "reset"} /\ Close("socket")
       \/ pc = "send" /\ Works /\ peer # "reset" /\ rx' = 0 /\ Goto("recv") /\ UNCHANGED <<fds, peer, inbox>>
       \/ pc = "send" /\ Works /\ peer = "reset" /\ Close("socket")
       \/ pc \in {"recv", "send"} /\ MayFail /\ Close("socket")
    /\ UNCHANGED <<listening, tx, peers>>
-----------------------------------------------------------------------------
\* The one below without close after a failed connect (a mutant).
TcpClientConnectLeaks ==
    /\ pc = "socket"
    /\ \/ Works /\ Opened /\ peer' = "conn" /\ Goto("send")
       \/ MayFail /\ peers < MaxPeers /\ fds' = fds + 1 /\ UNCHANGED <<pc, peers, peer>>
    /\ UNCHANGED <<listening, inbox, rx, tx>>
\* tcp_client_task.  A connect that fails is tried again at once on a new socket.
TcpClientConnect ==
    /\ pc = "socket"
    /\ \/ Works /\ Opened /\ peer' = "conn" /\ Goto("send")
       \/ MayFail /\ UNCHANGED <<pc, fds, peers, peer>>                                \* connect
       \/ MayFail /\ Goto("ended") /\ UNCHANGED <<fds, peers, peer>>                   \* socket
    /\ UNCHANGED <<listening, inbox, rx, tx>>
\* send, recv, a delay.  An end of the stream (len 0) is taken for data: only
\* the reset that the next send provokes ends the loop.
TcpClientTalk ==
    /\ \/ pc = "send" /\ Works /\ peer # "reset" /\ Goto("recv") /\ Stay
       \/ pc = "recv" /\ Works /\ inbox > 0 /\ inbox' = 0 /\ Goto("send") /\ UNCHANGED <<fds, peer, rx>>
       \/ pc = "recv" /\ Works /\ inbox = 0 /\ peer = "eof" /\ Goto("send") /\ Stay
       \/ peer = "reset" /\ Works /\ (pc = "send" \/ (pc = "recv" /\ inbox = 0)) /\ Close("socket")
       \/ pc \in {"recv", "send"} /\ MayFail /\ Close("socket")
    /\ UNCHANGED <<listening, tx, peers>>
-----------------------------------------------------------------------------
\* udp_server_task: a bind that fails is only logged.
UdpServer ==
    /\ \/ /\ pc = "socket"
          /\ \/ Works /\ Opened /\ listening' = TRUE /\ Goto("recv")
             \/ MayFail /\ Opened /\ listening' = FALSE /\ Goto("recv")                \* bind
             \/ MayFail /\ Goto("ended") /\ UNCHANGED <<fds, peers, listening>>        \* socket
          /\ UNCHANGED <<peer, inbox, rx>>
       \/ /\ \/ pc = "recv" /\ Works /\ inbox > 0 /\ inbox' = inbox - 1 /\ rx' = 1 /\ Goto("send") /\ UNCHANGED <<fds, peer, listening>>
             \/ pc = "send" /\ Works /\ rx' = 0 /\ Goto("recv") /\ UNCHANGED <<fds, peer, inbox, listening>>
             \/ pc \in {"recv", "send"} /\ MayFail /\ Close("socket") /\ listening' = FALSE
          /\ UNCHANGED peers
    /\ UNCHANGED tx
\* udp_client_task: after a message it waits for an answer, without a timeout.
UdpClient ==
    /\ \/ /\ pc = "socket"
          /\ \/ Works /\ Opened /\ Goto("send")
             \/ MayFail /\ Goto("ended") /\ UNCHANGED <<fds, peers>>
          /\ UNCHANGED <<peer, inbox, rx>>
       \/ /\ \/ pc = "send" /\ Works /\ Goto("recv") /\ peer' = "asking" /\ UNCHANGED <<fds, inbox, rx>>
             \/ pc = "recv" /\ Works /\ inbox > 0 /\ inbox' = inbox - 1 /\ Goto("send") /\ UNCHANGED <<fds, peer, rx>>
             \/ pc \in {"recv", "send"} /\ MayFail /\ Close("socket")
          /\ UNCHANGED peers
    /\ UNCHANGED <<listening, tx>>
-----------------------------------------------------------------------------
\* create_multicast_ipv4_socket or _ipv6_socket: every step of the set-up can
\* fail, which closes the socket and, after a delay, is tried again.
McastCreate == /\ pc = "socket"
               /\ \/ Works /\ Opened /\ Goto("select")
                  \/ MayFail /\ UNCHANGED <<pc, fds, peers>>
               /\ UNCHANGED <<listening, peer, inbox, rx, tx>>
\* select: a datagram is read; two seconds without one, and it sends.
McastSelect ==
    /\ pc = "select"
    /\ \/ Works /\ inbox > 0 /\ inbox' = inbox - 1 /\ UNCHANGED <<pc, fds, peer, rx, tx>>
       \/ Works /\ inbox = 0 /\ Goto("send") /\ tx' = 1 /\ Stay
       \/ MayFail /\ Close("socket") /\ UNCHANGED tx
    /\ UNCHANGED <<listening, peers>>
\* One packet for each group; a failure closes the socket, with the second not sent.
McastSend ==
    /\ pc = "send"
    /\ \/ Works /\ DualStack /\ tx = 1 /\ tx' = 2 /\ Stay /\ UNCHANGED pc
       \/ Works /\ (~DualStack \/ tx = 2) /\ Goto("select") /\ Stay /\ UNCHANGED tx
       \/ MayFail /\ Close("socket") /\ UNCHANGED tx
    /\ UNCHANGED <<listening, peers>>
-----------------------------------------------------------------------------
\* The peers: a client connects, anyone sends, a connection is closed or, when
\* it is and something is sent to it, reset; datagrams get lost.
UdpLost == app = "udp_client" /\ pc = "recv" /\ peer = "asking" /\ peer' = "none"
           /\ UNCHANGED <<app, pc, fds, listening, inbox, rx, tx, peers, sent, fails>>
UdpAnswered == app = "udp_client" /\ pc = "recv" /\ peer = "asking" /\ peer' = "none" /\ inbox' = inbox + 1
               /\ UNCHANGED <<app, pc, fds, listening, rx, tx, peers, sent, fails>>
PeerSends == /\ sent < MaxData /\ sent' = sent + 1 /\ inbox' = inbox + 1
             /\ CASE app \in {"tcp_server", "tcp_client"} -> peer = "conn"
                  [] app = "udp_server" -> listening
                  [] app = "mcast" -> fds > 0
                  [] OTHER -> FALSE
             /\ UNCHANGED <<app, pc, fds, listening, peer, rx, tx, peers, fails>>
PeerMoves == /\ app \in {"tcp_server", "tcp_client"}
             /\ \/ app = "tcp_server" /\ listening /\ pc # "ended" /\ peer = "none" /\ peer' = "asking"
                \/ peer = "conn" /\ peer' \in {"eof", "reset"}
             /\ UNCHANGED <<app, pc, fds, listening, inbox, rx, tx, peers, sent, fails>>
\* The answer to what is sent to a closed connection.
PeerResets == /\ app = "tcp_client" /\ peer = "eof" /\ peer' = "reset"
              /\ UNCHANGED <<app, pc, fds, listening, inbox, rx, tx, peers, sent, fails>>

Step == /\ \/ app = "tcp_server" /\ (TcpServerListen \/ TcpServerAccept \/ TcpServerEcho)
           \/ app = "tcp_client" /\ (TcpClientConnect \/ TcpClientTalk)
           \/ app = "udp_server" /\ UdpServer
           \/ app = "udp_client" /\ UdpClient
           \/ app = "mcast" /\ (McastCreate \/ McastSelect \/ McastSend)
        /\ UNCHANGED <<app, sent>>
Next == Step \/ UdpLost \/ UdpAnswered \/ PeerSends \/ PeerMoves \/ PeerResets
Spec == /\ Init /\ [][Next]_vars /\ WF_vars(Step) /\ WF_vars(PeerResets)
-----------------------------------------------------------------------------
TypeOK == /\ app \in Apps /\ pc \in {"socket", "accept", "recv", "send", "select", "ended"}
          /\ fds \in 0..2 /\ listening \in BOOLEAN /\ peer \in {"none", "asking", "conn", "eof", "reset"}
          /\ inbox \in 0..(MaxData + MaxPeers) /\ rx \in 0..MaxData /\ tx \in 1..2
          /\ peers \in 0..MaxPeers /\ sent \in 0..MaxData /\ fails \in 0..MaxFail
\* However often a program starts again, it holds one socket while it talks and
\* none while it does not; only the TCP server also keeps the one it listens on
\* (tcp_client.c:76, 107, udp_multicast 156, 466).
HeldSockets == app # "tcp_server" => (fds = 1 <=> pc \notin {"socket", "ended"}) /\ fds <= 1
\* A connection that the peer closed is given up, by the client too, which
\* takes the end of the stream for data (tcp_client.c:88-99).
ClosedIsNoticed == (app \in {"tcp_server", "tcp_client"} /\ pc \in {"send", "recv"} /\ peer \in {"eof", "reset"})
                     ~> (pc \notin {"send", "recv"} \/ peers = MaxPeers)
=============================================================================
