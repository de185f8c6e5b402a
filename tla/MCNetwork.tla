------------------------------ MODULE MCNetwork ------------------------------
(*****************************************************************************)
(* The examples that talk to other hosts. A board runs one of them, which;   *)
(* the variables of the others stay as they are. The bounds of each are      *)
(* the least with which its interesting cases happen: a connection after a   *)
(* closed one, a socket opened anew, a request repeated, an access of the    *)
(* master that the slave's task sees late, a session that meets the end of   *)
(* another.                                                                  *)
(*****************************************************************************)
EXTENDS Integers, Sequences

VARIABLE which   \* the example that runs: none of the others is there
VARIABLES sockets_app, sockets_pc, fds, listening, peer, inbox, rx, tx, peers, sent, sockets_fails
VARIABLES prog, at, held, secure, clients_out, silent, stray
VARIABLES variant, uri, typed, conn, conns, mqtt_out, in, subs, unheard
VARIABLES role, coap_pc, resp_wait, wait_ms, asked, req, resp, printed, version, repeats, twice,
          failing, data, len, code, dirty, seen, content, before, contexts, port, changes
VARIABLES resolver, master, tries, table, retry, cid, slave, data0, coils_port1, event, infos,
          lost, behind
VARIABLES servers_app, main, server, running, loop, link, events, uris, session, servers_request,
          work, allocated, raced, requests, drops
VARIABLES demo, client_request, hop, client_pc, clients, output_buffer, output_len, left, length,
          broken, nomemory, client_fails, unopened, carried, refused, result

socketsVars == <<sockets_app, sockets_pc, fds, listening, peer, inbox, rx, tx, peers, sent,
                 sockets_fails>>
clientsVars == <<prog, at, held, secure, clients_out, silent, stray>>
mqttVars == <<variant, uri, typed, conn, conns, mqtt_out, in, subs, unheard>>
coapVars == <<role, coap_pc, resp_wait, wait_ms, asked, req, resp, printed, version, repeats,
              twice, failing, data, len, code, dirty, seen, content, before, contexts, port,
              changes>>
modbusVars == <<resolver, master, tries, table, retry, cid, slave, data0, coils_port1, event,
                infos, lost, behind>>
serversVars == <<servers_app, main, server, running, loop, link, events, uris, session,
                 servers_request, work, allocated, raced, requests, drops>>
clientVars == <<demo, client_request, hop, client_pc, clients, output_buffer, output_len, left,
                length, broken, nomemory, client_fails, unopened, carried, refused, result>>

Sockets == INSTANCE Sockets WITH
    Apps <- {"tcp_server", "tcp_client", "udp_server", "udp_client", "mcast"}, DualStack <- TRUE,
    MaxPeers <- 3, MaxData <- 2, MaxFail <- 2, app <- sockets_app, pc <- sockets_pc,
    fails <- sockets_fails
Requests == INSTANCE Requests WITH
    Programs <- {"http_request", "https_request", "https_mbedtls", "openssl_client", "openssl_server", "openssl_demo"},
    RequestLen <- 3, out <- clients_out
Mqtt == INSTANCE Mqtt WITH
    Variants <- {"tcp", "ssl", "ssl_psk", "ssl_mutual_auth", "ws", "wss"}, LINE <- 3,
    MaxConns <- 2, out <- mqtt_out
Coap == INSTANCE Coap WITH
    Roles <- {"client", "server"}, TIMEOUT <- 2, Blocks <- 3, SIZE <- 4,
    Puts <- {<<>>, <<"n">>, <<"x", "y">>, <<"n", "d", "x", "x", "x">>}, MaxRepeats <- 1,
    MaxChanges <- 2, pc <- coap_pc
Modbus == INSTANCE Modbus WITH
    Resolvers <- {"mdns", "stdin"}, MASTER_MAX_RETRY <- 4, MB_CHAN_DATA_MAX_VAL <- 500,
    MB_CHAN_DATA_OFFSET <- 110, QUEUE_SIZE <- 1, MaxLost <- 1
WebServers == INSTANCE WebServers WITH
    Apps <- {"simple", "persistent", "advanced"}, Clients <- {"c1", "c2"}, EchoLen <- 1,
    MaxRequests <- 2, MaxDrops <- 1, app <- servers_app, request <- servers_request
HttpClient == INSTANCE HttpClient WITH
    BASIC_AUTH <- TRUE, Lengths <- {1, 3}, MaxBroken <- 1, MaxFail <- 1, MaxNoMemory <- 1,
    request <- client_request, pc <- client_pc, fails <- client_fails

(* Where the others start does not matter. *)
Pin(example, var, value) == which = example \/ var = value

Init ==
    /\ which \in {"sockets", "clients", "mqtt", "coap", "modbus", "servers", "client"}
    /\ Sockets!Init /\ Pin("sockets", sockets_app, "mcast")
    /\ Requests!Init /\ Pin("clients", prog, "http_request")
    /\ Mqtt!Init /\ Pin("mqtt", variant, "tcp")
    /\ Coap!Init /\ Pin("coap", role, "client")
    /\ Modbus!Init /\ Pin("modbus", resolver, "mdns")
    /\ WebServers!Init /\ Pin("servers", servers_app, "simple")
    /\ HttpClient!Init

Next ==
    \/ which = "sockets" /\ Sockets!Next /\ UNCHANGED <<which, clientsVars, mqttVars, coapVars, modbusVars, serversVars, clientVars>>
    \/ which = "clients" /\ Requests!Next /\ UNCHANGED <<which, socketsVars, mqttVars, coapVars, modbusVars, serversVars, clientVars>>
    \/ which = "mqtt" /\ Mqtt!Next /\ UNCHANGED <<which, socketsVars, clientsVars, coapVars, modbusVars, serversVars, clientVars>>
    \/ which = "coap" /\ Coap!Next /\ UNCHANGED <<which, socketsVars, clientsVars, mqttVars, modbusVars, serversVars, clientVars>>
    \/ which = "modbus" /\ Modbus!Next /\ UNCHANGED <<which, socketsVars, clientsVars, mqttVars, coapVars, serversVars, clientVars>>
    \/ which = "servers" /\ WebServers!Next /\ UNCHANGED <<which, socketsVars, clientsVars, mqttVars, coapVars, modbusVars, clientVars>>
    \/ which = "client" /\ HttpClient!Next /\ UNCHANGED <<which, socketsVars, clientsVars, mqttVars, coapVars, modbusVars, serversVars>>

(* The fairness of each module, for the example that runs. *)
Fairness ==
    /\ WF_socketsVars(which = "sockets" /\ Sockets!Step)
    /\ WF_socketsVars(which = "sockets" /\ Sockets!PeerResets)
    /\ WF_clientsVars(which = "clients" /\ Requests!OwnStep)
    /\ WF_mqttVars(which = "mqtt" /\ Mqtt!Connected)
    /\ WF_mqttVars(which = "mqtt" /\ Mqtt!Broker)
    /\ WF_mqttVars(which = "mqtt" /\ Mqtt!Handler)
    /\ WF_coapVars(which = "coap" /\ Coap!ClientStep)
    /\ WF_coapVars(which = "coap" /\ Coap!ServerStep)
    /\ WF_modbusVars(which = "modbus" /\ Modbus!MasterStep)
    /\ WF_modbusVars(which = "modbus" /\ Modbus!SlaveStep)
    /\ WF_serversVars(which = "servers" /\ WebServers!AppMain)
    /\ WF_serversVars(which = "servers" /\ WebServers!EventTask)
    /\ WF_serversVars(which = "servers" /\ WebServers!Handler)
    /\ WF_clientVars(which = "client" /\ HttpClient!GoesOn)

Spec == Init /\ [][Next]_<<which, socketsVars, clientsVars, mqttVars, coapVars, modbusVars, serversVars, clientVars>> /\ Fairness
-----------------------------------------------------------------------------
\* A socket program that starts over for ever holds one socket while it talks
\* and none while it does not, and gives up a TCP connection that the peer
\* has closed (tcp_server, tcp_client, udp_server, udp_client,
\* udp_multicast).
SocketsGoOn ==
    /\ (which = "sockets" => [](Sockets!TypeOK /\ Sockets!HeldSockets))
    /\ (which = "sockets" => Sockets!ClosedIsNoticed)

\* A round of a request program that fails anywhere leaves nothing acquired
\* and releases nothing it does not hold; the request goes out whole, and the
\* program comes to its next round or its end unless the peer falls silent
\* (http_request, https_request, https_mbedtls, openssl_*).
RequestsCleanUp ==
    /\ (which = "clients" => [](Requests!TypeOK /\
                                Requests!NothingLeft /\
                                Requests!ReleasesHeld /\
                                Requests!RequestIntact))
    /\ (which = "clients" => Requests!GoesOn)

\* The MQTT client hears what it publishes to the topic it keeps and nothing
\* of the one it leaves; a connection that lasts ends with that one
\* subscription, whatever became of those before.
MqttSettles ==
    /\ (which = "mqtt" => [](Mqtt!TypeOK /\ Mqtt!HearsItsOwn))
    /\ (which = "mqtt" => Mqtt!Settles)

\* The CoAP client prints each block once and ends whatever is lost, unless
\* coap_run_once fails for good; the server returns what was last put, says
\* created of an empty resource, and its observer gets the last content.
CoapDelivers ==
    /\ (which = "coap" => [](Coap!TypeOK /\
                             Coap!PrintsTheResource /\
                             Coap!GetsLastPut /\
                             Coap!CreatedWhenEmpty))
    /\ (which = "coap" => Coap!ClientEnds)
    /\ (which = "coap" => Coap!ObserverSeesLast)

\* The Modbus slave raises its relay before it stops, finds an access for
\* every event, and the master reads the alarm before its sweeps are used up
\* and the slave is gone; both end.
ModbusAlarms ==
    /\ (which = "modbus" => [](Modbus!TypeOK /\
                               Modbus!RelayBeforeEnd /\
                               Modbus!InfoForEvent /\
                               Modbus!AlarmIsSeen))
    /\ (which = "modbus" => Modbus!BothEnd)

\* A web server's handle is that of a running server, which has one but when
\* a reconnection overtook app_main; a context ends with its session; once
\* the link stays the server comes back and stays.
ServersComeBack ==
    /\ (which = "servers" => [](WebServers!TypeOK /\
                                WebServers!HandleKept /\
                                WebServers!NoContextLeft))
    /\ (which = "servers" => WebServers!ServesAgain)

\* The HTTP client's handler gathers the answer that arrives behind what
\* broken answers left, keeps no other buffer between two, every client is
\* cleaned up but the stream reader's that could not open, and the task ends
\* unless https_async polls a silent server.
ClientGathers ==
    /\ (which = "client" => [](HttpClient!TypeOK /\
                               HttpClient!GathersOneAnswer /\
                               HttpClient!NothingAllocated /\
                               HttpClient!ClientsCleanedUp))
    /\ (which = "client" => HttpClient!Finishes)
=============================================================================
