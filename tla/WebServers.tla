------------------------------ MODULE WebServers ------------------------------
(***************************************************************************)
(* The web server examples (protocols/http_server: simple,                 *)
(* persistent_sockets, advanced_tests).  app_main and the event loop's     *)
(* task start and stop the server as the link comes and goes; the server's *)
(* one task calls the handlers, which receive from clients that may stall  *)
(* or leave, and keep a context per session.                               *)
(***************************************************************************)
EXTENDS Integers, Sequences, FiniteSets

CONSTANTS Apps,                  \* of "simple", "persistent", "advanced"
          Clients,
          EchoLen,               \* receptions the body of /echo takes
          MaxRequests, MaxDrops  \* bounds: requests, losses of the link

VARIABLES app,
          main,      \* app_main: "boot", "registered", "started" or "failed" (result of httpd_start), "run"
          server,    \* the static handle is not NULL
          running,   \* a server task runs, and holds the port
          loop,      \* the event loop's task: "idle", "starting" and "stopping" in httpd_start
                     \* and httpd_stop, "started", "failed" and "stopped" with their result
          link, events,
          uris,      \* URIs registered with the server
          session,   \* of each client: open, whether it has a context, its peer
          request,   \* being handled: client, uri, left
          work,      \* queued work: clients to answer once more
          allocated, \* contexts on the heap
          raced,     \* history: connect_handler found NULL before app_main had kept its handle
          requests, drops
vars == <<app, main, server, running, loop, link, events, uris, session, request, work, allocated, raced, requests, drops>>
control == <<app, main, server, running, loop, link, events, raced, drops>>

TestUris == {"hello", "echo", "adder_post", "leftover", "async"}
AllUris == CASE app = "simple" -> {"hello", "echo", "ctrl"}
             [] app = "persistent" -> {"adder_get", "adder_post", "adder_put"}
             [] app = "advanced" -> TestUris
Closed == [open |-> FALSE, has |-> FALSE, peer |-> "sending"]
NoRequest == [client |-> "none", uri |-> "none", left |-> 0]
Init == /\ app \in Apps /\ main = "boot" /\ server = FALSE /\ running = FALSE /\ loop = "idle" /\ link = "up"
        /\ events = <<>> /\ uris = {} /\ session = [c \in Clients |-> Closed] /\ request = NoRequest
        /\ work = <<>> /\ allocated = 0 /\ raced = FALSE /\ requests = 0 /\ drops = 0
-----------------------------------------------------------------------------
\* app_main after example_connect: register both handlers, then start the
\* server, which fails if one has the port already, then keep the result.
AppRegisters == /\ main = "boot" /\ main' = "registered"
                /\ UNCHANGED <<app, server, running, loop, link, events, uris, session, request, work, allocated, raced, requests, drops>>
start_webserver == running' = TRUE /\ uris' = IF running THEN uris ELSE AllUris
AppStarts == /\ main = "registered" /\ main' = IF running THEN "failed" ELSE "started"
             /\ start_webserver
             /\ UNCHANGED <<app, server, loop, link, events, session, request, work, allocated, raced, requests, drops>>
AppAssigns == /\ main \in {"started", "failed"} /\ main' = "run" /\ server' = (main = "started")
              /\ UNCHANGED <<app, running, loop, link, events, uris, session, request, work, allocated, raced, requests, drops>>

Event(e) == loop = "idle" /\ events # <<>> /\ Head(events) = e /\ events' = Tail(events)
\* The handlers look at *server, block in httpd_start or httpd_stop, and only
\* then assign it; app_main may do its part in between.
connect_handler ==
    /\ Event("GOT_IP") /\ loop' = IF server THEN "idle" ELSE "starting"
    /\ raced' = (raced \/ (~server /\ main # "run"))
    /\ UNCHANGED <<app, main, server, running, link, uris, session, request, work, allocated, requests, drops>>
LoopStarts == /\ loop = "starting" /\ loop' = IF running THEN "failed" ELSE "started"
              /\ start_webserver
              /\ UNCHANGED <<app, main, server, link, events, session, request, work, allocated, raced, requests, drops>>
LoopAssigns == /\ loop \in {"started", "failed", "stopped"} /\ loop' = "idle" /\ server' = (loop = "started")
               /\ UNCHANGED <<app, main, running, link, events, uris, session, request, work, allocated, raced, requests, drops>>
disconnect_handler ==
    /\ Event("DISCONNECTED") /\ loop' = IF server THEN "stopping" ELSE "idle"
    /\ UNCHANGED <<app, main, server, running, link, uris, session, request, work, allocated, raced, requests, drops>>
\* The sessions of S end: adder_free_func frees their contexts.
Close(S) == /\ session' = [c \in Clients |-> IF c \in S THEN Closed ELSE session[c]]
            /\ allocated' = allocated - Cardinality({c \in S : session[c].has})
\* httpd_stop returns when the server's task has finished the request it is at.
stop_webserver ==
    /\ loop = "stopping" /\ request = NoRequest /\ loop' = "stopped" /\ running' = FALSE
    /\ uris' = {} /\ work' = <<>> /\ Close(Clients)
    /\ UNCHANGED <<app, main, server, link, events, request, raced, requests, drops>>

\* The link goes and comes back.
LinkChanges == /\ \/ link = "up" /\ drops < MaxDrops /\ drops' = drops + 1 /\ link' = "down"
                  \/ link = "down" /\ link' = "up" /\ UNCHANGED drops
               /\ events' = IF main = "boot" THEN events ELSE Append(events, IF link' = "up" THEN "GOT_IP" ELSE "DISCONNECTED")
               /\ UNCHANGED <<app, main, server, running, loop, uris, session, request, work, allocated, raced, requests>>
-----------------------------------------------------------------------------
\* Clients connect, stall in the middle of a body, go on, or leave.
Reached == running /\ link = "up" /\ UNCHANGED control
Connects(c) == /\ Reached /\ ~session[c].open /\ session' = [session EXCEPT ![c] = [Closed EXCEPT !.open = TRUE]]
               /\ UNCHANGED <<uris, request, work, allocated, requests>>
PeerChanges(c) == /\ Reached /\ session[c].open /\ session[c].peer # "gone"
                  /\ \E peer \in {"sending", "stalled", "gone"} \ {session[c].peer} : session' = [session EXCEPT ![c].peer = peer]
                  /\ UNCHANGED <<uris, request, work, allocated, requests>>
\* The server's task finds that the client has gone, or gets its request.
SessionEnds(c) == /\ Reached /\ request = NoRequest /\ session[c].open /\ session[c].peer = "gone" /\ Close({c})
                  /\ UNCHANGED <<uris, request, work, requests>>
Request(c) == /\ Reached /\ request = NoRequest /\ session[c].open /\ session[c].peer = "sending"
              /\ requests < MaxRequests /\ requests' = requests + 1
              /\ \E uri \in uris : request' = [client |-> c, uri |-> uri, left |-> IF uri = "echo" THEN EchoLen ELSE 1]
              /\ UNCHANGED <<uris, session, work, allocated>>
-----------------------------------------------------------------------------
\* What httpd_req_recv gives the handler.
Client == request.client
Data == link = "up" /\ session[Client].peer = "sending"
Timeout == link = "down" \/ session[Client].peer = "stalled"
Error == link = "up" /\ session[Client].peer = "gone"
At(a, uri) == app \in a /\ request.uri = uri /\ UNCHANGED <<control, requests>>
Answered == request' = NoRequest
\* ESP_FAIL, or after a timeout 408 and ESP_FAIL: the session is closed.
Fails == request' = NoRequest /\ Close({Client}) /\ UNCHANGED <<uris, work>>
hello_get_handler == At({"simple", "advanced"}, "hello") /\ Answered /\ UNCHANGED <<uris, session, work, allocated>>
\* The simple example's echo goes on after a timeout, for ever if need be.
echo_post_handler == /\ At({"simple"}, "echo")
                     /\ \/ Data /\ request.left > 0 /\ request' = [request EXCEPT !.left = @ - 1] /\ UNCHANGED <<uris, session, work, allocated>>
                        \/ request.left = 0 /\ Answered /\ UNCHANGED <<uris, session, work, allocated>>
                        \/ Error /\ request.left > 0 /\ Fails
\* The one below going on after a timeout (a mutant).
EchoGoesOn == /\ At({"advanced"}, "echo")
              /\ \/ Data /\ request.left > 0 /\ request' = [request EXCEPT !.left = @ - 1] /\ UNCHANGED <<uris, session, work, allocated>>
                 \/ request.left = 0 /\ Answered /\ UNCHANGED <<uris, session, work, allocated>>
                 \/ Error /\ request.left > 0 /\ Fails
\* The tests' echo gives up after one, or without memory for the body.
EchoOrFail == /\ At({"advanced"}, "echo")
              /\ \/ Data /\ request.left > 0 /\ request' = [request EXCEPT !.left = @ - 1] /\ UNCHANGED <<uris, session, work, allocated>>
                 \/ request.left = 0 /\ Answered /\ UNCHANGED <<uris, session, work, allocated>>
                 \/ (Error \/ Timeout \/ request.left = EchoLen) /\ request.left > 0 /\ Fails
ctrl_put_handler == /\ At({"simple"}, "ctrl")
                    /\ \/ /\ Data /\ Answered /\ UNCHANGED <<session, work, allocated>>
                          /\ uris' \in {uris \ {"hello", "echo"}, AllUris}
                       \/ (Error \/ Timeout) /\ Fails
\* A handler leaves the sum in the session's context, allocated if there is none.
Keep == /\ session' = [session EXCEPT ![Client].has = TRUE]
        /\ allocated' = allocated + IF session[Client].has THEN 0 ELSE 1
        /\ Answered /\ UNCHANGED <<uris, work>>
Received(apps, uri) == At(apps, uri) /\ ((Data /\ Keep) \/ ((Error \/ Timeout) /\ Fails))
adder_get_handler == At({"persistent"}, "adder_get") /\ Keep
adder_post_handler == Received({"persistent"}, "adder_post")
test_adder_post_handler == Received({"advanced"}, "adder_post")
adder_put_handler == Received({"persistent"}, "adder_put")
leftover_data_post_handler == At({"advanced"}, "leftover") /\ (\/ Data /\ Answered /\ UNCHANGED <<uris, session, work, allocated>>
                                                               \/ (Error \/ Timeout) /\ Fails)
\* An answer now, and one more from the queue of work.
async_get_handler == /\ At({"advanced"}, "async") /\ Answered /\ work' = Append(work, Client)
                     /\ UNCHANGED <<uris, session, allocated>>
generate_async_resp == /\ running /\ request = NoRequest /\ work # <<>> /\ work' = Tail(work)
                       /\ UNCHANGED <<control, uris, session, request, allocated, requests>>

Handler == \/ hello_get_handler \/ echo_post_handler \/ EchoOrFail \/ ctrl_put_handler \/ adder_get_handler \/ adder_post_handler
           \/ test_adder_post_handler \/ adder_put_handler \/ leftover_data_post_handler \/ async_get_handler \/ generate_async_resp
AppMain == AppRegisters \/ AppStarts \/ AppAssigns
EventTask == connect_handler \/ LoopStarts \/ disconnect_handler \/ stop_webserver \/ LoopAssigns
Next == \/ AppMain \/ EventTask \/ Handler \/ LinkChanges
        \/ \E c \in Clients : Connects(c) \/ PeerChanges(c) \/ SessionEnds(c) \/ Request(c)
Spec == Init /\ [][Next]_vars /\ WF_vars(AppMain) /\ WF_vars(EventTask) /\ WF_vars(Handler)
-----------------------------------------------------------------------------
TypeOK == /\ app \in Apps /\ main \in {"boot", "registered", "started", "failed", "run"} 
          /\ loop \in {"idle", "starting", "started", "failed", "stopping", "stopped"}
          /\ {server, running, raced} \subseteq BOOLEAN /\ link \in {"up", "down"} /\ uris \subseteq AllUris
          /\ session \in [Clients -> [open : BOOLEAN, has : BOOLEAN, peer : {"sending", "stalled", "gone"}]]
          /\ request.client \in Clients \cup {"none"} /\ request.left \in 0..EchoLen /\ allocated \in Nat
\* A handle is that of a running server, so that httpd_stop never gets one
\* that was stopped before, though the event loop's task and app_main each
\* look at it, block, and assign it (persistent_sockets 193-207, 222); and a
\* running server has its handle, so that the next event stops it, but for
\* the runs in which connect_handler found NULL before app_main had kept its
\* handle: of the two that then start a server the one that fails may be the
\* last to assign.
HandleKept == /\ main = "run" /\ loop = "idle" => (server => running) /\ (running => server \/ raced)
              /\ loop = "stopping" => running
\* No context outlives its session, whether the client leaves, a handler
\* fails or the server is stopped in between (persistent_sockets 25-29).
NoContextLeft == allocated = Cardinality({c \in Clients : session[c].open /\ session[c].has})
\* Once the link stays, the server comes back and stays; only the simple
\* example's echo can keep the event loop's task in httpd_stop for ever.
ServesAgain == <>[](link = "up") =>
    <>[]((running /\ loop = "idle") \/ (loop = "stopping" /\ app = "simple" /\ request.uri = "echo"))
=============================================================================
