------------------------------ MODULE Requests ------------------------------
(***************************************************************************)
(* The request examples (protocols/http_request, https_request,            *)
(* https_mbedtls, openssl_client, openssl_server, openssl_demo): one task  *)
(* each that acquires what it needs call by call, sends a request, reads   *)
(* the answer to its end and releases everything by hand; where a call     *)
(* fails, it jumps to the label that releases what is held so far.  A      *)
(* program is the sequence of its calls: what the call gets, what it gives *)
(* back when it has succeeded, what is released when it has failed, and    *)
(* the call the program goes on with then.                                 *)
(***************************************************************************)
EXTENDS Naturals, Sequences, SequencesExt

CONSTANTS Programs,
          RequestLen  \* units of the request

END == 0       \* the task deletes itself
ABORT == 100   \* abort(): the chip restarts
Call(op, gets, drops, undo, goto) == [op |-> op, gets |-> gets, drops |-> drops, undo |-> undo, goto |-> goto]

\* The one below without close(s) where connect fails (a mutant).
http_requestLeaky ==
    << Call("dns", {"addr"}, {}, {}, 1), Call("socket", {"sock"}, {}, {"addr"}, 1),
       Call("connect", {}, {"addr"}, {"addr"}, 1), Call("write", {}, {}, {"sock"}, 1),
       Call("timeout", {}, {}, {"sock"}, 1), Call("read", {}, {}, {"sock"}, 1) >>
\* addr: the result of getaddrinfo; sock, conn, fd, tls: connections.
http_request ==
    << Call("dns", {"addr"}, {}, {}, 1), Call("socket", {"sock"}, {}, {"addr"}, 1),
       Call("connect", {}, {"addr"}, {"sock", "addr"}, 1), Call("write", {}, {}, {"sock"}, 1),
       Call("timeout", {}, {}, {"sock"}, 1), Call("read", {}, {}, {"sock"}, 1) >>
https_request ==
    << Call("connect", {"tls"}, {}, {}, 1), Call("write", {}, {}, {"tls"}, 1), Call("read", {}, {}, {"tls"}, 1) >>
\* A failure of the two calls before the loop jumps into the loop, past the
\* initialisation of server_fd, which it closes.
https_setup ==
    << Call("seed", {}, {}, {}, ABORT), Call("defaults", {"conf"}, {}, {"fd"}, 4), Call("setup", {"ssl"}, {}, {"fd"}, 4) >>
https_get_task ==
    << Call("connect", {"fd"}, {}, {}, 4), Call("handshake", {}, {}, {"fd"}, 4),
       Call("write", {}, {}, {"fd"}, 4), Call("read", {}, {}, {"fd"}, 4) >>
https_mbedtls == https_setup \o https_get_task
openssl_client ==
    << Call("dns", {}, {}, {}, 1), Call("context", {"ctx"}, {}, {}, END), Call("certificate", {}, {}, {"ctx"}, END),
       Call("key", {}, {}, {"ctx"}, END), Call("socket", {"sock"}, {}, {"ctx"}, END),
       Call("bind", {}, {}, {"sock", "ctx"}, END), Call("connect", {}, {}, {"sock", "ctx"}, END),
       Call("session", {"ssl"}, {}, {"sock", "ctx"}, END), Call("handshake", {}, {}, {"ssl", "sock", "ctx"}, END),
       Call("write", {}, {}, {"ssl", "sock", "ctx"}, END), Call("read", {}, {}, {"ssl", "sock", "ctx"}, END) >>
\* A client that fails leads to the next client, any other failure to the end.
openssl_server ==
    << Call("context", {"ctx"}, {}, {}, END), Call("certificate", {}, {}, {"ctx"}, END), Call("key", {}, {}, {"ctx"}, END),
       Call("socket", {"sock"}, {}, {"ctx"}, END), Call("bind", {}, {}, {"sock", "ctx"}, END),
       Call("listen", {}, {}, {"sock", "ctx"}, END),
       Call("session", {"ssl"}, {}, {"sock", "ctx"}, END), Call("accept", {"conn"}, {}, {"ssl"}, 7),
       Call("handshake?", {}, {}, {"conn", "ssl"}, 7), Call("write", {}, {}, {"conn", "ssl"}, 7),
       Call("read", {}, {}, {"conn", "ssl"}, 7) >>
openssl_demo ==
    << Call("dns", {}, {}, {}, 1), Call("context", {"ctx"}, {}, {}, END), Call("socket", {"sock"}, {}, {"ctx"}, END),
       Call("bind", {}, {}, {"sock", "ctx"}, END), Call("connect", {}, {}, {"sock", "ctx"}, END),
       Call("session", {"ssl"}, {}, {"sock", "ctx"}, END), Call("handshake?", {}, {}, {"ssl", "sock", "ctx"}, END),
       Call("write", {}, {}, {"ssl", "sock", "ctx"}, END), Call("read", {}, {}, {"ssl", "sock", "ctx"}, END) >>
Calls(p) == CASE p = "http_request" -> http_request [] p = "https_request" -> https_request
              [] p = "https_mbedtls" -> https_mbedtls [] p = "openssl_client" -> openssl_client
              [] p = "openssl_server" -> openssl_server [] p = "openssl_demo" -> openssl_demo
\* Where a round starts, and what the program holds there.
LoopStart(p) == CASE p = "https_mbedtls" -> 4 [] p = "openssl_server" -> 7 [] OTHER -> 1
Kept(p) == UNION {Calls(p)[i].gets : i \in 1..(LoopStart(p) - 1)}

VARIABLES prog, at,   \* the call that is next
          held,       \* what was acquired and not released
          secure,     \* the handshake of this connection has succeeded
          out,        \* units of the request the peer has got
          silent,     \* the peer of this connection neither answers nor closes any more
          stray       \* history: something was released that was not held
vars == <<prog, at, held, secure, out, silent, stray>>

Init == /\ prog \in Programs /\ at = 1 /\ held = {} /\ secure = FALSE /\ out = <<>> /\ silent = FALSE /\ stray = FALSE
Now == Calls(prog)[at]
NeedsTls == \E i \in DOMAIN Calls(prog) : Calls(prog)[i].op \in {"handshake", "handshake?"}
-----------------------------------------------------------------------------
Succeed == /\ at' = at + 1 /\ held' = (held \cup Now.gets) \ Now.drops /\ UNCHANGED <<prog, stray>>
\* A failed call, and the answer read to its end.
FailNow == /\ at' = Now.goto
           /\ held' = IF Now.goto = ABORT THEN {} ELSE held \ Now.undo
           /\ stray' = (stray \/ ~(Now.undo \subseteq held))
           /\ secure' = FALSE /\ out' = <<>> /\ silent' = FALSE /\ UNCHANGED prog
Running == at \in DOMAIN Calls(prog)
\* The calls that return when the peer, or the next client, does something;
\* only http_request has set a time limit, and only for its read.
WaitsForPeer == Now.op \in {"accept", "connect", "handshake", "handshake?", "write", "read"}
HasLimit == prog = "http_request" /\ Now.op = "read"
Stuck == Running /\ silent /\ WaitsForPeer /\ ~HasLimit

\* A call that sets something up.
SetUp == /\ Running /\ ~Stuck /\ Now.op \notin {"handshake", "handshake?", "write", "read"}
         /\ Succeed /\ UNCHANGED <<secure, out, silent>>
\* The handshake; of "handshake?" only the result 0 is taken for a failure.
Handshake == /\ Running /\ ~Stuck /\ Now.op \in {"handshake", "handshake?"}
             /\ \/ (prog = "https_mbedtls" => {"conf", "ssl"} \subseteq held) /\ secure' = TRUE
                \/ Now.op = "handshake?" /\ secure' = FALSE
             /\ Succeed /\ UNCHANGED <<out, silent>>
\* The request goes out in one call, or in as many as it takes.
Write == /\ Running /\ ~Stuck /\ Now.op = "write" /\ (NeedsTls => secure)
         /\ \E n \in 1..RequestLen :
              /\ Len(out) + n <= RequestLen /\ out' = out \o [i \in 1..n |-> Len(out) + i]
              /\ prog \in {"https_request", "https_mbedtls"} \/ n = RequestLen
         /\ IF Len(out') = RequestLen THEN Succeed ELSE UNCHANGED <<prog, at, held, stray>>
         /\ UNCHANGED <<secure, silent>>
\* The answer has ended, the read failed, or, for http_request, took 5 s.
ReadEnds == Running /\ ~Stuck /\ Now.op = "read" /\ FailNow
\* Any other call fails; that of a silent peer may, but need not, in the end.
Fails == /\ Running /\ Now.op # "read" /\ FailNow
\* The peer stops answering without closing, or no client comes.
PeerSilent == /\ Running /\ WaitsForPeer /\ ~silent /\ silent' = TRUE
              /\ UNCHANGED <<prog, at, held, secure, out, stray>>

Step == SetUp \/ Handshake \/ Write \/ ReadEnds \/ Fails
Next == Step \/ PeerSilent
\* The task goes on; what the peer has to do for it is not assumed.
OwnStep == ~Stuck /\ Step
Spec == Init /\ [][Next]_vars /\ WF_vars(OwnStep)
-----------------------------------------------------------------------------
TypeOK == /\ prog \in Programs /\ at \in DOMAIN Calls(prog) \cup {END, ABORT}
          /\ held \subseteq {"addr", "sock", "tls", "conf", "ssl", "fd", "ctx", "conn"}
          /\ secure \in BOOLEAN /\ silent \in BOOLEAN /\ stray \in BOOLEAN /\ Len(out) \in 0..RequestLen
\* A round leaves nothing behind, wherever it was broken off: at its start the
\* program holds what it held at the first one, at its end nothing.
NothingLeft == /\ at = LoopStart(prog) => held \subseteq Kept(prog)
               /\ at = END => held = {}
\* Nothing is released twice or before it was acquired.  Only the set-up of
\* https_mbedtls does that (https_mbedtls_example_main.c:123, 140 to 247):
\* server_fd is not even initialised there, and the session never is.
ReleasesHeld == stray => prog = "https_mbedtls" /\ "ssl" \notin held
\* What the peer gets is the request, once, in order, whatever the calls of
\* write take of it (https_mbedtls 194-207, https_request 90-104).
RequestIntact == (Running /\ Now.op = "read") => out = [i \in 1..RequestLen |-> i]
\* A program goes on to its next round or to its end, whatever fails, unless
\* a peer stays silent at a call that waits for it: the connection, the next
\* client, the handshake, a write, or any read but that of http_request, which
\* has set a time limit (http_request 91-94).
GoesOn == []<>(at \in {LoopStart(prog), END, ABORT}) \/ <>[]Stuck
=============================================================================
