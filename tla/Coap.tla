-------------------------------- MODULE Coap --------------------------------
(***************************************************************************)
(* The CoAP examples.  coap_client fetches a resource block by block over  *)
(* UDP: libcoap repeats a request that is not answered and calls           *)
(* message_handler for every response.  coap_server keeps one resource     *)
(* that clients get, put, delete and observe.  The other side of each is   *)
(* any server or client of the protocol.                                   *)
(***************************************************************************)
EXTENDS Integers, Sequences, SequencesExt

CONSTANTS Roles,     \* of "client", "server"
          TIMEOUT,   \* COAP_DEFAULT_TIME_SEC
          Blocks,    \* blocks of the remote resource
          SIZE,      \* sizeof espressif_data, in units
          Puts,      \* what clients put: sequences of units
          MaxRepeats, MaxChanges  \* bounds: requests repeated; changes of a resource, errors of the server's loop

VARIABLES role,
          pc,        \* "setup", "run", "over"
          resp_wait, wait_ms, \* as in coap_client, seconds
          asked,     \* block of the CON request that libcoap repeats, -1 if none
          req, resp, \* requests and responses under way
          printed,   \* the blocks printed: [block, version]
          version, repeats, twice, \* of the remote resource; so far; history: a response came twice
          failing,   \* coap_run_once returns a negative result
          data, len, \* espressif_data, espressif_data_len
          code, dirty, seen, \* answer of the last PUT; the resource is to be notified; what the observer has
          content, before, \* history: what was last put, and what was there before
          contexts, port, changes \* libcoap contexts; the endpoint's port is held; so far
vars == <<role, pc, resp_wait, wait_ms, asked, req, resp, printed, version, repeats, twice, failing,
          data, len, code, dirty, seen, content, before, contexts, port, changes>>
client == <<resp_wait, wait_ms, asked, req, resp, printed, version, repeats, twice, failing>>
server == <<data, len, code, dirty, seen, content, before, contexts, port>>

NoData == <<"n", "d", "0">>   \* "no data" and its NUL
Stored == SubSeq(data, 1, len)
Init == /\ role \in Roles /\ pc = "setup" /\ resp_wait = TRUE /\ wait_ms = 0 /\ asked = -1 /\ req = {} /\ resp = {}
        /\ printed = <<>> /\ version = 0 /\ repeats = 0 /\ twice = FALSE /\ failing = FALSE
        /\ data = NoData \o [i \in 1..(SIZE - 3) |-> "0"] /\ len = 2 /\ code = 0 /\ dirty = FALSE
        /\ seen = <<"n", "d">> /\ content = <<"n", "d">> /\ before = <<"n", "d">> /\ contexts = 0 /\ port = FALSE /\ changes = 0
-----------------------------------------------------------------------------
\* coap_example_task: only a name that is not resolved is tried again; any
\* other call that fails leads to the clean-up.
Asks(block) == asked' = block /\ req' = req \cup {block} /\ wait_ms' = TIMEOUT /\ resp_wait' = TRUE
ClientSetUp == /\ role = "client" /\ pc = "setup"
               /\ \/ pc' = "run" /\ Asks(0)
                  \/ pc' = "over" /\ UNCHANGED <<resp_wait, wait_ms, asked, req>>
               /\ UNCHANGED <<role, resp, printed, version, repeats, twice, failing, server, changes>>
\* message_handler on response m; it does not look which request is answered.
AsksNext(m) == m.block + 1
message_handler(m) ==
    /\ printed' = IF m.ok THEN Append(printed, [block |-> m.block, version |-> m.version]) ELSE printed
    /\ \/ m.ok /\ m.block < Blocks - 1 /\ Asks(AsksNext(m))
       \/ resp_wait' = FALSE /\ asked' = -1 /\ UNCHANGED <<wait_ms, req>>   \* complete, or no memory for the request
ClientReceives == /\ role = "client" /\ pc = "run" /\ resp_wait /\ ~failing
                  /\ \E m \in resp : /\ message_handler(m) /\ resp' = resp \ {m}
                                     /\ twice' = (twice \/ (m.block # asked))
                  /\ UNCHANGED <<role, pc, version, repeats, failing, server, changes>>
\* A second passes in coap_run_once; at the end of the last one, or with the
\* answer complete, everything is released and the task ends.  A negative
\* result changes nothing: the loop calls again, at once (281-282).
ClientWaits == /\ role = "client" /\ pc = "run" /\ resp_wait /\ ~failing
               /\ IF wait_ms <= 1 THEN pc' = "over" /\ UNCHANGED wait_ms ELSE wait_ms' = wait_ms - 1 /\ UNCHANGED pc
               /\ UNCHANGED <<role, resp_wait, asked, req, resp, printed, version, repeats, twice, failing, server, changes>>
ClientDone == /\ role = "client" /\ pc = "run" /\ ~resp_wait /\ pc' = "over"
              /\ UNCHANGED <<role, client, server, changes>>
\* The socket fails, and may work again.
RunFails == /\ role = "client" /\ pc = "run"
            /\ \/ ~failing /\ changes < MaxChanges /\ changes' = changes + 1
               \/ failing /\ UNCHANGED changes
            /\ failing' = ~failing
            /\ UNCHANGED <<role, pc, resp_wait, wait_ms, asked, req, resp, printed, version, repeats, twice, server>>
\* libcoap repeats the request; datagrams get lost; the server answers, now
\* and then with an error, or the resource changes.
Repeats == /\ pc = "run" /\ asked >= 0 /\ repeats < MaxRepeats /\ repeats' = repeats + 1 /\ req' = req \cup {asked}
           /\ UNCHANGED <<role, pc, resp_wait, wait_ms, asked, resp, printed, version, twice, failing, server, changes>>
Loses == /\ \/ \E b \in req : req' = req \ {b} /\ UNCHANGED resp
            \/ \E m \in resp : resp' = resp \ {m} /\ UNCHANGED req
         /\ UNCHANGED <<role, pc, resp_wait, wait_ms, asked, printed, version, repeats, twice, failing, server, changes>>
Answers == /\ \E b \in req, ok \in BOOLEAN :
                /\ req' = req \ {b} /\ resp' = resp \cup {[block |-> b, version |-> version, ok |-> ok]}
           /\ UNCHANGED <<role, pc, resp_wait, wait_ms, asked, printed, version, repeats, twice, failing, server, changes>>
ResourceChanges == /\ role = "client" /\ changes < MaxChanges /\ changes' = changes + 1 /\ version' = version + 1
                   /\ UNCHANGED <<role, pc, resp_wait, wait_ms, asked, req, resp, printed, repeats, twice, failing, server>>
-----------------------------------------------------------------------------
\* coap_example_thread: a context and its endpoints.  Joining the multicast
\* groups may fail (coap_example_join_ipv4, _ipv6); a port that is held may not.
Resource == <<data, len, code, dirty, seen, content, before>>
\* clean_up: the task ends, the new context is freed.
ServerEnds == pc' = "over" /\ UNCHANGED <<contexts, port>>
ServerSetUp == /\ role = "server" /\ pc = "setup"
               /\ \/ ~port /\ port' = TRUE /\ contexts' = contexts + 1 /\ pc' = "run"
                  \/ ServerEnds
               /\ UNCHANGED <<role, client, Resource, changes>>
\* coap_run_once fails: the loop is left, the context is not freed.
ServerRunFails == /\ role = "server" /\ pc = "run" /\ changes < MaxChanges /\ changes' = changes + 1 /\ pc' = "setup"
                  /\ UNCHANGED <<role, client, server>>
Serving == role = "server" /\ pc = "run" /\ changes < MaxChanges /\ changes' = changes + 1
NotFound == SubSeq(data, 1, 3) = NoData     \* strcmp(espressif_data, "no data") == 0
Copied(d) == d \o SubSeq(data, Len(d) + 1, SIZE)
Short(d) == SubSeq(d, 1, IF Len(d) > SIZE THEN SIZE ELSE Len(d))
ReInit == data' = NoData \o SubSeq(data, 4, SIZE) /\ len' = 2 /\ content' = <<"n", "d">>
\* hnd_espressif_put without coap_resource_notify_observers (a mutant).
PutQuietly(d) ==
    /\ Serving /\ UNCHANGED dirty /\ code' = (IF NotFound THEN 201 ELSE 204) /\ before' = content
    /\ IF d = <<>> THEN ReInit ELSE data' = Copied(Short(d)) /\ len' = Len(Short(d)) /\ content' = Short(d)
    /\ UNCHANGED <<role, pc, client, seen, contexts, port>>
hnd_espressif_put(d) ==
    /\ Serving /\ dirty' = TRUE /\ code' = (IF NotFound THEN 201 ELSE 204) /\ before' = content
    /\ IF d = <<>> THEN ReInit ELSE data' = Copied(Short(d)) /\ len' = Len(Short(d)) /\ content' = Short(d)
    /\ UNCHANGED <<role, pc, client, seen, contexts, port>>
hnd_espressif_delete == /\ Serving /\ dirty' = TRUE /\ ReInit /\ code' = 0
                        /\ UNCHANGED <<role, pc, client, seen, before, contexts, port>>
\* hnd_espressif_get, for the observer libcoap notifies of a change
hnd_espressif_get == /\ role = "server" /\ pc = "run" /\ dirty /\ dirty' = FALSE /\ seen' = Stored
                     /\ UNCHANGED <<role, pc, client, data, len, code, content, before, contexts, port, changes>>

ClientStep == ClientSetUp \/ ClientReceives \/ ClientWaits \/ ClientDone
ServerStep == ServerSetUp \/ hnd_espressif_get
Next == \/ ClientStep \/ RunFails \/ Repeats \/ Loses \/ Answers \/ ResourceChanges
        \/ ServerStep \/ ServerRunFails \/ hnd_espressif_delete \/ \E d \in Puts : hnd_espressif_put(d)
Spec == Init /\ [][Next]_vars /\ WF_vars(ClientStep) /\ WF_vars(ServerStep)
-----------------------------------------------------------------------------
TypeOK == /\ role \in Roles /\ pc \in {"setup", "run", "over"} /\ wait_ms \in 0..TIMEOUT /\ asked \in -1..(Blocks - 1)
          /\ Len(data) = SIZE /\ len \in 0..SIZE /\ code \in {0, 201, 204} /\ contexts \in 0..1
          /\ {resp_wait, twice, failing, dirty, port} \subseteq BOOLEAN
\* What the client prints are the blocks of the resource from the first on,
\* each once, of one version, as long as no response comes twice and the
\* resource does not change (coap_client 61-126).
PrintsTheResource == ~twice => /\ \A i \in DOMAIN printed : printed[i].block = i - 1
                               /\ version = 0 => \A i \in DOMAIN printed : printed[i].version = 0
\* The client comes to its end, with the last of its blocks or by its timeout,
\* whatever is lost (279-303), unless coap_run_once fails from then on: the
\* time limit counts only what a successful call reports.
ClientEnds == <>(pc = "over" \/ role = "server") \/ <>[]failing
\* GET returns what was last put, cut at the size of the buffer, or "no data",
\* though the buffer keeps the tail of what was there before (77-83).
GetsLastPut == Stored = content
\* A PUT is answered "created" for a resource that was empty; or for one whose
\* content is a beginning of "no data", for the tail is still there (67).
CreatedWhenEmpty == code = 201 => IsPrefix(before, NoData)
\* An observer gets the last content, unless the server has ended: when its
\* loop fails, the context it does not free holds the port (194-205, 243-255).
ObserverSeesLast == <>[](role = "server" => seen = content \/ pc = "over")
=============================================================================
