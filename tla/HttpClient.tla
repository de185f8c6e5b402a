----------------------------- MODULE HttpClient -----------------------------
(***************************************************************************)
(* The HTTP client example (protocols/esp_http_client): http_test_task     *)
(* runs one demonstration after the other, each on a client of its own;    *)
(* the client library calls _http_event_handler back with the answers,     *)
(* which the handler gathers in two static variables that all clients      *)
(* share.                                                                  *)
(***************************************************************************)
EXTENDS Naturals, Sequences

CONSTANTS BASIC_AUTH,             \* CONFIG_ESP_HTTP_CLIENT_ENABLE_BASIC_AUTH
          Lengths,                \* lengths of the answers
          MaxBroken, MaxFail,     \* bounds: answers that break off; demonstrations with a failing request
          MaxNoMemory             \* bound: failing mallocs

\* A demonstration: how many requests it makes on its client, whether the
\* client has a handler and a buffer of its own for the answers, how it calls
\* the library, and what the server sends: "chunked", and hops of a redirect.
Demo(name, requests, mode, user_data, chunked, hops) ==
    [name |-> name, requests |-> requests, mode |-> mode, user_data |-> user_data, chunked |-> chunked, hops |-> hops]
http_rest_with_url           == Demo("rest_url", 6, "perform", TRUE, FALSE, 0)
http_rest_with_hostname_path == Demo("rest_host", 6, "perform", FALSE, FALSE, 0)
http_auth_basic              == Demo("basic", 1, "perform", FALSE, FALSE, 0)
http_auth_basic_redirect     == Demo("basic_redirect", 1, "perform", FALSE, FALSE, 1)
http_auth_digest             == Demo("digest", 1, "perform", FALSE, FALSE, 1)
http_relative_redirect       == Demo("relative", 1, "perform", FALSE, FALSE, 3)
http_absolute_redirect       == Demo("absolute", 1, "perform", FALSE, FALSE, 3)
https_with_url               == Demo("https_url", 1, "perform", FALSE, FALSE, 0)
https_with_hostname_path     == Demo("https_host", 1, "perform", FALSE, FALSE, 0)
http_redirect_to_https       == Demo("to_https", 1, "perform", FALSE, FALSE, 1)
http_download_chunk          == Demo("chunk", 1, "perform", FALSE, TRUE, 0)
http_perform_as_stream_reader == Demo("stream", 1, "stream", FALSE, FALSE, 0)
https_async                  == Demo("async", 1, "async", FALSE, FALSE, 0)
https_with_invalid_url       == Demo("invalid", 1, "invalid", FALSE, FALSE, 0)
http_native_request          == Demo("native", 2, "native", FALSE, FALSE, 0)
http_test_task ==
    << http_rest_with_url, http_rest_with_hostname_path >>
    \o (IF BASIC_AUTH THEN << http_auth_basic, http_auth_basic_redirect >> ELSE <<>>)
    \o << http_auth_digest, http_relative_redirect, http_absolute_redirect, https_with_url,
          https_with_hostname_path, http_redirect_to_https, http_download_chunk, http_perform_as_stream_reader,
          https_async, https_with_invalid_url, http_native_request >>

VARIABLES demo, request, hop, \* position in http_test_task and in its demonstration
          pc,            \* "init", "request", "body", "cleanup" or "end"
          clients,       \* demonstrations whose client was not cleaned up
          output_buffer, \* 0: NULL, otherwise its size
          output_len,    \* as in the handler
          left, length,  \* of the answer that arrives: what is missing, and in all
          broken, nomemory, \* answers that broke off, mallocs that failed
          fails,         \* requests that failed
          unopened,      \* history: the stream reader could not open its connection
          carried,       \* history: units in the buffer of answers that broke off
          refused,       \* history: units of this answer for which there was no memory
          result         \* what the handler had when an answer ended, until the next one
vars == <<demo, request, hop, pc, clients, output_buffer, output_len, left, length, broken, nomemory, fails,
          unopened, carried, refused, result>>
handler == <<output_buffer, output_len>>
hist == <<unopened, carried, refused, result>>

NoResult == [arrived |-> 0, size |-> 0, gathered |-> 0, carried |-> 0]
Init == /\ demo = 1 /\ request = 1 /\ hop = 0 /\ pc = "init" /\ clients = {} /\ output_buffer = 0 /\ output_len = 0
        /\ left = 0 /\ length = 0 /\ broken = 0 /\ nomemory = 0 /\ fails = 0 /\ unopened = FALSE /\ carried = 0 /\ refused = 0
        /\ result = NoResult
Now == http_test_task[demo]
Handled == Now.mode \in {"perform", "async"}   \* the others have no handler, or no answer
-----------------------------------------------------------------------------
\* esp_http_client_init.
InitClient == /\ pc = "init" /\ clients' = clients \cup {Now.name} /\ pc' = "request" /\ request' = 1 /\ hop' = 0
              /\ UNCHANGED <<demo, handler, left, length, broken, nomemory, fails, hist>>
NextDemo == IF demo < Len(http_test_task) THEN demo' = demo + 1 /\ pc' = "init" ELSE pc' = "end" /\ UNCHANGED demo
NoMemory == nomemory < MaxNoMemory /\ nomemory' = nomemory + 1
\* The stream reader has no buffer, and makes no client.
NoBuffer == /\ pc = "init" /\ Now.mode = "stream" /\ NoMemory /\ NextDemo
            /\ UNCHANGED <<request, hop, clients, handler, left, length, broken, fails, hist>>
NextRequest == /\ hop' = 0
               /\ IF request < Now.requests THEN request' = request + 1 /\ pc' = "request"
                  ELSE pc' = "cleanup" /\ UNCHANGED request
\* A request goes out, its header is answered; or it fails, which is logged,
\* and only the stream reader returns then, without its clean-up.
IsHead == request = 6
RequestAnswered == /\ pc = "request" /\ Now.mode # "invalid"
                   /\ \E n \in Lengths : length' = n /\ left' = IF IsHead THEN 0 ELSE n
                   /\ pc' = "body" /\ refused' = 0 /\ result' = NoResult
                   /\ UNCHANGED <<demo, request, hop, clients, handler, broken, nomemory, fails, unopened, carried>>
LeavesOnFailure == Now.mode = "stream"
AfterFailure == IF LeavesOnFailure THEN NextDemo /\ UNCHANGED <<request, hop>>
                ELSE NextRequest /\ UNCHANGED demo
RequestFails == /\ pc = "request" /\ (Now.mode = "invalid" \/ fails < MaxFail)
                /\ fails' = IF Now.mode = "invalid" THEN fails ELSE fails + 1
                /\ unopened' = (unopened \/ LeavesOnFailure)
                /\ AfterFailure /\ UNCHANGED <<clients, handler, left, length, broken, nomemory, carried, refused, result>>
-----------------------------------------------------------------------------
\* _http_event_handler
\* HTTP_EVENT_ON_DATA with n units.  Without memory it returns ESP_FAIL, which
\* the library does not look at: the next piece of the answer tries again.
Gathers(n) == output_len' = output_len + n /\ UNCHANGED <<output_buffer, nomemory, refused>>
Allocates(n, len) == /\ \/ output_buffer' = length /\ output_len' = len + n /\ UNCHANGED <<nomemory, refused>>
                        \/ NoMemory /\ output_len' = len /\ refused' = refused + n /\ UNCHANGED output_buffer
\* The one below with output_len kept from the answer before (a mutant).
OnDataKeepsLength(n) == IF Now.chunked THEN UNCHANGED <<handler, nomemory, refused>>
                        ELSE IF Now.user_data \/ output_buffer # 0 THEN Gathers(n) ELSE Allocates(n, output_len)
OnData(n) == IF Now.chunked THEN UNCHANGED <<handler, nomemory, refused>>
             ELSE IF Now.user_data \/ output_buffer # 0 THEN Gathers(n) ELSE Allocates(n, 0)
\* HTTP_EVENT_ON_FINISH: free the buffer.
OnFinish == IF output_buffer # 0 THEN output_buffer' = 0 /\ output_len' = 0 ELSE UNCHANGED handler
\* HTTP_EVENT_DISCONNECTED: free it, if TLS has an error to report.
OnDisconnected(err) == IF err /\ output_buffer # 0 THEN output_buffer' = 0 /\ output_len' = 0 ELSE UNCHANGED handler
-----------------------------------------------------------------------------
\* The library: data in pieces, the end of an answer, an answer that breaks off.
Data == /\ pc = "body" /\ left > 0
        /\ \E n \in 1..left : left' = left - n /\ IF Handled THEN OnData(n) ELSE UNCHANGED <<handler, nomemory, refused>>
        /\ UNCHANGED <<demo, request, hop, pc, clients, length, broken, fails, unopened, carried, result>>
\* What of an answer that ends the handler was given to gather.
Given == IF IsHead \/ Now.chunked THEN 0 ELSE length - refused
Finish == /\ pc = "body" /\ left = 0
          /\ IF Handled THEN OnFinish ELSE UNCHANGED handler
          /\ result' = IF Handled THEN [arrived |-> Given, size |-> output_buffer, gathered |-> output_len,
                                        carried |-> carried] ELSE NoResult
          /\ carried' = IF output_buffer' = 0 THEN 0 ELSE carried
          /\ IF hop < Now.hops THEN hop' = hop + 1 /\ pc' = "request" /\ UNCHANGED request
             ELSE NextRequest
          /\ UNCHANGED <<demo, clients, left, length, broken, nomemory, fails, unopened, refused>>
BreaksOff == /\ pc = "body" /\ left > 0 /\ broken < MaxBroken /\ broken' = broken + 1
             /\ \E err \in BOOLEAN : IF Handled THEN OnDisconnected(err) ELSE UNCHANGED handler
             /\ carried' = (IF output_buffer' = 0 THEN 0 ELSE output_len') /\ left' = 0 /\ NextRequest
             /\ UNCHANGED <<demo, clients, length, nomemory, fails, unopened, refused, result>>
Cleanup == /\ pc = "cleanup" /\ clients' = clients \ {Now.name} /\ NextDemo
           /\ UNCHANGED <<request, hop, handler, left, length, broken, nomemory, fails, hist>>

Step == InitClient \/ NoBuffer \/ RequestAnswered \/ RequestFails \/ Data \/ Finish \/ BreaksOff \/ Cleanup
Next == Step
\* The library gives up a silent server after its time limit; asynchronous, it
\* returns EAGAIN and is called again, without end (524-529).
Polls == Now.mode = "async" /\ pc \in {"request", "body"}
GoesOn == ~Polls /\ Step
Spec == Init /\ [][Next]_vars /\ WF_vars(GoesOn)
-----------------------------------------------------------------------------
Names == {http_test_task[i].name : i \in DOMAIN http_test_task}
TypeOK == /\ demo \in DOMAIN http_test_task /\ request \in 1..6 /\ hop \in 0..3
          /\ pc \in {"init", "request", "body", "cleanup", "end"} /\ clients \subseteq Names
          /\ output_buffer \in Lengths \cup {0} /\ output_len \in Nat /\ left \in 0..length
          /\ length \in Lengths \cup {0} /\ broken \in 0..MaxBroken /\ nomemory \in 0..MaxNoMemory
          /\ fails \in 0..MaxFail /\ unopened \in BOOLEAN /\ carried \in 0..output_len /\ refused \in 0..length
\* Without a buffer of its own, what was gathered when an answer ends is that
\* answer, whatever the pieces, the redirects and the clients before it: less
\* the pieces for which there was no memory (72-75), and behind what answers
\* left that broke off without a TLS error (97), whose buffer is used then;
\* otherwise the buffer is as long as the answer.
GathersOneAnswer == result.size # 0 => /\ result.gathered = result.arrived + result.carried
                                       /\ result.carried = 0 => result.size >= result.gathered
\* Between two answers nothing stays allocated but what such an answer left.
NothingAllocated == pc \in {"init", "cleanup", "end"} /\ output_buffer # 0 => carried # 0
\* One client at a time: that of every demonstration is cleaned up before the
\* next, whatever fails, but the stream reader's when it could not open its
\* connection (485-489).
Kept == IF unopened THEN {http_perform_as_stream_reader.name} ELSE {}
ClientsCleanedUp == clients \ Kept \subseteq IF pc \in {"init", "end"} THEN {} ELSE {Now.name}
\* The task comes to its end, whatever fails, unless the server of https_async
\* stays silent.
Finishes == <>(pc = "end") \/ <>[]Polls
=============================================================================
