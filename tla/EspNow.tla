------------------------------- MODULE EspNow -------------------------------
(***************************************************************************)
(* The ESP-NOW example (wifi/espnow): two devices broadcast until they     *)
(* have heard each other, then the one with the bigger magic number sends  *)
(* SEND_COUNT unicast frames.  Per device: the application task, its queue *)
(* of events, the WiFi task that calls the two callbacks and blocks on a   *)
(* full queue, and the frames the driver has still to send.                *)
(***************************************************************************)
EXTENDS Naturals, Sequences

CONSTANTS Nodes, SEND_COUNT,
          Draws,       \* the magic numbers drawn, a function of Nodes each
          QUEUE_SIZE,  \* events in example_espnow_queue
          RX_BUFFERS   \* frames the WiFi task has room for

VARIABLES task,    \* "start" (the 5 s delay), "wait", "delay", "leaving" (the queue is deleted) or "gone"
          param,   \* send_param: unicast, broadcast, state, magic, count, dest_mac
          queue,   \* example_espnow_queue
          wifi,    \* events the WiFi task's callbacks have still to post
          air,     \* frames given to esp_now_send and not yet sent
          peers,   \* unicast peers of the driver
          sent,    \* history: unicast frames sent, whether one arrived here
          failed   \* history: a call failed on this device
vars == <<task, param, queue, wifi, air, peers, sent, failed>>

BROADCAST == "broadcast"
Other(n) == CHOOSE m \in Nodes : m # n

\* example_espnow_init
Init == /\ task = [n \in Nodes |-> "start"]
        /\ \E magic \in Draws :
             param = [n \in Nodes |-> [unicast |-> FALSE, broadcast |-> TRUE, state |-> 0, magic |-> magic[n],
                                       count |-> SEND_COUNT, dest_mac |-> BROADCAST]]
        /\ queue = [n \in Nodes |-> <<>>] /\ wifi = [n \in Nodes |-> <<>>]
        /\ air = [n \in Nodes |-> <<>>] /\ peers = [n \in Nodes |-> {}]
        /\ sent = [n \in Nodes |-> [out |-> 0, in |-> FALSE]] /\ failed = [n \in Nodes |-> FALSE]
-----------------------------------------------------------------------------
\* example_espnow_data_prepare with the parameters p
Prepared(p) == [type |-> IF p.dest_mac = BROADCAST THEN "broadcast" ELSE "unicast",
                state |-> p.state, magic |-> p.magic]

\* The radio sends n's next frame: example_espnow_send_cb runs on n and, if it
\* gets through, example_espnow_recv_cb on the other (without memory it is lost
\* there too; an encrypted frame needs its sender to be a peer).
FrameSent(n) == /\ air[n] # <<>> /\ task[n] # "gone"
                /\ air' = [air EXCEPT ![n] = Tail(@)]
SendEvent(n) == [id |-> "SEND_CB", type |-> Head(air[n]).type]
Delivered(n) == LET m == Other(n) f == Head(air[n]) IN
    /\ FrameSent(n)
    /\ task[m] # "gone" /\ Len(wifi[m]) < RX_BUFFERS /\ (f.type = "unicast" => n \in peers[m])
    /\ \E intact \in BOOLEAN :
         wifi' = [wifi EXCEPT ![n] = Append(@, SendEvent(n)),
                                 ![m] = Append(@, [id |-> "RECV_CB", from |-> n, type |-> f.type, intact |-> intact,
                                                   state |-> f.state, magic |-> f.magic])]
    /\ UNCHANGED <<task, param, queue, peers, sent, failed>>
GetsThrough(n) == Delivered(n) /\ wifi'[Other(n)][Len(wifi'[Other(n)])].intact
Lost(n) == /\ FrameSent(n) /\ wifi' = [wifi EXCEPT ![n] = Append(@, SendEvent(n))]
           /\ UNCHANGED <<task, param, queue, peers, sent, failed>>
\* xQueueSend of a callback, with portMAX_DELAY
Post(n) == /\ wifi[n] # <<>> /\ task[n] \notin {"leaving", "gone"} /\ Len(queue[n]) < QUEUE_SIZE
           /\ queue' = [queue EXCEPT ![n] = Append(@, Head(wifi[n]))]
           /\ wifi' = [wifi EXCEPT ![n] = Tail(@)]
           /\ UNCHANGED <<task, param, air, peers, sent, failed>>
-----------------------------------------------------------------------------
\* example_espnow_deinit deletes the queue before esp_now_deinit ends the callbacks.
Deinit(n) == task' = [task EXCEPT ![n] = "leaving"]
Off(n) == /\ task' = [task EXCEPT ![n] = "gone"] /\ queue' = [queue EXCEPT ![n] = <<>>]
          /\ wifi' = [wifi EXCEPT ![n] = <<>>] /\ air' = [air EXCEPT ![n] = <<>>]
Leave(n) == task[n] = "leaving" /\ Off(n) /\ UNCHANGED <<param, peers, sent, failed>>
\* A callback of before that posts into the deleted queue: its event is lost or
\* the chip panics (what it does after the restart is not modelled); that the
\* WiFi task hangs there is that this step is never taken.
PostFreed(n) == /\ wifi[n] # <<>> /\ task[n] = "leaving"
                /\ \/ wifi' = [wifi EXCEPT ![n] = Tail(@)] /\ UNCHANGED <<task, queue, air, failed>>
                   \/ Off(n) /\ failed' = [failed EXCEPT ![n] = TRUE]
                /\ UNCHANGED <<param, peers, sent>>
\* esp_now_send of what p prepares, or its failure
Send(n, p) == /\ air' = [air EXCEPT ![n] = Append(@, Prepared(p))]
              /\ sent' = [sent EXCEPT ![n].out = IF p.dest_mac = BROADCAST THEN @ ELSE @ + 1]
              /\ UNCHANGED failed
SendFails(n) == Deinit(n) /\ failed' = [failed EXCEPT ![n] = TRUE] /\ UNCHANGED <<air, sent>>

\* The first broadcast, 5 s after the start, was prepared by example_espnow_init.
StartSending(n) == /\ task[n] = "start"
                   /\ \/ Send(n, param[n]) /\ task' = [task EXCEPT ![n] = "wait"]
                      \/ SendFails(n)
                   /\ UNCHANGED <<param, queue, wifi, peers>>

\* example_espnow_data_parse: the CRC tells a frame that was damaged.
Parsed(evt) == IF evt.intact THEN evt.type ELSE "error"
Taken(n, id) == /\ task[n] = "wait" /\ queue[n] # <<>> /\ Head(queue[n]).id = id
                /\ queue' = [queue EXCEPT ![n] = Tail(@)]
HandleSend(n) ==
    /\ Taken(n, "SEND_CB")
    /\ LET type == Head(queue[n]).type
           p == IF type = "unicast" THEN [param[n] EXCEPT !.count = @ - 1] ELSE param[n] IN
       IF type = "broadcast" /\ ~p.broadcast THEN UNCHANGED <<task, param>>
       ELSE IF type = "unicast" /\ p.count = 0 THEN Deinit(n) /\ param' = [param EXCEPT ![n] = p]
       ELSE /\ task' = [task EXCEPT ![n] = "delay"]
            /\ param' = [param EXCEPT ![n] = [p EXCEPT !.dest_mac =
                                              IF type = "broadcast" THEN BROADCAST ELSE Other(n)]]
    /\ UNCHANGED <<wifi, air, peers, sent, failed>>
\* The delay before the next frame is over: prepare it and send it.
SendNext(n) == /\ task[n] = "delay"
               /\ \/ Send(n, param[n]) /\ task' = [task EXCEPT ![n] = "wait"]
                  \/ SendFails(n)
               /\ UNCHANGED <<param, queue, wifi, peers>>

\* The one below before a broadcast was heard (a mutant).
StartsUnheard(p, f) == ~p.unicast /\ p.magic >= f.magic
\* A broadcast: its sender becomes a peer; if it has heard a broadcast too and
\* our magic is not smaller, unicast starts.
StartsUnicast(p, f) == f.state = 1 /\ ~p.unicast /\ p.magic >= f.magic
HandleBroadcast(n) ==
    /\ Taken(n, "RECV_CB") /\ Parsed(Head(queue[n])) = "broadcast"
    /\ LET f == Head(queue[n])
           p == [param[n] EXCEPT !.state = 1]
           u == [p EXCEPT !.dest_mac = f.from] IN
       \/ /\ f.from \notin peers[n] /\ SendFails(n) /\ UNCHANGED <<param, peers>>     \* no memory for the peer
       \/ /\ peers' = [peers EXCEPT ![n] = @ \cup {f.from}]
          /\ \/ /\ ~StartsUnicast(p, f) /\ param' = [param EXCEPT ![n] = p]
                /\ UNCHANGED <<task, air, sent, failed>>
             \/ /\ StartsUnicast(p, f) /\ Send(n, u) /\ UNCHANGED task
                /\ param' = [param EXCEPT ![n] = [u EXCEPT !.broadcast = FALSE, !.unicast = TRUE]]
             \/ StartsUnicast(p, f) /\ SendFails(n) /\ param' = [param EXCEPT ![n] = u]
    /\ UNCHANGED wifi
\* A unicast frame ends our own broadcasting; a damaged one is ignored.
Silenced(p) == [p EXCEPT !.broadcast = FALSE]
HandleOther(n) ==
    /\ Taken(n, "RECV_CB") /\ Parsed(Head(queue[n])) # "broadcast"
    /\ IF Parsed(Head(queue[n])) = "unicast"
       THEN param' = [param EXCEPT ![n] = Silenced(@)] /\ sent' = [sent EXCEPT ![n].in = TRUE]
       ELSE UNCHANGED <<param, sent>>
    /\ UNCHANGED <<task, wifi, air, peers, failed>>

TaskStep(n) == StartSending(n) \/ HandleSend(n) \/ SendNext(n) \/ HandleBroadcast(n) \/ HandleOther(n)
               \/ Leave(n)
Radio(n) == Delivered(n) \/ Lost(n)
Next == \E n \in Nodes : TaskStep(n) \/ Radio(n) \/ Post(n) \/ PostFreed(n)
\* The tasks go on, and of frames sent again and again one gets through.
Fairness == \A n \in Nodes : WF_vars(TaskStep(n)) /\ WF_vars(Radio(n)) /\ WF_vars(Post(n)) /\ SF_vars(GetsThrough(n))
Spec == Init /\ [][Next]_vars /\ Fairness
-----------------------------------------------------------------------------
Params == [unicast : BOOLEAN, broadcast : BOOLEAN, state : {0, 1}, magic : Nat,
           count : 0..SEND_COUNT, dest_mac : {BROADCAST} \cup Nodes]
TypeOK == /\ task \in [Nodes -> {"start", "wait", "delay", "leaving", "gone"}] /\ param \in [Nodes -> Params]
          /\ \A n \in Nodes : Len(queue[n]) <= QUEUE_SIZE /\ Len(air[n]) <= 2 /\ peers[n] \subseteq {Other(n)}
          /\ sent \in [Nodes -> [out : 0..SEND_COUNT, in : BOOLEAN]]
\* A unicast frame goes out only to a device that has this one as a peer and
\* can decrypt it, and of two different magic numbers only the bigger one's
\* device sends: what state and magic in the broadcasts are for (250-281).
UnicastUnderstood == \A n \in Nodes : sent[n].out > 0 =>
    /\ n \in peers[Other(n)] /\ param[n].magic >= param[Other(n)].magic
\* A device that is done has sent SEND_COUNT unicast frames, no broadcast's
\* callback having been counted for one (191-199).
SendsExactly == \A n \in Nodes : task[n] \in {"leaving", "gone"} /\ ~failed[n] => sent[n].out = SEND_COUNT
\* Without a failing call somebody gets to send all its frames, though any
\* frame may be lost and a full queue holds up the WiFi task.
ElectionEnds == <>(\E n \in Nodes : task[n] = "gone" \/ failed[n])
\* A device that has got a unicast frame stops broadcasting for good.
ReceiverFallsSilent == \A n \in Nodes :
    sent[n].in ~> [](\A i \in 1..Len(air[n]) : air[n][i].type = "unicast")
=============================================================================
