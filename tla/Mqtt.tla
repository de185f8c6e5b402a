-------------------------------- MODULE Mqtt --------------------------------
(***************************************************************************)
(* The MQTT examples (protocols/mqtt: tcp, ssl, ssl_psk, ssl_mutual_auth,  *)
(* ws, wss): an event handler, called by the MQTT task with each packet of *)
(* the broker in turn, that subscribes anew on every connection and        *)
(* publishes when a subscription is confirmed.  The connection may break   *)
(* at any time and takes what is under way with it.                        *)
(***************************************************************************)
EXTENDS Naturals, Sequences, SequencesExt

CONSTANTS Variants,   \* of the six directories
          LINE,       \* size of the line the URI is typed into
          MaxConns    \* bound: connections made

\* What is sent to the broker, and what the handler sends first.
Publish(topic, qos) == [op |-> "publish", topic |-> topic, qos |-> qos]
Subscribe(topic) == [op |-> "subscribe", topic |-> topic, qos |-> 0]
Unsubscribe(topic) == [op |-> "unsubscribe", topic |-> topic, qos |-> 0]
\* The handler on CONNECTED, and whether the URI may be typed in
Variant(stdin, connected) == [stdin |-> stdin, connected |-> connected]
tcp             == Variant(TRUE, << Publish("qos1", 1), Subscribe("qos0"), Subscribe("qos1"), Unsubscribe("qos1") >>)
ssl             == Variant(FALSE, << Subscribe("qos0"), Subscribe("qos1"), Unsubscribe("qos1") >>)
ssl_psk         == Variant(FALSE, << Subscribe("qos0"), Subscribe("qos1"), Unsubscribe("qos1") >>)
ssl_mutual_auth == Variant(FALSE, << Subscribe("qos0"), Subscribe("qos1"), Unsubscribe("qos1") >>)
\* The one below unsubscribing first (a mutant).
wsUnsubscribesFirst == Variant(FALSE, << Subscribe("qos0"), Unsubscribe("qos1"), Subscribe("qos1") >>)
ws              == Variant(FALSE, << Subscribe("qos0"), Subscribe("qos1"), Unsubscribe("qos1") >>)
wss             == Variant(FALSE, << Subscribe("qos0"), Subscribe("qos1"), Unsubscribe("qos1") >>)
Example(v) == CASE v = "tcp" -> tcp [] v = "ssl" -> ssl [] v = "ssl_psk" -> ssl_psk
                [] v = "ssl_mutual_auth" -> ssl_mutual_auth [] v = "ws" -> ws [] v = "wss" -> wss

VARIABLES variant,
          uri,    \* "none", "good", or "garbage": a typed line that was never terminated
          typed,  \* characters typed so far
          conn, conns,
          out, in, \* packets under way to the broker and from it
          subs,   \* what the broker has this client subscribed to
          unheard \* history: a publication to /topic/qos0 found no subscription
vars == <<variant, uri, typed, conn, conns, out, in, subs, unheard>>

Init == /\ variant \in Variants /\ uri = "none" /\ typed = 0 /\ conn = FALSE /\ conns = 0
        /\ out = <<>> /\ in = <<>> /\ subs = {} /\ unheard = FALSE
-----------------------------------------------------------------------------
\* mqtt_app_start: the URI is configured, or read from stdin: a character at a
\* time, up to a newline or until the line is full.
Configured == /\ uri = "none" /\ typed = 0 /\ uri' = "good"
              /\ UNCHANGED <<variant, typed, conn, conns, out, in, subs, unheard>>
TypesUrl == /\ uri = "none" /\ Example(variant).stdin /\ typed < LINE
            /\ \/ typed' = typed + 1 /\ uri' = IF typed' = LINE THEN "garbage" ELSE "none"
               \/ typed > 0 /\ uri' = "good" /\ UNCHANGED typed
            /\ UNCHANGED <<variant, conn, conns, out, in, subs, unheard>>
\* The MQTT task connects: MQTT_EVENT_CONNECTED.
Connected == /\ uri = "good" /\ ~conn /\ conns < MaxConns /\ conn' = TRUE /\ conns' = conns + 1
             /\ out' = Example(variant).connected
             /\ UNCHANGED <<variant, uri, typed, in, subs, unheard>>
\* MQTT_EVENT_DISCONNECTED is only logged; the broker keeps no session.
Disconnected == /\ conn /\ conns < MaxConns /\ conn' = FALSE /\ out' = <<>> /\ in' = <<>> /\ subs' = {}
                /\ UNCHANGED <<variant, uri, typed, conns, unheard>>
\* The broker takes the packets in turn: it confirms all but a publication of
\* QoS 0, and sends a publication to its subscribers.
Broker ==
    /\ out # <<>> /\ out' = Tail(out)
    /\ LET p == Head(out)
           event == CASE p.op = "publish" -> "PUBLISHED" [] p.op = "subscribe" -> "SUBSCRIBED" [] OTHER -> "UNSUBSCRIBED"
           confirm == IF p.op = "publish" /\ p.qos = 0 THEN <<>> ELSE <<[event |-> event, topic |-> p.topic]>>
           data == IF p.op = "publish" /\ p.topic \in subs THEN <<[event |-> "DATA", topic |-> p.topic]>> ELSE <<>> IN
       /\ in' = in \o confirm \o data
       /\ subs' = CASE p.op = "subscribe" -> subs \cup {p.topic} [] p.op = "unsubscribe" -> subs \ {p.topic} [] OTHER -> subs
       /\ unheard' = (unheard \/ (p = Publish("qos0", 0) /\ data = <<>>))
    /\ UNCHANGED <<variant, uri, typed, conn, conns>>
\* mqtt_event_handler on the next packet: a confirmed subscription, any, is
\* followed by a publication to /topic/qos0; the rest is logged.
Handler == /\ in # <<>> /\ in' = Tail(in)
           /\ out' = IF Head(in).event = "SUBSCRIBED" THEN Append(out, Publish("qos0", 0)) ELSE out
           /\ UNCHANGED <<variant, uri, typed, conn, conns, subs, unheard>>

Next == Configured \/ TypesUrl \/ Connected \/ Disconnected \/ Broker \/ Handler
Spec == Init /\ [][Next]_vars /\ WF_vars(Connected) /\ WF_vars(Broker) /\ WF_vars(Handler)
-----------------------------------------------------------------------------
Requests == UNION {Range(Example(v).connected) : v \in Variants} \cup {Publish("qos0", 0)}
TypeOK == /\ variant \in Variants /\ uri \in {"none", "good", "garbage"} /\ typed \in 0..LINE /\ conn \in BOOLEAN
          /\ conns \in 0..MaxConns /\ out \in Seq(Requests) /\ Len(in) <= 8 /\ subs \subseteq {"qos0", "qos1"}
\* The order of the calls on CONNECTED matters: the broker never has a
\* publication to /topic/qos0 for a client not subscribed to it yet, and never
\* sends back what was published to /topic/qos1 (tcp 43-54).
HearsItsOwn == ~unheard /\ \A i \in DOMAIN in : in[i].event = "DATA" => in[i].topic = "qos0"
\* Whatever the connections before it, one that lasts ends up subscribed to
\* /topic/qos0 and to nothing else, with nothing left to say.
Settles == <>[]conn => <>[](subs = {"qos0"} /\ out = <<>> /\ in = <<>>)
=============================================================================
