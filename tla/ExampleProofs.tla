----------------------------- MODULE ExampleProofs -----------------------------
(***************************************************************************)
(* Theorems about programs of examples/ that MCDevices and MCNetwork       *)
(* check, for every value of their constants and bounds.  An instance has  *)
(* the constants and variables of the same names, and a theorem is about   *)
(* one instance: that two of them share a name here does not matter.       *)
(***************************************************************************)
EXTENDS Integers, Sequences, SequenceTheorems, FiniteSetTheorems, TLAPS

(* The newest of a queue of events stays so when the oldest is taken out.  *)
Newest(q) == q[Len(q)]

LEMMA TakenOut ==
  ASSUME NEW E, NEW q \in Seq(E), q # <<>>
  PROVE  /\ Tail(q) \in Seq(E) /\ Len(Tail(q)) = Len(q) - 1 /\ Head(q) \in E
         /\ Tail(q) # <<>> => Newest(Tail(q)) = Newest(q)
         /\ Tail(q) = <<>> => Newest(q) = Head(q)
<1>1. /\ Tail(q) \in Seq(E) /\ Len(Tail(q)) = Len(q) - 1 /\ Head(q) \in E
      /\ \A i \in 1..Len(q) - 1 : Tail(q)[i] = q[i + 1]
  BY HeadTailProperties
<1>2. Tail(q) # <<>> => Newest(Tail(q)) = Newest(q)
  <2> SUFFICES ASSUME Tail(q) # <<>> PROVE Newest(Tail(q)) = Newest(q)
    OBVIOUS
  <2>1. Len(Tail(q)) \in 1..Len(q) - 1
    BY <1>1, EmptySeq, LenProperties
  <2> QED BY <1>1, <2>1 DEF Newest
<1>3. Tail(q) = <<>> => Newest(q) = Head(q)
  <2> SUFFICES ASSUME Tail(q) = <<>> PROVE Newest(q) = Head(q)
    OBVIOUS
  <2>1. Len(q) = 1
    BY <1>1, EmptySeq
  <2> QED BY <2>1 DEF Newest
<1> QED BY <1>1, <1>2, <1>3

LEMMA Alone == ASSUME NEW e PROVE <<e>> # <<>> /\ Newest(<<e>>) = e /\ Len(<<e>>) = 1
  BY DEF Newest

LEMMA PutIn ==
  ASSUME NEW E, NEW q \in Seq(E), NEW e \in E
  PROVE  /\ Append(q, e) \in Seq(E) /\ Len(Append(q, e)) = Len(q) + 1 /\ Append(q, e) # <<>>
         /\ Newest(Append(q, e)) = e
  BY DEF Newest
-----------------------------------------------------------------------------
(***************************************************************************)
(* Provisioning (SoftApProv).                                              *)
(***************************************************************************)
CONSTANTS ATTEMPTS, MaxBoots, MaxSets, MaxEvents
VARIABLES main, g_prov, wifi_state, reason, timer, stopper, service, registered, ctx, flash,
          apsta, link, on, events, retry, boots, sets, failure, connected, asked, late, refused
Prov == INSTANCE SoftApProv

ProvAssumption == /\ {ATTEMPTS, MaxSets, MaxEvents} \subseteq Nat
                  /\ MaxBoots \in Nat \ {0}

ProvEvents == {"START", "GOT_IP"} \cup Prov!Disconnects

ProvFlags == /\ g_prov \in BOOLEAN /\ service \in BOOLEAN /\ registered \in BOOLEAN
             /\ apsta \in BOOLEAN /\ connected \in BOOLEAN /\ late \in BOOLEAN /\ refused \in BOOLEAN

ProvRanges ==
    /\ main \in {"boot", "provisioning", "stopped", "station"}
    /\ wifi_state \in {"CONNECTING", "CONNECTED", "DISCONNECTED"}
    /\ reason \in Prov!Disconnects \cup {"none"} /\ failure \in Prov!Disconnects \cup {"none"}
    /\ timer \in {"none", "idle", "armed"}
    /\ stopper \in {"none", "service", "handlers", "timer", "free"}
    /\ ctx \in {"none", "good", "bad"} /\ flash \in {"none", "good", "bad"}
    /\ link \in {"down", "trying", "up"} /\ on \in {"none", "good", "bad"}
    /\ asked \in [config : {"none", "good", "bad"}, failed : BOOLEAN]
    /\ events \in Seq(ProvEvents) /\ Len(events) <= MaxEvents + 2
    /\ retry \in 0..ATTEMPTS /\ boots \in 1..MaxBoots /\ sets \in 0..MaxSets

(* What is there in each phase of main and of stop_prov_task.              *)
ProvPhases ==
    /\ main = "boot" => ~apsta /\ link = "down" /\ events = <<>> /\ wifi_state = "CONNECTING"
    /\ main # "provisioning" => ~g_prov /\ ~service /\ ~registered /\ stopper = "none" /\ (timer = "none" \/ late)
    /\ main = "provisioning" => g_prov
    /\ main = "provisioning" /\ stopper \in {"none", "service"} => service /\ registered
    /\ stopper \in {"handlers", "timer", "free"} => ~service
    /\ stopper = "handlers" => registered
    /\ stopper \in {"timer", "free"} => ~registered
    /\ stopper # "none" => timer # "armed" \/ late
    /\ stopper = "free" => timer # "idle"
    /\ main \in {"boot", "provisioning"} /\ ~apsta => link = "down" /\ events = <<>>
    /\ main = "station" => ~apsta

(* The newest event that is not handled yet, or with none what the phone   *)
(* is told, is what became of the station, unless an attempt is under way. *)
NewestTells ==
    main = "provisioning" /\ registered =>
    /\ link = "up" => IF events = <<>> THEN wifi_state = "CONNECTED" ELSE Newest(events) = "GOT_IP"
    /\ link = "down" =>
         IF events = <<>> THEN wifi_state = "CONNECTING" \/ (wifi_state = "DISCONNECTED" /\ reason = failure)
         ELSE Newest(events) \in {"START", "OTHER"} \cup (Prov!Disconnects \cap {failure})

(* What was tried last, and is stored, is what was applied last, unless a  *)
(* call failed.                                                            *)
AskedIsTried ==
    /\ main = "boot" => on = "none" /\ asked.config = "none"
    /\ main = "provisioning" /\ ~asked.failed => on = asked.config /\ flash = asked.config

(* A station without a link has an event to come that makes it try again,  *)
(* or has given up.                                                        *)
NewestRetries ==
    main = "station" /\ link = "down" =>
        IF events = <<>> THEN retry = ATTEMPTS ELSE Newest(events) # "GOT_IP"

ProvInv == ProvFlags /\ ProvRanges /\ ProvPhases /\ NewestTells /\ NewestRetries /\ AskedIsTried

LEMMA ProvInit == ASSUME ProvAssumption PROVE Prov!Init => ProvInv
<1> SUFFICES ASSUME Prov!Init PROVE ProvInv
  OBVIOUS
<1> USE DEF ProvAssumption, Prov!Init
<1>1. ProvFlags
  BY DEF ProvFlags
<1>2. ProvRanges
  BY DEF ProvRanges
<1> QED BY <1>1, <1>2 DEF ProvInv, ProvPhases, NewestTells, NewestRetries, AskedIsTried

LEMMA ProvNext ==
  ASSUME ProvAssumption, ProvInv, [Prov!Next]_(Prov!vars)
  PROVE  ProvInv'
<1>b. events \in Seq(ProvEvents)
  BY DEF ProvInv, ProvRanges
<1>a. /\ events # <<>> => /\ Tail(events) \in Seq(ProvEvents) /\ Len(Tail(events)) = Len(events) - 1
                          /\ Head(events) \in ProvEvents
                          /\ Tail(events) # <<>> => Newest(Tail(events)) = Newest(events)
                          /\ Tail(events) = <<>> => Newest(events) = Head(events)
      /\ \A e \in ProvEvents : /\ Append(events, e) \in Seq(ProvEvents)
                                /\ Len(Append(events, e)) = Len(events) + 1
                                /\ Append(events, e) # <<>> /\ Newest(Append(events, e)) = e
  BY <1>b, TakenOut, PutIn
<1> USE DEF ProvAssumption, ProvInv, Prov!Disconnects, ProvEvents, Prov!app, Prov!count, Prov!past
<1>1. ASSUME Prov!StartProvisioning PROVE ProvInv'
  <2> USE <1>a, <1>1 DEF Prov!StartProvisioning
  <2>1. ProvFlags'
    BY DEF ProvFlags
  <2>2. ProvRanges'
    BY Alone DEF ProvRanges
  <2>3. ProvPhases'
    BY DEF ProvRanges, ProvPhases
  <2>4. NewestTells'
    BY DEF ProvRanges, ProvPhases, NewestTells
  <2>5. NewestRetries'
    BY Alone DEF ProvRanges, ProvPhases, NewestRetries
  <2>6. AskedIsTried'
    BY DEF ProvRanges, ProvPhases, AskedIsTried
  <2> QED BY <2>1, <2>2, <2>3, <2>4, <2>5, <2>6
<1>2. ASSUME Prov!StartStation PROVE ProvInv'
  <2> USE <1>a, <1>2 DEF Prov!StartStation
  <2>1. ProvFlags'
    BY DEF ProvFlags
  <2>2. ProvRanges'
    <3>1. <<"START">> \in Seq(ProvEvents) /\ Len(<<"START">>) = 1
      OBVIOUS
    <3> QED BY <3>1 DEF ProvRanges
  <2>3. ProvPhases'
    BY DEF ProvRanges, ProvPhases
  <2>4. NewestTells'
    BY DEF ProvRanges, ProvPhases, NewestTells
  <2>5. NewestRetries'
    BY Alone DEF ProvRanges, ProvPhases, NewestRetries
  <2>6. AskedIsTried'
    BY DEF ProvRanges, ProvPhases, AskedIsTried
  <2> QED BY <2>1, <2>2, <2>3, <2>4, <2>5, <2>6
<1>3. ASSUME Prov!Restarted, boots' \in 1..MaxBoots PROVE ProvInv'
  <2> USE <1>a, <1>3 DEF Prov!Restarted
  <2>1. ProvFlags'
    BY DEF ProvFlags
  <2>2. ProvRanges'
    BY Alone DEF ProvRanges
  <2>3. ProvPhases'
    BY DEF ProvRanges, ProvPhases
  <2>4. NewestTells'
    BY DEF ProvRanges, ProvPhases, NewestTells
  <2>5. NewestRetries'
    BY Alone DEF ProvRanges, ProvPhases, NewestRetries
  <2>6. AskedIsTried'
    BY DEF ProvRanges, ProvPhases, AskedIsTried
  <2> QED BY <2>1, <2>2, <2>3, <2>4, <2>5, <2>6
<1>4. ASSUME Prov!SetConfig PROVE ProvInv'
  <2> USE <1>a, <1>4 DEF Prov!SetConfig
  <2>1. ProvFlags'
    BY DEF ProvFlags
  <2>2. ProvRanges'
    BY Alone DEF ProvRanges
  <2>3. ProvPhases'
    BY DEF ProvRanges, ProvPhases
  <2>4. NewestTells'
    BY DEF ProvRanges, ProvPhases, NewestTells
  <2>5. NewestRetries'
    BY Alone DEF ProvRanges, ProvPhases, NewestRetries
  <2>6. AskedIsTried'
    BY DEF ProvRanges, ProvPhases, AskedIsTried
  <2> QED BY <2>1, <2>2, <2>3, <2>4, <2>5, <2>6
<1>5. ASSUME Prov!ApplyConfig PROVE ProvInv'
  <2> USE <1>a, <1>5 DEF Prov!ApplyConfig
  <2>0. main = "provisioning" /\ (~apsta => events = <<>> /\ link = "down")
    BY DEF ProvPhases, ProvRanges
  <2>b. PICK fails \in BOOLEAN : /\ asked' = [config |-> ctx, failed |-> fails]
                                /\ IF fails THEN Prov!ApplyFails ELSE Prov!ApplyConnects
    OBVIOUS
  <2>1. Prov!Started = IF apsta THEN events ELSE <<"START">>
    <3>1. events \o <<>> = events /\ <<>> \o <<"START">> = <<"START">>
      BY DEF ProvRanges
    <3> QED BY <2>0, <3>1 DEF Prov!Started
  <2>2. Prov!Started \in Seq(ProvEvents) /\ Len(Prov!Started) <= Len(events) + 1
    <3>1. <<"START">> \in Seq(ProvEvents) /\ Len(<<"START">>) = 1 /\ Len(events) \in Nat
      BY LenProperties DEF ProvRanges
    <3>2. CASE apsta
      BY <2>1, <3>1, <3>2 DEF ProvRanges
    <3>3. CASE ~apsta
      BY <2>1, <3>1, <3>3
    <3> QED BY <3>2, <3>3
  <2>3. CASE ~fails /\ Prov!ApplyConnects
    <3>1. events' \in Seq(ProvEvents) /\ Len(events') <= Len(Prov!Started) + 1
      <4>1. CASE link = "up"
        BY <2>2, <2>3, <4>1 DEF Prov!ApplyConnects
      <4>2. CASE link # "up"
        <5>1. events' = Prov!Started
          BY <2>2, <2>3, <4>2 DEF Prov!ApplyConnects
        <5> QED BY <2>2, <5>1
      <4> QED BY <4>1, <4>2
    <3>2. Len(events') <= MaxEvents + 2
      <4>1. Len(events) \in Nat /\ Len(events') \in Nat /\ Len(Prov!Started) \in Nat
        BY <2>2, <3>1, LenProperties DEF ProvRanges
      <4> QED BY <2>2, <3>1, <4>1
    <3> USE <2>3 DEF Prov!ApplyConnects
    <3>3. ProvFlags'
      BY DEF ProvFlags
    <3>4. ProvRanges'
      BY <2>b, <3>1, <3>2 DEF ProvRanges
    <3>5. ProvPhases'
      BY <2>0 DEF ProvPhases
    <3>6. NewestTells' /\ NewestRetries'
      BY DEF NewestTells, NewestRetries
    <3>7. AskedIsTried'
      BY <2>0, <2>b DEF AskedIsTried
    <3> QED BY <3>3, <3>4, <3>5, <3>6, <3>7
  <2>4. CASE fails /\ Prov!ApplyFails
    <3>1. \/ events' = events /\ apsta' = apsta /\ flash' = flash
          \/ events' = events /\ apsta' = TRUE /\ flash' \in {flash, ctx}
          \/ events' = <<"START">> /\ link = "down" /\ apsta' = TRUE /\ flash' \in {flash, ctx}
      BY <2>0, <2>1, <2>4 DEF Prov!ApplyFails, ProvPhases
    <3>2. <<"START">> \in Seq(ProvEvents) /\ Len(<<"START">>) = 1
      OBVIOUS
    <3> USE <2>0, <3>1, <2>4 DEF Prov!ApplyFails
    <3>3. ProvFlags'
      BY DEF ProvFlags
    <3>4. ProvRanges'
      <4>1. events' \in Seq(ProvEvents) /\ Len(events') <= MaxEvents + 2
        <5>1. CASE events' = events
          BY <5>1 DEF ProvRanges
        <5>2. CASE events' = <<"START">>
          BY <3>2, <5>2
        <5> QED BY <5>1, <5>2
      <4>2. ctx' \in {"none", "good", "bad"} /\ flash' \in {"none", "good", "bad"}
        BY DEF ProvRanges
      <4>3. asked' \in [config : {"none", "good", "bad"}, failed : BOOLEAN]
        BY <2>b DEF ProvRanges
      <4> QED BY <4>1, <4>2, <4>3 DEF ProvRanges
    <3>5. ProvPhases'
      BY DEF ProvPhases
    <3>6. NewestTells'
      BY Alone DEF NewestTells, ProvRanges
    <3>7. NewestRetries'
      BY DEF NewestRetries
    <3>8. AskedIsTried'
      BY <2>b DEF AskedIsTried
    <3> QED BY <3>3, <3>4, <3>5, <3>6, <3>7, <3>8
  <2> QED BY <2>b, <2>3, <2>4
<1>6. ASSUME Prov!AttemptEnds PROVE ProvInv'
  <2> USE <1>a, <1>6 DEF Prov!AttemptEnds
  <2>1. ProvFlags'
    BY DEF ProvFlags
  <2>2. ProvRanges'
    <3>1. Len(events) \in Nat
      BY LenProperties DEF ProvRanges
    <3>2. PICK e \in ProvEvents : events' = Append(events, e) /\ failure' \in {failure, e} \ {"GOT_IP", "START"}
      BY DEF ProvRanges
    <3>3. events' \in Seq(ProvEvents) /\ Len(events') <= MaxEvents + 2
      BY <3>1, <3>2
    <3> QED BY <3>2, <3>3 DEF ProvRanges
  <2>3. ProvPhases'
    BY DEF ProvRanges, ProvPhases
  <2>4. NewestTells'
    <3>1. CASE link' = "up" /\ events' = Append(events, "GOT_IP")
      BY <3>1 DEF NewestTells
    <3>2. CASE \E why \in Prov!Disconnects : link' = "down" /\ events' = Append(events, why) /\ failure' = why
      BY <3>2 DEF NewestTells
    <3> QED BY <3>1, <3>2
  <2>5. NewestRetries'
    <3>1. CASE link' = "up"
      BY <3>1 DEF NewestRetries
    <3>2. CASE \E why \in Prov!Disconnects : link' = "down" /\ events' = Append(events, why)
      <4>1. events' # <<>> /\ Newest(events') # "GOT_IP"
        BY <3>2
      <4> QED BY <4>1 DEF NewestRetries
    <3> QED BY <3>1, <3>2
  <2>6. AskedIsTried'
    BY DEF ProvRanges, ProvPhases, AskedIsTried
  <2> QED BY <2>1, <2>2, <2>3, <2>4, <2>5, <2>6
<1>7. ASSUME Prov!LinkLost PROVE ProvInv'
  <2> USE <1>a, <1>7 DEF Prov!LinkLost
  <2>1. ProvFlags'
    BY DEF ProvFlags
  <2>2. ProvRanges'
    BY Alone DEF ProvRanges
  <2>3. ProvPhases'
    BY DEF ProvRanges, ProvPhases
  <2>4. NewestTells'
    <3>1. PICK why \in Prov!Disconnects : link' = "down" /\ events' = Append(events, why) /\ failure' = why
      OBVIOUS
    <3>2. events' # <<>> /\ Newest(events') = why
      BY <3>1
    <3> QED BY <3>1, <3>2 DEF NewestTells
  <2>5. NewestRetries'
    BY Alone DEF ProvRanges, ProvPhases, NewestRetries
  <2>6. AskedIsTried'
    BY DEF ProvRanges, ProvPhases, AskedIsTried
  <2> QED BY <2>1, <2>2, <2>3, <2>4, <2>5, <2>6
<1>8. ASSUME Prov!StaStart PROVE ProvInv'
  <2> USE <1>a, <1>8 DEF Prov!StaStart, Prov!Event
  <2>1. ProvFlags'
    BY DEF ProvFlags
  <2>2. ProvRanges'
    BY Alone DEF ProvRanges
  <2>3. ProvPhases'
    BY DEF ProvRanges, ProvPhases
  <2>4. NewestTells'
    BY DEF ProvRanges, ProvPhases, NewestTells
  <2>5. NewestRetries'
    BY Alone DEF ProvRanges, ProvPhases, NewestRetries
  <2>6. AskedIsTried'
    BY DEF ProvRanges, ProvPhases, AskedIsTried
  <2> QED BY <2>1, <2>2, <2>3, <2>4, <2>5, <2>6
<1>9. ASSUME Prov!GotIp PROVE ProvInv'
  <2> USE <1>a, <1>9 DEF Prov!GotIp, Prov!Event
  <2>1. ProvFlags'
    BY DEF ProvFlags
  <2>2. ProvRanges'
    BY Alone DEF ProvRanges
  <2>3. ProvPhases'
    BY DEF ProvRanges, ProvPhases
  <2>4. NewestTells'
    BY DEF ProvRanges, ProvPhases, NewestTells
  <2>5. NewestRetries'
    BY Alone DEF ProvRanges, ProvPhases, NewestRetries
  <2>6. AskedIsTried'
    BY DEF ProvRanges, ProvPhases, AskedIsTried
  <2> QED BY <2>1, <2>2, <2>3, <2>4, <2>5, <2>6
<1>10. ASSUME \E why \in Prov!Disconnects : Prov!Disconnected(why) PROVE ProvInv'
  <2>a. PICK why \in Prov!Disconnects : Prov!Disconnected(why)
    BY <1>10
  <2>b. /\ registered /\ events # <<>> /\ Head(events) = why /\ events' = Tail(events)
        /\ UNCHANGED <<Prov!app, ctx, flash, apsta, retry, Prov!count, failure, connected, Prov!past>>
    BY <2>a DEF Prov!Disconnected, Prov!Event
  <2>c. /\ why = "OTHER" => /\ wifi_state' = "CONNECTING" /\ reason' = reason
                            /\ link' = (IF link = "down" THEN "trying" ELSE link)
                            /\ on' = (IF link = "down" THEN flash ELSE on)
        /\ why # "OTHER" => wifi_state' = "DISCONNECTED" /\ reason' = why /\ link' = link /\ on' = on
    <3>1. CASE why = "OTHER"
      <4>1. wifi_state' = "CONNECTING" /\ reason' = reason /\ Prov!esp_wifi_connect
        BY <2>a, <3>1 DEF Prov!Disconnected
      <4> QED BY <3>1, <4>1 DEF Prov!esp_wifi_connect
    <3>2. CASE why # "OTHER"
      BY <2>a, <3>2 DEF Prov!Disconnected
    <3> QED BY <3>1, <3>2
  <2> USE <1>a, <2>b, <2>c
  <2>1. ProvFlags'
    BY DEF ProvFlags
  <2>2. ProvRanges'
    <3>1. /\ wifi_state' \in {"CONNECTING", "CONNECTED", "DISCONNECTED"}
          /\ reason' \in Prov!Disconnects \cup {"none"} /\ link' \in {"down", "trying", "up"}
      BY DEF ProvRanges
    <3>2. events' \in Seq(ProvEvents) /\ Len(events') <= MaxEvents + 2
      <4>1. Len(events) \in Nat /\ Len(events) <= MaxEvents + 2
        BY <1>b, LenProperties DEF ProvRanges
      <4> QED BY <4>1
    <3>3. on' \in {"none", "good", "bad"}
      BY DEF ProvRanges
    <3>4. /\ main' \in {"boot", "provisioning", "stopped", "station"} /\ timer' \in {"none", "idle", "armed"}
          /\ stopper' \in {"none", "service", "handlers", "timer", "free"}
          /\ failure' \in Prov!Disconnects \cup {"none"}
      BY DEF ProvRanges
    <3>5. /\ ctx' \in {"none", "good", "bad"} /\ flash' \in {"none", "good", "bad"}
          /\ asked' \in [config : {"none", "good", "bad"}, failed : BOOLEAN]
          /\ retry' \in 0..ATTEMPTS /\ boots' \in 1..MaxBoots /\ sets' \in 0..MaxSets
      BY DEF ProvRanges
    <3> HIDE <1>a, <2>b, <2>c DEF ProvInv
    <3> QED BY <3>1, <3>2, <3>3, <3>4, <3>5 DEF ProvRanges
  <2>3. ProvPhases'
    BY DEF ProvRanges, ProvPhases
  <2>4. NewestTells'
    <3> SUFFICES ASSUME main = "provisioning"
                 PROVE  NewestTells'
      BY DEF NewestTells
    <3>1. events' # <<>> => (link' = "up" <=> link = "up") /\ (link' = "down" => link = "down")
      OBVIOUS
    <3>2. CASE events' # <<>>
      BY <3>1, <3>2 DEF NewestTells
    <3>3. CASE events' = <<>>
      <4>1. Newest(events) = why /\ why # "GOT_IP" /\ why # "START"
        BY <3>3
      <4>2. link # "up"
        BY <4>1 DEF NewestTells
      <4>3. link' = "down" => why \in {"OTHER"} \cup (Prov!Disconnects \cap {failure}) /\ why # "OTHER"
        BY <4>1 DEF NewestTells
      <4> QED BY <3>3, <4>2, <4>3 DEF NewestTells
    <3> QED BY <3>2, <3>3
  <2>5. NewestRetries'
    BY DEF ProvRanges, ProvPhases, NewestRetries
  <2>6. AskedIsTried'
    BY DEF ProvRanges, ProvPhases, AskedIsTried
  <2> QED BY <2>1, <2>2, <2>3, <2>4, <2>5, <2>6
<1>11. ASSUME Prov!Unheard PROVE ProvInv'
  <2> USE <1>a, <1>11 DEF Prov!Unheard
  <2>1. ProvFlags'
    BY DEF ProvFlags
  <2>2. ProvRanges'
    BY Alone DEF ProvRanges
  <2>3. ProvPhases'
    BY DEF ProvRanges, ProvPhases
  <2>4. NewestTells'
    BY DEF ProvRanges, ProvPhases, NewestTells
  <2>5. NewestRetries'
    BY Alone DEF ProvRanges, ProvPhases, NewestRetries
  <2>6. AskedIsTried'
    BY DEF ProvRanges, ProvPhases, AskedIsTried
  <2> QED BY <2>1, <2>2, <2>3, <2>4, <2>5, <2>6
<1>12. ASSUME Prov!StationEvent PROVE ProvInv'
  <2> USE <1>a, <1>12 DEF Prov!StationEvent, Prov!esp_wifi_connect, Prov!MayRetry
  <2>1. ProvFlags'
    BY DEF ProvFlags
  <2>2. ProvRanges'
    <3>1. link' \in {"down", "trying", "up"} /\ retry' \in 0..ATTEMPTS
      BY DEF ProvRanges
    <3>2. events' \in Seq(ProvEvents) /\ Len(events') <= MaxEvents + 2
      <4>1. Len(events) \in Nat /\ Len(events) <= MaxEvents + 2
        BY <1>b, LenProperties DEF ProvRanges
      <4> QED BY <4>1
    <3> QED BY <3>1, <3>2 DEF ProvRanges
  <2>3. ProvPhases'
    BY DEF ProvRanges, ProvPhases
  <2>4. NewestTells'
    BY DEF ProvRanges, ProvPhases, NewestTells
  <2>5. NewestRetries'
    <3> SUFFICES ASSUME link' = "down"
                 PROVE  IF events' = <<>> THEN retry' = ATTEMPTS ELSE Newest(events') # "GOT_IP"
      BY DEF NewestRetries
    <3>1. link = "down" /\ Head(events) # "START" /\ (Head(events) \in Prov!Disconnects => retry' = ATTEMPTS)
      <4>1. CASE Head(events) = "START"
        BY <4>1 DEF ProvRanges
      <4>2. CASE Head(events) = "GOT_IP"
        BY <4>2 DEF ProvRanges
      <4>3. CASE Head(events) \in Prov!Disconnects
        <5>1. CASE Prov!MayRetry
          BY <4>3, <5>1 DEF ProvRanges
        <5>2. CASE ~Prov!MayRetry
          <6>1. retry = ATTEMPTS
            BY <5>2 DEF ProvRanges
          <6>2. retry' = retry /\ link' = link
            BY <4>3, <5>2
          <6> QED BY <4>3, <6>1, <6>2
        <5> QED BY <5>1, <5>2
      <4> QED BY <4>1, <4>2, <4>3
    <3>2. events' # <<>> => Newest(events') # "GOT_IP"
      BY <3>1 DEF NewestRetries
    <3>3. events' = <<>> => retry' = ATTEMPTS
      BY <3>1 DEF NewestRetries, ProvRanges
    <3> QED BY <3>2, <3>3
  <2>6. AskedIsTried'
    BY DEF ProvPhases, AskedIsTried
  <2> QED BY <2>1, <2>2, <2>3, <2>4, <2>5, <2>6
<1>13. ASSUME Prov!StopCallback PROVE ProvInv'
  <2> USE <1>a, <1>13 DEF Prov!StopCallback
  <2>1. ProvFlags'
    BY DEF ProvFlags
  <2>2. ProvRanges'
    BY Alone DEF ProvRanges
  <2>3. ProvPhases'
    BY DEF ProvRanges, ProvPhases
  <2>4. NewestTells'
    BY DEF ProvRanges, ProvPhases, NewestTells
  <2>5. NewestRetries'
    BY Alone DEF ProvRanges, ProvPhases, NewestRetries
  <2>6. AskedIsTried'
    BY DEF ProvRanges, ProvPhases, AskedIsTried
  <2> QED BY <2>1, <2>2, <2>3, <2>4, <2>5, <2>6
<1>14. ASSUME Prov!stop_prov_task PROVE ProvInv'
  <2> USE <1>a, <1>14 DEF Prov!stop_prov_task, Prov!StopService, Prov!Unregister, Prov!DeleteTimer, Prov!FreeProv
  <2>1. ProvFlags'
    BY DEF ProvFlags
  <2>2. ProvRanges'
    BY Alone DEF ProvRanges
  <2>3. ProvPhases'
    BY DEF ProvRanges, ProvPhases
  <2>4. NewestTells'
    BY DEF ProvRanges, ProvPhases, NewestTells
  <2>5. NewestRetries'
    BY Alone DEF ProvRanges, ProvPhases, NewestRetries
  <2>6. AskedIsTried'
    BY DEF ProvRanges, ProvPhases, AskedIsTried
  <2> QED BY <2>1, <2>2, <2>3, <2>4, <2>5, <2>6
<1>15. ASSUME Prov!PowerCut PROVE ProvInv'
  BY <1>3, <1>15 DEF Prov!PowerCut, ProvRanges
<1>16. ASSUME Prov!StrayCallback PROVE ProvInv'
  <2>1. CASE Prov!Restarted /\ boots' = boots
    BY <1>3, <2>1 DEF ProvRanges
  <2>2. CASE ~Prov!Restarted
    <3>1. /\ timer' = "idle" /\ timer = "armed" /\ main = "stopped"
          /\ UNCHANGED <<main, stopper, service, registered, g_prov, wifi_state, reason, ctx, flash, apsta,
                         link, on, events, retry, boots, sets, failure, connected, asked, late, refused>>
      BY <1>16, <2>2 DEF Prov!StrayCallback
    <3>2. ProvPhases'
      BY <3>1 DEF ProvPhases
    <3> QED BY <3>1, <3>2 DEF ProvFlags, ProvRanges, NewestTells, NewestRetries, Newest, AskedIsTried
  <2> QED BY <1>16, <2>1, <2>2 DEF Prov!StrayCallback
<1>17. CASE UNCHANGED Prov!vars
  BY <1>17 DEF Prov!vars, ProvFlags, ProvRanges, ProvPhases, NewestTells, NewestRetries, Newest, AskedIsTried
<1> QED BY <1>1, <1>2, <1>4, <1>5, <1>6, <1>7, <1>8, <1>9, <1>10, <1>11, <1>12, <1>13, <1>14, <1>15, <1>16, <1>17
        DEF Prov!Next, Prov!EventTask

LEMMA ProvInvariance == ASSUME ProvAssumption PROVE Prov!Spec => []ProvInv
<1>1. Prov!Init => ProvInv
  BY ProvInit
<1>2. ProvInv /\ [Prov!Next]_(Prov!vars) => ProvInv'
  BY ProvNext
<1> QED BY <1>1, <1>2, PTL DEF Prov!Spec

(* The type invariant.                                                     *)
THEOREM ProvTypeCorrect == ASSUME ProvAssumption PROVE Prov!Spec => []Prov!TypeOK
<1>1. ProvInv => Prov!TypeOK
  <2> SUFFICES ASSUME ProvInv PROVE Prov!TypeOK
    OBVIOUS
  <2>1. {g_prov, service, registered, apsta, connected} \subseteq BOOLEAN
    BY DEF ProvInv, ProvFlags
  <2>2. {late, refused} \subseteq BOOLEAN
    BY DEF ProvInv, ProvFlags
  <2> QED BY <2>1, <2>2 DEF Prov!TypeOK, ProvInv, ProvRanges
<1> QED BY <1>1, ProvInvariance, PTL

(* stop_prov_task frees g_prov when no request or event can reach it any   *)
(* more, whatever comes while it takes the service down; the timer can     *)
(* only if an address came then, which armed it again.                     *)
THEOREM ServiceFreedLast == ASSUME ProvAssumption PROVE Prov!Spec => []Prov!FreedLast
<1>1. ProvInv => Prov!FreedLast
  BY DEF ProvInv, ProvPhases, ProvRanges, ProvFlags, Prov!FreedLast
<1> QED BY <1>1, ProvInvariance, PTL

(* The status that the phone asks for is what became of the station once   *)
(* the events of the last attempt are handled, however many configurations *)
(* were applied and attempts failed before; and it is about the last one   *)
(* applied, unless a call failed then.                                     *)
THEOREM PhoneIsTold == ASSUME ProvAssumption PROVE Prov!Spec => []Prov!StatusMatches
<1>1. ProvInv => Prov!StatusMatches
  BY DEF ProvInv, NewestTells, AskedIsTried, ProvRanges, Prov!StatusMatches, Prov!GetStatus
<1> QED BY <1>1, ProvInvariance, PTL

(* The provisioned station stops trying after ATTEMPTS in a row only.      *)
THEOREM ProvisionedKeepsTrying == ASSUME ProvAssumption PROVE Prov!Spec => []Prov!StationKeepsTrying
<1>1. ProvInv => Prov!StationKeepsTrying
  BY DEF ProvInv, NewestRetries, Prov!StationKeepsTrying
<1> QED BY <1>1, ProvInvariance, PTL
-----------------------------------------------------------------------------
(***************************************************************************)
(* Measuring (Iperf).                                                      *)
(***************************************************************************)
CONSTANTS Modes, Typed, DEFAULT_INTERVAL, DEFAULT_TIME, MaxSessions
VARIABLES console, running, ctrl, last, traffic, report, left, open, failed
Iperf == INSTANCE Iperf

IperfAssumption == /\ Typed \subseteq [interval : Nat, time : Nat]
                   /\ DEFAULT_INTERVAL \in Nat \ {0} /\ DEFAULT_TIME \in Nat
                   /\ MaxSessions \in Nat

(* Where a traffic task uses s_iperf_ctrl.                                 *)
Measuring == {"socket", "accept", "first", "loop"}

ControlTyped == ctrl \in [mode : Modes \cup {"none"}, turns : Nat, finish : BOOLEAN, buffer : BOOLEAN]

IperfTypes ==
    /\ console \in {"idle", "stopping"} /\ running \in BOOLEAN /\ last \in 0..MaxSessions
    /\ ControlTyped
    /\ traffic \in [Iperf!Sessions -> Measuring \cup {"none", "free", "exit"}]
    /\ report \in [Iperf!Sessions -> {"none", "loop", "delay"}]
    /\ left \in [Iperf!Sessions -> Nat]
    /\ open \in [Iperf!Sessions -> 0..2]
    /\ failed \in [Iperf!Sessions -> BOOLEAN]

(* The last session started is the only one under way, and running until   *)
(* it has freed its buffer and ended; those to come have left no trace.    *)
OnlyTheLast ==
    /\ \A s \in Iperf!Sessions : traffic[s] # "none" => s = last /\ running
    /\ \A s \in Iperf!Sessions : traffic[s] \in Measuring => ctrl.buffer
    /\ \A s \in Iperf!Sessions : s > last => report[s] = "none" /\ left[s] = 0 /\ open[s] = 0

(* A session past its measuring has closed its sockets.                    *)
ClosedAfter == \A s \in Iperf!Sessions : traffic[s] \notin Measuring => failed[s] \/ open[s] = 0

(* A report task sleeps no longer than its turns.                          *)
TurnsLeft == \A s \in Iperf!Sessions : /\ report[s] = "delay" => left[s] > 0
                                       /\ left[s] <= ctrl.turns \/ s < last

IperfInv == IperfTypes /\ OnlyTheLast /\ ClosedAfter /\ TurnsLeft

LEMMA IperfInit == ASSUME IperfAssumption PROVE Iperf!Init => IperfInv
<1> SUFFICES ASSUME Iperf!Init PROVE IperfInv
  OBVIOUS
<1> USE DEF IperfAssumption, Iperf!Init, Iperf!Sessions
<1>1. IperfTypes
  <2>1. ControlTyped
    BY DEF ControlTyped
  <2>2. failed \in [Iperf!Sessions -> BOOLEAN] /\ running \in BOOLEAN
    OBVIOUS
  <2> QED BY <2>1, <2>2 DEF IperfTypes
<1>2. OnlyTheLast /\ ClosedAfter /\ TurnsLeft
  BY DEF OnlyTheLast, ClosedAfter, TurnsLeft, Measuring
<1> QED BY <1>1, <1>2 DEF IperfInv

(* What a command puts into turns is a number of intervals.                *)
LEMMA TurnsTyped ==
  ASSUME IperfAssumption, NEW mode \in Modes, NEW typed \in Typed, Iperf!wifi_cmd_iperf(mode, typed)
  PROVE  \E turns \in Nat : Iperf!iperf_start(mode, turns)
<1> DEFINE interval == IF typed.interval = 0 THEN DEFAULT_INTERVAL ELSE typed.interval
           time == IF typed.time = 0 THEN DEFAULT_TIME ELSE IF typed.time <= interval THEN interval ELSE typed.time
<1>1. interval \in Nat \ {0} /\ time \in Nat
  BY DEF IperfAssumption
<1>2. Iperf!iperf_start(mode, (time + interval - 1) \div interval)
  BY DEF Iperf!wifi_cmd_iperf
<1> HIDE DEF interval, time
<1>3. (time + interval - 1) \div interval \in Nat
  BY <1>1
<1> QED BY <1>2, <1>3

(* One step of iperf_run_tcp_server and the other three, for session s.    *)
Measures(s) ==
    /\ traffic[s] \in Measuring
    /\ traffic' = [traffic EXCEPT ![s] = traffic'[s]] /\ traffic'[s] \in Measuring \cup {"free"}
    /\ open' = [open EXCEPT ![s] = open'[s]] /\ open'[s] \in 0..2
    /\ failed' = [failed EXCEPT ![s] = TRUE] \/ failed' = failed
    /\ traffic'[s] = "free" => failed'[s] \/ open'[s] = 0
    /\ ctrl' = ctrl \/ ctrl' = [ctrl EXCEPT !.finish = TRUE]
    /\ \/ UNCHANGED <<report, left>>
       \/ report' = [report EXCEPT ![s] = "loop"] /\ left' = [left EXCEPT ![s] = ctrl.turns]
    /\ UNCHANGED <<console, running, last>>

LEMMA RunMeasures ==
  ASSUME IperfInv, NEW s \in Iperf!Sessions,
         \/ Iperf!iperf_run_tcp_server(s) \/ Iperf!iperf_run_udp_server(s)
         \/ Iperf!iperf_run_udp_client(s) \/ Iperf!iperf_run_tcp_client(s)
  PROVE  Measures(s)
<1> USE DEF IperfInv, IperfTypes, Measures, Measuring, Iperf!At, Iperf!Goto, Iperf!StartReport, Iperf!Opens,
            Iperf!SetUpFails, Iperf!Finishing
<1>1. CASE Iperf!iperf_run_tcp_server(s)
  <2>1. CASE Iperf!TcpServerSetUp(s)
    BY <2>1 DEF Iperf!TcpServerSetUp
  <2>2. CASE Iperf!TcpServerAccept(s)
    BY <2>2 DEF Iperf!TcpServerAccept
  <2>3. CASE Iperf!TcpServerLeaves(s)
    BY <2>3 DEF Iperf!TcpServerLeaves
  <2> QED BY <1>1, <2>1, <2>2, <2>3 DEF Iperf!iperf_run_tcp_server
<1>2. CASE Iperf!iperf_run_udp_server(s)
  <2>1. CASE Iperf!UdpServerSetUp(s)
    BY <2>1 DEF Iperf!UdpServerSetUp
  <2>2. CASE Iperf!UdpServerFirst(s)
    BY <2>2 DEF Iperf!UdpServerFirst
  <2>3. CASE Iperf!UdpServerLeaves(s)
    BY <2>3 DEF Iperf!UdpServerLeaves
  <2> QED BY <1>2, <2>1, <2>2, <2>3 DEF Iperf!iperf_run_udp_server
<1>3. CASE Iperf!iperf_run_udp_client(s)
  BY <1>3 DEF Iperf!iperf_run_udp_client, Iperf!UdpClientSetUp, Iperf!UdpClientLeaves
<1>4. CASE Iperf!iperf_run_tcp_client(s)
  BY <1>4 DEF Iperf!iperf_run_tcp_client, Iperf!TcpClientSetUp, Iperf!TcpClientLeaves
<1> QED BY <1>1, <1>2, <1>3, <1>4

LEMMA MeasuresKeeps == ASSUME IperfInv, NEW s \in Iperf!Sessions, Measures(s) PROVE IperfInv'
<1> USE DEF Measures
<1>1. ControlTyped' /\ (ctrl'.buffer <=> ctrl.buffer) /\ ctrl'.turns = ctrl.turns /\ ctrl.turns \in Nat
  BY DEF IperfInv, IperfTypes, ControlTyped
<1> USE <1>1
<1>2. IperfTypes'
  <2>1. failed' \in [Iperf!Sessions -> BOOLEAN]
    BY DEF IperfInv, IperfTypes
  <2>2. /\ traffic' \in [Iperf!Sessions -> Measuring \cup {"none", "free", "exit"}]
        /\ open' \in [Iperf!Sessions -> 0..2]
    BY DEF IperfInv, IperfTypes
  <2>3. report' \in [Iperf!Sessions -> {"none", "loop", "delay"}] /\ left' \in [Iperf!Sessions -> Nat]
    BY DEF IperfInv, IperfTypes
  <2> QED BY <2>1, <2>2, <2>3 DEF IperfInv, IperfTypes
<1>3. OnlyTheLast'
  <2>1. s = last /\ running /\ ctrl.buffer
    BY DEF IperfInv, OnlyTheLast, Measuring
  <2>2. \A t \in Iperf!Sessions : t # s => traffic'[t] = traffic[t] /\ open'[t] = open[t]
                                          /\ report'[t] = report[t] /\ left'[t] = left[t]
    BY DEF IperfInv, IperfTypes
  <2>3. \A t \in Iperf!Sessions : t > last => t # s
    BY <2>1 DEF IperfInv, IperfTypes, Iperf!Sessions
  <2> QED BY <2>1, <2>2, <2>3 DEF IperfInv, OnlyTheLast
<1>4. ClosedAfter'
  BY DEF IperfInv, IperfTypes, ClosedAfter, Measuring
<1>5. TurnsLeft'
  <2> SUFFICES ASSUME NEW t \in Iperf!Sessions
               PROVE  (report'[t] = "delay" => left'[t] > 0) /\ (left'[t] <= ctrl'.turns \/ t < last')
    BY DEF TurnsLeft
  <2>1. CASE report' = report /\ left' = left
    BY <2>1 DEF IperfInv, TurnsLeft
  <2>2. CASE report' = [report EXCEPT ![s] = "loop"] /\ left' = [left EXCEPT ![s] = ctrl.turns]
    BY <2>2 DEF IperfInv, IperfTypes, TurnsLeft
  <2> QED BY <2>1, <2>2
<1> QED BY <1>2, <1>3, <1>4, <1>5 DEF IperfInv

LEMMA CommandKeeps ==
  ASSUME IperfAssumption, IperfInv, NEW mode \in Modes, NEW turns \in Nat, Iperf!iperf_start(mode, turns)
  PROVE  IperfInv'
<1> USE DEF IperfInv, Iperf!iperf_start
<1>1. last + 1 \in Iperf!Sessions /\ last' = last + 1 /\ last \in Nat
  BY DEF IperfTypes, Iperf!Sessions, IperfAssumption
<1>2. \A s \in Iperf!Sessions : traffic[s] = "none"
  BY DEF OnlyTheLast
<1>3. ControlTyped' /\ ctrl'.turns = turns
  <2>1. CASE ctrl' = [mode |-> mode, turns |-> turns, finish |-> FALSE, buffer |-> TRUE]
    BY <2>1 DEF ControlTyped
  <2>2. CASE ctrl' = [mode |-> mode, turns |-> turns, finish |-> FALSE, buffer |-> FALSE]
    BY <2>2 DEF ControlTyped
  <2> QED BY <2>1, <2>2
<1>4. IperfTypes'
  <2>1. failed' \in [Iperf!Sessions -> BOOLEAN] /\ running' \in BOOLEAN
    BY <1>1 DEF IperfTypes
  <2>2. traffic' \in [Iperf!Sessions -> Measuring \cup {"none", "free", "exit"}]
    BY <1>1 DEF IperfTypes, Measuring
  <2>3. last' \in 0..MaxSessions
    BY <1>1 DEF IperfAssumption, Iperf!Sessions
  <2> QED BY <1>3, <2>1, <2>2, <2>3 DEF IperfTypes
<1>5. OnlyTheLast'
  <2>1. \A s \in Iperf!Sessions : s > last' => s > last
    BY <1>1 DEF Iperf!Sessions
  <2>2. /\ \A s \in Iperf!Sessions : s # last + 1 => traffic'[s] = "none"
        /\ (\E s \in Iperf!Sessions : traffic'[s] # "none") => ctrl'.buffer
    BY <1>1, <1>2 DEF IperfTypes
  <2> QED BY <1>1, <2>1, <2>2 DEF OnlyTheLast, Measuring
<1>6. ClosedAfter'
  BY <1>1 DEF IperfTypes, ClosedAfter, Measuring
<1>7. TurnsLeft'
  BY <1>1, <1>3 DEF IperfTypes, TurnsLeft, OnlyTheLast, Iperf!Sessions
<1> QED BY <1>4, <1>5, <1>6, <1>7

LEMMA IperfNext ==
  ASSUME IperfAssumption, IperfInv, [Iperf!Next]_(Iperf!vars)
  PROVE  IperfInv'
<1> USE DEF IperfInv
<1>1. CASE \E mode \in Modes, typed \in Typed : Iperf!wifi_cmd_iperf(mode, typed)
  BY <1>1, TurnsTyped, CommandKeeps
<1>2. CASE Iperf!iperf_stop \/ Iperf!StopReturns
  <2>1. ControlTyped' /\ (ctrl'.buffer <=> ctrl.buffer) /\ ctrl'.turns = ctrl.turns
    BY <1>2 DEF IperfTypes, ControlTyped, Iperf!iperf_stop, Iperf!StopReturns
  <2> QED BY <1>2, <2>1 DEF IperfTypes, OnlyTheLast, ClosedAfter, TurnsLeft, Iperf!iperf_stop, Iperf!StopReturns
<1>3. ASSUME NEW s \in Iperf!Sessions, Iperf!iperf_task_traffic(s) PROVE IperfInv'
  <2>1. CASE Iperf!FreeBuffer(s)
    <3> USE <2>1 DEF Iperf!FreeBuffer, Iperf!Goto
    <3>1. ControlTyped' /\ ctrl'.turns = ctrl.turns
      BY DEF IperfTypes, ControlTyped
    <3>2. IperfTypes'
      BY <3>1 DEF IperfTypes, Measuring
    <3>3. OnlyTheLast'
      BY DEF IperfTypes, OnlyTheLast, Measuring
    <3>4. ClosedAfter' /\ TurnsLeft'
      BY <3>1 DEF IperfTypes, ClosedAfter, TurnsLeft, Measuring
    <3> QED BY <3>2, <3>3, <3>4
  <2>2. CASE Iperf!Exit(s)
    BY <2>2 DEF Iperf!Exit, Iperf!Goto, IperfTypes, ControlTyped, OnlyTheLast, ClosedAfter, TurnsLeft, Measuring
  <2> QED BY <1>3, <2>1, <2>2, RunMeasures, MeasuresKeeps DEF Iperf!iperf_task_traffic
<1>4. ASSUME NEW s \in Iperf!Sessions, Iperf!iperf_report_task(s) PROVE IperfInv'
  <2> USE <1>4 DEF Iperf!iperf_report_task, Iperf!ReportEnds, Iperf!ReportSleeps, Iperf!ReportWakes
  <2>1. ControlTyped' /\ (ctrl'.buffer <=> ctrl.buffer) /\ ctrl'.turns = ctrl.turns /\ ctrl.turns \in Nat
    BY DEF IperfTypes, ControlTyped
  <2>2. IperfTypes'
    BY <2>1 DEF IperfTypes, TurnsLeft
  <2>3. OnlyTheLast'
    <3>1. \A t \in Iperf!Sessions : report[t] = "none" => report'[t] = "none" /\ left'[t] = left[t]
      BY DEF IperfTypes
    <3> QED BY <2>1, <3>1 DEF OnlyTheLast
  <2>4. ClosedAfter'
    BY DEF IperfTypes, ClosedAfter
  <2>5. TurnsLeft'
    <3> SUFFICES ASSUME NEW t \in Iperf!Sessions
                 PROVE  (report'[t] = "delay" => left'[t] > 0) /\ (left'[t] <= ctrl.turns \/ t < last)
      BY <2>1 DEF TurnsLeft
    <3>1. left'[t] <= left[t] /\ left'[t] \in Nat /\ left[t] \in Nat
      BY <2>2 DEF IperfTypes
    <3>2. report'[t] = "delay" => left'[t] = left[t] /\ left[t] > 0
      BY DEF IperfTypes, TurnsLeft
    <3> QED BY <2>1, <3>1, <3>2 DEF TurnsLeft
  <2> QED BY <2>2, <2>3, <2>4, <2>5
<1>5. CASE UNCHANGED Iperf!vars
  BY <1>5 DEF Iperf!vars, IperfTypes, ControlTyped, OnlyTheLast, ClosedAfter, TurnsLeft
<1> QED BY <1>1, <1>2, <1>3, <1>4, <1>5 DEF Iperf!Next

LEMMA IperfInvariance == ASSUME IperfAssumption PROVE Iperf!Spec => []IperfInv
<1>1. Iperf!Init => IperfInv
  BY IperfInit
<1>2. IperfInv /\ [Iperf!Next]_(Iperf!vars) => IperfInv'
  BY IperfNext
<1> QED BY <1>1, <1>2, PTL DEF Iperf!Spec

(* The type invariant.                                                     *)
THEOREM IperfTypeCorrect == ASSUME IperfAssumption PROVE Iperf!Spec => []Iperf!TypeOK
<1>1. IperfInv => Iperf!TypeOK
  BY DEF IperfInv, IperfTypes, ControlTyped, TurnsLeft, Measuring, Iperf!TypeOK
<1> QED BY <1>1, IperfInvariance, PTL

(* A traffic task finds its buffer allocated and s_iperf_ctrl its own,     *)
(* however the commands come while sessions end.                           *)
THEOREM BufferIsThere == ASSUME IperfAssumption PROVE Iperf!Spec => []Iperf!BufferInUse
<1>1. IperfInv => Iperf!BufferInUse
  BY DEF IperfInv, OnlyTheLast, Measuring, Iperf!BufferInUse
<1> QED BY <1>1, IperfInvariance, PTL

(* A session that was set up has closed every descriptor when it is over.  *)
THEOREM SocketsClosed == ASSUME IperfAssumption PROVE Iperf!Spec => []Iperf!ClosesItsSockets
<1>1. IperfInv => Iperf!ClosesItsSockets
  BY DEF IperfInv, ClosedAfter, Measuring, Iperf!ClosesItsSockets
<1> QED BY <1>1, IperfInvariance, PTL
-----------------------------------------------------------------------------
(***************************************************************************)
(* Serving (WebServers).                                                   *)
(***************************************************************************)
CONSTANTS Apps, Clients, EchoLen, MaxRequests, MaxDrops
VARIABLES app, server, loop, uris, session, request, work, allocated, raced, requests, drops
Web == INSTANCE WebServers

WebAssumption == /\ Apps \subseteq {"simple", "persistent", "advanced"}
                 /\ IsFiniteSet(Clients) /\ EchoLen \in Nat \ {0}

WebTypes ==
    /\ app \in Apps /\ main \in {"boot", "registered", "started", "failed", "run"}
    /\ loop \in {"idle", "starting", "started", "failed", "stopping", "stopped"} /\ link \in {"up", "down"} /\ uris \subseteq Web!AllUris

(* The handle, the server and the event loop's task in each phase of       *)
(* app_main: first whatever event overtook it, then as long as none did.   *)
Handle ==
    /\ server \in BOOLEAN /\ running \in BOOLEAN /\ raced \in BOOLEAN
    /\ server /\ loop # "stopped" => running
    /\ loop \in {"started", "stopping"} \/ main = "started" => running
    /\ main = "started" => loop \notin {"started", "stopping"}
    /\ main = "started" /\ server => loop = "stopped"
    /\ main = "boot" => ~running /\ ~server /\ loop = "idle" /\ ~raced /\ events = <<>>
Unraced == ~raced =>
    /\ main = "registered" => ~running /\ ~server /\ loop = "idle"
    /\ main = "started" => ~server /\ loop = "idle"
    /\ main # "failed" /\ loop # "failed"
    /\ main = "run" /\ loop = "idle" => (running => server)
    /\ main = "run" /\ loop = "starting" => ~running /\ ~server
    /\ main = "run" /\ loop = "stopped" => ~running

(* A context belongs to an open session; the contexts on the heap are the  *)
(* sessions'.                                                              *)
Session == [open : BOOLEAN, has : BOOLEAN, peer : {"sending", "stalled", "gone"}]
Holding == {c \in Clients : session[c].has}

Contexts == /\ session \in [Clients -> Session]
            /\ \A c \in Clients : session[c].has => session[c].open
            /\ allocated = Cardinality(Holding)

(* The request being handled is an open session's.                         *)
Handled == /\ request \in [client : Clients \cup {"none"}, left : 0..EchoLen,
                           uri : {"none", "hello", "echo", "ctrl", "adder_get", "adder_post", "adder_put",
                                  "leftover", "async"}]
           /\ request.uri # "none" => request.client \in Clients /\ session[request.client].open

WebInv == WebTypes /\ Handle /\ Unraced /\ Contexts /\ Handled

LEMMA WebInit == ASSUME WebAssumption PROVE Web!Init => WebInv
<1> SUFFICES ASSUME Web!Init PROVE WebInv
  OBVIOUS
<1> USE DEF WebAssumption, Web!Init
<1>1. WebTypes
  BY DEF WebTypes
<1>2. Handle /\ Unraced
  BY DEF Handle, Unraced
<1>3. Contexts
  <2>1. Web!Closed \in Session
    BY DEF Web!Closed, Session
  <2>2. Holding = {}
    BY DEF Holding, Web!Closed
  <2> QED BY <2>1, <2>2, FS_EmptySet DEF Contexts, Web!Closed
<1>4. Handled
  BY DEF Handled, Web!NoRequest
<1> QED BY <1>1, <1>2, <1>3, <1>4 DEF WebInv

(* The instance counts as FiniteSets does.                                 *)
LEMMA SameCount == ASSUME NEW S PROVE Web!Cardinality(S) = Cardinality(S)
  BY DEF Web!Cardinality, Cardinality

(* When the sessions of S end, their contexts are freed.                   *)
LEMMA CloseKeeps ==
  ASSUME WebAssumption, Contexts, NEW S \in SUBSET Clients, Web!Close(S)
  PROVE  Contexts' /\ \A c \in Clients \ S : session'[c] = session[c]
<1>1. Web!Closed \in Session /\ ~Web!Closed.has
  BY DEF Web!Closed, Session
<1>2. /\ \A c \in S : session'[c] = Web!Closed
      /\ \A c \in Clients \ S : session'[c] = session[c]
  BY DEF Web!Close
<1>3. session' \in [Clients -> Session]
  BY <1>1 DEF Web!Close, Contexts
<1> DEFINE D == {c \in S : session[c].has}
<1>4. Holding' = Holding \ D /\ Holding \cap D = D
  BY <1>1, <1>2 DEF Holding
<1>5. IsFiniteSet(Holding)
  BY FS_Subset DEF Holding, WebAssumption
<1>6. allocated' = Cardinality(Holding')
  <2>1. allocated' = allocated - Cardinality(D)
    BY SameCount DEF Web!Close
  <2> HIDE DEF D
  <2> QED BY <1>4, <1>5, <2>1, FS_Difference DEF Contexts
<1> QED BY <1>1, <1>2, <1>3, <1>6 DEF Contexts

(* A handler that keeps a sum in a session's context allocates one at most. *)
LEMMA KeepKeeps ==
  ASSUME WebAssumption, Contexts, request.client \in Clients, session[request.client].open,
         Web!Keep
  PROVE  Contexts'
<1> DEFINE c == request.client
<1>1. /\ session'[c] = [open |-> session[c].open, has |-> TRUE, peer |-> session[c].peer]
      /\ \A d \in Clients : d # c => session'[d] = session[d]
      /\ session' = [session EXCEPT ![c] = session'[c]]
  BY DEF Web!Keep, Web!Client, Contexts, Session
<1>2. session[c] \in Session
  BY DEF Contexts
<1>3. session'[c] \in Session
  BY <1>1, <1>2 DEF Session
<1>4. session' \in [Clients -> Session]
  BY <1>1, <1>3 DEF Contexts
<1>5. Holding' = Holding \cup {c} /\ (c \in Holding <=> session[c].has)
  BY <1>1 DEF Holding
<1>6. IsFiniteSet(Holding)
  BY FS_Subset DEF Holding, WebAssumption
<1>7. allocated' = allocated + IF c \in Holding THEN 0 ELSE 1
  BY <1>5 DEF Web!Keep, Web!Client
<1>8. allocated' = Cardinality(Holding')
  <2>1. Cardinality(Holding') = IF c \in Holding THEN Cardinality(Holding) ELSE Cardinality(Holding) + 1
    BY <1>5, <1>6, FS_AddElement
  <2>2. Cardinality(Holding) \in Nat
    BY <1>6, FS_CardinalityType
  <2> QED BY <1>7, <2>1, <2>2 DEF Contexts
<1> QED BY <1>1, <1>4, <1>8 DEF Contexts

(* What app_main, the event loop's task and the link do.                   *)
LEMMA ControlKeeps ==
  ASSUME WebInv, Web!AppMain \/ Web!connect_handler \/ Web!disconnect_handler
                  \/ Web!LoopStarts \/ Web!LoopAssigns \/ Web!LinkChanges
  PROVE  WebInv'
<1> USE DEF WebInv, Web!AppMain, Web!AppRegisters, Web!AppStarts, Web!AppAssigns, Web!connect_handler,
            Web!disconnect_handler, Web!LoopStarts, Web!LoopAssigns, Web!LinkChanges,
            Web!start_webserver, Web!Event
<1>1. WebTypes'
  BY DEF WebTypes, Web!AllUris
<1>2. Handle' /\ Unraced'
  <2>1. CASE Web!AppRegisters
    BY <2>1 DEF Handle, Unraced, WebTypes
  <2>2. CASE Web!AppStarts
    BY <2>2 DEF Handle, Unraced, WebTypes
  <2>3. CASE Web!AppAssigns
    <3>1. server' <=> main = "started"
      BY <2>3
    <3>2. server' \in BOOLEAN
      BY <2>3
    <3> QED BY <2>3, <3>1, <3>2 DEF Handle, Unraced, WebTypes
  <2>4. CASE Web!connect_handler
    BY <2>4 DEF Handle, Unraced, WebTypes
  <2>5. CASE Web!disconnect_handler
    BY <2>5 DEF Handle, Unraced, WebTypes
  <2>6. CASE Web!LoopStarts
    BY <2>6 DEF Handle, Unraced, WebTypes
  <2>7. CASE Web!LoopAssigns
    <3>1. server' <=> loop = "started"
      BY <2>7
    <3>2. server' \in BOOLEAN
      BY <2>7
    <3> QED BY <2>7, <3>1, <3>2 DEF Handle, Unraced, WebTypes
  <2>8. CASE Web!LinkChanges
    BY <2>8 DEF Handle, Unraced, WebTypes
  <2> QED BY <2>1, <2>2, <2>3, <2>4, <2>5, <2>6, <2>7, <2>8
<1>3. UNCHANGED <<session, request, allocated>>
  OBVIOUS
<1>4. Contexts' /\ Handled'
  BY <1>3 DEF Contexts, Holding, Handled
<1> QED BY <1>1, <1>2, <1>4

LEMMA StopKeeps == ASSUME WebAssumption, WebInv, Web!stop_webserver PROVE WebInv'
<1> USE DEF WebInv, Web!stop_webserver
<1>1. WebTypes'
  BY DEF WebTypes, Web!AllUris
<1>2. Handle' /\ Unraced'
  BY DEF Handle, Unraced, WebTypes
<1>3. Contexts'
  BY CloseKeeps
<1>4. Handled'
  BY DEF Handled, Web!NoRequest
<1> QED BY <1>1, <1>2, <1>3, <1>4

LEMMA NewSession == [open |-> TRUE, has |-> FALSE, peer |-> "sending"] \in Session
  BY DEF Session

LEMMA NothingHandled == ASSUME WebAssumption, request' = Web!NoRequest PROVE Handled'
<1>1. 0 \in 0..EchoLen
  BY DEF WebAssumption
<1> QED BY <1>1 DEF Handled, Web!NoRequest

(* What the clients do, and a request's coming.                            *)
LEMMA ClientKeeps ==
  ASSUME WebAssumption, WebInv, NEW c \in Clients,
         Web!Connects(c) \/ Web!PeerChanges(c) \/ Web!SessionEnds(c) \/ Web!Request(c)
  PROVE  WebInv'
<1> USE DEF WebInv, Web!Reached, Web!control
<1>1. WebTypes' /\ Handle' /\ Unraced'
  <2>1. UNCHANGED <<app, main, server, running, loop, link, events, raced, uris>>
    BY DEF Web!Connects, Web!PeerChanges, Web!SessionEnds, Web!Request
  <2>2. WebTypes'
    BY <2>1 DEF WebTypes, Web!AllUris
  <2>3. Handle' /\ Unraced'
    BY <2>1 DEF Handle, Unraced
  <2> QED BY <2>2, <2>3
<1>2. CASE Web!Connects(c)
  <2> USE <1>2 DEF Web!Connects
  <2>1. /\ session'[c] = [open |-> TRUE, has |-> FALSE, peer |-> "sending"]
        /\ session' = [session EXCEPT ![c] = session'[c]]
    BY DEF Contexts, Web!Closed
  <2>2. session'[c] \in Session
    BY <2>1, NewSession
  <2>3. Holding' = Holding
    BY <2>1 DEF Contexts, Holding
  <2>4. Contexts'
    BY <2>1, <2>2, <2>3 DEF Contexts
  <2>5. Handled'
    BY <2>1 DEF Handled, Contexts
  <2> QED BY <1>1, <2>4, <2>5
<1>3. CASE Web!PeerChanges(c)
  <2> USE <1>3 DEF Web!PeerChanges
  <2>1. PICK peer \in {"sending", "stalled", "gone"} : session' = [session EXCEPT ![c].peer = peer]
    OBVIOUS
  <2>2. /\ session'[c] = [open |-> session[c].open, has |-> session[c].has, peer |-> peer]
        /\ session' = [session EXCEPT ![c] = session'[c]]
    BY <2>1 DEF Contexts, Session
  <2>3. session[c] \in Session
    BY DEF Contexts
  <2>4. session'[c] \in Session
    BY <2>2, <2>3 DEF Session
  <2>5. \A d \in Clients : /\ session'[d].has <=> session[d].has
                           /\ session'[d].open <=> session[d].open
    <3> SUFFICES ASSUME NEW d \in Clients
                 PROVE  /\ session'[d].has <=> session[d].has
                        /\ session'[d].open <=> session[d].open
      OBVIOUS
    <3>1. CASE d = c
      BY <2>2, <3>1
    <3>2. CASE d # c
      BY <2>2, <3>2 DEF Contexts
    <3> QED BY <3>1, <3>2
  <2>6. Contexts'
    <3>1. Holding' = Holding
      BY <2>5 DEF Holding
    <3>2. session' \in [Clients -> Session]
      BY <2>2, <2>4 DEF Contexts
    <3> QED BY <2>5, <3>1, <3>2 DEF Contexts
  <2>7. Handled'
    BY <2>2 DEF Handled, Contexts
  <2> QED BY <1>1, <2>6, <2>7
<1>4. CASE Web!SessionEnds(c)
  <2>1. Contexts'
    BY <1>4, CloseKeeps DEF Web!SessionEnds
  <2>2. Handled'
    BY <1>4 DEF Web!SessionEnds, Handled, Web!NoRequest
  <2> QED BY <1>1, <2>1, <2>2
<1>5. CASE Web!Request(c)
  <2> USE <1>5 DEF Web!Request
  <2>1. Contexts'
    BY DEF Contexts, Holding
  <2>2. PICK uri \in uris : request' = [client |-> c, uri |-> uri, left |-> IF uri = "echo" THEN EchoLen ELSE 1]
    OBVIOUS
  <2>3. uri \in {"hello", "echo", "ctrl", "adder_get", "adder_post", "adder_put", "leftover", "async"}
    BY DEF WebTypes, WebAssumption, Web!AllUris, Web!TestUris
  <2>4. Handled'
    BY <2>2, <2>3 DEF Handled, WebAssumption
  <2> QED BY <1>1, <2>1, <2>4
<1> QED BY <1>2, <1>3, <1>4, <1>5

(* The three ways a handler goes on: it keeps the sessions as they are,    *)
(* ends its own, or keeps a sum in its context.                            *)
LEMMA HandlerKeeps == ASSUME WebAssumption, WebInv, Web!Handler PROVE WebInv'
<1> DEFINE Leaves == /\ UNCHANGED <<session, allocated>>
                     /\ \/ request' = Web!NoRequest \/ request' = request
                        \/ request.left > 0 /\ request' = [request EXCEPT !.left = @ - 1]
           Ends == request.client \in Clients /\ Web!Close({request.client}) /\ request' = Web!NoRequest
           Keeps == request.client \in Clients /\ session[request.client].open /\ Web!Keep
<1> USE DEF WebInv
<1>1. (Leaves \/ Ends \/ Keeps) /\ UNCHANGED Web!control /\ (uris' = uris \/ (app = "simple" /\ uris' \subseteq Web!AllUris))
  <2> USE DEF Web!At, Web!Answered, Web!Fails, Web!Client
  <2>1. request.uri # "none" => request.client \in Clients /\ session[request.client].open
    BY DEF Handled
  <2>2. CASE Web!hello_get_handler \/ Web!async_get_handler \/ Web!generate_async_resp
    BY <2>2 DEF Web!hello_get_handler, Web!async_get_handler, Web!generate_async_resp
  <2>3. CASE Web!echo_post_handler \/ Web!EchoOrFail \/ Web!leftover_data_post_handler
    BY <2>1, <2>3 DEF Web!echo_post_handler, Web!EchoOrFail, Web!leftover_data_post_handler
  <2>4. CASE Web!ctrl_put_handler
    BY <2>1, <2>4 DEF Web!ctrl_put_handler, WebTypes, Web!AllUris
  <2>5. CASE Web!adder_get_handler \/ Web!adder_post_handler \/ Web!test_adder_post_handler \/ Web!adder_put_handler
    BY <2>1, <2>5 DEF Web!adder_get_handler, Web!adder_post_handler, Web!test_adder_post_handler,
                      Web!adder_put_handler, Web!Received, Web!Keep
  <2> QED BY <2>2, <2>3, <2>4, <2>5 DEF Web!Handler
<1>2. WebTypes'
  BY <1>1 DEF WebTypes, Web!control, Web!AllUris
<1>3. Handle' /\ Unraced'
  BY <1>1 DEF Handle, Unraced, Web!control
<1>4. CASE Leaves
  <2>1. Contexts'
    BY <1>4 DEF Contexts, Holding
  <2>2. Handled'
    <3>1. CASE request' = Web!NoRequest
      BY <3>1, NothingHandled
    <3>2. CASE request' = request
      BY <1>4, <3>2 DEF Handled
    <3>3. CASE request.left > 0 /\ request' = [request EXCEPT !.left = @ - 1]
      BY <1>4, <3>3, WebAssumption DEF Handled, WebAssumption
    <3> QED BY <1>4, <3>1, <3>2, <3>3
  <2> QED BY <1>2, <1>3, <2>1, <2>2
<1>5. CASE Ends
  <2>1. Contexts'
    BY <1>5, CloseKeeps
  <2>2. Handled'
    BY <1>5, NothingHandled
  <2> QED BY <1>2, <1>3, <2>1, <2>2
<1>6. CASE Keeps
  <2>1. Contexts'
    BY <1>6, KeepKeeps
  <2>2. Handled'
    BY <1>6, NothingHandled DEF Web!Keep, Web!Answered
  <2> QED BY <1>2, <1>3, <2>1, <2>2
<1> QED BY <1>1, <1>4, <1>5, <1>6

LEMMA WebInvariance == ASSUME WebAssumption PROVE Web!Spec => []WebInv
<1>1. Web!Init => WebInv
  BY WebInit
<1>2. WebInv /\ [Web!Next]_(Web!vars) => WebInv'
  <2>1. ASSUME WebInv, UNCHANGED Web!vars PROVE WebInv'
    <3> USE <2>1 DEF Web!vars, WebInv
    <3>1. WebTypes' /\ Handled'
      BY DEF WebTypes, Handled, Web!AllUris
    <3>2. Handle' /\ Unraced'
      BY DEF Handle, Unraced
    <3>3. Contexts'
      BY DEF Contexts, Holding
    <3> QED BY <3>1, <3>2, <3>3
  <2> QED BY <2>1, ControlKeeps, StopKeeps, ClientKeeps, HandlerKeeps DEF Web!Next, Web!EventTask
<1> QED BY <1>1, <1>2, PTL DEF Web!Spec

(* The type invariant.                                                     *)
THEOREM WebTypeCorrect == ASSUME WebAssumption PROVE Web!Spec => []Web!TypeOK
<1>1. ASSUME WebInv PROVE Web!TypeOK
  <2>1. allocated \in Nat
    BY <1>1, FS_Subset, FS_CardinalityType DEF WebInv, Contexts, Holding, WebAssumption
  <2>2. {server, running, raced} \subseteq BOOLEAN
    BY <1>1 DEF WebInv, Handle
  <2>3. session \in [Clients -> [open : BOOLEAN, has : BOOLEAN, peer : {"sending", "stalled", "gone"}]]
    BY <1>1 DEF WebInv, Contexts, Session
  <2>4. request.client \in Clients \cup {"none"} /\ request.left \in 0..EchoLen
    BY <1>1 DEF WebInv, Handled
  <2> QED BY <1>1, <2>1, <2>2, <2>3, <2>4 DEF WebInv, WebTypes, Web!TypeOK
<1> QED BY <1>1, WebInvariance, PTL

(* A handle that is not NULL, and one given to httpd_stop, is a running     *)
(* server's; and a running server has its handle, unless connect_handler   *)
(* found NULL before app_main had kept its own.                            *)
THEOREM HandleIsKept == ASSUME WebAssumption PROVE Web!Spec => []Web!HandleKept
<1>1. ASSUME WebInv PROVE Web!HandleKept
  BY <1>1 DEF WebInv, Handle, Unraced, Web!HandleKept
<1> QED BY <1>1, WebInvariance, PTL

(* No context outlives its session, for every number of clients.           *)
THEOREM ContextsFreed == ASSUME WebAssumption PROVE Web!Spec => []Web!NoContextLeft
<1>1. ASSUME WebInv PROVE Web!NoContextLeft
  <2> DEFINE Open == {c \in Clients : session[c].open /\ session[c].has}
  <2>1. Holding = Open
    BY <1>1 DEF WebInv, Contexts, Holding
  <2>2. allocated = Cardinality(Holding)
    BY <1>1 DEF WebInv, Contexts
  <2>3. allocated = Cardinality(Open)
    BY ONLY <2>1, <2>2
  <2> QED BY <2>3, SameCount DEF Web!NoContextLeft
<1> QED BY <1>1, WebInvariance, PTL
-----------------------------------------------------------------------------
(***************************************************************************)
(* Electing a sender (EspNow).                                             *)
(***************************************************************************)
CONSTANTS Nodes, SEND_COUNT, Draws, QUEUE_SIZE, RX_BUFFERS
VARIABLES task, param, queue, wifi, air, peers, sent
Now == INSTANCE EspNow

NowAssumption == /\ \E a, b : a # b /\ Nodes = {a, b}
                 /\ Now!BROADCAST \notin Nodes
                 /\ Draws \subseteq [Nodes -> Nat]
                 /\ SEND_COUNT \in Nat \ {0} /\ QUEUE_SIZE \in Nat

LEMMA OtherNode ==
  ASSUME NowAssumption, NEW n \in Nodes
  PROVE  /\ Now!Other(n) \in Nodes /\ Now!Other(n) # n /\ Now!Other(Now!Other(n)) = n
         /\ Nodes = {n, Now!Other(n)}
<1>1. PICK a, b : a # b /\ Nodes = {a, b}
  BY DEF NowAssumption
<1>2. \A m \in Nodes : Now!Other(m) \in Nodes /\ Now!Other(m) # m
  BY <1>1 DEF Now!Other
<1> QED BY <1>1, <1>2

(* An element of S in q; and one at most.                                  *)
Has(q, S)  == \E i \in 1..Len(q) : q[i] \in S
Once(q, S) == \A i, j \in 1..Len(q) : q[i] \in S /\ q[j] \in S => i = j

LEMMA HasAppended ==
  ASSUME NEW E, NEW q \in Seq(E), NEW e \in E, NEW S
  PROVE  /\ Has(Append(q, e), S) <=> Has(q, S) \/ e \in S
         /\ Once(q, S) /\ ~(Has(q, S) /\ e \in S) => Once(Append(q, e), S)
<1>1. /\ Len(Append(q, e)) = Len(q) + 1 /\ Len(q) \in Nat
      /\ \A i \in 1..Len(q) : Append(q, e)[i] = q[i]
      /\ Append(q, e)[Len(q) + 1] = e
  BY AppendProperties, LenProperties
<1>2. \A i : i \in 1..Len(q) + 1 <=> i \in 1..Len(q) \/ i = Len(q) + 1
  BY <1>1
<1>3. Has(Append(q, e), S) <=> Has(q, S) \/ e \in S
  BY <1>1, <1>2 DEF Has
<1>4. ASSUME Once(q, S), ~(Has(q, S) /\ e \in S) PROVE Once(Append(q, e), S)
  BY <1>1, <1>2, <1>4 DEF Has, Once
<1> QED BY <1>3, <1>4

LEMMA HasTail ==
  ASSUME NEW E, NEW q \in Seq(E), q # <<>>, NEW S
  PROVE  /\ Has(q, S) <=> Head(q) \in S \/ Has(Tail(q), S)
         /\ Once(q, S) => Once(Tail(q), S) /\ ~(Head(q) \in S /\ Has(Tail(q), S))
<1>1. /\ Len(Tail(q)) = Len(q) - 1 /\ Len(q) \in Nat \ {0} /\ Head(q) = q[1]
      /\ \A i \in 1..Len(Tail(q)) : Tail(q)[i] = q[i + 1]
  BY HeadTailProperties, EmptySeq
<1>2. \A i \in 1..Len(Tail(q)) : i + 1 \in 1..Len(q) /\ i + 1 # 1
  BY <1>1
<1>3. \A i \in 1..Len(q) : i = 1 \/ (i - 1 \in 1..Len(Tail(q)) /\ Tail(q)[i - 1] = q[i])
  BY <1>1
<1>4. 1 \in 1..Len(q)
  BY <1>1
<1>5. Has(q, S) <=> Head(q) \in S \/ Has(Tail(q), S)
  BY <1>1, <1>2, <1>3, <1>4 DEF Has
<1>6. ASSUME Once(q, S) PROVE Once(Tail(q), S)
  <2> SUFFICES ASSUME NEW i \in 1..Len(Tail(q)), NEW j \in 1..Len(Tail(q)), Tail(q)[i] \in S, Tail(q)[j] \in S
               PROVE  i = j
    BY DEF Once
  <2>1. i + 1 = j + 1
    BY <1>1, <1>2, <1>6 DEF Once
  <2> QED BY <1>1, <2>1
<1>7. ASSUME Once(q, S) PROVE ~(Head(q) \in S /\ Has(Tail(q), S))
  BY <1>1, <1>2, <1>4, <1>7 DEF Once, Has
<1> QED BY <1>5, <1>6, <1>7

(* A frame under way, until the task has taken the event that says it was  *)
(* sent out of the queue: in the air a, at the WiFi task w or in queue q.  *)
Types == {"broadcast", "unicast"}
Frame(t) == [type : {t}, state : {0, 1}, magic : Nat]
SentEvent(t) == {[id |-> "SEND_CB", type |-> t]}
AnyFrame == [type : Types, state : {0, 1}, magic : Nat]
UnderWay(a, w, q, t) == Has(a, Frame(t)) \/ Has(w, SentEvent(t)) \/ Has(q, SentEvent(t))
OneUnderWay(a, w, q, t) ==
    /\ Once(a, Frame(t)) /\ Once(w, SentEvent(t)) /\ Once(q, SentEvent(t))
    /\ ~(Has(a, Frame(t)) /\ Has(w, SentEvent(t)))
    /\ ~(Has(a, Frame(t)) /\ Has(q, SentEvent(t)))
    /\ ~(Has(w, SentEvent(t)) /\ Has(q, SentEvent(t)))

LEMMA FrameTypes ==
  /\ \A f \in AnyFrame : \A t \in Types : f \in Frame(t) <=> f.type = t
  /\ \A t, u \in Types : [id |-> "SEND_CB", type |-> u] \in SentEvent(t) <=> u = t
<1>1. ASSUME NEW f \in AnyFrame, NEW t \in Types PROVE f \in Frame(t) <=> f.type = t
  BY DEF AnyFrame, Frame
<1>2. ASSUME NEW t \in Types, NEW u \in Types PROVE [id |-> "SEND_CB", type |-> u] \in SentEvent(t) <=> u = t
  <2>1. [id |-> "SEND_CB", type |-> u].type = u /\ [id |-> "SEND_CB", type |-> t].type = t
    OBVIOUS
  <2> QED BY <2>1 DEF SentEvent
<1> QED BY <1>1, <1>2

(* esp_now_send of a frame, when none of its type is under way.            *)
LEMMA SendCounts ==
  ASSUME NEW E, NEW a \in Seq(AnyFrame), NEW w \in Seq(E), NEW q \in Seq(E), NEW f \in AnyFrame,
         NEW t \in Types, OneUnderWay(a, w, q, t)
  PROVE  /\ UnderWay(Append(a, f), w, q, t) <=> f.type = t \/ UnderWay(a, w, q, t)
         /\ f.type # t \/ ~UnderWay(a, w, q, t) => OneUnderWay(Append(a, f), w, q, t)
<1>1. f \in Frame(t) <=> f.type = t
  BY FrameTypes
<1>2. /\ Has(Append(a, f), Frame(t)) <=> Has(a, Frame(t)) \/ f \in Frame(t)
      /\ Once(a, Frame(t)) /\ ~(Has(a, Frame(t)) /\ f \in Frame(t)) => Once(Append(a, f), Frame(t))
  BY HasAppended
<1> QED BY <1>1, <1>2 DEF UnderWay, OneUnderWay

(* The radio has sent the next frame: its event is with the WiFi task.     *)
LEMMA RadioCounts ==
  ASSUME NEW E, NEW a \in Seq(AnyFrame), a # <<>>, NEW w \in Seq(E), NEW q \in Seq(E),
         [id |-> "SEND_CB", type |-> Head(a).type] \in E,
         NEW t \in Types, OneUnderWay(a, w, q, t)
  PROVE  LET v == Append(w, [id |-> "SEND_CB", type |-> Head(a).type])
         IN  /\ UnderWay(Tail(a), v, q, t) <=> UnderWay(a, w, q, t)
             /\ OneUnderWay(Tail(a), v, q, t)
<1> DEFINE e == [id |-> "SEND_CB", type |-> Head(a).type]
<1>1. Head(a) \in AnyFrame /\ Head(a).type \in Types
  <2>1. Head(a) \in AnyFrame
    BY HeadTailProperties
  <2> QED BY <2>1 DEF AnyFrame
<1>2. (Head(a) \in Frame(t) <=> Head(a).type = t) /\ (e \in SentEvent(t) <=> Head(a).type = t)
  BY <1>1, FrameTypes
<1> HIDE DEF e
<1>3. /\ Has(a, Frame(t)) <=> Head(a) \in Frame(t) \/ Has(Tail(a), Frame(t))
      /\ Once(a, Frame(t)) => Once(Tail(a), Frame(t)) /\ ~(Head(a) \in Frame(t) /\ Has(Tail(a), Frame(t)))
  BY HasTail
<1>4. /\ Has(Append(w, e), SentEvent(t)) <=> Has(w, SentEvent(t)) \/ e \in SentEvent(t)
      /\ Once(w, SentEvent(t)) /\ ~(Has(w, SentEvent(t)) /\ e \in SentEvent(t)) => Once(Append(w, e), SentEvent(t))
  BY HasAppended DEF e
<1>5. /\ UnderWay(Tail(a), Append(w, e), q, t) <=> UnderWay(a, w, q, t)
      /\ OneUnderWay(Tail(a), Append(w, e), q, t)
  BY <1>2, <1>3, <1>4 DEF UnderWay, OneUnderWay
<1> QED BY <1>5 DEF e

(* A callback's event is posted.                                           *)
LEMMA PostCounts ==
  ASSUME NEW E, NEW A, NEW a \in Seq(A), NEW w \in Seq(E), w # <<>>, NEW q \in Seq(E),
         NEW t \in Types, OneUnderWay(a, w, q, t)
  PROVE  /\ UnderWay(a, Tail(w), Append(q, Head(w)), t) <=> UnderWay(a, w, q, t)
         /\ OneUnderWay(a, Tail(w), Append(q, Head(w)), t)
<1>1. /\ Has(w, SentEvent(t)) <=> Head(w) \in SentEvent(t) \/ Has(Tail(w), SentEvent(t))
      /\ Once(w, SentEvent(t)) => Once(Tail(w), SentEvent(t)) /\ ~(Head(w) \in SentEvent(t) /\ Has(Tail(w), SentEvent(t)))
  BY HasTail
<1>2. /\ Has(Append(q, Head(w)), SentEvent(t)) <=> Has(q, SentEvent(t)) \/ Head(w) \in SentEvent(t)
      /\ Once(q, SentEvent(t)) /\ ~(Has(q, SentEvent(t)) /\ Head(w) \in SentEvent(t)) =>
             Once(Append(q, Head(w)), SentEvent(t))
  <2>1. Head(w) \in E
    BY HeadTailProperties
  <2> QED BY <2>1, HasAppended
<1> QED BY <1>1, <1>2 DEF UnderWay, OneUnderWay

(* The task takes an event.                                                *)
LEMMA TakeCounts ==
  ASSUME NEW E, NEW A, NEW a \in Seq(A), NEW w \in Seq(E), NEW q \in Seq(E), q # <<>>,
         NEW t \in Types, OneUnderWay(a, w, q, t)
  PROVE  /\ OneUnderWay(a, w, Tail(q), t)
         /\ Head(q) \in SentEvent(t) => ~UnderWay(a, w, Tail(q), t) /\ UnderWay(a, w, q, t)
         /\ Head(q) \notin SentEvent(t) => (UnderWay(a, w, Tail(q), t) <=> UnderWay(a, w, q, t))
<1>1. /\ Has(q, SentEvent(t)) <=> Head(q) \in SentEvent(t) \/ Has(Tail(q), SentEvent(t))
      /\ Once(q, SentEvent(t)) => Once(Tail(q), SentEvent(t)) /\ ~(Head(q) \in SentEvent(t) /\ Has(Tail(q), SentEvent(t)))
  BY HasTail
<1> QED BY <1>1 DEF UnderWay, OneUnderWay

(* A frame is heard.                                                       *)
LEMMA HearCounts ==
  ASSUME NEW E, NEW A, NEW a \in Seq(A), NEW w \in Seq(E), NEW q \in Seq(E), NEW e \in E,
         NEW t \in Types, e \notin SentEvent(t), OneUnderWay(a, w, q, t)
  PROVE  /\ UnderWay(a, Append(w, e), q, t) <=> UnderWay(a, w, q, t)
         /\ OneUnderWay(a, Append(w, e), q, t)
<1>1. /\ Has(Append(w, e), SentEvent(t)) <=> Has(w, SentEvent(t)) \/ e \in SentEvent(t)
      /\ Once(w, SentEvent(t)) /\ ~(Has(w, SentEvent(t)) /\ e \in SentEvent(t)) => Once(Append(w, e), SentEvent(t))
  BY HasAppended
<1> QED BY <1>1 DEF UnderWay, OneUnderWay

(* Frames and events carry what is true of their sender.                   *)
States(n) == IF param[n].state = 1 THEN {0, 1} ELSE {0}
Frames(n) == [type : Types, state : States(n), magic : {param[n].magic}]
Hearings(n) == [id : {"RECV_CB"}, from : {n}, type : Types, intact : BOOLEAN, state : States(n),
                magic : {param[n].magic}]
Events(n) == SentEvent("broadcast") \cup SentEvent("unicast") \cup Hearings(Now!Other(n))

Flow(n) == /\ air[n] \in Seq(Frames(n))
           /\ wifi[n] \in Seq(Events(n))
           /\ queue[n] \in Seq(Events(n)) /\ Len(queue[n]) <= QUEUE_SIZE

NowTypes == /\ task \in [Nodes -> {"start", "wait", "delay", "leaving", "gone"}]
            /\ param \in [Nodes -> Now!Params]
            /\ sent \in [Nodes -> [out : 0..SEND_COUNT, in : BOOLEAN]]
            /\ failed \in [Nodes -> BOOLEAN]
            /\ peers \in [Nodes -> SUBSET Nodes] /\ \A n \in Nodes : peers[n] \subseteq {Now!Other(n)}
            /\ air = [n \in Nodes |-> air[n]] /\ wifi = [n \in Nodes |-> wifi[n]]
            /\ queue = [n \in Nodes |-> queue[n]]

(* A device that has heard a broadcast has the other as a peer; one that   *)
(* sends unicast is understood.                                            *)
Knows(n) == /\ param[n].state = 1 => Now!Other(n) \in peers[n]
            /\ param[n].unicast => /\ n \in peers[Now!Other(n)]
                                  /\ param[n].magic >= param[Now!Other(n)].magic

OneOf(n, t) == OneUnderWay(air[n], wifi[n], queue[n], t)
Some(n, t)  == UnderWay(air[n], wifi[n], queue[n], t)

(* A device has one broadcast under way at most, and one unicast frame; it *)
(* waits before it sends the next, whose kind dest_mac tells.              *)
Chain(n) ==
    /\ OneOf(n, "broadcast") /\ OneOf(n, "unicast")
    /\ param[n].unicast => ~param[n].broadcast
    /\ Some(n, "unicast") => param[n].unicast
    /\ task[n] = "start" => /\ ~Some(n, "broadcast") /\ ~param[n].unicast
                            /\ param[n].dest_mac = Now!BROADCAST
    /\ task[n] = "wait" /\ ~param[n].unicast => param[n].dest_mac = Now!BROADCAST
    /\ task[n] = "delay" => /\ ~Some(n, "unicast")
                            /\ param[n].dest_mac = Now!BROADCAST => ~Some(n, "broadcast") /\ ~param[n].unicast
                            /\ param[n].dest_mac # Now!BROADCAST => param[n].unicast /\ param[n].count > 0

(* What is sent and not yet counted is under way, until the device is done.*)
Done == {"leaving", "gone"}
Counted(n) ==
    /\ ~param[n].unicast => sent[n].out = 0 /\ param[n].count = SEND_COUNT
    /\ task[n] \notin Done =>
          /\ Some(n, "unicast") => sent[n].out + param[n].count = SEND_COUNT + 1
          /\ ~Some(n, "unicast") => sent[n].out + param[n].count = SEND_COUNT
    /\ task[n] \in Done /\ ~failed[n] => sent[n].out = SEND_COUNT

NowInv == NowTypes /\ \A n \in Nodes : Flow(n) /\ Knows(n) /\ Chain(n) /\ Counted(n)

LEMMA NowInit == ASSUME NowAssumption PROVE Now!Init => NowInv
<1> SUFFICES ASSUME Now!Init PROVE NowInv
  OBVIOUS
<1> USE DEF NowAssumption, Now!Init
<1>1. PICK magic \in Draws :
        param = [n \in Nodes |-> [unicast |-> FALSE, broadcast |-> TRUE, state |-> 0, magic |-> magic[n],
                                 count |-> SEND_COUNT, dest_mac |-> Now!BROADCAST]]
  OBVIOUS
<1>2. param \in [Nodes -> Now!Params]
  <2>1. ASSUME NEW n \in Nodes PROVE param[n] \in Now!Params
    BY <1>1 DEF Now!Params
  <2> QED BY <1>1, <2>1
<1>3. \A n \in Nodes : sent[n] \in [out : 0..SEND_COUNT, in : BOOLEAN]
  OBVIOUS
<1>4. NowTypes
  BY <1>2, <1>3 DEF NowTypes
<1> SUFFICES ASSUME NEW n \in Nodes PROVE Flow(n) /\ Knows(n) /\ Chain(n) /\ Counted(n)
  BY <1>4 DEF NowInv
<1>5. air[n] = <<>> /\ wifi[n] = <<>> /\ queue[n] = <<>>
  OBVIOUS
<1>6. Flow(n)
  BY <1>5 DEF Flow
<1>7. \A S : ~Has(<<>>, S) /\ Once(<<>>, S)
  BY DEF Has, Once
<1>8. \A t : OneOf(n, t) /\ ~Some(n, t)
  BY <1>5, <1>7 DEF OneOf, Some, OneUnderWay, UnderWay
<1>9. ~param[n].unicast /\ param[n].state = 0 /\ param[n].dest_mac = Now!BROADCAST /\ param[n].count = SEND_COUNT
  BY <1>1
<1>10. sent[n].out = 0 /\ task[n] = "start"
  OBVIOUS
<1> QED BY <1>6, <1>8, <1>9, <1>10 DEF Knows, Chain, Counted, Done

(* A step of n leaves the other device as it is; what the other has heard  *)
(* of n stays true.                                                        *)
Leaves(n, m) ==
    /\ task'[m] = task[m] /\ param'[m] = param[m] /\ sent'[m] = sent[m] /\ failed'[m] = failed[m]
    /\ peers'[m] = peers[m] /\ air'[m] = air[m] /\ queue'[m] = queue[m]
Grows(n) == /\ param'[n].magic = param[n].magic
            /\ param[n].state = 1 => param'[n].state = 1
            /\ peers[n] \subseteq peers'[n]

LEMMA Widened ==
  ASSUME NEW A, NEW B, A \subseteq B, NEW q \in Seq(A)
  PROVE  q \in Seq(B)
  OBVIOUS

LEMMA FlowGrows ==
  ASSUME NowAssumption, NEW n \in Nodes, \A m \in Nodes : Grows(m)
  PROVE  /\ Frames(n) \subseteq Frames(n)' /\ Events(n) \subseteq Events(n)'
         /\ air[n] \in Seq(Frames(n)) => air[n] \in Seq(Frames(n)')
         /\ wifi[n] \in Seq(Events(n)) => wifi[n] \in Seq(Events(n)')
         /\ queue[n] \in Seq(Events(n)) => queue[n] \in Seq(Events(n)')
<1>1. ASSUME NEW m \in Nodes PROVE Frames(m) \subseteq Frames(m)' /\ Hearings(m) \subseteq Hearings(m)'
  <2>1. States(m) \subseteq States(m)' /\ param'[m].magic = param[m].magic
    BY DEF Grows, States
  <2> QED BY <2>1 DEF Frames, Hearings
<1>2. Frames(n) \subseteq Frames(n)' /\ Events(n) \subseteq Events(n)'
  BY <1>1, OtherNode DEF Events
<1> QED BY <1>2, Widened

LEMMA OtherKeeps ==
  ASSUME NowAssumption, NowInv, NEW n \in Nodes, NEW m \in Nodes, m # n, Leaves(n, m), wifi'[m] = wifi[m],
         Grows(n)
  PROVE  Flow(m)' /\ Knows(m)' /\ Chain(m)' /\ Counted(m)'
<1>1. Now!Other(m) = n /\ \A k \in Nodes : Grows(k)
  BY OtherNode DEF Leaves, Grows
<1>2. Flow(m) /\ Knows(m) /\ Chain(m) /\ Counted(m)
  BY DEF NowInv
<1>3. Flow(m)'
  BY <1>1, <1>2, FlowGrows DEF Flow, Leaves
<1>4. Knows(m)'
  BY <1>1, <1>2 DEF Knows, Leaves, Grows
<1>5. (OneOf(m, "broadcast") <=> OneOf(m, "broadcast")') /\ (OneOf(m, "unicast") <=> OneOf(m, "unicast")')
      /\ (Some(m, "broadcast") <=> Some(m, "broadcast")') /\ (Some(m, "unicast") <=> Some(m, "unicast")')
  BY DEF OneOf, Some, Leaves
<1>6. Chain(m)'
  BY <1>2, <1>5 DEF Chain, Leaves
<1>7. Counted(m)'
  BY <1>2, <1>5 DEF Counted, Done, Leaves
<1> QED BY <1>3, <1>4, <1>6, <1>7

LEMMA BothKeep ==
  ASSUME NowAssumption, NowInv, NEW n \in Nodes, Grows(n), Leaves(n, Now!Other(n)),
         wifi'[Now!Other(n)] = wifi[Now!Other(n)], NowTypes', Flow(n)', Knows(n)', Chain(n)', Counted(n)'
  PROVE  NowInv'
<1>1. Now!Other(n) \in Nodes /\ Now!Other(n) # n /\ Nodes = {n, Now!Other(n)}
  BY OtherNode
<1>2. Flow(Now!Other(n))' /\ Knows(Now!Other(n))' /\ Chain(Now!Other(n))' /\ Counted(Now!Other(n))'
  BY <1>1, OtherKeeps
<1>3. \A k \in Nodes : k = n \/ k = Now!Other(n)
  BY <1>1
<1>4. ASSUME NEW k \in Nodes PROVE Flow(k)' /\ Knows(k)' /\ Chain(k)' /\ Counted(k)'
  <2>1. CASE k = n
    BY <2>1
  <2>2. CASE k = Now!Other(n)
    BY <2>2, <1>2
  <2> QED BY <1>3, <2>1, <2>2
<1> QED BY <1>4 DEF NowInv

(* Moving a frame or an event on changes nothing that the tasks know.      *)
LEMMA Still ==
  ASSUME NowInv, NEW n \in Nodes, UNCHANGED <<task, param, peers, sent, failed>>,
         OneOf(n, "broadcast")', OneOf(n, "unicast")',
         Some(n, "broadcast")' <=> Some(n, "broadcast"), Some(n, "unicast")' <=> Some(n, "unicast")
  PROVE  Knows(n)' /\ Chain(n)' /\ Counted(n)'
<1>1. Knows(n) /\ Chain(n) /\ Counted(n)
  BY DEF NowInv
<1> QED BY <1>1 DEF Knows, Chain, Counted, Done

(* What the radio takes out of the air.                                    *)
LEMMA NextFrame ==
  ASSUME NowInv, NEW n \in Nodes, air[n] # <<>>
  PROVE  /\ Head(air[n]) \in Frames(n) /\ Head(air[n]).type \in Types
         /\ air[n] \in Seq(AnyFrame)
         /\ Now!SendEvent(n) = [id |-> "SEND_CB", type |-> Head(air[n]).type]
         /\ Now!SendEvent(n) \in SentEvent("broadcast") \cup SentEvent("unicast")
<1>1. air[n] \in Seq(Frames(n))
  BY DEF NowInv, Flow
<1>2. Head(air[n]) \in Frames(n)
  BY <1>1, HeadTailProperties
<1>3. Head(air[n]).type \in Types
  BY <1>2 DEF Frames
<1>4. Frames(n) \subseteq AnyFrame
  <2>1. param[n].magic \in Nat
    BY DEF NowInv, NowTypes, Now!Params
  <2> QED BY <2>1 DEF Frames, AnyFrame, States
<1>5. air[n] \in Seq(AnyFrame)
  BY <1>1, <1>4, Widened
<1>6. Now!SendEvent(n) = [id |-> "SEND_CB", type |-> Head(air[n]).type]
  BY DEF Now!SendEvent
<1>7. Now!SendEvent(n) \in SentEvent("broadcast") \cup SentEvent("unicast")
  BY <1>3, <1>6 DEF SentEvent, Types
<1> QED BY <1>2, <1>3, <1>5, <1>6, <1>7

LEMMA RadioKeeps ==
  ASSUME NowAssumption, NowInv, NEW n \in Nodes, air[n] # <<>>,
         air' = [air EXCEPT ![n] = Tail(@)], wifi'[n] = Append(wifi[n], Now!SendEvent(n)),
         UNCHANGED <<task, param, queue, peers, sent, failed>>
  PROVE  Flow(n)' /\ Knows(n)' /\ Chain(n)' /\ Counted(n)'
<1>1. air'[n] = Tail(air[n]) /\ queue'[n] = queue[n]
  BY DEF NowInv, NowTypes
<1>2. Flow(n) /\ OneOf(n, "broadcast") /\ OneOf(n, "unicast")
  BY DEF NowInv, Chain
<1>3. Frames(n)' = Frames(n) /\ Events(n)' = Events(n)
  BY DEF Frames, Events, Hearings, States
<1>4. Now!SendEvent(n) \in Events(n)
  BY NextFrame DEF Events
<1>5. Tail(air[n]) \in Seq(Frames(n)) /\ Append(wifi[n], Now!SendEvent(n)) \in Seq(Events(n))
  BY <1>2, <1>4, HeadTailProperties, AppendProperties DEF Flow
<1>6. Flow(n)'
  BY <1>1, <1>2, <1>3, <1>5 DEF Flow
<1>7. ASSUME NEW t \in Types PROVE OneOf(n, t)' /\ (Some(n, t)' <=> Some(n, t))
  <2>1. OneUnderWay(air[n], wifi[n], queue[n], t)
    BY <1>2 DEF OneOf, Types
  <2> DEFINE v == Append(wifi[n], [id |-> "SEND_CB", type |-> Head(air[n]).type])
  <2>2. [id |-> "SEND_CB", type |-> Head(air[n]).type] \in Events(n) /\ wifi'[n] = v
    BY <1>4, NextFrame
  <2>3. air[n] \in Seq(AnyFrame) /\ wifi[n] \in Seq(Events(n)) /\ queue[n] \in Seq(Events(n))
    BY <1>2, NextFrame DEF Flow
  <2>4. /\ UnderWay(Tail(air[n]), v, queue[n], t) <=> UnderWay(air[n], wifi[n], queue[n], t)
        /\ OneUnderWay(Tail(air[n]), v, queue[n], t)
    BY <2>1, <2>2, <2>3, RadioCounts
  <2> HIDE DEF v
  <2> QED BY <1>1, <2>2, <2>4 DEF OneOf, Some
<1>8. "broadcast" \in Types /\ "unicast" \in Types
  BY DEF Types
<1>9. Knows(n)' /\ Chain(n)' /\ Counted(n)'
  BY <1>7, <1>8, Still
<1> QED BY <1>6, <1>9

LEMMA LostKeeps == ASSUME NowAssumption, NowInv, NEW n \in Nodes, Now!Lost(n) PROVE NowInv'
<1> USE DEF Now!Lost, Now!FrameSent
<1>1. wifi'[n] = Append(wifi[n], Now!SendEvent(n)) /\ wifi'[Now!Other(n)] = wifi[Now!Other(n)]
  BY OtherNode DEF NowInv, NowTypes
<1>2. Flow(n)' /\ Knows(n)' /\ Chain(n)' /\ Counted(n)'
  BY <1>1, RadioKeeps
<1>3. NowTypes'
  BY DEF NowInv, NowTypes
<1>4. Leaves(n, Now!Other(n)) /\ Grows(n)
  BY OtherNode DEF Leaves, Grows, NowInv, NowTypes
<1> QED BY <1>1, <1>2, <1>3, <1>4, BothKeep

LEMMA DeliveredKeeps == ASSUME NowAssumption, NowInv, NEW n \in Nodes, Now!Delivered(n) PROVE NowInv'
<1> USE DEF Now!Delivered, Now!FrameSent
<1> DEFINE m == Now!Other(n)
           f == Head(air[n])
<1>1. m \in Nodes /\ m # n /\ Now!Other(m) = n /\ Nodes = {n, m}
  BY OtherNode
<1>2. PICK intact \in BOOLEAN :
        wifi' = [wifi EXCEPT ![n] = Append(@, Now!SendEvent(n)),
                             ![m] = Append(@, [id |-> "RECV_CB", from |-> n, type |-> f.type, intact |-> intact,
                                               state |-> f.state, magic |-> f.magic])]
  OBVIOUS
<1> DEFINE e == [id |-> "RECV_CB", from |-> n, type |-> f.type, intact |-> intact,
                 state |-> f.state, magic |-> f.magic]
<1>3. wifi'[n] = Append(wifi[n], Now!SendEvent(n)) /\ wifi'[m] = Append(wifi[m], e)
  BY <1>1, <1>2 DEF NowInv, NowTypes
<1>4. Flow(n)' /\ Knows(n)' /\ Chain(n)' /\ Counted(n)'
  BY <1>3, RadioKeeps
<1>5. NowTypes'
  BY <1>2 DEF NowInv, NowTypes
<1>6. f \in Frames(n) /\ f.type \in Types
  BY NextFrame
<1>7. e \in Hearings(n)
  BY <1>6 DEF Hearings, Frames
<1>8. e \notin SentEvent("broadcast") /\ e \notin SentEvent("unicast")
  <2>1. e.id = "RECV_CB" /\ \A t : [id |-> "SEND_CB", type |-> t].id = "SEND_CB"
    OBVIOUS
  <2> QED BY <2>1 DEF SentEvent
<1> HIDE DEF e, f
<1>9. e \in Events(m)
  BY <1>1, <1>7 DEF Events
<1>10. Flow(m) /\ OneOf(m, "broadcast") /\ OneOf(m, "unicast")
  BY <1>1 DEF NowInv, Chain
<1>11. air'[m] = air[m] /\ queue'[m] = queue[m]
  BY <1>1 DEF NowInv, NowTypes
<1>12. Flow(m)'
  <2>1. Frames(m)' = Frames(m) /\ Events(m)' = Events(m)
    BY DEF Frames, Events, Hearings, States
  <2>2. Append(wifi[m], e) \in Seq(Events(m))
    BY <1>9, <1>10, AppendProperties DEF Flow
  <2> QED BY <1>3, <1>10, <1>11, <2>1, <2>2 DEF Flow
<1>13. ASSUME NEW t \in Types PROVE OneOf(m, t)' /\ (Some(m, t)' <=> Some(m, t))
  <2>1. OneUnderWay(air[m], wifi[m], queue[m], t) /\ e \notin SentEvent(t)
    BY <1>8, <1>10 DEF OneOf, Types
  <2>2. air[m] \in Seq(Frames(m)) /\ wifi[m] \in Seq(Events(m)) /\ queue[m] \in Seq(Events(m))
    BY <1>10 DEF Flow
  <2>3. /\ UnderWay(air[m], Append(wifi[m], e), queue[m], t) <=> UnderWay(air[m], wifi[m], queue[m], t)
        /\ OneUnderWay(air[m], Append(wifi[m], e), queue[m], t)
    BY <1>9, <2>1, <2>2, HearCounts
  <2> QED BY <1>3, <1>11, <2>3 DEF OneOf, Some
<1>14. "broadcast" \in Types /\ "unicast" \in Types
  BY DEF Types
<1>15. Knows(m)' /\ Chain(m)' /\ Counted(m)'
  BY <1>1, <1>13, <1>14, Still
<1>16. ASSUME NEW k \in Nodes PROVE Flow(k)' /\ Knows(k)' /\ Chain(k)' /\ Counted(k)'
  <2>1. k = n \/ k = m
    BY <1>1
  <2>2. CASE k = n
    BY <2>2, <1>4
  <2>3. CASE k = m
    BY <2>3, <1>12, <1>15
  <2> QED BY <2>1, <2>2, <2>3
<1> QED BY <1>5, <1>16 DEF NowInv

LEMMA PostKeeps == ASSUME NowAssumption, NowInv, NEW n \in Nodes, Now!Post(n) PROVE NowInv'
<1> USE DEF Now!Post
<1>1. /\ wifi'[n] = Tail(wifi[n]) /\ queue'[n] = Append(queue[n], Head(wifi[n])) /\ air'[n] = air[n]
      /\ wifi'[Now!Other(n)] = wifi[Now!Other(n)]
  BY OtherNode DEF NowInv, NowTypes
<1>2. Flow(n) /\ OneOf(n, "broadcast") /\ OneOf(n, "unicast")
  BY DEF NowInv, Chain
<1>3. Frames(n)' = Frames(n) /\ Events(n)' = Events(n)
  BY DEF Frames, Events, Hearings, States
<1>4. /\ Tail(wifi[n]) \in Seq(Events(n)) /\ Append(queue[n], Head(wifi[n])) \in Seq(Events(n))
      /\ Len(Append(queue[n], Head(wifi[n]))) = Len(queue[n]) + 1 /\ Len(queue[n]) \in Nat
  BY <1>2, HeadTailProperties, AppendProperties DEF Flow
<1>5. Flow(n)'
  BY <1>1, <1>2, <1>3, <1>4 DEF Flow, NowAssumption
<1>6. ASSUME NEW t \in Types PROVE OneOf(n, t)' /\ (Some(n, t)' <=> Some(n, t))
  <2>1. OneUnderWay(air[n], wifi[n], queue[n], t)
    BY <1>2 DEF OneOf, Types
  <2>2. /\ UnderWay(air[n], Tail(wifi[n]), Append(queue[n], Head(wifi[n])), t) <=> UnderWay(air[n], wifi[n], queue[n], t)
        /\ OneUnderWay(air[n], Tail(wifi[n]), Append(queue[n], Head(wifi[n])), t)
    BY <1>2, <2>1, PostCounts DEF Flow
  <2> QED BY <1>1, <2>2 DEF OneOf, Some
<1>7. "broadcast" \in Types /\ "unicast" \in Types
  BY DEF Types
<1>8. Knows(n)' /\ Chain(n)' /\ Counted(n)'
  BY <1>6, <1>7, Still
<1>9. NowTypes'
  BY DEF NowInv, NowTypes
<1>10. Leaves(n, Now!Other(n)) /\ Grows(n)
  BY OtherNode DEF Leaves, Grows, NowInv, NowTypes
<1> QED BY <1>1, <1>5, <1>8, <1>9, <1>10, BothKeep

(* The next frame is sent: the first broadcast or, after the delay, one of *)
(* the kind dest_mac tells.                                                *)
LEMMA SendKeeps ==
  ASSUME NowAssumption, NowInv, NEW n \in Nodes, task[n] \in {"start", "delay"},
         Now!Send(n, param[n]), task' = [task EXCEPT ![n] = "wait"], UNCHANGED <<param, queue, wifi, peers>>
  PROVE  NowInv'
<1> USE DEF Now!Send
<1> DEFINE f == Now!Prepared(param[n])
           t == f.type
<1>1. Flow(n) /\ Knows(n) /\ Chain(n) /\ Counted(n) /\ param[n] \in Now!Params
  BY DEF NowInv, NowTypes
<1>2. /\ air'[n] = Append(air[n], f) /\ wifi'[n] = wifi[n] /\ queue'[n] = queue[n]
      /\ param'[n] = param[n] /\ peers'[n] = peers[n] /\ task'[n] = "wait" /\ failed'[n] = failed[n]
      /\ sent'[n].out = IF param[n].dest_mac = Now!BROADCAST THEN sent[n].out ELSE sent[n].out + 1
  BY DEF NowInv, NowTypes
<1>3. /\ f \in Frames(n) /\ f \in AnyFrame /\ t \in Types
      /\ t = "broadcast" <=> param[n].dest_mac = Now!BROADCAST
      /\ t = "unicast" <=> param[n].dest_mac # Now!BROADCAST
  <2>1. f = [type |-> t, state |-> param[n].state, magic |-> param[n].magic]
        /\ t = IF param[n].dest_mac = Now!BROADCAST THEN "broadcast" ELSE "unicast"
    BY DEF Now!Prepared
  <2>2. param[n].state \in {0, 1} /\ param[n].magic \in Nat /\ param[n].state \in States(n)
    BY <1>1 DEF Now!Params, States
  <2> HIDE DEF t
  <2> QED BY <2>1, <2>2 DEF Frames, AnyFrame, Types
<1> HIDE DEF f, t
<1>4. ~Some(n, t)
  BY <1>1, <1>3 DEF Chain, Types
<1>5. Frames(n)' = Frames(n) /\ Events(n)' = Events(n)
  BY DEF Frames, Events, Hearings, States
<1>6. Flow(n)'
  <2>1. Append(air[n], f) \in Seq(Frames(n))
    BY <1>1, <1>3, AppendProperties DEF Flow
  <2> QED BY <1>1, <1>2, <1>5, <2>1 DEF Flow
<1>7. ASSUME NEW k \in Types PROVE OneOf(n, k)' /\ (Some(n, k)' <=> t = k \/ Some(n, k))
  <2>1. OneUnderWay(air[n], wifi[n], queue[n], k)
    BY <1>1 DEF Chain, OneOf, Types
  <2>2. Frames(n) \subseteq AnyFrame
    BY <1>1 DEF Frames, AnyFrame, States, Now!Params
  <2>3. air[n] \in Seq(AnyFrame) /\ wifi[n] \in Seq(Events(n)) /\ queue[n] \in Seq(Events(n))
    BY <1>1, <2>2, Widened DEF Flow
  <2>4. /\ UnderWay(Append(air[n], f), wifi[n], queue[n], k) <=> f.type = k \/ UnderWay(air[n], wifi[n], queue[n], k)
        /\ f.type # k \/ ~UnderWay(air[n], wifi[n], queue[n], k) => OneUnderWay(Append(air[n], f), wifi[n], queue[n], k)
    BY <1>3, <2>1, <2>3, SendCounts
  <2> QED BY <1>2, <1>4, <2>4 DEF OneOf, Some, t
<1>8. "broadcast" \in Types /\ "unicast" \in Types /\ "broadcast" # "unicast"
  BY DEF Types
<1>9. Knows(n)'
  BY <1>1 DEF Knows
<1>10. Chain(n)'
  <2>1. OneOf(n, "broadcast")' /\ OneOf(n, "unicast")'
    BY <1>7, <1>8
  <2>2. Some(n, "unicast")' => param[n].unicast
    BY <1>1, <1>3, <1>7, <1>8 DEF Chain
  <2>3. ~param[n].unicast => param[n].dest_mac = Now!BROADCAST
    BY <1>1 DEF Chain
  <2>4. param[n].unicast => ~param[n].broadcast
    BY <1>1 DEF Chain
  <2> QED BY <1>2, <2>1, <2>2, <2>3, <2>4 DEF Chain
<1>11. /\ sent[n] \in [out : 0..SEND_COUNT, in : BOOLEAN] /\ param[n].count \in 0..SEND_COUNT
       /\ SEND_COUNT \in Nat \ {0}
  BY DEF NowInv, NowTypes, Now!Params, NowAssumption
<1>12. ASSUME t = "broadcast" PROVE Counted(n)' /\ sent'[n].out \in 0..SEND_COUNT
  <2>1. sent'[n].out = sent[n].out /\ (Some(n, "unicast")' <=> Some(n, "unicast"))
    BY <1>2, <1>3, <1>7, <1>8, <1>12
  <2>2. Counted(n)'
    BY <1>1, <1>2, <2>1 DEF Counted, Done
  <2> QED BY <1>11, <2>1, <2>2
<1>13. ASSUME t = "unicast" PROVE Counted(n)' /\ sent'[n].out \in 0..SEND_COUNT
  <2>1. sent'[n].out = sent[n].out + 1 /\ Some(n, "unicast")' /\ ~Some(n, "unicast")
    BY <1>2, <1>3, <1>4, <1>7, <1>8, <1>13
  <2>2. param[n].unicast /\ param[n].count > 0
    BY <1>1, <1>3, <1>13 DEF Chain
  <2>3. sent[n].out + param[n].count = SEND_COUNT
    BY <1>1, <2>1 DEF Counted, Done
  <2>4. sent'[n].out \in 0..SEND_COUNT
    BY <1>11, <2>1, <2>2, <2>3
  <2>5. Counted(n)'
    BY <1>2, <1>11, <2>1, <2>2, <2>3 DEF Counted, Done
  <2> QED BY <2>4, <2>5
<1>14. Counted(n)' /\ sent'[n].out \in 0..SEND_COUNT
  BY <1>3, <1>12, <1>13 DEF Types
<1>15. sent'[n] \in [out : 0..SEND_COUNT, in : BOOLEAN]
  <2>1. sent' = [sent EXCEPT ![n] = [sent[n] EXCEPT !.out = sent'[n].out]]
    BY DEF NowInv, NowTypes
  <2>2. sent'[n] = [out |-> sent'[n].out, in |-> sent[n].in]
    BY <1>11, <2>1 DEF NowInv, NowTypes
  <2> QED BY <1>11, <1>14, <2>2
<1>16. sent' = [sent EXCEPT ![n] = sent'[n]]
  BY DEF NowInv, NowTypes
<1>17. NowTypes'
  BY <1>15, <1>16 DEF NowInv, NowTypes
<1>18. Leaves(n, Now!Other(n)) /\ Grows(n)
  BY OtherNode DEF Leaves, Grows, NowInv, NowTypes
<1> QED BY <1>6, <1>9, <1>10, <1>14, <1>17, <1>18, BothKeep

LEMMA FailKeeps ==
  ASSUME NowAssumption, NowInv, NEW n \in Nodes, Now!SendFails(n), UNCHANGED <<param, queue, wifi, peers>>
  PROVE  NowInv'
<1> USE DEF Now!SendFails, Now!Deinit
<1>1. Flow(n) /\ Knows(n) /\ Chain(n) /\ Counted(n)
  BY DEF NowInv
<1>2. task'[n] = "leaving" /\ failed'[n] = TRUE
  BY DEF NowInv, NowTypes
<1>3. Flow(n)' /\ Knows(n)'
  BY <1>1 DEF Flow, Knows, Frames, Events, Hearings, States
<1>4. Chain(n)' /\ Counted(n)'
  BY <1>1, <1>2 DEF Chain, Counted, Done, OneOf, Some
<1>5. NowTypes'
  BY DEF NowInv, NowTypes
<1>6. Leaves(n, Now!Other(n)) /\ Grows(n)
  BY OtherNode DEF Leaves, Grows, NowInv, NowTypes
<1> QED BY <1>3, <1>4, <1>5, <1>6, BothKeep

LEMMA StartKeeps == ASSUME NowAssumption, NowInv, NEW n \in Nodes, Now!StartSending(n) PROVE NowInv'
  BY SendKeeps, FailKeeps DEF Now!StartSending

LEMMA NextKeeps == ASSUME NowAssumption, NowInv, NEW n \in Nodes, Now!SendNext(n) PROVE NowInv'
  BY SendKeeps, FailKeeps DEF Now!SendNext

(* What the task takes out of its queue, and what is under way then.       *)
LEMMA EventTaken ==
  ASSUME NowAssumption, NowInv, NEW n \in Nodes, queue[n] # <<>>
  PROVE  LET e == Head(queue[n])
         IN  /\ e.id = "SEND_CB" => e.type \in Types
             /\ e.id = "RECV_CB" => e \in Hearings(Now!Other(n))
             /\ Tail(queue[n]) \in Seq(Events(n)) /\ Len(Tail(queue[n])) <= QUEUE_SIZE
             /\ \A t \in Types :
                  /\ OneUnderWay(air[n], wifi[n], Tail(queue[n]), t)
                  /\ UnderWay(air[n], wifi[n], Tail(queue[n]), t) <=> Some(n, t) /\ ~(e.id = "SEND_CB" /\ e.type = t)
                  /\ e.id = "SEND_CB" /\ e.type = t => Some(n, t)
<1> DEFINE e == Head(queue[n])
<1>1. Flow(n) /\ OneOf(n, "broadcast") /\ OneOf(n, "unicast")
  BY DEF NowInv, Chain
<1>2. e \in Events(n) /\ Tail(queue[n]) \in Seq(Events(n)) /\ Len(Tail(queue[n])) = Len(queue[n]) - 1
      /\ Len(queue[n]) \in Nat
  BY <1>1, HeadTailProperties DEF Flow
<1>3. \/ \E t \in Types : e = [id |-> "SEND_CB", type |-> t]
      \/ e \in Hearings(Now!Other(n))
  BY <1>2 DEF Events, SentEvent, Types
<1>4. e \in Hearings(Now!Other(n)) => e.id = "RECV_CB"
  BY DEF Hearings
<1> HIDE DEF e
<1>5. /\ e.id = "SEND_CB" => e.type \in Types
      /\ e.id = "RECV_CB" => e \in Hearings(Now!Other(n))
  BY <1>3, <1>4
<1>6. ASSUME NEW t \in Types PROVE e \in SentEvent(t) <=> e.id = "SEND_CB" /\ e.type = t
  <2>1. e \in SentEvent(t) <=> e = [id |-> "SEND_CB", type |-> t]
    BY DEF SentEvent
  <2>2. e = [id |-> "SEND_CB", type |-> t] => e.id = "SEND_CB" /\ e.type = t
    OBVIOUS
  <2>3. ASSUME e.id = "SEND_CB", e.type = t PROVE e = [id |-> "SEND_CB", type |-> t]
    BY <1>3, <1>4, <2>3
  <2> QED BY <2>1, <2>2, <2>3
<1>7. ASSUME NEW t \in Types
      PROVE  /\ OneUnderWay(air[n], wifi[n], Tail(queue[n]), t)
             /\ UnderWay(air[n], wifi[n], Tail(queue[n]), t) <=> Some(n, t) /\ ~(e.id = "SEND_CB" /\ e.type = t)
             /\ e.id = "SEND_CB" /\ e.type = t => Some(n, t)
  <2>1. OneUnderWay(air[n], wifi[n], queue[n], t)
    BY <1>1 DEF OneOf, Types
  <2>2. /\ OneUnderWay(air[n], wifi[n], Tail(queue[n]), t)
        /\ e \in SentEvent(t) => /\ ~UnderWay(air[n], wifi[n], Tail(queue[n]), t)
                                 /\ UnderWay(air[n], wifi[n], queue[n], t)
        /\ e \notin SentEvent(t) => (UnderWay(air[n], wifi[n], Tail(queue[n]), t)
                                      <=> UnderWay(air[n], wifi[n], queue[n], t))
    BY <1>1, <2>1, TakeCounts DEF Flow, e
  <2> QED BY <1>6, <2>2 DEF Some
<1>8. Len(Tail(queue[n])) <= QUEUE_SIZE
  BY <1>1, <1>2 DEF Flow, NowAssumption
<1> QED BY <1>2, <1>5, <1>7, <1>8 DEF e

(* A step of n's task that takes an event and gives no frame to the radio. *)
LEMMA TakingKeeps ==
  ASSUME NowAssumption, NowInv, NEW n \in Nodes, queue[n] # <<>>, queue' = [queue EXCEPT ![n] = Tail(@)],
         UNCHANGED <<wifi, air>>, Grows(n), Leaves(n, Now!Other(n))
  PROVE  /\ Flow(n)' /\ wifi'[Now!Other(n)] = wifi[Now!Other(n)]
         /\ \A t \in Types : /\ OneOf(n, t)'
                             /\ Some(n, t)' <=> UnderWay(air[n], wifi[n], Tail(queue[n]), t)
<1>1. queue'[n] = Tail(queue[n])
  BY DEF NowInv, NowTypes
<1>2. Now!Other(n) \in Nodes /\ \A k \in Nodes : k = n \/ k = Now!Other(n)
  BY OtherNode
<1>3. \A k \in Nodes : Grows(k)
  BY <1>2 DEF Leaves, Grows
<1>4. Flow(n)
  BY DEF NowInv
<1>5. Flow(n)'
  <2>1. Tail(queue[n]) \in Seq(Events(n)) /\ Len(Tail(queue[n])) <= QUEUE_SIZE
    BY EventTaken
  <2>2. Events(n) \subseteq Events(n)' /\ air[n] \in Seq(Frames(n)') /\ wifi[n] \in Seq(Events(n)')
    BY <1>3, <1>4, FlowGrows DEF Flow
  <2>3. Tail(queue[n]) \in Seq(Events(n)')
    BY <2>1, <2>2, Widened
  <2> QED BY <1>1, <2>1, <2>2, <2>3 DEF Flow
<1>6. ASSUME NEW t \in Types PROVE OneOf(n, t)' /\ (Some(n, t)' <=> UnderWay(air[n], wifi[n], Tail(queue[n]), t))
  <2>1. OneUnderWay(air[n], wifi[n], Tail(queue[n]), t)
    BY EventTaken
  <2> QED BY <1>1, <2>1 DEF OneOf, Some
<1> QED BY <1>5, <1>6

LEMMA HandleSendKeeps == ASSUME NowAssumption, NowInv, NEW n \in Nodes, Now!HandleSend(n) PROVE NowInv'
<1> USE DEF Now!HandleSend, Now!Taken, Now!Deinit
<1> DEFINE type == Head(queue[n]).type
           p == IF type = "unicast" THEN [param[n] EXCEPT !.count = @ - 1] ELSE param[n]
<1>1. /\ task[n] = "wait" /\ queue[n] # <<>> /\ Head(queue[n]).id = "SEND_CB"
      /\ queue' = [queue EXCEPT ![n] = Tail(@)] /\ UNCHANGED <<wifi, air, peers, sent, failed>>
  OBVIOUS
<1>2. Flow(n) /\ Knows(n) /\ Chain(n) /\ Counted(n) /\ param[n] \in Now!Params
  BY DEF NowInv, NowTypes
<1>3. type \in Types /\ Some(n, type)
      /\ \A t \in Types : UnderWay(air[n], wifi[n], Tail(queue[n]), t) <=> Some(n, t) /\ type # t
  BY <1>1, EventTaken
<1>4. \/ type = "broadcast" /\ ~param[n].broadcast /\ UNCHANGED <<task, param>>
      \/ /\ type = "broadcast" /\ param[n].broadcast /\ task' = [task EXCEPT ![n] = "delay"]
         /\ param' = [param EXCEPT ![n] = [param[n] EXCEPT !.dest_mac = Now!BROADCAST]]
      \/ /\ type = "unicast" /\ p.count = 0 /\ task' = [task EXCEPT ![n] = "leaving"]
         /\ param' = [param EXCEPT ![n] = p]
      \/ /\ type = "unicast" /\ p.count # 0 /\ task' = [task EXCEPT ![n] = "delay"]
         /\ param' = [param EXCEPT ![n] = [p EXCEPT !.dest_mac = Now!Other(n)]]
  BY <1>3 DEF Types
<1>5. "broadcast" \in Types /\ "unicast" \in Types /\ "broadcast" # "unicast"
  BY DEF Types
<1>6. /\ sent[n] \in [out : 0..SEND_COUNT, in : BOOLEAN] /\ param[n].count \in 0..SEND_COUNT
      /\ SEND_COUNT \in Nat \ {0}
  BY DEF NowInv, NowTypes, Now!Params, NowAssumption
<1>7. ASSUME type = "unicast"
      PROVE  /\ param[n].unicast /\ param[n].count \in 1..SEND_COUNT
             /\ p = [param[n] EXCEPT !.count = param[n].count - 1]
             /\ sent[n].out + param[n].count = SEND_COUNT + 1
  BY <1>2, <1>3, <1>6, <1>7 DEF Chain, Counted, Done
<1> DEFINE c == IF type = "unicast" THEN param[n].count - 1 ELSE param[n].count
<1>8. c \in 0..SEND_COUNT /\ p.count = c
  BY <1>2, <1>6, <1>7 DEF Now!Params
<1>9. /\ param'[n] \in Now!Params /\ param'[n].unicast = param[n].unicast /\ param'[n].broadcast = param[n].broadcast
      /\ param'[n].state = param[n].state /\ param'[n].magic = param[n].magic /\ param'[n].count = c
  <2>1. \E d \in {Now!BROADCAST} \cup Nodes :
          param'[n] = [unicast |-> param[n].unicast, broadcast |-> param[n].broadcast, state |-> param[n].state,
                       magic |-> param[n].magic, count |-> c, dest_mac |-> d]
    <3>1. param[n] = [unicast |-> param[n].unicast, broadcast |-> param[n].broadcast, state |-> param[n].state,
                      magic |-> param[n].magic, count |-> param[n].count, dest_mac |-> param[n].dest_mac]
          /\ param[n].dest_mac \in {Now!BROADCAST} \cup Nodes
      BY <1>2 DEF Now!Params
    <3>2. Now!Other(n) \in Nodes
      BY OtherNode
    <3>3. param \in [Nodes -> Now!Params]
      BY DEF NowInv, NowTypes
    <3>4. CASE UNCHANGED param /\ type = "broadcast"
      BY <3>1, <3>4
    <3>5. CASE type = "broadcast" /\ param' = [param EXCEPT ![n] = [param[n] EXCEPT !.dest_mac = Now!BROADCAST]]
      BY <3>1, <3>3, <3>5
    <3>6. CASE type = "unicast" /\ param' = [param EXCEPT ![n] = p]
      BY <3>1, <3>3, <3>6
    <3>7. CASE type = "unicast" /\ param' = [param EXCEPT ![n] = [p EXCEPT !.dest_mac = Now!Other(n)]]
      BY <3>1, <3>2, <3>3, <3>7
    <3> HIDE DEF p, type
    <3> QED BY <1>4, <3>4, <3>5, <3>6, <3>7
  <2>2. /\ param[n].unicast \in BOOLEAN /\ param[n].broadcast \in BOOLEAN /\ param[n].state \in {0, 1}
        /\ param[n].magic \in Nat
    BY <1>2 DEF Now!Params
  <2> HIDE DEF c
  <2> QED BY <1>8, <2>1, <2>2 DEF Now!Params
<1>10. task' = [task EXCEPT ![n] = task'[n]] /\ param' = [param EXCEPT ![n] = param'[n]]
       /\ task'[n] \in {"wait", "delay", "leaving"}
  BY <1>1, <1>4 DEF NowInv, NowTypes
<1> HIDE DEF Now!HandleSend, Now!Taken, Now!Deinit, p, c
<1>11. Leaves(n, Now!Other(n)) /\ Grows(n)
  BY <1>1, <1>9, <1>10, OtherNode DEF Leaves, Grows, NowInv, NowTypes
<1>12. /\ Flow(n)' /\ wifi'[Now!Other(n)] = wifi[Now!Other(n)]
       /\ \A t \in Types : OneOf(n, t)' /\ (Some(n, t)' <=> Some(n, t) /\ type # t)
  BY <1>1, <1>3, <1>11, TakingKeeps
<1> HIDE DEF type
<1>13. Knows(n)'
  BY <1>1, <1>2, <1>9, <1>11, OtherNode DEF Knows, Leaves
<1>14. NowTypes'
  BY <1>1, <1>9, <1>10 DEF NowInv, NowTypes
<1>15. sent'[n] = sent[n] /\ failed'[n] = failed[n]
  BY <1>1
<1>16. CASE type = "broadcast" /\ UNCHANGED <<task, param>>
  <2>1. Some(n, "unicast")' <=> Some(n, "unicast")
    BY <1>5, <1>12, <1>16
  <2>2. Chain(n)'
    BY <1>1, <1>2, <1>5, <1>12, <1>16, <2>1 DEF Chain
  <2>3. Counted(n)'
    BY <1>1, <1>2, <1>15, <1>16, <2>1 DEF Counted, Done
  <2> QED BY <1>11, <1>12, <1>13, <1>14, <2>2, <2>3, BothKeep
<1>17. CASE /\ type = "broadcast" /\ param[n].broadcast /\ task' = [task EXCEPT ![n] = "delay"]
            /\ param' = [param EXCEPT ![n] = [param[n] EXCEPT !.dest_mac = Now!BROADCAST]]
  <2>1. ~param[n].unicast /\ ~Some(n, "unicast") /\ ~Some(n, "unicast")' /\ ~Some(n, "broadcast")'
    BY <1>2, <1>5, <1>12, <1>17 DEF Chain
  <2>2. task'[n] = "delay" /\ param'[n].dest_mac = Now!BROADCAST
    BY <1>2, <1>17 DEF NowInv, NowTypes, Now!Params
  <2>3. Chain(n)'
    BY <1>5, <1>9, <1>12, <2>1, <2>2 DEF Chain
  <2>4. param'[n].count = param[n].count
    BY <1>5, <1>9, <1>17 DEF c
  <2>5. Counted(n)'
    BY <1>1, <1>2, <1>9, <1>15, <2>1, <2>2, <2>4 DEF Counted, Done
  <2> QED BY <1>11, <1>12, <1>13, <1>14, <2>3, <2>5, BothKeep
<1>18. CASE /\ type = "unicast" /\ p.count = 0 /\ task' = [task EXCEPT ![n] = "leaving"]
            /\ param' = [param EXCEPT ![n] = p]
  <2>1. param[n].unicast /\ ~Some(n, "unicast")' /\ param[n].unicast /\ ~param[n].broadcast
    BY <1>2, <1>5, <1>7, <1>12, <1>18 DEF Chain
  <2>2. task'[n] = "leaving" /\ param'[n].count = 0
    BY <1>8, <1>9, <1>18 DEF NowInv, NowTypes
  <2>3. Chain(n)'
    BY <1>5, <1>9, <1>12, <2>1, <2>2 DEF Chain
  <2>4. sent[n].out = SEND_COUNT
    BY <1>6, <1>7, <1>8, <1>18 DEF c
  <2>5. Counted(n)'
    BY <1>6, <1>9, <1>15, <2>1, <2>2, <2>4 DEF Counted, Done
  <2> QED BY <1>11, <1>12, <1>13, <1>14, <2>3, <2>5, BothKeep
<1>19. CASE /\ type = "unicast" /\ p.count # 0 /\ task' = [task EXCEPT ![n] = "delay"]
            /\ param' = [param EXCEPT ![n] = [p EXCEPT !.dest_mac = Now!Other(n)]]
  <2>1. param[n].unicast /\ ~Some(n, "unicast")' /\ ~param[n].broadcast
    BY <1>2, <1>5, <1>7, <1>12, <1>19 DEF Chain
  <2>2. task'[n] = "delay"
    BY <1>19 DEF NowInv, NowTypes
  <2>3. param'[n].dest_mac = Now!Other(n) /\ Now!Other(n) # Now!BROADCAST
    <3>1. param'[n] = [p EXCEPT !.dest_mac = Now!Other(n)] /\ p = [param[n] EXCEPT !.count = param[n].count - 1]
      BY <1>7, <1>19 DEF NowInv, NowTypes
    <3>2. param[n] \in [unicast : BOOLEAN, broadcast : BOOLEAN, state : {0, 1}, magic : Nat,
                        count : 0..SEND_COUNT, dest_mac : {Now!BROADCAST} \cup Nodes]
      BY <1>2 DEF Now!Params
    <3>3. param'[n].dest_mac = Now!Other(n)
      BY <3>1, <3>2
    <3> QED BY <3>3, OtherNode DEF NowAssumption
  <2>4. param'[n].count = param[n].count - 1 /\ param'[n].count > 0
    BY <1>5, <1>6, <1>8, <1>9, <1>19 DEF c
  <2>5. Chain(n)'
    BY <1>5, <1>9, <1>12, <2>1, <2>2, <2>3, <2>4 DEF Chain
  <2>6. Counted(n)'
    BY <1>6, <1>7, <1>9, <1>15, <1>19, <2>1, <2>2, <2>4 DEF Counted, Done
  <2> QED BY <1>11, <1>12, <1>13, <1>14, <2>5, <2>6, BothKeep
<1> QED BY <1>4, <1>16, <1>17, <1>18, <1>19

LEMMA HandleOtherKeeps == ASSUME NowAssumption, NowInv, NEW n \in Nodes, Now!HandleOther(n) PROVE NowInv'
<1> USE DEF Now!HandleOther, Now!Taken
<1>1. /\ task[n] = "wait" /\ queue[n] # <<>> /\ Head(queue[n]).id = "RECV_CB"
      /\ queue' = [queue EXCEPT ![n] = Tail(@)] /\ UNCHANGED <<task, wifi, air, peers, failed>>
  OBVIOUS
<1>2. Flow(n) /\ Knows(n) /\ Chain(n) /\ Counted(n) /\ param[n] \in Now!Params
      /\ sent[n] \in [out : 0..SEND_COUNT, in : BOOLEAN]
  BY DEF NowInv, NowTypes
<1>3. \/ /\ param' = [param EXCEPT ![n] = Now!Silenced(@)] /\ sent' = [sent EXCEPT ![n].in = TRUE]
      \/ UNCHANGED <<param, sent>>
  OBVIOUS
<1>4. /\ param'[n] \in Now!Params /\ param'[n].unicast = param[n].unicast
      /\ param'[n].broadcast \in {param[n].broadcast, FALSE}
      /\ param'[n].state = param[n].state /\ param'[n].magic = param[n].magic /\ param'[n].count = param[n].count
      /\ param'[n].dest_mac = param[n].dest_mac
  <2>1. param \in [Nodes -> Now!Params]
    BY DEF NowInv, NowTypes
  <2>2. CASE param' = [param EXCEPT ![n] = Now!Silenced(@)]
    <3>1. param'[n] = [unicast |-> param[n].unicast, broadcast |-> FALSE, state |-> param[n].state,
                       magic |-> param[n].magic, count |-> param[n].count, dest_mac |-> param[n].dest_mac]
      BY <1>2, <2>1, <2>2 DEF Now!Silenced, Now!Params
    <3> QED BY <1>2, <3>1 DEF Now!Params
  <2>3. CASE UNCHANGED param
    BY <1>2, <2>3
  <2> QED BY <1>3, <2>2, <2>3
<1>5. sent'[n].out = sent[n].out /\ sent'[n] \in [out : 0..SEND_COUNT, in : BOOLEAN]
  <2>1. CASE sent' = [sent EXCEPT ![n].in = TRUE]
    <3>1. sent'[n] = [out |-> sent[n].out, in |-> TRUE]
      BY <1>2, <2>1 DEF NowInv, NowTypes
    <3> QED BY <1>2, <3>1
  <2>2. CASE UNCHANGED sent
    BY <1>2, <2>2
  <2> QED BY <1>3, <2>1, <2>2
<1>6. param' = [param EXCEPT ![n] = param'[n]] /\ sent' = [sent EXCEPT ![n] = sent'[n]]
  BY <1>3 DEF NowInv, NowTypes
<1> HIDE DEF Now!HandleOther, Now!Taken
<1>7. Leaves(n, Now!Other(n)) /\ Grows(n)
  BY <1>1, <1>4, <1>6, OtherNode DEF Leaves, Grows, NowInv, NowTypes
<1>8. /\ Flow(n)' /\ wifi'[Now!Other(n)] = wifi[Now!Other(n)]
      /\ \A t \in Types : OneOf(n, t)' /\ (Some(n, t)' <=> Some(n, t))
  BY <1>1, <1>7, TakingKeeps, EventTaken
<1>9. "broadcast" \in Types /\ "unicast" \in Types
  BY DEF Types
<1>10. Knows(n)'
  BY <1>1, <1>2, <1>4, <1>7, OtherNode DEF Knows, Leaves
<1>11. NowTypes'
  BY <1>1, <1>4, <1>5, <1>6 DEF NowInv, NowTypes
<1>12. param[n].unicast => ~param'[n].broadcast
  BY <1>2, <1>4 DEF Chain
<1>13. Chain(n)'
  BY <1>1, <1>2, <1>4, <1>8, <1>9, <1>12 DEF Chain
<1>14. Counted(n)'
  BY <1>1, <1>2, <1>4, <1>5, <1>8, <1>9 DEF Counted, Done
<1> QED BY <1>7, <1>8, <1>10, <1>11, <1>13, <1>14, BothKeep

(* The four ends of HandleBroadcast.                                       *)
Known(n) == peers' = [peers EXCEPT ![n] = @ \cup {Now!Other(n)}]
NoPeer(n) == Now!SendFails(n) /\ UNCHANGED <<param, peers>>
Heard(n) == /\ Known(n) /\ param' = [param EXCEPT ![n] = [@ EXCEPT !.state = 1]]
            /\ UNCHANGED <<task, air, sent, failed>>
Begins(n) == /\ Known(n) /\ Now!Send(n, [param[n] EXCEPT !.state = 1, !.dest_mac = Now!Other(n)])
             /\ UNCHANGED task
             /\ param' = [param EXCEPT ![n] = [@ EXCEPT !.state = 1, !.dest_mac = Now!Other(n),
                                                        !.broadcast = FALSE, !.unicast = TRUE]]
NoMemory(n) == /\ Known(n) /\ Now!SendFails(n)
               /\ param' = [param EXCEPT ![n] = [@ EXCEPT !.state = 1, !.dest_mac = Now!Other(n)]]
(* What the magic number and the state in a broadcast have told n.         *)
MayBegin(n) == /\ ~param[n].unicast /\ n \in peers[Now!Other(n)]
               /\ param[n].magic >= param[Now!Other(n)].magic

LEMMA BroadcastEnds ==
  ASSUME NowAssumption, NowInv, NEW n \in Nodes, Now!HandleBroadcast(n)
  PROVE  /\ task[n] = "wait" /\ queue[n] # <<>> /\ Head(queue[n]).id = "RECV_CB"
         /\ queue' = [queue EXCEPT ![n] = Tail(@)] /\ wifi' = wifi
         /\ \/ NoPeer(n)
            \/ Heard(n)
            \/ Begins(n) /\ MayBegin(n)
            \/ NoMemory(n) /\ MayBegin(n)
<1> DEFINE f == Head(queue[n])
           p == [param[n] EXCEPT !.state = 1]
           u == [p EXCEPT !.dest_mac = f.from]
<1>1. /\ task[n] = "wait" /\ queue[n] # <<>> /\ f.id = "RECV_CB"
      /\ queue' = [queue EXCEPT ![n] = Tail(@)] /\ wifi' = wifi
  BY DEF Now!HandleBroadcast, Now!Taken
<1>2. f \in Hearings(Now!Other(n)) /\ Now!Other(n) \in Nodes
  BY <1>1, EventTaken, OtherNode
<1>3. f.from = Now!Other(n)
  BY <1>2 DEF Hearings
<1>4. \/ Now!SendFails(n) /\ UNCHANGED <<param, peers>>
      \/ /\ peers' = [peers EXCEPT ![n] = @ \cup {f.from}]
         /\ \/ param' = [param EXCEPT ![n] = p] /\ UNCHANGED <<task, air, sent, failed>>
            \/ /\ Now!StartsUnicast(p, f) /\ Now!Send(n, u) /\ UNCHANGED task
               /\ param' = [param EXCEPT ![n] = [u EXCEPT !.broadcast = FALSE, !.unicast = TRUE]]
            \/ Now!StartsUnicast(p, f) /\ Now!SendFails(n) /\ param' = [param EXCEPT ![n] = u]
  BY DEF Now!HandleBroadcast
<1>5. ASSUME Now!StartsUnicast(p, f) PROVE MayBegin(n)
  <2>1. param[n] \in Now!Params /\ param[Now!Other(n)] \in Now!Params /\ Knows(Now!Other(n))
    BY <1>2 DEF NowInv, NowTypes
  <2>2. f.state = 1 /\ ~param[n].unicast /\ param[n].magic >= f.magic
    BY <1>5, <2>1 DEF Now!StartsUnicast, Now!Params
  <2>3. f.magic = param[Now!Other(n)].magic /\ f.state \in States(Now!Other(n))
    BY <1>2 DEF Hearings
  <2>4. param[Now!Other(n)].state = 1
    BY <2>2, <2>3 DEF States
  <2> QED BY <2>1, <2>2, <2>3, <2>4, OtherNode DEF MayBegin, Knows
<1>6. /\ u = [param[n] EXCEPT !.state = 1, !.dest_mac = Now!Other(n)]
      /\ [u EXCEPT !.broadcast = FALSE, !.unicast = TRUE]
           = [param[n] EXCEPT !.state = 1, !.dest_mac = Now!Other(n), !.broadcast = FALSE, !.unicast = TRUE]
  BY <1>3
<1> HIDE DEF f, u
<1>7. param \in [Nodes -> Now!Params]
  BY DEF NowInv, NowTypes
<1>8. CASE Now!SendFails(n) /\ UNCHANGED <<param, peers>>
  BY <1>1, <1>8 DEF NoPeer, f
<1>9. CASE /\ peers' = [peers EXCEPT ![n] = @ \cup {f.from}]
           /\ param' = [param EXCEPT ![n] = p] /\ UNCHANGED <<task, air, sent, failed>>
  <2>1. Heard(n)
    BY <1>3, <1>9 DEF Heard, Known
  <2> QED BY <1>1, <2>1 DEF f
<1>10. CASE /\ peers' = [peers EXCEPT ![n] = @ \cup {f.from}]
            /\ Now!StartsUnicast(p, f) /\ Now!Send(n, u) /\ UNCHANGED task
            /\ param' = [param EXCEPT ![n] = [u EXCEPT !.broadcast = FALSE, !.unicast = TRUE]]
  <2>1. Begins(n)
    BY <1>3, <1>6, <1>10 DEF Begins, Known
  <2> QED BY <1>1, <1>5, <1>10, <2>1 DEF f
<1>11. CASE /\ peers' = [peers EXCEPT ![n] = @ \cup {f.from}]
            /\ Now!StartsUnicast(p, f) /\ Now!SendFails(n) /\ param' = [param EXCEPT ![n] = u]
  <2>1. NoMemory(n)
    BY <1>3, <1>6, <1>11 DEF NoMemory, Known
  <2> QED BY <1>1, <1>5, <1>11, <2>1 DEF f
<1> QED BY <1>4, <1>8, <1>9, <1>10, <1>11

(* A broadcast heard.                                                      *)
LEMMA HearingKeeps ==
  ASSUME NowAssumption, NowInv, NEW n \in Nodes, task[n] = "wait", queue[n] # <<>>, Head(queue[n]).id = "RECV_CB",
         queue' = [queue EXCEPT ![n] = Tail(@)], wifi' = wifi, NoPeer(n) \/ Heard(n) \/ NoMemory(n)
  PROVE  NowInv'
<1>1. Flow(n) /\ Knows(n) /\ Chain(n) /\ Counted(n) /\ param[n] \in Now!Params
  BY DEF NowInv, NowTypes
<1>2. /\ \/ task'[n] = "wait" /\ UNCHANGED <<task, failed>>
         \/ task'[n] = "leaving" /\ failed'[n] = TRUE
      /\ task' = [task EXCEPT ![n] = task'[n]] /\ failed' = [failed EXCEPT ![n] = failed'[n]]
      /\ UNCHANGED <<air, sent>>
  BY DEF NoPeer, Heard, NoMemory, Now!SendFails, Now!Deinit, NowInv, NowTypes
<1>3. \/ UNCHANGED param /\ UNCHANGED peers
      \/ Known(n) /\ param' = [param EXCEPT ![n] = [@ EXCEPT !.state = 1]]
      \/ /\ Known(n) /\ param' = [param EXCEPT ![n] = [@ EXCEPT !.state = 1, !.dest_mac = Now!Other(n)]]
         /\ task'[n] = "leaving"
  BY DEF NoPeer, Heard, NoMemory, Now!SendFails, Now!Deinit, NowInv, NowTypes
<1>4. /\ param'[n] \in Now!Params /\ param'[n].unicast = param[n].unicast /\ param'[n].broadcast = param[n].broadcast
      /\ param'[n].state \in {1, param[n].state} /\ param'[n].magic = param[n].magic
      /\ param'[n].count = param[n].count
      /\ param'[n].dest_mac = param[n].dest_mac \/ task'[n] = "leaving"
      /\ param' = [param EXCEPT ![n] = param'[n]]
  <2>1. param \in [Nodes -> Now!Params] /\ Now!Other(n) \in Nodes
    BY OtherNode DEF NowInv, NowTypes
  <2>2. CASE UNCHANGED param /\ UNCHANGED peers
    BY <1>1, <2>1, <2>2
  <2>3. CASE param' = [param EXCEPT ![n] = [@ EXCEPT !.state = 1]]
    <3>1. param'[n] = [unicast |-> param[n].unicast, broadcast |-> param[n].broadcast, state |-> 1,
                       magic |-> param[n].magic, count |-> param[n].count, dest_mac |-> param[n].dest_mac]
      BY <1>1, <2>1, <2>3 DEF Now!Params
    <3>2. param' = [param EXCEPT ![n] = param'[n]]
      BY <2>1, <2>3
    <3> QED BY <1>1, <3>1, <3>2 DEF Now!Params
  <2>4. CASE /\ param' = [param EXCEPT ![n] = [@ EXCEPT !.state = 1, !.dest_mac = Now!Other(n)]]
             /\ task'[n] = "leaving"
    <3>1. param'[n] = [unicast |-> param[n].unicast, broadcast |-> param[n].broadcast, state |-> 1,
                       magic |-> param[n].magic, count |-> param[n].count, dest_mac |-> Now!Other(n)]
      BY <1>1, <2>1, <2>4 DEF Now!Params
    <3>2. param' = [param EXCEPT ![n] = param'[n]]
      BY <2>1, <2>4
    <3> QED BY <1>1, <2>1, <2>4, <3>1, <3>2 DEF Now!Params
  <2> QED BY <1>3, <2>2, <2>3, <2>4
<1>5. /\ peers' \in [Nodes -> SUBSET Nodes] /\ \A k \in Nodes : peers'[k] \subseteq {Now!Other(k)}
      /\ peers' = [peers EXCEPT ![n] = peers'[n]] /\ peers[n] \subseteq peers'[n]
      /\ UNCHANGED param \/ Now!Other(n) \in peers'[n]
  <2>1. peers \in [Nodes -> SUBSET Nodes] /\ \A k \in Nodes : peers[k] \subseteq {Now!Other(k)}
    BY DEF NowInv, NowTypes
  <2>2. CASE Known(n)
    BY <2>1, <2>2, OtherNode DEF Known
  <2>3. CASE UNCHANGED param /\ UNCHANGED peers
    BY <2>1, <2>3
  <2> QED BY <1>3, <2>2, <2>3
<1>6. Leaves(n, Now!Other(n)) /\ Grows(n)
  <2>1. param'[n].magic = param[n].magic /\ (param[n].state = 1 => param'[n].state = 1)
    BY <1>4
  <2> QED BY <1>2, <1>4, <1>5, <2>1, OtherNode DEF Leaves, Grows, NowInv, NowTypes
<1>7. /\ Flow(n)' /\ wifi'[Now!Other(n)] = wifi[Now!Other(n)]
      /\ \A t \in Types : OneOf(n, t)' /\ (Some(n, t)' <=> Some(n, t))
  BY <1>2, <1>6, TakingKeeps, EventTaken
<1>8. "broadcast" \in Types /\ "unicast" \in Types
  BY DEF Types
<1>9. Knows(n)'
  <2>1. param'[n].state = 1 => Now!Other(n) \in peers'[n]
    BY <1>1, <1>5 DEF Knows
  <2> QED BY <1>1, <1>4, <1>6, <2>1, OtherNode DEF Knows, Leaves
<1>10. NowTypes'
  <2>1. NowTypes
    BY DEF NowInv
  <2>2. failed' \in [Nodes -> BOOLEAN]
    <3>1. failed'[n] \in BOOLEAN
      BY <1>2, <2>1 DEF NowTypes
    <3> QED BY <1>2, <2>1, <3>1 DEF NowTypes
  <2>3. task' \in [Nodes -> {"start", "wait", "delay", "leaving", "gone"}]
    BY <1>2, <2>1 DEF NowTypes
  <2>4. param' \in [Nodes -> Now!Params]
    BY <1>4, <2>1 DEF NowTypes
  <2>5. queue' = [k \in Nodes |-> queue'[k]]
    BY <2>1 DEF NowTypes
  <2> QED BY <1>2, <1>5, <2>1, <2>2, <2>3, <2>4, <2>5 DEF NowTypes
<1>11. Chain(n)'
  <2>1. CASE task'[n] = "wait"
    BY <1>1, <1>4, <1>7, <1>8, <2>1 DEF Chain
  <2>2. CASE task'[n] = "leaving"
    BY <1>1, <1>4, <1>7, <1>8, <2>2 DEF Chain
  <2> QED BY <1>2, <2>1, <2>2
<1>12. Counted(n)'
  BY <1>1, <1>2, <1>4, <1>7, <1>8 DEF Counted, Done
<1> QED BY <1>6, <1>7, <1>9, <1>10, <1>11, <1>12, BothKeep

(* The first unicast frame.                                                *)
LEMMA BeginKeeps ==
  ASSUME NowAssumption, NowInv, NEW n \in Nodes, task[n] = "wait", queue[n] # <<>>, Head(queue[n]).id = "RECV_CB",
         queue' = [queue EXCEPT ![n] = Tail(@)], wifi' = wifi, Begins(n), MayBegin(n)
  PROVE  NowInv'
<1> DEFINE v == [param[n] EXCEPT !.state = 1, !.dest_mac = Now!Other(n)]
           f == Now!Prepared(v)
<1>1. Flow(n) /\ Knows(n) /\ Chain(n) /\ Counted(n) /\ param[n] \in Now!Params /\ param \in [Nodes -> Now!Params]
      /\ sent[n] \in [out : 0..SEND_COUNT, in : BOOLEAN] /\ Now!Other(n) \in Nodes /\ Now!Other(n) # n
      /\ Now!Other(n) # Now!BROADCAST /\ SEND_COUNT \in Nat \ {0}
  <2>1. Flow(n) /\ Knows(n) /\ Chain(n) /\ Counted(n)
    BY DEF NowInv
  <2>2. param[n] \in Now!Params /\ param \in [Nodes -> Now!Params] /\ sent[n] \in [out : 0..SEND_COUNT, in : BOOLEAN]
    BY DEF NowInv, NowTypes
  <2>3. Now!Other(n) \in Nodes /\ Now!Other(n) # n
    BY OtherNode
  <2>4. Now!Other(n) # Now!BROADCAST /\ SEND_COUNT \in Nat \ {0}
    BY <2>3 DEF NowAssumption
  <2> QED BY <2>1, <2>2, <2>3, <2>4
<1>2. /\ param'[n] = [unicast |-> TRUE, broadcast |-> FALSE, state |-> 1, magic |-> param[n].magic,
                      count |-> param[n].count, dest_mac |-> Now!Other(n)]
      /\ param' = [param EXCEPT ![n] = param'[n]]
  BY <1>1 DEF Begins, Now!Params
<1>3. param'[n] \in Now!Params
  BY <1>1, <1>2 DEF Now!Params
<1>4. v.dest_mac = Now!Other(n) /\ v.state = 1 /\ v.magic = param[n].magic
  BY <1>1 DEF Now!Params
<1>5. f = [type |-> "unicast", state |-> 1, magic |-> param[n].magic]
  BY <1>1, <1>4 DEF Now!Prepared
<1>6. /\ air' = [air EXCEPT ![n] = Append(@, f)] /\ UNCHANGED <<failed, task>>
      /\ sent' = [sent EXCEPT ![n].out = @ + 1]
      /\ peers' = [peers EXCEPT ![n] = @ \cup {Now!Other(n)}]
  BY <1>1, <1>4 DEF Begins, Known, Now!Send
<1> HIDE DEF v, f
<1>7. sent[n].out = 0 /\ param[n].count = SEND_COUNT /\ ~Some(n, "unicast") /\ ~param[n].unicast
  BY <1>1 DEF MayBegin, Counted, Done, Chain
<1>8. /\ sent'[n] = [out |-> 1, in |-> sent[n].in] /\ sent' = [sent EXCEPT ![n] = sent'[n]]
  BY <1>1, <1>6, <1>7 DEF NowInv, NowTypes
<1>9. /\ air'[n] = Append(air[n], f) /\ queue'[n] = Tail(queue[n]) /\ wifi'[n] = wifi[n]
      /\ peers'[n] = peers[n] \cup {Now!Other(n)}
  BY <1>6 DEF NowInv, NowTypes
<1>10. Leaves(n, Now!Other(n)) /\ Grows(n) /\ wifi'[Now!Other(n)] = wifi[Now!Other(n)]
  <2>1. param'[n].magic = param[n].magic /\ param'[n].state = 1
    BY <1>2
  <2>2. param'[Now!Other(n)] = param[Now!Other(n)]
    BY <1>1, <1>2
  <2>3. sent'[Now!Other(n)] = sent[Now!Other(n)]
    BY <1>1, <1>6 DEF NowInv, NowTypes
  <2> QED BY <1>1, <1>6, <1>9, <2>1, <2>2, <2>3 DEF Leaves, Grows, NowInv, NowTypes
<1>11. \A k \in Nodes : Grows(k)
  <2>1. \A k \in Nodes : k = n \/ k = Now!Other(n)
    BY OtherNode
  <2>2. Grows(Now!Other(n))
    BY <1>10 DEF Leaves, Grows
  <2> QED BY <1>10, <2>1, <2>2
<1>12. f \in Frames(n)' /\ f \in AnyFrame /\ f.type = "unicast" /\ "unicast" \in Types /\ "broadcast" \in Types
  <2>1. 1 \in States(n)' /\ param'[n].magic = param[n].magic /\ param[n].magic \in Nat
    BY <1>1, <1>2 DEF States, Now!Params
  <2> QED BY <1>5, <2>1 DEF Frames, AnyFrame, Types
<1>13. Flow(n)'
  <2>1. Tail(queue[n]) \in Seq(Events(n)) /\ Len(Tail(queue[n])) <= QUEUE_SIZE
    BY EventTaken
  <2>2. Events(n) \subseteq Events(n)' /\ air[n] \in Seq(Frames(n)') /\ wifi[n] \in Seq(Events(n)')
    BY <1>1, <1>11, FlowGrows DEF Flow
  <2>3. Tail(queue[n]) \in Seq(Events(n)')
    BY <2>1, <2>2, Widened
  <2>4. Append(air[n], f) \in Seq(Frames(n)')
    BY <1>12, <2>2, AppendProperties
  <2> QED BY <1>9, <2>1, <2>2, <2>3, <2>4 DEF Flow
<1>14. ASSUME NEW t \in Types PROVE OneOf(n, t)' /\ (Some(n, t)' <=> t = "unicast" \/ Some(n, t))
  <2>1. /\ OneUnderWay(air[n], wifi[n], Tail(queue[n]), t)
        /\ UnderWay(air[n], wifi[n], Tail(queue[n]), t) <=> Some(n, t)
    BY EventTaken
  <2>2. Frames(n) \subseteq AnyFrame
    BY <1>1 DEF Frames, AnyFrame, States, Now!Params
  <2>3. air[n] \in Seq(AnyFrame) /\ wifi[n] \in Seq(Events(n)) /\ Tail(queue[n]) \in Seq(Events(n))
    BY <1>1, <2>2, Widened, EventTaken DEF Flow
  <2>4. /\ UnderWay(Append(air[n], f), wifi[n], Tail(queue[n]), t)
             <=> f.type = t \/ UnderWay(air[n], wifi[n], Tail(queue[n]), t)
        /\ f.type # t \/ ~UnderWay(air[n], wifi[n], Tail(queue[n]), t)
             => OneUnderWay(Append(air[n], f), wifi[n], Tail(queue[n]), t)
    BY <1>12, <2>1, <2>3, SendCounts
  <2>5. f.type # t \/ ~UnderWay(air[n], wifi[n], Tail(queue[n]), t)
    BY <1>7, <1>12, <2>1
  <2>6. OneUnderWay(air'[n], wifi'[n], queue'[n], t)
        /\ (UnderWay(air'[n], wifi'[n], queue'[n], t) <=> t = "unicast" \/ Some(n, t))
    BY <1>9, <1>12, <2>1, <2>4, <2>5
  <2> QED BY <2>6 DEF OneOf, Some
<1>15. Knows(n)'
  BY <1>2, <1>9, <1>10 DEF Knows, Leaves, MayBegin
<1>16. Chain(n)'
  <2>1. OneOf(n, "broadcast")' /\ OneOf(n, "unicast")'
    BY <1>12, <1>14
  <2>2. task'[n] = "wait" /\ param'[n].unicast /\ ~param'[n].broadcast
    BY <1>2, <1>6
  <2> QED BY <2>1, <2>2 DEF Chain
<1>17. Counted(n)'
  <2>1. Some(n, "unicast")' /\ task'[n] = "wait"
    BY <1>6, <1>12, <1>14
  <2>2. param'[n].unicast /\ param'[n].count = SEND_COUNT /\ sent'[n].out = 1
    BY <1>2, <1>7, <1>8
  <2> QED BY <1>1, <2>1, <2>2 DEF Counted, Done
<1>18. NowTypes'
  <2>1. NowTypes
    BY DEF NowInv
  <2>2. sent' \in [Nodes -> [out : 0..SEND_COUNT, in : BOOLEAN]]
    <3>1. sent'[n] \in [out : 0..SEND_COUNT, in : BOOLEAN]
      BY <1>1, <1>8
    <3> QED BY <1>8, <2>1, <3>1 DEF NowTypes
  <2>3. param' \in [Nodes -> Now!Params]
    BY <1>2, <1>3, <2>1 DEF NowTypes
  <2>4. peers' \in [Nodes -> SUBSET Nodes] /\ \A k \in Nodes : peers'[k] \subseteq {Now!Other(k)}
    BY <1>1, <1>6, <2>1 DEF NowTypes
  <2>5. air' = [k \in Nodes |-> air'[k]] /\ queue' = [k \in Nodes |-> queue'[k]]
    BY <1>6, <2>1 DEF NowTypes
  <2> QED BY <1>6, <2>1, <2>2, <2>3, <2>4, <2>5 DEF NowTypes
<1> QED BY <1>10, <1>13, <1>15, <1>16, <1>17, <1>18, BothKeep

LEMMA HandleBroadcastKeeps == ASSUME NowAssumption, NowInv, NEW n \in Nodes, Now!HandleBroadcast(n) PROVE NowInv'
  BY BroadcastEnds, HearingKeeps, BeginKeeps

(* The end of example_espnow_deinit, or a panic before it: the device is   *)
(* off, and nothing of it is under way.                                    *)
LEMMA OffKeeps ==
  ASSUME NowAssumption, NowInv, NEW n \in Nodes, task[n] = "leaving", Now!Off(n), UNCHANGED <<param, peers, sent>>,
         failed' \in [Nodes -> BOOLEAN], failed' = [failed EXCEPT ![n] = failed'[n]],
         failed'[n] = failed[n] \/ failed'[n] = TRUE
  PROVE  NowInv'
<1> USE DEF Now!Off
<1>1. Flow(n) /\ Knows(n) /\ Chain(n) /\ Counted(n)
  BY DEF NowInv
<1>2. task'[n] = "gone" /\ air'[n] = <<>> /\ wifi'[n] = <<>> /\ queue'[n] = <<>>
  BY DEF NowInv, NowTypes
<1>3. Flow(n)' /\ Knows(n)'
  <2>1. <<>> \in Seq(Frames(n)') /\ <<>> \in Seq(Events(n)') /\ Len(<<>>) <= QUEUE_SIZE
    BY DEF NowAssumption
  <2> QED BY <1>1, <1>2, <2>1 DEF Flow, Knows
<1>4. \A S : ~Has(<<>>, S) /\ Once(<<>>, S)
  BY DEF Has, Once
<1>5. \A t : OneOf(n, t)' /\ ~Some(n, t)'
  BY <1>2, <1>4 DEF OneOf, Some, OneUnderWay, UnderWay
<1>6. Chain(n)' /\ Counted(n)'
  BY <1>1, <1>2, <1>5 DEF Chain, Counted, Done
<1>7. NowTypes'
  BY DEF NowInv, NowTypes
<1>8. Leaves(n, Now!Other(n)) /\ Grows(n) /\ wifi'[Now!Other(n)] = wifi[Now!Other(n)]
  BY OtherNode DEF Leaves, Grows, NowInv, NowTypes
<1> QED BY <1>3, <1>6, <1>7, <1>8, BothKeep

LEMMA LeaveKeeps == ASSUME NowAssumption, NowInv, NEW n \in Nodes, Now!Leave(n) PROVE NowInv'
<1>1. failed' \in [Nodes -> BOOLEAN] /\ failed' = [failed EXCEPT ![n] = failed'[n]] /\ failed'[n] = failed[n]
  BY DEF Now!Leave, NowInv, NowTypes
<1> QED BY <1>1, OffKeeps DEF Now!Leave

(* A callback posts into the deleted queue.                                *)
LEMMA PostFreedKeeps == ASSUME NowAssumption, NowInv, NEW n \in Nodes, Now!PostFreed(n) PROVE NowInv'
<1>1. CASE Now!Off(n) /\ failed' = [failed EXCEPT ![n] = TRUE]
  <2>1. failed' \in [Nodes -> BOOLEAN] /\ failed' = [failed EXCEPT ![n] = failed'[n]] /\ failed'[n] = TRUE
    BY <1>1 DEF NowInv, NowTypes
  <2> QED BY <1>1, <2>1, OffKeeps DEF Now!PostFreed
<1>2. CASE wifi' = [wifi EXCEPT ![n] = Tail(@)] /\ UNCHANGED <<task, queue, air, failed>>
  <2>1. /\ wifi[n] # <<>> /\ task[n] = "leaving" /\ UNCHANGED <<param, peers, sent>>
        /\ Flow(n) /\ Knows(n) /\ Chain(n) /\ Counted(n)
    BY DEF NowInv, Now!PostFreed
  <2>2. /\ Frames(n)' = Frames(n) /\ Events(n)' = Events(n)
        /\ wifi'[Now!Other(n)] = wifi[Now!Other(n)] /\ wifi'[n] = Tail(wifi[n])
    BY <1>2, <2>1, OtherNode DEF NowInv, NowTypes, Frames, Events, Hearings, States
  <2>3. Flow(n)' /\ Knows(n)'
    <3>1. Tail(wifi[n]) \in Seq(Events(n))
      BY <2>1, HeadTailProperties DEF Flow
    <3> QED BY <1>2, <2>1, <2>2, <3>1 DEF Flow, Knows
  <2>4. ASSUME NEW t \in Types PROVE OneOf(n, t)' /\ (Some(n, t)' => Some(n, t))
    <3>1. OneOf(n, t)
      BY <2>1 DEF Chain, Types
    <3>2. /\ Has(Tail(wifi[n]), SentEvent(t)) => Has(wifi[n], SentEvent(t))
          /\ Once(wifi[n], SentEvent(t)) => Once(Tail(wifi[n]), SentEvent(t))
      BY <2>1, HasTail DEF Flow
    <3> QED BY <1>2, <2>2, <3>1, <3>2 DEF OneOf, Some, OneUnderWay, UnderWay
  <2>5. Chain(n)' /\ Counted(n)'
    BY <1>2, <2>1, <2>4 DEF Chain, Counted, Done, Types
  <2>6. NowTypes'
    BY <1>2, <2>1 DEF NowInv, NowTypes
  <2>7. Leaves(n, Now!Other(n)) /\ Grows(n)
    BY <1>2, <2>1, OtherNode DEF Leaves, Grows, NowInv, NowTypes
  <2> QED BY <2>2, <2>3, <2>5, <2>6, <2>7, BothKeep
<1> QED BY <1>1, <1>2 DEF Now!PostFreed

LEMMA NowStutters == ASSUME NowInv, UNCHANGED Now!vars PROVE NowInv'
<1>1. UNCHANGED <<task, param, queue, wifi, air, peers, sent, failed>>
  BY DEF Now!vars
<1>2. ASSUME NEW n \in Nodes PROVE Flow(n)' /\ Knows(n)' /\ Chain(n)' /\ Counted(n)'
  <2>1. Flow(n) /\ Knows(n) /\ Chain(n) /\ Counted(n)
    BY DEF NowInv
  <2> QED BY <1>1, <2>1 DEF Flow, Frames, Events, Hearings, States, Knows, Chain, Counted, Done, OneOf, Some
<1>3. NowTypes'
  BY <1>1 DEF NowInv, NowTypes
<1> QED BY <1>2, <1>3 DEF NowInv

LEMMA NowInvariance == ASSUME NowAssumption PROVE Now!Spec => []NowInv
<1>1. NowInv /\ [Now!Next]_Now!vars => NowInv'
  <2> SUFFICES ASSUME NowInv, [Now!Next]_Now!vars PROVE NowInv'
    OBVIOUS
  <2>1. ASSUME NEW n \in Nodes, Now!TaskStep(n) PROVE NowInv'
    BY <2>1, StartKeeps, HandleSendKeeps, NextKeeps, HandleBroadcastKeeps, HandleOtherKeeps, LeaveKeeps DEF Now!TaskStep
  <2>2. ASSUME NEW n \in Nodes, Now!Radio(n) PROVE NowInv'
    BY <2>2, DeliveredKeeps, LostKeeps DEF Now!Radio
  <2>3. ASSUME NEW n \in Nodes, Now!Post(n) PROVE NowInv'
    BY <2>3, PostKeeps
  <2>4. ASSUME NEW n \in Nodes, Now!PostFreed(n) PROVE NowInv'
    BY <2>4, PostFreedKeeps
  <2>5. CASE UNCHANGED Now!vars
    BY <2>5, NowStutters
  <2> QED BY <2>1, <2>2, <2>3, <2>4, <2>5 DEF Now!Next
<1> QED BY <1>1, NowInit, PTL DEF Now!Spec

(* The driver has no more than two frames of a device to send, of each     *)
(* kind one, for an array of frames of two kinds.                          *)
LEMMA TwoAtMost ==
  ASSUME NEW a \in Seq(AnyFrame), Once(a, Frame("broadcast")), Once(a, Frame("unicast"))
  PROVE  Len(a) <= 2
<1>1. Len(a) \in Nat /\ \A i \in 1..Len(a) : a[i] \in Frame("broadcast") \/ a[i] \in Frame("unicast")
  <2>1. Len(a) \in Nat /\ \A i \in 1..Len(a) : a[i] \in AnyFrame
    BY ElementOfSeq
  <2>2. \A f \in AnyFrame : f.type = "broadcast" \/ f.type = "unicast"
    BY DEF AnyFrame, Types
  <2> QED BY <2>1, <2>2, FrameTypes DEF Types
<1>2. ASSUME Len(a) > 2 PROVE FALSE
  <2>1. 1 \in 1..Len(a) /\ 2 \in 1..Len(a) /\ 3 \in 1..Len(a)
    BY <1>1, <1>2
  <2> QED BY <1>1, <2>1 DEF Once
<1> QED BY <1>1, <1>2

(* A device has never more than one broadcast and one unicast frame with   *)
(* the driver, though the callback's event, the delay and what is heard in *)
(* between can come in any order (example_espnow_task).                    *)
THEOREM NowTypeCorrect == ASSUME NowAssumption PROVE Now!Spec => []Now!TypeOK
<1>1. NowInv => Now!TypeOK
  <2> SUFFICES ASSUME NowInv PROVE Now!TypeOK
    OBVIOUS
  <2>1. ASSUME NEW n \in Nodes PROVE Len(queue[n]) <= QUEUE_SIZE /\ Len(air[n]) <= 2 /\ peers[n] \subseteq {Now!Other(n)}
    <3>1. Flow(n) /\ OneOf(n, "broadcast") /\ OneOf(n, "unicast") /\ param[n] \in Now!Params
      BY DEF NowInv, NowTypes, Chain
    <3>2. Frames(n) \subseteq AnyFrame
      BY <3>1 DEF Frames, AnyFrame, States, Now!Params
    <3>3. air[n] \in Seq(AnyFrame)
      BY <3>1, <3>2, Widened DEF Flow
    <3>4. Len(air[n]) <= 2
      BY <3>1, <3>3, TwoAtMost DEF OneOf, OneUnderWay
    <3> QED BY <3>1, <3>4 DEF Flow, NowInv, NowTypes
  <2> QED BY <2>1 DEF Now!TypeOK, NowInv, NowTypes
<1> QED BY <1>1, NowInvariance, PTL

(* A unicast frame goes only to a device that can decrypt it, and only the *)
(* device with the bigger magic number sends (250-281), whichever          *)
(* broadcasts were lost or heard late.                                     *)
THEOREM FramesAreUnderstood == ASSUME NowAssumption PROVE Now!Spec => []Now!UnicastUnderstood
<1>1. NowInv => Now!UnicastUnderstood
  <2> SUFFICES ASSUME NowInv, NEW n \in Nodes, sent[n].out > 0
               PROVE  n \in peers[Now!Other(n)] /\ param[n].magic >= param[Now!Other(n)].magic
    BY DEF Now!UnicastUnderstood
  <2>1. Knows(n) /\ Counted(n)
    BY DEF NowInv
  <2>2. param[n].unicast
    BY <2>1 DEF Counted, Done
  <2> QED BY <2>1, <2>2 DEF Knows
<1> QED BY <1>1, NowInvariance, PTL

(* A device that is done without an error has sent SEND_COUNT unicast      *)
(* frames: a broadcast's late callback is not taken for one (191-199).     *)
THEOREM AllAreSent == ASSUME NowAssumption PROVE Now!Spec => []Now!SendsExactly
<1>1. NowInv => Now!SendsExactly
  <2> SUFFICES ASSUME NowInv, NEW n \in Nodes, task[n] \in {"leaving", "gone"}, ~failed[n] PROVE sent[n].out = SEND_COUNT
    BY DEF Now!SendsExactly
  <2>1. Counted(n) /\ sent[n] \in [out : 0..SEND_COUNT, in : BOOLEAN]
    BY DEF NowInv, NowTypes
  <2> QED BY <2>1 DEF Counted, Done
<1> QED BY <1>1, NowInvariance, PTL
-----------------------------------------------------------------------------
(***************************************************************************)
(* Writing an update (NativeOta).  The files served are those the build    *)
(* makes: the part for this device lies within them, and is not smaller    *)
(* than what one recv takes, as no firmware is.                            *)
(***************************************************************************)
CONSTANTS TEXT_BUFFSIZE, Files
VARIABLES file, pc, ota_firm, taken, net, partition, boot, trouble
Ota == INSTANCE NativeOta

PartSize(f) == CASE f.variant = "with_old" -> f.content_len - f.skip
                 [] f.variant = "copy"     -> f.content_len
                 [] f.variant = "no_copy"  -> f.content_len \div f.ota_num
OtaAssumption == /\ TEXT_BUFFSIZE \in Nat /\ MaxBoots \in Nat \ {0}
                 /\ \A f \in Files : /\ f.variant \in {"with_old", "copy", "no_copy"}
                                     /\ f.content_len \in Nat /\ f.skip \in 0..f.content_len
                                     /\ f.ota_num \in Nat \ {0} /\ f.update \in Nat /\ f.update < f.ota_num
                                     /\ TEXT_BUFFSIZE <= PartSize(f)

LEMMA PartIsWithin ==
  ASSUME OtaAssumption, file \in Files
  PROVE  /\ Ota!OtaSize \in Nat /\ Ota!OtaOffset \in Nat /\ file.content_len \in Nat
         /\ Ota!OtaOffset + Ota!OtaSize <= file.content_len
         /\ TEXT_BUFFSIZE \in Nat /\ TEXT_BUFFSIZE <= Ota!OtaSize
<1> USE DEF Ota!OtaSize, Ota!OtaOffset, Ota!Part, Ota!OtaPart, PartSize
<1>1. /\ file.variant \in {"with_old", "copy", "no_copy"}
      /\ file.content_len \in Nat /\ file.skip \in 0..file.content_len
      /\ file.ota_num \in Nat \ {0} /\ file.update \in Nat /\ file.update < file.ota_num
      /\ TEXT_BUFFSIZE \in Nat /\ TEXT_BUFFSIZE <= PartSize(file)
  BY DEF OtaAssumption
<1>2. CASE file.variant = "with_old"
  BY <1>1, <1>2 DEF Ota!WithOldPart
<1>3. CASE file.variant = "copy"
  BY <1>1, <1>3 DEF Ota!CopyPart
<1>4. CASE file.variant = "no_copy"
  <2> DEFINE q == file.content_len \div file.ota_num
  <2>1. q \in Nat /\ q * file.ota_num <= file.content_len
    BY <1>1
  <2>2. Ota!OtaSize = q /\ Ota!OtaOffset = q * file.update /\ PartSize(file) = q
    BY <1>4 DEF Ota!NoCopyPart
  <2> HIDE DEF q, PartSize, Ota!OtaSize, Ota!OtaOffset
  <2>3. \A n, k, u \in Nat : u < k => n * u \in Nat /\ n * u + n <= n * k
    <3> SUFFICES ASSUME NEW n \in Nat, NEW k \in Nat, NEW u \in Nat, u < k
                 PROVE  n * u \in Nat /\ n * u + n <= n * k
      OBVIOUS
    <3>1. n * (k - u - 1) \in Nat /\ n * u \in Nat /\ n * k = n * u + n + n * (k - u - 1)
      OBVIOUS
    <3> QED BY <3>1
  <2> QED BY <1>1, <2>1, <2>2, <2>3
<1> QED BY <1>1, <1>2, <1>3, <1>4

(* What has been received of the body.                                     *)
Body == taken - Ota!HeaderLen

(* While the task receives, the state of ota_firm tells what of the body   *)
(* it has passed, and the partition is that much of the image.             *)
Receiving ==
    /\ ota_firm.state # "RECVED"
    /\ ota_firm.state = "INIT" => taken < Ota!HeaderLen /\ ota_firm.read = 0
    /\ ota_firm.state = "PREPARE" => Body >= 0 /\ ota_firm.read = Body /\ (Body = 0 \/ Body < Ota!OtaOffset)
    /\ ota_firm.state # "START" => ota_firm.write = 0 /\ partition = <<>>
    /\ ota_firm.state = "START" => /\ Body = Ota!OtaOffset + ota_firm.write
                                   /\ ota_firm.write = Len(partition)

FirmTypes(f) == /\ f \in [state : {"INIT", "PREPARE", "START", "RECVED"}, known : BOOLEAN,
                          read : 0..file.content_len, write : 0..file.content_len]
                /\ f.write <= Ota!OtaSize
Beginning(s) == s \in Seq(Nat) /\ Len(s) <= Ota!OtaSize /\ \A i \in 1..Len(s) : s[i] = Ota!OtaOffset + i

OtaInv == /\ file \in Files /\ boots \in 1..MaxBoots /\ wifi \in BOOLEAN /\ trouble \in BOOLEAN
          /\ pc \in {"wifi", "connect", "begin", "recv", "end", "dead", "reset", "restarted"}
          /\ taken \in 0..(Ota!HeaderLen + file.content_len) /\ net \in {"open", "short"}
          /\ FirmTypes(ota_firm) /\ boot \in {"old", "new"}
          /\ Beginning(partition)
          /\ pc \in {"wifi", "connect", "begin"} => taken = 0
          /\ pc = "recv" => Receiving

LEMMA OtaInit == ASSUME OtaAssumption PROVE Ota!Init => OtaInv
<1> SUFFICES ASSUME Ota!Init PROVE OtaInv
  OBVIOUS
<1> USE DEF Ota!Init
<1>1. /\ Ota!OtaSize \in Nat /\ file.content_len \in Nat
  BY PartIsWithin
<1>2. FirmTypes(ota_firm)
  BY <1>1 DEF FirmTypes, Ota!FreshFirm
<1>3. Beginning(partition)
  BY <1>1 DEF Beginning
<1>4. boots \in 1..MaxBoots /\ taken \in 0..(Ota!HeaderLen + file.content_len)
  BY <1>1 DEF OtaAssumption, Ota!HeaderLen
<1> QED BY <1>2, <1>3, <1>4 DEF OtaInv

(* esp_ota_write of the part of a chunk that continues what is written.    *)
LEMMA WrittenOn ==
  ASSUME OtaAssumption, file \in Files, NEW s, Beginning(s), NEW n \in Nat, Len(s) + n <= Ota!OtaSize,
         NEW w, w = [i \in 1..n |-> Ota!OtaOffset + Len(s) + i]
  PROVE  Beginning(s \o w) /\ Len(s \o w) = Len(s) + n
<1>1. Ota!OtaSize \in Nat /\ Ota!OtaOffset \in Nat
  BY PartIsWithin
<1>2. s \in Seq(Nat) /\ Len(s) \in Nat
  BY DEF Beginning
<1>3. w \in Seq(Nat) /\ Len(w) = n
  BY <1>1, <1>2
<1>4. s \o w \in Seq(Nat) /\ Len(s \o w) = Len(s) + n
  BY <1>2, <1>3
<1>5. ASSUME NEW i \in 1..Len(s \o w) PROVE (s \o w)[i] = Ota!OtaOffset + i
  <2>1. CASE i \in 1..Len(s)
    BY <1>2, <1>3, <2>1 DEF Beginning
  <2>2. CASE i \notin 1..Len(s)
    <3>1. i - Len(s) \in 1..n /\ (s \o w)[i] = w[i - Len(s)]
      BY <1>2, <1>3, <1>4, <2>2
    <3> QED BY <1>1, <1>2, <3>1
  <2> QED BY <2>1, <2>2
<1> QED BY <1>4, <1>5 DEF Beginning

LEMMA FirmFields ==
  ASSUME NEW f \in [state : {"INIT", "PREPARE", "START", "RECVED"}, known : BOOLEAN, read : Nat, write : Nat],
         NEW k \in BOOLEAN, NEW st \in {"INIT", "PREPARE", "START", "RECVED"}, NEW r \in Nat, NEW w \in Nat, NEW g
  PROVE  /\ g = [f EXCEPT !.state = st, !.read = r, !.write = w, !.known = k]
              => g = [state |-> st, known |-> k, read |-> r, write |-> w]
         /\ g = [f EXCEPT !.state = st, !.read = r, !.known = k]
              => g = [state |-> st, known |-> k, read |-> r, write |-> f.write]
         /\ g = [f EXCEPT !.state = st, !.known = k]
              => g = [state |-> st, known |-> k, read |-> f.read, write |-> f.write]
<1>1. ASSUME g = [f EXCEPT !.state = st, !.read = r, !.write = w, !.known = k]
      PROVE  g = [state |-> st, known |-> k, read |-> r, write |-> w]
  BY <1>1
<1>2. ASSUME g = [f EXCEPT !.state = st, !.read = r, !.known = k]
      PROVE  g = [state |-> st, known |-> k, read |-> r, write |-> f.write]
  BY <1>2
<1>3. ASSUME g = [f EXCEPT !.state = st, !.known = k]
      PROVE  g = [state |-> st, known |-> k, read |-> f.read, write |-> f.write]
  BY <1>3
<1> QED BY <1>1, <1>2, <1>3

LEMMA PreparedPast ==
  ASSUME NEW n, ota_firm.read + n >= Ota!OtaOffset
  PROVE  Ota!Prepare(n) = [ota_firm EXCEPT !.state = "START", !.read = ota_firm.read + n,
                                          !.write = ota_firm.write + ((ota_firm.read + n) - Ota!OtaOffset),
                                          !.known = TRUE]
  BY Zenon DEF Ota!Prepare

(* esp_ota_firm_parse_msg and esp_ota_firm_get_write_buf: where a chunk    *)
(* leaves the machine, and that what it writes continues the image.        *)
LEMMA ChunkParsed ==
  ASSUME OtaAssumption, OtaInv, pc = "recv", NEW upto \in (taken + 1)..(taken + TEXT_BUFFSIZE),
         upto <= Ota!HeaderLen + file.content_len, Ota!HeaderDone(upto),
         NEW firm, firm = Ota!BodyParsed(upto - (IF taken > Ota!HeaderLen THEN taken ELSE Ota!HeaderLen))
  PROVE  /\ FirmTypes(firm) /\ firm.state # "INIT"
         /\ firm.state = "PREPARE" => /\ firm.read = upto - Ota!HeaderLen /\ firm.write = 0 /\ partition = <<>>
                                      /\ firm.read = 0 \/ firm.read < Ota!OtaOffset
         /\ firm.state = "START" => upto - Ota!HeaderLen = Ota!OtaOffset + firm.write
         /\ firm.state \in {"START", "RECVED"} => /\ Beginning(partition \o Ota!WriteBuf(upto, firm))
                                                  /\ Len(partition \o Ota!WriteBuf(upto, firm)) = firm.write
<1> DEFINE n == upto - (IF taken > Ota!HeaderLen THEN taken ELSE Ota!HeaderLen)
           c == file.content_len
           size == Ota!OtaSize
           offset == Ota!OtaOffset
           f == ota_firm
<1>1. /\ size \in Nat /\ offset \in Nat /\ c \in Nat /\ offset + size <= c /\ TEXT_BUFFSIZE \in Nat
      /\ TEXT_BUFFSIZE <= size /\ Ota!HeaderLen = 6 /\ file \in Files
  BY PartIsWithin DEF OtaInv, Ota!HeaderLen
<1>2. taken \in Nat /\ upto \in Nat /\ upto >= 6 /\ upto - 6 <= c /\ upto > taken /\ upto - taken <= TEXT_BUFFSIZE
  BY <1>1 DEF OtaInv, Ota!HeaderDone
<1>3. FirmTypes(f) /\ Receiving /\ Beginning(partition) /\ firm = Ota!BodyParsed(n)
  BY DEF OtaInv
<1>4. /\ f = [state |-> f.state, known |-> f.known, read |-> f.read, write |-> f.write]
      /\ f.state \in {"INIT", "PREPARE", "START", "RECVED"} /\ f.known \in BOOLEAN
      /\ f.read \in 0..c /\ f.write \in 0..c /\ f.write <= size
  BY <1>3 DEF FirmTypes
<1>a. f.read \in Nat /\ f.write \in Nat /\ f.read <= c /\ f.write <= c /\ f.write <= size
  BY <1>1, <1>4
<1>b. f \in [state : {"INIT", "PREPARE", "START", "RECVED"}, known : BOOLEAN, read : Nat, write : Nat]
  BY <1>4, <1>a
<1> DEFINE R(st, k, r, w) == [state |-> st, known |-> k, read |-> r, write |-> w]
<1>5. \A st \in {"INIT", "PREPARE", "START", "RECVED"}, k \in BOOLEAN, r, w \in 0..c :
         w <= size => FirmTypes(R(st, k, r, w)) /\ R(st, k, r, w).state = st /\ R(st, k, r, w).read = r
                      /\ R(st, k, r, w).write = w
  BY DEF FirmTypes
<1> HIDE DEF c, size, offset, f, n, R
<1>6. CASE f.state = "START"
  <2>1. Body = offset + f.write /\ f.write = Len(partition) /\ taken >= 6 /\ n = upto - taken
    BY <1>1, <1>2, <1>3, <1>4, <1>6 DEF Receiving, Body, f, n, offset
  <2>2. firm = Ota!Start(n)
    BY <1>3, <1>6 DEF Ota!BodyParsed, f
  <2>3. n \in Nat /\ n = upto - 6 - offset - f.write
    <3>1. taken - 6 = offset + f.write
      BY <1>1, <2>1 DEF Body
    <3> QED BY <1>1, <1>2, <1>a, <2>1, <3>1
  <2>4. CASE f.write + n > size
    <3>1. firm = R("RECVED", f.known, f.read, size)
      BY <1>4, <2>2, <2>4 DEF Ota!Start, f, R, size
    <3>2. FirmTypes(firm) /\ firm.state = "RECVED" /\ firm.write = size
      BY <1>1, <1>4, <1>5, <3>1
    <3>3. size - f.write \in Nat /\ Len(partition) + (size - f.write) = size
      BY <1>1, <1>4, <2>1, <2>4
    <3>4. Ota!WriteBuf(upto, firm) = [i \in 1..(size - f.write) |-> offset + Len(partition) + i]
      <4>1. Ota!WriteBuf(upto, firm) = [i \in 1..(size - f.write) |-> taken - 6 + i]
        BY <1>1, <1>6, <3>2 DEF Ota!WriteBuf, f
      <4>2. taken - 6 = offset + Len(partition)
        BY <1>1, <1>2, <2>1 DEF Body
      <4> QED BY <4>1, <4>2
    <3>5. /\ Beginning(partition \o Ota!WriteBuf(upto, firm))
          /\ Len(partition \o Ota!WriteBuf(upto, firm)) = size
      BY <1>1, <1>3, <3>3, <3>4, WrittenOn DEF size, offset
    <3> QED BY <3>2, <3>5
  <2>5. CASE ~(f.write + n > size)
    <3>1. firm = R("START", f.known, f.read, f.write + n)
      BY <1>4, <1>6, <2>2, <2>5 DEF Ota!Start, f, R, size
    <3>2. f.write + n \in 0..c /\ f.write + n <= size
      BY <1>1, <1>4, <2>3, <2>5
    <3>3. FirmTypes(firm) /\ firm.state = "START" /\ firm.write = f.write + n
      BY <1>4, <1>5, <3>1, <3>2
    <3>4. Ota!WriteBuf(upto, firm) = [i \in 1..n |-> offset + Len(partition) + i]
      <4>1. Ota!WriteBuf(upto, firm) = [i \in 1..(firm.write - f.write) |-> taken - 6 + i]
        BY <1>1, <1>6 DEF Ota!WriteBuf, f
      <4>2. taken - 6 = offset + Len(partition) /\ firm.write - f.write = n
        BY <1>1, <1>2, <1>a, <2>1, <2>3, <3>3 DEF Body
      <4> QED BY <4>1, <4>2
    <3>5. /\ Beginning(partition \o Ota!WriteBuf(upto, firm))
          /\ Len(partition \o Ota!WriteBuf(upto, firm)) = f.write + n
      <4>1. Len(partition) + n <= Ota!OtaSize /\ Len(partition) + n = f.write + n
        BY <2>1, <3>2 DEF size
      <4>2. Ota!WriteBuf(upto, firm) = [i \in 1..n |-> Ota!OtaOffset + Len(partition) + i]
        BY <3>4 DEF offset
      <4> QED BY <1>1, <1>3, <2>3, <4>1, <4>2, WrittenOn
    <3>6. upto - 6 = offset + firm.write
      BY <1>1, <1>2, <1>4, <2>3, <3>3
    <3> QED BY <1>1, <3>3, <3>5, <3>6 DEF offset
  <2> QED BY <2>4, <2>5
<1>7. CASE f.state # "START"
  <2>1. /\ f.write = 0 /\ partition = <<>> /\ n \in Nat /\ f.read + n = upto - 6 /\ f.read \in Nat
        /\ f.read = 0 \/ f.read < offset
        /\ n <= TEXT_BUFFSIZE /\ (n = 0 => f.read = 0)
    <3>1. f.write = 0 /\ partition = <<>> /\ f.state \in {"INIT", "PREPARE"}
      BY <1>3, <1>4, <1>7 DEF Receiving, f
    <3>2. CASE f.state = "INIT"
      BY <1>1, <1>2, <1>3, <3>1, <3>2 DEF Receiving, f, n
    <3>3. CASE f.state = "PREPARE"
      <4>1. f.read = taken - 6 /\ taken >= 6 /\ (f.read = 0 \/ f.read < offset)
        BY <1>1, <1>2, <1>3, <3>3 DEF Receiving, f, Body, offset
      <4>2. n = upto - taken
        BY <1>1, <1>2, <4>1 DEF n
      <4> QED BY <1>1, <1>2, <3>1, <4>1, <4>2
    <3> QED BY <3>1, <3>2, <3>3
  <2>2. f.read + n \in 0..c
    BY <1>1, <1>2, <2>1
  <2>3. CASE n = 0
    <3>1. PICK k \in BOOLEAN : firm = R("PREPARE", k, f.read, f.write)
      <4>1. firm = [f EXCEPT !.state = "PREPARE", !.known = TRUE]
        BY <1>3, <1>7, <2>3, Zenon DEF Ota!BodyParsed, f
      <4>2. PICK k \in BOOLEAN : firm = [f EXCEPT !.state = "PREPARE", !.known = k]
        BY <4>1, Zenon
      <4> QED BY <1>a, <1>b, <4>2, FirmFields DEF R
    <3>2. FirmTypes(firm) /\ firm.state = "PREPARE" /\ firm.read = f.read /\ firm.write = 0
      BY <1>1, <1>a, <1>5, <2>1, <3>1
    <3>3. f.read = 0
      BY <2>1, <2>3
    <3>4. upto - 6 = 0
      BY <1>2, <2>1, <2>3, <3>3
    <3>5. firm.read = 0
      BY <3>2, <3>3
    <3> QED BY <1>1, <2>1, <3>2, <3>4, <3>5
  <2>4. CASE n # 0 /\ f.read + n < offset
    <3>1. PICK k \in BOOLEAN : firm = R("PREPARE", k, f.read + n, f.write)
      <4>1. ~(f.read + n >= offset)
        BY <1>1, <2>1, <2>4
      <4>2. firm = Ota!Prepare(n)
        BY <1>3, <1>7, <2>4, Zenon DEF Ota!BodyParsed, f
      <4>3. firm = [f EXCEPT !.state = "PREPARE", !.read = f.read + n, !.known = TRUE]
        BY <4>1, <4>2, Zenon DEF Ota!Prepare, f, offset
      <4>4. PICK k \in BOOLEAN : firm = [f EXCEPT !.state = "PREPARE", !.read = f.read + n, !.known = k]
        BY <4>3, Zenon
      <4> QED BY <1>1, <1>a, <1>b, <2>1, <4>4, FirmFields DEF R
    <3>2. FirmTypes(firm) /\ firm.state = "PREPARE" /\ firm.read = f.read + n /\ firm.write = 0
      BY <1>1, <1>a, <1>5, <2>1, <2>2, <3>1
    <3> QED BY <1>1, <2>1, <2>4, <3>2 DEF offset
  <2>5. CASE n # 0 /\ f.read + n >= offset
    <3> DEFINE b == f.read + n - offset
    <3>1. PICK k \in BOOLEAN : firm = R("START", k, f.read + n, b)
      <4>1. PICK k \in BOOLEAN : firm = R("START", k, f.read + n, f.write + ((f.read + n) - offset))
        <5>1. firm = Ota!Prepare(n)
          BY <1>3, <1>7, <2>5, Zenon DEF Ota!BodyParsed, f
        <5>2. firm = [f EXCEPT !.state = "START", !.read = f.read + n, !.write = f.write + ((f.read + n) - offset),
                               !.known = TRUE]
          <6>1. f.read + n >= offset
            BY <2>5
          <6>2. Ota!Prepare(n) = [f EXCEPT !.state = "START", !.read = f.read + n,
                                           !.write = f.write + ((f.read + n) - offset), !.known = TRUE]
            BY <6>1, PreparedPast, Zenon DEF f, offset
          <6> QED BY <5>1, <6>2, Zenon
        <5>3. PICK k \in BOOLEAN : firm = [f EXCEPT !.state = "START", !.read = f.read + n,
                                                    !.write = f.write + ((f.read + n) - offset), !.known = k]
          BY <5>2, Zenon
        <5> QED BY <1>1, <1>a, <1>b, <2>1, <2>5, <5>3, FirmFields DEF R
      <4>2. f.write + ((f.read + n) - offset) = b
        BY <1>1, <2>1
      <4> QED BY <4>1, <4>2
    <3>2. b \in Nat /\ b <= size /\ b \in 0..c /\ upto - 6 - b = offset
      <4>1. b = n + f.read - offset /\ (f.read = 0 \/ f.read < offset)
        BY <1>1, <2>1
      <4>2. n <= size /\ n \in Nat /\ n + f.read >= offset /\ f.read \in Nat /\ offset \in Nat
        BY <1>1, <2>1, <2>5
      <4>3. b \in Nat /\ b <= n
        BY <4>1, <4>2
      <4>4. b <= size /\ b \in 0..c
        BY <1>1, <4>2, <4>3
      <4>5. upto - 6 - b = offset
        BY <1>1, <1>2, <2>1, <4>1, <4>2
      <4> HIDE DEF b
      <4> QED BY <4>3, <4>4, <4>5
    <3> HIDE DEF b
    <3>3. FirmTypes(firm) /\ firm.state = "START" /\ firm.write = b
      BY <1>5, <2>2, <3>1, <3>2
    <3>4. Ota!WriteBuf(upto, firm) = [i \in 1..b |-> offset + Len(partition) + i]
      <4>1. Ota!WriteBuf(upto, firm) = [i \in 1..(b - f.write) |-> upto - 6 - (b - f.write) + i]
        BY <1>1, <1>7, <3>3 DEF Ota!WriteBuf, f
      <4>2. b - f.write = b /\ upto - 6 - b = offset + Len(partition)
        BY <1>1, <2>1, <3>2
      <4> QED BY <4>1, <4>2
    <3>5. /\ Beginning(partition \o Ota!WriteBuf(upto, firm))
          /\ Len(partition \o Ota!WriteBuf(upto, firm)) = b
      <4>1. Len(partition) = 0
        BY <2>1
      <4>2. Len(partition) + b <= Ota!OtaSize /\ Len(partition) + b = b
        BY <3>2, <4>1 DEF size
      <4>3. Ota!WriteBuf(upto, firm) = [i \in 1..b |-> Ota!OtaOffset + Len(partition) + i]
        BY <3>4 DEF offset
      <4> QED BY <1>1, <1>3, <3>2, <4>2, <4>3, WrittenOn
    <3>6. upto - 6 = offset + firm.write
      BY <1>1, <1>2, <3>2, <3>3
    <3> QED BY <1>1, <3>3, <3>5, <3>6 DEF offset
  <2> QED BY <1>1, <2>1, <2>3, <2>4, <2>5
<1> QED BY <1>6, <1>7

LEMMA RecvKeeps == ASSUME OtaAssumption, OtaInv, Ota!RecvData PROVE OtaInv'
<1>1. PICK upto \in (taken + 1)..(taken + TEXT_BUFFSIZE) :
        /\ upto <= Ota!HeaderLen + file.content_len /\ taken' = upto
        /\ Ota!RecvHeader(upto) \/ Ota!RecvBody(upto)
  BY DEF Ota!RecvData
<1>2. pc = "recv" /\ UNCHANGED <<file, wifi, net, boots>>
  BY DEF Ota!RecvData
<1>3. /\ file \in Files /\ boots \in 1..MaxBoots /\ wifi \in BOOLEAN /\ trouble \in BOOLEAN /\ net \in {"open", "short"}
      /\ FirmTypes(ota_firm) /\ Beginning(partition) /\ Receiving /\ boot \in {"old", "new"}
  BY <1>2 DEF OtaInv
<1>4. Ota!OtaSize' = Ota!OtaSize /\ Ota!OtaOffset' = Ota!OtaOffset
  BY <1>2 DEF Ota!OtaSize, Ota!OtaOffset, Ota!Part, Ota!WithOldPart, Ota!CopyPart, Ota!NoCopyPart
<1>5. taken' \in 0..(Ota!HeaderLen + file.content_len) /\ taken \in Nat /\ Ota!HeaderLen = 6
  BY <1>1, <1>3, PartIsWithin DEF OtaInv, Ota!HeaderLen
<1>6. CASE Ota!RecvHeader(upto)
  <2>1. ~(Ota!HeaderDone(upto) /\ Ota!LengthKnown(upto))
    BY <1>6 DEF Ota!RecvHeader
  <2>2. CASE Ota!CutsLine(upto) \/ Ota!HeaderDone(upto)
    <3>1. pc' \in {"dead", "reset"} /\ UNCHANGED <<ota_firm, partition, boot>> /\ trouble' \in BOOLEAN
      BY <1>6, <2>2, <1>3 DEF Ota!RecvHeader
    <3>2. FirmTypes(ota_firm)' /\ Beginning(partition)'
      BY <1>2, <1>3, <1>4, <3>1 DEF FirmTypes, Beginning
    <3> QED BY <1>2, <1>3, <1>5, <3>1, <3>2 DEF OtaInv
  <2>3. CASE ~(Ota!CutsLine(upto) \/ Ota!HeaderDone(upto))
    <3>1. /\ ota_firm' = [ota_firm EXCEPT !.known = Ota!LengthKnown(upto)] /\ upto < 6
          /\ UNCHANGED <<pc, partition, boot, trouble>>
      BY <1>1, <1>5, <1>6, <2>3 DEF Ota!RecvHeader, Ota!HeaderDone
    <3>2. Ota!LengthKnown(upto) \in BOOLEAN
      BY <1>3 DEF Ota!LengthKnown, Ota!LengthHere, FirmTypes
    <3>3. /\ ota_firm'.state = ota_firm.state /\ ota_firm'.read = ota_firm.read /\ ota_firm'.write = ota_firm.write
          /\ FirmTypes(ota_firm)'
      <4>1. /\ ota_firm' = [state |-> ota_firm.state, known |-> Ota!LengthKnown(upto), read |-> ota_firm.read,
                            write |-> ota_firm.write]
            /\ ota_firm.state \in {"INIT", "PREPARE", "START", "RECVED"}
            /\ ota_firm.read \in 0..file.content_len /\ ota_firm.write \in 0..file.content_len
            /\ ota_firm.write <= Ota!OtaSize
        BY <1>3, <3>1 DEF FirmTypes
      <4> HIDE DEF Ota!LengthKnown
      <4> QED BY <1>2, <1>4, <3>2, <4>1 DEF FirmTypes
    <3>4. ota_firm.state = "INIT"
      BY <1>1, <1>3, <1>5, <3>1, PartIsWithin DEF Receiving, Body, FirmTypes
    <3>5. Receiving'
      BY <1>1, <1>3, <1>5, <3>1, <3>3, <3>4 DEF Receiving
    <3>6. Beginning(partition)'
      BY <1>3, <1>4, <3>1 DEF Beginning
    <3> QED BY <1>2, <1>3, <1>5, <3>1, <3>3, <3>5, <3>6 DEF OtaInv
  <2> QED BY <2>2, <2>3
<1>7. CASE Ota!RecvBody(upto)
  <2> DEFINE firm == Ota!BodyParsed(upto - (IF taken > Ota!HeaderLen THEN taken ELSE Ota!HeaderLen))
  <2>1. Ota!HeaderDone(upto) /\ ota_firm' = firm /\ boot' = boot
    BY <1>7 DEF Ota!RecvBody
  <2>2. /\ FirmTypes(firm) /\ firm.state # "INIT"
        /\ firm.state = "PREPARE" => /\ firm.read = upto - Ota!HeaderLen /\ firm.write = 0 /\ partition = <<>>
                                     /\ firm.read = 0 \/ firm.read < Ota!OtaOffset
        /\ firm.state = "START" => upto - Ota!HeaderLen = Ota!OtaOffset + firm.write
        /\ firm.state \in {"START", "RECVED"} => /\ Beginning(partition \o Ota!WriteBuf(upto, firm))
                                                 /\ Len(partition \o Ota!WriteBuf(upto, firm)) = firm.write
    BY <1>1, <1>2, <2>1, ChunkParsed
  <2>3. \/ /\ firm.state \in {"START", "RECVED"} /\ partition' = partition \o Ota!WriteBuf(upto, firm)
           /\ pc' = (IF firm.state = "RECVED" THEN "end" ELSE "recv") /\ trouble' = trouble
        \/ pc' = "dead" /\ trouble' = TRUE /\ partition' = partition
        \/ firm.state \notin {"START", "RECVED"} /\ UNCHANGED <<pc, partition, trouble>>
    BY <1>7 DEF Ota!RecvBody
  <2> HIDE DEF firm
  <2>4. FirmTypes(ota_firm)'
    BY <1>2, <1>4, <2>1, <2>2 DEF FirmTypes
  <2>5. CASE pc' = "dead" /\ trouble' = TRUE /\ partition' = partition
    <3>1. Beginning(partition)'
      BY <1>3, <1>4, <2>5 DEF Beginning
    <3> QED BY <1>2, <1>3, <1>5, <2>1, <2>4, <2>5, <3>1 DEF OtaInv
  <2>6. CASE firm.state \notin {"START", "RECVED"} /\ UNCHANGED <<pc, partition, trouble>>
    <3>1. Beginning(partition)'
      BY <1>3, <1>4, <2>6 DEF Beginning
    <3>2. firm.state = "PREPARE"
      BY <2>2, <2>6 DEF FirmTypes
    <3>3. Receiving'
      BY <1>1, <1>4, <1>5, <2>1, <2>2, <2>6, <3>2 DEF Receiving, Body, Ota!HeaderDone
    <3> QED BY <1>2, <1>3, <1>5, <2>1, <2>4, <2>6, <3>1, <3>3 DEF OtaInv
  <2>7. CASE /\ firm.state \in {"START", "RECVED"} /\ partition' = partition \o Ota!WriteBuf(upto, firm)
             /\ pc' = (IF firm.state = "RECVED" THEN "end" ELSE "recv") /\ trouble' = trouble
    <3>1. Beginning(partition')
      BY <2>2, <2>7
    <3>2. Beginning(partition)'
      BY <1>4, <3>1 DEF Beginning
    <3>3. CASE firm.state = "RECVED"
      BY <1>2, <1>3, <1>5, <2>1, <2>4, <2>7, <3>2, <3>3 DEF OtaInv
    <3>4. CASE firm.state = "START"
      <4>1. Receiving'
        BY <1>1, <1>4, <1>5, <2>1, <2>2, <2>7, <3>4 DEF Receiving, Body
      <4> QED BY <1>2, <1>3, <1>5, <2>1, <2>4, <2>7, <3>2, <3>4, <4>1 DEF OtaInv
    <3> QED BY <2>7, <3>3, <3>4
  <2> QED BY <2>3, <2>5, <2>6, <2>7
<1> QED BY <1>1, <1>6, <1>7

LEMMA OtaInvariance == ASSUME OtaAssumption PROVE Ota!Spec => []OtaInv
<1>1. OtaInv /\ [Ota!Next]_Ota!vars => OtaInv'
  <2> SUFFICES ASSUME OtaInv, [Ota!Next]_Ota!vars PROVE OtaInv'
    OBVIOUS
  <2>1. CASE Ota!RecvData
    BY <2>1, RecvKeeps
  <2>2. ASSUME UNCHANGED <<file, ota_firm, partition>>,
               boots' \in 1..MaxBoots, wifi' \in BOOLEAN, trouble' \in BOOLEAN,
               pc' \in {"wifi", "connect", "begin", "end", "dead", "reset", "restarted"},
               net' \in {"open", "short"}, boot' \in {"old", "new"},
               taken' = taken \/ taken' = 0, pc' \in {"wifi", "connect", "begin"} => taken' = 0
        PROVE  OtaInv'
    <3>1. Ota!OtaSize' = Ota!OtaSize /\ Ota!OtaOffset' = Ota!OtaOffset
      BY <2>2 DEF Ota!OtaSize, Ota!OtaOffset, Ota!Part, Ota!WithOldPart, Ota!CopyPart, Ota!NoCopyPart
    <3>2. FirmTypes(ota_firm)' /\ Beginning(partition)'
      BY <2>2, <3>1 DEF OtaInv, FirmTypes, Beginning
    <3>3. taken' \in 0..(Ota!HeaderLen + file.content_len)
      BY <2>2, PartIsWithin DEF OtaInv, Ota!HeaderLen
    <3> QED BY <2>2, <3>2, <3>3 DEF OtaInv
  <2>3. CASE Ota!InitialiseWifi
    BY <2>2, <2>3 DEF Ota!InitialiseWifi, OtaInv
  <2>4. CASE Ota!ConnectToHttpServer
    BY <2>2, <2>4 DEF Ota!ConnectToHttpServer, Ota!Fatal, OtaInv
  <2>5. CASE Ota!BeginOta
    <3>1. CASE Ota!Fatal
      BY <2>2, <2>5, <3>1 DEF Ota!BeginOta, Ota!Fatal, OtaInv
    <3>2. CASE pc' = "recv" /\ partition' = <<>> /\ ota_firm' = Ota!FreshFirm /\ UNCHANGED <<boot, trouble>>
      <4>1. pc = "begin" /\ UNCHANGED <<file, wifi, taken, net, boots>> /\ taken = 0
        BY <2>5 DEF Ota!BeginOta, OtaInv
      <4>2. /\ Ota!OtaSize' = Ota!OtaSize /\ Ota!OtaSize \in Nat /\ file.content_len \in Nat
        BY <4>1, PartIsWithin DEF OtaInv, Ota!OtaSize, Ota!OtaOffset, Ota!Part, Ota!WithOldPart, Ota!CopyPart, Ota!NoCopyPart
      <4>3. FirmTypes(ota_firm)'
        BY <3>2, <4>1, <4>2 DEF FirmTypes, Ota!FreshFirm
      <4>4. Beginning(partition)'
        BY <3>2, <4>2 DEF Beginning
      <4>5. Receiving'
        BY <3>2, <4>1 DEF Receiving, Ota!FreshFirm, Ota!HeaderLen
      <4> QED BY <3>2, <4>1, <4>3, <4>4, <4>5 DEF OtaInv
    <3> QED BY <2>5, <3>1, <3>2 DEF Ota!BeginOta
  <2>6. CASE Ota!RecvEnd
    BY <2>2, <2>6 DEF Ota!RecvEnd, Ota!Fatal, OtaInv
  <2>7. CASE Ota!EndAndSetBoot
    BY <2>2, <2>7 DEF Ota!EndAndSetBoot, Ota!Fatal, OtaInv
  <2>8. CASE Ota!Reboot
    <3>1. boots' \in 1..MaxBoots
      BY <2>8 DEF Ota!Reboot, OtaInv, OtaAssumption
    <3> QED BY <2>2, <2>8, <3>1 DEF Ota!Reboot, OtaInv
  <2>9. ASSUME pc = pc', UNCHANGED <<file, wifi, ota_firm, taken, partition, boot, boots>>,
               net' \in {"open", "short"}, trouble' \in BOOLEAN
        PROVE  OtaInv'
    <3>1. Ota!OtaSize' = Ota!OtaSize /\ Ota!OtaOffset' = Ota!OtaOffset
      BY <2>9 DEF Ota!OtaSize, Ota!OtaOffset, Ota!Part, Ota!WithOldPart, Ota!CopyPart, Ota!NoCopyPart
    <3>2. FirmTypes(ota_firm)' /\ Beginning(partition)' /\ (pc' = "recv" => Receiving')
      BY <2>9, <3>1 DEF OtaInv, FirmTypes, Beginning, Receiving, Body
    <3> QED BY <2>9, <3>2 DEF OtaInv
  <2>10. CASE Ota!ServerGivesUp
    BY <2>9, <2>10 DEF Ota!ServerGivesUp
  <2>11. CASE UNCHANGED Ota!vars
    BY <2>9, <2>11 DEF Ota!vars, OtaInv
  <2> QED BY <2>1, <2>3, <2>4, <2>5, <2>6, <2>7, <2>8, <2>10, <2>11 DEF Ota!Next, Ota!TaskStep
<1> QED BY <1>1, OtaInit, PTL DEF Ota!Spec

(* The machine never counts past the part it writes, wherever recv cuts    *)
(* the response (esp_ota_firm_parse_msg).                                  *)
THEOREM OtaTypeCorrect == ASSUME OtaAssumption PROVE Ota!Spec => []Ota!TypeOK
<1>1. OtaInv => Ota!TypeOK
  <2> SUFFICES ASSUME OtaInv PROVE Ota!TypeOK
    OBVIOUS
  <2>1. /\ Ota!OtaSize \in Nat /\ Ota!OtaOffset \in Nat /\ file.content_len \in Nat
        /\ Ota!OtaOffset + Ota!OtaSize <= file.content_len
    BY PartIsWithin DEF OtaInv
  <2>2. partition \in Seq(1..file.content_len)
    <3> DEFINE D == 1..file.content_len
    <3>1. partition \in Seq(Nat) /\ Len(partition) \in Nat
      BY DEF OtaInv, Beginning
    <3>2. \A i \in 1..Len(partition) : partition[i] \in D
      BY <2>1, <3>1 DEF OtaInv, Beginning
    <3> HIDE DEF D
    <3>3. partition \in Seq(D)
      BY <3>1, <3>2
    <3> QED BY <3>3 DEF D
  <2> QED BY <2>2 DEF OtaInv, FirmTypes, Ota!TypeOK
<1> QED BY <1>1, OtaInvariance, PTL

(* The update partition holds the beginning of this variant's image after  *)
(* every write, after every failure and across restarts, whatever segments *)
(* the response comes in (236-262).                                        *)
THEOREM ImageIsWritten == ASSUME OtaAssumption PROVE Ota!Spec => []Ota!WritesTheImage
<1>1. OtaInv => Ota!WritesTheImage
  <2> SUFFICES ASSUME OtaInv PROVE Ota!IsPrefix(partition, Ota!Image)
    BY DEF Ota!WritesTheImage
  <2>1. /\ Ota!OtaSize \in Nat /\ Ota!OtaOffset \in Nat /\ Beginning(partition)
    BY PartIsWithin DEF OtaInv
  <2>2. Ota!Image \in Seq(Nat) /\ Len(Ota!Image) = Ota!OtaSize
        /\ \A i \in 1..Ota!OtaSize : Ota!Image[i] = Ota!OtaOffset + i
    BY <2>1 DEF Ota!Image
  <2>3. Len(partition) \in Nat /\ Len(partition) <= Ota!OtaSize /\ partition \in Seq(Nat)
    BY <2>1 DEF Beginning
  <2>4. SubSeq(partition, 1, Len(partition)) = SubSeq(Ota!Image, 1, Len(partition))
    <3>1. SubSeq(partition, 1, Len(partition)) = [i \in 1..Len(partition) |-> partition[i]]
      BY <2>3
    <3>2. SubSeq(Ota!Image, 1, Len(partition)) = [i \in 1..Len(partition) |-> Ota!Image[i]]
      BY <2>2, <2>3
    <3>3. \A i \in 1..Len(partition) : partition[i] = Ota!Image[i]
      BY <2>1, <2>2, <2>3 DEF Beginning
    <3> QED BY <3>1, <3>2, <3>3
  <2> QED BY <2>2, <2>3, <2>4 DEF Ota!IsPrefix
<1> QED BY <1>1, OtaInvariance, PTL
-----------------------------------------------------------------------------
(***************************************************************************)
(* Keeping a station connected (WifiStation).                              *)
(***************************************************************************)
CONSTANTS MAX_RETRY
VARIABLES started, scanning, bits, group, reconnect, setup, wanted, missed, tries
Station == INSTANCE WifiStation

StationAssumption == MAX_RETRY \in Nat /\ MaxEvents \in Nat
EventNames == {"START", "GOT_IP", "DISCONNECTED", "SCAN_DONE", "WPS_SUCCESS", "WPS_FAILED",
               "GOT_SSID_PSWD", "SEND_ACK_DONE"}

LEMMA QueueTaken ==
  ASSUME NEW E, NEW q \in Seq(E), q # <<>>
  PROVE  /\ Tail(q) \in Seq(E) /\ Len(Tail(q)) = Len(q) - 1 /\ Len(q) \in Nat \ {0}
         /\ Head(q) = q[1] /\ q[1] \in E
         /\ \A i \in 1..Len(q) : i # 1 => \E j \in 1..Len(Tail(q)) : Tail(q)[j] = q[i]
<1>1. /\ Tail(q) \in Seq(E) /\ Len(Tail(q)) = Len(q) - 1 /\ Head(q) \in E /\ Len(q) \in Nat \ {0}
      /\ Head(q) = q[1] /\ \A i \in 1..Len(q) - 1 : Tail(q)[i] = q[i + 1]
  BY HeadTailProperties, EmptySeq, LenProperties
<1>2. ASSUME NEW i \in 1..Len(q), i # 1
      PROVE  \E j \in 1..Len(Tail(q)) : Tail(q)[j] = q[i]
  <2>1. i - 1 \in 1..Len(Tail(q)) /\ Tail(q)[i - 1] = q[i]
    BY <1>1, <1>2
  <2> QED BY <2>1
<1> QED BY <1>1, <1>2

LEMMA QueuePut ==
  ASSUME NEW E, NEW q \in Seq(E), NEW e \in E
  PROVE  /\ Append(q, e) \in Seq(E) /\ Len(Append(q, e)) = Len(q) + 1 /\ Len(q) \in Nat
         /\ Append(q, e)[Len(q) + 1] = e
         /\ \A i \in 1..Len(q) : Append(q, e)[i] = q[i]
         /\ Append(q, e) # <<>>
         /\ Head(Append(q, e)) = IF q = <<>> THEN e ELSE Head(q)
         /\ q = <<>> => Append(q, e) = <<e>>
<1> DEFINE r == Append(q, e)
<1>1. /\ r \in Seq(E) /\ Len(r) = Len(q) + 1 /\ Len(q) \in Nat /\ r[Len(q) + 1] = e
      /\ \A i \in 1..Len(q) : r[i] = q[i]
  BY AppendProperties, LenProperties
<1>2. r # <<>> /\ Head(r) = r[1]
  <2>1. r # <<>>
    BY <1>1, EmptySeq
  <2> QED BY <1>1, <2>1, HeadTailProperties
<1>3. q = <<>> => Len(q) = 0
  OBVIOUS
<1>4. q # <<>> => 1 \in 1..Len(q) /\ Head(q) = q[1]
  BY <1>1, EmptySeq, HeadTailProperties
<1>5. q = <<>> => r = <<e>>
  OBVIOUS
<1> QED BY <1>1, <1>2, <1>3, <1>4, <1>5

(* The driver's variables and the queue.                                   *)
StationTypes ==
    /\ app \in Apps /\ link \in {"down", "trying", "up"} /\ retry \in 0..MAX_RETRY
    /\ bits \subseteq {"CONNECTED", "DISCONNECTED", "FAIL", "DONE"}
    /\ tries \in Nat
StationFlags ==
    /\ started \in BOOLEAN /\ scanning \in BOOLEAN /\ group \in BOOLEAN /\ registered \in BOOLEAN
    /\ reconnect \in BOOLEAN /\ wanted \in BOOLEAN /\ missed \in BOOLEAN
QueueTypes ==
    /\ events \in Seq(EventNames) /\ Len(events) <= MaxEvents + 1
    /\ link = "up" => Len(events) <= MaxEvents
NotStarted ==
    main = "boot" => /\ link = "down" /\ events = <<>> /\ bits = {} /\ setup = "off"
                     /\ retry = 0 /\ tries = 0
                     /\ ~started /\ ~scanning /\ ~wanted /\ ~registered
(* What stays as the start-up code left it, and what belongs to whom.      *)
StaysStarted ==
    /\ Station!Running /\ main # "boot" /\ app # "connect" => started
    /\ Station!Running /\ main # "boot" /\ app \notin {"station", "connect"} => registered /\ group
    /\ app = "station" /\ registered => group
    /\ app = "station" /\ main = "waiting" => registered
    /\ app = "station" /\ main \in {"connected", "failed"} => ~registered
    /\ app = "connect" /\ main \in {"waiting", "connected"} => started /\ group
    /\ app = "connect" => main \in {"boot", "waiting", "connected", "leaving", "left", "aborted"}
    /\ app = "connect" /\ main \in {"leaving", "left"} => ~group
    /\ app = "connect" /\ ~started => (~wanted \/ main = "aborted")
    /\ scanning => app \in {"iperf", "roaming"}
    /\ "FAIL" \in bits => app = "station"
    /\ setup = "on" => app \in {"wps", "smartconfig"}
    /\ app = "iperf" /\ wanted /\ ~reconnect /\ Station!Running => main = "unjoin"
    /\ main = "unjoin" => app = "iperf"
    /\ main = "failed" => app = "station" /\ "FAIL" \in bits
    /\ app = "station" => main \in {"boot", "waiting", "connected", "failed", "aborted"}
    /\ app = "connect" /\ ~registered => main \in {"boot", "left", "aborted"}
    /\ main = "left" => ~started /\ ~wanted
(* Until the station example has an address, one thing at a time goes on,  *)
(* and it has failed as often as it was retried, or once more.             *)
StationPhases == app = "station" =>
    /\ main = "failed" => ~registered /\ link = "down" /\ tries > MAX_RETRY /\ "CONNECTED" \notin bits
    /\ registered /\ "CONNECTED" \notin bits =>
        \/ /\ ~wanted /\ events = <<"START">> /\ link = "down"
           /\ tries = 0 /\ retry = 0 /\ "FAIL" \notin bits
        \/ link = "trying" /\ events = <<>> /\ tries = retry /\ "FAIL" \notin bits
        \/ link = "down" /\ events = <<"DISCONNECTED">> /\ tries = retry + 1 /\ "FAIL" \notin bits
        \/ events # <<>> /\ Head(events) = "GOT_IP" /\ "FAIL" \notin bits
        \/ link = "down" /\ events = <<>> /\ tries > MAX_RETRY /\ "FAIL" \in bits
Unbroken == wanted /\ Station!Running /\ link = "down" /\ ~Station!Pending
             => missed \/ "FAIL" \in bits \/ ~registered \/ main = "unjoin"
StationInv == StationTypes /\ StationFlags /\ QueueTypes
              /\ NotStarted /\ StaysStarted /\ StationPhases /\ Unbroken /\ Station!AbortsOnlyThere

LEMMA StationInit == ASSUME StationAssumption PROVE Station!Init => StationInv
<1> SUFFICES ASSUME Station!Init PROVE StationInv
  OBVIOUS
<1> USE DEF Station!Init, StationAssumption
<1>1. QueueTypes
  BY EmptySeq DEF QueueTypes
<1>2. StationTypes
  BY DEF StationTypes
<1>3. StationFlags /\ NotStarted
  BY DEF StationFlags, NotStarted
<1>4. StaysStarted /\ StationPhases /\ Unbroken /\ Station!AbortsOnlyThere
  BY DEF StaysStarted, StationPhases, Unbroken, Station!AbortsOnlyThere, Station!Running
<1> QED BY <1>1, <1>2, <1>3, <1>4 DEF StationInv

(* What the steps do to the queue.                                         *)
LEMMA QueueFacts ==
  ASSUME StationInv
  PROVE  /\ events \in Seq(EventNames) /\ Len(events) \in Nat
         /\ events # <<>> => /\ Tail(events) \in Seq(EventNames) /\ Len(Tail(events)) = Len(events) - 1
                             /\ Len(events) > 0
                             /\ Len(Append(Tail(events), "DISCONNECTED")) = Len(events)
                             /\ Append(Tail(events), "DISCONNECTED") \in Seq(EventNames)
         /\ \A e \in EventNames : /\ Append(events, e) \in Seq(EventNames)
                                  /\ Len(Append(events, e)) = Len(events) + 1
<1>1. events \in Seq(EventNames) /\ Len(events) \in Nat
  BY LenProperties DEF StationInv, QueueTypes
<1>2. "DISCONNECTED" \in EventNames
  BY DEF EventNames
<1> QED BY <1>1, <1>2, QueueTaken, QueuePut

LEMMA StillPending ==
  ASSUME StationInv, events # <<>>, Head(events) # "DISCONNECTED", events' = Tail(events),
         Station!Pending
  PROVE  Station!Pending'
<1>1. events \in Seq(EventNames)
  BY DEF StationInv, QueueTypes
<1>2. PICK i \in 1..Len(events) : events[i] = "DISCONNECTED"
  BY <1>1 DEF Station!Pending
<1>3. i # 1
  BY <1>1, <1>2, QueueTaken
<1>4. Tail(events) \in Seq(EventNames) /\ \E j \in 1..Len(Tail(events)) : Tail(events)[j] = events[i]
  BY <1>1, <1>2, <1>3, QueueTaken
<1>5. \A q \in Seq(EventNames) : DOMAIN q = 1..Len(q)
  BY LenProperties
<1>6. \E j \in DOMAIN Tail(events) : Tail(events)[j] = "DISCONNECTED"
  BY <1>2, <1>4, <1>5
<1> QED BY <1>6 DEF Station!Pending

LEMMA PendingKept ==
  ASSUME StationInv, NEW e \in EventNames, events' = Append(events, e), Station!Pending
  PROVE  Station!Pending'
<1>1. events \in Seq(EventNames)
  BY DEF StationInv, QueueTypes
<1>2. PICK i \in 1..Len(events) : events[i] = "DISCONNECTED"
  BY <1>1 DEF Station!Pending
<1>3. DOMAIN events' = 1..Len(events) + 1 /\ events'[i] = events[i] /\ Len(events) \in Nat
  BY <1>1, QueuePut, LenProperties
<1> QED BY <1>2, <1>3 DEF Station!Pending

LEMMA StationTypesStep ==
  ASSUME StationAssumption, StationInv, [Station!Next]_(Station!vars)
  PROVE  StationTypes'
<1> USE DEF StationInv, StationTypes, StationFlags, NotStarted, StationAssumption
<1> USE DEF Station!drv, Station!hist, Station!Same, Station!NoConnect, Station!Event,
            Station!esp_wifi_connect, Station!Refused, Station!Checked, Station!Dropped,
            Station!Running, Station!DriverPosts, Station!StartApp, Station!Start,
            Station!Reconnects
<1>1. CASE Station!AttemptEnds \/ Station!LinkLost \/ Station!ScanEnds \/ Station!SetupEvent
  <2>1. CASE Station!AttemptEnds
    BY <2>1 DEF Station!AttemptEnds
  <2>2. CASE Station!LinkLost
    BY <2>2 DEF Station!LinkLost
  <2>3. CASE Station!ScanEnds
    BY <2>3 DEF Station!ScanEnds
  <2>4. CASE Station!SetupEvent
    BY <2>4 DEF Station!SetupEvent
  <2> QED BY <1>1, <2>1, <2>2, <2>3, <2>4
<1>2. CASE Station!StartStation \/ Station!StartWpa2 \/ Station!StartRoaming \/
           Station!StartSmartConfig \/ Station!StartIperf \/ Station!StartConsole \/
           Station!start_wps \/ Station!example_connect
  BY <1>2 DEF Station!StartStation, Station!StartWpa2, Station!StartRoaming,
              Station!StartSmartConfig, Station!StartIperf, Station!StartConsole,
              Station!start_wps, Station!example_connect
<1>3. CASE Station!StationDisconnected
  <2>1. retry' \in 0..MAX_RETRY
    BY <1>3 DEF Station!StationDisconnected, Station!BitSet
  <2>2. bits' \subseteq {"CONNECTED", "DISCONNECTED", "FAIL", "DONE"}
    BY <1>3 DEF Station!StationDisconnected, Station!BitSet
  <2>3. app' \in Apps /\ link' \in {"down", "trying", "up"} /\ tries' \in Nat
    BY <1>3 DEF Station!StationDisconnected, Station!BitSet
  <2> QED BY <2>1, <2>2, <2>3
<1>4. CASE Station!ConnectAtStart \/ Station!IperfDisconnected
  BY <1>4 DEF Station!ConnectAtStart, Station!IperfDisconnected
<1>5. CASE Station!Wpa2Disconnected \/ Station!RoamingDisconnected \/
           Station!ConsoleDisconnected \/ Station!SmartConfigDisconnected
  BY <1>5 DEF Station!Wpa2Disconnected, Station!RoamingDisconnected, Station!ConsoleDisconnected,
              Station!SmartConfigDisconnected
<1>6. CASE Station!WpsDisconnected \/ Station!on_wifi_disconnect \/ Station!WpsSuccess
  BY <1>6 DEF Station!WpsDisconnected, Station!on_wifi_disconnect, Station!WpsSuccess
<1>7. CASE Station!SendAckDone \/ Station!SmartConfigTaskStarts \/ Station!WpsFailed \/
           Station!Ignored \/ Station!GotIp
  <2>1. CASE Station!SendAckDone
    BY <2>1 DEF Station!SendAckDone
  <2>2. CASE Station!SmartConfigTaskStarts
    BY <2>2 DEF Station!SmartConfigTaskStarts
  <2>3. CASE Station!WpsFailed
    BY <2>3 DEF Station!WpsFailed
  <2>4. CASE Station!Ignored
    BY <2>4 DEF Station!Ignored
  <2>5. CASE Station!GotIp
    BY <2>5 DEF Station!GotIp, Station!BitSet
  <2> QED BY <1>7, <2>1, <2>2, <2>3, <2>4, <2>5
<1>8. CASE Station!GotSsidPswd
  BY <1>8 DEF Station!GotSsidPswd
<1>9. CASE Station!StationUnregisters \/ Station!StationDeletesGroup \/ Station!ConnectReturns \/
           Station!StopUnregisters \/ Station!example_disconnect \/ Station!JoinReturns \/
           Station!IperfScan \/ Station!RoamingScan \/ Station!SmartConfigWaits
  BY <1>9 DEF Station!StationUnregisters, Station!StationDeletesGroup, Station!ConnectReturns,
              Station!StopUnregisters, Station!example_disconnect, Station!JoinReturns,
              Station!IperfScan, Station!RoamingScan, Station!SmartConfigWaits
<1>10. CASE Station!ConsoleJoin \/ Station!IperfJoin
  BY <1>10 DEF Station!ConsoleJoin, Station!IperfJoin
<1>11. CASE Station!StopWifi \/ Station!IperfLeave \/ Station!IperfAp
  BY <1>11 DEF Station!StopWifi, Station!IperfLeave, Station!IperfAp
<1>12. CASE UNCHANGED Station!vars
  BY <1>12 DEF Station!vars
<1> QED BY <1>1, <1>2, <1>3, <1>4, <1>5, <1>6, <1>7, <1>8, <1>9, <1>10, <1>11, <1>12
       DEF Station!Next, Station!EventTask, Station!Boot, Station!Task, Station!User, Station!Driver

LEMMA StationFlagsStep ==
  ASSUME StationAssumption, StationInv, [Station!Next]_(Station!vars)
  PROVE  StationFlags'
<1> USE DEF StationInv, StationFlags
<1> USE DEF Station!drv, Station!hist, Station!Same, Station!NoConnect, Station!Event,
            Station!esp_wifi_connect, Station!Refused, Station!Checked, Station!Dropped,
            Station!Running, Station!DriverPosts, Station!StartApp, Station!Start,
            Station!Reconnects
<1>1. CASE Station!AttemptEnds \/ Station!LinkLost \/ Station!ScanEnds \/ Station!SetupEvent
  BY <1>1 DEF Station!AttemptEnds, Station!LinkLost, Station!ScanEnds, Station!SetupEvent
<1>2. CASE Station!StartStation \/ Station!StartWpa2 \/ Station!StartRoaming \/
           Station!StartSmartConfig \/ Station!StartIperf \/ Station!StartConsole \/
           Station!start_wps \/ Station!example_connect
  BY <1>2 DEF Station!StartStation, Station!StartWpa2, Station!StartRoaming,
              Station!StartSmartConfig, Station!StartIperf, Station!StartConsole,
              Station!start_wps, Station!example_connect
<1>3. CASE Station!StationDisconnected
  BY <1>3 DEF Station!StationDisconnected, Station!BitSet
<1>4. CASE Station!ConnectAtStart \/ Station!IperfDisconnected
  BY <1>4 DEF Station!ConnectAtStart, Station!IperfDisconnected
<1>5. CASE Station!Wpa2Disconnected \/ Station!RoamingDisconnected \/
           Station!ConsoleDisconnected \/ Station!SmartConfigDisconnected
  BY <1>5 DEF Station!Wpa2Disconnected, Station!RoamingDisconnected, Station!ConsoleDisconnected,
              Station!SmartConfigDisconnected
<1>6. CASE Station!WpsDisconnected \/ Station!on_wifi_disconnect \/ Station!WpsSuccess
  BY <1>6 DEF Station!WpsDisconnected, Station!on_wifi_disconnect, Station!WpsSuccess
<1>7. CASE Station!SendAckDone \/ Station!SmartConfigTaskStarts \/ Station!WpsFailed \/
           Station!Ignored \/ Station!GotIp
  BY <1>7 DEF Station!SendAckDone, Station!SmartConfigTaskStarts, Station!WpsFailed,
              Station!Ignored, Station!GotIp, Station!BitSet
<1>8. CASE Station!GotSsidPswd
  BY <1>8 DEF Station!GotSsidPswd
<1>9. CASE Station!StationUnregisters \/ Station!StationDeletesGroup \/ Station!ConnectReturns \/
           Station!StopUnregisters \/ Station!example_disconnect \/ Station!JoinReturns \/
           Station!IperfScan \/ Station!RoamingScan \/ Station!SmartConfigWaits
  BY <1>9 DEF Station!StationUnregisters, Station!StationDeletesGroup, Station!ConnectReturns,
              Station!StopUnregisters, Station!example_disconnect, Station!JoinReturns,
              Station!IperfScan, Station!RoamingScan, Station!SmartConfigWaits
<1>10. CASE Station!ConsoleJoin \/ Station!IperfJoin
  BY <1>10 DEF Station!ConsoleJoin, Station!IperfJoin
<1>11. CASE Station!StopWifi \/ Station!IperfLeave \/ Station!IperfAp
  BY <1>11 DEF Station!StopWifi, Station!IperfLeave, Station!IperfAp
<1>12. CASE UNCHANGED Station!vars
  BY <1>12 DEF Station!vars
<1> QED BY <1>1, <1>2, <1>3, <1>4, <1>5, <1>6, <1>7, <1>8, <1>9, <1>10, <1>11, <1>12
       DEF Station!Next, Station!EventTask, Station!Boot, Station!Task, Station!User, Station!Driver

LEMMA QueueTypesStep ==
  ASSUME StationAssumption, StationInv, [Station!Next]_(Station!vars)
  PROVE  QueueTypes'
<1> USE DEF StationInv, StationTypes, StationFlags, QueueTypes, NotStarted, EventNames,
            StationAssumption
<1> USE DEF Station!drv, Station!hist, Station!Same, Station!NoConnect, Station!Event,
            Station!esp_wifi_connect, Station!Refused, Station!Checked, Station!Dropped,
            Station!Running, Station!DriverPosts, Station!StartApp, Station!Start,
            Station!Reconnects
<1>1. CASE Station!AttemptEnds \/ Station!LinkLost \/ Station!ScanEnds \/ Station!SetupEvent
  <2>1. CASE Station!AttemptEnds
    BY <2>1, QueueFacts DEF Station!AttemptEnds
  <2>2. CASE Station!LinkLost
    BY <2>2, QueueFacts DEF Station!LinkLost
  <2>3. CASE Station!ScanEnds
    BY <2>3, QueueFacts DEF Station!ScanEnds
  <2>4. CASE Station!SetupEvent
    BY <2>4, QueueFacts DEF Station!SetupEvent
  <2> QED BY <1>1, <2>1, <2>2, <2>3, <2>4
<1>2. CASE Station!StartStation \/ Station!StartWpa2 \/ Station!StartRoaming \/
           Station!StartSmartConfig \/ Station!StartIperf \/ Station!StartConsole \/
           Station!start_wps \/ Station!example_connect
  <2>1. CASE Station!StartStation
    BY <2>1, QueueFacts DEF Station!StartStation
  <2>2. CASE Station!StartWpa2
    BY <2>2, QueueFacts DEF Station!StartWpa2
  <2>3. CASE Station!StartRoaming
    BY <2>3, QueueFacts DEF Station!StartRoaming
  <2>4. CASE Station!StartSmartConfig
    BY <2>4, QueueFacts DEF Station!StartSmartConfig
  <2>5. CASE Station!StartIperf
    BY <2>5, QueueFacts DEF Station!StartIperf
  <2>6. CASE Station!StartConsole
    BY <2>6, QueueFacts DEF Station!StartConsole
  <2>7. CASE Station!start_wps
    BY <2>7, QueueFacts DEF Station!start_wps
  <2>8. CASE Station!example_connect
    BY <2>8, QueueFacts DEF Station!example_connect
  <2> QED BY <1>2, <2>1, <2>2, <2>3, <2>4, <2>5, <2>6, <2>7, <2>8
<1>3. CASE Station!StationDisconnected
  BY <1>3, QueueFacts DEF Station!StationDisconnected, Station!BitSet
<1>4. CASE Station!ConnectAtStart \/ Station!IperfDisconnected
  <2>1. CASE Station!ConnectAtStart
    BY <2>1, QueueFacts DEF Station!ConnectAtStart
  <2>2. CASE Station!IperfDisconnected
    BY <2>2, QueueFacts DEF Station!IperfDisconnected
  <2> QED BY <1>4, <2>1, <2>2
<1>5. CASE Station!Wpa2Disconnected \/ Station!RoamingDisconnected \/
           Station!ConsoleDisconnected \/ Station!SmartConfigDisconnected
  BY <1>5, QueueFacts DEF Station!Wpa2Disconnected, Station!RoamingDisconnected,
                          Station!ConsoleDisconnected, Station!SmartConfigDisconnected
<1>6. CASE Station!WpsDisconnected \/ Station!on_wifi_disconnect \/ Station!WpsSuccess
  BY <1>6, QueueFacts DEF Station!WpsDisconnected, Station!on_wifi_disconnect, Station!WpsSuccess
<1>7. CASE Station!SendAckDone \/ Station!SmartConfigTaskStarts \/ Station!WpsFailed \/
           Station!Ignored \/ Station!GotIp
  <2>1. CASE Station!SendAckDone
    BY <2>1, QueueFacts DEF Station!SendAckDone
  <2>2. CASE Station!SmartConfigTaskStarts
    BY <2>2, QueueFacts DEF Station!SmartConfigTaskStarts
  <2>3. CASE Station!WpsFailed
    BY <2>3, QueueFacts DEF Station!WpsFailed
  <2>4. CASE Station!Ignored
    BY <2>4, QueueFacts DEF Station!Ignored
  <2>5. CASE Station!GotIp
    BY <2>5, QueueFacts DEF Station!GotIp, Station!BitSet
  <2> QED BY <1>7, <2>1, <2>2, <2>3, <2>4, <2>5
<1>8. CASE Station!GotSsidPswd
  BY <1>8, QueueFacts DEF Station!GotSsidPswd
<1>9. CASE Station!StationUnregisters \/ Station!StationDeletesGroup \/ Station!ConnectReturns \/
           Station!StopUnregisters \/ Station!example_disconnect \/ Station!JoinReturns \/
           Station!IperfScan \/ Station!RoamingScan \/ Station!SmartConfigWaits
  BY <1>9 DEF Station!StationUnregisters, Station!StationDeletesGroup, Station!ConnectReturns,
              Station!StopUnregisters, Station!example_disconnect, Station!JoinReturns,
              Station!IperfScan, Station!RoamingScan, Station!SmartConfigWaits
<1>10. CASE Station!ConsoleJoin \/ Station!IperfJoin
  BY <1>10 DEF Station!ConsoleJoin, Station!IperfJoin
<1>11. CASE Station!StopWifi \/ Station!IperfLeave \/ Station!IperfAp
  <2>1. CASE Station!StopWifi
    BY <2>1, QueueFacts DEF Station!StopWifi
  <2>2. CASE Station!IperfLeave
    BY <2>2, QueueFacts DEF Station!IperfLeave
  <2>3. CASE Station!IperfAp
    BY <2>3, QueueFacts DEF Station!IperfAp
  <2> QED BY <1>11, <2>1, <2>2, <2>3
<1>12. CASE UNCHANGED Station!vars
  BY <1>12 DEF Station!vars
<1> QED BY <1>1, <1>2, <1>3, <1>4, <1>5, <1>6, <1>7, <1>8, <1>9, <1>10, <1>11, <1>12
       DEF Station!Next, Station!EventTask, Station!Boot, Station!Task, Station!User, Station!Driver

LEMMA StaysStartedStep ==
  ASSUME StationAssumption, StationInv, [Station!Next]_(Station!vars)
  PROVE  NotStarted' /\ StaysStarted'
<1> USE DEF StationInv, StationTypes, StationFlags, NotStarted, StaysStarted, StationPhases,
            Station!AbortsOnlyThere
<1> USE DEF Station!drv, Station!hist, Station!Same, Station!NoConnect, Station!Event,
            Station!esp_wifi_connect, Station!Refused, Station!Checked, Station!Dropped,
            Station!Running, Station!DriverPosts, Station!StartApp, Station!Start,
            Station!Reconnects
<1>1. CASE Station!AttemptEnds \/ Station!LinkLost \/ Station!ScanEnds \/ Station!SetupEvent
  BY <1>1 DEF Station!AttemptEnds, Station!LinkLost, Station!ScanEnds, Station!SetupEvent
<1>2. CASE Station!StartStation \/ Station!StartWpa2 \/ Station!StartRoaming \/
           Station!StartSmartConfig \/ Station!StartIperf \/ Station!StartConsole \/
           Station!start_wps \/ Station!example_connect
  BY <1>2 DEF Station!StartStation, Station!StartWpa2, Station!StartRoaming,
              Station!StartSmartConfig, Station!StartIperf, Station!StartConsole,
              Station!start_wps, Station!example_connect
<1>3. CASE Station!StationDisconnected
  BY <1>3 DEF Station!StationDisconnected, Station!BitSet
<1>4. CASE Station!ConnectAtStart \/ Station!IperfDisconnected
  BY <1>4 DEF Station!ConnectAtStart, Station!IperfDisconnected
<1>5. CASE Station!Wpa2Disconnected \/ Station!RoamingDisconnected \/
           Station!ConsoleDisconnected \/ Station!SmartConfigDisconnected
  BY <1>5 DEF Station!Wpa2Disconnected, Station!RoamingDisconnected, Station!ConsoleDisconnected,
              Station!SmartConfigDisconnected
<1>6. CASE Station!WpsDisconnected \/ Station!on_wifi_disconnect \/ Station!WpsSuccess
  BY <1>6 DEF Station!WpsDisconnected, Station!on_wifi_disconnect, Station!WpsSuccess
<1>7. CASE Station!SendAckDone \/ Station!SmartConfigTaskStarts \/ Station!WpsFailed \/
           Station!Ignored \/ Station!GotIp
  BY <1>7 DEF Station!SendAckDone, Station!SmartConfigTaskStarts, Station!WpsFailed,
              Station!Ignored, Station!GotIp, Station!BitSet
<1>8. CASE Station!GotSsidPswd
  BY <1>8 DEF Station!GotSsidPswd
<1>9. CASE Station!StationUnregisters \/ Station!StationDeletesGroup \/ Station!ConnectReturns \/
           Station!StopUnregisters \/ Station!example_disconnect \/ Station!JoinReturns \/
           Station!IperfScan \/ Station!RoamingScan \/ Station!SmartConfigWaits
  <2>1. CASE Station!StationUnregisters
    BY <2>1 DEF Station!StationUnregisters
  <2>2. CASE Station!StationDeletesGroup
    BY <2>2 DEF Station!StationDeletesGroup
  <2>3. CASE Station!ConnectReturns
    BY <2>3 DEF Station!ConnectReturns
  <2>4. CASE Station!StopUnregisters
    BY <2>4 DEF Station!StopUnregisters
  <2>5. CASE Station!example_disconnect
    BY <2>5 DEF Station!example_disconnect
  <2>6. CASE Station!JoinReturns
    BY <2>6 DEF Station!JoinReturns
  <2>7. CASE Station!IperfScan
    BY <2>7 DEF Station!IperfScan
  <2>8. CASE Station!RoamingScan
    BY <2>8 DEF Station!RoamingScan
  <2>9. CASE Station!SmartConfigWaits
    BY <2>9 DEF Station!SmartConfigWaits
  <2> QED BY <1>9, <2>1, <2>2, <2>3, <2>4, <2>5, <2>6, <2>7, <2>8, <2>9
<1>10. CASE Station!ConsoleJoin \/ Station!IperfJoin
  BY <1>10 DEF Station!ConsoleJoin, Station!IperfJoin
<1>11. CASE Station!StopWifi \/ Station!IperfLeave \/ Station!IperfAp
  BY <1>11 DEF Station!StopWifi, Station!IperfLeave, Station!IperfAp
<1>12. CASE UNCHANGED Station!vars
  BY <1>12 DEF Station!vars
<1> QED BY <1>1, <1>2, <1>3, <1>4, <1>5, <1>6, <1>7, <1>8, <1>9, <1>10, <1>11, <1>12
       DEF Station!Next, Station!EventTask, Station!Boot, Station!Task, Station!User, Station!Driver

LEMMA StationPhasesStep ==
  ASSUME StationAssumption, StationInv, [Station!Next]_(Station!vars)
  PROVE  StationPhases'
<1> USE DEF StationInv, StationTypes, StationFlags, NotStarted, StaysStarted, StationPhases,
            StationAssumption, Station!AbortsOnlyThere, QueueTypes
<1> USE DEF Station!drv, Station!hist, Station!Same, Station!NoConnect, Station!Event,
            Station!esp_wifi_connect, Station!Refused, Station!Checked, Station!Dropped,
            Station!Running, Station!DriverPosts, Station!StartApp, Station!Start,
            Station!Reconnects
<1>1. CASE Station!AttemptEnds \/ Station!LinkLost \/ Station!ScanEnds \/ Station!SetupEvent
  <2>1. CASE Station!AttemptEnds
    <3> SUFFICES ASSUME app = "station" PROVE StationPhases'
      BY <2>1 DEF Station!AttemptEnds
    <3> USE <2>1 DEF Station!AttemptEnds
    <3>1. /\ link = "trying" /\ main # "failed" /\ main' = main
          /\ registered' = registered /\ bits' = bits /\ retry' = retry
      OBVIOUS
    <3>2. CASE ~(registered /\ "CONNECTED" \notin bits)
      BY <3>1, <3>2
    <3>3. CASE registered /\ "CONNECTED" \notin bits
      <4>1. CASE events = <<>>
        <5>1. tries = retry /\ tries \in Nat /\ tries <= MAX_RETRY /\ "FAIL" \notin bits
          BY <3>1, <3>3, <4>1
        <5>2. \/ events' = <<"GOT_IP">>
              \/ events' = <<"DISCONNECTED">> /\ link' = "down" /\ tries' = retry + 1
          BY <3>1, <4>1, <5>1
        <5> QED BY <3>1, <5>1, <5>2
      <4>2. CASE events # <<>>
        <5>1. Head(events) = "GOT_IP" /\ "FAIL" \notin bits
          BY <3>1, <3>3, <4>2
        <5>2. \E e \in EventNames : events' = Append(events, e)
          BY DEF EventNames
        <5>3. events' # <<>> /\ Head(events') = Head(events)
          BY <4>2, <5>2, QueuePut
        <5> QED BY <3>1, <5>1, <5>3
      <4> QED BY <4>1, <4>2
    <3> QED BY <3>2, <3>3
  <2>2. CASE Station!LinkLost
    BY <2>2, QueueTaken, QueuePut DEF Station!LinkLost
  <2>3. CASE Station!ScanEnds \/ Station!SetupEvent
    BY <2>3 DEF Station!ScanEnds, Station!SetupEvent
  <2> QED BY <1>1, <2>1, <2>2, <2>3
<1>2. CASE Station!StartStation \/ Station!StartWpa2 \/ Station!StartRoaming \/
           Station!StartSmartConfig \/ Station!StartIperf \/ Station!StartConsole \/
           Station!start_wps \/ Station!example_connect
  BY <1>2 DEF Station!StartStation, Station!StartWpa2, Station!StartRoaming,
              Station!StartSmartConfig, Station!StartIperf, Station!StartConsole,
              Station!start_wps, Station!example_connect
<1>3. CASE Station!StationDisconnected
  <2>1. /\ app = "station" /\ main' \in {main, "aborted"} /\ registered' = registered /\ registered
        /\ group /\ main' = main /\ tries' = tries /\ main # "failed"
        /\ "CONNECTED" \in bits' <=> "CONNECTED" \in bits
    BY <1>3 DEF Station!StationDisconnected, Station!BitSet
  <2>2. CASE "CONNECTED" \in bits
    BY <2>1, <2>2
  <2>3. CASE "CONNECTED" \notin bits
    <3>1. events = <<"DISCONNECTED">> /\ link = "down" /\ tries = retry + 1 /\ "FAIL" \notin bits
      BY <1>3, <2>1, <2>3 DEF Station!StationDisconnected
    <3>2. events' = <<>>
      BY <1>3, <3>1 DEF Station!StationDisconnected
    <3>3. CASE retry < MAX_RETRY
      <4>1. started /\ ~scanning
        BY <1>3, <2>1 DEF Station!StationDisconnected
      <4>2. link' = "trying" /\ retry' = retry + 1 /\ "FAIL" \notin bits'
        BY <1>3, <3>1, <3>3, <4>1 DEF Station!StationDisconnected
      <4> QED BY <2>1, <2>3, <3>1, <3>2, <4>2
    <3>4. CASE ~(retry < MAX_RETRY)
      <4>1. link' = "down" /\ "FAIL" \in bits' /\ tries' > MAX_RETRY
        BY <1>3, <2>1, <3>1, <3>4 DEF Station!StationDisconnected
      <4> QED BY <2>1, <2>3, <3>2, <4>1
    <3> QED BY <3>3, <3>4
  <2> QED BY <2>2, <2>3
<1>4. CASE Station!ConnectAtStart \/ Station!IperfDisconnected
  <2>1. CASE Station!ConnectAtStart
    BY <2>1, QueueTaken DEF Station!ConnectAtStart
  <2>2. CASE Station!IperfDisconnected
    BY <2>2, QueueTaken DEF Station!IperfDisconnected
  <2> QED BY <1>4, <2>1, <2>2
<1>5. CASE Station!Wpa2Disconnected \/ Station!RoamingDisconnected \/
           Station!ConsoleDisconnected \/ Station!SmartConfigDisconnected
  BY <1>5, QueueTaken DEF Station!Wpa2Disconnected, Station!RoamingDisconnected,
                          Station!ConsoleDisconnected, Station!SmartConfigDisconnected
<1>6. CASE Station!WpsDisconnected \/ Station!on_wifi_disconnect \/ Station!WpsSuccess
  BY <1>6, QueueTaken DEF Station!WpsDisconnected, Station!on_wifi_disconnect, Station!WpsSuccess
<1>7. CASE Station!SendAckDone \/ Station!SmartConfigTaskStarts \/ Station!WpsFailed \/
           Station!Ignored \/ Station!GotIp
  BY <1>7, QueueTaken DEF Station!SendAckDone, Station!SmartConfigTaskStarts, Station!WpsFailed,
                          Station!Ignored, Station!GotIp, Station!BitSet
<1>8. CASE Station!GotSsidPswd
  BY <1>8, QueueTaken, QueuePut DEF Station!GotSsidPswd
<1>9. CASE Station!StationUnregisters \/ Station!StationDeletesGroup \/ Station!ConnectReturns \/
           Station!StopUnregisters \/ Station!example_disconnect \/ Station!JoinReturns \/
           Station!IperfScan \/ Station!RoamingScan \/ Station!SmartConfigWaits
  <2>1. CASE Station!StationUnregisters
    BY <2>1 DEF Station!StationUnregisters
  <2>2. CASE Station!StationDeletesGroup
    BY <2>2 DEF Station!StationDeletesGroup
  <2>3. CASE Station!ConnectReturns
    BY <2>3 DEF Station!ConnectReturns
  <2>4. CASE Station!StopUnregisters
    BY <2>4 DEF Station!StopUnregisters
  <2>5. CASE Station!example_disconnect
    BY <2>5 DEF Station!example_disconnect
  <2>6. CASE Station!JoinReturns
    BY <2>6 DEF Station!JoinReturns
  <2>7. CASE Station!IperfScan
    BY <2>7 DEF Station!IperfScan
  <2>8. CASE Station!RoamingScan
    BY <2>8 DEF Station!RoamingScan
  <2>9. CASE Station!SmartConfigWaits
    BY <2>9 DEF Station!SmartConfigWaits
  <2> QED BY <1>9, <2>1, <2>2, <2>3, <2>4, <2>5, <2>6, <2>7, <2>8, <2>9
<1>10. CASE Station!ConsoleJoin \/ Station!IperfJoin
  BY <1>10 DEF Station!ConsoleJoin, Station!IperfJoin
<1>11. CASE Station!StopWifi \/ Station!IperfLeave \/ Station!IperfAp
  BY <1>11, QueuePut DEF Station!StopWifi, Station!IperfLeave, Station!IperfAp
<1>12. CASE UNCHANGED Station!vars
  BY <1>12 DEF Station!vars
<1> QED BY <1>1, <1>2, <1>3, <1>4, <1>5, <1>6, <1>7, <1>8, <1>9, <1>10, <1>11, <1>12
       DEF Station!Next, Station!EventTask, Station!Boot, Station!Task, Station!User, Station!Driver

LEMMA StationChainStep ==
  ASSUME StationAssumption, StationInv, [Station!Next]_(Station!vars)
  PROVE  Unbroken' /\ Station!AbortsOnlyThere'
<1> USE DEF StationInv, StationTypes, StationFlags, NotStarted, StaysStarted, StationPhases,
            Unbroken, Station!AbortsOnlyThere, Station!Pending, QueueTypes
<1> USE DEF Station!drv, Station!hist, Station!Same, Station!NoConnect, Station!Event,
            Station!esp_wifi_connect, Station!Refused, Station!Checked, Station!Dropped,
            Station!Running, Station!DriverPosts, Station!StartApp, Station!Start,
            Station!Reconnects
<1>1. CASE Station!AttemptEnds \/ Station!LinkLost \/ Station!ScanEnds \/ Station!SetupEvent
  <2>1. CASE Station!AttemptEnds
    BY <2>1, QueuePut DEF Station!AttemptEnds
  <2>2. CASE Station!LinkLost
    BY <2>2, QueuePut DEF Station!LinkLost
  <2>3. CASE Station!ScanEnds
    BY <2>3, QueuePut DEF Station!ScanEnds
  <2>4. CASE Station!SetupEvent
    BY <2>4, QueuePut DEF Station!SetupEvent
  <2> QED BY <1>1, <2>1, <2>2, <2>3, <2>4
<1>2. CASE Station!StartStation \/ Station!StartWpa2 \/ Station!StartRoaming \/
           Station!StartSmartConfig \/ Station!StartIperf \/ Station!StartConsole \/
           Station!start_wps \/ Station!example_connect
  BY <1>2 DEF Station!StartStation, Station!StartWpa2, Station!StartRoaming,
              Station!StartSmartConfig, Station!StartIperf, Station!StartConsole,
              Station!start_wps, Station!example_connect
<1>3. CASE Station!StationDisconnected
  BY <1>3, QueueTaken DEF Station!StationDisconnected, Station!BitSet
<1>4. CASE Station!ConnectAtStart \/ Station!IperfDisconnected
  BY <1>4, QueueTaken DEF Station!ConnectAtStart, Station!IperfDisconnected
<1>5. CASE Station!Wpa2Disconnected \/ Station!RoamingDisconnected \/
           Station!ConsoleDisconnected \/ Station!SmartConfigDisconnected
  BY <1>5, QueueTaken DEF Station!Wpa2Disconnected, Station!RoamingDisconnected,
                          Station!ConsoleDisconnected, Station!SmartConfigDisconnected
<1>6. CASE Station!WpsDisconnected \/ Station!on_wifi_disconnect \/ Station!WpsSuccess
  BY <1>6, QueueTaken DEF Station!WpsDisconnected, Station!on_wifi_disconnect, Station!WpsSuccess
<1>7. CASE Station!SendAckDone \/ Station!SmartConfigTaskStarts \/ Station!WpsFailed \/
           Station!Ignored \/ Station!GotIp
  <2> HIDE DEF Station!Pending
  <2> USE <1>7 DEF Station!SendAckDone, Station!SmartConfigTaskStarts, Station!WpsFailed,
                   Station!Ignored, Station!GotIp, Station!BitSet
  <2>1. registered => events # <<>> /\ Head(events) # "DISCONNECTED" /\ events' = Tail(events)
    OBVIOUS
  <2>2. registered => (Station!Pending => Station!Pending')
    BY <2>1, StillPending
  <2>3. /\ link' = link /\ wanted' = wanted /\ missed' = missed /\ registered' = registered
        /\ "FAIL" \in bits => "FAIL" \in bits'
        /\ main' # "aborted" => main # "aborted"
        /\ main = "unjoin" /\ main' # "aborted" => main' = "unjoin"
    OBVIOUS
  <2>4. Unbroken'
    BY <2>2, <2>3
  <2>5. Station!AbortsOnlyThere'
    OBVIOUS
  <2> QED BY <2>4, <2>5
<1>8. CASE Station!GotSsidPswd
  BY <1>8, QueueTaken, QueuePut DEF Station!GotSsidPswd
<1>9. CASE Station!StationUnregisters \/ Station!StationDeletesGroup \/ Station!ConnectReturns \/
           Station!StopUnregisters \/ Station!example_disconnect \/ Station!JoinReturns \/
           Station!IperfScan \/ Station!RoamingScan \/ Station!SmartConfigWaits
  BY <1>9 DEF Station!StationUnregisters, Station!StationDeletesGroup, Station!ConnectReturns,
              Station!StopUnregisters, Station!example_disconnect, Station!JoinReturns,
              Station!IperfScan, Station!RoamingScan, Station!SmartConfigWaits
<1>10. CASE Station!ConsoleJoin \/ Station!IperfJoin
  BY <1>10 DEF Station!ConsoleJoin, Station!IperfJoin
<1>11. CASE Station!StopWifi \/ Station!IperfLeave \/ Station!IperfAp
  BY <1>11, QueuePut DEF Station!StopWifi, Station!IperfLeave, Station!IperfAp
<1>12. CASE UNCHANGED Station!vars
  BY <1>12 DEF Station!vars
<1> QED BY <1>1, <1>2, <1>3, <1>4, <1>5, <1>6, <1>7, <1>8, <1>9, <1>10, <1>11, <1>12
       DEF Station!Next, Station!EventTask, Station!Boot, Station!Task, Station!User, Station!Driver
LEMMA StationInvariance == ASSUME StationAssumption PROVE Station!Spec => []StationInv
<1>1. Station!Init => StationInv
  BY StationInit
<1>2. StationInv /\ [Station!Next]_(Station!vars) => StationInv'
  BY StationTypesStep, StationFlagsStep, QueueTypesStep, StaysStartedStep, StationPhasesStep,
     StationChainStep DEF StationInv
<1> QED BY <1>1, <1>2, PTL DEF Station!Spec

(* The type invariant.                                                     *)
THEOREM StationTypeCorrect == ASSUME StationAssumption PROVE Station!Spec => []Station!TypeOK
<1>1. StationInv => Station!TypeOK
  BY DEF StationInv, StationTypes, StationFlags, QueueTypes, Station!TypeOK
<1> QED BY <1>1, StationInvariance, PTL

(* An example that asked for a connection has one, is getting one or has   *)
(* the event queued that makes it try again, but for the four places that  *)
(* KeepsTrying names; the station example gives up only after more than    *)
(* MAX_RETRY retries in a row.                                             *)
THEOREM ChainHolds == ASSUME StationAssumption PROVE Station!Spec => []Station!KeepsTrying
<1>1. StationInv => Station!KeepsTrying
  <2> SUFFICES ASSUME StationInv PROVE Station!KeepsTrying
    OBVIOUS
  <2>1. ASSUME wanted, Station!Running, ~registered
        PROVE  Station!GaveUp \/ Station!Unregistered
    BY <2>1 DEF StationInv, StationTypes, NotStarted, StaysStarted, Station!Running,
                Station!GaveUp, Station!Unregistered
  <2>2. Station!Running /\ main = "unjoin" => Station!BetweenJoins
    BY DEF StationInv, StaysStarted, Station!BetweenJoins
  <2>3. wanted /\ Station!Running /\ link = "down" /\ ~Station!Pending
          => missed \/ Station!GaveUp \/ Station!Unregistered \/ Station!BetweenJoins
    BY <2>1, <2>2 DEF StationInv, Unbroken, Station!GaveUp
  <2>4. Station!GaveUp /\ main = "failed" => tries > MAX_RETRY
    BY DEF StationInv, StaysStarted, StationPhases
  <2> QED BY <2>3, <2>4 DEF Station!KeepsTrying
<1> QED BY <1>1, StationInvariance, PTL

(* No handler finds its event group deleted, and no call that must succeed *)
(* is refused, but in example_disconnect and in iperf's commands.          *)
THEOREM AbortsNowhereElse == ASSUME StationAssumption PROVE Station!Spec => []Station!AbortsOnlyThere
<1>1. StationInv => Station!AbortsOnlyThere
  BY DEF StationInv
<1> QED BY <1>1, StationInvariance, PTL
-----------------------------------------------------------------------------
(***************************************************************************)
(* The alarm of the Modbus examples (Modbus).  What is assumed of the      *)
(* constants is that they fit: the first read does not reach the limit at  *)
(* which the relay is raised, and the sweeps suffice to reach it.          *)
(***************************************************************************)
CONSTANTS Resolvers, MASTER_MAX_RETRY, MB_CHAN_DATA_MAX_VAL, MB_CHAN_DATA_OFFSET, MaxLost
VARIABLES resolver, master, table, cid, slave, data0, coils_port1, event, infos, lost, behind
Modbus == INSTANCE Modbus

ModbusAssumption ==
    /\ MASTER_MAX_RETRY \in Nat /\ MB_CHAN_DATA_MAX_VAL \in Nat /\ MB_CHAN_DATA_OFFSET \in Nat \ {0}
    /\ QUEUE_SIZE \in Nat \ {0} /\ MaxLost \in Nat /\ Resolvers \subseteq {"mdns", "stdin"}
    /\ 134 + MB_CHAN_DATA_OFFSET < MB_CHAN_DATA_MAX_VAL - MB_CHAN_DATA_OFFSET
    /\ MB_CHAN_DATA_MAX_VAL - MB_CHAN_DATA_OFFSET <= 134 + MB_CHAN_DATA_OFFSET * MASTER_MAX_RETRY

(* The holding register after n reads of it.                               *)
Raised(n) == 134 + MB_CHAN_DATA_OFFSET * n

LEMMA RaisedSteps ==
  ASSUME ModbusAssumption
  PROVE  /\ Raised(0) = 134
         /\ \A n \in Nat : Raised(n) \in Nat /\ Raised(n + 1) = Raised(n) + MB_CHAN_DATA_OFFSET
         /\ \A n, m \in Nat : Raised(n) < Raised(m) => n < m
<1> USE DEF Raised, ModbusAssumption
<1>1. \A k \in Nat \ {0}, n \in Nat : k * n \in Nat /\ k * (n + 1) = k * n + k
  OBVIOUS
<1>2. ASSUME NEW n \in Nat, NEW m \in Nat, m <= n
      PROVE  ~(Raised(n) < Raised(m))
  <2>1. n - m \in Nat /\ n = m + (n - m)
    BY <1>2
  <2>2. \A k \in Nat \ {0}, d \in Nat : k * (m + d) = k * m + k * d /\ k * d \in Nat
    OBVIOUS
  <2>3. MB_CHAN_DATA_OFFSET * n = MB_CHAN_DATA_OFFSET * m + MB_CHAN_DATA_OFFSET * (n - m)
        /\ MB_CHAN_DATA_OFFSET * (n - m) \in Nat
    BY <2>1, <2>2
  <2>4. MB_CHAN_DATA_OFFSET * m \in Nat
    BY <1>1
  <2> QED BY <2>3, <2>4
<1>3. \A n, m \in Nat : Raised(n) < Raised(m) => n < m
  BY <1>2
<1>4. Raised(0) = 134
  OBVIOUS
<1>5. \A n \in Nat : Raised(n) \in Nat /\ Raised(n + 1) = Raised(n) + MB_CHAN_DATA_OFFSET
  BY <1>1
<1> QED BY <1>3, <1>4, <1>5

Params == {"INPUT_0", "HOLDING_0", "INPUT_1", "HOLDING_1", "INPUT_2", "HOLDING_2", "COIL_0", "COIL_1"}
Param(i) == Modbus!device_parameters[i]

LEMMA ParamIs ==
  /\ Modbus!num_device_parameters = 8 /\ Param(7) = "COIL_0" /\ Param(8) = "COIL_1"
  /\ \A i \in 1..8 : /\ Param(i) \in Params
                     /\ (Param(i) = "HOLDING_0") <=> (i = 2)
                     /\ (Param(i) \in {"COIL_0", "COIL_1"}) <=> (i \in {7, 8})
<1>1. /\ Modbus!num_device_parameters = 8
      /\ Param(1) = "INPUT_0" /\ Param(2) = "HOLDING_0" /\ Param(3) = "INPUT_1" /\ Param(4) = "HOLDING_1"
      /\ Param(5) = "INPUT_2" /\ Param(6) = "HOLDING_2" /\ Param(7) = "COIL_0" /\ Param(8) = "COIL_1"
  BY DEF Param, Modbus!num_device_parameters, Modbus!device_parameters
<1>2. \A i \in 1..8 : i = 1 \/ i = 2 \/ i = 3 \/ i = 4 \/ i = 5 \/ i = 6 \/ i = 7 \/ i = 8
  OBVIOUS
<1> QED BY <1>1, <1>2 DEF Params

MasterTypes ==
    /\ resolver \in Resolvers /\ master \in {"resolve", "poll", "delay", "alarm", "over", "aborted"}
    /\ tries \in 0..10 /\ retry \in 0..(MASTER_MAX_RETRY + 1) /\ cid \in 1..8 /\ lost \in 0..MaxLost
    /\ master \in {"poll", "delay"} => retry <= MASTER_MAX_RETRY
MasterFlags == table \in BOOLEAN /\ behind \in BOOLEAN
SlaveTypes ==
    /\ slave \in {"run", "delay", "destroyed"} /\ coils_port1 \in {"AA", "FF"}
    /\ data0 \in 0..(MB_CHAN_DATA_MAX_VAL + MB_CHAN_DATA_OFFSET)
    /\ event \subseteq {"INPUT", "HOLDING", "COIL"}
    /\ infos \in Seq(Params) /\ Len(infos) <= QUEUE_SIZE
(* Before the slave is read.                                               *)
Fresh == slave = "run" /\ infos = <<>> /\ event = {} /\ data0 = 134 /\ coils_port1 = "AA"
NotYetRead ==
    /\ master = "resolve" => retry = 0 /\ cid = 1 /\ Fresh
    /\ ~table => Fresh

(* As long as no read fails and the slave's task handles each before the   *)
(* next one, it has counted all the reads of the register but for the one  *)
(* it may have before it, and once the relay is raised, the read of it     *)
(* follows in the same sweep.                                              *)
ReadBefore == IF cid = 1 THEN "COIL_1" ELSE Param(cid - 1)
HoldingReads == IF master = "delay" \/ (master = "poll" /\ cid > 2) THEN retry + 1 ELSE retry
Uncounted == IF infos = <<"HOLDING_0">> THEN MB_CHAN_DATA_OFFSET ELSE 0
OneAtMost == \/ infos = <<>> /\ event = {}
             \/ infos = <<ReadBefore>> /\ event = {Modbus!Area(ReadBefore)}
Paced ==
    /\ master \in {"resolve", "poll", "delay", "alarm"}
    /\ master = "delay" => cid = 1 /\ slave = "run" /\ coils_port1 = "AA" /\ retry + 1 < MASTER_MAX_RETRY
    /\ master = "poll" => /\ retry < MASTER_MAX_RETRY /\ slave \in {"run", "delay"}
                          /\ coils_port1 = "FF" => cid \in 3..8
                          /\ slave = "delay" => cid = 8
    /\ master = "alarm" => retry < MASTER_MAX_RETRY
    /\ master # "alarm" /\ slave = "run" =>
         /\ OneAtMost /\ data0 + Uncounted = Raised(HoldingReads) /\ data0 < MB_CHAN_DATA_MAX_VAL
         /\ coils_port1 = "FF" => infos # <<"HOLDING_0">>
Undisturbed == lost = 0 /\ ~behind /\ table
InStep == Undisturbed => Paced
ModbusInv == /\ MasterTypes /\ MasterFlags /\ SlaveTypes /\ NotYetRead /\ InStep
             /\ Modbus!RelayBeforeEnd /\ Modbus!InfoForEvent

LEMMA ModbusInit == ASSUME ModbusAssumption PROVE Modbus!Init => ModbusInv
<1> SUFFICES ASSUME Modbus!Init PROVE ModbusInv
  OBVIOUS
<1> USE DEF Modbus!Init
<1>1. MasterTypes /\ MasterFlags
  <2>1. MasterTypes
    BY DEF MasterTypes, ModbusAssumption
  <2>2. MasterFlags
    BY DEF MasterFlags
  <2> QED BY <2>1, <2>2
<1>2. SlaveTypes /\ Fresh
  BY EmptySeq DEF SlaveTypes, Fresh, ModbusAssumption
<1>3. NotYetRead
  BY <1>2 DEF NotYetRead
<1>4. Paced
  <2>1. OneAtMost /\ Uncounted = 0 /\ HoldingReads = 0
    BY DEF OneAtMost, Uncounted, HoldingReads
  <2> QED BY <2>1, RaisedSteps DEF Paced, ModbusAssumption
<1>5. Modbus!RelayBeforeEnd /\ Modbus!InfoForEvent
  BY DEF Modbus!RelayBeforeEnd, Modbus!InfoForEvent, ModbusAssumption
<1> QED BY <1>1, <1>2, <1>3, <1>4, <1>5 DEF ModbusInv, InStep

(* What serving a read does.                                               *)
LEMMA Served ==
  ASSUME ModbusAssumption, SlaveTypes, NEW p \in Params, Modbus!Serve(p)
  PROVE  /\ SlaveTypes' /\ slave \in {"run", "delay"}
         /\ UNCHANGED <<slave, data0, coils_port1>>
         /\ event' = event \cup {Modbus!Area(p)} /\ infos' # <<>>
         /\ infos = <<>> => infos' = <<p>>
<1> USE DEF Modbus!Serve, Modbus!Serving
<1>1. Modbus!Area(p) \in {"INPUT", "HOLDING", "COIL"}
  BY DEF Modbus!Area
<1>2. Append(infos, p) \in Seq(Params) /\ Len(Append(infos, p)) = Len(infos) + 1 /\ Len(infos) \in Nat
  BY AppendProperties, LenProperties DEF SlaveTypes
<1>3. infos' \in Seq(Params) /\ Len(infos') <= QUEUE_SIZE
  BY <1>2 DEF SlaveTypes, ModbusAssumption
<1>4. infos = <<>> => infos' = <<p>>
  BY DEF ModbusAssumption
<1>5. infos' # <<>>
  <2>1. CASE Len(infos) < QUEUE_SIZE
    BY <2>1, <1>2, EmptySeq
  <2>2. CASE ~(Len(infos) < QUEUE_SIZE)
    BY <2>2, <1>2, EmptySeq DEF ModbusAssumption
  <2> QED BY <2>1, <2>2
<1>6. SlaveTypes'
  BY <1>1, <1>3 DEF SlaveTypes
<1> QED BY <1>4, <1>5, <1>6

LEMMA RelayStays ==
  ASSUME Modbus!RelayBeforeEnd, UNCHANGED <<slave, data0, coils_port1>>
  PROVE  Modbus!RelayBeforeEnd'
BY DEF Modbus!RelayBeforeEnd

LEMMA MasterKeeps ==
  ASSUME ModbusAssumption, ModbusInv, Modbus!MasterStep
  PROVE  MasterTypes' /\ MasterFlags' /\ SlaveTypes' /\ Modbus!RelayBeforeEnd' /\ Modbus!InfoForEvent'
<1> USE DEF ModbusInv, Modbus!slaveVars
<1>1. CASE \/ Modbus!master_query_slave_service \/ Modbus!master_get_slave_ip_stdin
           \/ Modbus!master_init \/ Modbus!MasterSweeps
  <2> USE <1>1 DEF Modbus!master_query_slave_service, Modbus!master_get_slave_ip_stdin,
          Modbus!master_init, Modbus!MasterSweeps
  <2>1. MasterTypes'
    <3>1. tries' \in 0..10 /\ (retry' = retry \/ (master = "delay" /\ retry' = retry + 1))
      BY DEF MasterTypes, Modbus!QueryOnceMore
    <3>2. /\ resolver' \in Resolvers /\ cid' \in 1..8 /\ lost' \in 0..MaxLost
          /\ master' \in {"resolve", "poll", "over", "aborted"}
      BY DEF MasterTypes, Modbus!QueryOnceMore
    <3>3. master' = "poll" => (master = "resolve" /\ retry' = retry) \/ retry < MASTER_MAX_RETRY
      <4>1. CASE Modbus!MasterSweeps
        BY <4>1
      <4>2. CASE ~Modbus!MasterSweeps
        BY <4>2 DEF Modbus!QueryOnceMore
      <4> QED BY <4>1, <4>2
    <3>4. master = "resolve" => retry = 0
      BY DEF NotYetRead
    <3> QED BY <3>1, <3>2, <3>3, <3>4 DEF MasterTypes, ModbusAssumption
  <2>2. MasterFlags'
    BY DEF MasterFlags, Modbus!QueryOnceMore
  <2>3. UNCHANGED Modbus!slaveVars
    OBVIOUS
  <2> QED BY <2>1, <2>2, <2>3, RelayStays DEF SlaveTypes, Modbus!InfoForEvent
<1>2. CASE Modbus!MasterReads \/ Modbus!MasterReadFails
  <2>1. cid \in 1..8 /\ Param(cid) \in Params
    BY ParamIs DEF MasterTypes
  <2>2. MasterTypes'
    <3>1. /\ UNCHANGED <<resolver, tries, retry>> /\ master = "poll"
          /\ UNCHANGED lost \/ (lost < MaxLost /\ lost' = lost + 1)
          /\ (master' = "alarm" /\ cid' = cid) \/ Modbus!NextCid
      BY <1>2 DEF Modbus!MasterReads, Modbus!MasterReadFails
    <3>2. cid' \in 1..8 /\ master' \in {"poll", "delay", "alarm"}
      BY <2>1, <3>1, ParamIs DEF Modbus!NextCid
    <3> QED BY <3>1, <3>2 DEF MasterTypes, ModbusAssumption
  <2>3. MasterFlags'
    BY <1>2 DEF Modbus!MasterReads, Modbus!MasterReadFails, Modbus!Serve, MasterFlags
  <2>4. Modbus!Serve(Param(cid)) \/ UNCHANGED Modbus!slaveVars
    BY <1>2 DEF Modbus!MasterReads, Modbus!MasterReadFails, Param
  <2>5. CASE Modbus!Serve(Param(cid))
    <3>1. SlaveTypes' /\ Modbus!InfoForEvent' /\ UNCHANGED <<slave, data0, coils_port1>>
      BY <2>1, <2>5, Served DEF Modbus!InfoForEvent, Modbus!Serve
    <3> QED BY <2>2, <2>3, <3>1, RelayStays
  <2>6. CASE UNCHANGED Modbus!slaveVars
    <3>1. SlaveTypes' /\ Modbus!InfoForEvent' /\ UNCHANGED <<slave, data0, coils_port1>>
      BY <2>6 DEF SlaveTypes, Modbus!InfoForEvent
    <3> QED BY <2>2, <2>3, <3>1, RelayStays
  <2> QED BY <2>2, <2>3, <2>4, <2>5, <2>6
<1> QED BY <1>1, <1>2 DEF Modbus!MasterStep

LEMMA SlaveKeeps ==
  ASSUME ModbusAssumption, ModbusInv, Modbus!SlaveStep
  PROVE  MasterTypes' /\ MasterFlags' /\ SlaveTypes' /\ NotYetRead' /\ Modbus!RelayBeforeEnd' /\ Modbus!InfoForEvent'
<1> USE DEF ModbusInv, ModbusAssumption
<1>1. CASE Modbus!SlaveEvent
  <2> USE <1>1 DEF Modbus!SlaveEvent
  <2>1. infos # <<>> /\ infos' = Tail(infos) /\ event' = {}
    BY DEF Modbus!InfoForEvent, Modbus!Left
  <2>2. infos' \in Seq(Params) /\ Len(infos') <= QUEUE_SIZE
    BY <2>1, HeadTailProperties DEF SlaveTypes
  <2>6. MasterTypes' /\ MasterFlags' /\ NotYetRead'
    <3>1. ~Fresh
      BY <2>1 DEF Fresh
    <3> QED BY <3>1 DEF MasterTypes, MasterFlags, NotYetRead
  <2>3. CASE "HOLDING" \in event /\ Head(infos) = "HOLDING_0"
    <3>1. /\ data0' = data0 + MB_CHAN_DATA_OFFSET /\ slave' = "run" /\ data0 < MB_CHAN_DATA_MAX_VAL
          /\ coils_port1' = IF data0' >= MB_CHAN_DATA_MAX_VAL - MB_CHAN_DATA_OFFSET THEN "FF" ELSE coils_port1
      BY <2>1, <2>3 DEF Modbus!Count
    <3>2. SlaveTypes'
      BY <2>1, <2>2, <3>1 DEF SlaveTypes
    <3>3. Modbus!RelayBeforeEnd' /\ Modbus!InfoForEvent'
      BY <2>1, <3>1 DEF SlaveTypes, Modbus!RelayBeforeEnd, Modbus!InfoForEvent
    <3> QED BY <2>6, <3>2, <3>3
  <2>4. CASE ~("HOLDING" \in event /\ Head(infos) = "HOLDING_0")
    <3>1. /\ data0' = data0 /\ coils_port1' = coils_port1 /\ slave' \in {"run", "delay"}
          /\ slave' = "delay" => coils_port1 = "FF"
      BY <2>1, <2>4 DEF Modbus!Count
    <3>2. SlaveTypes'
      BY <2>1, <2>2, <3>1 DEF SlaveTypes
    <3>3. Modbus!RelayBeforeEnd' /\ Modbus!InfoForEvent'
      BY <2>1, <3>1 DEF SlaveTypes, Modbus!RelayBeforeEnd, Modbus!InfoForEvent
    <3> QED BY <2>6, <3>2, <3>3
  <2> QED BY <2>3, <2>4
<1>2. CASE Modbus!SlaveLimit \/ Modbus!SlaveDestroys
  <2> USE <1>2 DEF Modbus!SlaveLimit, Modbus!SlaveDestroys
  <2>1. MasterTypes' /\ MasterFlags'
    BY DEF MasterTypes, MasterFlags
  <2>2. NotYetRead'
    BY DEF NotYetRead, Fresh, ModbusAssumption
  <2>3. SlaveTypes' /\ Modbus!InfoForEvent'
    BY DEF SlaveTypes, Modbus!InfoForEvent
  <2>4. Modbus!RelayBeforeEnd'
    <3>1. coils_port1 = "FF"
      <4>1. data0 >= MB_CHAN_DATA_MAX_VAL => data0 >= MB_CHAN_DATA_MAX_VAL - MB_CHAN_DATA_OFFSET
        BY DEF SlaveTypes
      <4> QED BY <4>1 DEF Modbus!RelayBeforeEnd
    <3>2. UNCHANGED <<data0, coils_port1>>
      OBVIOUS
    <3> QED BY <3>1, <3>2 DEF Modbus!RelayBeforeEnd
  <2> QED BY <2>1, <2>2, <2>3, <2>4
<1> QED BY <1>1, <1>2 DEF Modbus!SlaveStep

LEMMA MasterNotYet ==
  ASSUME ModbusAssumption, ModbusInv, Modbus!MasterStep
  PROVE  NotYetRead'
<1> USE DEF ModbusInv, NotYetRead, Modbus!slaveVars
<1>1. CASE \/ Modbus!master_query_slave_service \/ Modbus!master_get_slave_ip_stdin
           \/ Modbus!master_init \/ Modbus!MasterSweeps
  BY <1>1 DEF Modbus!master_query_slave_service, Modbus!master_get_slave_ip_stdin, Modbus!QueryOnceMore,
     Modbus!master_init, Modbus!MasterSweeps, Fresh
<1>2. CASE Modbus!MasterReads
  BY <1>2 DEF Modbus!MasterReads, Modbus!Serve, Modbus!Serving, Modbus!NextCid
<1>3. CASE Modbus!MasterReadFails
  BY <1>3 DEF Modbus!MasterReadFails, Modbus!Serve, Modbus!Serving, Modbus!NextCid, Fresh
<1> QED BY <1>1, <1>2, <1>3 DEF Modbus!MasterStep

LEMMA ReadInStep ==
  ASSUME ModbusAssumption, ModbusInv, Modbus!MasterReads
  PROVE  InStep'
<1> SUFFICES ASSUME Undisturbed'
             PROVE  Paced'
  BY DEF InStep
<1> USE DEF ModbusInv
<1> DEFINE p == Param(cid)
<1>1. /\ Undisturbed /\ (slave = "run" => infos = <<>>)
      /\ Modbus!Serve(p) /\ master = "poll" /\ retry' = retry
      /\ IF Modbus!Raises(p) THEN master' = "alarm" ELSE Modbus!NextCid
  BY DEF Modbus!MasterReads, Undisturbed, Modbus!Serve, Param
<1>2. p \in Params /\ cid \in 1..8 /\ retry \in Nat /\ SlaveTypes
  BY ParamIs DEF MasterTypes
<1>3. /\ UNCHANGED <<slave, data0, coils_port1>> /\ slave \in {"run", "delay"}
      /\ infos = <<>> => infos' = <<p>>
      /\ event' = event \cup {Modbus!Area(p)}
  BY <1>1, <1>2, Served
<1>4. Paced
  BY <1>1 DEF InStep
<1> HIDE DEF p
<1>5. CASE Modbus!Raises(p)
  BY <1>1, <1>4, <1>5 DEF Paced
<1>6. CASE ~Modbus!Raises(p)
  <2>1. slave = "run"
    <3> SUFFICES ASSUME slave = "delay" PROVE FALSE
      BY <1>3
    <3>1. cid = 8 /\ coils_port1 = "FF"
      BY <1>1, <1>4 DEF Paced, Modbus!RelayBeforeEnd
    <3>2. p = "COIL_1"
      BY <3>1, ParamIs DEF p
    <3> QED BY <1>6, <3>1, <3>2 DEF Modbus!Raises
  <2>2. infos = <<>> /\ event = {}
    BY <1>1, <1>4, <2>1 DEF Paced, OneAtMost
  <2>3. infos' = <<p>> /\ event' = {Modbus!Area(p)} /\ slave' = "run"
    BY <1>3, <2>1, <2>2
  <2>4. data0 = Raised(HoldingReads) /\ data0 < MB_CHAN_DATA_MAX_VAL /\ data0 \in Nat
    <3>1. Uncounted = 0
      BY <2>2 DEF Uncounted
    <3> QED BY <1>1, <1>2, <1>4, <2>1, <3>1 DEF Paced, SlaveTypes
  <2>5. retry < MASTER_MAX_RETRY /\ (coils_port1 = "FF" => cid \in 3..8)
    BY <1>1, <1>4 DEF Paced
  <2>6. CASE cid < 8
    <3>1. cid' = cid + 1 /\ master' = "poll"
      BY <1>1, <1>6, <2>6, ParamIs DEF Modbus!NextCid
    <3>2. ReadBefore' = p /\ OneAtMost'
      <4>1. ReadBefore' = p
        <5>1. cid' # 1 /\ cid' - 1 = cid
          BY <1>2, <3>1
        <5> QED BY <5>1 DEF ReadBefore, p, Param
      <4> QED BY <2>3, <4>1 DEF OneAtMost
    <3>3. coils_port1' = "FF" => cid' \in 3..8 /\ infos' # <<"HOLDING_0">>
      <4> SUFFICES ASSUME coils_port1 = "FF" PROVE cid' \in 3..8 /\ p # "HOLDING_0"
        BY <1>3, <2>3
      <4>1. cid' \in 3..8 /\ cid # 2
        BY <1>2, <2>5, <2>6, <3>1
      <4> QED BY <1>2, <4>1, ParamIs DEF p
    <3>4. data0 + Uncounted' = Raised(HoldingReads')
      <4>1. CASE cid = 2
        <5>1. p = "HOLDING_0"
          BY <4>1, ParamIs DEF p
        <5>2. Uncounted' = MB_CHAN_DATA_OFFSET
          BY <2>3, <5>1 DEF Uncounted
        <5>3. HoldingReads = retry /\ HoldingReads' = retry + 1
          BY <1>1, <3>1, <4>1 DEF HoldingReads
        <5> QED BY <1>2, <2>4, <5>2, <5>3, RaisedSteps
      <4>2. CASE cid # 2
        <5>1. p # "HOLDING_0"
          BY <1>2, <4>2, ParamIs DEF p
        <5>2. Uncounted' = 0
          BY <2>3, <5>1 DEF Uncounted
        <5>3. HoldingReads' = HoldingReads
          BY <1>1, <1>2, <3>1, <4>2 DEF HoldingReads
        <5> QED BY <2>4, <5>2, <5>3
      <4> QED BY <4>1, <4>2
    <3> QED BY <1>1, <1>3, <2>3, <2>4, <2>5, <3>1, <3>2, <3>3, <3>4 DEF Paced
  <2>7. CASE cid = 8
    <3>1. cid' = 1 /\ master' = "delay" /\ p = "COIL_1" /\ coils_port1 = "AA"
      BY <1>1, <1>2, <1>6, <2>7, ParamIs DEF Modbus!NextCid, Modbus!Raises, p, SlaveTypes
    <3>2. HoldingReads = retry + 1 /\ HoldingReads' = retry + 1
      BY <1>1, <2>7, <3>1 DEF HoldingReads
    <3>3. Uncounted' = 0
      BY <2>3, <3>1 DEF Uncounted
    <3>4. retry + 1 < MASTER_MAX_RETRY
      <4>1. data0 < MB_CHAN_DATA_MAX_VAL - MB_CHAN_DATA_OFFSET
        BY <2>4, <3>1 DEF Modbus!RelayBeforeEnd, ModbusAssumption
      <4>2. Raised(retry + 1) < Raised(MASTER_MAX_RETRY)
        BY <2>4, <3>2, <4>1 DEF ModbusAssumption, Raised
      <4>3. retry + 1 \in Nat /\ MASTER_MAX_RETRY \in Nat
        BY <1>2 DEF ModbusAssumption
      <4>4. \A n, m \in Nat : Raised(n) < Raised(m) => n < m
        BY RaisedSteps
      <4> QED BY <4>2, <4>3, <4>4
    <3>5. OneAtMost'
      BY <2>3, <3>1 DEF OneAtMost, ReadBefore
    <3> QED BY <1>1, <1>3, <2>3, <2>4, <3>1, <3>2, <3>3, <3>4, <3>5 DEF Paced
  <2> QED BY <1>2, <2>6, <2>7
<1> QED BY <1>5, <1>6

LEMMA OthersInStep ==
  ASSUME ModbusAssumption, ModbusInv, Modbus!MasterStep, ~Modbus!MasterReads
  PROVE  InStep'
<1> SUFFICES ASSUME Undisturbed'
             PROVE  Paced'
  BY DEF InStep
<1> USE DEF ModbusInv, Modbus!slaveVars
<1>1. Raised(0) = 134 /\ 0 < MASTER_MAX_RETRY /\ 134 < MB_CHAN_DATA_MAX_VAL
  BY RaisedSteps DEF ModbusAssumption, Raised
<1>2. CASE Modbus!master_query_slave_service \/ Modbus!master_get_slave_ip_stdin \/ Modbus!master_init
  <2> USE <1>2 DEF Modbus!master_query_slave_service, Modbus!master_get_slave_ip_stdin, Modbus!QueryOnceMore,
          Modbus!master_init
  <2>1. master = "resolve" /\ master' \in {"resolve", "poll"}
    BY DEF Undisturbed
  <2>2. /\ retry' = 0 /\ cid' = 1
        /\ slave' = "run" /\ infos' = <<>> /\ event' = {} /\ data0' = 134 /\ coils_port1' = "AA"
    BY <2>1 DEF NotYetRead, Fresh
  <2>3. OneAtMost' /\ Uncounted' = 0 /\ HoldingReads' = 0
    BY <2>1, <2>2 DEF OneAtMost, Uncounted, HoldingReads
  <2> HIDE <1>2
  <2> QED BY <1>1, <2>1, <2>2, <2>3 DEF Paced
<1>3. CASE Modbus!MasterReadFails
  <2>1. Modbus!Serving => lost' = lost + 1
    BY <1>3 DEF Modbus!MasterReadFails
  <2>2. lost' # lost + 1
    BY DEF MasterTypes, Undisturbed
  <2>3. Undisturbed /\ master = "poll" /\ ~Modbus!Serving
    BY <1>3, <2>1, <2>2 DEF Modbus!MasterReadFails, Undisturbed
  <2>4. Modbus!Serving
    BY <2>3 DEF Modbus!Serving, InStep, Undisturbed, Paced
  <2> QED BY <2>3, <2>4
<1>4. CASE Modbus!MasterSweeps
  <2>1. Undisturbed /\ master = "delay" /\ retry' = retry + 1 /\ UNCHANGED <<cid, Modbus!slaveVars>>
    BY <1>4 DEF Modbus!MasterSweeps, Undisturbed
  <2>2. Paced /\ retry \in Nat
    BY <2>1 DEF InStep, MasterTypes
  <2>3. cid = 1 /\ slave = "run" /\ coils_port1 = "AA" /\ retry + 1 < MASTER_MAX_RETRY
    BY <2>1, <2>2 DEF Paced
  <2>4. master' = "poll"
    BY <1>4, <2>2, <2>3 DEF Modbus!MasterSweeps, ModbusAssumption
  <2>5. (OneAtMost' <=> OneAtMost) /\ Uncounted' = Uncounted
    BY <2>1, <2>3 DEF OneAtMost, ReadBefore, Uncounted
  <2>6. HoldingReads' = HoldingReads
    BY <2>1, <2>3, <2>4 DEF HoldingReads
  <2> QED BY <2>1, <2>2, <2>3, <2>4, <2>5, <2>6 DEF Paced
<1> QED BY <1>2, <1>3, <1>4 DEF Modbus!MasterStep

LEMMA SlaveInStep ==
  ASSUME ModbusAssumption, ModbusInv, Modbus!SlaveStep
  PROVE  InStep'
<1> SUFFICES ASSUME Undisturbed'
             PROVE  Paced'
  BY DEF InStep
<1> USE DEF ModbusInv
<1>1. Undisturbed /\ UNCHANGED <<master, retry, cid>>
  <2>1. UNCHANGED <<master, retry, cid, lost, behind, table>>
    BY DEF Modbus!SlaveStep, Modbus!SlaveEvent, Modbus!SlaveLimit, Modbus!SlaveDestroys
  <2> QED BY <2>1 DEF Undisturbed
<1>2. Paced
  BY <1>1 DEF InStep
<1>3. CASE master = "alarm"
  BY <1>1, <1>2, <1>3 DEF Paced
<1>4. CASE Modbus!SlaveEvent /\ master # "alarm"
  <2>1. slave = "run" /\ event # {} /\ event' = {} /\ infos' = Tail(infos) /\ infos # <<>>
    BY <1>4 DEF Modbus!SlaveEvent, Modbus!Left, Modbus!InfoForEvent
  <2>2. /\ infos = <<ReadBefore>> /\ event = {Modbus!Area(ReadBefore)}
        /\ data0 + Uncounted = Raised(HoldingReads) /\ data0 < MB_CHAN_DATA_MAX_VAL
        /\ coils_port1 = "FF" => infos # <<"HOLDING_0">>
    BY <1>2, <1>4, <2>1 DEF Paced, OneAtMost
  <2>3. infos' = <<>> /\ OneAtMost' /\ Uncounted' = 0
    BY <2>1, <2>2 DEF OneAtMost, Uncounted
  <2>4. HoldingReads' = HoldingReads
    BY <1>1 DEF HoldingReads
  <2>5. /\ master \in {"poll", "delay"} /\ cid \in 1..8 /\ (master = "delay" => cid = 1 /\ coils_port1 = "AA")
        /\ retry < MASTER_MAX_RETRY /\ (master = "delay" => retry + 1 < MASTER_MAX_RETRY)
        /\ master = "poll" /\ coils_port1 = "FF" => cid \in 3..8
    <3>1. master # "resolve"
      BY <2>1 DEF NotYetRead, Fresh
    <3> QED BY <1>2, <1>4, <3>1 DEF Paced, MasterTypes, ModbusAssumption
  <2>6. /\ Head(infos) = ReadBefore
        /\ IF "HOLDING" \in event THEN Modbus!Count(Head(infos)) /\ slave' = "run"
           ELSE /\ UNCHANGED <<data0, coils_port1>>
                /\ slave' = IF "INPUT" \notin event /\ coils_port1 = "FF" THEN "delay" ELSE "run"
    BY <1>4, <2>1, <2>2 DEF Modbus!SlaveEvent
  <2>7. CASE ReadBefore = "HOLDING_0"
    <3>1. cid = 3 /\ master = "poll"
      <4>1. cid # 1 /\ Param(cid - 1) = "HOLDING_0"
        BY <2>7 DEF ReadBefore
      <4>2. cid - 1 \in 1..8
        BY <2>5, <4>1
      <4>3. cid - 1 = 2
        BY <4>1, <4>2, ParamIs
      <4> QED BY <2>5, <4>1, <4>3
    <3>2. "HOLDING" \in event
      BY <2>2, <2>7 DEF Modbus!Area
    <3>3. data0' = data0 + MB_CHAN_DATA_OFFSET /\ slave' = "run" /\ coils_port1 = "AA"
      BY <2>2, <2>6, <2>7, <3>2 DEF Modbus!Count, SlaveTypes
    <3>4. data0' < MB_CHAN_DATA_MAX_VAL
      BY <3>3 DEF Modbus!RelayBeforeEnd, ModbusAssumption, SlaveTypes
    <3>5. data0' = Raised(HoldingReads)
      <4>1. Uncounted = MB_CHAN_DATA_OFFSET
        BY <2>2, <2>7 DEF Uncounted
      <4> QED BY <2>2, <3>3, <4>1
    <3>6. data0' \in Nat
      BY <3>3 DEF SlaveTypes, ModbusAssumption
    <3> QED BY <1>1, <2>3, <2>4, <2>5, <3>1, <3>3, <3>4, <3>5, <3>6 DEF Paced
  <2>8. CASE ReadBefore # "HOLDING_0"
    <3>1. data0' = data0 /\ coils_port1' = coils_port1 /\ slave' \in {"run", "delay"}
      BY <2>6, <2>8 DEF Modbus!Count
    <3>2. data0 = Raised(HoldingReads) /\ data0 \in Nat
      <4>1. Uncounted = 0
        BY <2>2, <2>8 DEF Uncounted
      <4> QED BY <2>2, <4>1 DEF SlaveTypes
    <3>3. slave' = "delay" => master = "poll" /\ cid = 8
      <4> SUFFICES ASSUME slave' = "delay" PROVE master = "poll" /\ cid = 8
        OBVIOUS
      <4>1. coils_port1 = "FF" /\ "HOLDING" \notin event /\ "INPUT" \notin event
        BY <2>6
      <4>2. ReadBefore \in {"COIL_0", "COIL_1"}
        BY <2>2, <4>1 DEF Modbus!Area
      <4>3. master = "poll" /\ cid \in 3..8
        BY <2>5, <4>1
      <4>4. cid # 1 /\ cid - 1 \in 1..7
        BY <4>3
      <4>5. Param(cid - 1) \in {"COIL_0", "COIL_1"}
        BY <4>2, <4>4 DEF ReadBefore
      <4>6. cid - 1 = 7
        BY <4>4, <4>5, ParamIs
      <4> QED BY <4>3, <4>6
    <3> QED BY <1>1, <2>2, <2>3, <2>4, <2>5, <3>1, <3>2, <3>3 DEF Paced
  <2> QED BY <2>7, <2>8
<1>5. CASE Modbus!SlaveLimit /\ master # "alarm"
  <2>1. slave = "run" /\ data0 >= MB_CHAN_DATA_MAX_VAL
    BY <1>5 DEF Modbus!SlaveLimit
  <2> QED BY <1>2, <1>5, <2>1 DEF Paced, ModbusAssumption, SlaveTypes
<1>6. CASE Modbus!SlaveDestroys /\ master # "alarm"
  <2>1. slave = "delay" /\ master # "poll"
    BY <1>1, <1>6 DEF Modbus!SlaveDestroys, Undisturbed
  <2>2. master # "resolve"
    BY <2>1 DEF NotYetRead, Fresh
  <2> QED BY <1>2, <1>6, <2>1, <2>2 DEF Paced
<1> QED BY <1>3, <1>4, <1>5, <1>6 DEF Modbus!SlaveStep

LEMMA ModbusInvariance == ASSUME ModbusAssumption PROVE Modbus!Spec => []ModbusInv
<1>1. Modbus!Init => ModbusInv
  BY ModbusInit
<1>2. ModbusInv /\ [Modbus!Next]_(Modbus!vars) => ModbusInv'
  <2> SUFFICES ASSUME ModbusInv, [Modbus!Next]_(Modbus!vars) PROVE ModbusInv'
    OBVIOUS
  <2>1. CASE Modbus!MasterStep
    BY <2>1, MasterKeeps, MasterNotYet, ReadInStep, OthersInStep DEF ModbusInv
  <2>2. CASE Modbus!SlaveStep
    BY <2>2, SlaveKeeps, SlaveInStep DEF ModbusInv
  <2>3. CASE UNCHANGED Modbus!vars
    <3>1. /\ MasterTypes' /\ MasterFlags' /\ SlaveTypes' /\ NotYetRead' /\ Modbus!InfoForEvent'
          /\ UNCHANGED <<slave, data0, coils_port1>>
      BY <2>3 DEF Modbus!vars, ModbusInv, MasterTypes, MasterFlags, SlaveTypes, NotYetRead, Fresh, Modbus!InfoForEvent
    <3>2. InStep'
      <4>1. (Undisturbed' <=> Undisturbed) /\ (Paced' <=> Paced)
        BY <2>3 DEF Modbus!vars, Undisturbed, Paced, OneAtMost, ReadBefore, Uncounted, HoldingReads
      <4> QED BY <4>1 DEF ModbusInv, InStep
    <3> QED BY <3>1, <3>2, RelayStays DEF ModbusInv
  <2> QED BY <2>1, <2>2, <2>3 DEF Modbus!Next
<1> QED BY <1>1, <1>2, PTL DEF Modbus!Spec

(* The type invariant.                                                     *)
THEOREM ModbusTypeCorrect == ASSUME ModbusAssumption PROVE Modbus!Spec => []Modbus!TypeOK
<1>1. ModbusInv => Modbus!TypeOK
  BY ParamIs DEF ModbusInv, MasterTypes, MasterFlags, SlaveTypes, Modbus!TypeOK
<1> QED BY <1>1, ModbusInvariance, PTL

(* The slave stops only after raising its relay, and raises it at least    *)
(* one read before its limit.                                              *)
THEOREM RelayIsFirst == ASSUME ModbusAssumption PROVE Modbus!Spec => []Modbus!RelayBeforeEnd
<1>1. ModbusInv => Modbus!RelayBeforeEnd
  BY DEF ModbusInv
<1> QED BY <1>1, ModbusInvariance, PTL

(* An event finds an access in the queue: the slave does not abort.        *)
THEOREM EventsHaveInfos == ASSUME ModbusAssumption PROVE Modbus!Spec => []Modbus!InfoForEvent
<1>1. ModbusInv => Modbus!InfoForEvent
  BY DEF ModbusInv
<1> QED BY <1>1, ModbusInvariance, PTL

(* If no read fails and the slave's task keeps up, the sweeps end with the *)
(* alarm, before they are used up.                                         *)
THEOREM SweepsSuffice == ASSUME ModbusAssumption PROVE Modbus!Spec => []Modbus!AlarmIsSeen
<1>1. ModbusInv => Modbus!AlarmIsSeen
  BY DEF ModbusInv, InStep, Undisturbed, Paced, Modbus!AlarmIsSeen
<1> QED BY <1>1, ModbusInvariance, PTL
=============================================================================
