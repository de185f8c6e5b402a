------------------------------- MODULE Modbus -------------------------------
(***************************************************************************)
(* The Modbus TCP examples (protocols/modbus/tcp): the master finds its    *)
(* slave, then sweeps over its parameters until one raises the alarm or    *)
(* the sweeps are used up; the slave counts the reads of one of them,      *)
(* raises the alarm relay shortly before its limit and stops.  In between  *)
(* are the slave's stack, which serves the read, and its event group and   *)
(* queue, by which the slave's task learns of it later.  Register values   *)
(* are in hundredths.                                                      *)
(***************************************************************************)
EXTENDS Naturals, Sequences

CONSTANTS Resolvers,         \* of "mdns", "stdin": CONFIG_MB_..._RESOLVER
          MASTER_MAX_RETRY, MB_CHAN_DATA_MAX_VAL, MB_CHAN_DATA_OFFSET,
          QUEUE_SIZE,        \* accesses the slave's stack keeps for its task
          MaxLost            \* bound: reads that fail

VARIABLES resolver,
          master,            \* "resolve", "poll", "delay", "alarm", "over" or "aborted"
          tries, table,      \* mDNS queries made; slave_ip_address_table holds the slave
          retry, cid,        \* sweep and index into device_parameters
          slave,             \* "run", "delay" (its task is through, its stack serves), "destroyed" or "aborted"
          data0, coils_port1,\* holding_data0; "AA" or "FF"
          event, infos,      \* the event group's bits; the queue of accesses
          lost, behind       \* history: reads that failed; the task did not see an access before the next
vars == <<resolver, master, tries, table, retry, cid, slave, data0, coils_port1, event, infos, lost, behind>>
slaveVars == <<slave, data0, coils_port1, event, infos, behind>>

\* device_parameters: type and offset; only the first holding register and the
\* second relay ever change.
device_parameters == <<"INPUT_0", "HOLDING_0", "INPUT_1", "HOLDING_1", "INPUT_2", "HOLDING_2", "COIL_0", "COIL_1">>
num_device_parameters == Len(device_parameters)
Area(p) == CASE p \in {"INPUT_0", "INPUT_1", "INPUT_2"} -> "INPUT"
             [] p \in {"COIL_0", "COIL_1"} -> "COIL"
             [] OTHER -> "HOLDING"

\* setup_reg_data
Init == /\ resolver \in Resolvers /\ master = "resolve" /\ tries = 0 /\ table = FALSE
        /\ retry = 0 /\ cid = 1 /\ lost = 0
        /\ slave = "run" /\ data0 = 134 /\ coils_port1 = "AA" /\ event = {} /\ infos = <<>> /\ behind = FALSE
-----------------------------------------------------------------------------
\* master_query_slave_service with master_create_slave_list: every parameter
\* is of the one slave, so that all are resolved or none; ten queries.
QueryOnceMore == resolver = "mdns" /\ master = "resolve" /\ ~table /\ tries < 10
master_query_slave_service ==
    /\ QueryOnceMore /\ tries' = tries + 1 /\ table' \in BOOLEAN
    /\ UNCHANGED <<resolver, master, retry, cid, slaveVars, lost>>
\* master_get_slave_ip_stdin: a line with the address and the right index,
\* anything else ends the input with no address.
master_get_slave_ip_stdin ==
    /\ resolver = "stdin" /\ master = "resolve" /\ tries = 0 /\ tries' = 1 /\ table' \in BOOLEAN
    /\ UNCHANGED <<resolver, master, retry, cid, slaveVars, lost>>
\* The rest of master_init.  An unresolved slave is fatal with mDNS only.
master_init ==
    /\ master = "resolve" /\ ~QueryOnceMore /\ tries > 0
    /\ master' = IF table \/ resolver = "stdin" THEN "poll" ELSE "aborted"
    /\ UNCHANGED <<resolver, tries, table, retry, cid, slaveVars, lost>>
-----------------------------------------------------------------------------
\* The slave's stack serves a read: it queues the access if there is room and
\* sets the area's bit.
Serving == table /\ slave \in {"run", "delay"}
Serve(p) == /\ Serving
            /\ infos' = IF Len(infos) < QUEUE_SIZE THEN Append(infos, p) ELSE infos
            /\ event' = event \cup {Area(p)} /\ behind' = (behind \/ (slave = "run" /\ infos # <<>>))
            /\ UNCHANGED <<slave, data0, coils_port1>>
\* The one below without the mask of the relay (a mutant).
RaisesByLimit(p) == p = "HOLDING_0" /\ data0 > 10000
\* Out of the limits of the table, or the relay's bit set.
Raises(p) == \/ p = "HOLDING_0" /\ data0 > 10000
             \/ p = "COIL_1" /\ coils_port1 = "FF"
NextCid == IF cid < num_device_parameters THEN cid' = cid + 1 /\ UNCHANGED master
           ELSE cid' = 1 /\ master' = "delay"
\* The body of master_operation_func's inner loop: an answer, which may be the
\* alarm; or no answer, the request or the answer being lost.
MasterReads ==
    /\ master = "poll" /\ Serve(device_parameters[cid])
    /\ IF Raises(device_parameters[cid]) THEN master' = "alarm" /\ UNCHANGED cid ELSE NextCid
    /\ UNCHANGED <<resolver, tries, table, retry, lost>>
MasterReadFails ==
    /\ master = "poll"
    /\ \/ ~Serving /\ UNCHANGED <<slaveVars, lost>>
       \/ /\ Serving /\ lost < MaxLost /\ lost' = lost + 1
          /\ UNCHANGED slaveVars \/ Serve(device_parameters[cid])
    /\ NextCid
    /\ UNCHANGED <<resolver, tries, table, retry>>
\* The next sweep, or the end.
MasterSweeps ==
    /\ master = "delay" /\ retry' = retry + 1
    /\ master' = IF retry < MASTER_MAX_RETRY THEN "poll" ELSE "over"
    /\ UNCHANGED <<resolver, tries, table, cid, slaveVars, lost>>
-----------------------------------------------------------------------------
\* One turn of the slave's loop: the wait clears all bits, one branch runs and
\* takes one access, which need not be the one that set the bit.
Count(p) == IF p # "HOLDING_0" THEN UNCHANGED <<data0, coils_port1>>
            ELSE /\ data0' = data0 + MB_CHAN_DATA_OFFSET
                 /\ coils_port1' = IF data0' >= MB_CHAN_DATA_MAX_VAL - MB_CHAN_DATA_OFFSET THEN "FF" ELSE coils_port1
Left(bits) == {}
SlaveEvent ==
    /\ slave = "run" /\ data0 < MB_CHAN_DATA_MAX_VAL /\ event # {} /\ event' = Left(event)
    /\ IF infos = <<>> THEN slave' = "aborted" /\ UNCHANGED <<infos, data0, coils_port1>>
       ELSE /\ infos' = Tail(infos)
            /\ IF "HOLDING" \in event THEN Count(Head(infos)) /\ UNCHANGED slave
               ELSE /\ slave' = IF "INPUT" \notin event /\ coils_port1 = "FF" THEN "delay" ELSE slave
                    /\ UNCHANGED <<data0, coils_port1>>
    /\ UNCHANGED <<resolver, master, tries, table, retry, cid, lost, behind>>
\* The limit is reached.
SlaveLimit == /\ slave = "run" /\ data0 >= MB_CHAN_DATA_MAX_VAL /\ slave' = "delay"
              /\ UNCHANGED <<resolver, master, tries, table, retry, cid, data0, coils_port1, event, infos, lost, behind>>
\* The second before it stops is longer than what is left of a sweep, unless
\* the master waits for the answer to a lost read.
SlaveDestroys == /\ slave = "delay" /\ (master # "poll" \/ lost > 0) /\ slave' = "destroyed"
                 /\ UNCHANGED <<resolver, master, tries, table, retry, cid, data0, coils_port1, event, infos, lost, behind>>

MasterStep == master_query_slave_service \/ master_get_slave_ip_stdin \/ master_init
              \/ MasterReads \/ MasterReadFails \/ MasterSweeps
SlaveStep == SlaveEvent \/ SlaveLimit \/ SlaveDestroys
Next == MasterStep \/ SlaveStep
\* Both tasks go on.
Fairness == WF_vars(MasterStep) /\ WF_vars(SlaveStep)
Spec == Init /\ [][Next]_vars /\ Fairness
-----------------------------------------------------------------------------
TypeOK == /\ resolver \in Resolvers /\ master \in {"resolve", "poll", "delay", "alarm", "over", "aborted"}
          /\ tries \in 0..10 /\ table \in BOOLEAN /\ retry \in 0..(MASTER_MAX_RETRY + 1)
          /\ cid \in 1..num_device_parameters /\ slave \in {"run", "delay", "destroyed", "aborted"}
          /\ data0 \in 0..(MB_CHAN_DATA_MAX_VAL + MB_CHAN_DATA_OFFSET) /\ coils_port1 \in {"AA", "FF"}
          /\ event \subseteq {"INPUT", "HOLDING", "COIL"} /\ Len(infos) <= QUEUE_SIZE /\ lost \in 0..MaxLost
\* The slave never stops without having raised the relay, and raises it at
\* least one read before it stops by its limit: the start value, the step and
\* the two limits have to fit (231-254).
RelayBeforeEnd == /\ slave \in {"delay", "destroyed"} => coils_port1 = "FF"
                  /\ data0 >= MB_CHAN_DATA_MAX_VAL - MB_CHAN_DATA_OFFSET <=> coils_port1 = "FF"
\* An event always finds an access in the queue, though several events may be
\* one by the time the task looks (238, 256, 264, 272).
InfoForEvent == slave # "aborted" /\ (event # {} => infos # <<>>)
\* If no read fails and the slave's task handles each before the next, the
\* master gets the alarm before its sweeps are used up.  (One access too late
\* and every later one is taken in the wrong branch and not counted.)
AlarmIsSeen == (lost = 0 /\ ~behind /\ master \in {"over", "alarm"} /\ table) => master = "alarm" /\ retry < MASTER_MAX_RETRY
\* ... and both programs end, the slave once its relay was read.
BothEnd == <>(master = "aborted" \/ (~table /\ master = "over") \/ lost > 0 \/ behind
              \/ (master = "alarm" /\ slave = "destroyed"))
=============================================================================
