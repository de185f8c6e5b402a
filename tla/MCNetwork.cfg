SPECIFICATION Spec

INVARIANTS

PROPERTIES
    SocketsGoOn
    RequestsCleanUp
    MqttSettles
    CoapDelivers
    ModbusAlarms
    ServersComeBack
    ClientGathers

\* Several of the programs end, and the bounds use up the events of the others.
CHECK_DEADLOCK FALSE
