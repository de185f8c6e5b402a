--------------------------- MODULE MCTcpBridgeLive ---------------------------
(***************************************************************************)
(* TcpBridge for what must happen in the end, from two starts: alone, with *)
(* data both ways; and with a full cache and the web server taking and     *)
(* giving back descriptors until accept and socket fail.                   *)
(***************************************************************************)
EXTENDS MCTcpBridge

(* The daemon has filled the cache before the server's task runs.          *)
FullCache == /\ received = MaxBytes
             /\ queue = Newest([k \in 1..MaxBytes |-> k], Capacity)
             /\ chunk = [s \in Sessions |-> <<>>]

LiveInit == \/ Start(MaxDown, 0) /\ Cache!Init
            \/ Start(0, MaxHttp) /\ FullCache

LiveSpec == LiveInit /\ [][Next]_vars /\ Fairness
=============================================================================
