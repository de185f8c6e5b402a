----------------------------- MODULE MCWifiProv -----------------------------
(***************************************************************************)
(* WifiProv with one right and one wrong configuration, the 5 retries of   *)
(* the code, and a bounded number of forms posted and of power cuts.       *)
(***************************************************************************)
EXTENDS WifiProv
=============================================================================
