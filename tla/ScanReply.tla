------------------------------ MODULE ScanReply ------------------------------
(***************************************************************************)
(* GET /scan (scan_get_handler in wifi_prov.c): the access points a scan   *)
(* found become a JSON array in a buffer sized before it is written.       *)
(*                                                                         *)
(* The text is a sequence of tokens: "open", "comma" and "close" are the   *)
(* brackets and the comma of the array, one byte each; the object of an    *)
(* access point is one token, the access point itself.  ptr has the length *)
(* of the text in bytes.                                                   *)
(***************************************************************************)
EXTENDS Integers, Sequences, FiniteSets, SequencesExt

CONSTANTS
    Visible,    \* access points with an SSID
    Hidden,     \* access points without one
    SsidLen,    \* length of each SSID in bytes, 0 for the hidden ones
    Scans,      \* what a scan may find: a set of sequences of access points
    MaxAps      \* 20, the access points the handler puts into its reply

Aps == Visible \cup Hidden

ASSUME ApAssumption == /\ Visible \cap Hidden = {}
                       /\ Aps \cap {"open", "comma", "close"} = {}
                       /\ SsidLen \in [Aps -> 0..32]
                       /\ \A ap \in Aps : SsidLen[ap] = 0 <=> ap \in Hidden
ASSUME ScanAssumption == Scans \subseteq Seq(Aps) /\ MaxAps \in Nat \ {0}

VARIABLES
    phase,      \* where the handler is; "idle" between requests
    found,      \* what the driver holds of the last scan
    ap_count, i,
    json, ptr,  \* json_buf up to ptr, and ptr - json_buf in bytes
    held,       \* what malloc returned and nothing has freed
    reply       \* to the last request: "none", "500", "empty" ([]) or "json"

vars == <<phase, found, ap_count, i, json, ptr, held, reply>>

Init == /\ phase = "idle" /\ found = <<>>
        /\ ap_count = 0 /\ i = 0 /\ json = <<>> /\ ptr = 0
        /\ held = {} /\ reply = "none"

Answer(r) == phase' = "idle" /\ reply' = r

ScanFails == /\ phase = "idle"
             /\ Answer("500")
             /\ UNCHANGED <<found, ap_count, i, json, ptr, held>>

(* The reply below without the limit (a mutant). *)
ScanUnlimited(aps) == /\ phase = "idle" /\ aps # <<>>
                      /\ found' = aps /\ ap_count' = Len(aps)
                      /\ phase' = "list"
                      /\ UNCHANGED <<i, json, ptr, held, reply>>

ScanDone(aps) == /\ phase = "idle"
                 /\ found' = aps
                 /\ ap_count' = IF Len(aps) > MaxAps THEN MaxAps ELSE Len(aps)
                 /\ IF aps = <<>> THEN Answer("empty")
                                  ELSE phase' = "list" /\ UNCHANGED reply
                 /\ UNCHANGED <<i, json, ptr, held>>

AllocList == /\ phase = "list"
             /\ \/ held' = held \cup {"ap_list"} /\ phase' = "json" /\ UNCHANGED reply
                \/ Answer("500") /\ UNCHANGED held
             /\ UNCHANGED <<found, ap_count, i, json, ptr>>

(* The failure below without free(ap_list) (a mutant). *)
AllocJsonLeaks == phase = "json" /\ Answer("500") /\ UNCHANGED <<found, ap_count, i, json, ptr, held>>

AllocJson == /\ phase = "json"
             /\ \/ /\ held' = held \cup {"json_buf"}
                   /\ json' = <<"open">> /\ ptr' = 1 /\ i' = 0
                   /\ phase' = "loop" /\ UNCHANGED reply
                \/ /\ held' = held \ {"ap_list"}
                   /\ Answer("500") /\ UNCHANGED <<json, ptr, i>>
             /\ UNCHANGED <<found, ap_count>>

(* An object is 55 bytes of keys, quotes and BSSID, an RSSI of up to 4, one *)
(* digit of authmode and the SSID.                                         *)
ObjectBytes(ap) == 55 + 4 + 1 + SsidLen[ap]

(* One turn of the loop: a hidden one is skipped; the comma after an       *)
(* object depends on its index alone.                                      *)
Comma == IF i < ap_count - 1 THEN <<"comma">> ELSE <<>>

NextAp == /\ phase = "loop" /\ i < ap_count
          /\ i' = i + 1
          /\ IF found[i + 1] \in Hidden THEN UNCHANGED <<json, ptr>>
             ELSE /\ json' = Append(json, found[i + 1]) \o Comma
                  /\ ptr' = ptr + ObjectBytes(found[i + 1]) + Len(Comma)
          /\ UNCHANGED <<phase, found, ap_count, held, reply>>

(* The end below with the comma left (a mutant). *)
FinishKeepsComma == /\ phase = "loop" /\ i = ap_count
                    /\ json' = Append(json, "close") /\ ptr' = ptr + 1
                    /\ held' = held \ {"json_buf", "ap_list"}
                    /\ Answer("json")
                    /\ UNCHANGED <<found, ap_count, i>>

Finish == /\ phase = "loop" /\ i = ap_count
          /\ IF Last(json) = "comma"
             THEN json' = Append(Front(json), "close") /\ UNCHANGED ptr
             ELSE json' = Append(json, "close") /\ ptr' = ptr + 1
          /\ held' = held \ {"json_buf", "ap_list"}
          /\ Answer("json")
          /\ UNCHANGED <<found, ap_count, i>>

Next == \/ ScanFails \/ \E aps \in Scans : ScanDone(aps)
        \/ AllocList \/ AllocJson \/ NextAp \/ Finish

Spec == Init /\ [][Next]_vars
-----------------------------------------------------------------------------
TypeOK == /\ phase \in {"idle", "list", "json", "loop"}
          /\ found \in Scans \cup {<<>>}
          /\ ap_count \in 0..MaxAps /\ i \in 0..MaxAps
          /\ json \in Seq(Aps \cup {"open", "comma", "close"}) /\ ptr \in Nat
          /\ held \subseteq {"ap_list", "json_buf"}
          /\ reply \in {"none", "500", "empty", "json"}

(* The array holds each visible access point among the first MaxAps, in    *)
(* the driver's order, with a comma exactly between two of them, whichever *)
(* of them are hidden.  The object of the n-th visible one is token 2 * n. *)
Shown(n) == {k \in 1..n : found[k] \in Visible}

Count(n) == Cardinality(Shown(n))

ListsVisible ==
    phase = "idle" /\ reply = "json" =>
        /\ Len(json) = IF Count(ap_count) = 0 THEN 2 ELSE 2 * Count(ap_count) + 1
        /\ json[1] = "open" /\ json[Len(json)] = "close"
        /\ \A k \in Shown(ap_count) : json[2 * Count(k)] = found[k]
        /\ \A n \in 1..(Count(ap_count) - 1) : json[2 * n + 1] = "comma"

(* The text never runs past the buffer, sized 128 bytes per access point   *)
(* before anything is known of their names; a byte is left for the NUL     *)
(* that each sprintf writes behind it.                                     *)
(* A buffer of 64 bytes per access point (a mutant). *)
BufferTight(n) == n * 64 + 10
BufferSize(n)  == n * 128 + 10

Written == phase = "loop" \/ (phase = "idle" /\ reply = "json")

StaysInBuffer == Written => ptr + 1 <= BufferSize(ap_count)

(* Whichever allocation fails, a finished request holds no memory.         *)
NothingHeld == phase = "idle" => held = {}
=============================================================================
