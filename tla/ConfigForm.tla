------------------------------ MODULE ConfigForm ------------------------------
(***************************************************************************)
(* POST /config (wifi_config_post_handler in wifi_prov.c) up to the        *)
(* configuration it stores: the body is received in pieces, its fields are *)
(* copied into buffers of fixed size, decoded, and copied into             *)
(* wifi_config.  WifiProv has what follows.                                *)
(***************************************************************************)
EXTENDS Integers, Sequences, UrlCoding

CONSTANTS
    Ssids,          \* what users type into the fields of the page
    Passwords,
    Bssids,         \* those that parse_mac_address reads ("colons"), those the
                    \*   page accepts ("colons", "dashes") and others
    EncodedMax,     \* sizeof(ssid_encoded) - 1 = sizeof(password_encoded) - 1
    SsidMax,        \* 32, the length of an SSID
    PasswordMax,    \* 63, the length of a passphrase
    MaxPieces,      \* bound: pieces the body comes in
    MayFail         \* malloc or the connection fails, sometimes

(* What the constants must satisfy; MCWeb assumes it of its own. *)
FormAssumption == /\ Ssids \subseteq Seq(0..255) /\ Passwords \subseteq Seq(0..255)
                  /\ Bssids \subseteq {"colons", "dashes", "other"}
SizeAssumption == /\ {EncodedMax, SsidMax, PasswordMax, MaxPieces} \subseteq Nat
                  /\ MayFail \in BOOLEAN

VARIABLES
    phase,      \* where the handler is; "idle" between requests
    form,       \* the form being handled, or handled last
    total_len, cur_len,     \* pieces of the body there are and received
    held,       \* buf is allocated
    config,     \* the last configuration handed to esp_wifi_set_config
    reply       \* to the last request: "none", "connecting", "500", "408" or
                \*   "closed" (no reply)

vars == <<phase, form, total_len, cur_len, held, config, reply>>

(* bssid_enable is in the body when the box is checked (lock).  whole is   *)
(* FALSE for a body without an ssid or a password field.                   *)
Forms == [ssid : Ssids, password : Passwords, lock : BOOLEAN, bssid : Bssids, whole : BOOLEAN]

NoConfig == [ssid |-> <<>>, password |-> <<>>, bssid_set |-> FALSE]
NoForm   == [ssid |-> <<>>, password |-> <<>>, lock |-> FALSE, bssid |-> "other", whole |-> FALSE]

Init == /\ phase = "idle" /\ form = NoForm
        /\ total_len = 0 /\ cur_len = 0
        /\ held = FALSE /\ config = NoConfig /\ reply = "none"

Answer(r) == phase' = "idle" /\ reply' = r

Request(f, n) == /\ phase = "idle" /\ reply = "none"
                 /\ f.whole => n > 0
                 /\ form' = f /\ total_len' = n /\ cur_len' = 0
                 /\ phase' = "alloc"
                 /\ UNCHANGED <<held, config, reply>>

Alloc == /\ phase = "alloc"
         /\ \/ held' = TRUE /\ phase' = "recv" /\ UNCHANGED reply
            \/ MayFail /\ Answer("500") /\ UNCHANGED held
         /\ UNCHANGED <<form, total_len, cur_len, config>>

Receive(n) == /\ phase = "recv" /\ cur_len < total_len
              /\ cur_len + n <= total_len
              /\ cur_len' = cur_len + n
              /\ UNCHANGED <<phase, form, total_len, held, config, reply>>

(* The failure below without free(buf) (a mutant). *)
ReceiveFailsLeaks == /\ phase = "recv" /\ cur_len < total_len /\ MayFail
                     /\ \E r \in {"408", "closed"} : Answer(r)
                     /\ UNCHANGED <<form, total_len, cur_len, held, config>>

ReceiveFails == /\ phase = "recv" /\ cur_len < total_len /\ MayFail
                /\ held' = FALSE
                /\ \E r \in {"408", "closed"} : Answer(r)
                /\ UNCHANGED <<form, total_len, cur_len, config>>

(* httpd_query_key_value reports a value longer than its buffer as an      *)
(* error.  (External.)                                                     *)
Fits(text) == Len(UrlEncode(text)) <= EncodedMax

(* A C string ends at its first NUL; strncpy copies at most n bytes of it. *)
CString(s)    == SelectInSeq(s, LAMBDA c : c = 0)
strncpy(s, n) == LET end == IF CString(s) = 0 THEN Len(s) ELSE CString(s) - 1
                 IN  SubSeq(s, 1, IF end < n THEN end ELSE n)

(* parse_mac_address reads colons only. *)
parse_mac_address(bssid) == bssid = "colons"

Decoded(f) ==
    [ssid      |-> strncpy(url_decode(UrlEncode(f.ssid), SsidMax), SsidMax),
     password  |-> strncpy(url_decode(UrlEncode(f.password), PasswordMax + 1), PasswordMax + 1),
     bssid_set |-> f.lock /\ parse_mac_address(f.bssid)]

Store == /\ phase = "recv" /\ cur_len = total_len
         /\ form.whole /\ Fits(form.ssid) /\ Fits(form.password)
         /\ config' = Decoded(form)
         /\ held' = FALSE
         /\ Answer("connecting")
         /\ UNCHANGED <<form, total_len, cur_len>>

Refuse == /\ phase = "recv" /\ cur_len = total_len
          /\ ~(form.whole /\ Fits(form.ssid) /\ Fits(form.password))
          /\ held' = FALSE
          /\ Answer("500")
          /\ UNCHANGED <<form, total_len, cur_len, config>>

Next == \/ /\ phase = "idle" /\ reply = "none"
           /\ \E f \in Forms, n \in 0..MaxPieces : Request(f, n)
        \/ Alloc \/ ReceiveFails \/ Store \/ Refuse
        \/ \E n \in 1..MaxPieces : Receive(n)

Spec == Init /\ [][Next]_vars
-----------------------------------------------------------------------------
TypeOK == /\ phase \in {"idle", "alloc", "recv"}
          /\ form \in Forms \cup {NoForm}
          /\ total_len \in 0..MaxPieces /\ cur_len \in 0..total_len
          /\ held \in BOOLEAN
          /\ config \in [ssid : Seq(0..255), password : Seq(0..255), bssid_set : BOOLEAN]
          /\ reply \in {"none", "connecting", "500", "408", "closed"}

(* What validateForm of the page lets through, for one-byte characters.    *)
PageAccepts(f) == /\ f.whole
                  /\ f.ssid # <<>> /\ Len(f.ssid) <= SsidMax
                  /\ Len(f.password) <= PasswordMax
                  /\ f.lock => f.bssid \in {"colons", "dashes"}

(* A configuration made from the page's form is what the user typed, byte  *)
(* for byte: no encoding, copy or buffer on the way changes, cuts or       *)
(* decodes a character twice.                                              *)
StoredAsTyped ==
    reply = "connecting" /\ PageAccepts(form) =>
        /\ config.ssid = form.ssid
        /\ config.password = form.password

(* Whichever way a request ends, its buffer is freed.                      *)
BodyFreed == phase = "idle" => ~held
-----------------------------------------------------------------------------
(* Statements of the sources that the code does not keep.                  *)

(* wifi_prov.c:51, "if (pass.length > 63)" is too long: a form the page    *)
(* lets through is accepted, with nothing failing.                         *)
PageFormsAccepted == PageAccepts(form) /\ ~MayFail => reply # "500"
=============================================================================
