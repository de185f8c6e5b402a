-------------------------------- MODULE MCWeb --------------------------------
(*****************************************************************************)
(* The two handlers of the configuration page with data: ScanReply,          *)
(* extended, and ConfigForm. which is the page's request that is looked      *)
(* at. The lists of access points go around the limits of the code.          *)
(*****************************************************************************)
EXTENDS ScanReply, MCFormTexts

VARIABLE which   \* the handler that runs: none of the others is there
VARIABLES config_form_phase, form, total_len, cur_len, config_form_held, config, config_form_reply

config_formVars == <<config_form_phase, form, total_len, cur_len, config_form_held, config,
                     config_form_reply>>

(* Every scan of up to three access points, and long ones around the limit  *)
(* that end hidden or are all hidden.                                       *)
MCVisible == {"home", "longest", "cafe"}
MCHidden  == {"hidden"}
MCSsidLen == [ap \in MCVisible \cup MCHidden |->
                CASE ap = "home" -> 1 [] ap = "longest" -> 32 [] ap = "cafe" -> 6 [] OTHER -> 0]
MCScans == UNION {[1..n -> MCVisible \cup MCHidden] : n \in 0..3}
           \cup {Repeated(ap, n) \o last : ap \in {"longest", "hidden"}, n \in 18..21,
                                           last \in {<<>>, <<"hidden">>, <<"home">>}}

ConfigForm == INSTANCE ConfigForm WITH
    Ssids <- MCSsids, Passwords <- MCPasswords, Bssids <- MCBssids, EncodedMax <- 127,
    SsidMax <- 32, PasswordMax <- 63, MaxPieces <- 2, MayFail <- TRUE, phase <- config_form_phase,
    held <- config_form_held, reply <- config_form_reply

ASSUME ConfigFormAssumption == ConfigForm!FormAssumption /\ ConfigForm!SizeAssumption

WebInit ==
    /\ which \in {"scan_reply", "config_form"}
    /\ Init
    /\ ConfigForm!Init

WebNext ==
    \/ which = "scan_reply" /\ Next /\ UNCHANGED <<which, config_formVars>>
    \/ which = "config_form" /\ ConfigForm!Next /\ UNCHANGED <<which, vars>>

WebSpec == WebInit /\ [][WebNext]_<<which, vars, config_formVars>>
-----------------------------------------------------------------------------
\* config_form: what is stored is what was typed, and the body is freed
\* however the request ends.
FormKept == ConfigForm!TypeOK /\ ConfigForm!StoredAsTyped /\ ConfigForm!BodyFreed
=============================================================================
