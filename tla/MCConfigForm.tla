---------------------------- MODULE MCConfigForm ----------------------------
(***************************************************************************)
(* ConfigForm with the sizes of the code and the texts of MCFormTexts.     *)
(***************************************************************************)
EXTENDS ConfigForm, MCFormTexts
=============================================================================
