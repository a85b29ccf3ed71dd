------------------------------ MODULE MCLspFraming ------------------------------
(***************************************************************************)
(* Small instances of LspFraming for TLC.                                   *)
(***************************************************************************)
EXTENDS LspFraming

================================================================================
