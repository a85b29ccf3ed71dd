------------------------------ MODULE MCLspGateway ------------------------------
(***************************************************************************)
(* Small instances of LspGateway for TLC.                                   *)
(***************************************************************************)
EXTENDS LspGateway
================================================================================
