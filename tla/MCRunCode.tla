------------------------------- MODULE MCRunCode -------------------------------
(***************************************************************************)
(* Small instances of RunCode for TLC.                                      *)
(***************************************************************************)
EXTENDS RunCode

================================================================================
