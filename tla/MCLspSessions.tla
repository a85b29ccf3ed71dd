----------------------------- MODULE MCLspSessions -----------------------------
(***************************************************************************)
(* Small instances of LspSessions for TLC.                                  *)
(***************************************************************************)
EXTENDS LspSessions, TLC

\* Used by the safety runs with one session: calls, container ids, files, scans
\* and cleanups are interchangeable.
Symmetry ==
  Permutations(Calls) \cup Permutations(Ids) \cup Permutations(Scans) \cup Permutations(Cleanups)
================================================================================
