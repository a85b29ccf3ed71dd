---------------------------- MODULE MCUserAccounts ----------------------------
(***************************************************************************)
(* Small instances of UserAccounts for TLC.                                 *)
(***************************************************************************)
EXTENDS UserAccounts, TLC

\* Nothing distinguishes two CLIs, emails, passwords, ids or requests but their
\* use: the sender of an idle request is the only value that is chosen.
Symmetry ==
  Permutations(Emails) \cup Permutations(Passwords) \cup Permutations(UserIds)
    \cup Permutations(Tokens) \cup Permutations(SessionIds) \cup Permutations(Requests)
================================================================================
