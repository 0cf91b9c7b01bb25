----------------------------- MODULE MCHealth -----------------------------
(***************************************************************************)
(* Small installations of Health for TLC.                                  *)
(***************************************************************************)
EXTENDS Health

CONSTANTS alice, bob, root, s1, s2

AllAlices == [s \in Source |-> alice]
============================================================================
