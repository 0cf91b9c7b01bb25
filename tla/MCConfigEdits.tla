---------------------------- MODULE MCConfigEdits ----------------------------
(***************************************************************************)
(* A small installation of ConfigEdits for TLC.                            *)
(***************************************************************************)
EXTENDS ConfigEdits, TLC

CONSTANTS alice, s1, p1, p2, t1, t2, o1, o2, o3

Owners == [s \in Source |-> alice]
Same == Permutations(Thread) \cup Permutations(Store) \cup Permutations(Password)
=============================================================================
