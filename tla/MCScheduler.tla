---------------------------- MODULE MCScheduler ----------------------------
(***************************************************************************)
(* Small installations of Scheduler for TLC.                               *)
(***************************************************************************)
EXTENDS Scheduler, TLC

CONSTANTS alice, bob, a, b, c

\* alice owns a and c, bob owns b
Owners == [s \in Source |-> IF s = b THEN bob ELSE alice]
EveryTick == [s \in Source |-> 1]
============================================================================
