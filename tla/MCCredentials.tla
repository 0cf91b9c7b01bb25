---------------------------- MODULE MCCredentials ----------------------------
(***************************************************************************)
(* Small installations of Credentials for TLC.                             *)
(***************************************************************************)
EXTENDS Credentials, TLC

CONSTANTS t1, t2, auth, d1, d2, g1, g2
=============================================================================
