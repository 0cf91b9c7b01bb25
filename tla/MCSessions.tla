---------------------------- MODULE MCSessions ----------------------------
(***************************************************************************)
(* One source with two folders for TLC.                                    *)
(***************************************************************************)
EXTENDS Sessions, TLC

CONSTANTS alice, inbox, other, w1, w2, m1, m2, k1, k2, s1

AllInOne == [f \in Folder |-> alice]
FolderPerWorker == (w1 :> inbox @@ w2 :> other)
InOrder == [s \in Session |-> <<w1, w2>>]
\* m1 is in the inbox from the start, m2 arrives in the other folder
HomeApart == [m \in Mail |-> IF m = m2 THEN other ELSE inbox]
KeyPerMail == [m \in Mail |-> IF m = m2 THEN k2 ELSE k1]
FirstUids == [m \in Initial |-> 1]
=============================================================================
