--------------------------- MODULE MCFolderSync ---------------------------
(***************************************************************************)
(* Small installations of FolderSync for TLC.                              *)
(***************************************************************************)
EXTENDS FolderSync, TLC

CONSTANTS alice, inbox, other, w1, w2, m1, m2, m3, k1, k2

AllInOne == [f \in Folder |-> alice]
OneFolder == [w \in Worker |-> inbox]
HomeInbox == [m \in Mail |-> inbox]
\* m1 is there from the start; m2 and m3 arrive and are the same message
KeyPerMail == [m \in Mail |-> IF m = m1 THEN k1 ELSE k2]
FirstUids == [m \in Initial |-> 1]
Unlimited == NoCap
SameWorkers == Permutations(Worker)

\* m2 and m3 come to two addresses of one user
FolderPerWorker == (w1 :> inbox @@ w2 :> other)
HomeApart == [m \in Mail |-> IF m = m2 THEN other ELSE inbox]
=============================================================================
