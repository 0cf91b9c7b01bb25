------------------------------ MODULE MailMove ------------------------------
(***************************************************************************)
(* What gmailification promises about a message, whatever the state of its *)
(* cursors, queues and sessions: a message is delivered to Gmail after it  *)
(* arrived at the source, and a move source loses it only once Gmail has   *)
(* it.  FolderSync implements this specification (FolderSync!Promise).     *)
(***************************************************************************)
CONSTANTS Mail,      \* messages
          IdentOf,   \* IdentOf[m]: the user and dedupe key a message stands for
          Movable    \* messages whose source opted into after_import: delete

VARIABLES mailbox,   \* mailbox[m]: where the source keeps m
          delivered  \* identities the destination Gmail accounts hold

mailVars == <<mailbox, delivered>>

Place == {"pending", "here", "moved", "removed"}

MailInit == /\ mailbox \in [Mail -> {"pending", "here"}]
            /\ delivered = {}

Appear(m) == /\ mailbox[m] = "pending"
             /\ mailbox' = [mailbox EXCEPT ![m] = "here"]
             /\ UNCHANGED delivered

Deliver(m) == /\ mailbox[m] # "pending"
              /\ delivered' = delivered \cup {IdentOf[m]}
              /\ UNCHANGED mailbox

(***************************************************************************)
(* One expunge takes out of the mailbox the delivered messages S, and the  *)
(* messages T that the owner of the mailbox disposed of.                   *)
(***************************************************************************)
TakeOut(S, T) ==
    /\ S \cap T = {}
    /\ \A m \in S \cup T : mailbox[m] = "here"
    /\ \A m \in S : m \in Movable /\ IdentOf[m] \in delivered
    /\ mailbox' = [m \in Mail |-> IF m \in S THEN "moved"
                                  ELSE IF m \in T THEN "removed"
                                  ELSE mailbox[m]]
    /\ UNCHANGED delivered

MailNext == \/ \E m \in Mail : Appear(m) \/ Deliver(m)
            \/ \E S, T \in SUBSET Mail : TakeOut(S, T)

MailSpec == MailInit /\ [][MailNext]_mailVars
=============================================================================
