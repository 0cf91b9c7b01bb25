------------------------------- MODULE Sessions -------------------------------
(***************************************************************************)
(* A poll of a source (sync.sync_source): one IMAP session that takes the  *)
(* folders of the source in order, with one cap on messages for all of     *)
(* them, and that is repeated as a whole after a transient error.  What it *)
(* does in a folder is a poll of FolderSync by the worker of that folder.  *)
(***************************************************************************)
EXTENDS FolderSync, Sequences

CONSTANTS
    Session,
    Folders    \* Folders[s]: the workers of a session, in source.folders' order

ASSUME SessionsAssumption ==
    /\ Folders \in [Session -> Seq(Worker) \ {<<>>}]
    /\ \A w \in Worker : \E s \in Session : \E i \in DOMAIN Folders[s] : Folders[s][i] = w
    /\ \A r, s \in Session : \A i \in DOMAIN Folders[r], j \in DOMAIN Folders[s] :
          Folders[r][i] = Folders[s][j] => r = s /\ i = j

VARIABLE session   \* session[s]: the folder it is at (0: none), remaining

sessionVars == <<vars, session>>

Closed == [at |-> 0, remaining |-> Cap]

InitSessions == Init /\ session = [s \in Session |-> Closed]

Open(s) == session[s].at # 0
\* Session s is at the folder of worker w, which it is polling or about to.
At(s, w) == Open(s) /\ Folders[s][session[s].at] = w
Between(s, w) == At(s, w) /\ pc[w] = "idle"
Working(s, w) == At(s, w) /\ pc[w] # "idle"
-----------------------------------------------------------------------------
\* The scheduler polls the source.
StartSession(s) ==
    /\ ~Open(s)
    /\ session' = [session EXCEPT ![s].at = 1]
    /\ UNCHANGED vars

\* The folder starts with what the ones before it have left, nothing perhaps.
BeginFolder(s, w) ==
    /\ Between(s, w)
    /\ Begin(w, session[s].remaining)
    /\ UNCHANGED session

Close(s) == session' = [session EXCEPT ![s] = Closed]

\* Mutant: the next poll starts with what this one has left.
KeepSpent(s, left) ==
    session' = [session EXCEPT
        ![s] = [at |-> IF @.at = Len(Folders[s]) THEN 0 ELSE @.at + 1, remaining |-> left]]

\* remaining - processed; after the last folder the poll is a success.
NextFolder(s, left) ==
    IF session[s].at = Len(Folders[s]) THEN Close(s)
    ELSE session' = [session EXCEPT ![s].at = @ + 1, ![s].remaining = left]

\* An error that is not transient (FetchGone, NothingToCount) ends the poll,
\* the folders that are left are not looked at.
WorkOn(s, w) ==
    /\ Working(s, w)
    /\ Poll(w)
    /\ IF pc'[w] # "idle" THEN UNCHANGED session
       ELSE IF pc[w] \in {"finish", "pin"} THEN NextFolder(s, job[w].left)
       ELSE Close(s)

\* A transient one repeats it from its first folder, with the whole cap, or,
\* at the last attempt, ends it too.
Repeat(s) == session' = [session EXCEPT ![s] = [at |-> 1, remaining |-> Cap]]
AgainOrNot(s) == Repeat(s) \/ Close(s)

\* util.retry has given up on an import.
ImportFails(s, w) ==
    /\ Working(s, w)
    /\ ImportTransient(w)
    /\ IF pc'[w] = "idle" THEN AgainOrNot(s) ELSE UNCHANGED session

\* A lost connection is transient; an expired token and a crash are not.
Interrupted(s, w) ==
    /\ \/ Working(s, w) /\ Abort(w)
       \/ Between(s, w) /\ "abort" \in Faults /\ UNCHANGED vars
    /\ AgainOrNot(s)

SyncSource(s) ==
    \/ StartSession(s)
    \/ \E w \in Worker : BeginFolder(s, w) \/ WorkOn(s, w)
Breaks(s) == \E w \in Worker : ImportFails(s, w) \/ Interrupted(s, w)

NextSessions == \/ \E s \in Session : SyncSource(s) \/ Breaks(s)
                \/ Environment /\ UNCHANGED session

SessionsSpec == InitSessions /\ [][NextSessions]_sessionVars
-----------------------------------------------------------------------------
(***************************************************************************)
(* Liveness.  The scheduler polls a source again and again, a poll takes   *)
(* its next step, hours and retry delays pass; and at some point the       *)
(* connections stay up.                                                    *)
(***************************************************************************)
Fairness ==
    /\ \A s \in Session : WF_sessionVars(SyncSource(s))
    /\ \A f \in Folder : WF_vars(SweepInterval(f))
    /\ \A f \in Folder, u \in Uid : WF_vars(RetryDelay(f, u))

\* From some point on polls only fail where failing is what they do anyway (a
\* session that ends after its last step, with nothing left to write).
FaultsCease == <>[][\A s \in Session : Breaks(s) => SyncSource(s)]_sessionVars

FairSpec == SessionsSpec /\ Fairness /\ FaultsCease

GivenUp(m) == uid[m] \in Uid /\ retry_queue[HomeOf[m]][uid[m]].next = "gave_up"
Gone(m) == where[m] \in {"expunged", "deleted"}

\* The load on the cap ends: mail is finite, and from some point on nobody retries
\* by hand what is polled before the mail of m's folder or with it.
LoadEnds(m) ==
    <>[][\A s \in Session : \A i, j \in DOMAIN Folders[s] :
            i <= j /\ FolderOf[Folders[s][j]] = HomeOf[m] =>
                LET f == FolderOf[Folders[s][i]] IN
                ~Requeue(f) /\ \A u \in Uid : ~HandQueue(f, u)]_vars

\* config.example.yaml: a cycle is capped, "the rest follow next cycle".  A message
\* that arrives after the set-up reaches Gmail, however long the folders before it
\* use the cap up, once that load ends (one that never ends does starve it), unless
\* its owner removes it first, Gmail keeps rejecting it or it is too large.
EventuallyDelivered ==
    \A m \in Mail \ Oversize :
        LoadEnds(m) =>
            (m \in fresh /\ where[m] = "here"
                ~> DeliveredMail(m) \/ Gone(m) \/ GivenUp(m))

\* In a move source it also leaves the mailbox, leftovers below the cursor of
\* a folder from before 0.8 included.
EventuallyMoved ==
    \A m \in Mail \ Oversize :
        HomeOf[m] \in MoveFolders /\ LoadEnds(m) =>
            (m \in fresh /\ where[m] = "here" ~> Gone(m) \/ GivenUp(m))
=============================================================================
