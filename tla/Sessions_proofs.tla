---------------------------- MODULE Sessions_proofs ----------------------------
(***************************************************************************)
(* Sessions implements FolderSync: whatever the order of the folders, the  *)
(* cap and the repetitions of a session, all it does to the database, the  *)
(* mailboxes and Gmail are polls of folders.  What is proved of those      *)
(* holds of sessions.                                                      *)
(***************************************************************************)
EXTENDS Sessions, FolderSyncMail_proofs

\* A session has its share of the cap, and so has the poll it is in.
SharesOfCap ==
    /\ session \in [Session -> [at : Nat, remaining : Budget]]
    /\ \A w \in Worker : job[w].left \in Budget

SessionInv == IInv /\ SharesOfCap

LEMMA CapIsBudget == Cap \in Budget
BY ConstantsAssumption DEF Budget, NoCap

\* Within the budget, a message that is taken leaves a budget.
LEMMA SpentIsBudget ==
    ASSUME NEW left \in Budget, left # 0
    PROVE  Spent(left) \in Budget
BY ConstantsAssumption DEF Budget, Spent, NoCap

\* The end of a poll, and what a poll does between two messages.
LEMMA EndPollKeepsShare ==
    ASSUME TypeOK, SharesOfCap, NEW w \in Worker, EndPoll(w)
    PROVE  \A v \in Worker : job'[v].left \in Budget
BY CapIsBudget DEF TypeOK, SharesOfCap, EndPoll, NoJob, NewJob

LEMMA TookKeepsShare ==
    ASSUME TypeOK, SharesOfCap, NEW w \in Worker, Taking(w), NEW m, job' = Took(w, m)
    PROVE  \A v \in Worker : job'[v].left \in Budget
<1>1. Spent(job[w].left) \in Budget
  BY SpentIsBudget DEF SharesOfCap, Taking, Exhausted, WithinBudget
<1>2. job \in [Worker -> Job]
  BY DEF TypeOK
<1>3. job'[w].left = Spent(job[w].left)
  BY <1>2 DEF Took, Job
<1>4. ASSUME NEW v \in Worker, v # w PROVE job'[v] = job[v]
  BY <1>2, <1>4 DEF Took
<1> QED BY <1>1, <1>3, <1>4 DEF SharesOfCap

\* A step that leaves the budget of its poll alone.
LEMMA SameShare ==
    ASSUME TypeOK, SharesOfCap, NEW w \in Worker,
           job' = [job EXCEPT ![w] = job'[w]], job'[w].left = job[w].left
    PROVE  \A v \in Worker : job'[v].left \in Budget
BY DEF TypeOK, SharesOfCap

\* A poll never has more than what it started with.
LEMMA PollKeepsShare ==
    ASSUME TypeOK, SharesOfCap, NEW w \in Worker, Poll(w) \/ Fail(w)
    PROVE  \A v \in Worker : job'[v].left \in Budget
<1>0. job \in [Worker -> Job]
  BY DEF TypeOK
<1>1. CASE Starts(w)
  <2>1. PICK left \in Budget : Begin(w, left)
    BY <1>1 DEF Starts
  <2> QED BY <1>0, <2>1 DEF Begin, NewJob, SharesOfCap
<1>2. CASE SkipOversize(w) \/ TakeDuplicate(w) \/ TakeMessage(w)
  <2>1. PICK m : Taking(w) /\ job' = Took(w, m)
    BY <1>2 DEF SkipOversize, TakeDuplicate, TakeMessage
  <2> QED BY <2>1, TookKeepsShare
<1>3. CASE \/ FetchGone(w) \/ NothingToCount(w) \/ Pin(w) \/ Abort(w)
  BY <1>3, EndPollKeepsShare DEF FetchGone, NothingToCount, Pin, Abort
<1>4. CASE Finish(w) \/ ImportTransient(w)
  <2>1. CASE EndPoll(w)
    BY <2>1, EndPollKeepsShare
  <2>2. CASE ~EndPoll(w)
    <3>1. \/ UNCHANGED job
          \/ job' = [job EXCEPT ![w].tries = job[w].tries + 1]
      BY <1>4, <2>2 DEF Finish, ImportTransient
    <3>2. job' = [job EXCEPT ![w] = job'[w]] /\ job'[w].left = job[w].left
      BY <1>0, <3>1 DEF Job
    <3> QED BY <3>2, SameShare
  <2> QED BY <2>1, <2>2
<1>5. CASE DeriveFloor(w) \/ StartRetries(w) \/ Search(w)
  <2>1. CASE \E floor : job' = [job EXCEPT ![w].state.watch_from_uid = floor]
    BY <1>0, <2>1, SameShare DEF Job
  <2>2. CASE \E S : job' = [job EXCEPT ![w].todo = S, ![w].retrying = TRUE]
    BY <1>0, <2>2, SameShare DEF Job
  <2>3. CASE \E S : job' = [job EXCEPT ![w].todo = S, ![w].found = (S # {}),
                                       ![w].retrying = FALSE]
    <3>1. PICK S : job' = [job EXCEPT ![w].todo = S, ![w].found = (S # {}),
                                      ![w].retrying = FALSE]
      BY <2>3
    <3> DEFINE r == [job[w] EXCEPT !.todo = S, !.found = (S # {}), !.retrying = FALSE]
    <3>2. job' = [job EXCEPT ![w] = r]
      BY <3>1
    <3>3. r.left = job[w].left
      BY <1>0 DEF Job
    <3> HIDE DEF r
    <3>4. job' = [job EXCEPT ![w] = job'[w]] /\ job'[w].left = job[w].left
      BY <1>0, <3>2, <3>3
    <3> QED BY <3>4, SameShare
  <2> QED BY <1>5, <2>1, <2>2, <2>3, Zenon DEF DeriveFloor, StartRetries, Search
<1>6. CASE \/ Import(w) \/ ImportRejected(w) \/ CountAttempts(w) \/ Defer(w)
           \/ Expunge(w)
  <2>1. job' = [job EXCEPT ![w] = job'[w]] /\ job'[w].left = job[w].left
    BY <1>0, <1>6 DEF Import, ImportRejected, CountAttempts, Defer, Expunge, Job
  <2> QED BY <2>1, SameShare
<1>7. CASE \/ Sweep(w) \/ SkipSweep(w) \/ EndRetries(w) \/ EndNew(w) \/ Park(w)
           \/ RecordImport(w) \/ RecordFails(w) \/ ClearRetry(w) \/ MarkDeleted(w) \/ Advance(w)
  <2>1. UNCHANGED job
    BY <1>7 DEF Sweep, SkipSweep, EndRetries, EndNew, Park, RecordImport, RecordFails, ClearRetry,
       MarkDeleted, Advance
  <2> QED BY <2>1 DEF SharesOfCap
<1> QED BY <1>1, <1>2, <1>3, <1>4, <1>5, <1>6, <1>7 DEF Poll, Fail
-----------------------------------------------------------------------------
\* The shapes of a step of a session: it moves on, closes or starts again.
LEMMA SessionMoves ==
    ASSUME SharesOfCap, NEW s \in Session, NEW left \in Budget,
           \/ UNCHANGED session
           \/ session' = [session EXCEPT ![s].at = 1]
           \/ NextFolder(s, left)
           \/ AgainOrNot(s)
    PROVE  session' \in [Session -> [at : Nat, remaining : Budget]]
<1> DEFINE Row == [at : Nat, remaining : Budget]
<1>0. session \in [Session -> Row] /\ session[s] \in Row /\ Cap \in Budget
  BY CapIsBudget DEF SharesOfCap
<1>1. CASE UNCHANGED session
  BY <1>0, <1>1
<1>2. CASE session' = [session EXCEPT ![s].at = 1]
  BY <1>0, <1>2
<1>3. CASE AgainOrNot(s)
  BY <1>0, <1>3 DEF AgainOrNot, Repeat, Close, Closed
<1>4. CASE NextFolder(s, left)
  <2>1. CASE Close(s)
    BY <1>0, <2>1 DEF Close, Closed
  <2>2. CASE session' = [session EXCEPT ![s].at = @ + 1, ![s].remaining = left]
    BY <1>0, <2>2
  <2> QED BY <1>4, <2>1, <2>2 DEF NextFolder
<1> QED BY <1>1, <1>2, <1>3, <1>4

\* Every step of a session is a step of FolderSync, or none, and leaves the
\* shares within the cap.
LEMMA SessionStep ==
    ASSUME SessionInv, NextSessions
    PROVE  [Next]_vars /\ SharesOfCap'
<1>0. TypeOK /\ SharesOfCap
  BY DEF SessionInv, IInv
<1>1. ASSUME NEW s \in Session, StartSession(s) PROVE [Next]_vars /\ SharesOfCap'
  <2>1. UNCHANGED vars /\ UNCHANGED job
    BY <1>1 DEF StartSession, vars
  <2>2. session' \in [Session -> [at : Nat, remaining : Budget]]
    BY <1>0, <1>1, SessionMoves, CapIsBudget DEF StartSession
  <2> QED BY <1>0, <2>1, <2>2 DEF SharesOfCap
<1>2. ASSUME NEW s \in Session, NEW w \in Worker, BeginFolder(s, w)
      PROVE  [Next]_vars /\ SharesOfCap'
  <2>1. session[s].remaining \in Budget /\ UNCHANGED session
    BY <1>0, <1>2 DEF SharesOfCap, BeginFolder
  <2>2. Starts(w)
    BY <1>2, <2>1 DEF BeginFolder, Starts
  <2>3. Poll(w)
    BY <2>2 DEF Poll
  <2> QED BY <1>0, <2>1, <2>3, PollKeepsShare DEF SharesOfCap, Next
<1>3. ASSUME NEW s \in Session, NEW w \in Worker, WorkOn(s, w)
      PROVE  [Next]_vars /\ SharesOfCap'
  <2>1. Poll(w)
    BY <1>3 DEF WorkOn
  <2>2. job[w].left \in Budget
    BY <1>0 DEF SharesOfCap
  <2>3. UNCHANGED session \/ NextFolder(s, job[w].left) \/ AgainOrNot(s)
    BY <1>3 DEF WorkOn, AgainOrNot
  <2>4. session' \in [Session -> [at : Nat, remaining : Budget]]
    BY <1>0, <2>2, <2>3, SessionMoves
  <2> QED BY <1>0, <2>1, <2>4, PollKeepsShare DEF SharesOfCap, Next
<1>4. ASSUME NEW s \in Session, NEW w \in Worker, ImportFails(s, w) \/ Interrupted(s, w)
      PROVE  [Next]_vars /\ SharesOfCap'
  <2>1. Fail(w) \/ UNCHANGED vars
    BY <1>4 DEF ImportFails, Interrupted, Fail
  <2>2. UNCHANGED session \/ AgainOrNot(s)
    BY <1>4 DEF ImportFails, Interrupted
  <2>3. session' \in [Session -> [at : Nat, remaining : Budget]]
    BY <1>0, <2>2, SessionMoves, CapIsBudget
  <2>4. CASE Fail(w)
    BY <1>0, <2>3, <2>4, PollKeepsShare DEF SharesOfCap, Next
  <2>5. CASE UNCHANGED vars
    BY <1>0, <2>3, <2>5 DEF SharesOfCap, vars
  <2> QED BY <2>1, <2>4, <2>5
<1>5. ASSUME Environment, UNCHANGED session PROVE [Next]_vars /\ SharesOfCap'
  <2>1. UNCHANGED job
    BY <1>5 DEF Environment, Arrive, UserDeletes, UserFlags, Rebuild, SweepInterval,
       Requeue, RetryDelay, HandQueue
  <2> QED BY <1>0, <1>5, <2>1 DEF SharesOfCap, Next
<1> QED BY <1>1, <1>2, <1>3, <1>4, <1>5 DEF NextSessions, SyncSource, Breaks

LEMMA SessionInit == InitSessions => SessionInv
<1> SUFFICES ASSUME InitSessions PROVE SessionInv
  OBVIOUS
<1>1. IInv
  BY InitIsSafe DEF InitSessions
<1>2. SharesOfCap
  BY CapIsBudget DEF InitSessions, Init, SharesOfCap, Closed, NoJob, NewJob
<1> QED BY <1>1, <1>2 DEF SessionInv

LEMMA SessionInvariant == SessionsSpec => []SessionInv
<1>1. InitSessions => SessionInv
  BY SessionInit
<1>2. SessionInv /\ [NextSessions]_sessionVars => SessionInv'
  <2> SUFFICES ASSUME SessionInv, [NextSessions]_sessionVars PROVE SessionInv'
    OBVIOUS
  <2>1. [Next]_vars /\ SharesOfCap'
    <3>1. CASE NextSessions
      BY <3>1, SessionStep
    <3>2. CASE UNCHANGED sessionVars
      BY <3>2 DEF sessionVars, vars, SessionInv, SharesOfCap
    <3> QED BY <3>1, <3>2
  <2>2. IInv'
    BY <2>1, StepKeepsInvariant DEF SessionInv
  <2> QED BY <2>1, <2>2 DEF SessionInv
<1> QED BY <1>1, <1>2, PTL DEF SessionsSpec

\* sync_source does nothing but _sync_folder: sessions over any number of
\* folders, with any cap and any repetitions, implement FolderSync.
THEOREM SessionsArePolls == SessionsSpec => Spec
<1>1. InitSessions => Init
  BY DEF InitSessions
<1>2. SessionInv /\ [NextSessions]_sessionVars => [Next]_vars
  BY SessionStep DEF sessionVars, vars
<1> QED BY <1>1, <1>2, SessionInvariant, PTL DEF SessionsSpec, Spec

\* What sync_source moves out of a source, Gmail holds.
THEOREM SessionsMoveSafely == SessionsSpec => []MovedOnlyIfDelivered
BY SessionsArePolls, MoveIsSafe, PTL

\* Whatever the cap leaves for the next session is not lost behind the cursor.
THEOREM SessionsSkipNothing == SessionsSpec => []NothingSkipped
BY SessionsArePolls, NothingIsSkipped, PTL

\* Sessions leave mail from before the set-up alone.
THEOREM SessionsLeaveOldMail == SessionsSpec => []OldMailUntouched
BY SessionsArePolls, OldMailIsLeftAlone, PTL

\* Sessions implement the promise of MailMove.
THEOREM SessionsKeepPromise == SessionsSpec => KeepsPromise
BY SessionsArePolls, SyncKeepsPromise, PTL
-----------------------------------------------------------------------------
(***************************************************************************)
(* One poll at a time.  A session is in one folder, so that workers that   *)
(* share no session but share a folder or a user are what is left to fear. *)
(***************************************************************************)
\* The sessions of a user, or of a folder, are one: a user with one source, and
\* no `--once' run beside the service.
OneSessionPerUser ==
    \A r, s \in Session : \A i \in DOMAIN Folders[r], j \in DOMAIN Folders[s] :
        OwnerOf[FolderOf[Folders[r][i]]] = OwnerOf[FolderOf[Folders[s][j]]] => r = s
OneSessionPerFolder ==
    \A r, s \in Session : \A i \in DOMAIN Folders[r], j \in DOMAIN Folders[s] :
        FolderOf[Folders[r][i]] = FolderOf[Folders[s][j]] => r = s

\* A session is at one of its folders, or closed, and a poll is under way only
\* in the folder its session is at.
WithinFolders == \A s \in Session : session[s].at \in 0..Len(Folders[s])
InItsSession == \A w \in Worker : pc[w] # "idle" => \E s \in Session : At(s, w)

OneFolderInv == SessionInv /\ WithinFolders /\ InItsSession

\* A step of session s in the folder of w, which it leaves only with the poll.
LEMMA StepInSession ==
    ASSUME InItsSession, NEW s \in Session, NEW w \in Worker, At(s, w),
           \A v \in Worker \ {w} : pc'[v] = pc[v],
           \A r \in Session \ {s} : session'[r] = session[r],
           UNCHANGED session \/ pc'[w] = "idle"
    PROVE  InItsSession'
<1> SUFFICES ASSUME NEW v \in Worker, pc'[v] # "idle"
             PROVE  \E r \in Session : At(r, v)'
  BY DEF InItsSession
<1>1. CASE v = w
  BY <1>1 DEF At, Open
<1>2. CASE v # w
  <2>1. PICK r \in Session : At(r, v)
    BY <1>2 DEF InItsSession
  <2>2. r # s
    BY <1>2, <2>1 DEF At
  <2> QED BY <2>1, <2>2 DEF At, Open
<1> QED BY <1>1, <1>2

\* Where the other sessions are does not change, and s is within its folders.
LEMMA SessionStaysWithin ==
    ASSUME SharesOfCap, WithinFolders, NEW s \in Session, NEW left,
           \/ UNCHANGED session
           \/ session' = [session EXCEPT ![s].at = 1]
           \/ NextFolder(s, left)
           \/ AgainOrNot(s)
    PROVE  /\ WithinFolders'
           /\ \A r \in Session \ {s} : session'[r] = session[r]
<1> DEFINE n == Len(Folders[s])
<1>0. /\ session \in [Session -> [at : Nat, remaining : Budget]]
      /\ session[s].at \in 0..n
  BY DEF SharesOfCap, WithinFolders
<1>1. n \in Nat /\ n >= 1
  BY SessionsAssumption
<1>2. /\ session'[s].at \in 0..n
      /\ \A r \in Session \ {s} : session'[r] = session[r]
  <2>1. CASE UNCHANGED session
    BY <1>0, <2>1
  <2>2. CASE session' = [session EXCEPT ![s].at = 1]
    BY <1>0, <1>1, <2>2
  <2>3. CASE AgainOrNot(s)
    BY <1>0, <1>1, <2>3 DEF AgainOrNot, Repeat, Close, Closed
  <2>4. CASE NextFolder(s, left)
    <3>1. CASE session[s].at = n
      BY <1>0, <1>1, <2>4, <3>1 DEF NextFolder, Close, Closed
    <3>2. CASE session[s].at # n
      BY <1>0, <1>1, <2>4, <3>2 DEF NextFolder
    <3> QED BY <3>1, <3>2
  <2> QED BY <2>1, <2>2, <2>3, <2>4
<1> QED BY <1>2 DEF WithinFolders

LEMMA OneFolderStep ==
    ASSUME OneFolderInv, NextSessions
    PROVE  WithinFolders' /\ InItsSession'
<1>0. TypeOK /\ SharesOfCap /\ WithinFolders /\ InItsSession
  BY DEF OneFolderInv, SessionInv, IInv
<1>1. ASSUME NEW s \in Session, StartSession(s) PROVE WithinFolders' /\ InItsSession'
  <2>1. WithinFolders' /\ \A r \in Session \ {s} : session'[r] = session[r]
    BY <1>0, <1>1, SessionStaysWithin DEF StartSession
  <2>2. UNCHANGED pc
    BY <1>1 DEF StartSession, vars
  <2>3. InItsSession'
    <3> SUFFICES ASSUME NEW v \in Worker, pc'[v] # "idle"
                 PROVE  \E r \in Session : At(r, v)'
      BY DEF InItsSession
    <3>1. PICK r \in Session : At(r, v)
      BY <1>0, <2>2 DEF InItsSession
    <3>2. r # s
      BY <1>1, <3>1 DEF At, StartSession
    <3> QED BY <2>1, <3>1, <3>2 DEF At, Open
  <2> QED BY <2>1, <2>3
<1>2. ASSUME NEW s \in Session, NEW w \in Worker, BeginFolder(s, w)
      PROVE  WithinFolders' /\ InItsSession'
  <2>1. At(s, w) /\ UNCHANGED session /\ Begin(w, session[s].remaining)
    BY <1>2 DEF BeginFolder, Between
  <2>2. \A v \in Worker \ {w} : pc'[v] = pc[v]
    <3>1. session[s].remaining \in Budget
      BY <1>0 DEF SharesOfCap
    <3>2. Poll(w)
      BY <2>1, <3>1 DEF Poll, Starts
    <3> QED BY <1>0, <3>2, OnlyItsOwn
  <2> QED BY <1>0, <2>1, <2>2, StepInSession, SessionStaysWithin
<1>3. ASSUME NEW s \in Session, NEW w \in Worker, WorkOn(s, w)
      PROVE  WithinFolders' /\ InItsSession'
  <2>1. At(s, w) /\ \A v \in Worker \ {w} : pc'[v] = pc[v]
    BY <1>0, <1>3, OnlyItsOwn DEF WorkOn, Working
  <2>2. UNCHANGED session \/ NextFolder(s, job[w].left) \/ AgainOrNot(s)
    BY <1>3 DEF WorkOn, AgainOrNot
  <2>3. UNCHANGED session \/ pc'[w] = "idle"
    BY <1>3 DEF WorkOn
  <2> QED BY <1>0, <2>1, <2>2, <2>3, StepInSession, SessionStaysWithin
<1>4. ASSUME NEW s \in Session, NEW w \in Worker, ImportFails(s, w) \/ Interrupted(s, w)
      PROVE  WithinFolders' /\ InItsSession'
  <2>1. At(s, w) /\ (Fail(w) \/ UNCHANGED vars)
    BY <1>4 DEF ImportFails, Interrupted, Working, Between, Fail
  <2>2. \A v \in Worker \ {w} : pc'[v] = pc[v]
    BY <1>0, <2>1, OnlyItsOwn DEF vars
  <2>3. UNCHANGED session \/ AgainOrNot(s)
    BY <1>4 DEF ImportFails, Interrupted
  <2>4. UNCHANGED session \/ pc'[w] = "idle"
    <3>1. CASE ImportFails(s, w)
      BY <3>1 DEF ImportFails
    <3>2. CASE Interrupted(s, w)
      BY <1>0, <3>2 DEF Interrupted, Between, Abort, EndPoll, vars, TypeOK
    <3> QED BY <1>4, <3>1, <3>2
  <2> QED BY <1>0, <2>1, <2>2, <2>3, <2>4, StepInSession, SessionStaysWithin
<1>5. ASSUME Environment, UNCHANGED session PROVE WithinFolders' /\ InItsSession'
  <2>1. UNCHANGED pc
    BY <1>5 DEF Environment, Arrive, UserDeletes, UserFlags, Rebuild, SweepInterval,
       Requeue, RetryDelay, HandQueue
  <2> QED BY <1>0, <1>5, <2>1 DEF WithinFolders, InItsSession, At, Open
<1> QED BY <1>1, <1>2, <1>3, <1>4, <1>5 DEF NextSessions, SyncSource, Breaks

LEMMA OneFolderInvariant == SessionsSpec => []OneFolderInv
<1>1. InitSessions => OneFolderInv
  <2> SUFFICES ASSUME InitSessions PROVE WithinFolders /\ InItsSession /\ SessionInv
    BY DEF OneFolderInv
  <2>1. WithinFolders
    BY SessionsAssumption DEF InitSessions, WithinFolders, Closed
  <2>2. InItsSession
    BY DEF InitSessions, Init, InItsSession
  <2>3. SessionInv
    BY SessionInit
  <2> QED BY <2>1, <2>2, <2>3
<1>2. SessionInv /\ SessionInv' /\ OneFolderInv /\ [NextSessions]_sessionVars
      => OneFolderInv'
  <2> SUFFICES ASSUME SessionInv', OneFolderInv, [NextSessions]_sessionVars
               PROVE  OneFolderInv'
    OBVIOUS
  <2>1. CASE NextSessions
    BY <2>1, OneFolderStep DEF OneFolderInv
  <2>2. CASE UNCHANGED sessionVars
    BY <2>2 DEF sessionVars, vars, OneFolderInv, WithinFolders, InItsSession, At, Open
  <2> QED BY <2>1, <2>2
<1> QED BY <1>1, <1>2, SessionInvariant, PTL DEF SessionsSpec

\* Two polls that run are of two sessions.
LEMMA PollsOfOneSession ==
    ASSUME OneFolderInv, NEW v \in Worker, NEW w \in Worker,
           pc[v] # "idle", pc[w] # "idle"
    PROVE  \E r, s \in Session : \E i \in DOMAIN Folders[r], j \in DOMAIN Folders[s] :
              /\ Folders[r][i] = v /\ Folders[s][j] = w
              /\ r = s => v = w
<1>1. PICK r \in Session, s \in Session : At(r, v) /\ At(s, w)
  BY DEF OneFolderInv, InItsSession
<1>2. ASSUME NEW t \in Session, Open(t) PROVE session[t].at \in DOMAIN Folders[t]
  <2>1. Folders[t] \in Seq(Worker)
    BY SessionsAssumption
  <2>2. session[t].at \in 0..Len(Folders[t]) /\ session[t].at # 0
    BY <1>2 DEF OneFolderInv, WithinFolders, Open
  <2> QED BY <2>1, <2>2
<1>3. session[r].at \in DOMAIN Folders[r] /\ session[s].at \in DOMAIN Folders[s]
  BY <1>1, <1>2 DEF At
<1> QED BY <1>1, <1>3 DEF At

LEMMA UserHasOnePoll == OneSessionPerUser => (SessionsSpec => []OnePollPerUser)
<1> SUFFICES ASSUME OneSessionPerUser PROVE SessionsSpec => []OnePollPerUser
  OBVIOUS
<1>1. OneFolderInv => OnePollPerUser
  <2> SUFFICES ASSUME OneFolderInv, NEW v \in Worker, NEW w \in Worker,
                      pc[v] # "idle", pc[w] # "idle",
                      OwnerOf[FolderOf[v]] = OwnerOf[FolderOf[w]]
               PROVE  v = w
    BY DEF OnePollPerUser
  <2> QED BY PollsOfOneSession DEF OneSessionPerUser
<1> QED BY <1>1, OneFolderInvariant, PTL

LEMMA FolderHasOnePoll == OneSessionPerFolder => (SessionsSpec => []OnePollPerFolder)
<1> SUFFICES ASSUME OneSessionPerFolder PROVE SessionsSpec => []OnePollPerFolder
  OBVIOUS
<1>1. OneFolderInv => OnePollPerFolder
  <2> SUFFICES ASSUME OneFolderInv, NEW v \in Worker, NEW w \in Worker,
                      pc[v] # "idle", pc[w] # "idle", FolderOf[v] = FolderOf[w]
               PROVE  v = w
    BY DEF OnePollPerFolder
  <2> QED BY PollsOfOneSession DEF OneSessionPerFolder
<1> QED BY <1>1, OneFolderInvariant, PTL

\* A user with one source gets no message again that the database holds as
\* imported, whichever of the source's folders it comes from, and however
\* often a session is broken off and repeated.
THEOREM SessionsRecordOnce == OneSessionPerUser => (SessionsSpec => NoReimportOfRecorded)
<1> SUFFICES ASSUME OneSessionPerUser PROVE SessionsSpec => NoReimportOfRecorded
  OBVIOUS
<1>1. SessionsSpec => []OnePollPerUser
  BY UserHasOnePoll
<1> QED BY <1>1, SessionsArePolls, RecordedOnce, PTL

\* README "Idempotent": nor does it get a message twice, if nothing is interrupted.
THEOREM SessionsDeliverOnce ==
    OneSessionPerUser /\ NothingInterrupts => (SessionsSpec => []NoDuplicates)
<1> SUFFICES ASSUME OneSessionPerUser, NothingInterrupts
             PROVE  SessionsSpec => []NoDuplicates
  OBVIOUS
<1>1. SessionsSpec => []OnePollPerUser
  BY UserHasOnePoll
<1>2. Spec /\ []OnePollPerUser => []NoDuplicates
  BY IdempotentUninterrupted
<1> QED BY <1>1, <1>2, SessionsArePolls, PTL

\* The sessions of a source never move a folder's cursor back ...
THEOREM SessionsOnlyAdvance == OneSessionPerFolder => (SessionsSpec => CursorNeverRetreats)
<1> SUFFICES ASSUME OneSessionPerFolder PROVE SessionsSpec => CursorNeverRetreats
  OBVIOUS
<1>1. SessionsSpec => []OnePollPerFolder
  BY FolderHasOnePoll
<1> QED BY <1>1, SessionsArePolls, CursorOnlyAdvances, PTL

\* ... and never try a message again that was given up, until its mailbox is rebuilt
\* or the administrator asks for it.
THEOREM SessionsGiveUpForGood == OneSessionPerFolder => (SessionsSpec => ParkedStaysParked)
<1> SUFFICES ASSUME OneSessionPerFolder PROVE SessionsSpec => ParkedStaysParked
  OBVIOUS
<1>1. SessionsSpec => []OnePollPerFolder
  BY FolderHasOnePoll
<1> QED BY <1>1, SessionsArePolls, GivenUpStaysGivenUp, PTL
=============================================================================
