------------------------ MODULE FolderSyncPoller_proofs ------------------------
(***************************************************************************)
(* What holds of FolderSync when no second poller interferes: recorded     *)
(* mail is not imported again, the cursor never moves back, and a message  *)
(* that was given up stays given up.                                       *)
(***************************************************************************)
EXTENDS FolderSync_proofs

\* No `--once' run beside the service: a user, or a folder, has one poll at a time.
\* A session polls its folders one after the other, and the main loop never
\* submits a second poll of a source (Scheduler, OnePollAtATime).
OnePollPerUser ==
    \A v, w \in Worker :
        pc[v] # "idle" /\ pc[w] # "idle" /\ OwnerOf[FolderOf[v]] = OwnerOf[FolderOf[w]]
        => v = w
OnePollPerFolder ==
    \A v, w \in Worker :
        pc[v] # "idle" /\ pc[w] # "idle" /\ FolderOf[v] = FolderOf[w] => v = w

\* The steps of handle(uid, retrying).
Handling == Holding \cup {"advance"}

-----------------------------------------------------------------------------
(***************************************************************************)
(* What a step of a poll leaves alone.                                     *)
(***************************************************************************)
\* A poll changes its own variables, the rows of its folder and what is where;
\* it never renumbers a mailbox.
LEMMA OnlyItsOwn ==
    ASSUME TypeOK, NEW w \in Worker, Poll(w) \/ Fail(w)
    PROVE  /\ \A v \in Worker \ {w} : pc'[v] = pc[v] /\ job'[v] = job[v]
           /\ UNCHANGED <<uid, user_flagged, uidnext, uidvalidity, fresh>>
           /\ \A f \in Folder \ {FolderOf[w]} :
                 folder_state'[f] = folder_state[f] /\ retry_queue'[f] = retry_queue[f]
<1> USE ConstantsAssumption DEF TypeOK
<1>1. CASE Starts(w)
  BY <1>1 DEF Starts, Begin, Goto, DropStaleRetries, ClearRetries, server
<1>2. CASE DeriveFloor(w)
  BY <1>2 DEF DeriveFloor, server
<1>3. CASE Sweep(w)
  BY <1>3 DEF Sweep, Goto, QueueRetry, server
<1>4. CASE SkipSweep(w) \/ EndRetries(w) \/ Search(w) \/ EndNew(w)
  BY <1>4 DEF SkipSweep, EndRetries, Search, EndNew, Goto, server, db
<1>5. CASE StartRetries(w) \/ ClearRetry(w)
  BY <1>5 DEF StartRetries, ClearRetry, Goto, ClearRetries, server
<1>6. CASE FetchGone(w) \/ NothingToCount(w)
  BY <1>6 DEF FetchGone, NothingToCount, EndPoll, server, db
<1>7. CASE SkipOversize(w) \/ TakeDuplicate(w) \/ TakeMessage(w)
  BY <1>7 DEF SkipOversize, TakeDuplicate, TakeMessage, Took, server, db
<1>8. CASE Import(w) \/ ImportRejected(w) \/ CountAttempts(w)
  BY <1>8 DEF Import, ImportRejected, CountAttempts, Goto, server, db
<1>9. CASE Park(w)
  BY <1>9 DEF Park, Goto, QueueRetry, server
<1>10. CASE Defer(w)
  BY <1>10 DEF Defer, Goto, RecordRetryFailure, server
<1>11. CASE RecordImport(w) \/ RecordFails(w) \/ MarkDeleted(w) \/ Expunge(w)
  BY <1>11 DEF RecordImport, RecordFails, MarkDeleted, Expunge, Goto, server, db
<1>12. CASE Advance(w)
  BY <1>12 DEF Advance, Goto, SetFolderState, server
<1>13. CASE Finish(w)
  BY <1>13 DEF Finish, EndPoll, db
<1>14. CASE Pin(w)
  BY <1>14 DEF Pin, EndPoll, SetFolderState, server
<1>15. CASE Fail(w)
  BY <1>15 DEF Fail, ImportTransient, Abort, EndPoll, server, db
<1> QED BY <1>1, <1>2, <1>3, <1>4, <1>5, <1>6, <1>7, <1>8, <1>9, <1>10, <1>11,
           <1>12, <1>13, <1>14, <1>15 DEF Poll

\* A worker that takes a step is in a poll, before it or after it ...
LEMMA InAPoll ==
    ASSUME TypeOK, NEW w \in Worker, Poll(w) \/ Fail(w)
    PROVE  pc[w] # "idle" \/ pc'[w] # "idle"
<1>1. CASE Starts(w)
  BY <1>1 DEF Starts, Begin, Goto, TypeOK
<1>2. CASE ~Starts(w)
  BY <1>2 DEF Poll, Fail, DeriveFloor, Sweep, SkipSweep, StartRetries, EndRetries,
     Search, EndNew, FetchGone, SkipOversize, TakeDuplicate, TakeMessage, Taking, Import,
     ImportRejected, Park, CountAttempts, NothingToCount, Defer, RecordImport, RecordFails, ClearRetry,
     MarkDeleted, Expunge, Advance, Finish, Pin, ImportTransient, Abort, Goto
<1> QED BY <1>1, <1>2

\* ... so that, with one poll at a time, the others are idle.
LEMMA OthersIdle ==
    ASSUME TypeOK, NEW w \in Worker, Poll(w) \/ Fail(w), NEW v \in Worker, v # w
    PROVE  /\ OnePollPerUser /\ OnePollPerUser'
              /\ OwnerOf[FolderOf[v]] = OwnerOf[FolderOf[w]] => pc'[v] = "idle"
           /\ OnePollPerFolder /\ OnePollPerFolder'
              /\ FolderOf[v] = FolderOf[w] => pc'[v] = "idle"
<1>1. pc'[v] = pc[v]
  BY OnlyItsOwn
<1>2. pc[w] # "idle" \/ pc'[w] # "idle"
  BY InAPoll
<1> QED BY <1>1, <1>2 DEF OnePollPerUser, OnePollPerFolder

\* What a poll knows: the mailbox it opened, the row it read, the UIDs it has
\* still to handle and the message in hand.
SameWork(w) ==
    /\ job'[w].uidvalidity = job[w].uidvalidity
    /\ job'[w].top = job[w].top
    /\ job'[w].state.known = job[w].state.known
    /\ job'[w].state.uidvalidity = job[w].state.uidvalidity
    /\ job'[w].state.last_uid = job[w].state.last_uid
    /\ job'[w].todo = job[w].todo
    /\ job'[w].retrying = job[w].retrying
    /\ job'[w].cur = job[w].cur
    /\ job'[w].hand = job[w].hand
    /\ job'[w].found = job[w].found

\* Most steps only make progress with it.
Progress(w) ==
    \/ DeriveFloor(w) \/ Sweep(w) \/ SkipSweep(w) \/ EndRetries(w) \/ EndNew(w)
    \/ Import(w) \/ ImportRejected(w) \/ Park(w) \/ CountAttempts(w) \/ Defer(w)
    \/ RecordImport(w) \/ RecordFails(w) \/ ClearRetry(w) \/ MarkDeleted(w) \/ Expunge(w) \/ Advance(w)

\* They leave that as it is.
LEMMA ProgressKeepsWork ==
    ASSUME TypeOK, NEW w \in Worker, Progress(w)
    PROVE  SameWork(w)
<1>0. job \in [Worker -> Job] /\ job[w] \in Job /\ job[w].state \in FolderState
  BY DEF TypeOK, Job
<1>1. CASE DeriveFloor(w)
  <2>1. PICK floor : job' = [job EXCEPT ![w].state.watch_from_uid = floor]
    BY <1>1, Zenon DEF DeriveFloor
  <2> DEFINE state == [job[w].state EXCEPT !.watch_from_uid = floor]
  <2>2. job'[w] = [job[w] EXCEPT !.state = state]
    BY <1>0, <2>1
  <2>3. /\ state.known = job[w].state.known /\ state.last_uid = job[w].state.last_uid
        /\ state.uidvalidity = job[w].state.uidvalidity
    BY <1>0 DEF FolderState
  <2> HIDE DEF state
  <2> QED BY <1>0, <2>2, <2>3 DEF SameWork, Job
<1>2. CASE \/ Sweep(w) \/ SkipSweep(w) \/ EndRetries(w) \/ EndNew(w) \/ Park(w)
           \/ RecordImport(w) \/ RecordFails(w) \/ ClearRetry(w) \/ MarkDeleted(w) \/ Advance(w)
  <2>1. UNCHANGED job
    BY <1>2 DEF Sweep, SkipSweep, EndRetries, EndNew, Park, RecordImport, RecordFails, ClearRetry,
       MarkDeleted, Advance
  <2> QED BY <2>1 DEF SameWork
<1>3. CASE Import(w) \/ ImportRejected(w) \/ CountAttempts(w) \/ Defer(w) \/ Expunge(w)
  BY <1>0, <1>3 DEF Import, ImportRejected, CountAttempts, Defer, Expunge, SameWork, Job
<1> QED BY <1>1, <1>2, <1>3 DEF Progress

\* The steps that set up, take a message, close a poll or repeat an import.
LEMMA OtherSteps ==
    ASSUME TypeOK, NEW w \in Worker, Poll(w) \/ Fail(w)
    PROVE  \/ Progress(w)
           \/ Starts(w) \/ StartRetries(w) \/ Search(w)
           \/ SkipOversize(w) \/ TakeDuplicate(w) \/ TakeMessage(w)
           \/ Finish(w) /\ ~EndPoll(w) /\ SameWork(w) /\ pc'[w] = "pin"
           \/ ImportTransient(w) /\ ~EndPoll(w) /\ SameWork(w) /\ UNCHANGED pc
           \/ /\ FetchGone(w) \/ NothingToCount(w) \/ Finish(w) \/ Pin(w) \/ Fail(w)
              /\ EndPoll(w) /\ pc'[w] = "idle" /\ job'[w] = NoJob
<1>0. job \in [Worker -> Job] /\ job[w] \in Job /\ pc \in [Worker -> Step]
  BY DEF TypeOK
<1>1. CASE Finish(w) \/ ImportTransient(w)
  <2>1. CASE EndPoll(w)
    BY <1>0, <1>1, <2>1 DEF EndPoll, Fail
  <2>2. CASE ~EndPoll(w)
    <3>1. \/ Finish(w) /\ UNCHANGED job /\ pc'[w] = "pin"
          \/ /\ ImportTransient(w) /\ UNCHANGED pc
             /\ job' = [job EXCEPT ![w].tries = @ + 1]
      BY <1>0, <1>1, <2>2 DEF Finish, ImportTransient
    <3>2. SameWork(w)
      BY <1>0, <3>1 DEF SameWork, Job
    <3> QED BY <2>2, <3>1, <3>2
  <2> QED BY <2>1, <2>2
<1>2. CASE FetchGone(w) \/ NothingToCount(w) \/ Pin(w) \/ Abort(w)
  BY <1>0, <1>2 DEF FetchGone, NothingToCount, Pin, Abort, EndPoll, Fail
<1>3. \/ Progress(w) \/ Starts(w) \/ StartRetries(w) \/ Search(w)
      \/ SkipOversize(w) \/ TakeDuplicate(w) \/ TakeMessage(w)
      \/ Finish(w) \/ ImportTransient(w)
      \/ FetchGone(w) \/ NothingToCount(w) \/ Pin(w) \/ Abort(w)
  BY Zenon DEF Poll, Fail, Progress
<1> QED BY <1>1, <1>2, <1>3

\* Taking message m off the list leaves the rest of the work as it was.
LEMMA TakeFrame ==
    ASSUME TypeOK, NEW w \in Worker,
           SkipOversize(w) \/ TakeDuplicate(w) \/ TakeMessage(w)
    PROVE  \E m \in Mail :
             /\ m \in MailAt(FolderOf[w], uid[m]) /\ uid[m] \in job[w].todo
             /\ \A u \in job[w].todo : uid[m] <= u
             /\ job'[w].hand = m /\ job'[w].cur = uid[m]
             /\ job'[w].todo = job[w].todo \ {uid[m]}
             /\ job'[w].uidvalidity = job[w].uidvalidity
             /\ job'[w].top = job[w].top /\ job'[w].state = job[w].state
             /\ job'[w].retrying = job[w].retrying /\ job'[w].found = job[w].found
             /\ pc[w] \in {"retry", "new"}
             /\ \/ SkipOversize(w) /\ m \in Oversize
                   /\ pc'[w] = IF job[w].retrying THEN "park" ELSE "advance"
                \/ TakeDuplicate(w) /\ m \notin Oversize /\ pc'[w] = "clear"
                   /\ IsImported(OwnerOf[FolderOf[w]], KeyOf[m])
                \/ TakeMessage(w) /\ m \notin Oversize /\ pc'[w] = "import"
                   /\ ~IsImported(OwnerOf[FolderOf[w]], KeyOf[m])
             /\ UNCHANGED <<server, copies, db>>
<1>0. job \in [Worker -> Job] /\ job[w] \in Job /\ pc \in [Worker -> Step]
  BY DEF TypeOK
<1>1. PICK m \in Candidate(w) :
        /\ Taking(w) /\ job' = Took(w, m)
        /\ \/ SkipOversize(w) /\ m \in Oversize
              /\ pc'[w] = IF job[w].retrying THEN "park" ELSE "advance"
           \/ TakeDuplicate(w) /\ m \notin Oversize /\ pc'[w] = "clear"
              /\ IsImported(OwnerOf[FolderOf[w]], KeyOf[m])
           \/ TakeMessage(w) /\ m \notin Oversize /\ pc'[w] = "import"
              /\ ~IsImported(OwnerOf[FolderOf[w]], KeyOf[m])
        /\ UNCHANGED <<server, copies, db>>
  BY <1>0 DEF SkipOversize, TakeDuplicate, TakeMessage
<1>2. m \in Mail /\ HomeOf[m] = FolderOf[w] /\ where[m] = "here"
      /\ uid[m] = Least(job[w].todo)
  BY <1>1, TookType
<1>3. uid[m] \in job[w].todo /\ \A u \in job[w].todo : uid[m] <= u
  <2>1. job[w].todo \in SUBSET Nat /\ job[w].todo # {}
    BY <1>0, <1>1 DEF Job, Uid, Taking, Exhausted
  <2> QED BY <1>2, <2>1, LeastIsLeast
<1>4. /\ job'[w].hand = m /\ job'[w].cur = uid[m]
      /\ job'[w].todo = job[w].todo \ {uid[m]}
      /\ job'[w].uidvalidity = job[w].uidvalidity
      /\ job'[w].top = job[w].top /\ job'[w].state = job[w].state
      /\ job'[w].retrying = job[w].retrying /\ job'[w].found = job[w].found
  BY <1>0, <1>1, <1>2 DEF Took, Job
<1>5. m \in MailAt(FolderOf[w], uid[m]) /\ pc[w] \in {"retry", "new"}
  BY <1>1, <1>2 DEF MailAt, Here, Taking
<1> QED BY <1>1, <1>2, <1>3, <1>4, <1>5

\* A poll starts from the mailbox and the row it reads.
LEMMA StartsFrame ==
    ASSUME TypeOK, NEW w \in Worker, Starts(w)
    PROVE  /\ job'[w].uidvalidity = uidvalidity[FolderOf[w]]
           /\ job'[w].top = uidnext[FolderOf[w]] - 1
           /\ job'[w].state = folder_state[FolderOf[w]]
           /\ job'[w].todo = {} /\ ~job'[w].retrying /\ ~job'[w].found
           /\ pc[w] = "idle" /\ pc'[w] = "sweep"
           /\ UNCHANGED <<server, copies, imported, folder_state>>
BY DEF TypeOK, Starts, Begin, NewJob, Goto

\* The retries come first ...
LEMMA StartRetriesFrame ==
    ASSUME TypeOK, NEW w \in Worker, StartRetries(w)
    PROVE  /\ job'[w].todo = {u \in DueRetries(FolderOf[w]) : MailAt(FolderOf[w], u) # {}}
           /\ job'[w].retrying
           /\ job'[w].uidvalidity = job[w].uidvalidity
           /\ job'[w].top = job[w].top /\ job'[w].state = job[w].state
           /\ job'[w].found = job[w].found
           /\ pc[w] = "due" /\ pc'[w] = "retry"
           /\ UNCHANGED <<server, copies, imported, folder_state>>
<1>0. job \in [Worker -> Job] /\ job[w] \in Job /\ pc \in [Worker -> Step]
  BY DEF TypeOK
<1> DEFINE present == {u \in DueRetries(FolderOf[w]) : MailAt(FolderOf[w], u) # {}}
<1>1. job' = [job EXCEPT ![w].todo = present, ![w].retrying = TRUE]
  BY DEF StartRetries
<1> HIDE DEF present
<1>2. job'[w] = [job[w] EXCEPT !.todo = present, !.retrying = TRUE]
  BY <1>0, <1>1
<1>3. /\ job'[w].todo = present /\ job'[w].retrying
      /\ job'[w].uidvalidity = job[w].uidvalidity
      /\ job'[w].top = job[w].top /\ job'[w].state = job[w].state
      /\ job'[w].found = job[w].found
  BY <1>0, <1>2 DEF Job
<1> QED BY <1>0, <1>3 DEF present, StartRetries, Goto

\* ... then what is new.
LEMMA SearchFrame ==
    ASSUME TypeOK, NEW w \in Worker, Search(w)
    PROVE  /\ job'[w].todo \in NewUids(w) /\ ~job'[w].retrying
           /\ job'[w].found = (job'[w].todo # {})
           /\ job'[w].uidvalidity = job[w].uidvalidity
           /\ job'[w].top = job[w].top /\ job'[w].state = job[w].state
           /\ pc[w] = "search" /\ pc'[w] = "new"
           /\ UNCHANGED <<server, copies, db>>
<1>0. job \in [Worker -> Job] /\ job[w] \in Job /\ pc \in [Worker -> Step]
  BY DEF TypeOK
<1>1. PICK uids \in NewUids(w) :
        job' = [job EXCEPT ![w].todo = uids, ![w].found = (uids # {}), ![w].retrying = FALSE]
  BY DEF Search
<1>2. job'[w] = [job[w] EXCEPT !.todo = uids, !.found = (uids # {}), !.retrying = FALSE]
  BY <1>0, <1>1
<1>3. /\ job'[w].todo = uids /\ ~job'[w].retrying /\ job'[w].found = (uids # {})
      /\ job'[w].uidvalidity = job[w].uidvalidity
      /\ job'[w].top = job[w].top /\ job'[w].state = job[w].state
  BY <1>0, <1>2 DEF Job
<1> QED BY <1>0, <1>3 DEF Search, Goto

\* Where a step that makes progress leads.
LEMMA ProgressLeads ==
    ASSUME TypeOK, NEW w \in Worker, Progress(w)
    PROVE  \/ pc[w] = "sweep" /\ pc'[w] \in {"sweep", "due"}
           \/ EndRetries(w) /\ pc[w] = "retry" /\ pc'[w] = "search"
           \/ EndNew(w) /\ pc[w] = "new" /\ pc'[w] = "finish"
           \/ Advance(w) /\ pc[w] = "advance" /\ pc'[w] = "new"
           \/ pc[w] \in Holding /\ pc'[w] \in Holding \cup {AfterMessage(w)}
<1>1. CASE DeriveFloor(w) \/ Sweep(w) \/ SkipSweep(w) \/ EndRetries(w) \/ EndNew(w)
  BY <1>1 DEF DeriveFloor, Sweep, SkipSweep, EndRetries, EndNew, Goto, TypeOK
<1>2. CASE Import(w) \/ ImportRejected(w) \/ Park(w) \/ CountAttempts(w) \/ Defer(w)
  BY <1>2 DEF Import, ImportRejected, Park, CountAttempts, Defer, Goto, Holding, TypeOK
<1>3. CASE RecordImport(w) \/ RecordFails(w) \/ ClearRetry(w) \/ MarkDeleted(w) \/ Expunge(w)
  BY <1>3 DEF RecordImport, RecordFails, ClearRetry, MarkDeleted, Expunge, Goto, Holding, TypeOK
<1>4. CASE Advance(w)
  BY <1>4 DEF Advance, Goto, TypeOK
<1> QED BY <1>1, <1>2, <1>3, <1>4 DEF Progress

-----------------------------------------------------------------------------
(***************************************************************************)
(* No second import of what is recorded.                                   *)
(***************************************************************************)
\* A message about to be imported is not recorded yet.
NotRecorded ==
    \A w \in Worker : pc[w] = "import" =>
        ~IsImported(OwnerOf[FolderOf[w]], KeyOf[job[w].hand])

\* A poll records imports of its own user only.
LEMMA RecordsItsOwn ==
    ASSUME IInv, NEW w \in Worker, Poll(w) \/ Fail(w),
           NEW user \in User, NEW k, user # OwnerOf[FolderOf[w]]
    PROVE  IsImported(user, k)' <=> IsImported(user, k)
<1>0. TypeOK /\ HeldBy(w)
  BY DEF IInv, Held
<1>1. CASE RecordImport(w) \/ RecordFails(w) \/ ImportRejected(w)
  <2> DEFINE m == job[w].hand
  <2>1. PICK status : RecordStatus(m, status)
    BY <1>1 DEF RecordImport, RecordFails, ImportRejected
  <2>2. HomeOf[m] = FolderOf[w]
    BY <1>0, <1>1 DEF RecordImport, RecordFails, ImportRejected, Goto, HeldBy, Holding
  <2> HIDE DEF m
  <2> QED BY <1>0, <2>1, <2>2 DEF RecordStatus, IsImported, TypeOK
<1>2. CASE ~(RecordImport(w) \/ RecordFails(w) \/ ImportRejected(w))
  <2>1. UNCHANGED imported
    BY <1>2 DEF Poll, Fail, Starts, Begin, DeriveFloor, Sweep, SkipSweep, StartRetries,
       EndRetries, Search, EndNew, FetchGone, SkipOversize, TakeDuplicate, TakeMessage,
       Import, Park, CountAttempts, NothingToCount, Defer, ClearRetry, MarkDeleted,
       Expunge, Advance, Finish, Pin, ImportTransient, Abort, db
  <2> QED BY <2>1 DEF IsImported
<1> QED BY <1>1, <1>2

\* The invariant is inductive.
LEMMA NotRecordedStep ==
    ASSUME IInv, OnePollPerUser, OnePollPerUser', NotRecorded, [Next]_vars
    PROVE  NotRecorded'
<1>0. TypeOK
  BY DEF IInv
<1>1. ASSUME NEW w \in Worker, Poll(w) \/ Fail(w) PROVE NotRecorded'
  <2> SUFFICES ASSUME NEW v \in Worker, pc'[v] = "import",
                      IsImported(OwnerOf[FolderOf[v]], KeyOf[job[v].hand])'
               PROVE  FALSE
    BY DEF NotRecorded, IsImported
  <2> DEFINE user == OwnerOf[FolderOf[v]]
  <2>0. user \in User
    BY ConstantsAssumption
  <2>1. CASE v # w
    <3>1. pc[v] = "import" /\ job'[v] = job[v]
      BY <1>0, <1>1, <2>1, OnlyItsOwn
    <3>2. user # OwnerOf[FolderOf[w]]
      BY <1>0, <1>1, <2>1, OthersIdle
    <3>3. ~IsImported(user, KeyOf[job[v].hand])
      BY <3>1 DEF NotRecorded
    <3>4. PICK k : ~IsImported(user, k) /\ imported'[user][k] = "imported"
      BY <3>1, <3>3 DEF IsImported
    <3> HIDE DEF user
    <3> QED BY <1>1, <2>0, <3>2, <3>4, RecordsItsOwn DEF IsImported
  <2>2. CASE v = w
    <3>1. CASE SkipOversize(w) \/ TakeDuplicate(w) \/ TakeMessage(w)
      BY <1>0, <2>2, <3>1, TakeFrame DEF IsImported, db
    <3>2. CASE ImportTransient(w) /\ SameWork(w)
      <4>1. pc[w] = "import" /\ UNCHANGED imported /\ job'[w].hand = job[w].hand
        BY <3>2 DEF ImportTransient, SameWork, db
      <4> QED BY <2>2, <4>1 DEF NotRecorded, IsImported
    <3>3. CASE Progress(w) \/ Starts(w) \/ StartRetries(w) \/ Search(w)
      <4>1. pc'[w] # "import"
        BY <1>0, <3>3 DEF Progress, Starts, Begin, StartRetries, Search, DeriveFloor,
           Sweep, SkipSweep, EndRetries, EndNew, Import, ImportRejected, Park,
           CountAttempts, Defer, RecordImport, RecordFails, ClearRetry, MarkDeleted, Expunge,
           Advance, Goto, AfterMessage, TypeOK
      <4> QED BY <2>2, <4>1
    <3> QED BY <1>0, <1>1, <2>2, <3>1, <3>2, <3>3, OtherSteps
  <2> QED BY <2>1, <2>2
<1>2. CASE Environment \/ UNCHANGED vars
  <2>1. UNCHANGED <<imported, pc, job>>
    BY <1>2 DEF Environment, Arrive, UserDeletes, UserFlags, Rebuild, SweepInterval,
       Requeue, RetryDelay, HandQueue, db, vars
  <2> QED BY <2>1 DEF NotRecorded, IsImported
<1> QED BY <1>1, <1>2 DEF Next

\* is_imported before import, record_import after it: while a user has one poll at a
\* time, a message whose import is recorded is never imported again, whatever fails.
THEOREM RecordedOnce == Spec /\ []OnePollPerUser => NoReimportOfRecorded
<1> DEFINE NoneAgain ==
        \A m \in Mail : imported[OwnerOf[HomeOf[m]]][KeyOf[m]] = "imported" =>
            copies'[m] = copies[m]
<1>1. Init => NotRecorded
  BY DEF Init, NotRecorded
<1>2. IInv /\ OnePollPerUser /\ OnePollPerUser' /\ NotRecorded /\ [Next]_vars
      => NotRecorded'
  BY NotRecordedStep
<1>3. IInv /\ NotRecorded /\ [Next]_vars => NoneAgain
  <2> SUFFICES ASSUME IInv, NotRecorded, [Next]_vars, NEW m \in Mail,
                      imported[OwnerOf[HomeOf[m]]][KeyOf[m]] = "imported"
               PROVE  copies'[m] = copies[m]
    OBVIOUS
  <2>0. TypeOK
    BY DEF IInv
  <2>1. ASSUME NEW w \in Worker, Import(w) \/ ImportTransient(w) \/ ImportRejected(w)
        PROVE  copies'[m] = copies[m]
    <3>1. pc[w] = "import" /\ (UNCHANGED copies \/ Store(job[w].hand))
      BY <2>1 DEF Import, ImportTransient, ImportRejected, Goto
    <3>2. HeldBy(w)
      BY DEF IInv, Held
    <3>3. HomeOf[job[w].hand] = FolderOf[w]
      BY <3>1, <3>2 DEF HeldBy, Holding
    <3>4. m # job[w].hand
      BY <3>1, <3>3 DEF NotRecorded, IsImported
    <3> QED BY <2>0, <3>1, <3>4 DEF Store, TypeOK
  <2>2. CASE ~\E w \in Worker : Import(w) \/ ImportTransient(w) \/ ImportRejected(w)
    <3>1. UNCHANGED copies
      BY <2>2 DEF Next, Environment, Poll, Fail, Starts, Begin, DeriveFloor, Sweep,
         SkipSweep, StartRetries, EndRetries, Search, EndNew, FetchGone, SkipOversize,
         TakeDuplicate, TakeMessage, Park, CountAttempts, NothingToCount, Defer,
         RecordImport, RecordFails, ClearRetry, MarkDeleted, Expunge, Advance, Finish,
         Pin, Abort, Arrive, UserDeletes, UserFlags, Rebuild, SweepInterval,
         Requeue, RetryDelay, HandQueue, vars
    <3> QED BY <3>1
  <2> QED BY <2>1, <2>2
<1> QED BY <1>1, <1>2, <1>3, Invariant, PTL DEF Spec, NoReimportOfRecorded

\* Every answer of Gmail arrives, the database is never locked for long, and no
\* poll is cut off.
NothingInterrupts == Faults \cap {"abort", "lost_ack", "locked"} = {}

SameMessage(m, n) ==
    OwnerOf[HomeOf[m]] = OwnerOf[HomeOf[n]] /\ KeyOf[m] = KeyOf[n]

\* What Gmail holds is recorded, or about to be.
DeliveredIsRecorded ==
    \A m \in Mail : copies[m] > 0 =>
        \/ IsImported(OwnerOf[HomeOf[m]], KeyOf[m])
        \/ \E w \in Worker : pc[w] = "record" /\ SameMessage(job[w].hand, m)

\* What is recorded stays recorded.
LEMMA RecordSticks ==
    ASSUME IInv, NEW w \in Worker, Poll(w) \/ Fail(w), NEW user \in User, NEW k \in Key,
           IsImported(user, k)
    PROVE  IsImported(user, k)'
<1>0. TypeOK /\ HeldBy(w)
  BY DEF IInv, Held
<1>1. CASE RecordImport(w) \/ RecordFails(w) \/ ImportRejected(w)
  <2>1. PICK status : RecordStatus(job[w].hand, status)
    BY <1>1 DEF RecordImport, RecordFails, ImportRejected
  <2>2. /\ OwnerOf[HomeOf[job[w].hand]] \in User /\ KeyOf[job[w].hand] \in Key
    BY <1>0, <1>1, ConstantsAssumption
       DEF RecordImport, RecordFails, ImportRejected, Goto, HeldBy, Holding
  <2> QED BY <1>0, <2>1, <2>2 DEF RecordStatus, IsImported, TypeOK
<1>2. CASE ~(RecordImport(w) \/ RecordFails(w) \/ ImportRejected(w))
  <2>1. UNCHANGED imported
    BY <1>2 DEF Poll, Fail, Starts, Begin, DeriveFloor, Sweep, SkipSweep, StartRetries,
       EndRetries, Search, EndNew, FetchGone, SkipOversize, TakeDuplicate, TakeMessage,
       Import, Park, CountAttempts, NothingToCount, Defer, ClearRetry, MarkDeleted,
       Expunge, Advance, Finish, Pin, ImportTransient, Abort, db
  <2> QED BY <2>1 DEF IsImported
<1> QED BY <1>1, <1>2

\* An import finds nothing of its message in Gmail and leaves one copy.
LEMMA ImportsOnce ==
    ASSUME IInv, OnePollPerUser, NotRecorded, DeliveredIsRecorded, NoDuplicates,
           NEW w \in Worker, Import(w)
    PROVE  NoDuplicates' /\ DeliveredIsRecorded'
<1> DEFINE n == job[w].hand
<1>0. /\ TypeOK /\ HeldBy(w) /\ pc[w] = "import" /\ n \in Mail /\ HomeOf[n] = FolderOf[w]
      /\ \A v \in Worker : HeldBy(v)
      /\ copies \in [Mail -> 0..MaxCopies] /\ MaxCopies \in Nat \ {0}
  BY ConstantsAssumption DEF IInv, TypeOK, Held, HeldBy, Holding, Import, Goto
<1>1. /\ pc'[w] = "record" /\ job'[w].hand = n /\ UNCHANGED imported
      /\ copies' = [copies EXCEPT ![n] = IF @ < MaxCopies THEN @ + 1 ELSE @]
      /\ \A v \in Worker \ {w} : pc'[v] = pc[v] /\ job'[v] = job[v]
  BY <1>0 DEF Import, Goto, Store, TypeOK, Job, db
<1>2. ASSUME NEW m \in Mail, SameMessage(n, m) PROVE copies[m] = 0
  <2>1. ~IsImported(OwnerOf[HomeOf[m]], KeyOf[m])
    BY <1>0, <1>2 DEF NotRecorded, SameMessage
  <2>2. ASSUME NEW v \in Worker, pc[v] = "record", SameMessage(job[v].hand, m)
        PROVE  FALSE
    <3>1. HomeOf[job[v].hand] = FolderOf[v]
      BY <1>0, <2>2 DEF HeldBy, Holding
    <3> QED BY <1>0, <1>2, <2>2, <3>1 DEF OnePollPerUser, SameMessage
  <2> QED BY <1>0, <2>1, <2>2 DEF DeliveredIsRecorded
<1> HIDE DEF n
<1>3. copies'[n] = 1 /\ \A m \in Mail : m # n => copies'[m] = copies[m]
  <2>1. copies[n] = 0
    BY <1>0, <1>2 DEF SameMessage
  <2> QED BY <1>0, <1>1, <2>1
<1>4. NoDuplicates'
  BY <1>0, <1>2, <1>3 DEF NoDuplicates, SameMessage
<1>5. ASSUME NEW m \in Mail, copies'[m] > 0
      PROVE  \/ IsImported(OwnerOf[HomeOf[m]], KeyOf[m])'
             \/ \E v \in Worker : pc'[v] = "record" /\ SameMessage(job'[v].hand, m)
  <2>1. CASE m = n
    BY <1>1, <2>1 DEF SameMessage
  <2>2. CASE m # n
    <3>1. copies[m] > 0
      BY <1>3, <1>5, <2>2
    <3> QED BY <1>0, <1>1, <3>1 DEF DeliveredIsRecorded, IsImported
  <2> QED BY <2>1, <2>2
<1> QED BY <1>4, <1>5 DEF DeliveredIsRecorded, SameMessage

\* Without interruptions, the invariant is inductive.
LEMMA OnceStep ==
    ASSUME NothingInterrupts, IInv, OnePollPerUser, NotRecorded,
           NoDuplicates, DeliveredIsRecorded, [Next]_vars
    PROVE  NoDuplicates' /\ DeliveredIsRecorded'
<1>0. /\ TypeOK /\ OwnerOf \in [Folder -> User] /\ HomeOf \in [Mail -> Folder]
      /\ KeyOf \in [Mail -> Key]
  BY ConstantsAssumption DEF IInv
<1>1. ASSUME NEW w \in Worker, Poll(w) \/ Fail(w), ~Import(w)
      PROVE  NoDuplicates' /\ DeliveredIsRecorded'
  <2>1. UNCHANGED copies
    BY <1>1 DEF NothingInterrupts, Poll, Fail, Starts, Begin, DeriveFloor, Sweep,
       SkipSweep, StartRetries, EndRetries, Search, EndNew, FetchGone, SkipOversize,
       TakeDuplicate, TakeMessage, ImportRejected, Park, CountAttempts,
       NothingToCount, Defer, RecordImport, RecordFails, ClearRetry, MarkDeleted, Expunge, Advance,
       Finish, Pin, Abort, ImportTransient
  <2>2. ASSUME pc[w] = "record", NEW m \in Mail, SameMessage(job[w].hand, m)
        PROVE  IsImported(OwnerOf[HomeOf[m]], KeyOf[m])'
    <3>1. RecordImport(w)
      BY <1>1, <2>2 DEF NothingInterrupts, Poll, Fail, Starts, Begin, DeriveFloor, Sweep,
         SkipSweep, StartRetries, EndRetries, Search, EndNew, FetchGone, SkipOversize,
         TakeDuplicate, TakeMessage, Taking, Import, ImportRejected, Park, CountAttempts,
         NothingToCount, Defer, RecordFails, ClearRetry, MarkDeleted, Expunge, Advance,
         Finish, Pin, Abort, ImportTransient, Goto
    <3> QED BY <1>0, <2>2, <3>1
            DEF RecordImport, RecordStatus, SameMessage, IsImported, TypeOK
  <2>3. ASSUME NEW m \in Mail, copies'[m] > 0
        PROVE  \/ IsImported(OwnerOf[HomeOf[m]], KeyOf[m])'
               \/ \E v \in Worker : pc'[v] = "record" /\ SameMessage(job'[v].hand, m)
    <3>1. CASE IsImported(OwnerOf[HomeOf[m]], KeyOf[m])
      BY <1>0, <1>1, <3>1, RecordSticks
    <3>2. ASSUME NEW v \in Worker, pc[v] = "record", SameMessage(job[v].hand, m)
          PROVE  \/ IsImported(OwnerOf[HomeOf[m]], KeyOf[m])'
                 \/ \E x \in Worker : pc'[x] = "record" /\ SameMessage(job'[x].hand, m)
      <4>1. CASE v = w
        BY <2>2, <3>2, <4>1
      <4>2. CASE v # w
        <5>1. pc'[v] = pc[v] /\ job'[v] = job[v]
          BY <1>0, <1>1, <4>2, OnlyItsOwn
        <5> QED BY <3>2, <5>1
      <4> QED BY <4>1, <4>2
    <3> QED BY <2>1, <2>3, <3>1, <3>2 DEF DeliveredIsRecorded
  <2>4. NoDuplicates'
    BY <2>1 DEF NoDuplicates
  <2> QED BY <2>3, <2>4 DEF DeliveredIsRecorded, SameMessage
<1>2. CASE Environment \/ UNCHANGED vars
  <2>1. UNCHANGED <<copies, imported, pc, job>>
    BY <1>2 DEF Environment, Arrive, UserDeletes, UserFlags, Rebuild, SweepInterval,
       Requeue, RetryDelay, HandQueue, db, vars
  <2> QED BY <2>1 DEF NoDuplicates, DeliveredIsRecorded, IsImported, SameMessage
<1> QED BY <1>1, <1>2, ImportsOnce DEF Next

\* README "Idempotent": while a user has one poll at a time, no answer of Gmail is
\* lost and no poll is cut off, no message is imported twice; the run `duplicate'
\* shows that two polls of one user make a second copy.
THEOREM IdempotentUninterrupted ==
    NothingInterrupts => (Spec /\ []OnePollPerUser => []NoDuplicates)
<1> SUFFICES ASSUME NothingInterrupts PROVE Spec /\ []OnePollPerUser => []NoDuplicates
  OBVIOUS
<1> DEFINE OnceInv == NotRecorded /\ NoDuplicates /\ DeliveredIsRecorded
<1>1. Init => OnceInv
  BY DEF Init, NotRecorded, NoDuplicates, DeliveredIsRecorded
<1>2. IInv /\ OnePollPerUser /\ OnePollPerUser' /\ OnceInv /\ [Next]_vars => OnceInv'
  BY NotRecordedStep, OnceStep
<1>3. OnceInv => NoDuplicates
  OBVIOUS
<1> QED BY <1>1, <1>2, <1>3, Invariant, PTL DEF Spec

-----------------------------------------------------------------------------
(***************************************************************************)
(* The cursor.                                                             *)
(***************************************************************************)
SameCursor(f) ==
    /\ folder_state'[f].known = folder_state[f].known
    /\ folder_state'[f].uidvalidity = folder_state[f].uidvalidity
    /\ folder_state'[f].last_uid = folder_state[f].last_uid

\* set_folder_state, wherever it is called.
CursorMovesTo(w, u) ==
    /\ folder_state'[FolderOf[w]].known
    /\ folder_state'[FolderOf[w]].uidvalidity = job[w].uidvalidity
    /\ folder_state'[FolderOf[w]].last_uid = u

\* A poll moves the cursor of its folder after a message, and when it pins it.
LEMMA CursorMoves ==
    ASSUME TypeOK, NEW w \in Worker, Poll(w) \/ Fail(w)
    PROVE  \/ SameCursor(FolderOf[w])
           \/ Advance(w) /\ CursorMovesTo(w, job[w].cur)
           \/ Pin(w) /\ CursorMovesTo(w, IF job[w].state.last_uid > job[w].top
                                         THEN job[w].state.last_uid ELSE job[w].top)
<1> DEFINE f == FolderOf[w]
<1>0. /\ f \in Folder /\ folder_state \in [Folder -> FolderState]
      /\ folder_state[f] \in FolderState
  BY ConstantsAssumption DEF TypeOK
<1>1. CASE Advance(w)
  BY <1>0, <1>1 DEF Advance, SetFolderState, FolderState, CursorMovesTo
<1>2. CASE Pin(w)
  BY <1>0, <1>2 DEF Pin, SetFolderState, FolderState, CursorMovesTo
<1>3. CASE DeriveFloor(w) \/ Sweep(w)
  <2>1. \E x : \/ folder_state' = [folder_state EXCEPT ![f].watch_from_uid = x]
               \/ folder_state' = [folder_state EXCEPT ![f].sweep_due = x]
    BY <1>3, Zenon DEF DeriveFloor, Sweep
  <2> QED BY <1>0, <2>1 DEF SameCursor, FolderState
<1>4. CASE ~(Advance(w) \/ Pin(w) \/ DeriveFloor(w) \/ Sweep(w))
  <2>1. UNCHANGED folder_state
    BY <1>4 DEF Poll, Fail, Starts, Begin, SkipSweep, StartRetries, EndRetries, Search,
       EndNew, FetchGone, SkipOversize, TakeDuplicate, TakeMessage, Import,
       ImportRejected, Park, CountAttempts, NothingToCount, Defer, RecordImport, RecordFails,
       ClearRetry, MarkDeleted, Expunge, Finish, ImportTransient, Abort, db
  <2> QED BY <2>1 DEF SameCursor
<1> QED BY <1>1, <1>2, <1>3, <1>4

\* Nobody else moves a cursor.
LEMMA EnvironmentKeepsCursor ==
    ASSUME TypeOK, Environment, NEW f \in Folder
    PROVE  SameCursor(f) /\ UNCHANGED <<pc, job>>
<1>0. folder_state \in [Folder -> FolderState] /\ folder_state[f] \in FolderState
  BY DEF TypeOK
<1>1. ASSUME NEW g \in Folder, SweepInterval(g) PROVE SameCursor(f)
  BY <1>0, <1>1 DEF SweepInterval, SameCursor, FolderState
<1>2. ASSUME ~\E g \in Folder : SweepInterval(g) PROVE SameCursor(f)
  <2>1. UNCHANGED folder_state
    BY <1>2 DEF Environment, Arrive, UserDeletes, UserFlags, Rebuild, Requeue,
       RetryDelay, HandQueue, db
  <2> QED BY <2>1 DEF SameCursor
<1>3. UNCHANGED <<pc, job>>
  BY DEF Environment, Arrive, UserDeletes, UserFlags, Rebuild, SweepInterval,
     Requeue, RetryDelay, HandQueue
<1> QED BY <1>1, <1>2, <1>3

\* A folder that was never polled has no UIDVALIDITY, every mailbox has one, and
\* a poll works within that of its start.
Validity ==
    /\ \A f \in Folder : uidvalidity[f] >= 1
    /\ \A f \in Folder : ~folder_state[f].known => folder_state[f].uidvalidity = 0
    /\ \A w \in Worker : pc[w] # "idle" => job[w].uidvalidity = uidvalidity[FolderOf[w]]

\* Where a poll is tells whether it retries, and whether it found something new.
Phase(w) ==
    /\ pc[w] \in {"sweep", "due", "search", "pin"} \/ job[w].retrying => ~job[w].found
    /\ pc[w] = "retry" => job[w].retrying
    /\ pc[w] \in {"new", "advance"} => ~job[w].retrying
    /\ pc[w] \in Handling /\ ~job[w].retrying => job[w].found
    /\ pc[w] = "new" /\ ~job[w].found => job[w].todo = {}

\* Until it found something new, a poll knows the cursor of its folder.
KnowsCursor(w) ==
    pc[w] # "idle" /\ ~job[w].found =>
        LET state == folder_state[FolderOf[w]] IN
        /\ state.known = job[w].state.known
        /\ state.uidvalidity = job[w].state.uidvalidity
        /\ state.last_uid = job[w].state.last_uid

\* What it found lies above the cursor, and it takes the lowest first.
Ahead(w) ==
    LET state == folder_state[FolderOf[w]] IN
    /\ pc[w] \in {"new"} \cup Handling /\ ~job[w].retrying
       /\ state.uidvalidity = job[w].uidvalidity
       => \A u \in job[w].todo : u > state.last_uid
    /\ pc[w] \in Handling /\ ~job[w].retrying =>
         /\ \A u \in job[w].todo : u > job[w].cur
         /\ state.uidvalidity = job[w].uidvalidity => job[w].cur > state.last_uid

CursorInv == Validity /\ \A w \in Worker : Phase(w) /\ KnowsCursor(w) /\ Ahead(w)

\* The installation starts with it.
LEMMA CursorInit == Init => CursorInv
<1> SUFFICES ASSUME Init PROVE CursorInv
  OBVIOUS
<1>1. PICK old \in SUBSET LegacyFolders, last \in [Folder -> 0..MaxUid] :
          folder_state = [f \in Folder |->
               IF f \in old
               THEN [known |-> TRUE, uidvalidity |-> 1, last_uid |-> last[f],
                     watch_from_uid |-> NoFloor, sweep_due |-> TRUE]
               ELSE NoState]
  BY DEF Init
<1>2. \A f \in Folder : ~folder_state[f].known => folder_state[f].uidvalidity = 0
  BY <1>1 DEF NoState
<1>3. Validity
  BY <1>2 DEF Init, Validity
<1>4. \A w \in Worker : Phase(w) /\ KnowsCursor(w) /\ Ahead(w)
  BY DEF Init, Phase, KnowsCursor, Ahead, NoJob, NewJob, Handling, Holding
<1> QED BY <1>3, <1>4 DEF CursorInv

\* A poll stays in phase, whatever other polls do.
LEMMA OwnPhase ==
    ASSUME TypeOK, NEW w \in Worker, Phase(w), Poll(w) \/ Fail(w)
    PROVE  Phase(w)'
<1>1. CASE Progress(w)
  BY <1>1, ProgressKeepsWork, ProgressLeads
     DEF SameWork, AfterMessage, Phase, Handling, Holding
<1>2. CASE Starts(w) \/ StartRetries(w) \/ Search(w)
  BY <1>2, StartsFrame, StartRetriesFrame, SearchFrame DEF Phase, Handling, Holding
<1>3. CASE SkipOversize(w) \/ TakeDuplicate(w) \/ TakeMessage(w)
  <2>1. /\ job'[w].retrying = job[w].retrying /\ job'[w].found = job[w].found
        /\ pc[w] \in {"retry", "new"} /\ job[w].todo # {}
        /\ \/ pc'[w] = IF job[w].retrying THEN "park" ELSE "advance"
           \/ pc'[w] \in {"clear", "import"}
    BY <1>3, TakeFrame
  <2> QED BY <2>1 DEF Phase, Handling, Holding
<1>4. CASE Finish(w) /\ ~EndPoll(w) /\ SameWork(w) /\ pc'[w] = "pin"
  BY <1>4 DEF Finish, SameWork, Phase, Handling, Holding
<1>5. CASE SameWork(w) /\ UNCHANGED pc
  BY <1>5 DEF SameWork, Phase
<1>6. CASE pc'[w] = "idle" /\ job'[w] = NoJob
  BY <1>6 DEF NoJob, NewJob, Phase, Handling, Holding
<1> QED BY <1>1, <1>2, <1>3, <1>4, <1>5, <1>6, OtherSteps

\* Every poll stays in phase.
LEMMA PhaseStep ==
    ASSUME TypeOK, \A w \in Worker : Phase(w), [Next]_vars
    PROVE  \A w \in Worker : Phase(w)'
<1>1. ASSUME NEW w \in Worker, Poll(w) \/ Fail(w), NEW v \in Worker PROVE Phase(v)'
  BY <1>1, OwnPhase, OnlyItsOwn DEF Phase
<1>2. CASE Environment \/ UNCHANGED vars
  <2>1. UNCHANGED <<pc, job>>
    BY <1>2 DEF Environment, Arrive, UserDeletes, UserFlags, Rebuild, SweepInterval,
       Requeue, RetryDelay, HandQueue, vars
  <2> QED BY <2>1 DEF Phase
<1> QED BY <1>1, <1>2 DEF Next

\* A step of a poll keeps its own part.
LEMMA OwnCursor ==
    ASSUME TypeOK, Validity, NEW w \in Worker, Phase(w), KnowsCursor(w), Ahead(w),
           Poll(w) \/ Fail(w)
    PROVE  KnowsCursor(w)' /\ Ahead(w)'
<1> DEFINE f == FolderOf[w]
<1>0. /\ f \in Folder /\ job[w] \in Job /\ folder_state[f] \in FolderState
      /\ job[w].state \in FolderState /\ pc \in [Worker -> Step]
  BY ConstantsAssumption DEF TypeOK, Job
<1>1. CASE Progress(w)
  <2>1. SameWork(w)
    BY <1>1, ProgressKeepsWork
  <2>2. ~Pin(w)
    BY <1>1, ProgressLeads DEF Pin, Holding
  <2>3. CASE Advance(w)
    <3>1. /\ pc[w] = "advance" /\ pc'[w] = "new" /\ job[w].found /\ ~job[w].retrying
          /\ \A u \in job[w].todo : u > job[w].cur
      BY <1>0, <2>3 DEF Advance, Goto, Phase, Ahead, Handling
    <3>2. folder_state'[f].last_uid = job[w].cur
      BY <1>0, <2>3 DEF Advance, SetFolderState, FolderState, TypeOK
    <3> QED BY <2>1, <3>1, <3>2 DEF SameWork, Phase, KnowsCursor, Ahead, Handling, Holding
  <2>4. CASE ~Advance(w)
    <3>1. SameCursor(f)
      BY <2>2, <2>4, CursorMoves
    <3>2. \/ pc[w] = "sweep" /\ pc'[w] \in {"sweep", "due"}
          \/ pc[w] = "retry" /\ pc'[w] = "search"
          \/ pc[w] = "new" /\ pc'[w] = "finish"
          \/ pc[w] \in Holding /\ pc'[w] \in Holding
          \/ pc[w] \in Holding /\ pc'[w] = IF job[w].retrying THEN "retry" ELSE "advance"
      BY <1>1, <2>4, ProgressLeads DEF AfterMessage
    <3> QED BY <2>1, <3>1, <3>2
            DEF SameWork, SameCursor, Phase, KnowsCursor, Ahead, Handling, Holding
  <2> QED BY <2>3, <2>4
<1>2. CASE Starts(w)
  BY <1>0, <1>2, StartsFrame DEF Phase, KnowsCursor, Ahead, Handling, Holding
<1>3. CASE StartRetries(w)
  BY <1>0, <1>3, StartRetriesFrame DEF Phase, KnowsCursor, Ahead, Handling, Holding
<1>4. CASE Search(w)
  <2>1. /\ job'[w].todo \in NewUids(w) /\ ~job'[w].retrying
        /\ job'[w].found = (job'[w].todo # {})
        /\ job'[w].uidvalidity = job[w].uidvalidity /\ job'[w].state = job[w].state
        /\ pc[w] = "search" /\ pc'[w] = "new"
        /\ UNCHANGED folder_state
    BY <1>4, SearchFrame DEF db
  <2>2. job[w].uidvalidity >= 1
    BY <1>0, <2>1 DEF Validity
  <2>3. /\ folder_state[f].known = job[w].state.known
        /\ folder_state[f].uidvalidity = job[w].state.uidvalidity
        /\ folder_state[f].last_uid = job[w].state.last_uid
    BY <2>1 DEF KnowsCursor, Phase
  <2>4. ASSUME folder_state[f].uidvalidity = job[w].uidvalidity
        PROVE  \A u \in job'[w].todo : u > folder_state[f].last_uid
    <3>1. job[w].state.known /\ job[w].state.uidvalidity = job[w].uidvalidity
      BY <1>0, <2>2, <2>3, <2>4 DEF Validity
    <3>2. job'[w].todo = {u \in UidsOf(Here(f)) : u > job[w].state.last_uid}
      BY <2>1, <3>1 DEF NewUids
    <3> QED BY <2>3, <3>2
  <2> QED BY <2>1, <2>3, <2>4 DEF Phase, KnowsCursor, Ahead, Handling, Holding
<1>5. CASE SkipOversize(w) \/ TakeDuplicate(w) \/ TakeMessage(w)
  <2>1. PICK m \in Mail :
             /\ uid[m] \in job[w].todo
             /\ \A u \in job[w].todo : uid[m] <= u
             /\ job'[w].cur = uid[m]
             /\ job'[w].todo = job[w].todo \ {uid[m]}
             /\ job'[w].uidvalidity = job[w].uidvalidity
             /\ job'[w].state = job[w].state
             /\ job'[w].retrying = job[w].retrying /\ job'[w].found = job[w].found
             /\ pc[w] \in {"retry", "new"}
             /\ \/ pc'[w] = IF job[w].retrying THEN "park" ELSE "advance"
                \/ pc'[w] \in {"clear", "import"}
             /\ UNCHANGED folder_state
    BY <1>5, TakeFrame DEF db
  <2>2. \A u \in job'[w].todo : u > uid[m]
    <3>1. job[w].todo \subseteq Nat
      BY <1>0 DEF Job, Uid
    <3> QED BY <2>1, <3>1
  <2>3. KnowsCursor(w)'
    BY <2>1 DEF KnowsCursor
  <2>4. Ahead(w)'
    BY <2>1, <2>2 DEF Ahead, Phase, Handling, Holding
  <2> QED BY <2>3, <2>4
<1>6. CASE Finish(w) /\ ~EndPoll(w) /\ SameWork(w) /\ pc'[w] = "pin"
  <2>1. ~job[w].found /\ pc[w] = "finish" /\ UNCHANGED folder_state
    BY <1>6 DEF Finish, db
  <2> QED BY <1>6, <2>1 DEF SameWork, Phase, KnowsCursor, Ahead, Handling, Holding
<1>7. CASE ImportTransient(w) /\ SameWork(w) /\ UNCHANGED pc
  <2>1. UNCHANGED folder_state
    BY <1>7 DEF ImportTransient, db
  <2> QED BY <1>7, <2>1 DEF SameWork, Phase, KnowsCursor, Ahead
<1>8. CASE pc'[w] = "idle" /\ job'[w] = NoJob
  BY <1>8 DEF NoJob, NewJob, Phase, KnowsCursor, Ahead, Handling, Holding
<1> QED BY <1>1, <1>2, <1>3, <1>4, <1>5, <1>6, <1>7, <1>8, OtherSteps

\* The mailbox a poll works on is not renumbered under it.
LEMMA ValidityStep ==
    ASSUME TypeOK, Validity, [Next]_vars
    PROVE  Validity'
<1>0. /\ FolderOf \in [Worker -> Folder] /\ uidvalidity \in [Folder -> Nat]
      /\ \A w \in Worker : job[w].uidvalidity \in Nat
  BY ConstantsAssumption DEF TypeOK, Job
<1>1. ASSUME NEW w \in Worker, Poll(w) \/ Fail(w) PROVE Validity'
  <2>1. UNCHANGED uidvalidity
    BY <1>1, OnlyItsOwn
  <2>2. ASSUME NEW f \in Folder, ~folder_state'[f].known
        PROVE  folder_state'[f].uidvalidity = 0
    <3>1. CASE f = FolderOf[w]
      BY <1>1, <2>2, <3>1, CursorMoves DEF SameCursor, CursorMovesTo, Validity
    <3>2. CASE f # FolderOf[w]
      BY <1>1, <2>2, <3>2, OnlyItsOwn DEF Validity
    <3> QED BY <3>1, <3>2
  <2>3. ASSUME NEW v \in Worker, pc'[v] # "idle"
        PROVE  job'[v].uidvalidity = uidvalidity[FolderOf[v]]
    <3>1. CASE v # w
      BY <1>1, <2>3, <3>1, OnlyItsOwn DEF Validity
    <3>2. CASE v = w
      <4>1. CASE Starts(w)
        BY <3>2, <4>1, StartsFrame
      <4>2. CASE Progress(w)
        BY <3>2, <4>2, ProgressKeepsWork, ProgressLeads DEF SameWork, Validity, Holding
      <4>3. CASE StartRetries(w) \/ Search(w)
        BY <3>2, <4>3, StartRetriesFrame, SearchFrame DEF Validity
      <4>4. CASE SkipOversize(w) \/ TakeDuplicate(w) \/ TakeMessage(w)
        BY <3>2, <4>4, TakeFrame DEF Validity
      <4>5. CASE Finish(w) /\ SameWork(w)
        BY <3>2, <4>5 DEF Finish, SameWork, Validity
      <4>6. CASE ImportTransient(w) /\ SameWork(w)
        BY <3>2, <4>6 DEF ImportTransient, SameWork, Validity
      <4> QED BY <1>1, <2>3, <3>2, <4>1, <4>2, <4>3, <4>4, <4>5, <4>6, OtherSteps
    <3> QED BY <3>1, <3>2
  <2> QED BY <2>1, <2>2, <2>3 DEF Validity
<1>2. CASE Environment
  <2>1. /\ \A f \in Folder : SameCursor(f)
        /\ \A w \in Worker : pc'[w] = pc[w] /\ job'[w] = job[w]
    BY <1>2, EnvironmentKeepsCursor, ConstantsAssumption
  <2>2. \/ UNCHANGED uidvalidity
        \/ \E f \in Folder : Rebuild(f)
    BY <1>2 DEF Environment, Arrive, UserDeletes, UserFlags, SweepInterval, Requeue,
       RetryDelay, HandQueue, server
  <2>3. ASSUME NEW f \in Folder, Rebuild(f)
        PROVE  /\ \A w \in Worker : FolderOf[w] = f => pc[w] = "idle"
               /\ uidvalidity' = [uidvalidity EXCEPT ![f] = uidvalidity[f] + 1]
    BY <2>3 DEF Rebuild
  <2> QED BY <1>0, <2>1, <2>2, <2>3 DEF Validity, SameCursor
<1>3. CASE UNCHANGED vars
  BY <1>3 DEF vars, Validity
<1> QED BY <1>1, <1>2, <1>3 DEF Next

\* While every folder has one poll at a time, the invariant is inductive.
LEMMA CursorStep ==
    ASSUME TypeOK, OnePollPerFolder, OnePollPerFolder', CursorInv, [Next]_vars
    PROVE  CursorInv'
<1>0. FolderOf \in [Worker -> Folder]
  BY ConstantsAssumption
<1>1. Validity'
  BY ValidityStep DEF CursorInv
<1>4. \A v \in Worker : Phase(v)'
  BY PhaseStep DEF CursorInv
<1>2. ASSUME NEW w \in Worker, Poll(w) \/ Fail(w), NEW v \in Worker
      PROVE  KnowsCursor(v)' /\ Ahead(v)'
  <2>1. CASE v = w
    BY <1>2, <2>1, OwnCursor DEF CursorInv
  <2>2. CASE v # w
    <3>1. CASE pc'[v] = "idle"
      BY <3>1 DEF KnowsCursor, Ahead, Handling, Holding
    <3>2. CASE pc'[v] # "idle"
      <4>1. /\ pc'[v] = pc[v] /\ job'[v] = job[v]
            /\ folder_state'[FolderOf[v]] = folder_state[FolderOf[v]]
        BY <1>0, <1>2, <2>2, <3>2, OnlyItsOwn, OthersIdle
      <4> QED BY <4>1 DEF CursorInv, KnowsCursor, Ahead
    <3> QED BY <3>1, <3>2
  <2> QED BY <2>1, <2>2
<1>3. ASSUME Environment \/ UNCHANGED vars, NEW v \in Worker
      PROVE  KnowsCursor(v)' /\ Ahead(v)'
  <2>1. SameCursor(FolderOf[v]) /\ UNCHANGED <<pc, job>>
    BY <1>0, <1>3, EnvironmentKeepsCursor DEF vars, SameCursor
  <2> QED BY <2>1 DEF CursorInv, KnowsCursor, Ahead, SameCursor
<1> QED BY <1>1, <1>2, <1>3, <1>4 DEF CursorInv, Next

\* set_folder_state: the cursor of a folder with one poll at a time never moves back
\* within a UIDVALIDITY, neither when a message is handled nor when it is pinned.
THEOREM CursorOnlyAdvances == Spec /\ []OnePollPerFolder => CursorNeverRetreats
<1> DEFINE NoneBack ==
        \A f \in Folder :
          folder_state'[f].uidvalidity = folder_state[f].uidvalidity =>
              folder_state'[f].last_uid >= folder_state[f].last_uid
<1>1. IInv /\ OnePollPerFolder /\ OnePollPerFolder' /\ CursorInv /\ [Next]_vars
      => CursorInv'
  BY CursorStep DEF IInv
<1>2. IInv /\ CursorInv /\ [Next]_vars => NoneBack
  <2> SUFFICES ASSUME IInv, CursorInv, [Next]_vars, NEW f \in Folder,
                      folder_state'[f].uidvalidity = folder_state[f].uidvalidity
               PROVE  folder_state'[f].last_uid >= folder_state[f].last_uid
    OBVIOUS
  <2>0. TypeOK /\ folder_state[f].last_uid \in Nat /\ FolderOf \in [Worker -> Folder]
    BY ConstantsAssumption DEF IInv, TypeOK, FolderState
  <2>1. ASSUME NEW w \in Worker, Poll(w) \/ Fail(w), FolderOf[w] = f
        PROVE  folder_state'[f].last_uid >= folder_state[f].last_uid
    <3>0. Phase(w) /\ KnowsCursor(w) /\ Ahead(w)
      BY DEF CursorInv
    <3>1. CASE SameCursor(f)
      BY <2>0, <3>1 DEF SameCursor
    <3>2. CASE Advance(w) /\ CursorMovesTo(w, job[w].cur)
      <4>1. pc[w] = "advance"
        BY <3>2 DEF Advance, Goto
      <4>2. job[w].cur > folder_state[f].last_uid
        BY <2>1, <3>0, <3>2, <4>1 DEF Phase, Ahead, Handling, CursorMovesTo
      <4> QED BY <2>0, <2>1, <3>2, <4>2 DEF CursorMovesTo, IInv, TypeOK, Job
    <3>3. CASE Pin(w) /\ CursorMovesTo(w, IF job[w].state.last_uid > job[w].top
                                          THEN job[w].state.last_uid ELSE job[w].top)
      <4>1. job[w].state.last_uid = folder_state[f].last_uid
        BY <2>1, <3>0, <3>3 DEF Pin, Phase, KnowsCursor
      <4>2. job[w].top \in Nat
        BY DEF IInv, TypeOK, Job
      <4> QED BY <2>0, <2>1, <3>3, <4>1, <4>2 DEF CursorMovesTo
    <3> QED BY <2>0, <2>1, <3>1, <3>2, <3>3, CursorMoves
  <2>2. ASSUME NEW w \in Worker, Poll(w) \/ Fail(w), FolderOf[w] # f
        PROVE  folder_state'[f].last_uid >= folder_state[f].last_uid
    BY <2>0, <2>2, OnlyItsOwn
  <2>3. CASE Environment \/ UNCHANGED vars
    BY <2>0, <2>3, EnvironmentKeepsCursor DEF SameCursor, vars
  <2> QED BY <2>1, <2>2, <2>3 DEF Next
<1> QED BY <1>1, <1>2, CursorInit, Invariant, PTL DEF Spec, CursorNeverRetreats

-----------------------------------------------------------------------------
(***************************************************************************)
(* Giving up.                                                              *)
(***************************************************************************)
\* The row that record_retry_failure leaves.
CountedBy(w, row) ==
    LET attempts == IF job[w].attempts < MaxRetryAttempts
                    THEN job[w].attempts + 1 ELSE MaxRetryAttempts
    IN /\ row.uidvalidity = job[w].uidvalidity
       /\ row.attempts = attempts
       /\ row.next = IF job[w].hand \in Oversize \/ attempts >= MaxRetryAttempts
                     THEN "gave_up" ELSE "waiting"

\* What a poll queues: a leftover of the sweep, or the message in hand.
QueuedBy(w, u) ==
    \/ Sweep(w) /\ u \in ReceivedSince(FolderOf[w], job[w].state.watch_from_uid + 1,
                                       job[w].state.last_uid)
    \/ Park(w) /\ u = job[w].cur

\* A poll leaves a row of its folder, removes it, queues it anew, or, in the last
\* step of record_retry_failure, counts an attempt.
LEMMA RowMoves ==
    ASSUME TypeOK, Held, NEW w \in Worker, Poll(w) \/ Fail(w), NEW u \in Uid
    PROVE  \/ retry_queue'[FolderOf[w]][u] = retry_queue[FolderOf[w]][u]
           \/ retry_queue'[FolderOf[w]][u].next = "none"
           \/ /\ retry_queue[FolderOf[w]][u].next = "none" /\ QueuedBy(w, u)
              /\ retry_queue'[FolderOf[w]][u].next = "due"
              /\ retry_queue'[FolderOf[w]][u].uidvalidity = job[w].uidvalidity
           \/ /\ retry_queue[FolderOf[w]][u].next # "none" /\ Defer(w) /\ u = job[w].cur
              /\ CountedBy(w, retry_queue'[FolderOf[w]][u])
<1> DEFINE f == FolderOf[w]
           uv == job[w].uidvalidity
<1>0. /\ f \in Folder /\ retry_queue \in [Folder -> [Uid -> RetryEntry]]
      /\ retry_queue[f] \in [Uid -> RetryEntry] /\ job[w] \in Job
  BY ConstantsAssumption DEF TypeOK
<1>1. CASE \E S : ClearRetries(f, S)
  BY <1>0, <1>1 DEF ClearRetries, NoEntry
<1>2. CASE \E S : QueueRetry(f, uv, S) /\ (u \in S => QueuedBy(w, u))
  <2>1. PICK S : QueueRetry(f, uv, S) /\ (u \in S => QueuedBy(w, u))
    BY <1>2
  <2>2. \/ retry_queue'[f][u] = retry_queue[f][u]
        \/ /\ u \in S /\ retry_queue[f][u].next = "none"
           /\ retry_queue'[f][u] = [uidvalidity |-> uv, attempts |-> 0, next |-> "due"]
    BY <1>0, <2>1 DEF QueueRetry
  <2> QED BY <2>1, <2>2
<1>3. CASE Defer(w)
  <2> DEFINE attempts == IF job[w].attempts < MaxRetryAttempts
                         THEN job[w].attempts + 1 ELSE MaxRetryAttempts
             done == job[w].hand \in Oversize \/ attempts >= MaxRetryAttempts
             row == [uidvalidity |-> uv, attempts |-> attempts,
                     next |-> IF done THEN "gave_up" ELSE "waiting"]
             entry == IF retry_queue[f][job[w].cur].next = "none"
                      THEN retry_queue[f][job[w].cur] ELSE row
  <2>1. job[w].cur \in Uid
    BY <1>3 DEF Defer, Goto, Held, HeldBy, Holding
  <2>2. retry_queue' = [retry_queue EXCEPT ![f][job[w].cur] = entry]
    BY <1>0, <1>3, <2>1 DEF Defer, RecordRetryFailure
  <2>3. CountedBy(w, row)
    <3>1. /\ row.uidvalidity = uv /\ row.attempts = attempts
          /\ row.next = IF done THEN "gave_up" ELSE "waiting"
      BY Zenon
    <3> HIDE DEF row
    <3> QED BY <3>1 DEF CountedBy
  <2>4. \/ retry_queue'[f][u] = retry_queue[f][u]
        \/ /\ u = job[w].cur /\ retry_queue'[f][u] = row
           /\ retry_queue[f][u].next # "none"
    <3> HIDE DEF row
    <3> QED BY <1>0, <2>1, <2>2
  <2> HIDE DEF row
  <2> QED BY <1>3, <2>3, <2>4
<1>4. CASE UNCHANGED retry_queue
  BY <1>4
<1>5. \/ \E S : ClearRetries(f, S)
      \/ \E S : QueueRetry(f, uv, S) /\ (u \in S => QueuedBy(w, u))
      \/ Defer(w)
      \/ UNCHANGED retry_queue
  <2>1. CASE Starts(w) \/ StartRetries(w) \/ ClearRetry(w)
    BY <2>1, Zenon DEF Starts, Begin, DropStaleRetries, StartRetries, ClearRetry
  <2>2. CASE Sweep(w)
    <3> DEFINE S == ReceivedSince(f, job[w].state.watch_from_uid + 1, job[w].state.last_uid)
    <3>1. QueueRetry(f, uv, S) /\ (u \in S => QueuedBy(w, u))
      BY <2>2, Zenon DEF Sweep, QueuedBy
    <3> QED BY <3>1
  <2>3. CASE Park(w)
    <3>1. QueueRetry(f, uv, {job[w].cur}) /\ (u \in {job[w].cur} => QueuedBy(w, u))
      BY <2>3, Zenon DEF Park, QueuedBy
    <3> QED BY <3>1
  <2>4. CASE ~(\/ Starts(w) \/ StartRetries(w) \/ ClearRetry(w) \/ Sweep(w) \/ Park(w)
               \/ Defer(w))
    BY <2>4, WorkerLeavesQueue DEF Poll
  <2> QED BY <2>1, <2>2, <2>3, <2>4
<1> QED BY <1>1, <1>2, <1>3, <1>4, <1>5

\* Everybody else leaves a row, or makes it due; only the administrator adds one.
LEMMA EnvironmentRows ==
    ASSUME TypeOK, Environment, NEW f \in Folder, NEW u \in Uid
    PROVE  \/ retry_queue'[f][u] = retry_queue[f][u]
           \/ /\ retry_queue'[f][u].next = "due"
              /\ \/ Requeue(f) \/ HandQueue(f, u)
                 \/ retry_queue[f][u].next = "waiting"
              /\ \/ /\ Queued(f, u)
                    /\ retry_queue'[f][u].uidvalidity = retry_queue[f][u].uidvalidity
                 \/ /\ HandQueue(f, u)
                    /\ retry_queue'[f][u].uidvalidity = folder_state[f].uidvalidity
<1>0. /\ retry_queue \in [Folder -> [Uid -> RetryEntry]]
      /\ retry_queue[f] \in [Uid -> RetryEntry] /\ retry_queue[f][u] \in RetryEntry
  BY DEF TypeOK
<1>1. ASSUME NEW g \in Folder, Requeue(g)
      PROVE  \/ retry_queue'[f][u] = retry_queue[f][u]
             \/ /\ retry_queue'[f][u].next = "due" /\ Requeue(f) /\ Queued(f, u)
                /\ retry_queue'[f][u].uidvalidity = retry_queue[f][u].uidvalidity
  <2> DEFINE due(v) == [retry_queue[g][v] EXCEPT !.attempts = 0, !.next = "due"]
  <2>1. retry_queue' = [retry_queue EXCEPT ![g] = [v \in Uid |->
           IF Queued(g, v) THEN due(v) ELSE retry_queue[g][v]]]
    BY <1>0, <1>1 DEF Requeue
  <2>2. CASE g # f
    BY <1>0, <2>1, <2>2
  <2>3. CASE g = f
    <3>1. due(u).next = "due" /\ due(u).uidvalidity = retry_queue[f][u].uidvalidity
      BY <1>0, <2>3 DEF RetryEntry
    <3>2. \/ retry_queue'[f][u] = due(u) /\ Queued(f, u)
          \/ retry_queue'[f][u] = retry_queue[f][u]
      <4> HIDE DEF due
      <4> QED BY <1>0, <2>1, <2>3
    <3> HIDE DEF due
    <3> QED BY <1>1, <2>3, <3>1, <3>2
  <2> QED BY <2>2, <2>3
<1>2. ASSUME NEW g \in Folder, NEW v \in Uid, RetryDelay(g, v)
      PROVE  \/ retry_queue'[f][u] = retry_queue[f][u]
             \/ /\ retry_queue'[f][u].next = "due"
                /\ retry_queue[f][u].next = "waiting" /\ Queued(f, u)
                /\ retry_queue'[f][u].uidvalidity = retry_queue[f][u].uidvalidity
  BY <1>0, <1>2 DEF RetryDelay, RetryEntry, Queued
<1>3. ASSUME NEW g \in Folder, NEW v \in Uid, HandQueue(g, v)
      PROVE  \/ retry_queue'[f][u] = retry_queue[f][u]
             \/ /\ retry_queue'[f][u].next = "due" /\ HandQueue(f, u)
                /\ \/ /\ Queued(f, u)
                      /\ retry_queue'[f][u].uidvalidity = retry_queue[f][u].uidvalidity
                   \/ retry_queue'[f][u].uidvalidity = folder_state[f].uidvalidity
  <2> DEFINE uv == IF Queued(g, v) THEN retry_queue[g][v].uidvalidity
                                   ELSE folder_state[g].uidvalidity
  <2>1. retry_queue' = [retry_queue EXCEPT
            ![g][v] = [uidvalidity |-> uv, attempts |-> 0, next |-> "due"]]
    BY <1>3 DEF HandQueue
  <2>2. CASE g = f /\ v = u
    <3>1. retry_queue'[f][u] = [uidvalidity |-> uv, attempts |-> 0, next |-> "due"]
      <4> HIDE DEF uv
      <4> QED BY <1>0, <2>1, <2>2
    <3> QED BY <1>3, <2>2, <3>1
  <2>3. CASE ~(g = f /\ v = u)
    <3> HIDE DEF uv
    <3> QED BY <1>0, <2>1, <2>3
  <2> QED BY <2>2, <2>3
<1>4. CASE UNCHANGED retry_queue
  BY <1>4
<1>5. \/ \E g \in Folder : Requeue(g)
      \/ \E g \in Folder, v \in Uid : RetryDelay(g, v) \/ HandQueue(g, v)
      \/ UNCHANGED retry_queue
  BY DEF Environment, Arrive, UserDeletes, UserFlags, Rebuild, SweepInterval, db
<1> QED BY <1>1, <1>2, <1>3, <1>4, <1>5

GivenUpAt(f, u) == retry_queue[f][u].next = "gave_up"
Spared(f, u) == retry_queue[f][u].attempts < MaxRetryAttempts

\* A row is given up before its attempts are used only if its message is too large.
GaveUpTooLarge ==
    \A f \in Folder, u \in Uid : GivenUpAt(f, u) =>
        /\ retry_queue[f][u].uidvalidity <= uidvalidity[f]
        /\ Spared(f, u) /\ retry_queue[f][u].uidvalidity = uidvalidity[f] =>
              u < uidnext[f] /\ MailAt(f, u) \subseteq Oversize

\* A poll has dropped the rows of an earlier UIDVALIDITY, and the attempts it read
\* are those of the row it is about to write.
Parked(w) ==
    LET f == FolderOf[w] IN
    /\ pc[w] # "idle" =>
         \A u \in Uid : GivenUpAt(f, u) => retry_queue[f][u].uidvalidity = uidvalidity[f]
    /\ pc[w] \in Holding /\ GivenUpAt(f, job[w].cur) /\ Spared(f, job[w].cur)
         => job[w].hand \in Oversize
    /\ pc[w] = "defer" /\ GivenUpAt(f, job[w].cur)
         => job[w].attempts = retry_queue[f][job[w].cur].attempts

ParkingInv == GaveUpTooLarge /\ \A w \in Worker : Parked(w)

\* No step of a poll brings a message into a mailbox.
LEMMA PollShrinks ==
    ASSUME IInv, NEW w \in Worker, Poll(w) \/ Fail(w)
    PROVE  Shrinks /\ Keeps
<1>0. TypeOK /\ Shared /\ HeldBy(w) /\ SecuredBy(w)
  BY DEF IInv, Shared, Held, Secured
<1>1. StepIsSafe(w)
  BY <1>0, QuietSteps, TakeSteps, ImportSteps, RemovalSteps, FailSteps DEF Poll
<1> QED BY <1>1 DEF StepIsSafe

\* A step of a poll keeps the rows of its folder in order.
LEMMA OwnRows ==
    ASSUME IInv, Validity, GaveUpTooLarge, NEW w \in Worker, Parked(w),
           Poll(w) \/ Fail(w), NEW u \in Uid, GivenUpAt(FolderOf[w], u)'
    PROVE  LET f == FolderOf[w]
               row == retry_queue'[f][u]
           IN /\ row.uidvalidity <= uidvalidity[f]
              /\ pc'[w] # "idle" => row.uidvalidity = uidvalidity[f]
              /\ Spared(f, u)' /\ row.uidvalidity = uidvalidity[f] =>
                    u < uidnext[f] /\ MailAt(f, u)' \subseteq Oversize
<1> DEFINE f == FolderOf[w]
<1>0. /\ TypeOK /\ Held /\ HeldBy(w) /\ f \in Folder /\ uidvalidity[f] \in Nat
      /\ Shrinks /\ retry_queue \in [Folder -> [Uid -> RetryEntry]]
  BY PollShrinks, ConstantsAssumption DEF IInv, Held, TypeOK
<1>1. MailAt(f, u)' \subseteq MailAt(f, u)
  BY <1>0 DEF Shrinks, MailAt, Here
<1>2. CASE retry_queue'[f][u] = retry_queue[f][u]
  <2>1. GivenUpAt(f, u) /\ (Spared(f, u)' <=> Spared(f, u))
    BY <1>2 DEF GivenUpAt, Spared
  <2>2. ASSUME pc'[w] # "idle" PROVE retry_queue[f][u].uidvalidity = uidvalidity[f]
    <3>1. CASE Starts(w)
      <4>1. ClearRetries(f, {v \in Uid : retry_queue[f][v].uidvalidity # uidvalidity[f]})
        BY <3>1 DEF Starts, Begin, DropStaleRetries
      <4> QED BY <1>0, <2>1, <1>2, <4>1 DEF ClearRetries, NoEntry, GivenUpAt
    <3>2. CASE pc[w] # "idle"
      BY <2>1, <3>2 DEF Parked
    <3>3. CASE ~Starts(w) /\ pc[w] = "idle"
      <4>1. ~Progress(w)
        BY <1>0, <3>3, ProgressLeads DEF Holding
      <4>2. ~StartRetries(w) /\ ~Search(w)
        BY <3>3 DEF StartRetries, Search, Goto
      <4>3. ~(SkipOversize(w) \/ TakeDuplicate(w) \/ TakeMessage(w))
        BY <3>3 DEF SkipOversize, TakeDuplicate, TakeMessage, Taking
      <4>4. ~Finish(w) /\ ~ImportTransient(w)
        BY <3>3 DEF Finish, ImportTransient
      <4> QED BY <1>0, <2>2, <3>3, <4>1, <4>2, <4>3, <4>4, OtherSteps
    <3> QED BY <3>1, <3>2, <3>3
  <2> QED BY <1>0, <1>1, <1>2, <2>1, <2>2 DEF GaveUpTooLarge
<1>3. CASE Defer(w) /\ u = job[w].cur /\ CountedBy(w, retry_queue'[f][u])
  <2>1. pc[w] = "defer"
    BY <1>3 DEF Defer, Goto
  <2>2. job[w].uidvalidity = uidvalidity[f]
    BY <2>1 DEF Validity
  <2>3. u < uidnext[f] /\ MailAt(f, u) \subseteq {job[w].hand}
    BY <1>0, <1>3, <2>1 DEF HeldBy, Holding
  <2>4. Spared(f, u)' => job[w].hand \in Oversize
    <3>1. MaxRetryAttempts \in Nat /\ job[w].attempts \in Nat
      BY <1>0, ConstantsAssumption DEF TypeOK, Job
    <3> QED BY <1>3, <3>1 DEF CountedBy, GivenUpAt, Spared
  <2> QED BY <1>0, <1>1, <1>3, <2>2, <2>3, <2>4 DEF CountedBy
<1>4. \/ retry_queue'[f][u] = retry_queue[f][u]
      \/ Defer(w) /\ u = job[w].cur /\ CountedBy(w, retry_queue'[f][u])
  BY <1>0, RowMoves DEF GivenUpAt
<1> QED BY <1>2, <1>3, <1>4

\* And its own variables in line with them.
LEMMA OwnParking ==
    ASSUME IInv, Validity, GaveUpTooLarge, NEW w \in Worker, Parked(w),
           Poll(w) \/ Fail(w)
    PROVE  Parked(w)'
<1> DEFINE f == FolderOf[w]
<1>0. /\ TypeOK /\ Held /\ f \in Folder /\ UNCHANGED uidvalidity
      /\ retry_queue \in [Folder -> [Uid -> RetryEntry]]
      /\ pc \in [Worker -> Step] /\ job \in [Worker -> Job] /\ job[w] \in Job
      /\ \A u \in Uid : retry_queue[f][u] \in RetryEntry
  BY OnlyItsOwn, ConstantsAssumption DEF IInv, TypeOK
<1>1. pc'[w] # "idle" =>
        \A u \in Uid : GivenUpAt(f, u)' => retry_queue'[f][u].uidvalidity = uidvalidity[f]
  BY OwnRows
<1>2. ASSUME pc'[w] \in Holding, pc[w] \in Holding, SameWork(w),
             GivenUpAt(f, job[w].cur)'
      PROVE  /\ job'[w].cur \in Uid /\ job'[w].cur = job[w].cur
             /\ retry_queue'[f][job[w].cur] = retry_queue[f][job[w].cur]
  <2>1. job[w].cur \in Uid /\ job'[w].cur = job[w].cur
    BY <1>0, <1>2 DEF Held, HeldBy, SameWork
  <2>2. ~Defer(w)
    BY <1>0, <1>2 DEF Defer, Goto, AfterMessage, Holding
  <2> QED BY <1>0, <1>2, <2>1, <2>2, RowMoves DEF GivenUpAt
<1>3. ASSUME pc'[w] \in Holding, pc[w] \in Holding, SameWork(w)
      PROVE  Parked(w)'
  <2>1. ASSUME GivenUpAt(f, job[w].cur)', Spared(f, job[w].cur)'
        PROVE  job'[w].hand \in Oversize
    BY <1>2, <1>3, <2>1 DEF GivenUpAt, Spared, Parked, SameWork
  <2>2. ASSUME pc'[w] = "defer", GivenUpAt(f, job[w].cur)'
        PROVE  job'[w].attempts = retry_queue'[f][job'[w].cur].attempts
    <3>1. CASE CountAttempts(w)
      <4>1. UNCHANGED retry_queue
        BY <3>1, WorkerLeavesQueue
      <4> QED BY <1>0, <3>1, <4>1 DEF CountAttempts, Job
    <3>2. CASE ImportTransient(w)
      <4>1. pc[w] = "import"
        BY <3>2 DEF ImportTransient
      <4> QED BY <1>0, <2>2, <3>2, <4>1 DEF ImportTransient, EndPoll
    <3>3. CASE ~CountAttempts(w) /\ ~ImportTransient(w)
      <4>1. ~(\/ Progress(w) \/ Starts(w) \/ StartRetries(w) \/ Search(w)
              \/ SkipOversize(w) \/ TakeDuplicate(w) \/ TakeMessage(w))
        BY <1>0, <2>2, <3>3 DEF Progress, Starts, Begin, StartRetries, Search, DeriveFloor,
           Sweep, SkipSweep, EndRetries, EndNew, Import, ImportRejected, Park,
           Defer, RecordImport, RecordFails, ClearRetry, MarkDeleted, Expunge, SkipOversize,
           TakeDuplicate, TakeMessage, Advance, Goto, AfterMessage, TypeOK
      <4> QED BY <1>0, <2>2, <3>3, <4>1, OtherSteps
    <3> QED BY <3>1, <3>2, <3>3
  <2> QED BY <1>0, <1>1, <2>1, <2>2 DEF Parked
<1>4. CASE SkipOversize(w) \/ TakeDuplicate(w) \/ TakeMessage(w)
  <2>1. PICK m \in Mail :
          /\ m \in MailAt(f, uid[m]) /\ job'[w].hand = m /\ job'[w].cur = uid[m]
          /\ pc[w] \in {"retry", "new"} /\ pc'[w] # "defer"
          /\ UNCHANGED retry_queue
    BY <1>0, <1>4, TakeFrame DEF db
  <2>2. uid[m] \in Uid
    BY <1>0, <2>1 DEF TypeOK, MailAt, Here
  <2>3. GivenUpAt(f, uid[m]) => retry_queue[f][uid[m]].uidvalidity = uidvalidity[f]
    BY <2>1, <2>2 DEF Parked
  <2>4. GivenUpAt(f, uid[m]) /\ Spared(f, uid[m]) => m \in Oversize
    BY <1>0, <2>1, <2>2, <2>3 DEF GaveUpTooLarge
  <2> QED BY <1>0, <1>1, <2>1, <2>4 DEF Parked, GivenUpAt, Spared
<1>5. ASSUME pc'[w] \notin Holding PROVE Parked(w)'
  BY <1>0, <1>1, <1>5 DEF Parked, Holding
<1>6. ASSUME pc'[w] \in Holding,
             ~(SkipOversize(w) \/ TakeDuplicate(w) \/ TakeMessage(w))
      PROVE  pc[w] \in Holding /\ SameWork(w)
  <2>1. ~Starts(w) /\ ~StartRetries(w) /\ ~Search(w)
    BY <1>0, <1>6 DEF Starts, Begin, StartRetries, Search, Goto, Holding
  <2>2. CASE Progress(w)
    BY <1>0, <1>6, <2>2, ProgressLeads, ProgressKeepsWork DEF Holding
  <2>3. CASE ImportTransient(w) /\ ~EndPoll(w) /\ SameWork(w) /\ UNCHANGED pc
    BY <1>6, <2>3
  <2> QED BY <1>0, <1>6, <2>1, <2>2, <2>3, OtherSteps DEF Holding
<1> QED BY <1>3, <1>4, <1>5, <1>6

\* The installation starts with an empty queue.
LEMMA ParkingInit == Init => ParkingInv
<1> SUFFICES ASSUME Init PROVE ParkingInv
  OBVIOUS
<1>1. ASSUME NEW f \in Folder, NEW u \in Uid PROVE ~GivenUpAt(f, u)
  BY DEF Init, GivenUpAt, NoEntry
<1>2. GaveUpTooLarge
  BY <1>1 DEF GaveUpTooLarge
<1>3. \A w \in Worker : Parked(w)
  BY DEF Init, Parked, Holding
<1> QED BY <1>2, <1>3 DEF ParkingInv

\* New mail gets a new UID, a rebuilt mailbox a new UIDVALIDITY: neither puts a
\* message that is not too large where one was given up.
LEMMA EnvironmentParking ==
    ASSUME IInv, Validity, ParkingInv, Environment
    PROVE  ParkingInv'
<1>0. /\ TypeOK /\ FolderOf \in [Worker -> Folder] /\ HomeOf \in [Mail -> Folder]
      /\ uidvalidity \in [Folder -> Nat] /\ uidnext \in [Folder -> Nat]
      /\ \A f \in Folder, u \in Uid : retry_queue[f][u].uidvalidity \in Nat
      /\ Uid \subseteq Nat /\ UNCHANGED <<pc, job>>
      /\ \A w \in Worker : HeldBy(w)
  <2>1. \A f \in Folder, u \in Uid : retry_queue[f][u] \in RetryEntry
    BY DEF IInv, TypeOK
  <2>2. UNCHANGED <<pc, job>>
    BY DEF Environment, Arrive, UserDeletes, UserFlags, Rebuild, SweepInterval, Requeue,
       RetryDelay, HandQueue
  <2> QED BY <2>1, <2>2, ConstantsAssumption DEF IInv, TypeOK, RetryEntry, Uid, Held
<1>1. ASSUME NEW f \in Folder, NEW u \in Uid, GivenUpAt(f, u)'
      PROVE  /\ GivenUpAt(f, u) /\ retry_queue'[f][u] = retry_queue[f][u]
             /\ Spared(f, u)' <=> Spared(f, u)
  BY <1>0, <1>1, EnvironmentRows DEF GivenUpAt, Spared
<1>2. ASSUME NEW f \in Folder, Rebuild(f) PROVE ParkingInv'
  <2>1. /\ uidvalidity' = [uidvalidity EXCEPT ![f] = uidvalidity[f] + 1]
        /\ \A w \in Worker : FolderOf[w] = f => pc[w] = "idle"
        /\ UNCHANGED where
    BY <1>2 DEF Rebuild
  <2>2. /\ \A g \in Folder : g # f => uidnext'[g] = uidnext[g]
        /\ \A m \in Mail : HomeOf[m] # f => uid'[m] = uid[m]
    <3>1. PICK u \in [Here(f) -> Uid], top \in 0..MaxUid :
            /\ uid' = [m \in Mail |-> IF m \in Here(f) THEN u[m] ELSE uid[m]]
            /\ uidnext' = [uidnext EXCEPT ![f] = top + 1]
      BY <1>2 DEF Rebuild
    <3> QED BY <1>0, <3>1 DEF Here
  <2>3. GaveUpTooLarge'
    <3> SUFFICES ASSUME NEW g \in Folder, NEW u \in Uid, GivenUpAt(g, u)'
                 PROVE  /\ retry_queue'[g][u].uidvalidity <= uidvalidity'[g]
                        /\ Spared(g, u)' /\ retry_queue'[g][u].uidvalidity = uidvalidity'[g]
                           => u < uidnext'[g] /\ MailAt(g, u)' \subseteq Oversize
      BY DEF GaveUpTooLarge
    <3>1. CASE g = f
      <4>1. retry_queue[f][u].uidvalidity <= uidvalidity[f]
        BY <1>1, <3>1 DEF ParkingInv, GaveUpTooLarge
      <4> QED BY <1>0, <1>1, <2>1, <3>1, <4>1
    <3>2. CASE g # f
      <4>1. MailAt(g, u)' = MailAt(g, u)
        BY <2>1, <2>2, <3>2 DEF MailAt, Here
      <4> QED BY <1>0, <1>1, <2>1, <2>2, <3>2, <4>1 DEF ParkingInv, GaveUpTooLarge
    <3> QED BY <3>1, <3>2
  <2>4. ASSUME NEW w \in Worker PROVE Parked(w)'
    <3>1. CASE pc[w] = "idle"
      BY <1>0, <3>1 DEF Parked, Holding
    <3>2. CASE pc[w] # "idle"
      <4>1. uidvalidity'[FolderOf[w]] = uidvalidity[FolderOf[w]]
        BY <1>0, <2>1, <3>2
      <4>2. pc[w] \in Holding => job[w].cur \in Uid
        BY <1>0 DEF HeldBy
      <4>3. /\ FolderOf[w] \in Folder /\ Parked(w) /\ pc'[w] = pc[w] /\ job'[w] = job[w]
        BY <1>0 DEF ParkingInv
      <4>4. \A u \in Uid : GivenUpAt(FolderOf[w], u)' =>
               /\ GivenUpAt(FolderOf[w], u)
               /\ retry_queue'[FolderOf[w]][u] = retry_queue[FolderOf[w]][u]
        BY <1>1, <4>3
      <4> QED BY <4>1, <4>2, <4>3, <4>4 DEF Parked, GivenUpAt, Spared, Holding
    <3> QED BY <3>1, <3>2
  <2> QED BY <2>3, <2>4 DEF ParkingInv
<1>3. ASSUME ~\E f \in Folder : Rebuild(f) PROVE ParkingInv'
  <2>1. UNCHANGED uidvalidity
    BY <1>3 DEF Environment, Arrive, UserDeletes, UserFlags, SweepInterval, Requeue,
       RetryDelay, HandQueue, server
  <2>2. ASSUME NEW f \in Folder, NEW u \in Uid, u < uidnext[f]
        PROVE  u < uidnext'[f] /\ MailAt(f, u)' \subseteq MailAt(f, u)
    <3>1. ASSUME NEW m \in Mail, Arrive(m)
          PROVE  u < uidnext'[f] /\ MailAt(f, u)' \subseteq MailAt(f, u)
      <4>1. /\ where' = [where EXCEPT ![m] = "here"]
            /\ uid' = [uid EXCEPT ![m] = uidnext[HomeOf[m]]]
            /\ uidnext' = [uidnext EXCEPT ![HomeOf[m]] = uidnext[HomeOf[m]] + 1]
        BY <3>1 DEF Arrive
      <4>2. u < uidnext'[f]
        BY <1>0, <2>2, <4>1
      <4>3. ASSUME NEW n \in MailAt(f, u)' PROVE n \in MailAt(f, u)
        <5>1. n # m
          BY <1>0, <2>2, <4>1 DEF MailAt, Here, TypeOK
        <5> QED BY <1>0, <4>1, <5>1 DEF MailAt, Here, TypeOK
      <4> QED BY <4>2, <4>3
    <3>2. ASSUME NEW m \in Mail, UserDeletes(m)
          PROVE  u < uidnext'[f] /\ MailAt(f, u)' \subseteq MailAt(f, u)
      BY <1>0, <2>2, <3>2 DEF UserDeletes, MailAt, Here, TypeOK
    <3>3. CASE UNCHANGED <<where, uid, uidnext>>
      BY <2>2, <3>3 DEF MailAt, Here
    <3>4. \/ \E m \in Mail : Arrive(m) \/ UserDeletes(m)
          \/ UNCHANGED <<where, uid, uidnext>>
      BY <1>3 DEF Environment, UserFlags, SweepInterval, Requeue, RetryDelay, HandQueue,
         server
    <3> QED BY <3>1, <3>2, <3>3, <3>4
  <2>3. GaveUpTooLarge'
    BY <1>1, <2>1, <2>2 DEF ParkingInv, GaveUpTooLarge
  <2>4. ASSUME NEW w \in Worker PROVE Parked(w)'
    <3>1. pc[w] \in Holding => job[w].cur \in Uid
      BY <1>0 DEF HeldBy
    <3> QED BY <1>0, <1>1, <2>1, <3>1 DEF ParkingInv, Parked, GivenUpAt, Spared, Holding
  <2> QED BY <2>3, <2>4 DEF ParkingInv
<1> QED BY <1>2, <1>3

\* While every folder has one poll at a time, the invariant is inductive.
LEMMA ParkingStep ==
    ASSUME IInv, OnePollPerFolder, OnePollPerFolder', Validity, ParkingInv, [Next]_vars
    PROVE  ParkingInv'
<1>0. TypeOK /\ FolderOf \in [Worker -> Folder]
  BY ConstantsAssumption DEF IInv
<1>1. ASSUME NEW w \in Worker, Poll(w) \/ Fail(w) PROVE ParkingInv'
  <2>0. UNCHANGED <<uidvalidity, uidnext>> /\ Shrinks
    BY <1>0, <1>1, OnlyItsOwn, PollShrinks
  <2>1. GaveUpTooLarge'
    <3> SUFFICES ASSUME NEW f \in Folder, NEW u \in Uid, GivenUpAt(f, u)'
                 PROVE  /\ retry_queue'[f][u].uidvalidity <= uidvalidity[f]
                        /\ Spared(f, u)' /\ retry_queue'[f][u].uidvalidity = uidvalidity[f]
                           => u < uidnext[f] /\ MailAt(f, u)' \subseteq Oversize
      BY <2>0 DEF GaveUpTooLarge
    <3>1. CASE f = FolderOf[w]
      BY <1>1, <3>1, OwnRows DEF ParkingInv
    <3>2. CASE f # FolderOf[w]
      <4>1. retry_queue'[f][u] = retry_queue[f][u]
        BY <1>0, <1>1, <3>2, OnlyItsOwn
      <4>2. MailAt(f, u)' \subseteq MailAt(f, u)
        BY <2>0 DEF Shrinks, MailAt, Here
      <4> QED BY <4>1, <4>2 DEF ParkingInv, GaveUpTooLarge, GivenUpAt, Spared
    <3> QED BY <3>1, <3>2
  <2>2. ASSUME NEW v \in Worker PROVE Parked(v)'
    <3>1. CASE v = w
      BY <1>1, <3>1, OwnParking DEF ParkingInv
    <3>2. CASE v # w
      <4>1. CASE pc'[v] = "idle"
        BY <4>1 DEF Parked, Holding
      <4>2. CASE pc'[v] # "idle"
        <5>1. /\ pc'[v] = pc[v] /\ job'[v] = job[v]
              /\ retry_queue'[FolderOf[v]] = retry_queue[FolderOf[v]]
          BY <1>0, <1>1, <3>2, <4>2, OnlyItsOwn, OthersIdle
        <5> QED BY <2>0, <5>1 DEF ParkingInv, Parked, GivenUpAt, Spared
      <4> QED BY <4>1, <4>2
    <3> QED BY <3>1, <3>2
  <2> QED BY <2>1, <2>2 DEF ParkingInv
<1>2. CASE Environment
  BY <1>2, EnvironmentParking
<1>3. CASE UNCHANGED vars
  BY <1>3 DEF vars, ParkingInv, GaveUpTooLarge, Parked, GivenUpAt, Spared, MailAt, Here
<1> QED BY <1>1, <1>2, <1>3 DEF Next

\* A step with which a row that was given up gets due or waiting again.
Revives(f, u) == /\ retry_queue[f][u].next = "gave_up"
                 /\ retry_queue'[f][u].next \in {"due", "waiting"}

\* Only the administrator takes it.
LEMMA NoneRevived ==
    ASSUME IInv, CursorInv, ParkingInv, [Next]_vars,
           NEW f \in Folder, NEW u \in Uid, Revives(f, u)
    PROVE  Requeue(f) \/ HandQueue(f, u)
<1>0. /\ TypeOK /\ Held
      /\ retry_queue[f][u].next = "gave_up"
      /\ retry_queue'[f][u].next \in {"due", "waiting"}
  BY DEF IInv, Revives
<1>1. ASSUME NEW w \in Worker, Poll(w) \/ Fail(w), FolderOf[w] = f PROVE FALSE
  <2>1. /\ Defer(w) /\ u = job[w].cur
        /\ CountedBy(w, retry_queue'[f][u])
    BY <1>0, <1>1, RowMoves
  <2>2. pc[w] = "defer" /\ GivenUpAt(f, u)
    BY <1>0, <2>1 DEF Defer, Goto, GivenUpAt
  <2>3. /\ job[w].attempts = retry_queue[f][u].attempts
        /\ Spared(f, u) => job[w].hand \in Oversize
    BY <1>1, <2>1, <2>2 DEF ParkingInv, Parked, Holding
  <2>4. /\ job[w].hand \notin Oversize
        /\ ~((IF job[w].attempts < MaxRetryAttempts
              THEN job[w].attempts + 1 ELSE MaxRetryAttempts) >= MaxRetryAttempts)
    BY <1>0, <2>1 DEF CountedBy
  <2>5. MaxRetryAttempts \in Nat /\ job[w].attempts \in Nat
    BY <1>0, ConstantsAssumption DEF TypeOK, Job
  <2> QED BY <2>3, <2>4, <2>5 DEF Spared
<1>2. ASSUME NEW w \in Worker, Poll(w) \/ Fail(w), FolderOf[w] # f PROVE FALSE
  BY <1>0, <1>2, OnlyItsOwn
<1>3. CASE Environment
  BY <1>0, <1>3, EnvironmentRows
<1>4. CASE UNCHANGED vars
  BY <1>0, <1>4 DEF vars
<1> QED BY <1>1, <1>2, <1>3, <1>4 DEF Next

\* record_retry_failure, queue_retry and the searches of _sync_folder: with one poll
\* of a folder at a time, and until its mailbox is rebuilt, a message that was given
\* up stays given up, whatever crashes, sweeps and searches follow, unless it was
\* delivered or the administrator asks for it.
THEOREM GivenUpStaysGivenUp == Spec /\ []OnePollPerFolder => ParkedStaysParked
<1> DEFINE Stays ==
        \A m \in Mail :
          LET f == HomeOf[m] IN
          /\ where[m] = "here" /\ where'[m] = "here"
          /\ uidvalidity'[f] = uidvalidity[f]
          /\ retry_queue[f][uid[m]].next = "gave_up"
          /\ retry_queue[f][uid[m]].uidvalidity = uidvalidity[f]
          => \/ retry_queue'[f][uid[m]].next = "gave_up"
             \/ retry_queue'[f][uid[m]].next = "none" /\ DeliveredMail(m)
             \/ Requeue(f) \/ HandQueue(f, uid[m])
<1>1. IInv /\ OnePollPerFolder /\ OnePollPerFolder' /\ (CursorInv /\ ParkingInv)
      /\ [Next]_vars => (CursorInv /\ ParkingInv)'
  <2>1. IInv => TypeOK
    BY DEF IInv
  <2>2. CursorInv => Validity
    BY DEF CursorInv
  <2> QED BY <2>1, <2>2, CursorStep, ParkingStep
<1>2. IInv /\ IInv' /\ (CursorInv /\ ParkingInv) /\ [Next]_vars => Stays
  <2> SUFFICES ASSUME IInv, IInv', CursorInv, ParkingInv, [Next]_vars,
                      NEW m \in Mail, NEW f \in Folder, f = HomeOf[m],
                      where[m] = "here",
                      retry_queue[f][uid[m]].next = "gave_up",
                      retry_queue[f][uid[m]].uidvalidity = uidvalidity[f]
               PROVE  \/ retry_queue'[f][uid[m]].next = "gave_up"
                      \/ retry_queue'[f][uid[m]].next = "none" /\ DeliveredMail(m)
                      \/ Requeue(f) \/ HandQueue(f, uid[m])
    BY ConstantsAssumption
  <2>1. PICK u \in Uid : u = uid[m]
    BY DEF IInv, TypeOK
  <2>2. retry_queue'[f][u].next \in {"none", "due", "waiting", "gave_up"}
    BY DEF IInv, TypeOK, RetryEntry
  <2>3. CASE retry_queue'[f][u].next = "none"
    <3>1. Queued(f, u)' \/ DeliveredMail(m)
      BY <2>1, StepKeepsQueue DEF Queued
    <3> QED BY <2>1, <2>3, <3>1 DEF Queued
  <2>4. CASE retry_queue'[f][u].next \in {"due", "waiting"}
    BY <2>1, <2>4, NoneRevived DEF Revives
  <2> QED BY <2>1, <2>2, <2>3, <2>4
<1>3. Init => CursorInv /\ ParkingInv
  BY CursorInit, ParkingInit
<1> QED BY <1>1, <1>2, <1>3, Invariant, PTL DEF Spec, ParkedStaysParked
=============================================================================
