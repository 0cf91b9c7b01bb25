-------------------------- MODULE FolderSync_proofs --------------------------
(***************************************************************************)
(* Theorems about FolderSync, for any set of users, folders, workers and   *)
(* messages and any bounds.                                                *)
(***************************************************************************)
EXTENDS FolderSync, WellFoundedInduction, TLAPS

-----------------------------------------------------------------------------
(***************************************************************************)
(* The lowest and the highest UID of a set of UIDs.                        *)
(***************************************************************************)
\* A non-empty set of naturals has a least element.
LEMMA MinExists ==
    ASSUME NEW S \in SUBSET Nat, S # {}
    PROVE  \E x \in S : \A y \in S : x <= y
<1>1. PICK x \in S : \A y \in S : ~(<<y, x>> \in OpToRel(<, Nat))
  BY WFMin, NatLessThanWellFounded, Zenon
<1>2. \A y \in S : ~(y < x)
  BY <1>1, Zenon DEF OpToRel
<1> QED BY <1>2

\* A bounded non-empty set of naturals has a greatest element.
LEMMA MaxExists ==
    ASSUME NEW n \in Nat, NEW S \in SUBSET (0..n), S # {}
    PROVE  \E x \in S : \A y \in S : y <= x
<1> DEFINE T == {i \in 0..n : n - i \in S}
<1>1. T \in SUBSET Nat /\ T # {}
  <2>1. PICK s \in S : TRUE OBVIOUS
  <2>2. n - s \in T BY <2>1
  <2> QED BY <2>2
<1>2. PICK x \in T : \A y \in T : x <= y
  BY <1>1, MinExists
<1>3. \A y \in S : n - y \in T
  OBVIOUS
<1>4. \A y \in S : y <= n - x
  BY <1>2, <1>3
<1> QED BY <1>2, <1>4

\* Least picks the least UID of a list that is not empty.
LEMMA LeastIsLeast ==
    ASSUME NEW S \in SUBSET Nat, S # {}
    PROVE  Least(S) \in S /\ \A y \in S : Least(S) <= y
BY MinExists DEF Least

\* GreatestOr0 picks the greatest UID, or 0 when there is none.
LEMMA GreatestIsGreatest ==
    ASSUME NEW n \in Nat, NEW S \in SUBSET (0..n)
    PROVE  GreatestOr0(S) \in 0..n /\ \A y \in S : y <= GreatestOr0(S)
<1>1. CASE S = {}
  BY <1>1 DEF GreatestOr0
<1>2. CASE S # {}
  BY <1>2, MaxExists DEF GreatestOr0
<1> QED BY <1>1, <1>2

-----------------------------------------------------------------------------
(***************************************************************************)
(* Type correctness.                                                       *)
(***************************************************************************)
\* A poll's local variables are well typed when it starts.
LEMMA NewJobType ==
    ASSUME NEW uv \in Nat, NEW top \in 0..MaxUid, NEW state \in FolderState,
           NEW left \in Nat \cup {NoCap}
    PROVE  NewJob(uv, top, state, left) \in Job
BY ConstantsAssumption DEF NewJob, Job, NoCap, Uid

\* An idle worker's local variables are well typed.
LEMMA NoJobType == NoJob \in Job
<1>1. NoState \in FolderState
  BY ConstantsAssumption DEF NoState, FolderState, NoFloor
<1> QED BY <1>1, NewJobType, ConstantsAssumption DEF NoJob

\* The installation starts well typed.
LEMMA InitType == Init => TypeOK
<1> SUFFICES ASSUME Init PROVE TypeOK
  OBVIOUS
<1> USE ConstantsAssumption
<1>1. where \in [Mail -> {"pending", "here", "expunged", "deleted"}]
  BY DEF Init
<1>2. uid \in [Mail -> 0..MaxUid]
  BY DEF Init, Uid
<1>9. \A m \in Mail : where[m] = "here" => uid[m] \in Uid
  BY DEF Init
<1>3. uidnext \in [Folder -> 1..MaxUid + 1]
  <2>1. \A f \in Folder : UidsOf(Here(f)) \in SUBSET (0..MaxUid)
    BY <1>2 DEF UidsOf, Here
  <2>2. \A f \in Folder : GreatestOr0(UidsOf(Here(f))) + 1 \in 1..MaxUid + 1
    BY <2>1, GreatestIsGreatest
  <2> QED BY <2>2 DEF Init
<1>4. uidvalidity \in [Folder -> Nat]
  BY DEF Init
<1>5. /\ copies \in [Mail -> 0..MaxCopies]
      /\ imported \in [User -> [Key -> Status]]
      /\ flagged \subseteq Mail /\ user_flagged \subseteq Mail /\ fresh \subseteq Mail
  BY DEF Init, Status
<1>6. folder_state \in [Folder -> FolderState]
  <2>1. PICK old \in SUBSET LegacyFolders, last \in [Folder -> 0..MaxUid] :
          folder_state = [f \in Folder |->
               IF f \in old
               THEN [known |-> TRUE, uidvalidity |-> 1, last_uid |-> last[f],
                     watch_from_uid |-> NoFloor, sweep_due |-> TRUE]
               ELSE NoState]
    BY DEF Init
  <2> QED BY <2>1 DEF FolderState, NoState, NoFloor
<1>7. retry_queue \in [Folder -> [Uid -> RetryEntry]]
  BY DEF Init, NoEntry, RetryEntry
<1>8. pc \in [Worker -> Step] /\ job \in [Worker -> Job]
  BY NoJobType DEF Init, Step
<1> QED BY <1>1, <1>2, <1>3, <1>4, <1>5, <1>6, <1>7, <1>8, <1>9 DEF TypeOK

\* Moving a cursor keeps the table folder_state well typed.
LEMMA SetFolderStateType ==
    ASSUME TypeOK, NEW f \in Folder, NEW uv \in Nat, NEW u \in 0..MaxUid,
           SetFolderState(f, uv, u)
    PROVE  folder_state' \in [Folder -> FolderState]
<1>1. folder_state[f] \in FolderState
  BY DEF TypeOK
<1> QED BY <1>1 DEF TypeOK, SetFolderState, FolderState

\* Queueing leftovers keeps the table retry_queue well typed.
LEMMA QueueRetryType ==
    ASSUME TypeOK, NEW f \in Folder, NEW uv \in Nat, NEW S, QueueRetry(f, uv, S)
    PROVE  retry_queue' \in [Folder -> [Uid -> RetryEntry]]
BY ConstantsAssumption DEF TypeOK, QueueRetry, RetryEntry

\* So does counting a failed attempt, up to MAX_RETRY_ATTEMPTS.
LEMMA RecordRetryFailureType ==
    ASSUME TypeOK, NEW f \in Folder, NEW uv \in Nat, NEW u \in Uid,
           NEW n \in 0..MaxRetryAttempts, NEW m,
           RecordRetryFailure(f, uv, u, n, m \in Oversize)
    PROVE  retry_queue' \in [Folder -> [Uid -> RetryEntry]]
<1> USE ConstantsAssumption
<1> DEFINE attempts == IF n < MaxRetryAttempts THEN n + 1 ELSE MaxRetryAttempts
           done == m \in Oversize \/ attempts >= MaxRetryAttempts
           next == IF done THEN "gave_up" ELSE "waiting"
           counted == [uidvalidity |-> uv, attempts |-> attempts, next |-> next]
           entry == IF retry_queue[f][u].next = "none" THEN retry_queue[f][u] ELSE counted
<1>1. retry_queue[f][u] \in RetryEntry
  BY DEF TypeOK
<1>2. attempts \in 0..MaxRetryAttempts /\ next \in {"none", "due", "waiting", "gave_up"}
  OBVIOUS
<1>3. counted \in RetryEntry
  <2> HIDE DEF attempts, next
  <2> QED BY <1>2 DEF RetryEntry
<1>4. entry \in RetryEntry
  BY <1>1, <1>3
<1>5. retry_queue' = [retry_queue EXCEPT ![f][u] = entry]
  BY DEF RecordRetryFailure, TypeOK
<1> HIDE DEF entry
<1> QED BY <1>4, <1>5 DEF TypeOK

\* So does dropping entries of the queue.
LEMMA ClearRetriesType ==
    ASSUME TypeOK, NEW f \in Folder, NEW S, ClearRetries(f, S)
    PROVE  retry_queue' \in [Folder -> [Uid -> RetryEntry]]
BY ConstantsAssumption DEF TypeOK, ClearRetries, RetryEntry, NoEntry

\* Recording an import keeps the table imported_messages well typed.
LEMMA RecordStatusType ==
    ASSUME TypeOK, NEW m \in Mail, NEW status \in Status, RecordStatus(m, status)
    PROVE  imported' \in [User -> [Key -> Status]]
<1>1. OwnerOf[HomeOf[m]] \in User /\ KeyOf[m] \in Key
  BY ConstantsAssumption
<1> QED BY <1>1 DEF TypeOK, RecordStatus

\* A message in hand keeps the poll well typed.
LEMMA TookType ==
    ASSUME TypeOK, NEW w \in Worker, Taking(w), NEW m \in Candidate(w)
    PROVE  /\ Took(w, m) \in [Worker -> Job]
           /\ m \in Mail /\ HomeOf[m] = FolderOf[w] /\ where[m] = "here"
           /\ uid[m] = Least(job[w].todo) /\ uid[m] \in Uid
<1> USE ConstantsAssumption
<1>1. /\ m \in Mail /\ HomeOf[m] = FolderOf[w] /\ where[m] = "here"
      /\ uid[m] = Least(job[w].todo)
  BY DEF Candidate, MailAt, Here
<1>2. job[w] \in Job
  BY DEF TypeOK
<1>3. Least(job[w].todo) \in Uid
  <2>1. job[w].todo \in SUBSET Nat /\ job[w].todo # {}
    BY <1>2 DEF Job, Uid, Taking, Exhausted
  <2> QED BY <2>1, <1>2, LeastIsLeast DEF Job
<1>4. Spent(job[w].left) \in Nat \cup {NoCap}
  <2>1. job[w].left # 0 /\ job[w].left \in Nat \cup {NoCap}
    BY <1>2 DEF Taking, Exhausted, WithinBudget, Job
  <2> QED BY <2>1 DEF Spent, NoCap
<1> DEFINE u == Least(job[w].todo)
           left == Spent(job[w].left)
           took == [job[w] EXCEPT !.todo = @ \ {u}, !.cur = u, !.hand = m,
                                  !.left = left, !.tries = 0]
<1>5. Took(w, m) = [job EXCEPT ![w] = took]
  BY <1>2 DEF Took, Job, TypeOK
<1>6. took \in Job
  <2> HIDE DEF u, left
  <2>1. u \in Uid /\ left \in Nat \cup {NoCap}
    BY <1>3, <1>4 DEF u, left
  <2>2. /\ job[w].todo \ {u} \in SUBSET Uid
        /\ u \in 0..MaxUid /\ 0 \in 0..ImportAttempts /\ m \in Mail \cup {NoMail}
    BY <1>1, <1>2, <2>1 DEF Job, Uid
  <2> QED BY <1>2, <2>1, <2>2 DEF Job
<1> HIDE DEF took
<1> QED BY <1>1, <1>3, <1>5, <1>6 DEF TypeOK

\* Storing a message in Gmail counts its copies up to the bound.
LEMMA StoreType ==
    ASSUME TypeOK, NEW m \in Mail, Store(m)
    PROVE  /\ copies' \in [Mail -> 0..MaxCopies]
           /\ \A n \in Mail : copies[n] > 0 => copies'[n] > 0
           /\ copies'[m] > 0
<1> USE ConstantsAssumption
<1> DEFINE c == IF copies[m] < MaxCopies THEN copies[m] + 1 ELSE copies[m]
<1>1. copies[m] \in 0..MaxCopies
  BY DEF TypeOK
<1>2. c \in 0..MaxCopies /\ c > 0
  BY <1>1
<1>3. copies' = [copies EXCEPT ![m] = c]
  BY DEF Store
<1> HIDE DEF c
<1> QED BY <1>2, <1>3 DEF TypeOK

\* Every step of a poll keeps every variable well typed.
LEMMA PollType ==
    ASSUME TypeOK, Held, NEW w \in Worker, Poll(w)
    PROVE  TypeOK'
<1> DEFINE f == FolderOf[w]
<1> USE ConstantsAssumption
<1>0. f \in Folder /\ job[w] \in Job /\ folder_state[f] \in FolderState
  BY DEF TypeOK
<1>1. CASE Starts(w)
  <2>1. PICK left \in Budget : Begin(w, left)
    BY <1>1 DEF Starts
  <2>2. left \in Nat \cup {NoCap}
    BY DEF Budget
  <2>3. NewJob(uidvalidity[f], uidnext[f] - 1, folder_state[f], left) \in Job
    BY <1>0, <2>2, NewJobType DEF TypeOK
  <2>4. retry_queue' \in [Folder -> [Uid -> RetryEntry]]
    BY <1>0, <2>1, ClearRetriesType DEF Begin, DropStaleRetries
  <2> QED BY <2>1, <2>3, <2>4 DEF Begin, Goto, TypeOK, Step, server
<1>2. CASE DeriveFloor(w)
  <2> DEFINE candidates == ReceivedSince(f, 1, job[w].state.last_uid)
             older == {u \in candidates : \E m \in MailAt(f, u) : m \notin fresh}
             floor == IF candidates # {} /\ older = {} THEN Least(candidates) - 1
                                                       ELSE GreatestOr0(older)
  <2>1. candidates \in SUBSET (1..MaxUid)
    BY <1>0 DEF ReceivedSince, Job, FolderState
  <2>2. floor \in 0..MaxUid
    <3>1. CASE candidates # {} /\ older = {}
      <4>1. Least(candidates) \in candidates
        BY <2>1, <3>1, LeastIsLeast
      <4> QED BY <2>1, <3>1, <4>1
    <3>2. CASE ~(candidates # {} /\ older = {})
      <4>1. older \in SUBSET (0..MaxUid)
        BY <2>1
      <4>2. GreatestOr0(older) \in 0..MaxUid
        BY <4>1, GreatestIsGreatest
      <4> QED BY <3>2, <4>2
    <3> QED BY <3>1, <3>2
  <2> HIDE DEF floor
  <2>3. /\ job' = [job EXCEPT ![w].state.watch_from_uid = floor]
        /\ folder_state' = [folder_state EXCEPT ![f].watch_from_uid = floor]
        /\ UNCHANGED <<server, copies, imported, retry_queue, pc>>
    BY <1>2 DEF DeriveFloor, floor
  <2>4. [job[w] EXCEPT !.state.watch_from_uid = floor] \in Job
    BY <1>0, <2>2 DEF Job, FolderState
  <2>5. job' \in [Worker -> Job]
    BY <2>3, <2>4 DEF TypeOK
  <2>6. folder_state' \in [Folder -> FolderState]
    BY <1>0, <2>2, <2>3 DEF TypeOK, FolderState
  <2> QED BY <2>3, <2>5, <2>6 DEF TypeOK, server
<1>3. CASE Sweep(w)
  <2>1. retry_queue' \in [Folder -> [Uid -> RetryEntry]]
    BY <1>0, <1>3, QueueRetryType DEF Sweep, Job
  <2>2. folder_state' \in [Folder -> FolderState]
    BY <1>0, <1>3 DEF Sweep, TypeOK, FolderState
  <2> QED BY <1>3, <2>1, <2>2 DEF Sweep, Goto, TypeOK, Step, server
<1>4. CASE SkipSweep(w) \/ EndRetries(w) \/ EndNew(w)
  BY <1>4 DEF SkipSweep, EndRetries, EndNew, Goto, TypeOK, Step, server, db
<1>5. CASE StartRetries(w)
  <2> DEFINE due == DueRetries(f)
             present == {u \in due : MailAt(f, u) # {}}
  <2>1. retry_queue' \in [Folder -> [Uid -> RetryEntry]]
    BY <1>0, <1>5, ClearRetriesType DEF StartRetries
  <2>2. present \in SUBSET Uid
    BY DEF DueRetries
  <2>3. [job[w] EXCEPT !.todo = present, !.retrying = TRUE] \in Job
    BY <1>0, <2>2 DEF Job
  <2>4. job' \in [Worker -> Job]
    BY <1>5, <2>3 DEF StartRetries, TypeOK
  <2> QED BY <1>5, <2>1, <2>4 DEF StartRetries, Goto, TypeOK, Step, server
<1>6. CASE Search(w)
  <2>1. \A uids \in NewUids(w) : uids \in SUBSET Uid
    BY DEF NewUids, UidsOf, Here, BackfillWindow, TypeOK
  <2>2. PICK uids \in NewUids(w) :
          job' = [job EXCEPT ![w].todo = uids, ![w].found = (uids # {}),
                             ![w].retrying = FALSE]
    BY <1>6 DEF Search
  <2>3. [job[w] EXCEPT !.todo = uids, !.found = (uids # {}), !.retrying = FALSE] \in Job
    BY <1>0, <2>1 DEF Job
  <2>4. job' \in [Worker -> Job]
    BY <2>2, <2>3 DEF TypeOK
  <2> QED BY <1>6, <2>4 DEF Search, Goto, TypeOK, Step, server, db
<1>7. CASE FetchGone(w)
  BY <1>7, NoJobType DEF FetchGone, EndPoll, TypeOK, Step, server, db
<1>8. CASE SkipOversize(w) \/ TakeDuplicate(w) \/ TakeMessage(w)
  <2>1. PICK m \in Candidate(w) :
          /\ Taking(w) /\ job' = Took(w, m)
          /\ \E step \in {"park", "advance", "clear", "import"} :
                pc' = [pc EXCEPT ![w] = step]
          /\ UNCHANGED <<server, copies, db>>
    BY <1>8 DEF SkipOversize, TakeDuplicate, TakeMessage
  <2>2. job' \in [Worker -> Job]
    BY <2>1, TookType
  <2> QED BY <2>1, <2>2 DEF TypeOK, Step, server, db
<1>10. CASE Import(w)
  <2>1. job' \in [Worker -> Job] /\ pc' \in [Worker -> Step]
    <3>1. [job[w] EXCEPT !.tries = 0] \in Job
      BY <1>0 DEF Job
    <3> QED BY <1>10, <3>1 DEF Import, Goto, TypeOK, Step
  <2>2. copies' \in [Mail -> 0..MaxCopies]
    <3>1. job[w].hand \in Mail /\ Store(job[w].hand)
      BY <1>10 DEF Import, Goto, Held, HeldBy, Holding
    <3> QED BY <3>1, StoreType
  <2> QED BY <1>10, <2>1, <2>2 DEF Import, TypeOK, server, db
<1>11. CASE ImportRejected(w)
  <2>1. job[w].hand \in Mail
    BY <1>11 DEF ImportRejected, Goto, Held, HeldBy, Holding
  <2>2. imported' \in [User -> [Key -> Status]]
    BY <1>11, <2>1, RecordStatusType DEF ImportRejected, Status
  <2>3. job' \in [Worker -> Job] /\ pc' \in [Worker -> Step]
    <3>1. [job[w] EXCEPT !.tries = 0] \in Job
      BY <1>0 DEF Job
    <3> QED BY <1>11, <3>1 DEF ImportRejected, Goto, TypeOK, Step
  <2>4. copies' \in [Mail -> 0..MaxCopies]
    <3>1. Store(job[w].hand) \/ UNCHANGED copies
      BY <1>11 DEF ImportRejected
    <3> QED BY <2>1, <3>1, StoreType DEF TypeOK
  <2> QED BY <1>11, <2>2, <2>3, <2>4 DEF ImportRejected, TypeOK, server
<1>12. CASE Park(w)
  <2>1. retry_queue' \in [Folder -> [Uid -> RetryEntry]]
    BY <1>0, <1>12, QueueRetryType DEF Park, Job
  <2> QED BY <1>12, <2>1 DEF Park, Goto, TypeOK, Step, server
<1>9. CASE CountAttempts(w)
  <2> DEFINE n == retry_queue[f][job[w].cur].attempts
  <2>1. job[w].cur \in Uid
    BY <1>9 DEF CountAttempts, Goto, Held, HeldBy, Holding
  <2>2. n \in 0..MaxRetryAttempts
    BY <1>0, <2>1 DEF TypeOK, RetryEntry
  <2>3. [job[w] EXCEPT !.attempts = n] \in Job
    BY <1>0, <2>2 DEF Job
  <2>4. job' \in [Worker -> Job]
    BY <1>9, <2>3 DEF CountAttempts, TypeOK
  <2> QED BY <1>9, <2>4 DEF CountAttempts, Goto, TypeOK, Step, server, db
<1>20. CASE NothingToCount(w)
  BY <1>20, NoJobType DEF NothingToCount, EndPoll, TypeOK, Step, server, db
<1>21. CASE Defer(w)
  <2>1. job[w].cur \in Uid
    BY <1>21 DEF Defer, Goto, Held, HeldBy, Holding
  <2>2. retry_queue' \in [Folder -> [Uid -> RetryEntry]]
    BY <1>0, <1>21, <2>1, RecordRetryFailureType DEF Defer, Job
  <2>3. [job[w] EXCEPT !.attempts = 0] \in Job
    BY <1>0 DEF Job
  <2>4. job' \in [Worker -> Job] /\ pc' \in [Worker -> Step]
    BY <1>21, <2>3 DEF Defer, Goto, AfterMessage, TypeOK, Step
  <2> QED BY <1>21, <2>2, <2>4 DEF Defer, TypeOK, server
<1>13. CASE RecordImport(w) \/ RecordFails(w)
  <2>1. job[w].hand \in Mail
    BY <1>13 DEF RecordImport, RecordFails, Goto, Held, HeldBy, Holding
  <2>2. imported' \in [User -> [Key -> Status]]
    BY <1>13, <2>1, RecordStatusType DEF RecordImport, RecordFails, Status
  <2> QED BY <1>13, <2>2 DEF RecordImport, RecordFails, Goto, TypeOK, Step, server
<1>14. CASE ClearRetry(w)
  <2>1. retry_queue' \in [Folder -> [Uid -> RetryEntry]]
    BY <1>0, <1>14, ClearRetriesType DEF ClearRetry
  <2>2. pc' \in [Worker -> Step]
    BY <1>14 DEF ClearRetry, Goto, AfterMessage, TypeOK, Step
  <2> QED BY <1>14, <2>1, <2>2 DEF ClearRetry, TypeOK, server
<1>15. CASE MarkDeleted(w)
  <2>1. flagged' \subseteq Mail /\ pc' \in [Worker -> Step]
    BY <1>15 DEF MarkDeleted, Goto, MailAt, Here, TypeOK, Step
  <2> QED BY <1>15, <2>1 DEF MarkDeleted, TypeOK, db
<1>16. CASE Expunge(w)
  <2>1. job' \in [Worker -> Job]
    BY <1>0, <1>16 DEF Expunge, TypeOK, Job
  <2>2. pc' \in [Worker -> Step]
    BY <1>16 DEF Expunge, Goto, AfterMessage, TypeOK, Step
  <2>3. /\ where' \in [Mail -> {"pending", "here", "expunged", "deleted"}]
        /\ \A m \in Mail : where'[m] = "here" => uid[m] \in Uid
    BY <1>16 DEF Expunge, Remove, TypeOK
  <2> QED BY <1>16, <2>1, <2>2, <2>3 DEF Expunge, TypeOK, db
<1>17. CASE Advance(w)
  <2>1. folder_state' \in [Folder -> FolderState]
    BY <1>0, <1>17, SetFolderStateType DEF Advance, Job
  <2> QED BY <1>17, <2>1 DEF Advance, Goto, TypeOK, Step, server
<1>18. CASE Finish(w)
  <2>1. pc' \in [Worker -> Step] /\ job' \in [Worker -> Job]
    BY <1>18, NoJobType DEF Finish, EndPoll, TypeOK, Step
  <2>2. /\ where' \in [Mail -> {"pending", "here", "expunged", "deleted"}]
        /\ \A m \in Mail : where'[m] = "here" => uid[m] \in Uid
    BY <1>18 DEF Finish, Remove, TypeOK
  <2> QED BY <1>18, <2>1, <2>2 DEF Finish, TypeOK, db
<1>19. CASE Pin(w)
  <2>1. job[w].state.last_uid \in 0..MaxUid /\ job[w].top \in 0..MaxUid
        /\ job[w].uidvalidity \in Nat
    BY <1>0 DEF Job, FolderState
  <2>2. folder_state' \in [Folder -> FolderState]
    BY <1>0, <1>19, <2>1, SetFolderStateType DEF Pin
  <2> QED BY <1>19, <2>2, NoJobType DEF Pin, EndPoll, TypeOK, Step, server
<1> QED BY <1>1, <1>2, <1>3, <1>4, <1>5, <1>6, <1>7, <1>8, <1>9, <1>10, <1>11,
           <1>12, <1>13, <1>14, <1>15, <1>16, <1>17, <1>18, <1>19, <1>20, <1>21 DEF Poll

\* So does a failure, and everybody else's steps.
LEMMA FailType ==
    ASSUME TypeOK, Held, NEW w \in Worker, Fail(w)
    PROVE  TypeOK'
<1> USE ConstantsAssumption
<1>0. job[w] \in Job
  BY DEF TypeOK
<1>1. CASE ImportTransient(w)
  <2>1. copies' \in [Mail -> 0..MaxCopies]
    <3>1. job[w].hand \in Mail
      BY <1>1 DEF ImportTransient, Held, HeldBy, Holding
    <3> QED BY <1>1, <3>1, StoreType DEF ImportTransient, TypeOK
  <2>2. pc' \in [Worker -> Step] /\ job' \in [Worker -> Job]
    <3>1. CASE job[w].tries + 1 < ImportAttempts
      <4>1. job[w].tries + 1 \in 0..ImportAttempts
        BY <1>0, <3>1 DEF Job
      <4>2. job' = [job EXCEPT ![w].tries = job[w].tries + 1] /\ pc' = pc
        BY <1>1, <3>1 DEF ImportTransient
      <4>3. \A t \in 0..ImportAttempts : [job[w] EXCEPT !.tries = t] \in Job
        BY <1>0 DEF Job
      <4> QED BY <4>1, <4>2, <4>3 DEF TypeOK
    <3>2. CASE ~(job[w].tries + 1 < ImportAttempts)
      <4>1. EndPoll(w)
        BY <1>1, <3>2 DEF ImportTransient
      <4> QED BY <4>1, NoJobType DEF EndPoll, TypeOK, Step
    <3> QED BY <3>1, <3>2
  <2> QED BY <1>1, <2>1, <2>2 DEF ImportTransient, TypeOK, server, db
<1>2. CASE Abort(w)
  <2>1. flagged' \subseteq Mail
    BY <1>2 DEF Abort, TypeOK
  <2> QED BY <1>2, <2>1, NoJobType DEF Abort, EndPoll, TypeOK, Step, db
<1> QED BY <1>1, <1>2 DEF Fail

\* So do the senders, the owner of the mailbox, the server and the administrator.
LEMMA EnvironmentType ==
    ASSUME TypeOK, Environment
    PROVE  TypeOK'
<1> USE ConstantsAssumption
<1>1. ASSUME NEW m \in Mail, Arrive(m) PROVE TypeOK'
  <2>1. HomeOf[m] \in Folder /\ uidnext[HomeOf[m]] \in Uid
    BY <1>1 DEF Arrive, TypeOK, Uid
  <2> QED BY <1>1, <2>1 DEF Arrive, TypeOK, Uid, db
<1>2. ASSUME NEW m \in Mail, UserDeletes(m) \/ UserFlags(m) PROVE TypeOK'
  BY <1>2 DEF UserDeletes, UserFlags, TypeOK, db
<1>3. ASSUME NEW f \in Folder, Rebuild(f) PROVE TypeOK'
  <2>1. PICK u \in [Here(f) -> Uid], top \in 0..MaxUid :
          /\ uid' = [m \in Mail |-> IF m \in Here(f) THEN u[m] ELSE uid[m]]
          /\ uidnext' = [uidnext EXCEPT ![f] = top + 1]
    BY <1>3 DEF Rebuild
  <2>2. /\ uid' \in [Mail -> 0..MaxUid]
        /\ \A m \in Mail : where[m] = "here" => uid'[m] \in Uid
    BY <2>1 DEF TypeOK, Uid
  <2>3. uidnext' \in [Folder -> 1..MaxUid + 1]
    BY <2>1 DEF TypeOK
  <2> QED BY <1>3, <2>2, <2>3 DEF Rebuild, TypeOK, db
<1>4. ASSUME NEW f \in Folder, SweepInterval(f) PROVE TypeOK'
  <2>1. folder_state' \in [Folder -> FolderState]
    BY <1>4 DEF SweepInterval, TypeOK, FolderState
  <2> QED BY <1>4, <2>1 DEF SweepInterval, TypeOK, server
<1>5. ASSUME NEW f \in Folder, Requeue(f) PROVE TypeOK'
  <2>1. retry_queue' \in [Folder -> [Uid -> RetryEntry]]
    <3>1. \A u \in Uid : retry_queue[f][u] \in RetryEntry
      BY DEF TypeOK
    <3>2. ASSUME NEW e \in RetryEntry
          PROVE  [e EXCEPT !.attempts = 0, !.next = "due"] \in RetryEntry
      <4>1. 0 \in 0..MaxRetryAttempts
        OBVIOUS
      <4> QED BY <4>1 DEF RetryEntry
    <3> QED BY <1>5, <3>1, <3>2 DEF Requeue, TypeOK
  <2> QED BY <1>5, <2>1 DEF Requeue, TypeOK, server
<1>6. ASSUME NEW f \in Folder, NEW u \in Uid, RetryDelay(f, u) PROVE TypeOK'
  <2>1. retry_queue' \in [Folder -> [Uid -> RetryEntry]]
    <3>1. retry_queue[f][u] \in RetryEntry
      BY DEF TypeOK
    <3>2. \A e \in RetryEntry : [e EXCEPT !.next = "due"] \in RetryEntry
      BY DEF RetryEntry
    <3> QED BY <1>6, <3>1, <3>2 DEF RetryDelay, TypeOK
  <2> QED BY <1>6, <2>1 DEF RetryDelay, TypeOK, server
<1>7. ASSUME NEW f \in Folder, NEW u \in Uid, HandQueue(f, u) PROVE TypeOK'
  <2>1. \E uv \in Nat : retry_queue' = [retry_queue EXCEPT ![f][u] =
            [uidvalidity |-> uv, attempts |-> 0, next |-> "due"]]
    <3>1. retry_queue[f][u] \in RetryEntry /\ folder_state[f] \in FolderState
      BY DEF TypeOK
    <3> QED BY <1>7, <3>1 DEF HandQueue, RetryEntry, FolderState
  <2>2. retry_queue' \in [Folder -> [Uid -> RetryEntry]]
    BY <2>1 DEF TypeOK, RetryEntry
  <2> QED BY <1>7, <2>2 DEF HandQueue, TypeOK, server
<1> QED BY <1>1, <1>2, <1>3, <1>4, <1>5, <1>6, <1>7 DEF Environment

-----------------------------------------------------------------------------
(***************************************************************************)
(* The inductive invariant behind MovedOnlyIfDelivered.                    *)
(***************************************************************************)
\* No poll puts a message into a mailbox or renumbers one.
Shrinks ==
    /\ \A m \in Mail : /\ where'[m] = "here" => where[m] = "here"
                       /\ where[m] # "pending" => where'[m] # "pending"
    /\ UNCHANGED <<uid, uidnext>>

\* Gmail forgets nothing.
Keeps == \A m \in Mail : copies[m] > 0 => copies'[m] > 0

\* What is delivered stays delivered.
LEMMA DeliveredStays ==
    ASSUME Keeps
    PROVE  /\ \A user \in User, k \in Key : Delivered(user, k) => Delivered(user, k)'
           /\ \A m \in Mail : DeliveredMail(m) => DeliveredMail(m)'
BY ConstantsAssumption DEF Keeps, Delivered, DeliveredMail

\* A worker that does not move keeps hold of its message.
LEMMA Undisturbed ==
    ASSUME NEW w \in Worker, HeldBy(w), SecuredBy(w), Shrinks, Keeps,
           pc'[w] = pc[w], job'[w] = job[w]
    PROVE  HeldBy(w)' /\ SecuredBy(w)'
<1>1. HeldBy(w)'
  BY DEF HeldBy, Shrinks, MailAt, Here
<1>2. ASSUME pc[w] \in {"record", "clear", "flag", "expunge"}
      PROVE  job[w].hand \in Mail
  BY <1>2 DEF HeldBy, Holding
<1>3. SecuredBy(w)'
  BY <1>2, DeliveredStays DEF SecuredBy, Moves, DeliveredMail, Delivered
<1> QED BY <1>1, <1>3

\* The parts of the invariant that are not about a worker.
Shared == UidsUnique /\ FlagsSecured /\ RecordedOnlyIfDelivered /\ MovedOnlyIfDelivered

\* A step that records nothing, flags nothing and removes nothing keeps them.
LEMMA SharedUndisturbed ==
    ASSUME Shared, UNCHANGED <<where, uid, flagged, user_flagged, uidnext, copies, imported>>
    PROVE  Shared' /\ Shrinks /\ Keeps
BY DEF Shared, UidsUnique, FlagsSecured, RecordedOnlyIfDelivered, MovedOnlyIfDelivered,
       DeliveredMail, Delivered, Shrinks, Keeps

\* Recording a status other than an import of something undelivered is honest.
LEMMA RecordIsHonest ==
    ASSUME RecordedOnlyIfDelivered, TypeOK, NEW m \in Mail, NEW status \in Status,
           status = "imported" => DeliveredMail(m),
           RecordStatus(m, status), UNCHANGED copies
    PROVE  RecordedOnlyIfDelivered'
<1>1. OwnerOf[HomeOf[m]] \in User /\ KeyOf[m] \in Key
  BY ConstantsAssumption
<1> SUFFICES ASSUME NEW user \in User, NEW k \in Key, imported'[user][k] = "imported"
             PROVE  Delivered(user, k)
  BY DEF RecordedOnlyIfDelivered, Delivered
<1>2. CASE imported[user][k] = "imported"
  BY <1>2 DEF RecordedOnlyIfDelivered
<1>3. CASE imported[user][k] # "imported"
  <2>1. user = OwnerOf[HomeOf[m]] /\ k = KeyOf[m] /\ status = "imported"
    BY <1>1, <1>3 DEF RecordStatus, TypeOK
  <2> QED BY <2>1 DEF DeliveredMail
<1> QED BY <1>2, <1>3

\* An expunge takes flagged messages of one move folder, which are safe.
LEMMA RemoveIsSafe ==
    ASSUME Shared, NEW S, S \subseteq flagged \cap Mail, Remove(S),
           UNCHANGED <<uid, flagged, user_flagged, uidnext, copies, imported>>
    PROVE  Shared' /\ Shrinks /\ Keeps
<1>1. \A m \in Mail : where'[m] = IF m \in S THEN "expunged" ELSE where[m]
  BY DEF Remove
<1>2. UidsUnique' /\ Shrinks /\ Keeps
  BY <1>1 DEF Shared, UidsUnique, Shrinks, Keeps
<1>3. FlagsSecured' /\ RecordedOnlyIfDelivered'
  BY DEF Shared, FlagsSecured, RecordedOnlyIfDelivered, DeliveredMail, Delivered
<1>4. MovedOnlyIfDelivered'
  BY <1>1 DEF Shared, MovedOnlyIfDelivered, FlagsSecured, DeliveredMail, Delivered
<1> QED BY <1>2, <1>3, <1>4 DEF Shared

\* Storing a message adds to what is delivered.
LEMMA StoreIsSafe ==
    ASSUME Shared, TypeOK, NEW m \in Mail, Store(m),
           UNCHANGED <<where, uid, flagged, user_flagged, uidnext>>,
           imported' = imported \/ RecordStatus(m, "failed")
    PROVE  Shared' /\ Shrinks /\ Keeps /\ DeliveredMail(m)'
<1>1. Keeps /\ copies'[m] > 0
  BY StoreType DEF Keeps
<1>2. DeliveredMail(m)'
  BY <1>1 DEF DeliveredMail, Delivered
<1>3. UidsUnique' /\ Shrinks
  BY DEF Shared, UidsUnique, Shrinks
<1>4. FlagsSecured'
  <2> SUFFICES ASSUME NEW n \in (flagged \ user_flagged)'
               PROVE  (HomeOf[n] \in MoveFolders /\ DeliveredMail(n))'
    BY DEF FlagsSecured
  <2>1. n \in Mail /\ HomeOf[n] \in MoveFolders /\ DeliveredMail(n)
    BY DEF Shared, FlagsSecured, TypeOK
  <2> QED BY <1>1, <2>1, DeliveredStays
<1>5. RecordedOnlyIfDelivered'
  <2>1. \A user \in User, k \in Key :
           imported'[user][k] = "imported" => imported[user][k] = "imported"
    <3>1. OwnerOf[HomeOf[m]] \in User /\ KeyOf[m] \in Key
      BY ConstantsAssumption
    <3>2. CASE RecordStatus(m, "failed")
      BY <3>1, <3>2 DEF RecordStatus, TypeOK
    <3> QED BY <3>2
  <2> QED BY <1>1, <2>1, DeliveredStays DEF Shared, RecordedOnlyIfDelivered
<1>6. MovedOnlyIfDelivered'
  <2> SUFFICES ASSUME NEW n \in Mail, (where[n] = "expunged" /\ n \notin user_flagged)'
               PROVE  (HomeOf[n] \in MoveFolders /\ DeliveredMail(n))'
    BY DEF MovedOnlyIfDelivered
  <2>1. HomeOf[n] \in MoveFolders /\ DeliveredMail(n)
    BY DEF Shared, MovedOnlyIfDelivered
  <2> QED BY <1>1, <2>1, DeliveredStays
<1> QED BY <1>1, <1>2, <1>3, <1>4, <1>5, <1>6 DEF Shared

\* What a step of worker w must establish: the shared parts, and w's own.
StepIsSafe(w) ==
    /\ Shared' /\ Shrinks /\ Keeps
    /\ HeldBy(w)' /\ SecuredBy(w)'
    /\ \A v \in Worker \ {w} : pc'[v] = pc[v] /\ job'[v] = job[v]

\* Between two messages a poll holds nothing.
LEMMA NothingHeld ==
    ASSUME NEW w \in Worker, pc'[w] \notin Holding
    PROVE  HeldBy(w)' /\ SecuredBy(w)'
BY DEF HeldBy, SecuredBy, Holding

\* The steps that only prepare or close a poll.
LEMMA QuietSteps ==
    ASSUME TypeOK, Shared, NEW w \in Worker,
           \/ Starts(w) \/ DeriveFloor(w) \/ Sweep(w) \/ SkipSweep(w)
           \/ StartRetries(w) \/ EndRetries(w) \/ Search(w) \/ EndNew(w)
           \/ FetchGone(w) \/ NothingToCount(w) \/ Defer(w) \/ Advance(w) \/ Pin(w)
    PROVE  StepIsSafe(w)
<1> DEFINE Others == \A v \in Worker \ {w} : pc'[v] = pc[v] /\ job'[v] = job[v]
<1>1. /\ UNCHANGED <<where, uid, flagged, user_flagged, uidnext, copies, imported>>
      /\ pc'[w] \notin Holding /\ Others
  <2>1. CASE Starts(w)
    BY <2>1 DEF Starts, Begin, Goto, TypeOK, Holding, server
  <2>2. CASE DeriveFloor(w)
    BY <2>2 DEF DeriveFloor, TypeOK, Holding, server
  <2>3. CASE Sweep(w)
    BY <2>3 DEF Sweep, Goto, TypeOK, Holding, server
  <2>4. CASE SkipSweep(w) \/ EndRetries(w) \/ EndNew(w)
    BY <2>4 DEF SkipSweep, EndRetries, EndNew, Goto, TypeOK, Holding, server, db
  <2>5. CASE StartRetries(w)
    BY <2>5 DEF StartRetries, Goto, TypeOK, Holding, server
  <2>6. CASE Search(w)
    BY <2>6 DEF Search, Goto, TypeOK, Holding, server, db
  <2>7. CASE FetchGone(w)
    BY <2>7 DEF FetchGone, EndPoll, TypeOK, Holding, server, db
  <2>8. CASE NothingToCount(w)
    BY <2>8 DEF NothingToCount, EndPoll, TypeOK, Holding, server, db
  <2>9. CASE Defer(w)
    BY <2>9 DEF Defer, Goto, AfterMessage, TypeOK, Holding, server
  <2>10. CASE Advance(w)
    BY <2>10 DEF Advance, Goto, TypeOK, Holding, server
  <2>11. CASE Pin(w)
    BY <2>11 DEF Pin, EndPoll, TypeOK, Holding, server
  <2> QED BY <2>1, <2>2, <2>3, <2>4, <2>5, <2>6, <2>7, <2>8, <2>9, <2>10, <2>11
<1>2. Shared' /\ Shrinks /\ Keeps
  BY <1>1, SharedUndisturbed
<1>3. HeldBy(w)' /\ SecuredBy(w)'
  BY <1>1, NothingHeld
<1> QED BY <1>1, <1>2, <1>3 DEF StepIsSafe

\* Taking a message: the fetched message is the only one with that UID, and a
\* duplicate is one that Gmail has.
LEMMA TakeSteps ==
    ASSUME TypeOK, Shared, NEW w \in Worker,
           SkipOversize(w) \/ TakeDuplicate(w) \/ TakeMessage(w)
    PROVE  StepIsSafe(w)
<1> USE ConstantsAssumption
<1>1. PICK m \in Candidate(w) :
        /\ Taking(w) /\ job' = Took(w, m)
        /\ \/ \E step \in {"import", "park", "advance"} : pc' = [pc EXCEPT ![w] = step]
           \/ /\ pc' = [pc EXCEPT ![w] = "clear"]
              /\ IsImported(OwnerOf[FolderOf[w]], KeyOf[m])
        /\ UNCHANGED <<server, copies, db>>
  BY DEF SkipOversize, TakeDuplicate, TakeMessage
<1>2. /\ m \in Mail /\ HomeOf[m] = FolderOf[w] /\ where[m] = "here"
      /\ uid[m] = Least(job[w].todo) /\ uid[m] \in Uid
  BY <1>1, TookType
<1>3. /\ job'[w].hand = m /\ job'[w].cur = uid[m]
      /\ \A v \in Worker \ {w} : job'[v] = job[v]
  <2>1. job[w] \in Job
    BY DEF TypeOK
  <2> QED BY <1>1, <1>2, <2>1 DEF Took, TypeOK, Job
<1>4. /\ pc'[w] \in {"import", "park", "advance", "clear"}
      /\ \A v \in Worker \ {w} : pc'[v] = pc[v]
  BY <1>1 DEF TypeOK
<1>5. /\ UNCHANGED <<where, uid, flagged, user_flagged, uidnext, copies, imported>>
  BY <1>1 DEF server, db
<1>6. Shared' /\ Shrinks /\ Keeps
  BY <1>5, SharedUndisturbed
<1>7. HeldBy(w)'
  <2>1. uid[m] < uidnext[FolderOf[w]]
    BY <1>2 DEF Shared, UidsUnique
  <2>2. \A n \in MailAt(FolderOf[w], uid[m]) : n = m
    BY <1>2 DEF Shared, UidsUnique, MailAt, Here
  <2> QED BY <1>2, <1>3, <1>5, <2>1, <2>2 DEF HeldBy, MailAt, Here
<1>8. SecuredBy(w)'
  <2>1. CASE pc'[w] # "clear"
    BY <1>4, <2>1 DEF SecuredBy
  <2>2. CASE pc'[w] = "clear"
    <3>1. IsImported(OwnerOf[FolderOf[w]], KeyOf[m])
      BY <1>1, <2>2 DEF TypeOK
    <3>2. DeliveredMail(m)
      BY <1>2, <3>1 DEF Shared, RecordedOnlyIfDelivered, IsImported, DeliveredMail
    <3>3. DeliveredMail(m)'
      BY <1>2, <1>6, <3>2, DeliveredStays
    <3> QED BY <1>3, <2>2, <3>3 DEF SecuredBy, DeliveredMail, Delivered
  <2> QED BY <2>1, <2>2
<1> QED BY <1>3, <1>4, <1>6, <1>7, <1>8 DEF StepIsSafe

\* Holding on to a message from one step to the next.
LEMMA StillHeld ==
    ASSUME NEW w \in Worker, HeldBy(w), pc[w] \in Holding, Shrinks,
           job'[w].hand = job[w].hand, job'[w].cur = job[w].cur
    PROVE  HeldBy(w)'
BY DEF HeldBy, Shrinks, MailAt, Here

\* From the import to the flag.
LEMMA ImportSteps ==
    ASSUME TypeOK, Shared, NEW w \in Worker, HeldBy(w), SecuredBy(w),
           \/ Import(w) \/ ImportRejected(w) \/ Park(w) \/ CountAttempts(w)
           \/ RecordImport(w) \/ RecordFails(w) \/ ClearRetry(w)
    PROVE  StepIsSafe(w)
<1> USE ConstantsAssumption
<1> DEFINE m == job[w].hand
<1>0. job[w] \in Job
  BY DEF TypeOK
<1>1. /\ pc[w] \in Holding /\ m \in Mail
      /\ job'[w].hand = m /\ job'[w].cur = job[w].cur
      /\ \A v \in Worker \ {w} : pc'[v] = pc[v] /\ job'[v] = job[v]
  <2>1. CASE Import(w)
    BY <1>0, <2>1 DEF Import, Goto, Holding, HeldBy, TypeOK, Job
  <2>2. CASE ImportRejected(w)
    BY <1>0, <2>2 DEF ImportRejected, Goto, Holding, HeldBy, TypeOK, Job
  <2>3. CASE RecordImport(w) \/ RecordFails(w) \/ ClearRetry(w) \/ Park(w)
    BY <2>3 DEF RecordImport, RecordFails, ClearRetry, Park, Goto, Holding, HeldBy, TypeOK
  <2>4. CASE CountAttempts(w)
    BY <1>0, <2>4 DEF CountAttempts, Goto, Holding, HeldBy, TypeOK, Job
  <2> QED BY <2>1, <2>2, <2>3, <2>4
<1>2. CASE Import(w)
  <2>1. Store(m) /\ UNCHANGED <<where, uid, flagged, user_flagged, uidnext, imported>>
    BY <1>2 DEF Import, server, db
  <2> HIDE DEF m
  <2>2. PICK n \in Mail : n = m
    BY <1>1
  <2>3. Shared' /\ Shrinks /\ Keeps /\ DeliveredMail(n)'
    BY <2>1, <2>2, StoreIsSafe
  <2>4. HeldBy(w)'
    BY <1>1, <2>3, StillHeld DEF m
  <2>5. job'[w].hand = n
    BY <1>1, <2>2
  <2>6. pc'[w] = "record"
    BY <1>2 DEF Import, Goto, TypeOK
  <2>7. SecuredBy(w)'
    BY <2>3, <2>5, <2>6 DEF SecuredBy, DeliveredMail, Delivered
  <2> QED BY <1>1, <2>3, <2>4, <2>7 DEF StepIsSafe
<1>3. CASE ImportRejected(w) \/ RecordFails(w)
  <2>1. /\ RecordStatus(m, "failed")
        /\ UNCHANGED <<where, uid, flagged, user_flagged, uidnext>>
        /\ Store(m) \/ UNCHANGED copies
        /\ pc'[w] = "park"
    BY <1>3 DEF ImportRejected, RecordFails, Goto, server, TypeOK
  <2>3. Shared' /\ Shrinks /\ Keeps
    <3>1. CASE Store(m)
      BY <1>1, <2>1, <3>1, StoreIsSafe
    <3>2. CASE UNCHANGED copies
      <4>1. RecordedOnlyIfDelivered'
        BY <1>1, <2>1, <3>2, RecordIsHonest DEF Shared, Status
      <4> QED BY <2>1, <3>2, <4>1 DEF Shared, UidsUnique, FlagsSecured,
                 MovedOnlyIfDelivered, DeliveredMail, Delivered, Shrinks, Keeps
    <3> QED BY <2>1, <3>1, <3>2
  <2>4. SecuredBy(w)'
    BY <2>1 DEF SecuredBy
  <2> QED BY <1>1, <2>3, <2>4, StillHeld DEF StepIsSafe
<1>4. CASE RecordImport(w)
  <2>1. /\ RecordStatus(m, "imported")
        /\ UNCHANGED <<where, uid, flagged, user_flagged, uidnext, copies>>
        /\ pc[w] = "record" /\ pc'[w] = "clear"
    BY <1>4 DEF RecordImport, Goto, server, TypeOK
  <2>2. DeliveredMail(m)
    BY <2>1 DEF SecuredBy
  <2>3. RecordedOnlyIfDelivered'
    BY <1>1, <2>1, <2>2, RecordIsHonest DEF Shared, Status
  <2>4. Shared' /\ Shrinks /\ Keeps
    BY <2>1, <2>3 DEF Shared, UidsUnique, FlagsSecured, MovedOnlyIfDelivered,
                      DeliveredMail, Delivered, Shrinks, Keeps
  <2>5. SecuredBy(w)'
    BY <1>1, <2>1, <2>2 DEF SecuredBy, DeliveredMail, Delivered
  <2> QED BY <1>1, <2>4, <2>5, StillHeld DEF StepIsSafe
<1>5. CASE ClearRetry(w)
  <2>1. /\ UNCHANGED <<where, uid, flagged, user_flagged, uidnext, copies, imported>>
        /\ pc[w] = "clear"
        /\ pc'[w] = IF Moves(w) THEN "flag" ELSE AfterMessage(w)
    BY <1>5 DEF ClearRetry, Goto, server, TypeOK
  <2>2. Shared' /\ Shrinks /\ Keeps
    BY <2>1, SharedUndisturbed
  <2>3. SecuredBy(w)'
    BY <1>1, <2>1 DEF SecuredBy, AfterMessage, Moves, DeliveredMail, Delivered
  <2> QED BY <1>1, <2>2, <2>3, StillHeld DEF StepIsSafe
<1>6. CASE Park(w) \/ CountAttempts(w)
  <2>1. /\ UNCHANGED <<where, uid, flagged, user_flagged, uidnext, copies, imported>>
        /\ pc'[w] \in {"count", "defer"}
    BY <1>6 DEF Park, CountAttempts, Goto, server, db, TypeOK
  <2>2. Shared' /\ Shrinks /\ Keeps
    BY <2>1, SharedUndisturbed
  <2>3. SecuredBy(w)'
    BY <2>1 DEF SecuredBy
  <2> QED BY <1>1, <2>2, <2>3, StillHeld DEF StepIsSafe
<1> QED BY <1>2, <1>3, <1>4, <1>5, <1>6

\* Flagging and expunging.
LEMMA RemovalSteps ==
    ASSUME TypeOK, Shared, NEW w \in Worker, HeldBy(w), SecuredBy(w),
           MarkDeleted(w) \/ Expunge(w) \/ Finish(w)
    PROVE  StepIsSafe(w)
<1> USE ConstantsAssumption
<1>1. CASE MarkDeleted(w)
  <2> DEFINE m == job[w].hand
  <2>1. /\ UNCHANGED <<where, uid, user_flagged, uidnext, copies, imported, job>>
        /\ flagged' = flagged \cup MailAt(FolderOf[w], job[w].cur)
        /\ pc[w] = "flag" /\ pc'[w] = "expunge"
        /\ \A v \in Worker \ {w} : pc'[v] = pc[v]
    BY <1>1 DEF MarkDeleted, Goto, db, TypeOK
  <2>2. /\ DeliveredMail(m) /\ FolderOf[w] \in MoveFolders
        /\ m \in Mail /\ HomeOf[m] = FolderOf[w]
        /\ \A n \in MailAt(FolderOf[w], job[w].cur) : n = m
    BY <2>1 DEF SecuredBy, HeldBy, Holding, Moves
  <2>3. FlagsSecured'
    BY <2>1, <2>2 DEF Shared, FlagsSecured, DeliveredMail, Delivered
  <2>4. Shared' /\ Shrinks /\ Keeps
    BY <2>1, <2>3 DEF Shared, UidsUnique, RecordedOnlyIfDelivered, MovedOnlyIfDelivered,
                      DeliveredMail, Delivered, Shrinks, Keeps
  <2>5. HeldBy(w)'
    BY <2>1, <2>4, StillHeld DEF Holding
  <2>6. SecuredBy(w)'
    BY <2>1, <2>2 DEF SecuredBy, Moves, DeliveredMail, Delivered
  <2> QED BY <2>1, <2>4, <2>5, <2>6 DEF StepIsSafe
<1>2. CASE Expunge(w)
  <2>1. PICK S : /\ S \subseteq flagged \cap Mail
                 /\ Remove(S)
    <3> DEFINE S == flagged \cap IF FolderOf[w] \in UidPlusFolders
                                 THEN MailAt(FolderOf[w], job[w].cur)
                                 ELSE Here(FolderOf[w])
    <3>1. S \subseteq flagged \cap Mail /\ Remove(S)
      BY <1>2 DEF Expunge, TypeOK
    <3> QED BY <3>1
  <2>2. /\ UNCHANGED <<uid, flagged, user_flagged, uidnext, copies, imported>>
        /\ pc'[w] \notin Holding
        /\ \A v \in Worker \ {w} : pc'[v] = pc[v] /\ job'[v] = job[v]
    BY <1>2 DEF Expunge, Goto, AfterMessage, Holding, db, TypeOK
  <2> QED BY <2>1, <2>2, RemoveIsSafe, NothingHeld DEF StepIsSafe
<1>3. CASE Finish(w)
  <2>1. /\ UNCHANGED <<uid, flagged, user_flagged, uidnext, copies, imported>>
        /\ pc'[w] \notin Holding
        /\ \A v \in Worker \ {w} : pc'[v] = pc[v] /\ job'[v] = job[v]
    BY <1>3 DEF Finish, EndPoll, Holding, db, TypeOK
  <2>2. Shared' /\ Shrinks /\ Keeps
    <3>1. CASE UNCHANGED where
      BY <2>1, <3>1, SharedUndisturbed
    <3>2. CASE Remove(flagged \cap Here(FolderOf[w]))
      BY <2>1, <3>2, RemoveIsSafe DEF Here
    <3> QED BY <1>3, <3>1, <3>2 DEF Finish
  <2> QED BY <2>1, <2>2, NothingHeld DEF StepIsSafe
<1> QED BY <1>1, <1>2, <1>3

\* A poll that fails leaves nothing unsafe behind.
LEMMA FailSteps ==
    ASSUME TypeOK, Shared, NEW w \in Worker, HeldBy(w), SecuredBy(w), Fail(w)
    PROVE  StepIsSafe(w)
<1> USE ConstantsAssumption
<1>1. CASE ImportTransient(w)
  <2>1. /\ job[w].hand \in Mail /\ pc[w] = "import" /\ pc[w] \in Holding
        /\ UNCHANGED <<where, uid, flagged, user_flagged, uidnext, imported>>
        /\ UNCHANGED copies \/ Store(job[w].hand)
    BY <1>1 DEF ImportTransient, HeldBy, Holding, server, db
  <2>2. Shared' /\ Shrinks /\ Keeps
    BY <2>1, SharedUndisturbed, StoreIsSafe
  <2>3. /\ HeldBy(w)' /\ SecuredBy(w)'
        /\ \A v \in Worker \ {w} : pc'[v] = pc[v] /\ job'[v] = job[v]
    <3>1. CASE job[w].tries + 1 < ImportAttempts
      <4>1. job[w] \in Job
        BY DEF TypeOK
      <4>2. /\ pc' = pc /\ job'[w].hand = job[w].hand /\ job'[w].cur = job[w].cur
            /\ \A v \in Worker \ {w} : job'[v] = job[v]
        BY <1>1, <3>1, <4>1 DEF ImportTransient, TypeOK, Job
      <4>3. HeldBy(w)'
        BY <2>1, <2>2, <4>2, StillHeld
      <4> QED BY <2>1, <4>2, <4>3 DEF SecuredBy
    <3>2. CASE ~(job[w].tries + 1 < ImportAttempts)
      <4>1. EndPoll(w)
        BY <1>1, <3>2 DEF ImportTransient
      <4>2. pc'[w] \notin Holding
        BY <4>1 DEF EndPoll, Holding, TypeOK
      <4> QED BY <4>1, <4>2, NothingHeld DEF EndPoll, TypeOK
    <3> QED BY <3>1, <3>2
  <2> QED BY <2>2, <2>3 DEF StepIsSafe
<1>2. CASE Abort(w)
  <2>1. /\ UNCHANGED <<where, uid, user_flagged, uidnext, copies, imported>>
        /\ flagged' \subseteq flagged
        /\ pc'[w] \notin Holding
        /\ \A v \in Worker \ {w} : pc'[v] = pc[v] /\ job'[v] = job[v]
    BY <1>2 DEF Abort, EndPoll, Holding, db, TypeOK
  <2>2. Shared' /\ Shrinks /\ Keeps
    BY <2>1 DEF Shared, UidsUnique, FlagsSecured, RecordedOnlyIfDelivered,
                MovedOnlyIfDelivered, DeliveredMail, Delivered, Shrinks, Keeps
  <2> QED BY <2>1, <2>2, NothingHeld DEF StepIsSafe
<1> QED BY <1>1, <1>2 DEF Fail

\* What everybody else does, new mail and a rebuilt mailbox included, is safe.
LEMMA EnvironmentIsSafe ==
    ASSUME IInv, Environment
    PROVE  Shared' /\ Held' /\ Secured'
<1> USE ConstantsAssumption
<1>0. /\ TypeOK /\ Shared /\ Keeps /\ UNCHANGED <<copies, imported, pc, job>>
      /\ \A w \in Worker : HeldBy(w) /\ SecuredBy(w)
  BY DEF IInv, Shared, Held, Secured, Environment, Keeps, Arrive, UserDeletes,
         UserFlags, Rebuild, SweepInterval, Requeue, RetryDelay, HandQueue, db
<1>1. Secured'
  BY <1>0 DEF Secured, SecuredBy, DeliveredMail, Delivered, Moves
<1>2. ASSUME NEW m \in Mail, Arrive(m) PROVE Shared' /\ Held'
  <2>1. /\ where[m] = "pending"
        /\ where' = [where EXCEPT ![m] = "here"]
        /\ uid' = [uid EXCEPT ![m] = uidnext[HomeOf[m]]]
        /\ uidnext' = [uidnext EXCEPT ![HomeOf[m]] = uidnext[HomeOf[m]] + 1]
        /\ UNCHANGED <<flagged, user_flagged>>
    BY <1>2 DEF Arrive
  <2>2. \A f \in Folder : uidnext[f] \in Nat /\ uidnext[f] <= uidnext'[f]
    BY <1>0, <2>1 DEF TypeOK
  <2>3. UidsUnique'
    <3>1. \A n \in Mail : where'[n] = "here" => uid'[n] < uidnext'[HomeOf[n]]
      BY <1>0, <2>1, <2>2 DEF Shared, UidsUnique, TypeOK
    <3>2. ASSUME NEW n \in Mail, NEW o \in Mail, n # o,
                 where'[n] = "here", where'[o] = "here", HomeOf[n] = HomeOf[o]
          PROVE  uid'[n] # uid'[o]
      <4>1. CASE n # m /\ o # m
        BY <1>0, <2>1, <3>2, <4>1 DEF Shared, UidsUnique, TypeOK
      <4>2. CASE n = m \/ o = m
        BY <1>0, <2>1, <2>2, <3>2, <4>2 DEF Shared, UidsUnique, TypeOK
      <4> QED BY <4>1, <4>2
    <3> QED BY <3>1, <3>2 DEF UidsUnique
  <2>4. FlagsSecured' /\ RecordedOnlyIfDelivered' /\ MovedOnlyIfDelivered'
    BY <1>0, <2>1 DEF Shared, FlagsSecured, RecordedOnlyIfDelivered,
                      MovedOnlyIfDelivered, DeliveredMail, Delivered, TypeOK
  <2>5. ASSUME NEW w \in Worker PROVE HeldBy(w)'
    <3>1. ASSUME pc[w] \in Holding
          PROVE  /\ job[w].cur \in Uid /\ job[w].cur < uidnext'[FolderOf[w]]
                 /\ \A n \in Mail : /\ where'[n] = "here" /\ HomeOf[n] = FolderOf[w]
                                    /\ uid'[n] = job[w].cur
                                    => n = job[w].hand
      <4>1. /\ job[w].cur \in Uid /\ job[w].cur < uidnext[FolderOf[w]]
            /\ \A n \in MailAt(FolderOf[w], job[w].cur) : n = job[w].hand
        BY <1>0, <3>1 DEF HeldBy
      <4>2. \A n \in Mail : HomeOf[n] = FolderOf[w] /\ uid'[n] = job[w].cur => n # m
        BY <2>1, <2>2, <4>1, <1>0 DEF TypeOK, Uid
      <4> QED BY <1>0, <2>1, <2>2, <4>1, <4>2 DEF MailAt, Here, TypeOK, Uid
    <3> QED BY <1>0, <2>1, <3>1 DEF HeldBy, MailAt, Here, TypeOK
  <2> QED BY <2>3, <2>4, <2>5 DEF Shared, Held
<1>3. ASSUME NEW m \in Mail, UserDeletes(m) PROVE Shared' /\ Held'
  <2>1. /\ where' = [where EXCEPT ![m] = "deleted"]
        /\ UNCHANGED <<uid, flagged, user_flagged, uidnext>>
    BY <1>3 DEF UserDeletes
  <2>2. Shared'
    BY <1>0, <2>1 DEF Shared, UidsUnique, FlagsSecured, RecordedOnlyIfDelivered,
                      MovedOnlyIfDelivered, DeliveredMail, Delivered, TypeOK
  <2>3. Shrinks
    BY <1>0, <2>1 DEF Shrinks, TypeOK
  <2> QED BY <1>0, <2>2, <2>3, Undisturbed DEF Held
<1>4. ASSUME NEW m \in Mail, UserFlags(m) PROVE Shared' /\ Held'
  <2>1. /\ flagged' = flagged \cup {m} /\ user_flagged' = user_flagged \cup {m}
        /\ UNCHANGED <<where, uid, uidnext>>
    BY <1>4 DEF UserFlags
  <2>2. Shared' /\ Shrinks
    BY <1>0, <2>1 DEF Shared, UidsUnique, FlagsSecured, RecordedOnlyIfDelivered,
                      MovedOnlyIfDelivered, DeliveredMail, Delivered, Shrinks
  <2> QED BY <1>0, <2>2, Undisturbed DEF Held
<1>5. ASSUME NEW f \in Folder, Rebuild(f) PROVE Shared' /\ Held'
  <2>1. PICK u \in [Here(f) -> Uid], top \in 0..MaxUid :
          /\ \A m, n \in Here(f) : uid[m] < uid[n] => u[m] < u[n]
          /\ \A m \in Here(f) : u[m] <= top
          /\ uid' = [m \in Mail |-> IF m \in Here(f) THEN u[m] ELSE uid[m]]
          /\ uidnext' = [uidnext EXCEPT ![f] = top + 1]
    BY <1>5 DEF Rebuild
  <2>2. UNCHANGED <<where, flagged, user_flagged>>
    BY <1>5 DEF Rebuild
  <2>3. \A w \in Worker : FolderOf[w] = f => pc[w] \notin Holding
    BY <1>5 DEF Rebuild, Holding
  <2>4. UidsUnique'
    <3>1. \A n \in Mail : where'[n] = "here" => uid'[n] < uidnext'[HomeOf[n]]
      <4>1. \A n \in Here(f) : u[n] \in Nat /\ u[n] < top + 1
        BY <2>1 DEF Uid
      <4> QED BY <1>0, <2>1, <2>2, <4>1 DEF Shared, UidsUnique, TypeOK, Here
    <3>2. ASSUME NEW n \in Mail, NEW o \in Mail, n # o,
                 where'[n] = "here", where'[o] = "here", HomeOf[n] = HomeOf[o]
          PROVE  uid'[n] # uid'[o]
      <4>1. uid[n] \in Uid /\ uid[o] \in Uid /\ uid[n] # uid[o]
        BY <1>0, <2>2, <3>2 DEF Shared, UidsUnique, TypeOK
      <4>2. CASE HomeOf[n] = f
        <5>1. n \in Here(f) /\ o \in Here(f)
          BY <2>2, <3>2, <4>2 DEF Here
        <5>2. u[n] < u[o] \/ u[o] < u[n]
          BY <2>1, <4>1, <5>1 DEF Uid
        <5>3. u[n] \in Nat /\ u[o] \in Nat
          BY <2>1, <5>1 DEF Uid
        <5> QED BY <2>1, <5>1, <5>2, <5>3
      <4>3. CASE HomeOf[n] # f
        BY <2>1, <3>2, <4>1, <4>3 DEF Here
      <4> QED BY <4>2, <4>3
    <3> QED BY <3>1, <3>2 DEF UidsUnique
  <2>5. FlagsSecured' /\ RecordedOnlyIfDelivered' /\ MovedOnlyIfDelivered'
    BY <1>0, <2>2 DEF Shared, FlagsSecured, RecordedOnlyIfDelivered,
                      MovedOnlyIfDelivered, DeliveredMail, Delivered
  <2>6. ASSUME NEW w \in Worker, FolderOf[w] # f PROVE HeldBy(w)'
    <3>1. /\ uidnext'[FolderOf[w]] = uidnext[FolderOf[w]]
          /\ \A n \in Mail : HomeOf[n] = FolderOf[w] => uid'[n] = uid[n]
      BY <1>0, <2>1, <2>6 DEF TypeOK, Here
    <3> QED BY <1>0, <2>2, <3>1 DEF HeldBy, MailAt, Here
  <2>7. \A w \in Worker : HeldBy(w)'
    BY <1>0, <2>3, <2>6 DEF HeldBy
  <2> QED BY <2>4, <2>5, <2>7 DEF Shared, Held
<1>6. ASSUME UNCHANGED server PROVE Shared' /\ Held'
  BY <1>0, <1>6, SharedUndisturbed, Undisturbed DEF server, Held
<1>7. \/ \E m \in Mail : Arrive(m) \/ UserDeletes(m) \/ UserFlags(m)
      \/ \E f \in Folder : Rebuild(f)
      \/ UNCHANGED server
  BY DEF Environment, SweepInterval, Requeue, RetryDelay, HandQueue
<1> QED BY <1>1, <1>2, <1>3, <1>4, <1>5, <1>6, <1>7

\* The installation starts safe: nothing imported, flagged or expunged.
LEMMA InitIsSafe == Init => IInv
<1> SUFFICES ASSUME Init PROVE IInv
  OBVIOUS
<1> USE ConstantsAssumption
<1>1. TypeOK
  BY InitType
<1>2. UidsUnique
  <2>1. \A m \in Mail : where[m] = "here" => m \in Initial /\ uid[m] = InitialUid[m]
    BY DEF Init
  <2>2. \A m \in Mail : where[m] = "here" => uid[m] < uidnext[HomeOf[m]]
    <3> SUFFICES ASSUME NEW m \in Mail, where[m] = "here"
                 PROVE  uid[m] < uidnext[HomeOf[m]]
      OBVIOUS
    <3> DEFINE S == UidsOf(Here(HomeOf[m]))
    <3>1. HomeOf[m] \in Folder /\ uid[m] \in S /\ S \in SUBSET (0..MaxUid)
      BY <1>1 DEF UidsOf, Here, TypeOK
    <3>2. uid[m] <= GreatestOr0(S) /\ GreatestOr0(S) \in 0..MaxUid
      BY <3>1, GreatestIsGreatest
    <3>3. uidnext[HomeOf[m]] = GreatestOr0(S) + 1
      BY <3>1 DEF Init
    <3> QED BY <3>1, <3>2, <3>3
  <2> QED BY <2>1, <2>2 DEF UidsUnique
<1>3. Held /\ Secured
  BY DEF Init, Held, Secured, HeldBy, SecuredBy, Holding
<1>4. FlagsSecured /\ RecordedOnlyIfDelivered /\ MovedOnlyIfDelivered
  BY DEF Init, FlagsSecured, RecordedOnlyIfDelivered, MovedOnlyIfDelivered
<1> QED BY <1>1, <1>2, <1>3, <1>4 DEF IInv

\* A safe step of one worker keeps the whole invariant.
LEMMA WorkerKeepsInvariant ==
    ASSUME IInv, NEW w \in Worker, StepIsSafe(w), TypeOK'
    PROVE  IInv'
<1>1. ASSUME NEW v \in Worker \ {w} PROVE HeldBy(v)' /\ SecuredBy(v)'
  BY <1>1, Undisturbed DEF IInv, Held, Secured, StepIsSafe
<1>2. Held' /\ Secured'
  BY <1>1 DEF Held, Secured, StepIsSafe
<1> QED BY <1>2 DEF IInv, StepIsSafe, Shared

\* Every step keeps the invariant.
LEMMA StepKeepsInvariant == IInv /\ [Next]_vars => IInv'
<1> SUFFICES ASSUME IInv, [Next]_vars PROVE IInv'
  OBVIOUS
<1>0. TypeOK /\ Shared /\ Held /\ Secured
  BY DEF IInv, Shared
<1>1. ASSUME NEW w \in Worker, Poll(w) PROVE IInv'
  <2>1. TypeOK'
    BY <1>0, <1>1, PollType
  <2>2. HeldBy(w) /\ SecuredBy(w)
    BY <1>0 DEF Held, Secured
  <2>3. StepIsSafe(w)
    BY <1>0, <1>1, <2>2, QuietSteps, TakeSteps, ImportSteps, RemovalSteps DEF Poll
  <2> QED BY <2>1, <2>3, WorkerKeepsInvariant
<1>2. ASSUME NEW w \in Worker, Fail(w) PROVE IInv'
  <2>1. TypeOK' /\ StepIsSafe(w)
    BY <1>0, <1>2, FailType, FailSteps DEF Held, Secured
  <2> QED BY <2>1, WorkerKeepsInvariant
<1>3. CASE Environment
  BY <1>0, <1>3, EnvironmentType, EnvironmentIsSafe DEF IInv, Shared
<1>4. CASE UNCHANGED vars
  BY <1>0, <1>4 DEF vars, IInv, TypeOK, UidsUnique, Held, HeldBy, Secured, SecuredBy,
     Moves, FlagsSecured, RecordedOnlyIfDelivered, MovedOnlyIfDelivered,
     DeliveredMail, Delivered, MailAt, Here
<1> QED BY <1>1, <1>2, <1>3, <1>4 DEF Next

\* The invariant holds in every reachable state.
THEOREM Invariant == Spec => []IInv
BY InitIsSafe, StepKeepsInvariant, PTL DEF Spec

\* Type correctness of FolderSync: no run of any size leaves the types.
THEOREM TypeCorrect == Spec => []TypeOK
<1>1. IInv => TypeOK
  BY DEF IInv
<1> QED BY <1>1, Invariant, PTL

\* A message leaves a move source only after the user's Gmail holds it, for any
\* number of folders and pollers, whatever fails.
THEOREM MoveIsSafe == Spec => []MovedOnlyIfDelivered
<1>1. IInv => MovedOnlyIfDelivered
  BY DEF IInv
<1> QED BY <1>1, Invariant, PTL

\* The dedupe table never claims a message that did not reach Gmail.
THEOREM RecordIsTrue == Spec => []RecordedOnlyIfDelivered
<1>1. IInv => RecordedOnlyIfDelivered
  BY DEF IInv
<1> QED BY <1>1, Invariant, PTL

-----------------------------------------------------------------------------
(***************************************************************************)
(* The retry queue.                                                        *)
(***************************************************************************)
\* INSERT OR IGNORE keeps the rows that are there.
LEMMA QueueRetryKeeps ==
    ASSUME TypeOK, NEW f \in Folder, NEW u \in Uid, Queued(f, u),
           NEW g \in Folder, NEW uv, NEW S, QueueRetry(g, uv, S)
    PROVE  Queued(f, u)'
BY DEF TypeOK, QueueRetry, Queued

\* Clearing rows keeps the others.
LEMMA ClearRetriesKeeps ==
    ASSUME TypeOK, NEW f \in Folder, NEW u \in Uid, Queued(f, u),
           NEW g \in Folder, NEW S, ClearRetries(g, S), g # f \/ u \notin S
    PROVE  Queued(f, u)'
BY DEF TypeOK, ClearRetries, Queued

\* A deferred or given-up row stays.
LEMMA DeferralKeeps ==
    ASSUME TypeOK, NEW f \in Folder, NEW u \in Uid, Queued(f, u),
           NEW g \in Folder, NEW v, NEW uv, NEW read, NEW large,
           RecordRetryFailure(g, uv, v, read, large)
    PROVE  Queued(f, u)'
BY DEF TypeOK, RecordRetryFailure, Queued

\* The queue of a step that does not touch it.
LEMMA QueueUnchanged ==
    ASSUME NEW f, NEW u, Queued(f, u), UNCHANGED retry_queue
    PROVE  Queued(f, u)'
BY DEF Queued

\* The steps of a poll that do not write to the retry queue.
LEMMA WorkerLeavesQueue ==
    ASSUME NEW w \in Worker,
           \/ DeriveFloor(w) \/ SkipSweep(w) \/ EndRetries(w) \/ Search(w)
           \/ EndNew(w) \/ FetchGone(w) \/ SkipOversize(w) \/ TakeDuplicate(w)
           \/ TakeMessage(w) \/ Import(w) \/ ImportRejected(w) \/ CountAttempts(w)
           \/ NothingToCount(w) \/ RecordImport(w) \/ RecordFails(w)
           \/ MarkDeleted(w) \/ Expunge(w)
           \/ Advance(w) \/ Finish(w) \/ Pin(w) \/ Fail(w)
    PROVE  UNCHANGED retry_queue
<1>1. CASE \/ DeriveFloor(w) \/ SkipSweep(w) \/ EndRetries(w) \/ Search(w)
           \/ EndNew(w) \/ FetchGone(w) \/ SkipOversize(w)
  BY <1>1 DEF DeriveFloor, SkipSweep, EndRetries, Search, EndNew, FetchGone,
     SkipOversize, db
<1>2. CASE \/ TakeDuplicate(w) \/ TakeMessage(w) \/ Import(w) \/ ImportRejected(w)
           \/ CountAttempts(w) \/ NothingToCount(w) \/ Fail(w)
  BY <1>2 DEF TakeDuplicate, TakeMessage, Import, ImportRejected, CountAttempts,
     NothingToCount, Fail, ImportTransient, Abort, db
<1>3. CASE \/ RecordImport(w) \/ RecordFails(w) \/ MarkDeleted(w) \/ Expunge(w)
           \/ Advance(w) \/ Finish(w) \/ Pin(w)
  BY <1>3 DEF RecordImport, RecordFails, MarkDeleted, Expunge, Advance, Finish, Pin, db
<1> QED BY <1>1, <1>2, <1>3

\* A poll takes a message off the queue when it is delivered, or gone.
LEMMA WorkerKeepsQueue ==
    ASSUME IInv, NEW w \in Worker, Poll(w) \/ Fail(w),
           NEW m \in Mail, NEW f \in Folder, NEW u \in Uid,
           f = HomeOf[m], u = uid[m], where[m] = "here",
           Queued(f, u), retry_queue[f][u].uidvalidity = uidvalidity[f]
    PROVE  Queued(f, u)' \/ DeliveredMail(m)
<1> DEFINE g == FolderOf[w]
<1>0. TypeOK /\ g \in Folder /\ job[w].cur \in 0..MaxUid
  BY ConstantsAssumption DEF IInv, TypeOK, Job
<1>1. m \in MailAt(f, u)
  BY DEF MailAt, Here
<1>2. CASE Starts(w)
  <2> DEFINE stale == {v \in Uid : retry_queue[g][v].uidvalidity # uidvalidity[g]}
  <2>1. ClearRetries(g, stale)
    BY <1>2 DEF Starts, Begin, DropStaleRetries
  <2>2. g # f \/ u \notin stale
    OBVIOUS
  <2> QED BY <1>0, <2>1, <2>2, ClearRetriesKeeps
<1>3. CASE Sweep(w)
  <2>1. PICK S : QueueRetry(g, job[w].uidvalidity, S)
    BY <1>3 DEF Sweep
  <2> QED BY <1>0, <2>1, QueueRetryKeeps
<1>4. CASE Park(w)
  <2>1. PICK S : QueueRetry(g, job[w].uidvalidity, S)
    BY <1>4 DEF Park
  <2> QED BY <1>0, <2>1, QueueRetryKeeps
<1>5. CASE StartRetries(w)
  <2> DEFINE due == DueRetries(g)
             present == {v \in due : MailAt(g, v) # {}}
  <2>1. ClearRetries(g, due \ present)
    BY <1>5 DEF StartRetries
  <2>2. g # f \/ u \notin due \ present
    BY <1>1
  <2> QED BY <1>0, <2>1, <2>2, ClearRetriesKeeps
<1>6. CASE ClearRetry(w)
  <2>1. ClearRetries(g, {job[w].cur}) /\ pc[w] = "clear"
    BY <1>6 DEF ClearRetry, Goto
  <2>2. CASE g = f /\ u = job[w].cur
    <3>1. HeldBy(w) /\ SecuredBy(w)
      BY DEF IInv, Held, Secured
    <3>2. m = job[w].hand
      BY <1>1, <2>1, <2>2, <3>1 DEF HeldBy, Holding
    <3>3. DeliveredMail(job[w].hand)
      BY <2>1, <3>1 DEF SecuredBy
    <3> QED BY <3>2, <3>3
  <2>3. CASE g # f \/ u # job[w].cur
    BY <1>0, <2>1, <2>3, ClearRetriesKeeps
  <2> QED BY <2>2, <2>3
<1>7. CASE Defer(w)
  <2> DEFINE uv == job[w].uidvalidity
             read == job[w].attempts
             large == job[w].hand \in Oversize
  <2>1. RecordRetryFailure(g, uv, job[w].cur, read, large)
    BY <1>7 DEF Defer
  <2> QED BY <1>0, <2>1, DeferralKeeps
<1>8. CASE \/ DeriveFloor(w) \/ SkipSweep(w) \/ EndRetries(w) \/ Search(w)
           \/ EndNew(w) \/ FetchGone(w) \/ SkipOversize(w) \/ TakeDuplicate(w)
           \/ TakeMessage(w) \/ Import(w) \/ ImportRejected(w) \/ CountAttempts(w)
           \/ NothingToCount(w) \/ RecordImport(w) \/ RecordFails(w)
           \/ MarkDeleted(w) \/ Expunge(w)
           \/ Advance(w) \/ Finish(w) \/ Pin(w) \/ Fail(w)
  <2>1. UNCHANGED retry_queue
    BY <1>8, WorkerLeavesQueue
  <2> QED BY <2>1, QueueUnchanged
<1> QED BY <1>2, <1>3, <1>4, <1>5, <1>6, <1>7, <1>8 DEF Poll

\* Nobody else takes a message off the queue.
LEMMA EnvironmentKeepsQueue ==
    ASSUME TypeOK, Environment, NEW f \in Folder, NEW u \in Uid, Queued(f, u)
    PROVE  Queued(f, u)'
<1>1. CASE \E m \in Mail : Arrive(m) \/ UserDeletes(m) \/ UserFlags(m)
  BY <1>1, QueueUnchanged DEF Arrive, UserDeletes, UserFlags, db
<1>2. ASSUME NEW g \in Folder, Rebuild(g) \/ SweepInterval(g)
      PROVE  Queued(f, u)'
  BY <1>2, QueueUnchanged DEF Rebuild, SweepInterval, db
<1> DEFINE due(g, v) == [retry_queue[g][v] EXCEPT !.attempts = 0, !.next = "due"]
<1>0. /\ retry_queue \in [Folder -> [Uid -> RetryEntry]]
      /\ retry_queue[f][u].next # "none"
  BY DEF TypeOK, Queued
<1>3. ASSUME NEW g \in Folder, Requeue(g) PROVE Queued(f, u)'
  <2>1. retry_queue' = [retry_queue EXCEPT ![g] = [v \in Uid |->
           IF Queued(g, v) THEN due(g, v) ELSE retry_queue[g][v]]]
    BY <1>0, <1>3 DEF Requeue
  <2>2. retry_queue'[f][u] = due(f, u) \/ retry_queue'[f][u] = retry_queue[f][u]
    BY <1>0, <2>1
  <2>3. due(f, u).next = "due"
    BY <1>0 DEF RetryEntry
  <2> QED BY <1>0, <2>2, <2>3 DEF Queued
<1>4. ASSUME NEW g \in Folder, NEW v \in Uid, RetryDelay(g, v) PROVE Queued(f, u)'
  BY <1>0, <1>4 DEF RetryDelay, Queued, RetryEntry
<1>5. ASSUME NEW g \in Folder, NEW v \in Uid, HandQueue(g, v) PROVE Queued(f, u)'
  <2>1. PICK uv : retry_queue' = [retry_queue EXCEPT
            ![g][v] = [uidvalidity |-> uv, attempts |-> 0, next |-> "due"]]
    BY <1>5 DEF HandQueue
  <2> QED BY <1>0, <2>1 DEF Queued
<1> QED BY <1>1, <1>2, <1>3, <1>4, <1>5 DEF Environment

\* No step takes a message that still waits off the queue.
LEMMA StepKeepsQueue ==
    ASSUME IInv, [Next]_vars, NEW m \in Mail, NEW f \in Folder, NEW u \in Uid,
           f = HomeOf[m], u = uid[m], where[m] = "here",
           Queued(f, u), retry_queue[f][u].uidvalidity = uidvalidity[f]
    PROVE  Queued(f, u)' \/ DeliveredMail(m)
<1>1. ASSUME NEW w \in Worker, Poll(w) \/ Fail(w)
      PROVE  Queued(f, u)' \/ DeliveredMail(m)
  BY <1>1, WorkerKeepsQueue
<1>2. CASE Environment
  BY <1>2, EnvironmentKeepsQueue DEF IInv
<1>3. CASE UNCHANGED vars
  BY <1>3, QueueUnchanged DEF vars
<1> QED BY <1>1, <1>2, <1>3 DEF Next

\* record_retry_failure, clear_retry, drop_stale_retries and requeue: no step of
\* any poller, crash or administrator takes a message that still waits off the
\* retry queue, for any number of pollers.
THEOREM QueueIsKept == Spec => QueuedUntilDelivered
<1> DEFINE Kept ==
        \A m \in Mail :
          LET f == HomeOf[m] IN
          /\ where[m] = "here" /\ where'[m] = "here"
          /\ uidvalidity'[f] = uidvalidity[f]
          /\ Queued(f, uid[m]) /\ retry_queue[f][uid[m]].uidvalidity = uidvalidity[f]
          => retry_queue'[f][uid[m]].next # "none" \/ DeliveredMail(m)
<1>1. IInv /\ [Next]_vars => Kept
  <2> SUFFICES ASSUME IInv, [Next]_vars, NEW m \in Mail, where[m] = "here",
                      Queued(HomeOf[m], uid[m]),
                      retry_queue[HomeOf[m]][uid[m]].uidvalidity
                          = uidvalidity[HomeOf[m]]
               PROVE  retry_queue'[HomeOf[m]][uid[m]].next # "none"
                         \/ DeliveredMail(m)
    OBVIOUS
  <2>1. HomeOf[m] \in Folder /\ uid[m] \in Uid
    BY ConstantsAssumption DEF IInv, TypeOK
  <2> QED BY <2>1, StepKeepsQueue DEF Queued
<1> QED BY <1>1, Invariant, PTL DEF Spec, QueuedUntilDelivered

-----------------------------------------------------------------------------
(***************************************************************************)
(* FolderSync implements MailMove.                                         *)
(***************************************************************************)
\* A delivered message is one whose identity Gmail holds.
LEMMA DeliveredIsHeld ==
    ASSUME NEW m \in Mail, DeliveredMail(m)
    PROVE  IdentOf[m] \in DeliveredNow
<1>1. PICK n \in Mail : /\ OwnerOf[HomeOf[n]] = OwnerOf[HomeOf[m]]
                        /\ KeyOf[n] = KeyOf[m] /\ copies[n] > 0
  BY DEF DeliveredMail, Delivered
<1> QED BY <1>1 DEF IdentOf, DeliveredNow

\* An installation starts as a mailbox and an empty Gmail.
LEMMA InitIsPromised == Init => Promise!MailInit
<1> SUFFICES ASSUME Init PROVE Promise!MailInit
  OBVIOUS
<1>1. PlaceNow = where /\ where \in [Mail -> {"pending", "here"}]
  BY DEF Init, PlaceNow
<1>2. DeliveredNow = {}
  BY DEF Init, DeliveredNow
<1> QED BY <1>1, <1>2 DEF Promise!MailInit

\* A step that moves no message and stores none is invisible.
LEMMA Invisible ==
    ASSUME UNCHANGED <<where, user_flagged, copies>>
    PROVE  UNCHANGED Promise!mailVars
BY DEF Promise!mailVars, PlaceNow, DeliveredNow

\* Storing a message that arrived delivers its identity.
LEMMA StoreDelivers ==
    ASSUME TypeOK, NEW m \in Mail, where[m] # "pending", Store(m),
           UNCHANGED <<where, user_flagged>>
    PROVE  Promise!MailNext
<1>1. \A n \in Mail : copies'[n] > 0 <=> n = m \/ copies[n] > 0
  <2>1. \A n \in Mail \ {m} : copies'[n] = copies[n]
    BY DEF Store, TypeOK
  <2> QED BY <2>1, StoreType
<1>2. DeliveredNow' = DeliveredNow \cup {IdentOf[m]}
  BY <1>1 DEF DeliveredNow, IdentOf
<1>3. PlaceNow[m] # "pending" /\ PlaceNow' = PlaceNow
  BY DEF PlaceNow
<1>4. Promise!Deliver(m)
  BY <1>2, <1>3 DEF Promise!Deliver
<1> QED BY <1>4 DEF Promise!MailNext

\* An expunge takes out delivered messages, and those of the mailbox's owner.
LEMMA RemoveTakesOut ==
    ASSUME TypeOK, FlagsSecured, NEW f \in Folder, NEW S \in SUBSET (flagged \cap Here(f)),
           Remove(S), UNCHANGED <<user_flagged, copies>>
    PROVE  Promise!MailNext
<1> DEFINE D == S \ user_flagged
           T == S \cap user_flagged
           M == {m \in Mail : HomeOf[m] \in MoveFolders}
<1>1. D \in SUBSET Mail /\ T \in SUBSET Mail
  BY DEF Here
<1>2. \A m \in D \cup T : PlaceNow[m] = "here"
  BY DEF PlaceNow, Here
<1>3. \A m \in D : m \in M /\ IdentOf[m] \in DeliveredNow
  BY <1>1, DeliveredIsHeld DEF FlagsSecured
<1>4. PlaceNow' = [m \in Mail |-> IF m \in D THEN "moved"
                                  ELSE IF m \in T THEN "removed"
                                  ELSE PlaceNow[m]]
  BY DEF Remove, PlaceNow
<1>5. DeliveredNow' = DeliveredNow
  BY DEF DeliveredNow
<1>6. Promise!TakeOut(D, T)
  BY <1>2, <1>3, <1>4, <1>5 DEF Promise!TakeOut
<1> QED BY <1>1, <1>6 DEF Promise!MailNext

\* Every step of a poll that fails or succeeds is a step of the promise.
LEMMA WorkerKeepsPromise ==
    ASSUME IInv, NEW w \in Worker, Poll(w) \/ Fail(w)
    PROVE  [Promise!MailNext]_(Promise!mailVars)
<1> USE ConstantsAssumption
<1>0. TypeOK /\ FlagsSecured /\ HeldBy(w) /\ FolderOf[w] \in Folder
  BY DEF IInv, Held
<1>1. CASE Import(w) \/ ImportTransient(w) \/ ImportRejected(w)
  <2>1. /\ job[w].hand \in Mail /\ where[job[w].hand] # "pending"
        /\ UNCHANGED <<where, user_flagged>>
        /\ Store(job[w].hand) \/ UNCHANGED copies
    BY <1>0, <1>1 DEF Import, ImportTransient, ImportRejected, Goto, HeldBy,
       Holding, server
  <2> QED BY <1>0, <2>1, StoreDelivers, Invisible
<1>2. CASE Expunge(w)
  <2> DEFINE S == flagged \cap IF FolderOf[w] \in UidPlusFolders
                               THEN MailAt(FolderOf[w], job[w].cur)
                               ELSE Here(FolderOf[w])
  <2>1. Remove(S) /\ UNCHANGED <<user_flagged, copies>>
    BY <1>2 DEF Expunge
  <2>2. S \in SUBSET (flagged \cap Here(FolderOf[w]))
    BY DEF MailAt
  <2> QED BY <1>0, <2>1, <2>2, RemoveTakesOut
<1>3. CASE Finish(w)
  <2>1. /\ Remove(flagged \cap Here(FolderOf[w])) \/ UNCHANGED where
        /\ UNCHANGED <<user_flagged, copies>>
    BY <1>3 DEF Finish
  <2> QED BY <1>0, <2>1, RemoveTakesOut, Invisible
<1>4. CASE \/ Starts(w) \/ DeriveFloor(w) \/ Sweep(w) \/ SkipSweep(w)
           \/ StartRetries(w) \/ EndRetries(w) \/ Search(w) \/ EndNew(w)
           \/ FetchGone(w) \/ SkipOversize(w) \/ TakeDuplicate(w) \/ TakeMessage(w)
           \/ Park(w) \/ CountAttempts(w) \/ NothingToCount(w) \/ Defer(w)
           \/ RecordImport(w) \/ RecordFails(w) \/ ClearRetry(w)
           \/ MarkDeleted(w) \/ Advance(w) \/ Pin(w) \/ Abort(w)
  <2>1. UNCHANGED <<where, user_flagged, copies>>
    BY <1>4 DEF Starts, Begin, DeriveFloor, Sweep, SkipSweep, StartRetries, EndRetries,
       Search, EndNew, FetchGone, SkipOversize, TakeDuplicate, TakeMessage,
       Park, CountAttempts, NothingToCount, Defer, RecordImport, RecordFails,
       ClearRetry, MarkDeleted, Advance, Pin, Abort, server, db
  <2> QED BY <2>1, Invisible
<1> QED BY <1>1, <1>2, <1>3, <1>4 DEF Poll, Fail

\* So is what the senders, the owner of the mailbox and its server do.
LEMMA EnvironmentKeepsPromise ==
    ASSUME IInv, Environment
    PROVE  [Promise!MailNext]_(Promise!mailVars)
<1>0. TypeOK
  BY DEF IInv
<1>1. ASSUME NEW m \in Mail, Arrive(m) PROVE Promise!MailNext
  <2>1. /\ where[m] = "pending" /\ where' = [where EXCEPT ![m] = "here"]
        /\ UNCHANGED <<user_flagged, copies>>
    BY <1>1 DEF Arrive
  <2>2. PlaceNow[m] = "pending" /\ PlaceNow' = [PlaceNow EXCEPT ![m] = "here"]
    BY <1>0, <2>1 DEF PlaceNow, TypeOK
  <2>3. DeliveredNow' = DeliveredNow
    BY <2>1 DEF DeliveredNow
  <2>4. Promise!Appear(m)
    BY <2>2, <2>3 DEF Promise!Appear
  <2> QED BY <2>4 DEF Promise!MailNext
<1>2. ASSUME NEW m \in Mail, UserDeletes(m) PROVE Promise!MailNext
  <2>1. /\ where[m] = "here" /\ where' = [where EXCEPT ![m] = "deleted"]
        /\ UNCHANGED <<user_flagged, copies>>
    BY <1>2 DEF UserDeletes
  <2>2. /\ PlaceNow[m] = "here"
        /\ PlaceNow' = [n \in Mail |-> IF n \in {} THEN "moved"
                                       ELSE IF n \in {m} THEN "removed"
                                       ELSE PlaceNow[n]]
    BY <1>0, <2>1 DEF PlaceNow, TypeOK
  <2>3. DeliveredNow' = DeliveredNow
    BY <2>1 DEF DeliveredNow
  <2>4. Promise!TakeOut({}, {m})
    BY <2>2, <2>3 DEF Promise!TakeOut
  <2> QED BY <2>4 DEF Promise!MailNext
<1>3. ASSUME NEW m \in Mail, UserFlags(m) PROVE UNCHANGED Promise!mailVars
  <2>1. /\ where[m] = "here" /\ user_flagged' = user_flagged \cup {m}
        /\ UNCHANGED <<where, copies>>
    BY <1>3 DEF UserFlags
  <2>2. PlaceNow' = PlaceNow /\ DeliveredNow' = DeliveredNow
    BY <2>1 DEF PlaceNow, DeliveredNow
  <2> QED BY <2>2 DEF Promise!mailVars
<1>4. \/ \E m \in Mail : Arrive(m) \/ UserDeletes(m) \/ UserFlags(m)
      \/ UNCHANGED <<where, user_flagged, copies>>
  BY DEF Environment, Rebuild, SweepInterval, Requeue, RetryDelay, HandQueue, server
<1> QED BY <1>1, <1>2, <1>3, <1>4, Invisible

\* A folder sync keeps the promise of MailMove: every run of it is one in which
\* messages arrive, are delivered, and leave a move source once delivered.
THEOREM SyncKeepsPromise == Spec => KeepsPromise
<1>1. IInv /\ [Next]_vars => [Promise!MailNext]_(Promise!mailVars)
  <2> SUFFICES ASSUME IInv, [Next]_vars
               PROVE  [Promise!MailNext]_(Promise!mailVars)
    OBVIOUS
  <2>1. CASE UNCHANGED vars
    BY <2>1, Invisible DEF vars
  <2>2. CASE Next
    BY <2>2, WorkerKeepsPromise, EnvironmentKeepsPromise DEF Next
  <2> QED BY <2>1, <2>2
<1> QED BY <1>1, InitIsPromised, Invariant, PTL DEF Spec, KeepsPromise, Promise!MailSpec
=============================================================================
