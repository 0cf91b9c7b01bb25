----------------------------- MODULE FolderSync -----------------------------
(***************************************************************************)
(* Polls of IMAP folders into Gmail: src/gmailification/sync.py            *)
(* (_sync_folder) with the tables of state.py it works on, the IMAP server *)
(* it reads and the Gmail account it fills.                                *)
(*                                                                         *)
(* A Folder stands for one (source_key, folder) pair, the key of the       *)
(* folder_state and retry_queue tables.  A Worker is a thread that polls   *)
(* one folder; two workers of one folder are the service and a concurrent  *)
(* `--once' run.  Every step of a worker is one call that another actor    *)
(* can observe or race with: a database transaction, an IMAP command, a    *)
(* Gmail import.                                                           *)
(***************************************************************************)
EXTENDS Integers

CONSTANTS
    User, Folder, Worker, Mail, Key,
    OwnerOf,           \* OwnerOf[f]: the user a folder's source belongs to
    FolderOf,          \* FolderOf[w]: the folder a worker polls
    HomeOf,            \* HomeOf[m]: the folder a message arrives in
    KeyOf,             \* KeyOf[m]: its dedupe key (util.dedupe_key)
    Initial,           \* messages in their folder before the service starts
    Early,             \* of these, the ones that arrived before the set-up day
    Oversize,          \* messages fetch_raw refuses (over MAX_MESSAGE_BYTES)
    MoveFolders,       \* after_import: delete
    BackfillFolders,   \* backfill_days > 0
    LegacyFolders,     \* perhaps polled before by a version before 0.8
    UidPlusFolders,    \* the server has UID EXPUNGE
    ForgetfulFolders,  \* the server forgets an unexpunged \Deleted flag
    Faults,            \* which external faults happen (see Fault)
    Manual,            \* UIDs an administrator may hand-queue (--retry)
    Cap,               \* per-cycle message budget, NoCap when unlimited
    ImportAttempts,    \* attempts of util.retry
    MaxRetryAttempts,  \* state.MAX_RETRY_ATTEMPTS
    InitialUid,        \* InitialUid[m]: the UID of a message of Initial
    NoMail,            \* no message fetched yet
    MaxUid,            \* bound: UIDs a folder hands out
    MaxRebuilds,       \* bound: UIDVALIDITY changes of a folder
    MaxCopies          \* bound: copies of a message Gmail is counted to hold

NoCap == -1
NoFloor == -1
Uid == 1..MaxUid
Fault == {"abort", "transient", "lost_ack", "reject", "locked", "user_delete",
          "user_flag", "requeue"}

ASSUME ConstantsAssumption ==
    /\ OwnerOf \in [Folder -> User]
    /\ FolderOf \in [Worker -> Folder]
    /\ HomeOf \in [Mail -> Folder]
    /\ KeyOf \in [Mail -> Key]
    /\ Early \subseteq Initial /\ Initial \subseteq Mail
    /\ InitialUid \in [Initial -> Uid]
    /\ \A m, n \in Initial :
         m # n /\ HomeOf[m] = HomeOf[n] =>
            /\ InitialUid[m] # InitialUid[n]
            /\ m \in Early /\ n \notin Early => InitialUid[m] < InitialUid[n]
    /\ LegacyFolders \subseteq MoveFolders
    /\ NoMail \notin Mail
    /\ Manual \subseteq Uid /\ Faults \subseteq Fault
    /\ Cap \in Nat \cup {NoCap}
    /\ MaxUid \in Nat /\ MaxRebuilds \in Nat
    /\ ImportAttempts \in Nat \ {0} /\ MaxRetryAttempts \in Nat \ {0}
    /\ MaxCopies \in Nat \ {0}

VARIABLES
    \* the IMAP server
    where,         \* where[m]: pending, here, expunged, deleted (by its owner)
    uid,           \* uid[m]: UID of a message that is here
    flagged,       \* messages carrying \Deleted
    user_flagged,  \* messages the owner of the mailbox flagged \Deleted
    uidnext, uidvalidity,
    fresh,         \* messages whose INTERNALDATE is after watch_since
    \* Gmail
    copies,        \* copies[m]: how often Gmail stored m
    \* state.py: the SQLite tables
    imported,      \* imported_messages: imported[user][key]
    folder_state,
    retry_queue,   \* retry_queue[f][u]
    \* the workers
    pc, job

server == <<where, uid, flagged, user_flagged, uidnext, uidvalidity, fresh>>
db == <<imported, folder_state, retry_queue>>
vars == <<where, uid, flagged, user_flagged, uidnext, uidvalidity, fresh,
          copies, imported, folder_state, retry_queue, pc, job>>
-----------------------------------------------------------------------------
(***************************************************************************)
(* The rows of the database.  Times are kept as the question the code asks *)
(* of them: is the sweep due, is the retry due, was it given up (NULL).    *)
(***************************************************************************)
Status == {"none", "imported", "failed"}

FolderState == [known : BOOLEAN, uidvalidity : Nat, last_uid : 0..MaxUid,
                watch_from_uid : {NoFloor} \cup (0..MaxUid), sweep_due : BOOLEAN]
NoState == [known |-> FALSE, uidvalidity |-> 0, last_uid |-> 0,
            watch_from_uid |-> NoFloor, sweep_due |-> FALSE]

RetryEntry == [uidvalidity : Nat, attempts : 0..MaxRetryAttempts,
               next : {"none", "due", "waiting", "gave_up"}]
NoEntry == [uidvalidity |-> 0, attempts |-> 0, next |-> "none"]

Step == {"idle", "sweep", "due", "retry", "search", "new", "import", "record",
         "park", "count", "defer", "clear", "flag", "expunge", "advance",
         "finish", "pin"}

\* A poll's local variables: STATUS and the state row read at its start, the
\* UIDs still to handle, the one being handled, the message fetched for it, and
\* the attempts read from its row of the retry queue.
Job == [uidvalidity : Nat, top : 0..MaxUid, state : FolderState,
        todo : SUBSET Uid, retrying : BOOLEAN, cur : 0..MaxUid,
        hand : Mail \cup {NoMail}, left : Nat \cup {NoCap}, found : BOOLEAN,
        deleted : BOOLEAN, tries : 0..ImportAttempts,
        attempts : 0..MaxRetryAttempts]

NewJob(uv, top, state, left) ==
    [uidvalidity |-> uv, top |-> top, state |-> state, todo |-> {},
     retrying |-> FALSE, cur |-> 0, hand |-> NoMail, left |-> left,
     found |-> FALSE, deleted |-> FALSE, tries |-> 0, attempts |-> 0]

NoJob == NewJob(0, 0, NoState, Cap)

Here(f) == {m \in Mail : where[m] = "here" /\ HomeOf[m] = f}
MailAt(f, u) == {m \in Here(f) : uid[m] = u}
UidsOf(S) == {uid[m] : m \in S}
Delivered(user, key) ==
    \E m \in Mail : /\ OwnerOf[HomeOf[m]] = user
                    /\ KeyOf[m] = key
                    /\ copies[m] > 0
DeliveredMail(m) == Delivered(OwnerOf[HomeOf[m]], KeyOf[m])

Least(S) == CHOOSE u \in S : \A v \in S : u <= v
GreatestOr0(S) == IF S = {} THEN 0 ELSE CHOOSE u \in S : \A v \in S : v <= u
-----------------------------------------------------------------------------
\* state.py operations, each one transaction.

SetFolderState(f, uv, u) ==
    folder_state' = [folder_state EXCEPT ![f] =
        IF @.known THEN [@ EXCEPT !.uidvalidity = uv, !.last_uid = u]
        ELSE [known |-> TRUE, uidvalidity |-> uv, last_uid |-> u,
              watch_from_uid |-> u, sweep_due |-> TRUE]]

\* Mutant: a recorded failure counts as delivered.
IsRecorded(user, key) == imported[user][key] # "none"

IsImported(user, key) == imported[user][key] = "imported"

RecordStatus(m, status) ==
    LET user == OwnerOf[HomeOf[m]] IN
    imported' = [imported EXCEPT ![user][KeyOf[m]] =
                    IF @ = "imported" THEN @ ELSE status]

Queued(f, u) == retry_queue[f][u].next # "none"

\* Mutant: INSERT OR REPLACE instead of INSERT OR IGNORE.
ReplaceRetry(f, uv, S) ==
    retry_queue' = [retry_queue EXCEPT ![f] = [u \in Uid |->
        IF u \in S THEN [uidvalidity |-> uv, attempts |-> 0, next |-> "due"]
        ELSE @[u]]]

\* INSERT OR IGNORE: rows that exist, given-up ones included, are kept.
QueueRetry(f, uv, S) ==
    retry_queue' = [retry_queue EXCEPT ![f] = [u \in Uid |->
        IF u \in S /\ @[u].next = "none"
        THEN [uidvalidity |-> uv, attempts |-> 0, next |-> "due"]
        ELSE @[u]]]

\* The UPDATE that ends record_retry_failure, from the attempts it read before;
\* it changes nothing if the row is gone.
RecordRetryFailure(f, uv, u, attempts_read, give_up) ==
    LET attempts == IF attempts_read < MaxRetryAttempts
                    THEN attempts_read + 1 ELSE MaxRetryAttempts
        done == give_up \/ attempts >= MaxRetryAttempts
    IN retry_queue' = [retry_queue EXCEPT ![f][u] =
            IF @.next = "none" THEN @
            ELSE [uidvalidity |-> uv, attempts |-> attempts,
                  next |-> IF done THEN "gave_up" ELSE "waiting"]]

ClearRetries(f, S) ==
    retry_queue' = [retry_queue EXCEPT ![f] =
        [u \in Uid |-> IF u \in S THEN NoEntry ELSE @[u]]]

DropStaleRetries(f, uv) ==
    ClearRetries(f, {u \in Uid : retry_queue[f][u].uidvalidity # uv})

DueRetries(f) == {u \in Uid : retry_queue[f][u].next = "due"}
-----------------------------------------------------------------------------
(***************************************************************************)
(* Initial states: an installation that starts on mailboxes with mail in   *)
(* them.  A legacy folder may have been polled by a version that wrote no  *)
(* watch_from_uid; what arrived since it was set up may have been left     *)
(* behind its cursor.                                                      *)
(***************************************************************************)
Init ==
    /\ where = [m \in Mail |-> IF m \in Initial THEN "here" ELSE "pending"]
    /\ uid = [m \in Mail |-> IF m \in Initial THEN InitialUid[m] ELSE 0]
    /\ uidnext = [f \in Folder |-> GreatestOr0(UidsOf(Here(f))) + 1]
    /\ uidvalidity = [f \in Folder |-> 1]
    /\ flagged = {} /\ user_flagged = {}
    /\ copies = [m \in Mail |-> 0]
    /\ imported = [user \in User |-> [k \in Key |-> "none"]]
    /\ \E old \in SUBSET LegacyFolders,
          first \in [Folder -> 1..MaxUid + 1], last \in [Folder -> 0..MaxUid] :
         /\ \A f \in Folder :
              IF f \in old
              THEN /\ first[f] - 1 <= last[f] /\ last[f] < uidnext[f]
                   /\ \A m \in Early : HomeOf[m] = f => uid[m] < first[f]
              ELSE first[f] = MaxUid + 1 /\ last[f] = 0
         /\ fresh = {m \in Initial : uid[m] >= first[HomeOf[m]]}
         /\ folder_state = [f \in Folder |->
               IF f \in old
               THEN [known |-> TRUE, uidvalidity |-> 1, last_uid |-> last[f],
                     watch_from_uid |-> NoFloor, sweep_due |-> TRUE]
               ELSE NoState]
    /\ retry_queue = [f \in Folder |-> [u \in Uid |-> NoEntry]]
    /\ pc = [w \in Worker |-> "idle"]
    /\ job = [w \in Worker |-> NoJob]
-----------------------------------------------------------------------------
(***************************************************************************)
(* One poll of a folder: _sync_folder, step by step.                       *)
(***************************************************************************)
Goto(w, from, to) == pc[w] = from /\ pc' = [pc EXCEPT ![w] = to]
\* The session is over, its local variables are gone.
EndPoll(w) == /\ pc' = [pc EXCEPT ![w] = "idle"]
              /\ job' = [job EXCEPT ![w] = NoJob]
Moves(w) == FolderOf[w] \in MoveFolders
\* Mutant: a retried message moves the cursor as well.
AlwaysAdvance(w) == "advance"

AfterMessage(w) == IF job[w].retrying THEN "retry" ELSE "advance"

\* What the folders before this one have left of the cap of the poll.
Budget == IF Cap = NoCap THEN {NoCap} ELSE 0..Cap

\* STATUS, get_folder_state, SELECT and drop_stale_retries.
Begin(w, left) ==
    LET f == FolderOf[w] IN
    /\ Goto(w, "idle", "sweep")
    /\ job' = [job EXCEPT ![w] =
                  NewJob(uidvalidity[f], uidnext[f] - 1, folder_state[f], left)]
    /\ DropStaleRetries(f, uidvalidity[f])
    /\ UNCHANGED <<server, copies, imported, folder_state>>

SweepDue(w) == /\ Moves(w)
               /\ job[w].state.known
               /\ job[w].state.uidvalidity = job[w].uidvalidity
               /\ job[w].state.sweep_due

\* uids_received_since(watch_since, lo, hi): SINCE has day granularity, so it
\* also returns what arrived on the set-up day before the set-up.
ReceivedSince(f, lo, hi) ==
    {u \in lo..hi : \E m \in MailAt(f, u) : m \notin Early}

\* Mutant: an old folder is watched from its present cursor on.
FloorAtCursor(w) ==
    LET floor == job[w].state.last_uid IN
    /\ pc[w] = "sweep" /\ SweepDue(w)
    /\ job[w].state.watch_from_uid = NoFloor
    /\ job' = [job EXCEPT ![w].state.watch_from_uid = floor]
    /\ folder_state' = [folder_state EXCEPT ![FolderOf[w]].watch_from_uid = floor]
    /\ UNCHANGED <<server, copies, imported, retry_queue, pc>>

\* Mutant: the floor is derived from the day of the set-up alone.
FloorFromDay(w) ==
    LET f == FolderOf[w]
        candidates == ReceivedSince(f, 1, job[w].state.last_uid)
        floor == IF candidates = {} THEN 0 ELSE Least(candidates) - 1
    IN /\ pc[w] = "sweep" /\ SweepDue(w)
       /\ job[w].state.watch_from_uid = NoFloor
       /\ job' = [job EXCEPT ![w].state.watch_from_uid = floor]
       /\ folder_state' = [folder_state EXCEPT ![f].watch_from_uid = floor]
       /\ UNCHANGED <<server, copies, imported, retry_queue, pc>>

\* Folders from before v0.8 derive their floor once from arrival times.
DeriveFloor(w) ==
    LET f == FolderOf[w]
        candidates == ReceivedSince(f, 1, job[w].state.last_uid)
        older == {u \in candidates : \E m \in MailAt(f, u) : m \notin fresh}
        floor == IF candidates # {} /\ older = {} THEN Least(candidates) - 1
                                                  ELSE GreatestOr0(older)
    IN /\ pc[w] = "sweep" /\ SweepDue(w)
       /\ job[w].state.watch_from_uid = NoFloor
       /\ job' = [job EXCEPT ![w].state.watch_from_uid = floor]
       /\ folder_state' = [folder_state EXCEPT ![f].watch_from_uid = floor]
       /\ UNCHANGED <<server, copies, imported, retry_queue, pc>>

\* Mutant: the sweep forgets the floor and trusts the day of the set-up.
SweepWithoutFloor(w) ==
    LET f == FolderOf[w] IN
    /\ Goto(w, "sweep", "due")
    /\ SweepDue(w)
    /\ QueueRetry(f, job[w].uidvalidity, ReceivedSince(f, 1, job[w].state.last_uid))
    /\ folder_state' = [folder_state EXCEPT ![f].sweep_due = FALSE]
    /\ UNCHANGED <<server, copies, imported, job>>

\* Everything still in the folder between the floor and the cursor is a
\* leftover: queue it, then mark_swept.
Sweep(w) ==
    LET f == FolderOf[w]
        state == job[w].state
    IN /\ Goto(w, "sweep", "due")
       /\ SweepDue(w)
       /\ state.watch_from_uid # NoFloor
       /\ QueueRetry(f, job[w].uidvalidity,
                     ReceivedSince(f, state.watch_from_uid + 1, state.last_uid))
       /\ folder_state' = [folder_state EXCEPT ![f].sweep_due = FALSE]
       /\ UNCHANGED <<server, copies, imported, job>>

SkipSweep(w) ==
    /\ Goto(w, "sweep", "due")
    /\ ~SweepDue(w)
    /\ UNCHANGED <<server, copies, db, job>>

\* Mutant: the due messages are taken off the queue to be retried.
TakeOffQueue(w) ==
    LET f == FolderOf[w] IN
    /\ Goto(w, "due", "retry")
    /\ ClearRetries(f, DueRetries(f))
    /\ job' = [job EXCEPT ![w].todo = {u \in DueRetries(f) : MailAt(f, u) # {}},
                          ![w].retrying = TRUE]
    /\ UNCHANGED <<server, copies, imported, folder_state>>

\* due_retries, existing_uids, and clear_retry of the ones that are gone.
StartRetries(w) ==
    LET f == FolderOf[w]
        due == DueRetries(f)
        present == {u \in due : MailAt(f, u) # {}}
    IN /\ Goto(w, "due", "retry")
       /\ ClearRetries(f, due \ present)
       /\ job' = [job EXCEPT ![w].todo = present, ![w].retrying = TRUE]
       /\ UNCHANGED <<server, copies, imported, folder_state>>

\* within_budget is checked before every message.
WithinBudget(w) == job[w].left # 0
\* Mutant: no cap is counted down like a cap.
SpentAlways(left) == left - 1

Spent(left) == IF left = NoCap THEN NoCap ELSE left - 1
Exhausted(w) == job[w].todo = {} \/ ~WithinBudget(w)

EndRetries(w) ==
    /\ Goto(w, "retry", "search")
    /\ Exhausted(w)
    /\ UNCHANGED <<server, copies, db, job>>

\* What SEARCH SINCE <backfill_days ago> may return: the newest messages; a
\* first run reaches back at least to the day of the set-up.
BackfillWindow(f, first_run) ==
    {{u \in UidsOf(Here(f)) : u >= lo} :
        lo \in {l \in 1..MaxUid + 1 :
                  first_run => \A m \in Here(f) \ Early : uid[m] >= l}}

\* Mutant: the first run imports what it finds.
EverythingNew(w) == {{u \in UidsOf(Here(FolderOf[w])) : u > job[w].state.last_uid}}

NewUids(w) ==
    LET f == FolderOf[w]
        state == job[w].state
    IN IF state.known /\ state.uidvalidity = job[w].uidvalidity
       THEN {{u \in UidsOf(Here(f)) : u > state.last_uid}}
       ELSE IF f \in BackfillFolders THEN BackfillWindow(f, ~state.known)
       ELSE IF state.known THEN {UidsOf(Here(f))}
       ELSE {{}}

Search(w) ==
    /\ Goto(w, "search", "new")
    /\ \E uids \in NewUids(w) :
         job' = [job EXCEPT ![w].todo = uids, ![w].found = (uids # {}),
                            ![w].retrying = FALSE]
    /\ UNCHANGED <<server, copies, db>>

EndNew(w) ==
    /\ Goto(w, "new", "finish")
    /\ Exhausted(w)
    /\ UNCHANGED <<server, copies, db, job>>
-----------------------------------------------------------------------------
(***************************************************************************)
(* handle(uid, retrying), from the fetch of the lowest UID of the list to  *)
(* the cursor update that follows a new message.  A message is read and    *)
(* looked up in one step: its content never changes, and what matters is   *)
(* the gap between the lookup and the import.                              *)
(***************************************************************************)
Taking(w) == /\ pc[w] \in {"retry", "new"}
             /\ ~Exhausted(w)

\* The job record once message m (NoMail: none) at the lowest UID is in hand.
Took(w, m) ==
    LET u == Least(job[w].todo) IN
    [job EXCEPT ![w].todo = @ \ {u}, ![w].cur = u, ![w].hand = m,
                ![w].left = Spent(@), ![w].tries = 0]

Candidate(w) == MailAt(FolderOf[w], Least(job[w].todo))

\* The message vanished since the SEARCH: the FETCH has no data to parse, and the
\* exception (a TypeError at imap_source.py:300, as a rule) ends the poll.
FetchGone(w) ==
    /\ Taking(w)
    /\ Candidate(w) = {}
    /\ EndPoll(w)
    /\ UNCHANGED <<server, copies, db>>

\* Nothing a retry can fix: a retry of it is counted as the last one.
SkipOversize(w) ==
    /\ Taking(w)
    /\ \E m \in Candidate(w) \cap Oversize :
          /\ job' = Took(w, m)
          /\ pc' = [pc EXCEPT ![w] = IF job[w].retrying THEN "park" ELSE "advance"]
          /\ UNCHANGED <<server, copies, db>>

TakeDuplicate(w) ==
    /\ Taking(w)
    /\ \E m \in Candidate(w) \ Oversize :
          /\ IsImported(OwnerOf[FolderOf[w]], KeyOf[m])
          /\ job' = Took(w, m)
          /\ pc' = [pc EXCEPT ![w] = "clear"]
          /\ UNCHANGED <<server, copies, db>>

\* Mutant: a retry does not consult the dedupe table.
RetryWithoutLookup(w) ==
    /\ Taking(w)
    /\ \E m \in Candidate(w) \ Oversize :
          /\ job[w].retrying \/ ~IsImported(OwnerOf[FolderOf[w]], KeyOf[m])
          /\ job' = Took(w, m)
          /\ pc' = [pc EXCEPT ![w] = "import"]
          /\ UNCHANGED <<server, copies, db>>

\* Mutant: the import is recorded before it is made.
RecordThenImport(w) ==
    /\ Taking(w)
    /\ \E m \in Candidate(w) \ Oversize :
          /\ ~IsImported(OwnerOf[FolderOf[w]], KeyOf[m])
          /\ RecordStatus(m, "imported")
          /\ job' = Took(w, m)
          /\ pc' = [pc EXCEPT ![w] = "import"]
          /\ UNCHANGED <<server, copies, folder_state, retry_queue>>

TakeMessage(w) ==
    /\ Taking(w)
    /\ \E m \in Candidate(w) \ Oversize :
          /\ ~IsImported(OwnerOf[FolderOf[w]], KeyOf[m])
          /\ job' = Took(w, m)
          /\ pc' = [pc EXCEPT ![w] = "import"]
          /\ UNCHANGED <<server, copies, db>>

Store(m) == copies' = [copies EXCEPT ![m] = IF @ < MaxCopies THEN @ + 1 ELSE @]

Import(w) ==
    /\ Goto(w, "import", "record")
    /\ Store(job[w].hand)
    /\ job' = [job EXCEPT ![w].tries = 0]
    /\ UNCHANGED <<server, db>>

\* A 429, a 5xx or a network error: Gmail may have stored the message and only
\* its answer was lost.  util.retry tries again, then the poll fails.
ImportTransient(w) ==
    /\ pc[w] = "import"
    /\ \/ "transient" \in Faults /\ UNCHANGED copies
       \/ "lost_ack" \in Faults /\ Store(job[w].hand)
    /\ IF job[w].tries + 1 < ImportAttempts
       THEN /\ job' = [job EXCEPT ![w].tries = @ + 1]
            /\ UNCHANGED pc
       ELSE EndPoll(w)
    /\ UNCHANGED <<server, db>>

\* Any other error, before or after Gmail stored the message: a permanent
\* failure is recorded for the key ...
ImportRejected(w) ==
    /\ "reject" \in Faults
    /\ Goto(w, "import", "park")
    /\ \/ UNCHANGED copies
       \/ "lost_ack" \in Faults /\ Store(job[w].hand)
    /\ RecordStatus(job[w].hand, "failed")
    /\ job' = [job EXCEPT ![w].tries = 0]
    /\ UNCHANGED <<server, folder_state, retry_queue>>

\* ... and record_retry_failure queues the UID, unless it is queued already, ...
Park(w) ==
    /\ Goto(w, "park", "count")
    /\ QueueRetry(FolderOf[w], job[w].uidvalidity, {job[w].cur})
    /\ UNCHANGED <<server, copies, imported, folder_state, job>>

\* ... reads the attempts of its row, in a statement of its own, ...
CountAttempts(w) ==
    LET entry == retry_queue[FolderOf[w]][job[w].cur] IN
    /\ Goto(w, "count", "defer")
    /\ Queued(FolderOf[w], job[w].cur)
    /\ job' = [job EXCEPT ![w].attempts = entry.attempts]
    /\ UNCHANGED <<server, copies, db>>

\* (another poller delivered it and cleared the row: the error ends the poll)
NothingToCount(w) ==
    /\ pc[w] = "count"
    /\ ~Queued(FolderOf[w], job[w].cur)
    /\ EndPoll(w)
    /\ UNCHANGED <<server, copies, db>>

\* ... and schedules its next attempt, or gives it up.
Defer(w) ==
    /\ Goto(w, "defer", AfterMessage(w))
    /\ RecordRetryFailure(FolderOf[w], job[w].uidvalidity, job[w].cur,
                          job[w].attempts, job[w].hand \in Oversize)
    /\ job' = [job EXCEPT ![w].attempts = 0]
    /\ UNCHANGED <<server, copies, imported, folder_state>>

RecordImport(w) ==
    /\ Goto(w, "record", "clear")
    /\ RecordStatus(job[w].hand, "imported")
    /\ UNCHANGED <<server, copies, folder_state, retry_queue, job>>

\* record_import is in the same try: a database that stays locked (or a full
\* disk) makes a failed import of one that was made.
RecordFails(w) ==
    /\ "locked" \in Faults
    /\ Goto(w, "record", "park")
    /\ RecordStatus(job[w].hand, "failed")
    /\ UNCHANGED <<server, copies, folder_state, retry_queue, job>>

ClearRetry(w) ==
    /\ Goto(w, "clear", IF Moves(w) THEN "flag" ELSE AfterMessage(w))
    /\ ClearRetries(FolderOf[w], {job[w].cur})
    /\ UNCHANGED <<server, copies, imported, folder_state, job>>

MarkDeleted(w) ==
    /\ Goto(w, "flag", "expunge")
    /\ flagged' = flagged \cup MailAt(FolderOf[w], job[w].cur)
    /\ UNCHANGED <<where, uid, user_flagged, uidnext, uidvalidity, fresh,
                   copies, db, job>>

Remove(S) == where' = [m \in Mail |-> IF m \in S THEN "expunged" ELSE where[m]]

\* UID EXPUNGE of one message, or else a plain EXPUNGE of every flagged one.
Expunge(w) ==
    LET f == FolderOf[w] IN
    /\ Goto(w, "expunge", AfterMessage(w))
    /\ Remove(flagged \cap IF f \in UidPlusFolders THEN MailAt(f, job[w].cur)
                                                   ELSE Here(f))
    /\ job' = [job EXCEPT ![w].deleted = TRUE]
    /\ UNCHANGED <<uid, flagged, user_flagged, uidnext, uidvalidity, fresh,
                   copies, db>>

Advance(w) ==
    /\ Goto(w, "advance", "new")
    /\ SetFolderState(FolderOf[w], job[w].uidvalidity, job[w].cur)
    /\ UNCHANGED <<server, copies, imported, retry_queue, job>>

\* Mutant: the cursor is pinned when the cap was used up, too.
FinishAndPin(w) ==
    LET f == FolderOf[w] IN
    /\ Goto(w, "finish", "pin") /\ UNCHANGED job
    /\ IF Moves(w) /\ ~job[w].deleted THEN Remove(flagged \cap Here(f)) ELSE UNCHANGED where
    /\ UNCHANGED <<uid, flagged, user_flagged, uidnext, uidvalidity, fresh,
                   copies, db>>

\* A pass that deleted nothing expunges what an earlier one left flagged.
Finish(w) ==
    LET f == FolderOf[w] IN
    /\ pc[w] = "finish"
    /\ IF job[w].found
       THEN EndPoll(w)
       ELSE pc' = [pc EXCEPT ![w] = "pin"] /\ UNCHANGED job
    /\ IF Moves(w) /\ ~job[w].deleted
       THEN Remove(flagged \cap Here(f))
       ELSE UNCHANGED where
    /\ UNCHANGED <<uid, flagged, user_flagged, uidnext, uidvalidity, fresh,
                   copies, db>>

\* Mutant: the cursor is pinned to the top of the mailbox at the end of the
\* poll, not at its start.
PinToLatest(w) ==
    /\ pc[w] = "pin"
    /\ EndPoll(w)
    /\ SetFolderState(FolderOf[w], job[w].uidvalidity, uidnext[FolderOf[w]] - 1)
    /\ UNCHANGED <<server, copies, imported, retry_queue>>

\* Nothing new: pin the cursor to the top of the mailbox.
Pin(w) ==
    LET state == job[w].state
        top == IF state.last_uid > job[w].top THEN state.last_uid ELSE job[w].top
    IN /\ pc[w] = "pin"
       /\ EndPoll(w)
       /\ SetFolderState(FolderOf[w], job[w].uidvalidity, top)
       /\ UNCHANGED <<server, copies, imported, retry_queue>>

\* A lost connection, an expired token, an IMAP error or a crash of the
\* process: the poll ends where it is.
Abort(w) ==
    /\ "abort" \in Faults
    /\ pc[w] # "idle"
    /\ EndPoll(w)
    /\ flagged' = IF pc[w] = "expunge" /\ FolderOf[w] \in ForgetfulFolders
                  THEN flagged \ ({job[w].hand} \ user_flagged)
                  ELSE flagged
    /\ UNCHANGED <<where, uid, user_flagged, uidnext, uidvalidity, fresh,
                   copies, db>>

Starts(w) == \E left \in Budget : Begin(w, left)

Poll(w) == \/ Starts(w) \/ DeriveFloor(w) \/ Sweep(w) \/ SkipSweep(w)
           \/ StartRetries(w) \/ EndRetries(w) \/ Search(w) \/ EndNew(w)
           \/ FetchGone(w) \/ SkipOversize(w) \/ TakeDuplicate(w) \/ TakeMessage(w)
           \/ Import(w) \/ ImportRejected(w) \/ Park(w) \/ CountAttempts(w)
           \/ NothingToCount(w) \/ Defer(w) \/ RecordImport(w)
           \/ RecordFails(w) \/ ClearRetry(w) \/ MarkDeleted(w) \/ Expunge(w) \/ Advance(w)
           \/ Finish(w) \/ Pin(w)

Fail(w) == ImportTransient(w) \/ Abort(w)
-----------------------------------------------------------------------------
(***************************************************************************)
(* Everybody else: senders, the owner of the mailbox, the IMAP server, the *)
(* clock and the administrator.                                            *)
(***************************************************************************)
Arrive(m) ==
    LET f == HomeOf[m] IN
    /\ where[m] = "pending" /\ uidnext[f] <= MaxUid
    /\ where' = [where EXCEPT ![m] = "here"]
    /\ uid' = [uid EXCEPT ![m] = uidnext[f]]
    /\ uidnext' = [uidnext EXCEPT ![f] = @ + 1]
    /\ fresh' = IF folder_state[f].known THEN fresh \cup {m} ELSE fresh
    /\ UNCHANGED <<flagged, user_flagged, uidvalidity, copies, db, pc, job>>

UserDeletes(m) ==
    /\ "user_delete" \in Faults
    /\ where[m] = "here"
    /\ where' = [where EXCEPT ![m] = "deleted"]
    /\ UNCHANGED <<uid, flagged, user_flagged, uidnext, uidvalidity, fresh,
                   copies, db, pc, job>>

\* A mail client flags a message \Deleted without expunging it.
UserFlags(m) ==
    /\ "user_flag" \in Faults
    /\ where[m] = "here"
    /\ flagged' = flagged \cup {m}
    /\ user_flagged' = user_flagged \cup {m}
    /\ UNCHANGED <<where, uid, uidnext, uidvalidity, fresh, copies, db, pc, job>>

\* The server rebuilds a mailbox: a new UIDVALIDITY, new UIDs in the old order.
\* Sessions do not survive it.
Rebuild(f) ==
    /\ uidvalidity[f] <= MaxRebuilds
    /\ \A w \in Worker : FolderOf[w] = f => pc[w] = "idle"
    /\ \E u \in [Here(f) -> Uid], top \in 0..MaxUid :
         /\ \A m, n \in Here(f) : uid[m] < uid[n] => u[m] < u[n]
         /\ \A m \in Here(f) : u[m] <= top
         /\ uid' = [m \in Mail |-> IF m \in Here(f) THEN u[m] ELSE uid[m]]
         /\ uidnext' = [uidnext EXCEPT ![f] = top + 1]
    /\ uidvalidity' = [uidvalidity EXCEPT ![f] = @ + 1]
    /\ UNCHANGED <<where, flagged, user_flagged, fresh, copies, db, pc, job>>

\* SWEEP_INTERVAL_SECONDS pass.
SweepInterval(f) ==
    /\ folder_state[f].known /\ ~folder_state[f].sweep_due
    /\ folder_state' = [folder_state EXCEPT ![f].sweep_due = TRUE]
    /\ UNCHANGED <<server, copies, imported, retry_queue, pc, job>>

\* retry_delay(attempts) passes.
RetryDelay(f, u) ==
    /\ retry_queue[f][u].next = "waiting"
    /\ retry_queue' = [retry_queue EXCEPT ![f][u].next = "due"]
    /\ UNCHANGED <<server, copies, imported, folder_state, pc, job>>

\* "Retry all now" of the web UI: every queued message gets a fresh budget.
Requeue(f) ==
    /\ "requeue" \in Faults
    /\ retry_queue' = [retry_queue EXCEPT ![f] = [u \in Uid |->
          IF Queued(f, u) THEN [@[u] EXCEPT !.attempts = 0, !.next = "due"]
          ELSE @[u]]]
    /\ UNCHANGED <<server, copies, imported, folder_state, pc, job>>

\* --retry SOURCE FOLDER UID: queue_retry, then requeue.
HandQueue(f, u) ==
    LET uv == IF Queued(f, u) THEN retry_queue[f][u].uidvalidity
                              ELSE folder_state[f].uidvalidity
    IN /\ u \in Manual /\ folder_state[f].known
       /\ retry_queue' = [retry_queue EXCEPT ![f][u] =
            [uidvalidity |-> uv, attempts |-> 0, next |-> "due"]]
       /\ UNCHANGED <<server, copies, imported, folder_state, pc, job>>

Environment == \/ \E m \in Mail : Arrive(m) \/ UserDeletes(m) \/ UserFlags(m)
               \/ \E f \in Folder : Rebuild(f) \/ SweepInterval(f) \/ Requeue(f)
               \/ \E f \in Folder, u \in Uid : RetryDelay(f, u) \/ HandQueue(f, u)

Next == (\E w \in Worker : Poll(w) \/ Fail(w)) \/ Environment

Spec == Init /\ [][Next]_vars
-----------------------------------------------------------------------------
(***************************************************************************)
(* Properties.                                                             *)
(***************************************************************************)
\* Every variable stays within its type.
TypeOK ==
    /\ where \in [Mail -> {"pending", "here", "expunged", "deleted"}]
    /\ uid \in [Mail -> 0..MaxUid]
    /\ \A m \in Mail : where[m] = "here" => uid[m] \in Uid
    /\ flagged \subseteq Mail /\ user_flagged \subseteq Mail /\ fresh \subseteq Mail
    /\ uidnext \in [Folder -> 1..MaxUid + 1]
    /\ uidvalidity \in [Folder -> Nat]
    /\ copies \in [Mail -> 0..MaxCopies]
    /\ imported \in [User -> [Key -> Status]]
    /\ folder_state \in [Folder -> FolderState]
    /\ retry_queue \in [Folder -> [Uid -> RetryEntry]]
    /\ pc \in [Worker -> Step]
    /\ job \in [Worker -> Job]

\* README "Copy or move": a message leaves a source only if it is a move source
\* and the user's Gmail holds the message, unless its owner disposed of it;
\* flags, expunges, crashes and a second poller notwithstanding.
MovedOnlyIfDelivered ==
    \A m \in Mail : where[m] = "expunged" /\ m \notin user_flagged =>
        HomeOf[m] \in MoveFolders /\ DeliveredMail(m)

\* is_imported answers TRUE only for a message that reached the user's Gmail: a
\* recorded failure or an interrupted import never counts as delivered.
RecordedOnlyIfDelivered ==
    \A user \in User, k \in Key :
        imported[user][k] = "imported" => Delivered(user, k)

\* As long as the mailbox is not rebuilt, a message that arrived after the
\* set-up is never lost behind the cursor: at or below it, it is in Gmail, in
\* the retry queue or too large.
NothingSkipped ==
    \A m \in fresh :
        LET f == HomeOf[m] IN
        /\ f \notin LegacyFolders /\ uidvalidity[f] = 1
        /\ where[m] = "here" /\ uid[m] <= folder_state[f].last_uid
        => DeliveredMail(m) \/ Queued(f, uid[m]) \/ m \in Oversize

\* Mail from before the set-up is neither imported nor removed by the polls,
\* unless a backfill or an administrator asked for it.
LeftAlone(m) == copies[m] = 0 /\ (where[m] = "expunged" => m \in user_flagged)
AskedFor(m) == HomeOf[m] \in BackfillFolders \/ uid[m] \in Manual
OldMailUntouched ==
    \A m \in Initial \ fresh :
        uidvalidity[HomeOf[m]] = 1 /\ ~AskedFor(m) => LeftAlone(m)

\* Once an import is recorded, no poll imports the message again, across
\* crashes, retries, sweeps and rebuilds, when a user has a single poller.
NoReimportOfRecorded ==
    [][\A m \in Mail : imported[OwnerOf[HomeOf[m]]][KeyOf[m]] = "imported" =>
            copies'[m] = copies[m]]_vars

\* With one poller, and until the mailbox is rebuilt, a message that was given
\* up stays given up: no sweep, search or restart takes it up again, only the
\* administrator does, and its row goes only when the message was delivered.  (A
\* rebuild starts it afresh: drop_stale_retries drops the row, the rescan finds
\* the message.)
ParkedStaysParked ==
    [][\A m \in Mail :
          LET f == HomeOf[m] IN
          /\ where[m] = "here" /\ where'[m] = "here"
          /\ uidvalidity'[f] = uidvalidity[f]
          /\ retry_queue[f][uid[m]].next = "gave_up"
          /\ retry_queue[f][uid[m]].uidvalidity = uidvalidity[f]
          => \/ retry_queue'[f][uid[m]].next = "gave_up"
             \/ retry_queue'[f][uid[m]].next = "none" /\ DeliveredMail(m)
             \/ Requeue(f) \/ HandQueue(f, uid[m])]_vars

\* A message waits in the retry queue until it is delivered or gone: no crash
\* and no second poller takes its row away from it, unless the mailbox is
\* rebuilt.
QueuedUntilDelivered ==
    [][\A m \in Mail :
          LET f == HomeOf[m] IN
          /\ where[m] = "here" /\ where'[m] = "here"
          /\ uidvalidity'[f] = uidvalidity[f]
          /\ Queued(f, uid[m]) /\ retry_queue[f][uid[m]].uidvalidity = uidvalidity[f]
          => retry_queue'[f][uid[m]].next # "none" \/ DeliveredMail(m)]_vars

\* The cursor of a folder with one poller never moves back within a UIDVALIDITY.
CursorNeverRetreats ==
    [][\A f \in Folder :
          folder_state'[f].uidvalidity = folder_state[f].uidvalidity =>
              folder_state'[f].last_uid >= folder_state[f].last_uid]_vars

\* What a poll means to the mailbox and to Gmail: a message that its owner
\* flagged is disposed of by its owner, whoever expunges it.
PlaceNow == [m \in Mail |->
    IF where[m] = "deleted" \/ (where[m] = "expunged" /\ m \in user_flagged)
    THEN "removed"
    ELSE IF where[m] = "expunged" THEN "moved" ELSE where[m]]
IdentOf == [m \in Mail |-> <<OwnerOf[HomeOf[m]], KeyOf[m]>>]
DeliveredNow == {IdentOf[m] : m \in {n \in Mail : copies[n] > 0}}

\* A folder sync implements the promise of MailMove.
Promise == INSTANCE MailMove WITH
    Movable <- {m \in Mail : HomeOf[m] \in MoveFolders},
    mailbox <- PlaceNow,
    delivered <- DeliveredNow
KeepsPromise == Promise!MailSpec

\* sync.py:209: the cursor is pinned to the mailbox's current top, so it never
\* points past the messages the folder has handed out.
CursorWithinFolder ==
    \A f \in Folder :
        folder_state[f].known /\ folder_state[f].uidvalidity = uidvalidity[f] =>
            folder_state[f].last_uid < uidnext[f]

\* README "Idempotent": one user never gets two copies of the same message.
NoDuplicates ==
    \A m, n \in Mail :
        /\ OwnerOf[HomeOf[m]] = OwnerOf[HomeOf[n]] /\ KeyOf[m] = KeyOf[n]
        /\ copies[m] > 0 /\ copies[n] > 0
        => m = n /\ copies[m] = 1

\* README "Self-healing": older mail is never touched, a rebuild of the mailbox
\* included.
OlderMailNeverTouched == \A m \in Initial \ fresh : AskedFor(m) \/ LeftAlone(m)
-----------------------------------------------------------------------------
(***************************************************************************)
(* Why MovedOnlyIfDelivered holds: the inductive invariant behind it.      *)
(***************************************************************************)
\* The mailbox gives every message its own UID, below the next one.
UidsUnique ==
    /\ \A m \in Mail : where[m] = "here" => uid[m] < uidnext[HomeOf[m]]
    /\ \A m, n \in Mail :
         /\ where[m] = "here" /\ where[n] = "here"
         /\ HomeOf[m] = HomeOf[n] /\ uid[m] = uid[n]
         => m = n

\* The UID a poll is working on names the message it fetched, or none.
Holding == {"import", "record", "park", "count", "defer", "clear", "flag", "expunge"}
HeldBy(w) ==
    pc[w] \in Holding =>
        LET m == job[w].hand IN
        /\ m \in Mail /\ HomeOf[m] = FolderOf[w] /\ where[m] # "pending"
        /\ job[w].cur \in Uid /\ job[w].cur < uidnext[FolderOf[w]]
        /\ \A n \in MailAt(FolderOf[w], job[w].cur) : n = m
Held == \A w \in Worker : HeldBy(w)

\* Past the import, Gmail holds the message in hand; only move sources flag it.
SecuredBy(w) ==
    /\ pc[w] \in {"record", "clear", "flag", "expunge"} => DeliveredMail(job[w].hand)
    /\ pc[w] \in {"flag", "expunge"} => Moves(w)
Secured == \A w \in Worker : SecuredBy(w)

\* Whatever the service flagged for deletion is safe to expunge.
FlagsSecured ==
    \A m \in flagged \ user_flagged : HomeOf[m] \in MoveFolders /\ DeliveredMail(m)

IInv == /\ TypeOK /\ UidsUnique /\ Held /\ Secured /\ FlagsSecured
        /\ RecordedOnlyIfDelivered /\ MovedOnlyIfDelivered
=============================================================================
