# gmailification in TLA+

gmailification polls the IMAP folders of several users and imports what it finds
into their Gmail accounts; a source may be a *move* source, whose messages are
expunged once they are delivered. This directory holds TLA+ models of the program
(`src/gmailification/`), the TLC configurations that check them on small instances,
and proofs, checked by TLAPS, of what must hold for instances of any size.

    tlc -workers 2 -config MCFolderSync_move.cfg MCFolderSync     # one run
    tlapm FolderSync_proofs.tla                                   # one proof module

## 1. The system

| Component | State it keeps | Operations | Talks to | What makes it correct |
|---|---|---|---|---|
| Folder sync (`sync.py`) | the local variables of a poll | `_sync_folder`, `sync_source`, `run_cycle` | database, IMAP, Gmail | no message lost, none removed before it is delivered, none imported twice |
| State database (`state.py`) | tables `folder_state`, `imported_messages`, `retry_queue`, `source_status`, `poll_history` | one transaction each | every thread, and a second process (`--once`, `--retry`) | a record never says more than what happened |
| IMAP source (`imap_source.py`) | a session | STATUS, SELECT, SEARCH, FETCH, STORE, EXPUNGE | the mail server | a lost connection is an error, never an empty answer |
| Gmail destination (`gmail_dest.py`) | `Credentials`, label cache, one service per thread | `import_raw`, `import_alert`, `credentials` | Gmail, token file | an error is mapped to *transient*, *needs authorization* or *rejected* |
| Scheduler (`__main__.py`) | `next_run`, `in_flight`, `poll_started` | one pass of the loop | thread pool, `Shared`, `AppState` | one poll per source, all polled for ever, requests honoured |
| Shared state (`web.Shared`) | `force_event`, `force_user`, published polls | `request_poll`, `take_poll_request`, `healthy` | loop and web threads | no request lost, a stuck service is reported |
| Live configuration (`web.AppState`) | `cfg`, `dests`, `store` | `snapshot`, `reload` | loop and web threads | the service runs what the file says |
| Configuration store (`config_store.py`) | `config.yaml`, `.bak`, `.tmp`, password files | `read_raw`, mutations, `write_raw`, `store_password` | request threads | the file is whole at every instant |
| Configuration parser (`config.py`) | none | `load_config` | files, environment | |
| Alerts (`alerts.py`) | rows of `source_status` | `check_and_alert` | Gmail, database | the right people hear of an outage, again and again, until it ends |
| Utilities (`util.py`) | none | `dedupe_key`, `retry` | | |
| Web pages (`web.py`), health check | none | read only | database, `Shared` | |
| Authorization (`authorize.py`, `web._oauth_*`) | pending flows, token files | consent flow | Google | |

The processes are: the main loop; the threads of its pool, each running
`sync_source`; one thread per HTTP request; at times a second process of the
program. They share the SQLite database (a transaction per operation), the objects
`Shared` and `AppState` (a lock each), the configuration files (no lock around a
whole edit), and the outside world: mail servers, on which the owner of a mailbox
also acts, and Gmail.

Hard behaviours, listed one by one as hazards in `PROJECT.json`: a crash or a lost
answer between any two of import, record, flag, expunge and cursor; two threads
that import the same message; mailboxes rebuilt with new UIDs; a retry queue, a
sweep and a cursor that all claim to know what is left; requests, edits and
removals while polls are under way; alerts about an account through which alerts
would have to be sent; files that are written while others read them.

## 2. The modules

| Module | Models | Lines of |
|---|---|---|
| `MailMove` | the abstract promise: a message is delivered after it arrived, and moved only after it was delivered | README, "Copy or move" |
| `FolderSync` | polls of folders, step by step, with database, mail server, Gmail | `sync.py`, `state.py`, `imap_source.py`, `gmail_dest.import_raw`, `util.py`, `--retry` |
| `FolderSync_proofs` | theorems about `FolderSync`: types, moved mail, the refinement, the queue | |
| `FolderSyncPoller_proofs` | what holds while a user, or a folder, has one poll at a time | |
| `FolderSyncMail_proofs` | new mail is not skipped, old mail is left alone, for any number of pollers | |
| `Sessions` | a source with several folders: one session, one cap, repeated after a transient error | `sync.sync_source`, `util.retry` |
| `Sessions_proofs` | `Sessions` implements `FolderSync`, and gives it one poll at a time | |
| `Scheduler` | main loop, thread pool, poll requests, reloads, health | `__main__.py`, `web.Shared` |
| `Scheduler_proofs` | theorems about `Scheduler` | |
| `Health` | failure rows and alerts | `alerts.py`, status part of `state.py`, outcomes of `sync_source` |
| `Health_proofs` | theorems about `Health` | |
| `ConfigEdits` | edits of the configuration by several requests, reloads, crashes | `config_store.py`, `web._mutate`, `AppState`, `load_config` |
| `ConfigEdits_proofs` | theorems about `ConfigEdits` | |
| `Credentials` | a user's token: cached, refreshed, saved, authorized anew, revoked | `gmail_dest.py`, `authorize.py`, `web._oauth_*`, `AppState.reload` |
| `Credentials_proofs` | theorems about `Credentials` | |
| `MCFolderSync`, `MCSessions`, `MCScheduler`, `MCHealth`, `MCConfigEdits`, `MCCredentials` | the instances TLC checks | |

`FolderSync` composes sync engine, database, server and Gmail, and implements
`MailMove` through `Promise == INSTANCE MailMove WITH ...`. `Sessions` extends
`FolderSync` and puts its polls in the order of `sync_source`. The other modules meet
at named seams: a poll is one pair `StartPoll`/`EndPoll` in `Scheduler` and an
outcome in `Health`; that a source has a single poll (`Scheduler!SinglePoll`) is
what lets the service be one `Worker` per folder in `FolderSync`; that it is polled
for ever (`PolledForEver`) is the fairness `Sessions` and `Health` assume; a
`Reload` of `Scheduler` is the end of an edit in `ConfigEdits` and the replacement
of a destination in `Credentials`; a `ReportReauth` of `Credentials` is the outcome
"blocked" of a poll in `Health`.

### FolderSync

A `Folder` is a (source, folder) pair, the key of the tables. A `Worker` is a
thread that polls it; two workers of one folder are the service and a `--once` run.
`pc[w]` walks through `_sync_folder`:

    idle -Begin-> sweep -Sweep/SkipSweep-> due -StartRetries-> retry
      retry: one message after another, then -EndRetries-> search -Search-> new
      new:   one message after another, then -EndNew-> finish -Finish-> pin -> idle
    one message: fetch and look up -> import -> record -> clear -> flag -> expunge
                 (-> park, count, defer when rejected), -> advance when it is a new one

Each arrow is one database transaction or one server call, so anything may happen
between two of them: another worker's step, new mail, a deletion, a rebuild, or
`Fail`, which ends the poll where it stands (a lost connection, an exception, a
crash of the process: nothing of a poll outlives it but the tables and the
mailbox). STATUS, the read of the state row, SELECT and `drop_stale_retries` are
one step, and so are the lookup by `existing_uids` and the clearing of what is
gone. `record_import` is in the same `try` as the import: when the database stays locked,
a message that Gmail has is recorded as failed and queued (`RecordFails`), and so
it may be after an error of another kind (`ImportRejected`).
`record_retry_failure` is three statements that commit one by one, and so it
is three steps: `Park` (INSERT OR IGNORE), `CountAttempts` (SELECT; nothing to count
when another poller took the row away, `NothingToCount`) and `Defer` (UPDATE), with
the number that was read in between. `job[w]` holds the poll's local variables, and
the stale ones stay stale. A poll starts with any part of the cap (`Budget`), for it
may not be the first folder of its source.

Times are kept as the question the code asks of them: is the sweep due, is the
retry due. `fresh` is the set of messages with an INTERNALDATE after
`watch_since`; `Early` those from before its day, since SINCE counts in days. A
message is a model value with a key: what Message-ID or hash it has is not looked
at, and two messages may share a key. `copies` counts what Gmail stored, lost
answers included; `user_flagged` remembers what the owner flagged for deletion.

### Sessions

`sync_source` takes the folders of a source in order, with one connection and one
cap on messages. `Folders[s]` is the sequence of the workers of session `s`, and
`session[s]` says at which of them it is and what is left of the cap: `BeginFolder`
is `FolderSync!Begin` with that much, `NextFolder` goes on with what the poll left.
An exception ends the poll of the source (`Close`), a transient error repeats it
from its first folder with the whole cap (`Repeat`) or, at the last of the attempts
of `util.retry`, ends it too: `AgainOrNot` leaves open which attempt it is. A
session that is between two folders may be interrupted as well.

### Scheduler

`next_in`, `age` and `cycle_age` are distances from now. `TimeOut` may happen at
any moment of a wait, so no property relies on a length of a wait. `Publish` holds
the copies the web threads read. `asked` is a history variable: for which sources
a request was made and no poll has started since, and whether the source was idle
when it was made.

### Health

A row of `source_status` is a source or, named by its user, a destination. Of its
times only the comparisons with `alert_after_hours` and `realert_after_hours` are
kept. The outcome of a poll follows from the state of the mail server and of the
token. A source may leave the configuration while it fails or is polled
(`SourceEdited`): its poll goes on, its late result no longer clears the
destination, and its row stays, since no code deletes it. `warned` is a history
variable for `NoNagging`.

### ConfigEdits

Every file operation of an edit is a step of a request's thread. `Torn` is a file
that was emptied or is written by two at a time. A `Store` is the identity of a
`ConfigStore`: a reload makes a new one, with a new lock. `Replace` moves
`config.yaml.tmp`, and with it the handle another thread may still have on it, as
`rename` does. `failed` and `overlap` are history variables: a request failed since
the last reload began; an edit began while another was under way.

### Credentials

`Thread` is whatever delivers to one user: a poll, an alert, the check at start-up.
It takes the `Dest` that is current when it starts and keeps it, as a poll does
with the snapshot of the main loop; a `Dest` is a `GmailDestination` object, its
lock and its cached credentials. `credentials()` is walked through once per
request: read the file, or find it missing or unreadable; find the access token
good (`Valid`) or run out (`Expired`, under the lock); refresh it; write
`token_file.tmp`; move it into place. An `Authorizer` exchanges a consent for a
`Grant`, truncates the token file, writes it, and then reloads the service
(`WriteWeb`) or does not (`WriteCli`). A handle on a file follows the file:
`Replace` turns the handles others hold on `token_file.tmp` into handles on the
token file, and those on the old token file into handles on no file (`lost`).
`latest`, `overtaken` and `clash` are history variables: the grant of the last
authorization in the web UI; a grant that is not this one was written since it
began; two wrote one file at a time, or an authorization was cut off.

## 3. What the runs check

| Run | Instance | Shows |
|---|---|---|
| `move` | two pollers of one move folder without UIDPLUS that forgets flags, 2 messages; crashes, lost answers, rejections, a locked database, owner's deletions | `MovedOnlyIfDelivered`, `NothingSkipped`, `OldMailUntouched`, `QueuedUntilDelivered`, and `MailMove` implemented (`KeepsPromise`) |
| `rebuild` | UIDPLUS, backfill, set up now or before 0.8, one rebuild, an oversized message, owner's flags, a locked database, requeue, `--retry` | `TypeOK`, `RecordedOnlyIfDelivered`, `NoReimportOfRecorded`, `ParkedStaysParked`, `CursorNeverRetreats`, `KeepsPromise` |
| `cap` | one source with two folders, a move folder from before 0.8 whose server forgets flags and one that keeps its mail, and a cap of one message; rejections, transient errors, retries by hand without end, faults that cease | `NothingSkipped`, `OldMailUntouched` (with the derived floor), `EventuallyDelivered`, `EventuallyMoved` |
| `schedule` | 3 sources of 2 users, 2 threads, one poll may hang | `SinglePoll`, `ForcedPollHappens`, `PolledForEver`, `RemovedIsLeftAlone`, `StuckPollReported` |
| `alerts` | 2 sources of a user, one that is removed and added again, an admin, a second tenant, `copy_alerts` on | `AlertsStayInTheHouse`, `NoNagging`, `OwnerIsTold`, `AdminIsToldOfBlockedUser`, `AlertsStop` |
| `edits` | 2 threads, 1 user, 1 source, 2 passwords, 3 stores | `ConfigTypeOK`, `FileIsWhole`, `ServiceRunsTheFile`, `DownOnlyByPassword`, `BackupKept`, `EditKeepsOthers` |
| `tokens` | 2 threads, one authorization at a time, 2 destination objects, 2 grants; reloads, revocations, crashes | `CredentialsTypeOK`, `TokenIsWhole`, `AuthorizationSticks`, `AuthorizationHeals`, `RevocationIsNoticed` |
| `pin`, `duplicate`, `rescan`, `forced`, `revoked` | | one statement of the documentation each that the code does not keep, see 5 |

Bounds. Two messages let one be at or behind the cursor and one above it; one is in
the folder when it is set up, the other arrives. `MaxUid` leaves room for the order
of UIDs to be kept while their values change. `MaxRebuilds = 1` gives an old and a
new UIDVALIDITY, which is all the code compares. A cap of one message ends a poll
after every message, no cap never does. Two attempts are enough to have a first,
a last and a given-up one. `MaxCopies = 2` tells one import from several. Two
workers, two threads or two sources are the smallest number that can interfere;
`ConfigEdits` has three stores so that each of two threads can hold an old one
while a third is current. `Credentials` has one authorization at a time and one
destination object besides the current one: more than one replaced object in use,
or two authorizations side by side, only add writers, and two writers at a time
already end what the properties promise. Grants and objects that nobody refers to
are used again, so two of each let authorizations and reloads go on for ever; one
grant to be replaced and one that replaces it is what the properties compare. An
authorization that finds no unused grant waits for the old one to be forgotten, and
a reload for an unused object: neither is forced to happen. `MaxPollAge` and
`MaxCycleAge` of one tick leave "fresh" and "too old". In `cap` each folder has one
message: a cap of one is used up by the first, by a new message or by a retry, and
what is left for the second folder is nothing. An administrator who retries that
message again and again keeps the cap used up for any number of cycles. In `alerts`
the second tenant has no source, he is there to be told what is not his business;
that he may have sources as well is in the theorem `AlertsAreDiscreet`. One attempt at an import is the worst
case of `util.retry`, every transient error ends the session.

Symmetry is used in two runs of safety properties: in `edits` for threads, stores
and passwords, in `move` for the two pollers.

Deadlock is checked in every run: no state of any instance is without a successor.

Fairness. A started session takes its next step, the scheduler starts the next one:
`WF_sessionVars(SyncSource(s))`; time passes: the sweep interval, retry delays,
hours, ticks.
Faults may happen at any time but not for ever (`FaultsCease`, `<>[][~Restart]_vars`,
`<>[][~Crash]_vars`): no program delivers over a connection that is always lost.
Nothing is assumed of the environment: new mail, edits, requests and revoked
tokens may stop or go on. A poll ends because every socket has a timeout
(`__main__.py:97`, and the timeouts given to IMAP); `Slow` sources are excepted.
`Reap` has strong fairness in `Health`: the loop comes back to it after every
maintenance pass, though not during one. In `Credentials` a thread takes its next
step and starts again (weak), an access token that lives for an hour is found
expired again and again (`SF_vars(Expired(t))`: another thread may hold the lock
each time, but not for ever), and an authorization that has its token writes it and
reloads; consents, edits and revocations are left to chance.

What the properties leave out, because the code does not promise it:
`CursorNeverRetreats` and `NoReimportOfRecorded` are about one poller per folder
or user; two pollers do move the cursor back, and `move` shows that this loses
nothing. `NothingSkipped` is about the first UIDVALIDITY, `QueuedUntilDelivered`
about the time between two rebuilds. `ParkedStaysParked` is about one poller and
one UIDVALIDITY: after a rebuild `drop_stale_retries` deletes the rows, the rescan
takes a message that was given up for a new one, and it gets a fresh budget, or is
imported. `FileIsWhole`, `DownOnlyByPassword`,
`BackupKept` and `EditKeepsOthers` are about edits that do not overlap: read, edit
and write are under no common lock, two edits may undo one another, and when a
reload exchanges the lock between two `write_raw` calls these share one
`config.yaml.tmp`. `DownOnlyByPassword` names what is left when they do not: opening
a password file empties it, and a service that dies before the password is written
does not start again.

`EventuallyDelivered` and `EventuallyMoved` are about a load that ends (`LoadEnds`):
mail is finite, and retries by hand of what is polled before the message, or with it,
stop at some time. Under a load that never stops the later folders of a source do
starve: `sync_source` starts each cycle with its first folder and the whole cap
(`sync.py:226-235`), and a first folder that uses it up in every cycle leaves
nothing. Without the premise TLC finds this in the instance of `cap`, where an
administrator retries the first folder's rejected message for ever. This is at odds
with "the rest follow next cycle" (`config.example.yaml:25`).

`TokenIsWhole` is not promised when two destination objects save their tokens at a
time (their locks differ, `token_file.tmp` is one file), when two authorizations
write at a time or when one is cut off (`O_TRUNC`, no temporary file): `clash`.
`AuthorizationSticks` and `AuthorizationHeals` are about authorizations in the web
UI. A poll that was started before one may save the refreshed old token after it
(`overtaken`), and the command line writes the file without a reload: the service
keeps the credentials it has cached and its next refresh writes the old grant back.

## 4. What is proved

The proofs hold for every value of the constants that satisfies
`ConstantsAssumption`, `SessionsAssumption`, `SchedulerAssumption`,
`HealthAssumption`, `ConfigAssumption` and `DownAssumption`, or
`CredentialsAssumption`. They say what kind of value each constant is, that the
UIDs of a folder are distinct, that mail from before the set-up day has the lower
UIDs, that a worker belongs to one session, that a service that cannot start (`Down`)
is no configuration, and that a user has a destination object at all (`Dest # {}`).
TLC evaluates them in every run.

`FolderSync_proofs`:

* `Invariant`: `Spec => []IInv`.
* `TypeCorrect`, `MoveIsSafe`, `RecordIsTrue`: `TypeOK`, `MovedOnlyIfDelivered` and
  `RecordedOnlyIfDelivered` are invariants, for any number of workers.
* `SyncKeepsPromise`: `Spec => Promise!MailSpec`, the refinement of `MailMove`.
* `QueueIsKept`: `QueuedUntilDelivered`, for any number of workers of a folder.

`MovedOnlyIfDelivered` is not inductive: an EXPUNGE removes whatever carries the
flag. So `IInv` adds `FlagsSecured` (what the service flagged has been delivered).
To preserve that when a message is flagged, the worker's message must have been
delivered (`Secured`: past the import, it has), and the UID it flags must be that
message's (`Held` and `UidsUnique`: the UID in hand names the message that was
fetched, or nobody any more, because a rebuild waits for the sessions to end).
`Secured` in turn needs `RecordedOnlyIfDelivered` for the message that is skipped
as a duplicate. The lemmas of part 1 give the types of the operators; `QuietSteps`,
`TakeSteps`, `ImportSteps`, `RemovalSteps`, `FailSteps` and `EnvironmentIsSafe`
preserve the invariant for groups of actions that disturb the same conjuncts. The
refinement takes its steps from the same groups: an import is a `Deliver`, an
expunge a `TakeOut` of what was delivered and of what its owner flagged, an arrival
an `Appear`; the rest is invisible. `QueueIsKept` goes through the writers of the
retry queue: INSERT OR IGNORE and the UPDATE keep rows, `drop_stale_retries` and the
check for what is gone delete the rows of other messages, and `ClearRetry` deletes
the row of the message in hand, which by `Held` and `Secured` is delivered.

`FolderSyncPoller_proofs` is about what two polls at a time do break. Its theorems
have a premise on the behaviour, not on the constants: `[]OnePollPerUser` or
`[]OnePollPerFolder`, at most one worker of a user, or of a folder, is in a poll.
Any number of workers may take turns, be cut off and start again.

* `RecordedOnce`: `NoReimportOfRecorded`. The invariant is `NotRecorded`: a message
  on its way to `import_raw` is not recorded. The lookup sees to it, and nobody else
  records for this user meanwhile.
* `IdempotentUninterrupted`: `NoDuplicates`, if also no answer of Gmail is lost, the
  database is not locked and no poll cut off (`NothingInterrupts`). `DeliveredIsRecorded` is added: what Gmail
  holds is recorded, or in the hand of the worker that is about to. With the run
  `duplicate` this says where the README's "Idempotent" ends.
* `CursorOnlyAdvances`: `CursorNeverRetreats`. `CursorInv` says that a poll knows the
  cursor of its folder until it moves it (`KnowsCursor`), and that its list and the
  message in its hand lie above it (`Ahead`), lowest first.
* `GivenUpStaysGivenUp`: `ParkedStaysParked`, per message and within one UIDVALIDITY:
  its row stays given up until the message is delivered or the administrator asks for
  it. That the row does not go for another reason is in `StepKeepsQueue`, that it is
  not revived in `NoneRevived`. `ParkingInv` says that a message that was
  given up below `MaxRetryAttempts` was too large, and nothing else has its UID since
  (`GaveUpTooLarge`), and that the number of attempts a poll has read is still the
  one in the row (`Parked`).

`FolderSyncMail_proofs` is about any number of pollers. Both theorems rest on
`OrderInv`: before a rebuild the cursor of a folder is below the UIDs to come, its
rows carry the first UIDVALIDITY, and so does what the polls have read.

* `NothingIsSkipped`: `NothingSkipped`. Its inductive form `SkipInv` is about every
  message that still waits: it lies above the cursor, and every poll of its folder
  remembers it (`Remembers`): it is above all the poll read when it started, or on
  its list, or in its hand, or it arrived after the list was made. Two pollers move
  the cursor back and forth, but each only over messages it has taken up itself.
* `OldMailIsLeftAlone`: `OldMailUntouched`. `OldInv` says that the row of the folder and
  the copy each poll has of it spare such a message (`Spares`: it is at or below the
  cursor, and the floor of the sweep is not below it), that it is not queued, and that
  every poll passes it by (`Passes`). `FloorSpares` is the lemma about
  `derive_watch_floor`.
* `CursorStaysWithin`, `OlderMailStays`: what the runs `pin` and `rescan` refute holds
  while no mailbox is rebuilt (`[]NoneRebuilt`), so that the rebuild alone is to blame.

`Sessions_proofs`: `SessionsArePolls`, `SessionsSpec => Spec`. A session's step is a
poll's step or none; that a folder starts with a part of the cap needs `SharesOfCap`,
an invariant of what the sessions and the polls have left. `SessionsMoveSafely`,
`SessionsSkipNothing`, `SessionsLeaveOldMail` and `SessionsKeepPromise` carry the
results about polls over to `sync_source`. `OneFolderInv` (a poll is under way only in
the folder its session is at) discharges the premises above: where the sources of a
user are one session (`OneSessionPerUser`), `SessionsRecordOnce` and
`SessionsDeliverOnce`; where no two sessions share a folder (`OneSessionPerFolder`,
the service without a `--once` run beside it), `SessionsOnlyAdvance` and
`SessionsGiveUpForGood`. A `Session` is a source, and two polls of one source are
what `OnePollAtATime` of `Scheduler` excludes. A user with two sources is not covered
by `OneSessionPerUser`: their polls run side by side, which is the run `duplicate`.

`Scheduler_proofs`: `SchedulerInvariant`, and from it `SchedulerTypeCorrect`,
`OnePollAtATime` (`SinglePoll`) and `RequestsAreKept` (`ForcedPollHappens`).
`SinglePoll` needs `InFlightIsThePool`: `in_flight` is the disjoint union of the
submitted, running and finished polls and no source due in this pass is among
them. `ForcedPollHappens` needs `IdleIsKnown`: a request is only taken for sources
of the loop's snapshot, and one that counts as idle is in it.

`Health_proofs`: `HealthInvariant`, and from it `AlertsAreDiscreet`
(`AlertsStayInTheHouse`) and `NobodyIsNagged` (`NoNagging`). What has been told stays
in the house because the targets that are left do (`Discreet`); a row is not alerted
of twice because a pass takes it once and takes none that was alerted of lately
(`OncePerPass`), which the table and the history agree on (`WarnedIsAlerted`).

`ConfigEdits_proofs`, for any number of users, sources and request threads, in three
layers, each inductive on top of the one before:

* `Typed`: a configuration that was validated stays within the type.
  `ConfigTypeCorrect` (`ConfigTypeOK`).
* `Alone` and `DownIsIdle`: as long as no two edits overlap, the one editor there is
  knows the file, stage by stage (`EditorHolds`): what it has read is the file, what it
  writes is one edit away from it and loads, the backup is the file when it is
  replaced. From it `FileStaysWhole` (`FileIsWhole`), `DownOnlyByCutPassword`
  (`DownOnlyByPassword`), `BackupIsKept` (`BackupKept`), `EditsKeepOthers`
  (`EditKeepsOthers`).
* `Settling`, overlapping edits included: reloads take turns, and whoever touched the
  files has its reload still before it (`Unsettled`); one that reads a file that is
  about to change is followed by another. From it `ServiceFollowsFile`
  (`ServiceRunsTheFile`).

`Credentials_proofs`, for any number of threads, authorizations, destination objects
and grants: `TokensInvariant`, and from it `CredentialsTypeCorrect`
(`CredentialsTypeOK`), `TokenStaysWhole` (`TokenIsWhole`) and `AuthorizationIsKept`
(`AuthorizationSticks`). `Locked` (who refreshes holds the lock of its destination)
and `Handles` (an open handle belongs to a step that writes) hold always. `Whole` adds,
unless two clash, that who saves is alone with `token_file.tmp` and that the token
file is torn exactly while an authorization has it open. `Sticks` adds, unless an
older grant overtook it, that one authorization writes at a time and that, whenever
none does, the file holds the latest grant, with the cached credentials of the
current destination in agreement or about to be replaced.

Model-checked only: liveness, in every module (`EventuallyDelivered`,
`EventuallyMoved`, `PolledForEver`, `RemovedIsLeftAlone`, `StuckPollReported`,
`OwnerIsTold`, `AdminIsToldOfBlockedUser`, `AlertsStop`, `AuthorizationHeals`,
`RevocationIsNoticed`). Liveness under fairness, ENABLED and induction over data are
beyond the prover. Every invariant and every action property of a passing run is a
theorem.

## 5. Where documentation and code part

* `pin`: an idle poll keeps the old cursor after a rebuild (`sync.py:210`), so mail
  of the new mailbox below it is not searched for; the comment above says the
  cursor is pinned to the mailbox's current top.
* `duplicate`: lookup, import and record are not one step (`sync.py:95-103`); a
  message that arrives through two sources at the same time is imported twice,
  against `util.py:28-30`.
* `rescan`: without a backfill, a rebuilt folder is scanned as a whole
  (`sync.py:189`) and a move source moves mail from before its set-up, against
  "(or nothing)" two lines above and the README's "Older mail is never touched".
* `forced`: a request made while the source is polled is lost (`__main__.py:168`),
  against the changelog of 0.6.0.
* `revoked`: a quiet poll clears the failure of the destination
  (`__main__.py:169-174`), so the admin may never be told of a revoked token,
  against `alerts.py:6-7`.
* Without a run of its own: a load that never ends starves the later folders of a
  source (`sync.py:226-235`), against `config.example.yaml:25`; see section 3.

## 6. Not modelled

The web pages, `/status` and `/history`, the health check's GET, the dialogue of the
consent flow, deployment files and logging do not change state that the rest depends
on. The parsing of IMAP answers and of the configuration, the wording of alerts,
formatting of dates, throttling by bandwidth and pauses are left out. `poll_history`
is a log for the dashboard. The cache of labels is left out for now, and so is a
label that is deleted in Gmail while its id is cached (`gmail_dest.py:129`), and a
reload that fails after an authorization. A crash in `Credentials` ends an
authorization on the command line together with the service. `Health` removes
sources, not users.
A source with a `password_env` has no password file, so `ConfigEdits` has only the
kind that has one; to the files an edit writes it is a source whose password is never
set again. A token that is neither valid nor refreshable (`gmail_dest.py:100`) ends in
the same `ReauthNeeded` as one that is missing: `Credentials` has no state of its own
for it.
No property covers five hazards whose outcome the code does not prevent; the models
have them, and premises name them: two edits at a time (`overlap`: one undoes the
other, or they tear `config.yaml.tmp`), a rejected edit whose password takes effect
(`failed`), and alerts about a source that was removed while it failed. The fifth:
after a rebuild the floor of the sweep is one of the old UIDs (`state.py:188`), and
leftovers below it are not looked for again: `FolderSync` has this, but the run that
checks that leftovers are moved has no rebuild.

## 7. Plan

Done: all modules of section 2, the safety proofs of all of them, the refinements
`Sessions` -> `FolderSync` -> `MailMove`. What is left:

1. The sweep after a rebuild with the floor of the old UIDs (`state.py:188`): a
   property that the scan of the rebuilt folder does not hide.
2. Runs of their own for what premises leave out today: starvation under a load that
   never ends, two edits at a time, a rejected edit that takes effect.
3. `Scheduler` and `FolderSync` composed, so that `OneSessionPerFolder` is a
   consequence of `OnePollAtATime` and not an assumption on the sessions.
4. Invariants behind the liveness properties (`OwnerIsTold`, `PolledForEver`): what the
   safety part of their arguments needs, as theorems.
