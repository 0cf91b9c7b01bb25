----------------------------- MODULE ConfigEdits -----------------------------
(***************************************************************************)
(* Edits of config.yaml from the web UI: config_store.ConfigStore, and the *)
(* request handler and AppState of web.py that use it.                     *)
(*                                                                         *)
(* A Thread is one of the HTTP server's; each request has its own.  Every  *)
(* file operation is a step.  Of a configuration only what one edit can    *)
(* break for another is kept: the users, the sources and the admin.  What  *)
(* Scheduler calls Reload is the end of an edit here.                      *)
(***************************************************************************)
CONSTANTS
    User, Source,
    OwnerOf,     \* OwnerOf[s]: the user of a source
    Password,
    Thread,
    Store,       \* identities of ConfigStore objects (each has a lock)
    NoUser, Nobody,
    \* contents of a file that is not there or is not whole; the configuration
    \* of a service that cannot start; values the parser rejects; no value
    Missing, Torn, Down, Refused, None

ASSUME ConfigAssumption ==
    /\ OwnerOf \in [Source -> User]
    /\ NoUser \notin User /\ Nobody \notin Thread
    /\ {Missing, Torn, Down, Refused, None} \cap (Password \cup Source) = {}

VARIABLES
    file, bak, tmp,   \* config.yaml, config.yaml.bak and config.yaml.tmp
    secrets,          \* secrets[s]: the password file of a source
    running,          \* AppState.cfg, Down when the service cannot start
    store, app_lock,  \* AppState.store and its lock
    lock,             \* lock[o]: who holds the lock of ConfigStore o
    \* history: a request failed since the last reload began; an edit has
    \* begun while another was under way
    failed, overlap,
    pc,
    raw,              \* raw[t]: the configuration read and edited
    saving,           \* saving[t]: the source whose password is being saved
    mine,             \* mine[t]: the ConfigStore whose write_raw t called
    open              \* open[t]: the file t's handle on config.yaml.tmp is now

files == <<file, bak, tmp, secrets>>
app == <<running, store, app_lock, lock>>
handler == <<pc, raw, saving, mine, open>>
vars == <<files, app, failed, overlap, handler>>

Config == [users : SUBSET User, sources : SUBSET Source, admin : User \cup {NoUser}]

\* What AppState.cfg holds: load_config reads the passwords along.
Configuration == [config : Config,
                  passwords : UNION {[S -> Password] : S \in SUBSET Source}]

ASSUME DownAssumption == Down \notin Configuration

\* What load_config accepts; passwords aside.
Consistent(c) == /\ c \in Config
                 /\ c.admin \in c.users \cup {NoUser}
                 /\ \A s \in c.sources : OwnerOf[s] \in c.users

\* A password file that is missing or empty is an error for everybody.
Loads(c) == Consistent(c) /\ \A s \in c.sources : secrets[s] \in Password

Loaded(c) == [config |-> c, passwords |-> [s \in c.sources |-> secrets[s]]]

Init ==
    /\ secrets \in [Source -> Password \cup {Missing}]
    /\ \E c \in Config : Loads(c) /\ file = c /\ running = Loaded(c)
    /\ bak = Missing /\ tmp = Missing
    /\ store \in Store
    /\ app_lock = Nobody /\ lock = [o \in Store |-> Nobody]
    /\ failed = FALSE /\ overlap = FALSE
    /\ pc = [t \in Thread |-> "idle"]
    /\ raw = [t \in Thread |-> None] /\ saving = [t \in Thread |-> None]
    /\ mine = [t \in Thread |-> None]
    /\ open = [t \in Thread |-> "closed"]
-----------------------------------------------------------------------------
(***************************************************************************)
(* do_POST: _mutate with one of the mutations.                             *)
(***************************************************************************)
Goto(t, from, to) == pc[t] = from /\ pc' = [pc EXCEPT ![t] = to]

\* read_raw, under no lock.
Editing(t) == pc[t] \notin {"idle", "reload", "load"}

\* Mutant: the edit starts from the configuration the service runs.
ReadRunning(t) ==
    /\ running # Down /\ file # Torn
    /\ Goto(t, "idle", "mutate")
    /\ raw' = [raw EXCEPT ![t] = running.config]
    /\ overlap' = (overlap \/ \E r \in Thread : Editing(r))
    /\ UNCHANGED <<files, app, failed, mine, open, saving>>

ReadRaw(t) ==
    /\ running # Down /\ file # Torn
    /\ Goto(t, "idle", "mutate")
    /\ raw' = [raw EXCEPT ![t] = file]
    /\ overlap' = (overlap \/ \E r \in Thread : Editing(r))
    /\ UNCHANGED <<files, app, failed, mine, open, saving>>

WithoutUser(c, u) ==
    [users |-> c.users \ {u},
     sources |-> {s \in c.sources : OwnerOf[s] # u},
     admin |-> IF c.admin = u THEN NoUser ELSE c.admin]

\* add_user, delete_user, delete_source, update_globals, and an upsert_source
\* that leaves the password alone; Refused: values the parser rejects.
Edited(c) ==
    {[c EXCEPT !.users = @ \cup {u}] : u \in User \ c.users}
    \cup {WithoutUser(c, u) : u \in c.users}
    \cup {[c EXCEPT !.sources = @ \ {s}] : s \in c.sources}
    \cup {[c EXCEPT !.admin = u] : u \in User}
    \cup {c, Refused}

WithSource(c, s) == [c EXCEPT !.sources = @ \cup {s}]

Mutate(t) ==
    /\ Goto(t, "mutate", "write")
    /\ \E c \in Edited(raw[t]) : raw' = [raw EXCEPT ![t] = c]
    /\ UNCHANGED <<files, app, failed, overlap, mine, open, saving>>

\* A ConfigError of the mutation itself: an unknown or an existing name, a new
\* source without a password.  (A source with a password_env has no file that an
\* edit could empty: it is as one whose password is never set again.)
MutationFails(t) ==
    /\ Goto(t, "mutate", "idle")
    /\ raw' = [raw EXCEPT ![t] = None]
    /\ UNCHANGED <<files, app, failed, overlap, mine, open, saving>>

\* upsert_source with a password: store_password opens the file of the source,
\* which empties it, ...
OpenPassword(t, s) ==
    /\ Goto(t, "mutate", "password")
    /\ OwnerOf[s] \in raw[t].users
    /\ secrets' = [secrets EXCEPT ![s] = Torn]
    /\ \E c \in {WithSource(raw[t], s), Refused} :
          raw' = [raw EXCEPT ![t] = c]
    /\ saving' = [saving EXCEPT ![t] = s]
    /\ UNCHANGED <<file, bak, tmp, app, failed, overlap, mine, open>>

\* ... and writes it, before anything is validated.
WritePassword(t) ==
    /\ Goto(t, "password", "write")
    /\ \E p \in Password : secrets' = [secrets EXCEPT ![saving[t]] = p]
    /\ saving' = [saving EXCEPT ![t] = None]
    /\ UNCHANGED <<file, bak, tmp, app, failed, overlap, raw, mine, open>>
-----------------------------------------------------------------------------
(***************************************************************************)
(* write_raw.                                                              *)
(***************************************************************************)
\* The call picks the present ConfigStore ...
CallWrite(t) ==
    /\ Goto(t, "write", "lock")
    /\ mine' = [mine EXCEPT ![t] = store]
    /\ UNCHANGED <<files, app, failed, overlap, raw, open, saving>>

\* ... and waits for the lock of that one.
Lock(t) ==
    /\ Goto(t, "lock", "validate")
    /\ lock[mine[t]] = Nobody /\ lock' = [lock EXCEPT ![mine[t]] = t]
    /\ UNCHANGED <<files, running, store, app_lock, failed, overlap, raw, mine, open, saving>>

\* Leaving write_raw or reload with an error.
Fail(t) ==
    /\ pc' = [pc EXCEPT ![t] = "idle"]
    /\ raw' = [raw EXCEPT ![t] = None]
    /\ failed' = TRUE
    /\ lock' = [o \in Store |-> IF lock[o] = t THEN Nobody ELSE lock[o]]
    /\ app_lock' = IF app_lock = t THEN Nobody ELSE app_lock
    /\ open' = [open EXCEPT ![t] = "closed"] /\ mine' = [mine EXCEPT ![t] = None]
    /\ UNCHANGED <<running, store, overlap, saving>>

\* Mutant: the edited configuration is written unseen.
SkipValidation(t) ==
    /\ Goto(t, "validate", "backup")
    /\ UNCHANGED <<files, app, failed, overlap, raw, mine, open, saving>>

Validate(t) ==
    /\ Goto(t, "validate", "backup")
    /\ Loads(raw[t])
    /\ UNCHANGED <<files, app, failed, overlap, raw, mine, open, saving>>

ValidationFails(t) ==
    /\ pc[t] = "validate" /\ ~Loads(raw[t])
    /\ Fail(t)
    /\ UNCHANGED files

\* Mutant: the first backup is kept for ever.
BackupOnce(t) ==
    /\ Goto(t, "backup", "open")
    /\ bak' = IF bak \in {Missing, Torn} THEN file ELSE bak
    /\ UNCHANGED <<file, tmp, secrets, app, failed, overlap, raw, mine, open, saving>>

Backup(t) ==
    /\ Goto(t, "backup", "open")
    /\ bak' = file
    /\ UNCHANGED <<file, tmp, secrets, app, failed, overlap, raw, mine, open, saving>>

\* Mutant: config.yaml is rewritten in place.
OpenInPlace(t) ==
    /\ Goto(t, "open", "dump")
    /\ file' = Torn /\ tmp' = file
    /\ open' = [open EXCEPT ![t] = "tmp"]
    /\ UNCHANGED <<bak, secrets, app, failed, overlap, raw, mine, saving>>

\* Opening config.yaml.tmp empties it, under the handles of others too.
OpenTmp(t) ==
    /\ Goto(t, "open", "dump")
    /\ tmp' = Torn
    /\ open' = [open EXCEPT ![t] = "tmp"]
    /\ UNCHANGED <<file, bak, secrets, app, failed, overlap, raw, mine, saving>>

\* safe_dump; over what another thread wrote meanwhile, the two may mix.
Dumped(t, content) == IF content = Torn THEN {raw[t]} ELSE {raw[t], Torn}
Dump(t) ==
    /\ Goto(t, "dump", "replace")
    /\ \/ /\ open[t] = "tmp" /\ tmp' \in Dumped(t, tmp) /\ UNCHANGED file
       \/ /\ open[t] = "config" /\ file' \in Dumped(t, file) /\ UNCHANGED tmp
    /\ UNCHANGED <<bak, secrets, app, failed, overlap, raw, mine, open, saving>>

\* os.replace: handles others hold on the file move with it.
Replace(t) ==
    /\ Goto(t, "replace", "reload")
    /\ tmp # Missing /\ tmp' = Missing /\ file' = tmp
    /\ open' = [r \in Thread |-> IF r = t THEN "closed"
                                 ELSE IF open[r] = "tmp" THEN "config" ELSE open[r]]
    /\ lock' = [lock EXCEPT ![mine[t]] = Nobody]
    /\ raw' = [raw EXCEPT ![t] = None] /\ mine' = [mine EXCEPT ![t] = None]
    /\ UNCHANGED <<bak, secrets, running, store, app_lock, failed, overlap, saving>>

\* Another thread has moved config.yaml.tmp already.
ReplaceFails(t) ==
    /\ pc[t] = "replace" /\ tmp = Missing
    /\ Fail(t)
    /\ UNCHANGED files
-----------------------------------------------------------------------------
(***************************************************************************)
(* AppState.reload, after an edit and after an authorization.              *)
(***************************************************************************)
\* _oauth_finish has saved a token.
SaveToken(t) ==
    /\ running # Down
    /\ Goto(t, "idle", "reload")
    /\ UNCHANGED <<files, app, failed, overlap, raw, mine, open, saving>>

\* Mutant: the file is read before the lock is taken.
ReadUnlocked(t) ==
    /\ Goto(t, "reload", "load")
    /\ raw' = [raw EXCEPT ![t] = file]
    /\ failed' = FALSE
    /\ UNCHANGED <<files, app, overlap, mine, open, saving>>

StartReload(t) ==
    /\ Goto(t, "reload", "load")
    /\ app_lock = Nobody /\ app_lock' = t
    /\ raw' = [raw EXCEPT ![t] = file]
    /\ failed' = FALSE
    /\ UNCHANGED <<files, running, store, lock, overlap, mine, open, saving>>

\* The new configuration, with a new ConfigStore: an object nobody is using.
FinishReload(t) ==
    /\ Goto(t, "load", "idle")
    /\ Loads(raw[t])
    /\ running' = Loaded(raw[t])
    /\ store' \in Store \ ({store} \cup {mine[r] : r \in Thread})
    /\ app_lock' = Nobody
    /\ raw' = [raw EXCEPT ![t] = None]
    /\ UNCHANGED <<files, lock, failed, overlap, mine, open, saving>>

ReloadFails(t) ==
    /\ pc[t] = "load" /\ ~Loads(raw[t])
    /\ Fail(t)
    /\ UNCHANGED files
-----------------------------------------------------------------------------
\* The process dies, in the middle of a file operation perhaps, and is started
\* again; it exits at once when the configuration does not load.
Crash ==
    /\ running' = IF Loads(file) THEN Loaded(file) ELSE Down
    /\ IF \E t \in Thread : pc[t] = "backup" THEN bak' \in {bak, Torn} ELSE UNCHANGED bak
    /\ app_lock' = Nobody /\ lock' = [o \in Store |-> Nobody]
    /\ failed' = FALSE
    /\ pc' = [t \in Thread |-> "idle"]
    /\ raw' = [t \in Thread |-> None]
    /\ open' = [t \in Thread |-> "closed"]
    /\ saving' = [t \in Thread |-> None] /\ mine' = [t \in Thread |-> None]
    /\ UNCHANGED <<file, tmp, secrets, store, overlap>>

Edit(t) == \/ ReadRaw(t) \/ Mutate(t) \/ MutationFails(t)
           \/ (\E s \in Source : OpenPassword(t, s)) \/ WritePassword(t)
Write(t) == \/ CallWrite(t) \/ Lock(t) \/ Validate(t) \/ ValidationFails(t)
            \/ Backup(t) \/ OpenTmp(t) \/ Dump(t) \/ Replace(t) \/ ReplaceFails(t)
Reload(t) == StartReload(t) \/ FinishReload(t) \/ ReloadFails(t) \/ SaveToken(t)

Next == (\E t \in Thread : Edit(t) \/ Write(t) \/ Reload(t)) \/ Crash

Spec == Init /\ [][Next]_vars
-----------------------------------------------------------------------------
\* Every variable stays within its type: whatever overlaps, no file of the
\* configuration ever holds values that the parser rejects as such.
ConfigTypeOK ==
    /\ file \in Config \cup {Torn} /\ {bak, tmp} \subseteq Config \cup {Missing, Torn}
    /\ secrets \in [Source -> Password \cup {Missing, Torn}]
    /\ running \in Configuration \cup {Down}
    /\ store \in Store /\ app_lock \in Thread \cup {Nobody}
    /\ lock \in [Store -> Thread \cup {Nobody}]
    /\ failed \in BOOLEAN /\ overlap \in BOOLEAN
    /\ pc \in [Thread -> {"idle", "mutate", "password", "write", "lock", "validate",
                          "backup", "open", "dump", "replace", "reload", "load"}]
    /\ raw \in [Thread -> Config \cup {Torn, Refused, None}]
    /\ saving \in [Thread -> Source \cup {None}] /\ mine \in [Thread -> Store \cup {None}]
    /\ open \in [Thread -> {"closed", "tmp", "config"}]

\* README "Configuration": every edit is validated before it is written, and
\* written atomically.  As long as edits do not overlap, config.yaml can be
\* parsed wherever the service dies, whatever reloads run beside the edit.
FileIsWhole == ~overlap => Consistent(file)

\* web.py:482-485: the configuration is read, edited and written by a request
\* while others reload.  As long as edits do not overlap, what is written is
\* one edit away from what it replaces: no earlier edit is undone.
EditKeepsOthers ==
    [][file' # file /\ ~overlap =>
          file' \in Edited(file) \cup {WithSource(file, s) : s \in Source}]_vars

\* The service is only ever unable to start because a password was cut off
\* while it was saved, as long as edits do not overlap.
DownOnlyByPassword ==
    running = Down /\ ~overlap =>
        Consistent(file) /\ \E s \in file.sources : secrets[s] = Torn

\* README "Configuration": the version an edit replaces is kept in the .bak,
\* as long as edits do not overlap.
BackupKept == [][file' # file /\ ~overlap => bak' = file]_vars

\* README "Configuration": the running service hot-reloads.  When all requests
\* are answered and none failed since the last reload began, it runs what the
\* files say, whichever edits and authorizations finished together.
ServiceRunsTheFile ==
    (\A t \in Thread : pc[t] = "idle") /\ ~failed /\ running # Down
        => running = Loaded(file)
=============================================================================
