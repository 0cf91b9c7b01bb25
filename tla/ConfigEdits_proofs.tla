-------------------------- MODULE ConfigEdits_proofs --------------------------
(***************************************************************************)
(* Proofs about ConfigEdits, for any number of users, sources, passwords   *)
(* and request threads.                                                    *)
(*                                                                         *)
(* Three inductive invariants, each on top of the one before: what is      *)
(* validated stays within the type; the one editor there is, as long as    *)
(* edits do not overlap, finds the files as it left them; and a difference *)
(* between the files and the service is somebody's to reload.              *)
(***************************************************************************)
EXTENDS ConfigEdits, TLAPS

\* The stages an edit has read, and has validated, a configuration in.
Validated == {"backup", "open", "dump", "replace"}

Typed ==
    /\ ConfigTypeOK
    /\ \A t \in Thread : pc[t] \in {"mutate"} \cup Validated => raw[t] \in Config

\* What one edit makes of a configuration.
OneEdit(c) == Edited(c) \cup {WithSource(c, s) : s \in Source}

\* What an editor that is alone knows of the files, stage by stage.
EditorHolds(t) ==
    /\ pc[t] = "mutate" => raw[t] = file
    /\ pc[t] \in {"password", "write", "lock", "validate"} \cup Validated
          => raw[t] \in OneEdit(file)
    /\ pc[t] \in Validated => Loads(raw[t])
    /\ pc[t] \in {"open", "dump", "replace"} => bak = file
    /\ pc[t] = "dump" => tmp = Torn
    /\ pc[t] = "replace" => tmp = raw[t]
    /\ open[t] = IF pc[t] \in {"dump", "replace"} THEN "tmp" ELSE "closed"

Alone ==
    ~overlap =>
        /\ Consistent(file)
        /\ \A s \in file.sources : secrets[s] \in Password \cup {Torn}
        /\ \A r, t \in Thread : Editing(r) /\ Editing(t) => r = t
        /\ \A t \in Thread : EditorHolds(t)

\* A service that cannot start answers nobody.
DownIsIdle ==
    running = Down =>
        /\ \A t \in Thread : pc[t] = "idle"
        /\ ~overlap => ~Loads(file)

\* Whoever touched the files has not come to its reload yet, or will fail.
Unsettled == failed \/ \E t \in Thread : pc[t] \notin {"idle", "mutate", "load"}

\* Reloads take turns; one that reads the file too early, or leaves the service
\* behind the files, is followed by another.
Settling ==
    /\ \A t \in Thread : pc[t] = "load" => app_lock = t
    /\ \A t \in Thread : pc[t] = "load" => raw[t] = file \/ Unsettled
    /\ \/ Unsettled \/ \E t \in Thread : pc[t] = "load"
       \/ running = Down \/ running = Loaded(file)
-----------------------------------------------------------------------------
(***************************************************************************)
(* Types.                                                                  *)
(***************************************************************************)
\* An edit of a configuration gives one, or values that are refused.
LEMMA EditsAreConfigs ==
    ASSUME NEW c \in Config
    PROVE  OneEdit(c) \subseteq Config \cup {Refused}
<1>1. ASSUME NEW u \in User
      PROVE  /\ [c EXCEPT !.users = @ \cup {u}] \in Config
             /\ WithoutUser(c, u) \in Config
             /\ [c EXCEPT !.admin = u] \in Config
  BY DEF Config, WithoutUser
<1>2. ASSUME NEW s \in Source
      PROVE  [c EXCEPT !.sources = @ \ {s}] \in Config /\ WithSource(c, s) \in Config
  BY DEF Config, WithSource
<1>3. c.users \subseteq User /\ c.sources \subseteq Source
  BY DEF Config
<1> QED BY <1>1, <1>2, <1>3 DEF OneEdit, Edited

\* What load_config accepts is what AppState.cfg can hold.
LEMMA LoadedIsConfiguration ==
    ASSUME ConfigTypeOK, NEW c, Loads(c)
    PROVE  Loaded(c) \in Configuration /\ Loaded(c) # Down
<1>1. c \in Config /\ c.sources \in SUBSET Source
  BY DEF Loads, Consistent, Config
<1>2. [s \in c.sources |-> secrets[s]] \in [c.sources -> Password]
  BY DEF Loads
<1>3. Loaded(c) \in Configuration
  BY <1>1, <1>2 DEF Loaded, Configuration
<1> QED BY <1>3, DownAssumption

LEMMA TypedInit == Init => Typed
<1> SUFFICES ASSUME Init PROVE Typed
  OBVIOUS
<1>1. PICK c \in Config : Loads(c) /\ file = c /\ running = Loaded(c)
  BY DEF Init
<1>2. [s \in c.sources |-> secrets[s]] \in [c.sources -> Password]
  BY <1>1 DEF Loads
<1>3. c.sources \in SUBSET Source
  BY <1>1 DEF Config
<1>4. running \in Configuration
  BY <1>1, <1>2, <1>3 DEF Loaded, Configuration
<1> QED BY <1>1, <1>4 DEF Init, Typed, ConfigTypeOK, Validated

\* An error leaves everything typed.
LEMMA FailKeepsType ==
    ASSUME Typed, NEW t \in Thread, Fail(t), UNCHANGED files
    PROVE  Typed'
BY DEF Typed, ConfigTypeOK, Validated, Fail, files

LEMMA EditKeepsType ==
    ASSUME Typed, NEW t \in Thread, Edit(t)
    PROVE  Typed'
<1>1. CASE ReadRaw(t)
  BY <1>1 DEF ReadRaw, Goto, Typed, ConfigTypeOK, Validated, files, app
<1>2. CASE Mutate(t)
  <2>1. PICK c \in Edited(raw[t]) : raw' = [raw EXCEPT ![t] = c]
    BY <1>2 DEF Mutate
  <2>2. c \in Config \cup {Refused}
    BY <1>2, <2>1, EditsAreConfigs DEF OneEdit, Typed, Mutate, Goto
  <2> QED BY <1>2, <2>1, <2>2
          DEF Mutate, Goto, Typed, ConfigTypeOK, Validated, files, app
<1>3. CASE MutationFails(t)
  BY <1>3 DEF MutationFails, Goto, Typed, ConfigTypeOK, Validated, files, app
<1>4. ASSUME NEW s \in Source, OpenPassword(t, s) PROVE Typed'
  <2>1. PICK c \in {WithSource(raw[t], s), Refused} : raw' = [raw EXCEPT ![t] = c]
    BY <1>4 DEF OpenPassword
  <2>2. c \in Config \cup {Refused}
    BY <1>4, <2>1, EditsAreConfigs DEF OneEdit, Typed, OpenPassword, Goto
  <2> QED BY <1>4, <2>1, <2>2
          DEF OpenPassword, Goto, Typed, ConfigTypeOK, Validated, app
<1>5. CASE WritePassword(t)
  BY <1>5 DEF WritePassword, Goto, Typed, ConfigTypeOK, Validated, app
<1> QED BY <1>1, <1>2, <1>3, <1>4, <1>5 DEF Edit

LEMMA WriteKeepsType ==
    ASSUME Typed, NEW t \in Thread, Write(t)
    PROVE  Typed'
<1>1. CASE CallWrite(t)
  BY <1>1 DEF CallWrite, Goto, Typed, ConfigTypeOK, Validated, files, app
<1>2. CASE Lock(t)
  BY <1>2 DEF Lock, Goto, Typed, ConfigTypeOK, Validated, files
<1>3. CASE Validate(t)
  BY <1>3 DEF Validate, Goto, Loads, Consistent, Typed, ConfigTypeOK, Validated, files, app
<1>4. CASE Backup(t)
  BY <1>4 DEF Backup, Goto, Typed, ConfigTypeOK, Validated, app
<1>5. CASE OpenTmp(t)
  BY <1>5 DEF OpenTmp, Goto, Typed, ConfigTypeOK, Validated, app
<1>6. CASE Dump(t)
  BY <1>6 DEF Dump, Dumped, Goto, Typed, ConfigTypeOK, Validated, app
<1>7. CASE Replace(t)
  BY <1>7 DEF Replace, Goto, Typed, ConfigTypeOK, Validated
<1>8. CASE ValidationFails(t) \/ ReplaceFails(t)
  BY <1>8, FailKeepsType DEF ValidationFails, ReplaceFails
<1> QED BY <1>1, <1>2, <1>3, <1>4, <1>5, <1>6, <1>7, <1>8 DEF Write

LEMMA ReloadKeepsType ==
    ASSUME Typed, NEW t \in Thread, Reload(t)
    PROVE  Typed'
<1>1. CASE SaveToken(t)
  BY <1>1 DEF SaveToken, Goto, Typed, ConfigTypeOK, Validated, files, app
<1>2. CASE StartReload(t)
  BY <1>2 DEF StartReload, Goto, Typed, ConfigTypeOK, Validated, files
<1>3. CASE FinishReload(t)
  <2>1. Loaded(raw[t]) \in Configuration
    BY <1>3, LoadedIsConfiguration DEF FinishReload, Typed
  <2> QED BY <1>3, <2>1 DEF FinishReload, Goto, Typed, ConfigTypeOK, Validated, files
<1>4. CASE ReloadFails(t)
  BY <1>4, FailKeepsType DEF ReloadFails
<1> QED BY <1>1, <1>2, <1>3, <1>4 DEF Reload

LEMMA TypedStep == Typed /\ [Next]_vars => Typed'
<1> SUFFICES ASSUME Typed, [Next]_vars PROVE Typed'
  OBVIOUS
<1>1. ASSUME NEW t \in Thread, Edit(t) \/ Write(t) \/ Reload(t) PROVE Typed'
  BY <1>1, EditKeepsType, WriteKeepsType, ReloadKeepsType
<1>2. CASE Crash
  <2>1. Loads(file) => Loaded(file) \in Configuration
    BY LoadedIsConfiguration DEF Typed
  <2>2. running' \in Configuration \cup {Down}
    BY <1>2, <2>1 DEF Crash
  <2> QED BY <1>2, <2>2 DEF Crash, Typed, ConfigTypeOK, Validated
<1>3. CASE UNCHANGED vars
  BY <1>3 DEF vars, files, app, handler, Typed, ConfigTypeOK, Validated
<1> QED BY <1>1, <1>2, <1>3 DEF Next
-----------------------------------------------------------------------------
(***************************************************************************)
(* The editor that is alone.                                               *)
(***************************************************************************)
LEMMA AloneInit == Init => Alone
<1> SUFFICES ASSUME Init PROVE Alone
  OBVIOUS
<1>1. Loads(file)
  BY DEF Init
<1>2. \A t \in Thread : pc[t] = "idle" /\ open[t] = "closed"
  BY DEF Init
<1>3. \A t \in Thread : ~Editing(t) /\ EditorHolds(t)
  BY <1>2 DEF Editing, EditorHolds, Validated
<1> QED BY <1>1, <1>3 DEF Alone, Loads

\* A step of the editor t, described by what it has to show of t and the files.
LEMMA EditorStep ==
    ASSUME Typed, Alone, NEW t \in Thread, ~overlap,
           Editing(t) \/ \A r \in Thread : ~Editing(r),
           Consistent(file)',
           \A s \in file'.sources : secrets'[s] \in Password \cup {Torn},
           EditorHolds(t)',
           \A r \in Thread : r # t => UNCHANGED <<pc[r], open[r]>>
    PROVE  Alone'
<1>1. ASSUME NEW r \in Thread, r # t PROVE ~Editing(r) /\ open[r] = "closed"
  BY <1>1 DEF Alone, Editing, EditorHolds
<1>2. ASSUME NEW r \in Thread, r # t PROVE ~Editing(r)' /\ EditorHolds(r)'
  BY <1>1, <1>2 DEF Editing, EditorHolds, Validated
<1> QED BY <1>2 DEF Alone

\* A step that touches neither the files nor any editor.
LEMMA NoEditorStep ==
    ASSUME Typed, Alone, NEW t \in Thread, UNCHANGED <<files, overlap>>,
           ~Editing(t), ~Editing(t)', open'[t] = open[t],
           \A r \in Thread : r # t => UNCHANGED <<pc[r], raw[r], open[r]>>
    PROVE  Alone'
<1> SUFFICES ASSUME ~overlap PROVE Alone'
  BY DEF Alone
<1>1. EditorHolds(t)'
  BY DEF Alone, EditorHolds, Editing, Validated
<1>2. ASSUME NEW r \in Thread, r # t PROVE EditorHolds(r)' /\ (Editing(r)' <=> Editing(r))
  BY <1>2 DEF Alone, EditorHolds, Editing, Validated, Loads, files
<1> QED BY <1>1, <1>2 DEF Alone, files

LEMMA ReadKeepsAlone ==
    ASSUME Typed, Alone, NEW t \in Thread, ReadRaw(t)
    PROVE  Alone'
<1> SUFFICES ASSUME ~overlap' PROVE Alone'
  BY DEF Alone
<1>1. ~overlap /\ \A r \in Thread : ~Editing(r)
  BY DEF ReadRaw
<1>2. pc'[t] = "mutate" /\ raw'[t] = file /\ UNCHANGED <<files, open>>
  BY DEF ReadRaw, Goto, Typed, ConfigTypeOK
<1>3. open[t] = "closed"
  BY <1>1 DEF Alone, EditorHolds, Editing
<1>4. EditorHolds(t)'
  BY <1>2, <1>3 DEF EditorHolds, Validated, files
<1>5. \A r \in Thread : r # t => UNCHANGED <<pc[r], open[r]>>
  BY DEF ReadRaw, Goto, Typed, ConfigTypeOK
<1> QED BY <1>1, <1>2, <1>4, <1>5, EditorStep DEF Alone, Consistent, files

LEMMA EditKeepsAlone ==
    ASSUME Typed, Alone, NEW t \in Thread, Edit(t)
    PROVE  Alone'
<1>6. overlap => overlap'
  BY DEF Edit, ReadRaw, Mutate, MutationFails, OpenPassword, WritePassword
<1> SUFFICES ASSUME ~overlap PROVE Alone'
  BY <1>6 DEF Alone
<1>0. /\ Consistent(file) /\ \A s \in file.sources : secrets[s] \in Password \cup {Torn}
      /\ EditorHolds(t)
  BY DEF Alone
<1>1. CASE ReadRaw(t)
  BY <1>1, ReadKeepsAlone
<1>2. CASE Mutate(t)
  <2>1. Editing(t) /\ pc'[t] = "write" /\ UNCHANGED <<files, open>>
    BY <1>2 DEF Mutate, Goto, Editing, Typed, ConfigTypeOK
  <2>2. raw'[t] \in OneEdit(file)
    BY <1>0, <1>2 DEF Mutate, Goto, EditorHolds, OneEdit, Typed, ConfigTypeOK
  <2>3. EditorHolds(t)'
    BY <1>0, <1>2, <2>1, <2>2 DEF Mutate, Goto, EditorHolds, Validated, files, OneEdit, Edited, WithSource, WithoutUser
  <2>4. \A r \in Thread : r # t => UNCHANGED <<pc[r], open[r]>>
    BY <1>2 DEF Mutate, Goto, Typed, ConfigTypeOK
  <2> QED BY <1>0, <2>1, <2>3, <2>4, EditorStep DEF Consistent, files
<1>3. CASE MutationFails(t)
  <2>1. Editing(t) /\ pc'[t] = "idle" /\ UNCHANGED <<files, open>>
    BY <1>3 DEF MutationFails, Goto, Editing, Typed, ConfigTypeOK
  <2>2. EditorHolds(t)'
    BY <1>0, <1>3, <2>1 DEF MutationFails, Goto, EditorHolds, Validated
  <2>3. \A r \in Thread : r # t => UNCHANGED <<pc[r], open[r]>>
    BY <1>3 DEF MutationFails, Goto, Typed, ConfigTypeOK
  <2> QED BY <1>0, <2>1, <2>2, <2>3, EditorStep DEF Consistent, files
<1>4. ASSUME NEW s \in Source, OpenPassword(t, s) PROVE Alone'
  <2>1. Editing(t) /\ pc'[t] = "password" /\ UNCHANGED <<file, open>>
    BY <1>4 DEF OpenPassword, Goto, Editing, Typed, ConfigTypeOK
  <2>2. raw'[t] \in OneEdit(file)
    BY <1>0, <1>4 DEF OpenPassword, Goto, EditorHolds, OneEdit, Edited, Typed, ConfigTypeOK
  <2>3. EditorHolds(t)'
    BY <1>0, <1>4, <2>1, <2>2 DEF OpenPassword, Goto, EditorHolds, Validated, OneEdit, Edited, WithSource, WithoutUser
  <2>4. \A r \in Thread : r # t => UNCHANGED <<pc[r], open[r]>>
    BY <1>4 DEF OpenPassword, Goto, Typed, ConfigTypeOK
  <2>5. \A x \in file'.sources : secrets'[x] \in Password \cup {Torn}
    BY <1>0, <1>4, <2>1 DEF OpenPassword, Consistent, Config, Typed, ConfigTypeOK
  <2> QED BY <1>0, <2>1, <2>3, <2>4, <2>5, EditorStep DEF Consistent
<1>5. CASE WritePassword(t)
  <2>1. Editing(t) /\ pc'[t] = "write" /\ UNCHANGED <<file, raw, open>>
    BY <1>5 DEF WritePassword, Goto, Editing, Typed, ConfigTypeOK
  <2>2. EditorHolds(t)'
    BY <1>0, <1>5, <2>1 DEF WritePassword, Goto, EditorHolds, Validated, OneEdit, Edited, WithSource, WithoutUser
  <2>3. \A r \in Thread : r # t => UNCHANGED <<pc[r], open[r]>>
    BY <1>5 DEF WritePassword, Goto, Typed, ConfigTypeOK
  <2>4. \A x \in file'.sources : secrets'[x] \in Password \cup {Torn}
    BY <1>0, <1>5, <2>1 DEF WritePassword, Consistent, Config, Typed, ConfigTypeOK
  <2> QED BY <1>0, <2>1, <2>2, <2>3, <2>4, EditorStep DEF Consistent
<1> QED BY <1>1, <1>2, <1>3, <1>4, <1>5 DEF Edit

\* write_raw of the one editor, up to the error or the replacement it ends with.
LEMMA WriteKeepsAlone ==
    ASSUME Typed, Alone, NEW t \in Thread, Write(t)
    PROVE  Alone'
<1>0. UNCHANGED overlap
  BY DEF Write, CallWrite, Lock, Validate, ValidationFails, Backup, OpenTmp, Dump,
     Replace, ReplaceFails, Fail
<1> SUFFICES ASSUME ~overlap PROVE Alone'
  BY <1>0 DEF Alone
<1>1. /\ Consistent(file) /\ \A s \in file.sources : secrets[s] \in Password \cup {Torn}
      /\ EditorHolds(t)
  BY DEF Alone
<1>2. Editing(t)
  BY DEF Editing, Write, CallWrite, Lock, Validate, ValidationFails, Backup, OpenTmp, Dump,
     Replace, ReplaceFails, Goto
<1>3. \A r \in Thread : r # t => UNCHANGED pc[r]
  BY DEF Write, CallWrite, Lock, Validate, ValidationFails, Backup, OpenTmp, Dump,
     Replace, ReplaceFails, Fail, Goto, Typed, ConfigTypeOK
<1>4. \A r \in Thread : r # t => UNCHANGED open[r]
  <2>1. \A r \in Thread : r # t => open[r] = "closed"
    BY <1>2 DEF Alone, EditorHolds, Editing
  <2> QED BY <2>1 DEF Write, CallWrite, Lock, Validate, ValidationFails, Backup, OpenTmp,
          Dump, Replace, ReplaceFails, Fail, Typed, ConfigTypeOK
<1>5. CASE CallWrite(t) \/ Lock(t) \/ Validate(t)
  <2>1. UNCHANGED <<files, raw, open>>
    BY <1>5 DEF CallWrite, Lock, Validate
  <2>2. pc'[t] \in {"lock", "validate", "backup"}
    BY <1>5 DEF CallWrite, Lock, Validate, Goto, Typed, ConfigTypeOK
  <2>3. pc'[t] = "backup" => Loads(raw[t])
    BY <1>5 DEF CallWrite, Lock, Validate, Goto, Typed, ConfigTypeOK
  <2>4. raw[t] \in OneEdit(file) /\ open[t] = "closed"
    BY <1>1, <1>5 DEF CallWrite, Lock, Validate, Goto, EditorHolds
  <2>5. EditorHolds(t)'
    BY <2>1, <2>2, <2>3, <2>4
       DEF EditorHolds, Validated, OneEdit, Edited, WithSource, WithoutUser, Loads, Consistent, files
  <2> QED BY <1>1, <1>2, <1>3, <1>4, <2>1, <2>5, EditorStep DEF Consistent, files
<1>6. CASE Backup(t) \/ OpenTmp(t) \/ Dump(t)
  <2>1. UNCHANGED <<file, secrets, raw>>
    BY <1>1, <1>6 DEF Backup, OpenTmp, Dump, Goto, EditorHolds
  <2>2. raw[t] \in OneEdit(file) /\ Loads(raw[t])
    BY <1>1, <1>6 DEF Backup, OpenTmp, Dump, Goto, EditorHolds, Validated
  <2>3. /\ pc'[t] \in {"open", "dump", "replace"}
        /\ bak' = file
        /\ open'[t] = IF pc'[t] \in {"dump", "replace"} THEN "tmp" ELSE "closed"
    BY <1>1, <1>6 DEF Backup, OpenTmp, Dump, Goto, EditorHolds, Validated, Typed, ConfigTypeOK
  <2>4. pc'[t] = "dump" => tmp' = Torn
    BY <1>6 DEF Backup, OpenTmp, Dump, Goto, Typed, ConfigTypeOK
  <2>5. pc'[t] = "replace" => tmp' = raw[t]
    BY <1>1, <1>6 DEF Backup, OpenTmp, Dump, Dumped, Goto, EditorHolds, Typed, ConfigTypeOK
  <2>6. EditorHolds(t)'
    BY <2>1, <2>2, <2>3, <2>4, <2>5
       DEF EditorHolds, Validated, OneEdit, Edited, WithSource, WithoutUser, Loads, Consistent
  <2> QED BY <1>1, <1>2, <1>3, <1>4, <2>1, <2>6, EditorStep DEF Consistent
<1>7. CASE Replace(t)
  <2>1. file' = raw[t] /\ Loads(raw[t]) /\ UNCHANGED secrets
    BY <1>1, <1>7 DEF Replace, Goto, EditorHolds, Validated
  <2>2. pc'[t] = "reload" /\ open'[t] = "closed"
    BY <1>7 DEF Replace, Goto, Typed, ConfigTypeOK
  <2>3. EditorHolds(t)'
    BY <2>2 DEF EditorHolds, Validated
  <2> QED BY <1>2, <1>3, <1>4, <2>1, <2>3, EditorStep DEF Loads, Consistent
<1>8. CASE ValidationFails(t) \/ ReplaceFails(t)
  <2>1. pc'[t] = "idle" /\ open'[t] = "closed" /\ UNCHANGED files
    BY <1>8 DEF ValidationFails, ReplaceFails, Fail, Typed, ConfigTypeOK
  <2>2. EditorHolds(t)'
    BY <2>1 DEF EditorHolds, Validated
  <2> QED BY <1>1, <1>2, <1>3, <1>4, <2>1, <2>2, EditorStep DEF Consistent, files
<1> QED BY <1>5, <1>6, <1>7, <1>8 DEF Write

LEMMA ReloadKeepsAlone ==
    ASSUME Typed, Alone, NEW t \in Thread, Reload(t)
    PROVE  Alone'
<1>1. UNCHANGED <<files, overlap>> /\ ~Editing(t) /\ ~Editing(t)'
  BY DEF Reload, SaveToken, StartReload, FinishReload, ReloadFails, Fail, Goto, Editing,
     Typed, ConfigTypeOK
<1>2. \A r \in Thread : r # t => UNCHANGED <<pc[r], raw[r], open[r]>>
  BY DEF Reload, SaveToken, StartReload, FinishReload, ReloadFails, Fail, Goto,
     Typed, ConfigTypeOK
<1>3. ~overlap => open'[t] = open[t]
  BY <1>1 DEF Alone, EditorHolds, Editing, Reload, SaveToken, StartReload, FinishReload,
     ReloadFails, Fail, Typed, ConfigTypeOK
<1>4. CASE ~overlap
  BY <1>1, <1>2, <1>3, <1>4, NoEditorStep
<1>5. CASE overlap
  BY <1>1, <1>5 DEF Alone
<1> QED BY <1>4, <1>5

LEMMA CrashKeepsAlone ==
    ASSUME Typed, Alone, Crash
    PROVE  Alone'
<1> SUFFICES ASSUME ~overlap PROVE Alone'
  BY DEF Alone, Crash
<1>1. \A t \in Thread : pc'[t] = "idle" /\ open'[t] = "closed"
  BY DEF Crash
<1>2. \A t \in Thread : ~Editing(t)' /\ EditorHolds(t)'
  BY <1>1 DEF Editing, EditorHolds, Validated
<1> QED BY <1>2 DEF Alone, Crash, Consistent

LEMMA AloneStep == Typed /\ Alone /\ [Next]_vars => Alone'
<1> SUFFICES ASSUME Typed, Alone, [Next]_vars PROVE Alone'
  OBVIOUS
<1>1. ASSUME NEW t \in Thread, Edit(t) \/ Write(t) \/ Reload(t) PROVE Alone'
  BY <1>1, EditKeepsAlone, WriteKeepsAlone, ReloadKeepsAlone
<1>2. CASE Crash
  BY <1>2, CrashKeepsAlone
<1>3. CASE UNCHANGED vars
  BY <1>3 DEF vars, files, handler, Alone, EditorHolds, Editing, Validated, OneEdit, Edited,
     WithSource, WithoutUser, Loads, Consistent
<1> QED BY <1>1, <1>2, <1>3 DEF Next
-----------------------------------------------------------------------------
(***************************************************************************)
(* The service that cannot start.                                          *)
(***************************************************************************)
LEMMA DownInit == Init => DownIsIdle
<1> SUFFICES ASSUME Init PROVE running # Down
  BY DEF DownIsIdle
<1>1. PICK c \in Config : Loads(c) /\ running = Loaded(c)
  BY DEF Init
<1> QED BY <1>1, TypedInit, LoadedIsConfiguration DEF Typed

LEMMA DownStep == Typed /\ DownIsIdle /\ [Next]_vars => DownIsIdle'
<1> SUFFICES ASSUME Typed, DownIsIdle, [Next]_vars PROVE DownIsIdle'
  OBVIOUS
\* Whoever takes a step finds the service running, and leaves it running.
<1>1. ASSUME NEW t \in Thread, Edit(t) \/ Write(t) \/ Reload(t) PROVE running' # Down
  <2>1. running # Down
    BY <1>1 DEF DownIsIdle, Edit, Write, Reload, ReadRaw, Mutate, MutationFails,
       OpenPassword, WritePassword, CallWrite, Lock, Validate, ValidationFails, Backup,
       OpenTmp, Dump, Replace, ReplaceFails, SaveToken, StartReload, FinishReload,
       ReloadFails, Goto
  <2>2. CASE FinishReload(t)
    BY <2>2, LoadedIsConfiguration DEF FinishReload, Typed
  <2>3. CASE ~FinishReload(t)
    BY <1>1, <2>1, <2>3 DEF Edit, Write, Reload, ReadRaw, Mutate, MutationFails,
       OpenPassword, WritePassword, CallWrite, Lock, Validate, ValidationFails, Backup,
       OpenTmp, Dump, Replace, ReplaceFails, SaveToken, StartReload, ReloadFails, Fail, app
  <2> QED BY <2>2, <2>3
<1>2. CASE Crash
  <2>1. running' = Down => ~Loads(file)
    BY <1>2, LoadedIsConfiguration DEF Crash, Typed
  <2> QED BY <1>2, <2>1 DEF Crash, DownIsIdle, Loads, Consistent
<1>3. CASE UNCHANGED vars
  BY <1>3 DEF vars, files, app, handler, DownIsIdle, Loads, Consistent
<1> QED BY <1>1, <1>2, <1>3 DEF Next, DownIsIdle
-----------------------------------------------------------------------------
(***************************************************************************)
(* The service follows the files.                                          *)
(***************************************************************************)
LEMMA SettlingInit == Init => Settling
BY DEF Init, Settling

\* A step of a thread on the way from a changed file to its reload.
LEMMA UnsettledStep ==
    ASSUME Typed, Settling, NEW t \in Thread,
           pc'[t] \notin {"idle", "mutate", "load"} \/ failed',
           \A r \in Thread : r # t => UNCHANGED <<pc[r], raw[r]>>,
           pc'[t] # "load", app_lock' = app_lock \/ app_lock = t
    PROVE  Settling'
<1>1. Unsettled'
  BY DEF Unsettled
<1>2. ASSUME NEW r \in Thread, pc'[r] = "load" PROVE app_lock' = r
  BY <1>2 DEF Settling
<1> QED BY <1>1, <1>2 DEF Settling

LEMMA EditSettles ==
    ASSUME Typed, Settling, NEW t \in Thread, Edit(t)
    PROVE  Settling'
<1>0. /\ \A r \in Thread : r # t => UNCHANGED <<pc[r], raw[r]>>
      /\ UNCHANGED <<app, file, failed>>
  BY DEF Edit, ReadRaw, Mutate, MutationFails, OpenPassword, WritePassword, Goto, files,
     Typed, ConfigTypeOK
<1>1. CASE \/ Mutate(t) \/ WritePassword(t) \/ \E s \in Source : OpenPassword(t, s)
  <2>1. pc[t] # "load" /\ pc'[t] \in {"write", "password"}
    BY <1>1 DEF Mutate, WritePassword, OpenPassword, Goto, Typed, ConfigTypeOK
  <2> QED BY <1>0, <2>1, UnsettledStep DEF app
<1>2. CASE ReadRaw(t) \/ MutationFails(t)
  <2>1. /\ pc[t] \in {"idle", "mutate"} /\ pc'[t] \in {"idle", "mutate"}
        /\ UNCHANGED secrets
    BY <1>2 DEF ReadRaw, MutationFails, Goto, files, Typed, ConfigTypeOK
  <2>2. Unsettled' <=> Unsettled
    BY <1>0, <2>1 DEF Unsettled
  <2>3. Loaded(file)' = Loaded(file)
    BY <1>0, <2>1 DEF Loaded
  <2>4. ASSUME NEW r \in Thread
        PROVE  /\ pc'[r] = "load" <=> pc[r] = "load"
               /\ pc[r] = "load" => raw'[r] = raw[r]
    <3>1. CASE r = t
      BY <2>1, <3>1
    <3>2. CASE r # t
      BY <1>0, <3>2
    <3> QED BY <3>1, <3>2
  <2> QED BY <1>0, <2>2, <2>3, <2>4 DEF Settling, app
<1> QED BY <1>1, <1>2 DEF Edit

LEMMA WriteSettles ==
    ASSUME Typed, Settling, NEW t \in Thread, Write(t)
    PROVE  Settling'
<1>1. \A r \in Thread : r # t => UNCHANGED <<pc[r], raw[r]>>
  BY DEF Write, CallWrite, Lock, Validate, ValidationFails, Backup, OpenTmp, Dump,
     Replace, ReplaceFails, Fail, Goto, Typed, ConfigTypeOK
<1>2. pc'[t] \notin {"idle", "mutate", "load"} \/ failed'
  BY DEF Write, CallWrite, Lock, Validate, ValidationFails, Backup, OpenTmp, Dump,
     Replace, ReplaceFails, Fail, Goto, Typed, ConfigTypeOK
<1>3. pc[t] # "load" /\ (app_lock' = app_lock \/ app_lock = t)
  BY DEF Write, CallWrite, Lock, Validate, ValidationFails, Backup, OpenTmp, Dump,
     Replace, ReplaceFails, Fail, Goto, app
<1>4. pc'[t] # "load"
  BY DEF Write, CallWrite, Lock, Validate, ValidationFails, Backup, OpenTmp, Dump,
     Replace, ReplaceFails, Fail, Goto, Typed, ConfigTypeOK
<1> QED BY <1>1, <1>2, <1>3, <1>4, UnsettledStep

LEMMA ReloadSettles ==
    ASSUME Typed, Settling, NEW t \in Thread, Reload(t)
    PROVE  Settling'
<1>1. \A r \in Thread : r # t => UNCHANGED <<pc[r], raw[r]>>
  BY DEF Reload, SaveToken, StartReload, FinishReload, ReloadFails, Fail, Goto,
     Typed, ConfigTypeOK
<1>2. CASE SaveToken(t)
  BY <1>1, <1>2, UnsettledStep DEF SaveToken, Goto, app, Typed, ConfigTypeOK
<1>3. CASE ReloadFails(t)
  BY <1>1, <1>3, UnsettledStep DEF ReloadFails, Fail, Typed, ConfigTypeOK
<1>4. CASE StartReload(t)
  <2>1. pc'[t] = "load" /\ raw'[t] = file' /\ app_lock' = t
    BY <1>4 DEF StartReload, Goto, files, Typed, ConfigTypeOK
  <2>2. \A r \in Thread : pc[r] # "load"
    BY <1>4, ConfigAssumption DEF StartReload, Settling
  <2> QED BY <1>1, <2>1, <2>2 DEF Settling
<1>5. CASE FinishReload(t)
  <2>1. \A r \in Thread : pc'[r] # "load"
    BY <1>1, <1>5 DEF FinishReload, Goto, Settling, Typed, ConfigTypeOK
  <2>2. running' = Loaded(raw[t]) /\ UNCHANGED <<files, failed>> /\ pc[t] = "load"
    BY <1>5 DEF FinishReload, Goto
  <2>3. CASE raw[t] = file
    <3>1. running' = Loaded(file)'
      BY <2>2, <2>3 DEF Loaded, files
    <3> QED BY <2>1, <3>1 DEF Settling
  <2>4. CASE Unsettled
    BY <1>1, <2>1, <2>2, <2>4 DEF Settling, Unsettled
  <2> QED BY <2>2, <2>3, <2>4 DEF Settling
<1> QED BY <1>2, <1>3, <1>4, <1>5 DEF Reload

LEMMA SettlingStep == Typed /\ Settling /\ [Next]_vars => Settling'
<1> SUFFICES ASSUME Typed, Settling, [Next]_vars PROVE Settling'
  OBVIOUS
<1>1. ASSUME NEW t \in Thread, Edit(t) \/ Write(t) \/ Reload(t) PROVE Settling'
  BY <1>1, EditSettles, WriteSettles, ReloadSettles
<1>2. CASE Crash
  <2>1. \A t \in Thread : pc'[t] = "idle"
    BY <1>2 DEF Crash
  <2>2. running' = Down \/ running' = Loaded(file)'
    BY <1>2 DEF Crash, Loaded
  <2> QED BY <2>1, <2>2 DEF Settling
<1>3. CASE UNCHANGED vars
  <2>1. Loaded(file)' = Loaded(file)
    BY <1>3 DEF vars, files, Loaded
  <2> QED BY <1>3, <2>1 DEF vars, files, app, handler, Settling, Unsettled
<1> QED BY <1>1, <1>2, <1>3 DEF Next
-----------------------------------------------------------------------------
(***************************************************************************)
(* Theorems.                                                               *)
(***************************************************************************)
\* The inductive invariant of the edits: every validated configuration is one,
\* an editor that is alone finds the files as it left them, nobody works for a
\* service that cannot start, and whatever the service does not run yet is
\* somebody's to reload.
THEOREM EditsInvariant == Spec => [](Typed /\ Alone /\ DownIsIdle /\ Settling)
<1>1. Init => Typed /\ Alone /\ DownIsIdle /\ Settling
  BY TypedInit, AloneInit, DownInit, SettlingInit
<1>2. Typed /\ Alone /\ DownIsIdle /\ Settling /\ [Next]_vars
         => (Typed /\ Alone /\ DownIsIdle /\ Settling)'
  BY TypedStep, AloneStep, DownStep, SettlingStep
<1> QED BY <1>1, <1>2, PTL DEF Spec

\* Every variable of the editor stays within its type; config.yaml, its backup
\* and its temporary file never hold refused values, whatever edits overlap.
THEOREM ConfigTypeCorrect == Spec => []ConfigTypeOK
<1>1. Typed => ConfigTypeOK
  BY DEF Typed
<1> QED BY <1>1, EditsInvariant, PTL

\* README "Configuration", validated and atomic: as long as edits do not overlap,
\* config.yaml can be parsed wherever the service dies.
THEOREM FileStaysWhole == Spec => []FileIsWhole
<1>1. Alone => FileIsWhole
  BY DEF Alone, FileIsWhole
<1> QED BY <1>1, EditsInvariant, PTL

\* The service is only ever down because a password was cut off while it was
\* saved, as long as edits do not overlap.
THEOREM DownOnlyByCutPassword == Spec => []DownOnlyByPassword
<1>1. Alone /\ DownIsIdle => DownOnlyByPassword
  BY DEF Alone, DownIsIdle, DownOnlyByPassword, Loads
<1> QED BY <1>1, EditsInvariant, PTL

\* README "Configuration", hot reload: when all requests are answered and none
\* failed since the last reload began, the service runs what the files say,
\* whichever edits and authorizations overlapped.
THEOREM ServiceFollowsFile == Spec => []ServiceRunsTheFile
<1>1. Settling => ServiceRunsTheFile
  BY DEF Settling, Unsettled, ServiceRunsTheFile
<1> QED BY <1>1, EditsInvariant, PTL

\* config.yaml is written by the replacement at the end of an edit alone.
LEMMA FileChanges ==
    ASSUME Typed, Alone, [Next]_vars, file' # file, ~overlap
    PROVE  \E t \in Thread : Replace(t) /\ pc[t] = "replace" /\ file' = raw[t]
<1>1. ~Crash /\ ~UNCHANGED vars
  BY DEF Crash, vars, files
<1>2. PICK t \in Thread : Edit(t) \/ Write(t) \/ Reload(t)
  BY <1>1 DEF Next
<1>3. Dump(t) \/ Replace(t)
  BY <1>2 DEF Edit, Write, Reload, ReadRaw, Mutate, MutationFails, OpenPassword,
     WritePassword, CallWrite, Lock, Validate, ValidationFails, Backup, OpenTmp,
     ReplaceFails, SaveToken, StartReload, FinishReload, ReloadFails, files
<1>4. ~Dump(t)
  BY DEF Alone, EditorHolds, Dump, Goto
<1> QED BY <1>3, <1>4 DEF Replace, Goto, Alone, EditorHolds

\* README "Configuration": the version that an edit replaces is in the .bak, as
\* long as edits do not overlap.
THEOREM BackupIsKept == Spec => BackupKept
<1>1. Typed /\ Alone /\ [Next]_vars => [file' # file /\ ~overlap => bak' = file]_vars
  BY FileChanges DEF Alone, EditorHolds, Replace
<1> QED BY <1>1, EditsInvariant, PTL DEF Spec, BackupKept

\* web.py:482-485: what an edit writes is one edit away from what it replaces, as
\* long as edits do not overlap: no reload between its steps makes it undo one.
THEOREM EditsKeepOthers == Spec => EditKeepsOthers
<1>1. Typed /\ Alone /\ [Next]_vars =>
         [file' # file /\ ~overlap =>
             file' \in Edited(file) \cup {WithSource(file, s) : s \in Source}]_vars
  BY FileChanges DEF Alone, EditorHolds, Validated, OneEdit
<1> QED BY <1>1, EditsInvariant, PTL DEF Spec, EditKeepsOthers
=============================================================================
