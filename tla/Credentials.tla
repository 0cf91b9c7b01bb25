------------------------------ MODULE Credentials ------------------------------
(***************************************************************************)
(* The OAuth token of one user: the token file, the GmailDestination       *)
(* objects that cache and refresh it (gmail_dest.py), the authorizations   *)
(* of the web UI (web.py, _oauth_start and _oauth_finish) and of the       *)
(* command line (authorize.py) that write it, and AppState.reload.         *)
(*                                                                         *)
(* A Grant is what an authorization yields, a refresh token; Google        *)
(* honours it until it is revoked or expires.  When an access token, good  *)
(* for an hour, runs out between two uses is left open.  Identities of     *)
(* grants and of objects nobody refers to any more are used again.         *)
(***************************************************************************)
CONSTANTS
    Thread,    \* threads that deliver to this user: polls, alerts, start-up check
    Authorizer,  \* authorizations that can be under way at a time
    Dest,      \* identities of GmailDestination objects (each has a lock)
    Grant,
    Missing, Torn,  \* a file that is not there, or is not whole
    NoGrant, NoDest, Nobody

Actor == Thread \cup Authorizer

ASSUME CredentialsAssumption ==
    /\ Thread \cap Authorizer = {}
    /\ {Missing, Torn, NoGrant} \cap Grant = {}
    /\ Missing # Torn /\ NoGrant \notin {Missing, Torn}
    /\ Dest # {} /\ NoDest \notin Dest /\ Nobody \notin Thread

VARIABLES
    live,       \* the grants Google honours
    file, tmp,  \* token_file and token_file.tmp
    current,    \* AppState.dests[user]
    creds,      \* creds[d]: _creds of a destination
    lock,       \* lock[d]: the thread that holds its _lock
    pc,
    dest,       \* dest[t]: the destination thread t was started with
    handle,     \* handle[a]: the file that a's open handle refers to
    granted,    \* granted[r]: what authorization r obtained
    \* history: the grant of the last authorization in the web UI; a grant that
    \* is not the latest has been saved since it began; two have written at a
    \* time, or one was cut off
    latest, overtaken, clash

files == <<file, tmp>>
app == <<current, creds, lock>>
history == <<latest, overtaken, clash>>
vars == <<live, files, app, pc, dest, handle, granted, history>>

Init ==
    /\ file \in Grant \cup {Missing} /\ tmp = Missing
    /\ live \in SUBSET (Grant \cap {file})
    /\ current = CHOOSE d \in Dest : TRUE
    /\ creds = [d \in Dest |-> NoGrant] /\ lock = [d \in Dest |-> Nobody]
    /\ pc = [a \in Actor |-> "idle"]
    /\ dest = [t \in Thread |-> NoDest]
    /\ handle = [a \in Actor |-> "closed"]
    /\ granted = [r \in Authorizer |-> NoGrant]
    /\ latest = file /\ overtaken = FALSE /\ clash = FALSE

Goto(a, from, to) == pc[a] = from /\ pc' = [pc EXCEPT ![a] = to]

\* A thread drops its destination: an object nobody refers to is forgotten.
Leave(t, cs) ==
    /\ dest' = [dest EXCEPT ![t] = NoDest]
    /\ creds' = [d \in Dest |-> IF d \in {current} \cup {dest'[s] : s \in Thread}
                                THEN cs[d] ELSE NoGrant]

\* After an answer, or an error, the poll goes on, retries or ends.
GoOn(t, from, cs) ==
    /\ pc[t] = from
    /\ \/ pc' = [pc EXCEPT ![t] = "use"] /\ creds' = cs /\ UNCHANGED dest
       \/ pc' = [pc EXCEPT ![t] = "idle"] /\ Leave(t, cs)
-----------------------------------------------------------------------------
(***************************************************************************)
(* GmailDestination.credentials, called for every request, under the lock  *)
(* of the destination the thread was started with.                         *)
(***************************************************************************)
\* dests[src.user], of the snapshot the main loop took.
Start(t) ==
    /\ Goto(t, "idle", "use")
    /\ dest' = [dest EXCEPT ![t] = current]
    /\ UNCHANGED <<live, files, app, handle, granted, history>>

\* Mutant: a file that cannot be parsed is not caught.
Exists(d) == creds[d] # NoGrant \/ file # Missing

\* The file is read once per destination.
Loaded(d) == creds[d] # NoGrant \/ file \in Grant
Load(d) == [creds EXCEPT ![d] = IF @ = NoGrant THEN file ELSE @]

\* The access token is still good; then the request is made: delivered, if the
\* grant is honoured.  If not, the refresh that the client library attempts is
\* rejected inside the request, _call does not map that error, and the message
\* counts as rejected.
Valid(t) ==
    /\ pc[t] = "use" /\ lock[dest[t]] = Nobody /\ Loaded(dest[t])
    /\ GoOn(t, "use", Load(dest[t]))
    /\ UNCHANGED <<live, files, current, lock, handle, granted, history>>

\* Mutant: the lock is not taken.
ExpiredUnlocked(t) ==
    /\ Goto(t, "use", "refresh")
    /\ Loaded(dest[t]) /\ creds' = Load(dest[t])
    /\ UNCHANGED <<live, files, current, lock, dest, handle, granted, history>>

\* The access token has run out.
Expired(t) ==
    /\ Goto(t, "use", "refresh")
    /\ lock[dest[t]] = Nobody /\ lock' = [lock EXCEPT ![dest[t]] = t]
    /\ Loaded(dest[t]) /\ creds' = Load(dest[t])
    /\ UNCHANGED <<live, files, current, dest, handle, granted, history>>

\* No token file, or one that cannot be parsed: ReauthNeeded, as for a token that
\* is neither valid nor refreshable.  (authorize.py:45 asks for a grant that can be
\* refreshed.)
NoToken(t) ==
    /\ Goto(t, "use", "reauth")
    /\ lock[dest[t]] = Nobody /\ ~Loaded(dest[t])
    /\ UNCHANGED <<live, files, app, dest, handle, granted, history>>

\* Mutant: the lock is not given back.
KeepLock(t) == UNCHANGED lock

Release(t) == lock' = [lock EXCEPT ![dest[t]] = Nobody]

\* RefreshError: ReauthNeeded; the cached credentials stay.
RefreshRejected(t) ==
    /\ Goto(t, "refresh", "reauth")
    /\ creds[dest[t]] \notin live
    /\ Release(t)
    /\ UNCHANGED <<live, files, current, creds, dest, handle, granted, history>>

\* Any other error of the refresh is transient.
RefreshFails(t) ==
    /\ GoOn(t, "refresh", creds)
    /\ Release(t)
    /\ UNCHANGED <<live, files, current, handle, granted, history>>

\* sync_source records the failure of the source and of the destination.
ReportReauth(t) ==
    /\ Goto(t, "reauth", "idle")
    /\ Leave(t, creds)
    /\ UNCHANGED <<live, files, current, lock, handle, granted, history>>
-----------------------------------------------------------------------------
(***************************************************************************)
(* _save_token of a refreshed token: token_file.tmp, then os.replace.  Old *)
(* and new destinations share the file, not the lock.                      *)
(***************************************************************************)
Stale(t) == creds[dest[t]] # latest
Writing(r) == pc[r] = "write"

\* The refresh succeeds, token_file.tmp is opened.
Refreshed(t) ==
    /\ Goto(t, "refresh", "save")
    /\ creds[dest[t]] \in live
    /\ tmp' = Torn
    /\ handle' = [handle EXCEPT ![t] = "tmp"]
    /\ clash' = (clash \/ \E s \in Thread : handle[s] # "closed" /\ dest[s] # dest[t])
    /\ UNCHANGED <<live, file, app, dest, granted, latest, overtaken>>

\* Over what another has written meanwhile, two tokens may mix.
Written(content, g) == IF content = Torn THEN {g} ELSE {g, Torn}

WriteTmp(t) ==
    LET g == creds[dest[t]] IN
    /\ Goto(t, "save", "replace")
    /\ \/ handle[t] = "tmp" /\ tmp' \in Written(tmp, g) /\ UNCHANGED <<file, overtaken>>
       \/ /\ handle[t] = "file" /\ file' \in Written(file, g) /\ UNCHANGED tmp
          /\ overtaken' = (overtaken \/ Stale(t))
       \/ handle[t] = "lost" /\ UNCHANGED <<files, overtaken>>
    /\ UNCHANGED <<live, app, dest, handle, granted, latest, clash>>

\* The new file is in place and the request is made.  Handles others hold on
\* token_file.tmp move with it; those on the token file that was there refer to
\* no file any more.
Replace(t) ==
    /\ GoOn(t, "replace", creds)
    /\ tmp # Missing /\ tmp' = Missing /\ file' = tmp
    /\ handle' = [a \in Actor |->
          IF a = t THEN "closed"
          ELSE IF handle[a] = "tmp" THEN "file"
          ELSE IF handle[a] = "file" THEN "lost" ELSE handle[a]]
    /\ overtaken' = (overtaken \/ Stale(t) \/ \E r \in Authorizer : Writing(r))
    /\ Release(t)
    /\ UNCHANGED <<live, current, granted, latest, clash>>

\* Another destination moved token_file.tmp: an OSError outside _call, the
\* message counts as rejected.
ReplaceFails(t) ==
    /\ tmp = Missing
    /\ GoOn(t, "replace", creds)
    /\ handle' = [handle EXCEPT ![t] = "closed"]
    /\ Release(t)
    /\ UNCHANGED <<live, files, current, granted, history>>
-----------------------------------------------------------------------------
(***************************************************************************)
(* Authorizations.                                                         *)
(***************************************************************************)
InUse == {current} \cup {dest[t] : t \in Thread}
UnusedGrants == Grant \ ({file, tmp, latest} \cup {granted[r] : r \in Authorizer}
                         \cup {creds[d] : d \in InUse \ {NoDest}})

\* The consent is exchanged for a grant, once: _oauth_finish takes the flow out
\* of pending_flows, the command line has its own.
Exchange(r) ==
    /\ Goto(r, "idle", "open")
    /\ \E g \in UnusedGrants : /\ granted' = [granted EXCEPT ![r] = g]
                               /\ live' = live \cup {g}
    /\ UNCHANGED <<files, app, dest, handle, history>>

\* O_TRUNC: the token file is empty until the new token is written.
Open(r) ==
    /\ Goto(r, "open", "write")
    /\ file' = Torn
    /\ handle' = [handle EXCEPT ![r] = "file"]
    /\ overtaken' = (\E s \in Authorizer : Writing(s))
    /\ clash' = (clash \/ \E a \in Actor : handle[a] = "file")
    /\ UNCHANGED <<live, tmp, app, dest, granted, latest>>

Write(r, to) ==
    /\ Goto(r, "write", to)
    /\ IF handle[r] = "file" THEN file' \in Written(file, granted[r]) ELSE UNCHANGED file
    /\ handle' = [handle EXCEPT ![r] = "closed"]
    /\ granted' = [granted EXCEPT ![r] = NoGrant]
    /\ UNCHANGED <<live, tmp, app, dest, clash>>

\* The web UI reloads when it has written, the command line is done: a running
\* service that has cached credentials keeps them.
WriteWeb(r) == Write(r, "reload") /\ latest' = granted[r] /\ UNCHANGED overtaken
WriteCli(r) == Write(r, "idle") /\ overtaken' = TRUE /\ UNCHANGED latest

\* Mutant: the destinations are kept.
KeepDestination == UNCHANGED <<current, creds>>

\* _build_dests: a new object without credentials; threads keep the one they
\* were started with.
NewDestination ==
    LET held == {dest[t] : t \in Thread}
    IN /\ \E d \in Dest : d \notin held
       /\ current' = CHOOSE d \in Dest : d \notin held
       /\ creds' = [d \in Dest |-> IF d \in held THEN creds[d] ELSE NoGrant]

\* app.reload after the authorization, ...
Reload(r) ==
    /\ Goto(r, "reload", "idle")
    /\ NewDestination
    /\ UNCHANGED <<live, files, lock, dest, handle, granted, history>>

\* ... or after an edit of the configuration.
EditReload ==
    /\ NewDestination
    /\ UNCHANGED <<live, files, lock, pc, dest, handle, granted, history>>
-----------------------------------------------------------------------------
\* The owner revokes a grant, changes the password, or a test grant runs out.
Revoke(g) ==
    /\ g \in live /\ live' = live \ {g}
    /\ UNCHANGED <<files, app, pc, dest, handle, granted, history>>

\* The service dies and is started again.
Crash ==
    /\ clash' = (clash \/ \E r \in Authorizer : Writing(r))
    /\ pc' = [a \in Actor |-> "idle"]
    /\ dest' = [t \in Thread |-> NoDest]
    /\ handle' = [a \in Actor |-> "closed"]
    /\ granted' = [r \in Authorizer |-> NoGrant]
    /\ lock' = [d \in Dest |-> Nobody] /\ creds' = [d \in Dest |-> NoGrant]
    /\ current' = CHOOSE d \in Dest : TRUE
    /\ UNCHANGED <<live, files, latest, overtaken>>

Credentials(t) == \/ Start(t) \/ Valid(t) \/ Expired(t) \/ NoToken(t)
                  \/ RefreshRejected(t) \/ RefreshFails(t) \/ ReportReauth(t)
                  \/ Refreshed(t) \/ WriteTmp(t) \/ Replace(t) \/ ReplaceFails(t)

Finish(r) == Open(r) \/ WriteWeb(r) \/ WriteCli(r) \/ Reload(r)

Next == \/ \E t \in Thread : Credentials(t)
        \/ \E r \in Authorizer : Exchange(r) \/ Finish(r)
        \/ \E g \in Grant : Revoke(g)
        \/ EditReload \/ Crash

Spec == Init /\ [][Next]_vars
-----------------------------------------------------------------------------
\* Every variable stays within its type.
CredentialsTypeOK ==
    /\ live \subseteq Grant
    /\ file \in Grant \cup {Missing, Torn} /\ tmp \in Grant \cup {Missing, Torn}
    /\ current \in Dest /\ creds \in [Dest -> Grant \cup {NoGrant}]
    /\ lock \in [Dest -> Thread \cup {Nobody}]
    /\ pc \in [Actor -> {"idle", "use", "refresh", "save", "replace", "reauth",
                         "open", "write", "reload"}]
    /\ dest \in [Thread -> Dest \cup {NoDest}]
    /\ handle \in [Actor -> {"closed", "tmp", "file", "lost"}]
    /\ granted \in [Authorizer -> Grant \cup {NoGrant}]
    /\ latest \in Grant \cup {Missing} /\ overtaken \in BOOLEAN /\ clash \in BOOLEAN

\* gmail_dest.py:104, the token is saved beside the file and moved into place:
\* no crash and no second thread leaves a token file that cannot be read, as
\* long as no two destinations save and no two authorizations write at a time
\* and no authorization is cut off while it writes.
TokenIsWhole ==
    ~clash /\ (\A r \in Authorizer : ~Writing(r)) => file # Torn

\* README "Gmail authorization": the token is saved and picked up immediately.
\* Once a web authorization is finished, the file and the service hold its
\* grant, whatever polls were under way; unless one of them saved an older
\* grant after the authorization began, or the command line wrote another.
AuthorizationSticks ==
    /\ ~clash /\ ~overtaken
    /\ \A r \in Authorizer : pc[r] \in {"idle", "open"}
    => file = latest /\ creds[current] \in {NoGrant, latest}
-----------------------------------------------------------------------------
(***************************************************************************)
(* Liveness.  Polls start again and again and take their next step, and an *)
(* authorization that has its token is finished; an access token runs out  *)
(* every hour; the network works at some point, and crashes end.           *)
(***************************************************************************)
Fairness ==
    /\ \A t \in Thread : WF_vars(Credentials(t)) /\ SF_vars(Expired(t))
    /\ \A r \in Authorizer : WF_vars(Finish(r))

FaultsCease == <>[][~Crash /\ \A t \in Thread : ~RefreshFails(t)]_vars

FairSpec == Spec /\ Fairness /\ FaultsCease

\* A request is made with a grant that is honoured.
Delivers(t) == (Valid(t) \/ Replace(t)) /\ Load(dest[t])[dest[t]] \in live

\* README "Operations": the fix of a revoked token is to authorize again; after
\* that mail is delivered again.
AuthorizationHeals ==
    <>[](latest \in live /\ ~overtaken /\ ~clash /\ \A r \in Authorizer : pc[r] = "idle")
        => []<><<\E t \in Thread : Delivers(t)>>_vars

\* README "No silent failure": a revoked grant is noticed, and noticed again for
\* as long as it lasts.
RevocationIsNoticed ==
    <>[](live = {}) => []<>(\E t \in Thread : pc[t] = "reauth")
=============================================================================
