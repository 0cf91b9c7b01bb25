--------------------------- MODULE Credentials_proofs ---------------------------
(***************************************************************************)
(* Proofs about Credentials, for any number of delivering threads,         *)
(* authorizations, destination objects and grants.                         *)
(*                                                                         *)
(* The lock of a destination and the handles come first; from them, that   *)
(* one writer at a time finds the files as it left them, as long as none   *)
(* clashes; from that, where the grant of the latest authorization is.     *)
(***************************************************************************)
EXTENDS Credentials, TLAPS

\* A thread past its Expired holds the lock; one that saves has a handle.
Refreshing(t) == pc[t] \in {"refresh", "save", "replace"}
Saving(t) == pc[t] \in {"save", "replace"}

Typed ==
    /\ CredentialsTypeOK
    /\ \A t \in Thread :
          /\ pc[t] \in {"idle", "use", "refresh", "save", "replace", "reauth"}
          /\ pc[t] # "idle" => dest[t] \in Dest
          /\ Refreshing(t) => creds[dest[t]] \in Grant
    /\ \A r \in Authorizer :
          /\ pc[r] \in {"idle", "open", "write", "reload"}
          /\ pc[r] \in {"open", "write"} => granted[r] \in Grant

\* The lock of a destination is with the thread that refreshes it; a file is
\* open from the first step of a write to its last.
Locked == \A t \in Thread : Refreshing(t) => lock[dest[t]] = t

Handles ==
    /\ \A t \in Thread : handle[t] = "closed" <=> ~Saving(t)
    /\ \A r \in Authorizer : /\ handle[r] = "closed" <=> ~Writing(r)
                             /\ handle[r] # "tmp"

\* Unless two clash: who saves is alone with token_file.tmp, and the token file
\* is torn exactly while an authorization has it open.
Whole ==
    ~clash =>
        /\ \A s, t \in Thread : Saving(s) /\ Saving(t) => s = t
        /\ \A t \in Thread : /\ Saving(t) => handle[t] = "tmp"
                             /\ pc[t] = "save" => tmp = Torn
                             /\ pc[t] = "replace" => tmp = creds[dest[t]]
        /\ \A q, r \in Authorizer : handle[q] = "file" /\ handle[r] = "file" => q = r
        /\ file = Torn <=> \E r \in Authorizer : handle[r] = "file"

\* Where the latest grant is, unless it was overtaken: in the file, except while
\* an authorization writes, and in the service, except until that has reloaded.
Sticks ==
    ~clash /\ ~overtaken =>
        /\ \A q, r \in Authorizer : Writing(q) /\ Writing(r) => q = r
        /\ \A r \in Authorizer : Writing(r) => handle[r] = "file"
        /\ (\A r \in Authorizer : ~Writing(r)) => file = latest
        /\ \/ creds[current] \in {NoGrant, latest}
           \/ \E r \in Authorizer : pc[r] \in {"write", "reload"}
-----------------------------------------------------------------------------
(***************************************************************************)
(* What the shared parts of the actions do.                                *)
(***************************************************************************)
Credential == Grant \cup {NoGrant}

LEMMA Distinct ==
    /\ \A t \in Thread, r \in Authorizer : t # r
    /\ Thread \subseteq Actor /\ Authorizer \subseteq Actor
    /\ \A g \in Grant : g # Missing /\ g # Torn /\ g # NoGrant
    /\ \A t \in Thread : t # Nobody
BY CredentialsAssumption DEF Actor

\* A destination with credentials keeps them; one without reads the file.
LEMMA LoadGives ==
    ASSUME CredentialsTypeOK, NEW d \in Dest, Loaded(d)
    PROVE  /\ Load(d) \in [Dest -> Credential] /\ Load(d)[d] \in Grant
           /\ \A e \in Dest : creds[e] \in Grant => Load(d)[e] = creds[e]
           /\ \A e \in Dest : Load(d)[e] \in {creds[e], file}
           /\ \A e \in Dest : Load(d)[e] # creds[e] => file \in Grant
BY Distinct DEF CredentialsTypeOK, Loaded, Load, Credential

\* After an answer the destination of the thread, if it keeps it, that of every
\* other, and the current one have the credentials cs.
LEMMA GoOnGives ==
    ASSUME CredentialsTypeOK, NEW t \in Thread, NEW from, NEW cs \in [Dest -> Credential],
           GoOn(t, from, cs), t \in Actor
    PROVE  /\ pc[t] = from /\ pc'[t] \in {"use", "idle"}
           /\ \A a \in Actor : a # t => pc'[a] = pc[a]
           /\ pc' \in [Actor -> {"idle", "use", "refresh", "save", "replace", "reauth",
                                 "open", "write", "reload"}]
           /\ dest' \in [Thread -> Dest \cup {NoDest}]
           /\ \A s \in Thread : s # t \/ pc'[t] = "use" => dest'[s] = dest[s]
           /\ creds' \in [Dest -> Credential] /\ creds'[current] = cs[current]
           /\ \A s \in Thread : s # t /\ dest[s] \in Dest => creds'[dest[s]] = cs[dest[s]]
           /\ pc'[t] = "use" => creds' = cs
<1>1. CASE pc' = [pc EXCEPT ![t] = "use"] /\ creds' = cs /\ UNCHANGED dest
  BY <1>1 DEF GoOn, CredentialsTypeOK
<1>2. CASE pc' = [pc EXCEPT ![t] = "idle"] /\ Leave(t, cs)
  <2>1. \A s \in Thread : s # t => dest'[s] = dest[s]
    BY <1>2 DEF Leave, CredentialsTypeOK
  <2>2. \A s \in Thread : s # t /\ dest[s] \in Dest => creds'[dest[s]] = cs[dest[s]]
    BY <1>2, <2>1 DEF Leave
  <2> QED BY <1>2, <2>1, <2>2 DEF Leave, GoOn, CredentialsTypeOK, Credential
<1> QED BY <1>1, <1>2 DEF GoOn

LEMMA LeaveGives ==
    ASSUME CredentialsTypeOK, NEW t \in Thread, Leave(t, creds)
    PROVE  /\ dest' \in [Thread -> Dest \cup {NoDest}]
           /\ \A s \in Thread : s # t => dest'[s] = dest[s]
           /\ creds' \in [Dest -> Credential] /\ creds'[current] = creds[current]
           /\ \A s \in Thread : s # t /\ dest[s] \in Dest => creds'[dest[s]] = creds[dest[s]]
<1>1. \A s \in Thread : s # t => dest'[s] = dest[s]
  BY DEF Leave, CredentialsTypeOK
<1>2. \A s \in Thread : s # t /\ dest[s] \in Dest => creds'[dest[s]] = creds[dest[s]]
  BY <1>1 DEF Leave
<1> QED BY <1>1, <1>2 DEF Leave, CredentialsTypeOK, Credential

\* A reload gives the service a destination without credentials, and threads
\* keep theirs.
LEMMA NewDestinationGives ==
    ASSUME CredentialsTypeOK, NewDestination
    PROVE  /\ current' \in Dest /\ creds' \in [Dest -> Credential]
           /\ creds'[current'] = NoGrant
           /\ \A t \in Thread : dest[t] \in Dest => creds'[dest[t]] = creds[dest[t]]
<1> DEFINE held == {dest[t] : t \in Thread}
<1>1. current' \in Dest /\ current' \notin held
  BY DEF NewDestination
<1>2. creds' = [d \in Dest |-> IF d \in held THEN creds[d] ELSE NoGrant]
  BY DEF NewDestination
<1>3. \A t \in Thread : dest[t] \in held
  OBVIOUS
<1> HIDE DEF held
<1> QED BY <1>1, <1>2, <1>3 DEF CredentialsTypeOK, Credential

\* The credentials a thread refreshes with stay while it does.
LEMMA RefreshedStay ==
    ASSUME Typed, [Next]_vars, NEW t \in Thread, Refreshing(t), Refreshing(t)'
    PROVE  dest'[t] = dest[t] /\ creds'[dest[t]] = creds[dest[t]]
<1>0. CredentialsTypeOK /\ dest[t] \in Dest /\ creds[dest[t]] \in Grant /\ t \in Actor
  BY Distinct DEF Typed, Refreshing
<1>1. ASSUME NEW s \in Thread, Credentials(s)
      PROVE  dest'[t] = dest[t] /\ creds'[dest[t]] = creds[dest[t]]
  <2>0. s \in Actor
    BY Distinct
  <2>1. CASE Start(s)
    BY <1>0, <2>1 DEF Start, Goto, Refreshing, CredentialsTypeOK, app
  <2>2. CASE Valid(s)
    <3>1. dest[s] \in Dest /\ Loaded(dest[s]) /\ GoOn(s, "use", Load(dest[s]))
      BY <2>2 DEF Valid, Typed
    <3>2. Load(dest[s])[dest[t]] = creds[dest[t]] /\ Load(dest[s]) \in [Dest -> Credential]
      BY <1>0, <3>1, LoadGives
    <3>3. s # t
      BY <2>2 DEF Valid, Refreshing
    <3> QED BY <1>0, <2>0, <3>1, <3>2, <3>3, GoOnGives
  <2>3. CASE Expired(s)
    <3>1. dest[s] \in Dest /\ Loaded(dest[s]) /\ creds' = Load(dest[s]) /\ UNCHANGED dest
      BY <2>3 DEF Expired, Goto, Typed
    <3> QED BY <1>0, <3>1, LoadGives
  <2>4. CASE NoToken(s) \/ RefreshRejected(s) \/ Refreshed(s) \/ WriteTmp(s)
    BY <2>4 DEF NoToken, RefreshRejected, Refreshed, WriteTmp, app
  <2>5. CASE RefreshFails(s) \/ Replace(s) \/ ReplaceFails(s)
    <3>1. PICK from : GoOn(s, from, creds)
      BY <2>5 DEF RefreshFails, Replace, ReplaceFails
    <3>2. creds \in [Dest -> Credential]
      BY <1>0 DEF CredentialsTypeOK, Credential
    <3>3. pc'[s] \in {"use", "idle"} /\ s # t
      BY <1>0, <2>0, <3>1, <3>2, GoOnGives DEF Refreshing
    <3> QED BY <1>0, <2>0, <3>1, <3>2, <3>3, GoOnGives
  <2>6. CASE ReportReauth(s)
    BY <1>0, <2>6, LeaveGives DEF ReportReauth, Goto, Refreshing
  <2> QED BY <1>1, <2>1, <2>2, <2>3, <2>4, <2>5, <2>6 DEF Credentials
<1>2. ASSUME NEW r \in Authorizer, Exchange(r) \/ Finish(r)
      PROVE  dest'[t] = dest[t] /\ creds'[dest[t]] = creds[dest[t]]
  <2>1. CASE Reload(r)
    BY <1>0, <2>1, NewDestinationGives DEF Reload
  <2>2. CASE ~Reload(r)
    BY <1>2, <2>2 DEF Exchange, Finish, Open, WriteWeb, WriteCli, Write, app
  <2> QED BY <2>1, <2>2
<1>3. CASE EditReload
  BY <1>0, <1>3, NewDestinationGives DEF EditReload
<1>4. CASE \E g \in Grant : Revoke(g)
  BY <1>4 DEF Revoke, app
<1>5. ~Crash
  BY <1>0 DEF Crash, Refreshing
<1>6. CASE UNCHANGED vars
  BY <1>6 DEF vars, app
<1> QED BY <1>1, <1>2, <1>3, <1>4, <1>5, <1>6 DEF Next
-----------------------------------------------------------------------------
(***************************************************************************)
(* Types.                                                                  *)
(***************************************************************************)
LEMMA TypedInit == Init => Typed
<1> SUFFICES ASSUME Init PROVE Typed
  OBVIOUS
<1>1. current \in Dest
  BY CredentialsAssumption DEF Init
<1> QED BY <1>1, Distinct DEF Init, Typed, CredentialsTypeOK, Refreshing

\* Types of a step, from what it has to show of the stage of its actor.
LEMMA StageTyped ==
    ASSUME Typed, [Next]_vars, CredentialsTypeOK', NEW a \in Actor,
           \A b \in Actor : b # a => pc'[b] = pc[b],
           \A t \in Thread : t # a => dest'[t] = dest[t],
           \A r \in Authorizer : r # a => granted'[r] = granted[r],
           a \in Thread =>
              /\ pc'[a] \in {"idle", "use", "refresh", "save", "replace", "reauth"}
              /\ pc'[a] # "idle" => dest'[a] \in Dest
              /\ Refreshing(a)' => Refreshing(a) \/ creds'[dest'[a]] \in Grant,
           a \in Authorizer =>
              /\ pc'[a] \in {"idle", "open", "write", "reload"}
              /\ pc'[a] \in {"open", "write"} => granted'[a] \in Grant
    PROVE  Typed'
<1>1. ASSUME NEW t \in Thread, Refreshing(t)' PROVE creds'[dest'[t]] \in Grant
  <2>1. CASE Refreshing(t)
    BY <1>1, <2>1, RefreshedStay DEF Typed
  <2>2. CASE ~Refreshing(t)
    BY <1>1, <2>2, Distinct DEF Refreshing
  <2> QED BY <2>1, <2>2
<1>2. ASSUME NEW t \in Thread
      PROVE  /\ pc'[t] \in {"idle", "use", "refresh", "save", "replace", "reauth"}
             /\ pc'[t] # "idle" => dest'[t] \in Dest
  BY Distinct DEF Typed
<1>3. ASSUME NEW r \in Authorizer
      PROVE  /\ pc'[r] \in {"idle", "open", "write", "reload"}
             /\ pc'[r] \in {"open", "write"} => granted'[r] \in Grant
  BY Distinct DEF Typed
<1> QED BY <1>1, <1>2, <1>3 DEF Typed

LEMMA DeliveryKeepsType ==
    ASSUME Typed, [Next]_vars, NEW t \in Thread, Credentials(t)
    PROVE  Typed'
<1>0. /\ t \in Actor /\ t \notin Authorizer /\ creds \in [Dest -> Credential]
      /\ CredentialsTypeOK
  BY Distinct DEF Typed, CredentialsTypeOK, Credential
<1>1. CASE Start(t)
  <2>1. CredentialsTypeOK'
    BY <1>0, <1>1 DEF Start, Goto, CredentialsTypeOK, files, app, history
  <2> QED BY <1>0, <1>1, <2>1, StageTyped DEF Start, Goto, CredentialsTypeOK, Refreshing
<1>2. CASE Valid(t)
  <2>1. dest[t] \in Dest /\ Load(dest[t]) \in [Dest -> Credential]
    BY <1>0, <1>2, LoadGives DEF Valid, Typed
  <2>2. GoOn(t, "use", Load(dest[t]))
    BY <1>2 DEF Valid
  <2>3. CredentialsTypeOK'
    BY <1>0, <1>2, <2>1, <2>2, GoOnGives
       DEF Valid, CredentialsTypeOK, files, history, Credential
  <2>4. UNCHANGED granted
    BY <1>2 DEF Valid
  <2> QED BY <1>0, <2>1, <2>2, <2>3, <2>4, GoOnGives, StageTyped DEF Refreshing
<1>3. CASE Expired(t)
  <2>1. dest[t] \in Dest /\ Loaded(dest[t]) /\ creds' = Load(dest[t])
    BY <1>3 DEF Expired, Goto, Typed
  <2>2. creds' \in [Dest -> Credential] /\ creds'[dest[t]] \in Grant
    BY <1>0, <2>1, LoadGives
  <2>3. CredentialsTypeOK'
    BY <1>0, <1>3, <2>2 DEF Expired, Goto, CredentialsTypeOK, files, history, Credential
  <2> QED BY <1>0, <1>3, <2>1, <2>2, <2>3, StageTyped
          DEF Expired, Goto, CredentialsTypeOK
<1>4. CASE NoToken(t) \/ RefreshRejected(t)
  <2>1. CredentialsTypeOK'
    BY <1>0, <1>4 DEF NoToken, RefreshRejected, Release, Goto, CredentialsTypeOK,
       files, app, history
  <2>2. dest[t] \in Dest
    BY <1>4 DEF NoToken, RefreshRejected, Goto, Typed
  <2> QED BY <1>0, <1>4, <2>1, <2>2, StageTyped
          DEF NoToken, RefreshRejected, Goto, CredentialsTypeOK, Refreshing
<1>5. CASE RefreshFails(t) \/ Replace(t) \/ ReplaceFails(t)
  <2>1. PICK from \in {"refresh", "replace"} : GoOn(t, from, creds)
    BY <1>5 DEF RefreshFails, Replace, ReplaceFails
  <2>2. dest[t] \in Dest
    BY <1>0, <2>1, GoOnGives DEF Typed
  <2>3. CredentialsTypeOK'
    <3>1. lock' \in [Dest -> Thread \cup {Nobody}]
      BY <1>0, <1>5 DEF RefreshFails, Replace, ReplaceFails, Release, CredentialsTypeOK
    <3>2. handle' \in [Actor -> {"closed", "tmp", "file", "lost"}]
      BY <1>0, <1>5 DEF RefreshFails, Replace, ReplaceFails, CredentialsTypeOK
    <3>3. /\ file' \in Grant \cup {Missing, Torn} /\ tmp' \in Grant \cup {Missing, Torn}
          /\ overtaken' \in BOOLEAN
      BY <1>0, <1>5 DEF RefreshFails, Replace, ReplaceFails, CredentialsTypeOK,
         files, history
    <3>4. UNCHANGED <<live, current, granted, latest, clash>>
      BY <1>5 DEF RefreshFails, Replace, ReplaceFails, history
    <3> QED BY <1>0, <2>1, <3>1, <3>2, <3>3, <3>4, GoOnGives DEF CredentialsTypeOK, Credential
  <2>4. UNCHANGED granted
    BY <1>5 DEF RefreshFails, Replace, ReplaceFails
  <2> QED BY <1>0, <2>1, <2>2, <2>3, <2>4, GoOnGives, StageTyped DEF Refreshing
<1>6. CASE ReportReauth(t)
  <2>1. CredentialsTypeOK'
    BY <1>0, <1>6, LeaveGives
       DEF ReportReauth, Goto, CredentialsTypeOK, files, history, Credential
  <2> QED BY <1>0, <1>6, <2>1, LeaveGives, StageTyped
          DEF ReportReauth, Goto, CredentialsTypeOK, Refreshing
<1>7. CASE Refreshed(t) \/ WriteTmp(t)
  <2>1. dest[t] \in Dest /\ creds[dest[t]] \in Grant /\ Refreshing(t)
    BY <1>7 DEF Refreshed, WriteTmp, Goto, Typed, Refreshing
  <2>2. CredentialsTypeOK'
    BY <1>0, <1>7, <2>1
       DEF Refreshed, WriteTmp, Written, Goto, CredentialsTypeOK, files, app
  <2> QED BY <1>0, <1>7, <2>1, <2>2, StageTyped
          DEF Refreshed, WriteTmp, Goto, CredentialsTypeOK
<1> QED BY <1>1, <1>2, <1>3, <1>4, <1>5, <1>6, <1>7 DEF Credentials

LEMMA AuthorizationKeepsType ==
    ASSUME Typed, [Next]_vars, NEW r \in Authorizer, Exchange(r) \/ Finish(r)
    PROVE  Typed'
<1>0. r \in Actor /\ r \notin Thread /\ CredentialsTypeOK
  BY Distinct DEF Typed
<1>1. CASE Exchange(r)
  <2>1. PICK g \in Grant : granted' = [granted EXCEPT ![r] = g] /\ live' = live \cup {g}
    BY <1>1 DEF Exchange, UnusedGrants
  <2>2. CredentialsTypeOK'
    BY <1>0, <1>1, <2>1 DEF Exchange, Goto, CredentialsTypeOK, files, app, history
  <2> QED BY <1>0, <1>1, <2>1, <2>2, StageTyped DEF Exchange, Goto, CredentialsTypeOK
<1>2. CASE Open(r)
  <2>1. CredentialsTypeOK' /\ granted[r] \in Grant
    BY <1>0, <1>2 DEF Open, Goto, Typed, CredentialsTypeOK, app
  <2> QED BY <1>0, <1>2, <2>1, StageTyped DEF Open, Goto, CredentialsTypeOK
<1>3. CASE WriteWeb(r) \/ WriteCli(r)
  <2>1. PICK to \in {"reload", "idle"} : Write(r, to)
    BY <1>3 DEF WriteWeb, WriteCli
  <2>2. granted[r] \in Grant
    BY <2>1 DEF Write, Goto, Typed
  <2>3. latest' \in Grant \cup {Missing} /\ overtaken' \in BOOLEAN
    BY <1>0, <1>3, <2>2 DEF WriteWeb, WriteCli, CredentialsTypeOK
  <2>4. file' \in Grant \cup {Missing, Torn}
    BY <1>0, <2>1, <2>2 DEF Write, Written, CredentialsTypeOK
  <2>5. CredentialsTypeOK'
    BY <1>0, <2>1, <2>3, <2>4 DEF Write, Goto, CredentialsTypeOK, app
  <2> QED BY <1>0, <2>1, <2>5, StageTyped DEF Write, Goto, CredentialsTypeOK
<1>4. CASE Reload(r)
  <2>1. CredentialsTypeOK'
    BY <1>0, <1>4, NewDestinationGives
       DEF Reload, Goto, CredentialsTypeOK, files, history, Credential
  <2> QED BY <1>0, <1>4, <2>1, StageTyped DEF Reload, Goto, CredentialsTypeOK
<1> QED BY <1>1, <1>2, <1>3, <1>4 DEF Finish

LEMMA TypedStep == Typed /\ [Next]_vars => Typed'
<1> SUFFICES ASSUME Typed, [Next]_vars PROVE Typed'
  OBVIOUS
<1>0. CredentialsTypeOK
  BY DEF Typed
<1>1. ASSUME NEW t \in Thread, Credentials(t) PROVE Typed'
  BY <1>1, DeliveryKeepsType
<1>2. ASSUME NEW r \in Authorizer, Exchange(r) \/ Finish(r) PROVE Typed'
  BY <1>2, AuthorizationKeepsType
<1>3. CASE EditReload
  <2>1. CredentialsTypeOK'
    BY <1>0, <1>3, NewDestinationGives
       DEF EditReload, CredentialsTypeOK, files, history, Credential
  <2>2. UNCHANGED <<pc, dest, granted>>
    BY <1>3 DEF EditReload
  <2>3. \A t \in Thread : Refreshing(t) => creds'[dest[t]] = creds[dest[t]]
    BY <1>0, <1>3, NewDestinationGives DEF EditReload, Typed, Refreshing
  <2> QED BY <2>1, <2>2, <2>3 DEF Typed, Refreshing
<1>4. CASE (\E g \in Grant : Revoke(g)) \/ UNCHANGED vars
  BY <1>4 DEF Revoke, vars, files, app, history, Typed, CredentialsTypeOK, Refreshing
<1>5. CASE Crash
  <2>1. current' \in Dest
    BY <1>5, CredentialsAssumption DEF Crash
  <2> QED BY <1>0, <1>5, <2>1, Distinct DEF Crash, Typed, CredentialsTypeOK, Refreshing, files
<1> QED BY <1>1, <1>2, <1>3, <1>4, <1>5 DEF Next
-----------------------------------------------------------------------------
(***************************************************************************)
(* The lock of a destination.                                              *)
(***************************************************************************)
LEMMA LockedInit == Init => Locked
BY Distinct DEF Init, Locked, Refreshing

\* Two threads that refresh have different destinations.
LEMMA OneRefreshPerDestination ==
    ASSUME Locked, NEW s \in Thread, NEW t \in Thread, Refreshing(s), Refreshing(t),
           dest[s] = dest[t]
    PROVE  s = t
BY DEF Locked

LEMMA LockedStep == Typed /\ Locked /\ [Next]_vars => Locked'
<1> SUFFICES ASSUME Typed, Locked, [Next]_vars, NEW t \in Thread, Refreshing(t)'
             PROVE  lock'[dest'[t]] = t
  BY DEF Locked
<1>0. CredentialsTypeOK /\ t \in Actor /\ creds \in [Dest -> Credential]
  BY Distinct DEF Typed, CredentialsTypeOK, Credential
<1>1. CASE ~Refreshing(t)
  <2>1. Expired(t)
    <3>1. ~Crash /\ ~UNCHANGED vars /\ ~EditReload /\ ~\E g \in Grant : Revoke(g)
      BY <1>0, <1>1 DEF Crash, vars, EditReload, Revoke, Refreshing
    <3>2. \A r \in Authorizer : ~Exchange(r) /\ ~Finish(r)
      BY <1>0, <1>1, Distinct DEF Exchange, Finish, Open, WriteWeb, WriteCli, Write, Reload,
         Goto, Refreshing, CredentialsTypeOK
    <3>3. PICK s \in Thread : Credentials(s)
      BY <3>1, <3>2 DEF Next
    <3>4. s \in Actor
      BY Distinct
    <3>5. ~(RefreshFails(s) \/ Replace(s) \/ ReplaceFails(s) \/ Valid(s))
      <4>1. ASSUME NEW from, NEW cs, GoOn(s, from, cs) PROVE FALSE
        BY <1>0, <1>1, <3>4, <4>1 DEF GoOn, Refreshing, CredentialsTypeOK
      <4> QED BY <4>1 DEF RefreshFails, Replace, ReplaceFails, Valid
    <3>6. ~(\/ Start(s) \/ NoToken(s) \/ RefreshRejected(s) \/ ReportReauth(s)
            \/ Refreshed(s) \/ WriteTmp(s))
      BY <1>0, <1>1, <3>4 DEF Start, NoToken, RefreshRejected, ReportReauth, Refreshed,
         WriteTmp, Goto, Refreshing, CredentialsTypeOK
    <3>7. Expired(s)
      BY <3>3, <3>5, <3>6 DEF Credentials
    <3> QED BY <1>0, <1>1, <3>4, <3>7 DEF Expired, Goto, Refreshing, CredentialsTypeOK
  <2>2. dest[t] \in Dest
    BY <2>1 DEF Expired, Goto, Typed
  <2> QED BY <1>0, <2>1, <2>2 DEF Expired, CredentialsTypeOK
<1>2. CASE Refreshing(t)
  <2>1. dest'[t] = dest[t] /\ lock[dest[t]] = t /\ dest[t] \in Dest
    BY <1>2, RefreshedStay DEF Locked, Typed, Refreshing
  <2>2. ASSUME NEW s \in Thread, Credentials(s) PROVE lock'[dest[t]] = t
    <3>0. s \in Actor
      BY Distinct
    <3>1. CASE Expired(s)
      BY <1>0, <2>1, <3>1, Distinct DEF Expired, CredentialsTypeOK
    <3>2. CASE RefreshRejected(s) \/ RefreshFails(s) \/ Replace(s) \/ ReplaceFails(s)
      <4>1. Refreshing(s) /\ ~Refreshing(s)' /\ Release(s)
        BY <1>0, <3>0, <3>2 DEF RefreshRejected, RefreshFails, Replace, ReplaceFails, GoOn,
           Goto, Refreshing, CredentialsTypeOK
      <4>2. dest[s] # dest[t]
        BY <1>2, <4>1, OneRefreshPerDestination
      <4> QED BY <1>0, <2>1, <4>1, <4>2 DEF Release, CredentialsTypeOK
    <3>3. CASE ~(\/ Expired(s) \/ RefreshRejected(s) \/ RefreshFails(s) \/ Replace(s)
                 \/ ReplaceFails(s))
      BY <2>1, <2>2, <3>3 DEF Credentials, Start, Valid, NoToken, ReportReauth, Refreshed,
         WriteTmp, app
    <3> QED BY <3>1, <3>2, <3>3
  <2>3. ASSUME NEW r \in Authorizer, Exchange(r) \/ Finish(r) PROVE lock'[dest[t]] = t
    BY <2>1, <2>3 DEF Exchange, Finish, Open, WriteWeb, WriteCli, Write, Reload, app
  <2>4. CASE EditReload \/ (\E g \in Grant : Revoke(g)) \/ UNCHANGED vars
    BY <2>1, <2>4 DEF EditReload, Revoke, vars, app
  <2>5. ~Crash
    BY <1>0 DEF Crash, Refreshing
  <2> QED BY <2>1, <2>2, <2>3, <2>4, <2>5 DEF Next
<1> QED BY <1>1, <1>2
-----------------------------------------------------------------------------
(***************************************************************************)
(* Handles.                                                                *)
(***************************************************************************)
LEMMA HandlesInit == Init => Handles
BY Distinct DEF Init, Handles, Saving, Writing

\* One actor's stage and handle change together; an os.replace renames those of
\* others without closing them.
LEMMA HandleStep ==
    ASSUME Typed, Handles, NEW a \in Actor,
           \A b \in Actor : b # a => pc'[b] = pc[b],
           \A b \in Actor : b # a =>
              /\ handle'[b] = "closed" <=> handle[b] = "closed"
              /\ handle[b] # "tmp" => handle'[b] # "tmp",
           a \in Thread => (handle'[a] = "closed" <=> ~Saving(a)'),
           a \in Authorizer => /\ handle'[a] = "closed" <=> ~Writing(a)'
                               /\ handle'[a] # "tmp"
    PROVE  Handles'
<1>1. ASSUME NEW t \in Thread PROVE handle'[t] = "closed" <=> ~Saving(t)'
  BY Distinct DEF Handles, Saving
<1>2. ASSUME NEW r \in Authorizer
      PROVE  (handle'[r] = "closed" <=> ~Writing(r)') /\ handle'[r] # "tmp"
  BY Distinct DEF Handles, Writing
<1> QED BY <1>1, <1>2 DEF Handles

LEMMA HandlesStep == Typed /\ Handles /\ [Next]_vars => Handles'
<1> SUFFICES ASSUME Typed, Handles, [Next]_vars PROVE Handles'
  OBVIOUS
<1>0. CredentialsTypeOK /\ creds \in [Dest -> Credential]
  BY DEF Typed, CredentialsTypeOK, Credential
<1>1. ASSUME NEW t \in Thread, Credentials(t) PROVE Handles'
  <2>0. t \in Actor /\ t \notin Authorizer
    BY Distinct
  <2>1. CASE \/ Start(t) \/ Expired(t) \/ NoToken(t) \/ RefreshRejected(t)
             \/ ReportReauth(t)
    <3>1. /\ UNCHANGED handle /\ ~Saving(t) /\ ~Saving(t)'
          /\ \A b \in Actor : b # t => pc'[b] = pc[b]
      BY <1>0, <2>0, <2>1 DEF Start, Expired, NoToken, RefreshRejected, ReportReauth, Goto,
         Saving, CredentialsTypeOK
    <3> QED BY <2>0, <3>1, HandleStep DEF Handles
  <2>2. CASE Valid(t) \/ RefreshFails(t)
    <3>1. /\ UNCHANGED handle /\ ~Saving(t) /\ ~Saving(t)'
          /\ \A b \in Actor : b # t => pc'[b] = pc[b]
      BY <1>0, <2>0, <2>2 DEF Valid, RefreshFails, GoOn, Saving, CredentialsTypeOK
    <3> QED BY <2>0, <3>1, HandleStep DEF Handles
  <2>3. CASE Refreshed(t) \/ WriteTmp(t)
    <3>1. /\ Saving(t)' /\ handle'[t] # "closed"
          /\ \A b \in Actor : b # t => pc'[b] = pc[b] /\ handle'[b] = handle[b]
      BY <1>0, <2>0, <2>3 DEF Refreshed, WriteTmp, Goto, Saving, Handles, CredentialsTypeOK
    <3> QED BY <2>0, <3>1, HandleStep
  <2>4. CASE Replace(t) \/ ReplaceFails(t)
    <3>1. ~Saving(t)' /\ \A b \in Actor : b # t => pc'[b] = pc[b]
      BY <1>0, <2>0, <2>4 DEF Replace, ReplaceFails, GoOn, Saving, CredentialsTypeOK
    <3>2. handle'[t] = "closed"
      BY <1>0, <2>0, <2>4 DEF Replace, ReplaceFails, CredentialsTypeOK
    <3>3. \A b \in Actor : b # t =>
             /\ handle'[b] = "closed" <=> handle[b] = "closed"
             /\ handle[b] # "tmp" => handle'[b] # "tmp"
      BY <1>0, <2>0, <2>4 DEF Replace, ReplaceFails, CredentialsTypeOK
    <3> QED BY <2>0, <3>1, <3>2, <3>3, HandleStep
  <2> QED BY <1>1, <2>1, <2>2, <2>3, <2>4 DEF Credentials
<1>2. ASSUME NEW r \in Authorizer, Exchange(r) \/ Finish(r) PROVE Handles'
  <2>0. r \in Actor /\ r \notin Thread
    BY Distinct
  <2>1. \A b \in Actor : b # r => pc'[b] = pc[b] /\ handle'[b] = handle[b]
    BY <1>0, <1>2, <2>0 DEF Exchange, Finish, Open, WriteWeb, WriteCli, Write, Reload, Goto,
       CredentialsTypeOK
  <2>2. (handle'[r] = "closed" <=> ~Writing(r)') /\ handle'[r] # "tmp"
    BY <1>0, <1>2, <2>0 DEF Exchange, Finish, Open, WriteWeb, WriteCli, Write, Reload, Goto,
       Writing, Handles, CredentialsTypeOK
  <2> QED BY <2>0, <2>1, <2>2, HandleStep
<1>3. CASE EditReload \/ (\E g \in Grant : Revoke(g)) \/ UNCHANGED vars
  BY <1>3 DEF EditReload, Revoke, vars, Handles, Saving, Writing
<1>4. CASE Crash
  BY <1>4, Distinct DEF Crash, Handles, Saving, Writing
<1> QED BY <1>1, <1>2, <1>3, <1>4 DEF Next
-----------------------------------------------------------------------------
(***************************************************************************)
(* The files are whole.                                                    *)
(***************************************************************************)
LEMMA WholeInit == Init => Whole
<1> SUFFICES ASSUME Init PROVE Whole
  OBVIOUS
<1>1. file # Torn
  BY Distinct, CredentialsAssumption DEF Init
<1>2. \A t \in Thread : pc[t] = "idle"
  BY Distinct DEF Init
<1>3. \A r \in Authorizer : handle[r] = "closed"
  BY Distinct DEF Init
<1> QED BY <1>1, <1>2, <1>3 DEF Whole, Saving

\* A step of nobody who writes.
LEMMA NobodyWrites ==
    ASSUME Typed, Whole, [Next]_vars, UNCHANGED <<files, handle, clash>>,
           \A t \in Thread : Saving(t)' => pc'[t] = pc[t]
    PROVE  Whole'
<1>1. ASSUME NEW t \in Thread, Saving(t)'
      PROVE  Saving(t) /\ pc'[t] = pc[t] /\ creds'[dest'[t]] = creds[dest[t]]
  <2>1. Refreshing(t) /\ Refreshing(t)' /\ Saving(t)
    BY <1>1 DEF Saving, Refreshing
  <2> QED BY <1>1, <2>1, RefreshedStay
<1>2. \A t \in Thread : /\ pc'[t] = "save" => Saving(t)'
                        /\ pc'[t] = "replace" => Saving(t)'
  BY DEF Saving
<1> QED BY <1>1, <1>2 DEF Whole, files

\* A step of a thread that saves, when no other does.
LEMMA OneSaves ==
    ASSUME Typed, NEW t \in Thread, ~clash', Saving(t)',
           \A s \in Thread : s # t => ~Saving(s)',
           handle'[t] = "tmp",
           pc'[t] = "save" => tmp' = Torn,
           pc'[t] = "replace" => tmp' = creds'[dest'[t]],
           Whole, ~clash, UNCHANGED file,
           \A r \in Authorizer : handle'[r] = handle[r]
    PROVE  Whole'
BY DEF Whole, Saving

LEMMA SavesKeepWhole ==
    ASSUME Typed, Locked, Handles, Whole, NEW t \in Thread,
           Refreshed(t) \/ WriteTmp(t)
    PROVE  Whole'
<1>0. /\ CredentialsTypeOK /\ t \in Actor /\ t \notin Authorizer
      /\ \A s \in Thread : s # t => pc'[s] = pc[s]
  BY Distinct DEF Typed, CredentialsTypeOK, Refreshed, WriteTmp, Goto
<1> SUFFICES ASSUME ~clash' PROVE Whole'
  BY DEF Whole
<1>1. ~clash
  BY DEF Refreshed, WriteTmp
<1>2. CASE Refreshed(t)
  <2>1. ASSUME NEW s \in Thread, s # t PROVE ~Saving(s)'
    <3>1. Refreshing(t)
      BY <1>2 DEF Refreshed, Goto, Refreshing
    <3>2. handle[s] = "closed" \/ dest[s] = dest[t]
      BY <1>2 DEF Refreshed
    <3>3. ~Saving(s)
      BY <2>1, <3>1, <3>2, OneRefreshPerDestination DEF Handles, Saving, Refreshing
    <3> QED BY <1>0, <2>1, <3>3 DEF Saving
  <2>2. /\ pc'[t] = "save" /\ handle'[t] = "tmp" /\ tmp' = Torn /\ UNCHANGED file
        /\ \A r \in Authorizer : handle'[r] = handle[r]
    BY <1>0, <1>2, Distinct DEF Refreshed, Goto, CredentialsTypeOK
  <2> QED BY <1>1, <2>1, <2>2, OneSaves DEF Saving
<1>3. CASE WriteTmp(t)
  <2>1. Saving(t) /\ handle[t] = "tmp" /\ tmp = Torn
    BY <1>1, <1>3 DEF WriteTmp, Goto, Saving, Whole
  <2>2. /\ pc'[t] = "replace" /\ UNCHANGED <<file, handle, dest, creds>>
        /\ tmp' = creds[dest[t]]
    BY <1>0, <1>3, <2>1 DEF WriteTmp, Written, Goto, CredentialsTypeOK, app
  <2>3. \A s \in Thread : s # t => ~Saving(s)'
    BY <1>0, <1>1, <2>1 DEF Whole, Saving
  <2> QED BY <1>1, <2>1, <2>2, <2>3, OneSaves DEF Saving
<1> QED BY <1>2, <1>3

LEMMA ReplacesKeepWhole ==
    ASSUME Typed, Handles, Whole, NEW t \in Thread, Replace(t) \/ ReplaceFails(t)
    PROVE  Whole'
<1>0. CredentialsTypeOK /\ t \in Actor /\ Actor = Thread \cup Authorizer
  BY Distinct DEF Typed, Actor
<1> SUFFICES ASSUME ~clash' PROVE Whole'
  BY DEF Whole
<1>1. ~clash
  BY DEF Replace, ReplaceFails, history
<1>2. pc[t] = "replace" /\ Saving(t) /\ ~Saving(t)' /\ \A s \in Actor : s # t => pc'[s] = pc[s]
  BY <1>0 DEF Replace, ReplaceFails, GoOn, Saving, CredentialsTypeOK
<1>3. \A s \in Thread : ~Saving(s)'
  BY <1>0, <1>1, <1>2 DEF Whole, Saving
<1>4. \A s \in Thread : pc'[s] # "save" /\ pc'[s] # "replace"
  BY <1>3 DEF Saving
<1>5. tmp \in Grant
  BY <1>1, <1>2 DEF Whole, Typed, Refreshing
<1>6. Replace(t)
  BY <1>5, Distinct DEF ReplaceFails
<1>7. file' # Torn
  BY <1>5, <1>6, Distinct DEF Replace
<1>8. \A r \in Authorizer : handle'[r] # "file"
  BY <1>0, <1>6, Distinct DEF Replace, Handles
<1> QED BY <1>3, <1>4, <1>7, <1>8 DEF Whole

LEMMA WritesKeepWhole ==
    ASSUME Typed, Handles, Whole, NEW r \in Authorizer,
           Open(r) \/ WriteWeb(r) \/ WriteCli(r)
    PROVE  Whole'
<1>0. /\ CredentialsTypeOK /\ r \in Actor
      /\ \A t \in Thread : pc'[t] = pc[t] /\ handle'[t] = handle[t]
      /\ \A q \in Authorizer : q # r => handle'[q] = handle[q]
      /\ UNCHANGED <<tmp, creds, dest>>
  BY Distinct DEF Typed, CredentialsTypeOK, Open, WriteWeb, WriteCli, Write, Goto, app
<1> SUFFICES ASSUME ~clash' PROVE Whole'
  BY DEF Whole
<1>1. ~clash
  BY DEF Open, WriteWeb, WriteCli, Write
<1>2. /\ \A q, s \in Authorizer : handle'[q] = "file" /\ handle'[s] = "file" => q = s
      /\ file' = Torn <=> \E q \in Authorizer : handle'[q] = "file"
  <2>1. CASE Open(r)
    <3>1. \A q \in Authorizer : handle[q] # "file"
      BY <2>1, Distinct DEF Open
    <3>2. file' = Torn /\ handle'[r] = "file"
      BY <1>0, <2>1 DEF Open, CredentialsTypeOK
    <3> QED BY <1>0, <3>1, <3>2
  <2>2. CASE WriteWeb(r) \/ WriteCli(r)
    <3>1. PICK to : Write(r, to)
      BY <2>2 DEF WriteWeb, WriteCli
    <3>2. handle'[r] = "closed"
      BY <1>0, <3>1 DEF Write, CredentialsTypeOK
    <3>3. CASE handle[r] = "file"
      <4>1. file = Torn /\ granted[r] \in Grant
        BY <1>1, <3>1, <3>3 DEF Whole, Write, Goto, Typed
      <4>2. file' # Torn
        BY <3>1, <3>3, <4>1, Distinct DEF Write, Written
      <4>3. \A q \in Authorizer : handle'[q] # "file"
        BY <1>0, <1>1, <3>2, <3>3 DEF Whole
      <4> QED BY <4>2, <4>3
    <3>4. CASE handle[r] # "file"
      <4>1. UNCHANGED file /\ \A q \in Authorizer : handle'[q] = "file" <=> handle[q] = "file"
        BY <1>0, <3>1, <3>2, <3>4 DEF Write
      <4> QED BY <1>1, <4>1 DEF Whole
    <3> QED BY <3>3, <3>4
  <2> QED BY <2>1, <2>2
<1> QED BY <1>0, <1>1, <1>2 DEF Whole, Saving

LEMMA WholeStep ==
    Typed /\ Locked /\ Handles /\ Whole /\ [Next]_vars => Whole'
<1> SUFFICES ASSUME Typed, Locked, Handles, Whole, [Next]_vars PROVE Whole'
  OBVIOUS
<1>0. CredentialsTypeOK
  BY DEF Typed
<1>1. ASSUME NEW t \in Thread, Credentials(t) PROVE Whole'
  <2>0. t \in Actor
    BY Distinct
  <2>1. CASE \/ Start(t) \/ Expired(t) \/ NoToken(t) \/ RefreshRejected(t)
             \/ ReportReauth(t) \/ Valid(t) \/ RefreshFails(t)
    <3>1. UNCHANGED <<files, handle, clash>>
      BY <2>1 DEF Start, Expired, NoToken, RefreshRejected, ReportReauth, Valid,
         RefreshFails, history
    <3>2. /\ \A s \in Thread : s # t => pc'[s] = pc[s]
          /\ pc'[t] \in {"use", "refresh", "reauth", "idle"}
      <4>1. CASE Valid(t) \/ RefreshFails(t)
        <5>1. PICK from, cs : GoOn(t, from, cs)
          BY <4>1 DEF Valid, RefreshFails
        <5>2. \/ pc' = [pc EXCEPT ![t] = "use"]
              \/ pc' = [pc EXCEPT ![t] = "idle"]
          BY <5>1 DEF GoOn
        <5> QED BY <1>0, <2>0, <5>2, Distinct DEF CredentialsTypeOK
      <4>2. CASE Start(t) \/ Expired(t) \/ NoToken(t) \/ RefreshRejected(t) \/ ReportReauth(t)
        BY <1>0, <2>0, <4>2, Distinct DEF Start, Expired, NoToken, RefreshRejected, ReportReauth, Goto,
           CredentialsTypeOK
      <4> QED BY <2>1, <4>1, <4>2
    <3> QED BY <3>1, <3>2, NobodyWrites DEF Saving
  <2> QED BY <1>1, <2>1, SavesKeepWhole, ReplacesKeepWhole DEF Credentials
<1>2. ASSUME NEW r \in Authorizer, Exchange(r) \/ Finish(r) PROVE Whole'
  <2>1. CASE Exchange(r) \/ Reload(r)
    <3>1. UNCHANGED <<files, handle, clash>> /\ \A s \in Thread : pc'[s] = pc[s]
      BY <1>0, <2>1, Distinct DEF Exchange, Reload, Goto, CredentialsTypeOK, history
    <3> QED BY <3>1, NobodyWrites
  <2> QED BY <1>2, <2>1, WritesKeepWhole DEF Finish
<1>3. CASE EditReload \/ (\E g \in Grant : Revoke(g)) \/ UNCHANGED vars
  <2>1. UNCHANGED <<files, handle, clash, pc>>
    BY <1>3 DEF EditReload, Revoke, vars, history
  <2> QED BY <2>1, NobodyWrites
<1>4. CASE Crash
  <2>1. \A t \in Thread : pc'[t] = "idle"
    BY <1>4, Distinct DEF Crash
  <2>2. \A r \in Authorizer : handle'[r] = "closed"
    BY <1>4, Distinct DEF Crash
  <2>3. ~clash' => file' # Torn
    <3> SUFFICES ASSUME ~clash' PROVE file # Torn
      BY <1>4 DEF Crash, files
    <3>1. ~clash /\ \A r \in Authorizer : ~Writing(r)
      BY <1>0, <1>4 DEF Crash, CredentialsTypeOK
    <3>2. \A r \in Authorizer : handle[r] = "closed"
      BY <3>1 DEF Handles
    <3> QED BY <3>1, <3>2 DEF Whole
  <2> QED BY <2>1, <2>2, <2>3 DEF Whole, Saving
<1> QED BY <1>1, <1>2, <1>3, <1>4 DEF Next
-----------------------------------------------------------------------------
(***************************************************************************)
(* The latest grant.                                                       *)
(***************************************************************************)
LEMMA SticksInit == Init => Sticks
<1> SUFFICES ASSUME Init PROVE Sticks
  OBVIOUS
<1>1. current \in Dest
  BY CredentialsAssumption DEF Init
<1> QED BY <1>1, Distinct DEF Init, Sticks, Writing

\* A step that leaves the token file, its writers and the stages of the
\* authorizations alone, and gives the service nothing but what the file holds.
LEMMA NobodyOvertakes ==
    ASSUME CredentialsTypeOK, Handles, Whole, Sticks,
           UNCHANGED <<file, latest>>,
           ~clash' => ~clash, ~overtaken' => ~overtaken,
           \A r \in Authorizer : pc'[r] \in {"write", "reload"} <=> pc[r] \in {"write", "reload"},
           \A r \in Authorizer : Writing(r)' <=> Writing(r),
           \A r \in Authorizer : Writing(r) => handle'[r] = handle[r],
           \/ creds'[current'] \in {creds[current], NoGrant}
           \/ creds'[current'] = file /\ file \in Grant
    PROVE  Sticks'
<1> SUFFICES ASSUME ~clash', ~overtaken' PROVE Sticks'
  BY DEF Sticks
<1>1. ~clash /\ ~overtaken
  OBVIOUS
<1>2. ASSUME file \in Grant PROVE file = latest
  <2>1. \A r \in Authorizer : handle[r] # "file"
    BY <1>1, <1>2, Distinct DEF Whole
  <2>2. \A r \in Authorizer : ~Writing(r)
    BY <1>1, <2>1 DEF Sticks
  <2> QED BY <1>1, <2>2 DEF Sticks
<1>3. \/ creds'[current'] \in {NoGrant, latest}
      \/ \E r \in Authorizer : pc'[r] \in {"write", "reload"}
  <2>1. CASE \E r \in Authorizer : pc[r] \in {"write", "reload"}
    BY <2>1
  <2>2. CASE ~\E r \in Authorizer : pc[r] \in {"write", "reload"}
    <3>1. creds[current] \in {NoGrant, latest}
      BY <1>1, <2>2 DEF Sticks
    <3> QED BY <1>2, <3>1
  <2> QED BY <2>1, <2>2
<1> QED BY <1>1, <1>3 DEF Sticks

\* A reload: what the service holds then is not in its cache yet.
LEMMA ReloadKeepsSticks ==
    ASSUME Sticks, UNCHANGED <<file, latest, clash, overtaken>>, creds'[current'] = NoGrant,
           \A r \in Authorizer : Writing(r)' => Writing(r) /\ handle'[r] = handle[r],
           (\E r \in Authorizer : Writing(r)) => \E r \in Authorizer : Writing(r)'
    PROVE  Sticks'
BY DEF Sticks

LEMMA ThreadsKeepSticks ==
    ASSUME Typed, Locked, Handles, Whole, Sticks, NEW t \in Thread, Credentials(t)
    PROVE  Sticks'
<1>0. CredentialsTypeOK /\ t \in Actor /\ creds \in [Dest -> Credential] /\ current \in Dest
  BY Distinct DEF Typed, CredentialsTypeOK, Credential
<1>1. \A r \in Authorizer : pc'[r] = pc[r]
  <2>1. \/ \E from, to : Goto(t, from, to)
        \/ \E from, cs : GoOn(t, from, cs)
    BY DEF Credentials, Start, Valid, Expired, NoToken, RefreshRejected, RefreshFails,
       ReportReauth, Refreshed, WriteTmp, Replace, ReplaceFails
  <2>2. \E to : pc' = [pc EXCEPT ![t] = to]
    BY <2>1 DEF Goto, GoOn
  <2> QED BY <1>0, <2>2, Distinct DEF CredentialsTypeOK
<1>2. /\ \A r \in Authorizer : pc'[r] \in {"write", "reload"} <=> pc[r] \in {"write", "reload"}
      /\ \A r \in Authorizer : Writing(r)' <=> Writing(r)
  BY <1>1 DEF Writing
<1>3. CASE \/ Start(t) \/ NoToken(t) \/ RefreshRejected(t) \/ Refreshed(t)
  <2>1. UNCHANGED <<file, latest, creds, current, overtaken>>
    BY <1>3 DEF Start, NoToken, RefreshRejected, Refreshed, files, app, history
  <2>2. ~clash' => ~clash
    BY <1>3 DEF Start, NoToken, RefreshRejected, Refreshed, history
  <2>3. \A r \in Authorizer : handle'[r] = handle[r]
    BY <1>0, <1>3, Distinct
       DEF Start, NoToken, RefreshRejected, Refreshed, CredentialsTypeOK
  <2> QED BY <1>0, <1>2, <2>1, <2>2, <2>3, NobodyOvertakes
<1>4. CASE Valid(t) \/ Expired(t)
  <2>1. dest[t] \in Dest /\ Loaded(dest[t])
    BY <1>4 DEF Valid, Expired, Goto, Typed
  <2>2. UNCHANGED <<file, latest, current, overtaken, clash, handle>>
    BY <1>4 DEF Valid, Expired, files, history
  <2>3. creds'[current] = Load(dest[t])[current]
    <3>1. CASE Valid(t)
      <4>1. Load(dest[t]) \in [Dest -> Credential]
        BY <1>0, <2>1, LoadGives
      <4> QED BY <1>0, <3>1, <4>1, GoOnGives DEF Valid
    <3> QED BY <1>4, <3>1 DEF Expired
  <2>4. creds'[current] = creds[current] \/ (creds'[current] = file /\ file \in Grant)
    BY <1>0, <2>1, <2>3, LoadGives
  <2> QED BY <1>0, <1>2, <2>2, <2>4, NobodyOvertakes
<1>5. CASE RefreshFails(t) \/ ReportReauth(t)
  <2>1. UNCHANGED <<file, latest, current, overtaken, clash, handle>>
    BY <1>5 DEF RefreshFails, ReportReauth, files, history
  <2>2. creds'[current] = creds[current]
    BY <1>0, <1>5, GoOnGives, LeaveGives DEF RefreshFails, ReportReauth
  <2> QED BY <1>0, <1>2, <2>1, <2>2, NobodyOvertakes
<1>6. CASE WriteTmp(t)
  <2> SUFFICES ASSUME ~clash', ~overtaken' PROVE Sticks'
    BY DEF Sticks
  <2>1. ~clash /\ handle[t] = "tmp"
    BY <1>6 DEF WriteTmp, Goto, Whole, Saving
  <2>2. UNCHANGED <<file, latest, creds, current, overtaken, clash, handle>>
    BY <1>6, <2>1 DEF WriteTmp, app
  <2> QED BY <1>0, <1>2, <2>2, NobodyOvertakes
<1>7. CASE ReplaceFails(t)
  <2>1. UNCHANGED <<file, latest, current, overtaken, clash>>
    BY <1>7 DEF ReplaceFails, files, history
  <2>2. creds'[current] = creds[current]
    BY <1>0, <1>7, GoOnGives DEF ReplaceFails
  <2>3. \A r \in Authorizer : handle'[r] = handle[r]
    BY <1>0, <1>7, Distinct DEF ReplaceFails, CredentialsTypeOK
  <2> QED BY <1>0, <1>2, <2>1, <2>2, <2>3, NobodyOvertakes
<1>8. CASE Replace(t)
  <2> SUFFICES ASSUME ~clash', ~overtaken' PROVE Sticks'
    BY DEF Sticks
  <2>1. ~clash /\ ~overtaken /\ ~Stale(t) /\ \A r \in Authorizer : ~Writing(r)
    BY <1>0, <1>8 DEF Replace, CredentialsTypeOK
  <2>2. file' = creds[dest[t]]
    BY <1>8, <2>1 DEF Replace, GoOn, Whole
  <2>3. file' = latest' /\ UNCHANGED current
    BY <1>8, <2>1, <2>2 DEF Replace, Stale
  <2>4. creds'[current] = creds[current]
    BY <1>0, <1>8, GoOnGives DEF Replace
  <2>5. UNCHANGED latest
    BY <1>8 DEF Replace
  <2> QED BY <1>1, <2>1, <2>3, <2>4, <2>5 DEF Sticks, Writing
<1> QED BY <1>3, <1>4, <1>5, <1>6, <1>7, <1>8 DEF Credentials

LEMMA AuthorizationKeepsSticks ==
    ASSUME Typed, Handles, Whole, Sticks, NEW r \in Authorizer, Exchange(r) \/ Finish(r)
    PROVE  Sticks'
<1>0. CredentialsTypeOK /\ r \in Actor /\ \A q \in Authorizer : q # r => pc'[q] = pc[q]
  BY Distinct DEF Typed, CredentialsTypeOK, Exchange, Finish, Open, WriteWeb, WriteCli,
     Write, Reload, Goto
<1>1. CASE Exchange(r)
  <2>1. UNCHANGED <<file, latest, creds, current, overtaken, clash, handle>>
    BY <1>1 DEF Exchange, files, app, history
  <2>2. pc[r] = "idle" /\ pc'[r] = "open"
    BY <1>0, <1>1 DEF Exchange, Goto, CredentialsTypeOK
  <2> QED BY <1>0, <2>1, <2>2, NobodyOvertakes DEF Writing
<1>2. CASE Open(r)
  <2>1. pc'[r] = "write" /\ handle'[r] = "file"
    BY <1>0, <1>2 DEF Open, Goto, CredentialsTypeOK
  <2>2. ~overtaken' => \A q \in Authorizer : ~Writing(q)
    BY <1>2 DEF Open
  <2> QED BY <1>0, <2>1, <2>2 DEF Sticks, Writing
<1>3. CASE WriteWeb(r)
  <2> SUFFICES ASSUME ~clash', ~overtaken' PROVE Sticks'
    BY DEF Sticks
  <2>1. ~clash /\ ~overtaken /\ Writing(r) /\ pc'[r] = "reload"
    BY <1>0, <1>3 DEF WriteWeb, Write, Goto, Writing, CredentialsTypeOK
  <2>2. handle[r] = "file" /\ file = Torn
    BY <2>1 DEF Sticks, Whole
  <2>3. file' = latest'
    BY <1>3, <2>2 DEF WriteWeb, Write, Written
  <2>4. \A q \in Authorizer : ~Writing(q)'
    BY <1>0, <2>1 DEF Sticks, Writing
  <2> QED BY <2>1, <2>3, <2>4 DEF Sticks
<1>4. CASE WriteCli(r)
  BY <1>4 DEF WriteCli, Sticks
<1>5. CASE Reload(r)
  <2>1. creds'[current'] = NoGrant
    BY <1>0, <1>5, NewDestinationGives DEF Reload
  <2>2. UNCHANGED <<file, latest, clash, overtaken, handle>> /\ ~Writing(r) /\ ~Writing(r)'
    BY <1>0, <1>5 DEF Reload, Goto, Writing, CredentialsTypeOK, files, history
  <2>3. \A q \in Authorizer : Writing(q)' <=> Writing(q)
    BY <1>0, <2>2 DEF Writing
  <2> QED BY <2>1, <2>2, <2>3, ReloadKeepsSticks
<1> QED BY <1>1, <1>2, <1>3, <1>4, <1>5 DEF Finish

LEMMA SticksStep ==
    Typed /\ Locked /\ Handles /\ Whole /\ Sticks /\ [Next]_vars => Sticks'
<1> SUFFICES ASSUME Typed, Locked, Handles, Whole, Sticks, [Next]_vars PROVE Sticks'
  OBVIOUS
<1>0. CredentialsTypeOK
  BY DEF Typed
<1>1. CASE EditReload
  <2>1. creds'[current'] = NoGrant /\ UNCHANGED <<file, latest, clash, overtaken, handle, pc>>
    BY <1>0, <1>1, NewDestinationGives DEF EditReload, files, history
  <2> QED BY <2>1, ReloadKeepsSticks DEF Writing
<1>2. CASE (\E g \in Grant : Revoke(g)) \/ UNCHANGED vars
  BY <1>2 DEF Revoke, vars, files, app, history, Sticks, Writing
<1>3. CASE Crash
  <2> SUFFICES ASSUME ~clash', ~overtaken' PROVE Sticks'
    BY DEF Sticks
  <2>1. ~clash /\ ~overtaken /\ \A r \in Authorizer : ~Writing(r)
    BY <1>0, <1>3 DEF Crash, CredentialsTypeOK
  <2>2. file' = latest'
    BY <1>3, <2>1 DEF Crash, Sticks, files
  <2>3. current' \in Dest /\ creds' = [d \in Dest |-> NoGrant]
    BY <1>3, CredentialsAssumption DEF Crash
  <2>4. \A r \in Authorizer : ~Writing(r)'
    BY <1>3, Distinct DEF Crash, Writing
  <2> QED BY <2>2, <2>3, <2>4 DEF Sticks
<1> QED BY <1>1, <1>2, <1>3, ThreadsKeepSticks, AuthorizationKeepsSticks DEF Next
-----------------------------------------------------------------------------
(***************************************************************************)
(* Theorems.                                                               *)
(***************************************************************************)
\* The inductive invariant of the tokens: whoever refreshes holds the lock of
\* its destination, a writer that is alone finds the files as it left them, and
\* the latest grant is where a reader looks for it.
THEOREM TokensInvariant == Spec => [](Typed /\ Locked /\ Handles /\ Whole /\ Sticks)
<1>1. Init => Typed /\ Locked /\ Handles /\ Whole /\ Sticks
  BY TypedInit, LockedInit, HandlesInit, WholeInit, SticksInit
<1>2. Typed /\ Locked /\ Handles /\ Whole /\ Sticks /\ [Next]_vars
         => (Typed /\ Locked /\ Handles /\ Whole /\ Sticks)'
  BY TypedStep, LockedStep, HandlesStep, WholeStep, SticksStep
<1> QED BY <1>1, <1>2, PTL DEF Spec

\* Every variable of the token handling stays within its type; a destination
\* never caches a token file that is missing or torn.
THEOREM CredentialsTypeCorrect == Spec => []CredentialsTypeOK
<1>1. Typed => CredentialsTypeOK
  BY DEF Typed
<1> QED BY <1>1, TokensInvariant, PTL

\* gmail_dest.py:104: as long as no two destinations save and no two
\* authorizations write at a time and none is cut off, the token file is whole.
THEOREM TokenStaysWhole == Spec => []TokenIsWhole
<1>1. Handles /\ Whole => TokenIsWhole
  BY DEF Handles, Whole, TokenIsWhole
<1> QED BY <1>1, TokensInvariant, PTL

\* README "Gmail authorization": once a web authorization is finished, the file
\* and the service hold its grant, unless a poll that was under way saved an
\* older one or the command line wrote another.
THEOREM AuthorizationIsKept == Spec => []AuthorizationSticks
<1>1. Sticks => AuthorizationSticks
  BY DEF Sticks, AuthorizationSticks, Writing
<1> QED BY <1>1, TokensInvariant, PTL
=============================================================================
