-------------------------------- MODULE Health --------------------------------
(***************************************************************************)
(* "No silent failure": the source_status table (state.py), what a poll    *)
(* and the main loop write to it (sync.sync_source, __main__.main), and    *)
(* the alerts sent from it (alerts.check_and_alert).                       *)
(*                                                                         *)
(* A row belongs to a source, or to the Gmail destination of a user; the   *)
(* row of a destination is named by its user.  The outcome of a poll is    *)
(* all that matters of it here.                                            *)
(***************************************************************************)
EXTENDS Sequences

CONSTANTS
    User, Source,
    OwnerOf,        \* OwnerOf[s]: the user of a source
    Admin,          \* admin.user of the configuration, NoUser if none
    CopyAlerts,     \* admin.copy_alerts
    Reliable,       \* users with a token that is never revoked
    Flaky,          \* sources with a server that may be down
    Removable,      \* sources that may be removed from the configuration
    NoUser,
    Nobody          \* no alert is being sent

\* A user without sources has no row.
Row == Source \cup {OwnerOf[s] : s \in Source}

ASSUME HealthAssumption ==
    /\ OwnerOf \in [Source -> User]
    /\ Source \cap User = {}
    /\ NoUser \notin User /\ Admin \in User \cup {NoUser}
    /\ Nobody \notin Row
    /\ CopyAlerts \in BOOLEAN
    /\ Reliable \subseteq User /\ Flaky \subseteq Source /\ Removable \subseteq Source

VARIABLES
    configured, \* the sources of the configuration
    token,      \* token[u]: Gmail accepts the token of u
    source,     \* source[s]: unreachable, quiet, or with mail to import
    status,     \* the table source_status
    poll,       \* poll[s]: the poll, up to the reaping of its result
    todo, cur,  \* the alerts of this pass, and the one being sent
    targets,    \* the destinations left to send it to
    told,       \* the users it was delivered to
    warned      \* rows with an alert delivered less than realert_after ago,
                \* without a success or a crash before it was recorded

alerting == <<todo, cur, targets, told>>
vars == <<configured, token, source, status, poll, alerting, warned>>

(***************************************************************************)
(* failing: failing_since is NULL, or less or more than alert_after_hours  *)
(* ago.  alerted: last_alert_at is less than realert_after_hours ago (NULL *)
(* or longer ago makes no difference).                                     *)
(***************************************************************************)
Status == [failing : {"no", "lately", "long"}, alerted : BOOLEAN]
Well == [failing |-> "no", alerted |-> FALSE]

Init ==
    /\ configured = Source
    /\ token \in [User -> BOOLEAN] /\ \A u \in Reliable : token[u]
    /\ source \in [Source -> {"down", "quiet", "mail"}]
    /\ \A s \in Source : source[s] = "down" => s \in Flaky
    /\ status = [r \in Row |-> Well]
    /\ poll = [s \in Source |-> "none"]
    /\ todo = {} /\ cur = Nobody /\ targets = <<>> /\ told = {}
    /\ warned = {}
-----------------------------------------------------------------------------
\* state.py operations on the table.

RecordSuccess(r) == /\ status' = [status EXCEPT ![r] = Well]
                    /\ warned' = warned \ {r}

\* Mutant: failing_since is the time of the last failure.
RecordLatestFailure(r) ==
    /\ status' = [status EXCEPT ![r].failing = "lately"]
    /\ UNCHANGED warned

\* COALESCE: failing_since stays at the first failure.
RecordFailure(r) ==
    /\ status' = [status EXCEPT ![r].failing = IF @ = "no" THEN "lately" ELSE @]
    /\ UNCHANGED warned

NeedingAlert == {r \in Row : status[r].failing = "long" /\ ~status[r].alerted}
-----------------------------------------------------------------------------
(***************************************************************************)
(* A poll and its result.                                                  *)
(***************************************************************************)
\* The loop polls what is configured.
Due(s) == s \in configured /\ poll[s] = "none"

\* Nothing to import, or a token that lets it import.
PollSucceeds(s) ==
    /\ Due(s) /\ poll' = [poll EXCEPT ![s] = "ok"]
    /\ source[s] = "quiet" \/ (source[s] = "mail" /\ token[OwnerOf[s]])
    /\ source' = [source EXCEPT ![s] = "quiet"]
    /\ RecordSuccess(s)
    /\ UNCHANGED <<configured, token, alerting>>

PollFails(s) ==
    /\ Due(s) /\ poll' = [poll EXCEPT ![s] = "failed"]
    /\ source[s] = "down"
    /\ RecordFailure(s)
    /\ UNCHANGED <<configured, token, source, alerting>>

\* ReauthNeeded, met when there is something to import: the source has failed,
\* and, in a second transaction, its user's destination.
PollNeedsReauth(s) ==
    /\ Due(s) /\ poll' = [poll EXCEPT ![s] = "reauth"]
    /\ source[s] = "mail" /\ ~token[OwnerOf[s]]
    /\ RecordFailure(s)
    /\ UNCHANGED <<configured, token, source, alerting>>

DestinationFails(s) ==
    /\ poll[s] = "reauth" /\ poll' = [poll EXCEPT ![s] = "failed"]
    /\ RecordFailure(OwnerOf[s])
    /\ UNCHANGED <<configured, token, source, alerting>>

\* Mutant: a good poll says nothing about the destination.
ReapOnly(s) ==
    /\ cur = Nobody
    /\ poll[s] \in {"ok", "failed"} /\ poll' = [poll EXCEPT ![s] = "none"]
    /\ UNCHANGED <<configured, token, source, status, alerting, warned>>

\* The main loop reaps the result; a good one clears the user's destination,
\* unless the source is no longer configured.
Reap(s) ==
    /\ cur = Nobody
    /\ poll[s] \in {"ok", "failed"} /\ poll' = [poll EXCEPT ![s] = "none"]
    /\ IF poll[s] = "ok" /\ s \in configured THEN RecordSuccess(OwnerOf[s])
                                              ELSE UNCHANGED <<status, warned>>
    /\ UNCHANGED <<configured, token, source, alerting>>
-----------------------------------------------------------------------------
(***************************************************************************)
(* check_and_alert, in the main loop.                                      *)
(***************************************************************************)
\* Mutant: every alert goes to its owner.
TargetsOwner(r) == IF r \in Source THEN <<OwnerOf[r]>> ELSE <<r>>

\* Mutant: while its owner cannot be reached, an alert goes to any other user who
\* can.
TargetsReachable(r) ==
    IF r \in Source /\ ~token[OwnerOf[r]]
    THEN <<CHOOSE u \in User \ {OwnerOf[r], Admin} : token[u]>> \o <<Admin>>
    ELSE TargetsOwner(r) \o <<Admin>>

\* The owner of a source; the admin for a destination and as a copy.
Targets(r) ==
    (IF r \in Source THEN <<OwnerOf[r]>> ELSE <<>>)
    \o (IF Admin # NoUser /\ (r \in User \/ (CopyAlerts /\ Admin # OwnerOf[r]))
        THEN <<Admin>> ELSE <<>>)

\* The next of the alerts that are left, and whom it goes to.
NextAlert(left) ==
    /\ told' = {}
    /\ \/ left = {} /\ todo' = {} /\ cur' = Nobody /\ targets' = <<>>
       \/ \E r \in left : todo' = left \ {r} /\ cur' = r /\ targets' = Targets(r)

CheckStatuses ==
    /\ cur = Nobody /\ NeedingAlert # {}
    /\ NextAlert(NeedingAlert)
    /\ UNCHANGED <<configured, token, source, status, poll, warned>>

\* dest.import_alert, which needs the token of the user it goes to.
Deliver ==
    /\ cur # Nobody /\ targets # <<>>
    /\ targets' = Tail(targets)
    /\ told' = IF token[Head(targets)] THEN told \cup {Head(targets)} ELSE told
    /\ UNCHANGED <<configured, token, source, status, poll, todo, cur, warned>>

\* Mutant: the alert is not recorded.
ForgetAlert ==
    /\ cur # Nobody /\ targets = <<>>
    /\ warned' = IF told = {} THEN warned ELSE warned \cup {cur}
    /\ NextAlert(todo)
    /\ UNCHANGED <<configured, token, source, status, poll>>

\* mark_alerted, unless nobody could be told.
EndAlert ==
    /\ cur # Nobody /\ targets = <<>>
    /\ IF told = {} THEN UNCHANGED <<status, warned>>
       ELSE /\ status' = [status EXCEPT ![cur].alerted = TRUE]
            /\ warned' = warned \cup {cur}
    /\ NextAlert(todo)
    /\ UNCHANGED <<configured, token, source, poll>>

MainLoop == CheckStatuses \/ Deliver \/ EndAlert
-----------------------------------------------------------------------------
(***************************************************************************)
(* The hours, the sources, the tokens, and a crash of the service.         *)
(***************************************************************************)
FailsForLong(r) ==
    /\ status[r].failing = "lately"
    /\ status' = [status EXCEPT ![r].failing = "long"]
    /\ UNCHANGED <<configured, token, source, poll, alerting, warned>>

AlertGrowsOld(r) ==
    /\ status[r].alerted
    /\ status' = [status EXCEPT ![r].alerted = FALSE]
    /\ warned' = warned \ {r}
    /\ UNCHANGED <<configured, token, source, poll, alerting>>

SourceChanges(s) ==
    /\ \E c \in {"down", "quiet", "mail"} \ {source[s]} :
          /\ c = "down" => s \in Flaky
          /\ source' = [source EXCEPT ![s] = c]
    /\ UNCHANGED <<configured, token, status, poll, alerting, warned>>

\* A source is removed, polled or not, or added again; its row stays.
SourceEdited(s) ==
    /\ s \in Removable
    /\ configured' = IF s \in configured THEN configured \ {s} ELSE configured \cup {s}
    /\ UNCHANGED <<token, source, status, poll, alerting, warned>>

\* A token is revoked, or its owner authorizes again.
TokenChanges(u) ==
    /\ u \notin Reliable
    /\ token' = [token EXCEPT ![u] = ~@]
    /\ UNCHANGED <<configured, source, status, poll, alerting, warned>>

Crash ==
    /\ poll' = [s \in Source |-> "none"]
    /\ todo' = {} /\ cur' = Nobody /\ targets' = <<>> /\ told' = {}
    /\ UNCHANGED <<configured, token, source, status, warned>>

PollSteps(s) == \/ PollSucceeds(s) \/ PollFails(s) \/ PollNeedsReauth(s)
                \/ DestinationFails(s)

Next == \/ \E s \in Source : PollSteps(s) \/ Reap(s) \/ SourceChanges(s) \/ SourceEdited(s)
        \/ MainLoop \/ Crash
        \/ \E r \in Row : FailsForLong(r) \/ AlertGrowsOld(r)
        \/ \E u \in User : TokenChanges(u)

Spec == Init /\ [][Next]_vars
-----------------------------------------------------------------------------
\* Every variable stays within its type.
HealthTypeOK ==
    /\ configured \subseteq Source
    /\ token \in [User -> BOOLEAN]
    /\ source \in [Source -> {"down", "quiet", "mail"}]
    /\ status \in [Row -> Status]
    /\ poll \in [Source -> {"none", "reauth", "ok", "failed"}]
    /\ todo \subseteq Row /\ cur \in Row \cup {Nobody}
    /\ targets \in Seq(User) /\ told \subseteq User
    /\ warned \subseteq Row

\* README "Operations": alerts repeat every realert_after_hours; nobody is told
\* of the same outage again before that, unless the service crashed before it
\* recorded the alert.
NoNagging == [][cur' # cur => cur' \notin warned]_vars

\* README "Strict tenant isolation": an alert reaches its owner and the admin,
\* nobody else; one about a destination reaches the admin alone.
AlertsStayInTheHouse ==
    cur # Nobody => told \subseteq (IF cur \in Source THEN {OwnerOf[cur], Admin} ELSE {Admin})
-----------------------------------------------------------------------------
(***************************************************************************)
(* Liveness.  Sources are polled again and again and their results reaped  *)
(* (Scheduler, PolledForEver), the main loop keeps checking, hours pass,   *)
(* and the service does not crash for ever.                                *)
(***************************************************************************)
Fairness ==
    /\ \A s \in Source : WF_vars(PollSteps(s)) /\ SF_vars(Reap(s))
    /\ WF_vars(MainLoop)
    /\ \A r \in Row : WF_vars(FailsForLong(r)) /\ WF_vars(AlertGrowsOld(r))

FairSpec == Spec /\ Fairness /\ <>[][~Crash]_vars

SourcesOf(u) == {s \in Source : OwnerOf[s] = u}
Blocked(u) ==
    /\ ~token[u] /\ SourcesOf(u) \cap configured # {}
    /\ \A s \in SourcesOf(u) : source[s] = "mail"
Told(u, r) == cur = r /\ u \in told

\* README "No silent failure": a source that is down for good is reported to
\* its owner again and again, as long as the owner's Gmail can be reached.
OwnerIsTold ==
    \A s \in Source :
        <>[](s \in configured /\ source[s] = "down" /\ token[OwnerOf[s]])
            => []<>Told(OwnerOf[s], s)

\* README "No silent failure": when none of a user's sources can deliver any
\* more, the admin is told of the destination.
AdminIsToldOfBlockedUser ==
    \A u \in User \ {Admin} :
        /\ SourcesOf(u) # {} /\ Admin \in Reliable
        /\ <>[]Blocked(u)
        => []<>Told(Admin, u)

\* Once a source delivers again, for good, its alerts and those about its
\* user's destination stop, whatever becomes of the user's other sources.
AlertsStop ==
    \A s \in Source :
        <>[](s \in configured /\ source[s] # "down" /\ token[OwnerOf[s]])
            => <>[](cur \notin {s, OwnerOf[s]})

\* alerts.py:6: if the owner's destination itself is broken (OAuth), the alert
\* goes to the admin instead; here for a source with mail it cannot deliver.
AdminIsToldOfRevokedToken ==
    \A s \in Source :
        LET u == OwnerOf[s] IN
        /\ u # Admin /\ Admin \in Reliable
        /\ <>[](~token[u] /\ s \in configured /\ source[s] = "mail")
        => []<>(Told(Admin, u) \/ Told(Admin, s))
=============================================================================
