----------------------------- MODULE Health_proofs -----------------------------
(***************************************************************************)
(* Theorems about Health: who is told of an outage, and how often, for any *)
(* set of users and sources, with or without an administrator.             *)
(***************************************************************************)
EXTENDS Health, SequenceTheorems, TLAPS

\* Those who may read an alert about row r.
House(r) == IF r \in Source THEN {OwnerOf[r], Admin} ELSE {Admin}

\* The alert under way goes to the house of its row, and has.
Discreet == cur # Nobody => /\ targets \in Seq(House(cur) \cap User)
                            /\ told \subseteq House(cur)

\* The history of warnings is what the table says.
WarnedIsAlerted == warned = {r \in Row : status[r].alerted}

\* A pass alerts of a row once, and of none that was alerted of lately.
OncePerPass == cur \notin todo /\ todo \cap warned = {} /\ cur \notin warned

HealthInv == HealthTypeOK /\ Discreet /\ WarnedIsAlerted /\ OncePerPass

LEMMA RowType == \A s \in Source : s \in Row /\ OwnerOf[s] \in Row /\ OwnerOf[s] \in User
BY HealthAssumption DEF Row

\* Targets are in the house.
LEMMA TargetsInHouse ==
    ASSUME NEW r \in Row
    PROVE  Targets(r) \in Seq(House(r) \cap User)
<1> DEFINE H == House(r) \cap User
           owner == IF r \in Source THEN <<OwnerOf[r]>> ELSE <<>>
           admin == IF Admin # NoUser /\ (r \in User \/ (CopyAlerts /\ Admin # OwnerOf[r]))
                    THEN <<Admin>> ELSE <<>>
<1> HIDE DEF H
<1>0. ASSUME NEW x \in H PROVE <<x>> \in Seq(H)
  OBVIOUS
<1>1. owner \in Seq(H)
  <2>1. CASE r \in Source
    <3>1. OwnerOf[r] \in H
      BY <2>1, RowType DEF H, House
    <3> QED BY <1>0, <2>1, <3>1
  <2>2. CASE r \notin Source
    BY <2>2
  <2> QED BY <2>1, <2>2
<1>2. admin \in Seq(H)
  <2>1. CASE Admin # NoUser
    <3>1. Admin \in H
      BY <2>1, HealthAssumption DEF H, House
    <3> QED BY <1>0, <3>1
  <2>2. CASE Admin = NoUser
    BY <2>2
  <2> QED BY <2>1, <2>2
<1>3. owner \o admin \in Seq(H)
  <2> HIDE DEF owner, admin
  <2> QED BY <1>1, <1>2
<1> QED BY <1>3 DEF Targets, H

\* Taking the next alert of those left.
LEMMA NextAlertIsSafe ==
    ASSUME NEW left \in SUBSET Row, NextAlert(left)
    PROVE  /\ todo' \subseteq left /\ cur' \in left \cup {Nobody}
           /\ cur' \notin todo' /\ told' = {}
           /\ targets' \in Seq(User)
           /\ cur' # Nobody => targets' \in Seq(House(cur') \cap User)
<1>1. CASE left = {} /\ todo' = {} /\ cur' = Nobody /\ targets' = <<>>
  BY <1>1 DEF NextAlert
<1>2. CASE \E r \in left : todo' = left \ {r} /\ cur' = r /\ targets' = Targets(r)
  <2>1. PICK r \in left : todo' = left \ {r} /\ cur' = r /\ targets' = Targets(r)
    BY <1>2
  <2>2. Targets(r) \in Seq(House(r) \cap User)
    BY TargetsInHouse
  <2>3. Targets(r) \in Seq(User)
    BY <2>2
  <2> QED BY <2>1, <2>2, <2>3 DEF NextAlert
<1> QED BY <1>1, <1>2 DEF NextAlert

LEMMA HealthInit == Init => HealthInv
BY DEF Init, HealthInv, HealthTypeOK, Status, Well, Discreet, WarnedIsAlerted,
   OncePerPass

\* What changes the table between two alerts: no alert is touched, nobody is
\* warned, and a row whose alert is forgotten was not waiting for one.
LEMMA TableChanges ==
    ASSUME HealthInv, UNCHANGED alerting, NEW r \in Row,
           \/ UNCHANGED <<status, warned>>
           \/ RecordSuccess(r) \/ RecordFailure(r)
           \/ FailsForLong(r) \/ AlertGrowsOld(r)
    PROVE  /\ status' \in [Row -> Status] /\ warned' \subseteq Row
           /\ Discreet' /\ WarnedIsAlerted' /\ OncePerPass'
<1>1. status \in [Row -> Status] /\ warned = {x \in Row : status[x].alerted}
  BY DEF HealthInv, HealthTypeOK, WarnedIsAlerted
<1>2. /\ status' \in [Row -> Status]
      /\ WarnedIsAlerted' /\ warned' \subseteq warned
  <2>1. CASE UNCHANGED <<status, warned>>
    BY <1>1, <2>1 DEF WarnedIsAlerted
  <2>2. CASE RecordSuccess(r)
    BY <1>1, <2>2 DEF RecordSuccess, Status, Well, WarnedIsAlerted
  <2>3. CASE RecordFailure(r)
    BY <1>1, <2>3 DEF RecordFailure, Status, WarnedIsAlerted
  <2>4. CASE FailsForLong(r)
    BY <1>1, <2>4 DEF FailsForLong, Status, WarnedIsAlerted
  <2>5. CASE AlertGrowsOld(r)
    BY <1>1, <2>5 DEF AlertGrowsOld, Status, WarnedIsAlerted
  <2> QED BY <2>1, <2>2, <2>3, <2>4, <2>5
<1>3. Discreet'
  BY DEF HealthInv, Discreet, alerting
<1> QED BY <1>1, <1>2, <1>3 DEF HealthInv, OncePerPass, alerting

LEMMA HealthStep == HealthInv /\ [Next]_vars => HealthInv'
<1> SUFFICES ASSUME HealthInv, [Next]_vars PROVE HealthInv'
  OBVIOUS
<1> USE HealthAssumption
<1>0. HealthTypeOK /\ Discreet /\ WarnedIsAlerted /\ OncePerPass
  BY DEF HealthInv
<1>1. ASSUME NEW s \in Source, PollSteps(s) \/ Reap(s) PROVE HealthInv'
  <2>1. UNCHANGED <<configured, token, alerting>>
    BY <1>1 DEF PollSteps, PollSucceeds, PollFails, PollNeedsReauth, DestinationFails,
       Reap
  <2>2. /\ source' \in [Source -> {"down", "quiet", "mail"}]
        /\ poll' \in [Source -> {"none", "reauth", "ok", "failed"}]
    BY <1>0, <1>1 DEF PollSteps, PollSucceeds, PollFails, PollNeedsReauth,
       DestinationFails, Reap, HealthTypeOK
  <2>3. \E r \in Row : \/ UNCHANGED <<status, warned>>
                       \/ RecordSuccess(r) \/ RecordFailure(r)
    BY <1>1, RowType DEF PollSteps, PollSucceeds, PollFails, PollNeedsReauth,
       DestinationFails, Reap
  <2>4. /\ status' \in [Row -> Status] /\ warned' \subseteq Row
        /\ Discreet' /\ WarnedIsAlerted' /\ OncePerPass'
    BY <2>1, <2>3, TableChanges
  <2> QED BY <1>0, <2>1, <2>2, <2>4 DEF HealthInv, HealthTypeOK, alerting
<1>2. ASSUME NEW r \in Row, FailsForLong(r) \/ AlertGrowsOld(r) PROVE HealthInv'
  <2>1. UNCHANGED <<configured, token, source, poll, alerting>>
    BY <1>2 DEF FailsForLong, AlertGrowsOld
  <2>2. /\ status' \in [Row -> Status] /\ warned' \subseteq Row
        /\ Discreet' /\ WarnedIsAlerted' /\ OncePerPass'
    BY <1>2, <2>1, TableChanges
  <2> QED BY <1>0, <2>1, <2>2 DEF HealthInv, HealthTypeOK, alerting
<1>3. ASSUME \/ \E s \in Source : SourceChanges(s) \/ SourceEdited(s)
             \/ \E u \in User : TokenChanges(u)
      PROVE  HealthInv'
  <2>1. UNCHANGED <<status, poll, alerting, warned>>
    BY <1>3 DEF SourceChanges, SourceEdited, TokenChanges
  <2>2. configured' \subseteq Source
    BY <1>0, <1>3 DEF SourceChanges, SourceEdited, TokenChanges, HealthTypeOK
  <2>3. token' \in [User -> BOOLEAN]
    BY <1>0, <1>3 DEF SourceChanges, SourceEdited, TokenChanges, HealthTypeOK
  <2>4. source' \in [Source -> {"down", "quiet", "mail"}]
    <3>1. ASSUME NEW s \in Source, SourceChanges(s)
          PROVE  source' \in [Source -> {"down", "quiet", "mail"}]
      <4>1. PICK c \in {"down", "quiet", "mail"} : source' = [source EXCEPT ![s] = c]
        BY <3>1 DEF SourceChanges
      <4> QED BY <1>0, <4>1 DEF HealthTypeOK
    <3>2. CASE ~\E s \in Source : SourceChanges(s)
      BY <1>0, <1>3, <3>2 DEF SourceEdited, TokenChanges, HealthTypeOK
    <3> QED BY <3>1, <3>2
  <2> QED BY <1>0, <2>1, <2>2, <2>3, <2>4 DEF HealthInv, HealthTypeOK, Discreet,
          WarnedIsAlerted, OncePerPass, alerting
<1>4. CASE CheckStatuses
  <2>1. NeedingAlert \in SUBSET Row /\ NeedingAlert \cap warned = {}
    BY <1>0 DEF NeedingAlert, WarnedIsAlerted
  <2>2. NextAlert(NeedingAlert)
    BY <1>4 DEF CheckStatuses
  <2>3. Nobody \notin warned
    BY <1>0 DEF HealthTypeOK
  <2> QED BY <1>0, <1>4, <2>1, <2>2, <2>3, NextAlertIsSafe DEF CheckStatuses,
          HealthInv, HealthTypeOK, Discreet, WarnedIsAlerted, OncePerPass
<1>5. CASE Deliver
  <2>1. /\ cur # Nobody /\ targets # <<>> /\ targets' = Tail(targets)
        /\ told' \subseteq told \cup {Head(targets)}
        /\ UNCHANGED <<configured, token, source, status, poll, todo, cur, warned>>
    BY <1>5 DEF Deliver
  <2>2. targets \in Seq(House(cur) \cap User) /\ told \subseteq House(cur)
    BY <1>0, <2>1 DEF Discreet
  <2>3. /\ Head(targets) \in House(cur) \cap User
        /\ Tail(targets) \in Seq(House(cur) \cap User)
    BY <2>1, <2>2, HeadTailProperties
  <2>4. Tail(targets) \in Seq(User)
    BY <2>3
  <2> QED BY <1>0, <2>1, <2>2, <2>3, <2>4 DEF HealthInv, HealthTypeOK, Discreet,
          WarnedIsAlerted, OncePerPass
<1>6. CASE EndAlert
  <2>1. todo \in SUBSET Row /\ cur \in Row /\ NextAlert(todo)
    BY <1>0, <1>6 DEF EndAlert, HealthTypeOK
  <2>2. /\ status' \in [Row -> Status] /\ warned' \in {warned, warned \cup {cur}}
        /\ warned' = {r \in Row : status'[r].alerted}
    <3>1. CASE told = {}
      BY <1>0, <1>6, <3>1 DEF EndAlert, HealthTypeOK, WarnedIsAlerted
    <3>2. CASE told # {}
      <4>1. /\ status' = [status EXCEPT ![cur].alerted = TRUE]
            /\ warned' = warned \cup {cur}
        BY <1>6, <3>2 DEF EndAlert
      <4>2. status \in [Row -> Status] /\ warned = {r \in Row : status[r].alerted}
        BY <1>0 DEF HealthTypeOK, WarnedIsAlerted
      <4>3. [status[cur] EXCEPT !.alerted = TRUE] \in Status
        BY <2>1, <4>2 DEF Status
      <4>4. status' \in [Row -> Status]
        BY <2>1, <4>1, <4>2, <4>3
      <4>5. status'[cur].alerted /\ \A r \in Row \ {cur} : status'[r] = status[r]
        BY <2>1, <4>1, <4>2 DEF Status
      <4> QED BY <2>1, <4>1, <4>2, <4>4, <4>5
    <3> QED BY <3>1, <3>2
  <2>3. Nobody \notin warned'
    BY <2>2
  <2>4. UNCHANGED <<configured, token, source, poll>>
    BY <1>6 DEF EndAlert
  <2> QED BY <1>0, <2>1, <2>2, <2>3, <2>4, NextAlertIsSafe DEF HealthInv, HealthTypeOK,
          Discreet, WarnedIsAlerted, OncePerPass
<1>7. CASE Crash
  BY <1>0, <1>7 DEF Crash, HealthInv, HealthTypeOK, Discreet, WarnedIsAlerted,
     OncePerPass
<1>8. CASE UNCHANGED vars
  BY <1>0, <1>8 DEF vars, alerting, HealthInv, HealthTypeOK, Discreet,
     WarnedIsAlerted, OncePerPass
<1>9. CASE Next
  BY <1>1, <1>2, <1>3, <1>4, <1>5, <1>6, <1>7, <1>9 DEF Next, MainLoop
<1> QED BY <1>8, <1>9

\* The table and the alert under way are consistent in every reachable state.
THEOREM HealthInvariant == Spec => []HealthInv
BY HealthInit, HealthStep, PTL DEF Spec

\* Tenant isolation of alerts: an alert about a source reaches its owner and the
\* admin, one about a destination the admin alone, for any number of users.
THEOREM AlertsAreDiscreet == Spec => []AlertsStayInTheHouse
<1>1. HealthInv => AlertsStayInTheHouse
  BY DEF HealthInv, Discreet, House, AlertsStayInTheHouse
<1> QED BY <1>1, HealthInvariant, PTL

\* No row is alerted of again before realert_after_hours, however many rows,
\* recipients and polls there are.
THEOREM NobodyIsNagged == Spec => NoNagging
<1>1. HealthInv /\ [Next]_vars => [cur' # cur => cur' \notin warned]_vars
  <2> SUFFICES ASSUME HealthInv, Next, cur' # cur PROVE cur' \notin warned
    OBVIOUS
  <2>0. /\ todo \in SUBSET Row /\ todo \cap warned = {} /\ Nobody \notin warned
        /\ NeedingAlert \in SUBSET Row /\ NeedingAlert \cap warned = {}
    BY HealthAssumption DEF HealthInv, HealthTypeOK, OncePerPass, WarnedIsAlerted,
       NeedingAlert
  <2>1. CASE MainLoop
    <3>1. NextAlert(NeedingAlert) \/ NextAlert(todo)
      BY <2>1 DEF MainLoop, CheckStatuses, Deliver, EndAlert
    <3> QED BY <2>0, <3>1, NextAlertIsSafe
  <2>2. CASE Crash
    BY <2>0, <2>2 DEF Crash
  <2>3. CASE ~MainLoop /\ ~Crash
    <3>1. UNCHANGED alerting
      BY <2>3 DEF Next, PollSteps, PollSucceeds, PollFails, PollNeedsReauth,
         DestinationFails, Reap, SourceChanges, SourceEdited, FailsForLong,
         AlertGrowsOld, TokenChanges
    <3> QED BY <3>1 DEF alerting
  <2> QED BY <2>1, <2>2, <2>3
<1> QED BY <1>1, HealthInvariant, PTL DEF Spec, NoNagging
=============================================================================
