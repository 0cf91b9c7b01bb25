--------------------------- MODULE Scheduler_proofs ---------------------------
(***************************************************************************)
(* Theorems about Scheduler, for any set of sources and users, any number  *)
(* of threads and any intervals.                                           *)
(***************************************************************************)
EXTENDS Scheduler, TLAPS

\* The sources in a queue, and that none of them is in it twice.
In(q) == {q[i] : i \in DOMAIN q}
Distinct(q) == \A i, j \in DOMAIN q : q[i] = q[j] => i = j

\* Submitting a poll adds it at the end of the queue.
LEMMA Submitted ==
    ASSUME NEW S, NEW q \in Seq(S), NEW s \in S
    PROVE  /\ Append(q, s) \in Seq(S)
           /\ In(Append(q, s)) = In(q) \cup {s}
           /\ Distinct(q) /\ s \notin In(q) => Distinct(Append(q, s))
<1>1. /\ Append(q, s) \in Seq(S)
      /\ DOMAIN q = 1..Len(q) /\ Len(q) \in Nat
      /\ DOMAIN Append(q, s) = 1..(Len(q) + 1)
      /\ \A i \in 1..Len(q) : Append(q, s)[i] = q[i]
      /\ Append(q, s)[Len(q) + 1] = s
  OBVIOUS
<1>2. \A i \in 1..(Len(q) + 1) : i \in 1..Len(q) \/ i = Len(q) + 1
  BY <1>1
<1>3. In(Append(q, s)) = In(q) \cup {s}
  <2>1. \A i \in 1..Len(q) : i \in 1..(Len(q) + 1)
    BY <1>1
  <2>2. Len(q) + 1 \in 1..(Len(q) + 1)
    BY <1>1
  <2> QED BY <1>1, <1>2, <2>1, <2>2 DEF In
<1>4. ASSUME Distinct(q), s \notin In(q) PROVE Distinct(Append(q, s))
  BY <1>1, <1>2, <1>4 DEF Distinct, In
<1> QED BY <1>1, <1>3, <1>4

\* A thread takes the poll at the head of the queue.
LEMMA TakenUp ==
    ASSUME NEW S, NEW q \in Seq(S), q # <<>>
    PROVE  /\ Head(q) \in S /\ Tail(q) \in Seq(S)
           /\ In(q) = {Head(q)} \cup In(Tail(q))
           /\ Distinct(q) => Distinct(Tail(q)) /\ Head(q) \notin In(Tail(q))
<1>1. /\ Head(q) = q[1] /\ Head(q) \in S /\ Tail(q) \in Seq(S)
      /\ DOMAIN q = 1..Len(q) /\ Len(q) \in Nat /\ Len(q) > 0
      /\ DOMAIN Tail(q) = 1..(Len(q) - 1)
      /\ \A i \in 1..(Len(q) - 1) : Tail(q)[i] = q[i + 1]
  OBVIOUS
<1>2. \A i \in 1..(Len(q) - 1) : i + 1 \in 1..Len(q) /\ i + 1 # 1
  BY <1>1
<1>3. \A i \in 1..Len(q) : i = 1 \/ (i - 1 \in 1..(Len(q) - 1) /\ (i - 1) + 1 = i)
  BY <1>1
<1>4. In(q) = {Head(q)} \cup In(Tail(q))
  <2>1. In(q) \subseteq {Head(q)} \cup In(Tail(q))
    <3> SUFFICES ASSUME NEW i \in 1..Len(q) PROVE q[i] \in {Head(q)} \cup In(Tail(q))
      BY <1>1 DEF In
    <3>1. CASE i = 1
      BY <1>1, <3>1
    <3>2. CASE i # 1
      <4>1. Tail(q)[i - 1] = q[i] /\ i - 1 \in DOMAIN Tail(q)
        BY <1>1, <1>3, <3>2
      <4> QED BY <4>1 DEF In
    <3> QED BY <3>1, <3>2
  <2>2. In(Tail(q)) \subseteq In(q)
    BY <1>1, <1>2 DEF In
  <2>3. Head(q) \in In(q)
    BY <1>1 DEF In
  <2> QED BY <2>1, <2>2, <2>3
<1>5. ASSUME Distinct(q) PROVE Distinct(Tail(q)) /\ Head(q) \notin In(Tail(q))
  <2>1. \A i, j \in 1..(Len(q) - 1) : i + 1 = j + 1 => i = j
    BY <1>1
  <2>2. Distinct(Tail(q))
    BY <1>1, <1>2, <1>5, <2>1 DEF Distinct
  <2>3. 1 \in DOMAIN q
    BY <1>1
  <2> QED BY <1>1, <1>2, <1>5, <2>2, <2>3 DEF Distinct, In
<1> QED BY <1>1, <1>4, <1>5

\* Nobody is polled when the service starts.
LEMMA InitIsScheduled == Init => SchedulerInv
<1> USE SchedulerAssumption
<1> SUFFICES ASSUME Init PROVE SchedulerInv
  OBVIOUS
<1>1. SchedulerTypeOK
  <2>1. NotPolling \in Age /\ MaxCycleAge \in 0..MaxCycleAge
    BY DEF NotPolling, Age
  <2>2. /\ polling \in [Source -> Age] /\ age \in [Source -> Age]
        /\ next_in \in [Source -> Nat] /\ asked \in [Source -> {"no", "idle", "busy"}]
    BY <2>1 DEF Init
  <2>3. queue \in Seq(Source)
    BY DEF Init
  <2> QED BY <2>1, <2>2, <2>3 DEF Init, SchedulerTypeOK
<1>2. Queued = {}
  BY DEF Init, Queued
<1>3. SinglePoll /\ ForcedPollHappens /\ InFlightIsThePool /\ IdleIsKnown
  BY <1>2 DEF Init, SinglePoll, ForcedPollHappens, InFlightIsThePool, IdleIsKnown
<1> QED BY <1>1, <1>3 DEF SchedulerInv

\* A pass lets go of the polls that are done, which are not idle sources.
LEMMA ReapIsSafe == SchedulerInv /\ Reap => SchedulerInv'
<1> USE SchedulerAssumption
<1> SUFFICES ASSUME SchedulerInv, Reap PROVE SchedulerInv'
  OBVIOUS
<1> USE DEF SchedulerInv
<1>1. SchedulerTypeOK'
  <2>1. /\ NextIn \in [Source -> Nat] /\ Due \subseteq Source /\ Snapshot \subseteq Source
    BY DEF SchedulerTypeOK, NextIn, Due, Snapshot
  <2>2. age' \in [Source -> Age]
    BY DEF Reap, SchedulerTypeOK, Age, NotPolling
  <2> QED BY <2>1, <2>2 DEF Reap, SchedulerTypeOK, shared
<1>2. SinglePoll' /\ Queued' = Queued
  BY DEF Reap, SinglePoll, Queued
<1>3. InFlightIsThePool'
  BY <1>2 DEF Reap, InFlightIsThePool, Done, Due
<1>4. IdleIsKnown'
  BY DEF Reap, IdleIsKnown, Snapshot
<1>5. ForcedPollHappens'
  <2>1. \A s \in Source : asked[s] = "idle" => NextIn[s] = next_in[s]
    BY DEF IdleIsKnown, NextIn, Done
  <2> QED BY <2>1 DEF Reap, ForcedPollHappens, Pending, shared
<1> QED BY <1>1, <1>2, <1>3, <1>4, <1>5

\* What the loop launches had no poll.
LEMMA LaunchIsSafe ==
    ASSUME SchedulerInv, NEW s \in Source, Launch(s)
    PROVE  SchedulerInv'
<1> USE SchedulerAssumption DEF SchedulerInv
<1>1. /\ queue' \in Seq(Source) /\ Queued' = Queued \cup {s} /\ Distinct(queue')
  <2>1. queue \in Seq(Source) /\ queue' = Append(queue, s)
    BY DEF Launch, SchedulerTypeOK
  <2>2. s \notin Queued
    BY DEF Launch, InFlightIsThePool
  <2>3. In(queue) = Queued /\ Distinct(queue) /\ In(queue)' = Queued'
    BY DEF In, Queued, Distinct, SinglePoll
  <2>4. In(queue') = In(queue) \cup {s} /\ Distinct(queue') /\ queue' \in Seq(Source)
    BY <2>1, <2>2, <2>3, Submitted
  <2> QED BY <2>3, <2>4 DEF In
<1>2. SchedulerTypeOK'
  <2>1. age' \in [Source -> Age]
    BY DEF Launch, SchedulerTypeOK, Age
  <2> QED BY <1>1, <2>1 DEF Launch, SchedulerTypeOK, shared
<1>3. SinglePoll'
  BY <1>1 DEF Launch, SinglePoll, InFlightIsThePool, Distinct
<1>4. InFlightIsThePool'
  BY <1>1 DEF Launch, InFlightIsThePool
<1>5. IdleIsKnown' /\ ForcedPollHappens'
  BY DEF Launch, IdleIsKnown, ForcedPollHappens, Pending, shared
<1> QED BY <1>2, <1>3, <1>4, <1>5

\* A poll that starts answers the requests for its source.
LEMMA StartIsSafe == SchedulerInv /\ StartPoll => SchedulerInv'
<1> USE SchedulerAssumption
<1> SUFFICES ASSUME SchedulerInv, StartPoll PROVE SchedulerInv'
  OBVIOUS
<1> USE DEF SchedulerInv
<1> DEFINE s == Head(queue)
<1>1. /\ s \in Source /\ queue' \in Seq(Source) /\ Distinct(queue')
      /\ Queued = Queued' \cup {s} /\ s \notin Queued'
  <2>1. queue \in Seq(Source) /\ queue # <<>> /\ queue' = Tail(queue)
    BY DEF StartPoll, SchedulerTypeOK
  <2>2. In(queue) = Queued /\ Distinct(queue) /\ In(queue') = Queued'
    BY DEF In, Queued, Distinct, SinglePoll
  <2> QED BY <2>1, <2>2, TakenUp
<1> HIDE DEF s
<1>2. /\ running' = running \cup {s} /\ asked' = [asked EXCEPT ![s] = "no"]
      /\ UNCHANGED <<config, shared, loop, finished>>
  BY DEF StartPoll, s
<1>3. SchedulerTypeOK'
  BY <1>1, <1>2 DEF SchedulerTypeOK, shared, loop
<1>4. SinglePoll' /\ InFlightIsThePool'
  BY <1>1, <1>2 DEF SinglePoll, InFlightIsThePool, Distinct, loop
<1>5. IdleIsKnown' /\ ForcedPollHappens'
  BY <1>1, <1>2 DEF SchedulerTypeOK, IdleIsKnown, ForcedPollHappens, Pending, shared, loop
<1> QED BY <1>3, <1>4, <1>5

\* The other steps of the loop and the pool.
LEMMA LoopIsSafe ==
    ASSUME SchedulerInv,
           Publish \/ TimeOut \/ TakeRequest \/ \E s \in Source : EndPoll(s)
    PROVE  SchedulerInv'
<1> USE SchedulerAssumption DEF SchedulerInv
<1>1. CASE Publish \/ TimeOut
  <2>1. SchedulerTypeOK'
    BY <1>1 DEF Publish, TimeOut, SchedulerTypeOK, shared, pool
  <2>2. SinglePoll' /\ InFlightIsThePool'
    BY <1>1 DEF Publish, TimeOut, SinglePoll, InFlightIsThePool, Queued, pool
  <2>3. IdleIsKnown' /\ ForcedPollHappens'
    BY <1>1 DEF Publish, TimeOut, IdleIsKnown, ForcedPollHappens, Pending, shared, pool
  <2> QED BY <2>1, <2>2, <2>3
<1>2. CASE TakeRequest
  <2>1. SchedulerTypeOK'
    BY <1>2 DEF TakeRequest, SchedulerTypeOK, pool
  <2>2. SinglePoll' /\ InFlightIsThePool'
    BY <1>2 DEF TakeRequest, SinglePoll, InFlightIsThePool, Queued, pool
  <2>3. IdleIsKnown' /\ ForcedPollHappens'
    BY <1>2 DEF TakeRequest, IdleIsKnown, ForcedPollHappens, Pending, pool
  <2> QED BY <2>1, <2>2, <2>3
<1>3. ASSUME NEW s \in Source, EndPoll(s) PROVE SchedulerInv'
  <2>1. SchedulerTypeOK'
    BY <1>3 DEF EndPoll, SchedulerTypeOK, shared, loop
  <2>2. SinglePoll' /\ InFlightIsThePool'
    BY <1>3 DEF EndPoll, SinglePoll, InFlightIsThePool, Queued, loop
  <2>3. IdleIsKnown' /\ ForcedPollHappens'
    BY <1>3 DEF EndPoll, IdleIsKnown, ForcedPollHappens, Pending, shared, loop
  <2> QED BY <2>1, <2>2, <2>3
<1> QED BY <1>1, <1>2, <1>3

\* The web threads, the clock and a restart.
LEMMA OutsideIsSafe ==
    ASSUME SchedulerInv,
           \/ \E user \in MayAsk : RequestPoll(user)
           \/ \E S \in SUBSET Source : Reload(S)
           \/ Tick \/ Restart
    PROVE  SchedulerInv'
<1> USE SchedulerAssumption DEF SchedulerInv
<1>1. ASSUME NEW user \in MayAsk, RequestPoll(user) PROVE SchedulerInv'
  <2>1. asked' = AskedOnceMore(user) /\ UNCHANGED <<config, polling, cycle_age, loop, pool>>
    BY <1>1 DEF RequestPoll
  <2>2. SchedulerTypeOK'
    BY <1>1, <2>1 DEF RequestPoll, AskedOnceMore, SchedulerTypeOK, loop, pool
  <2>3. SinglePoll' /\ InFlightIsThePool'
    BY <2>1 DEF SinglePoll, InFlightIsThePool, Queued, loop, pool
  <2>4. IdleIsKnown'
    BY <2>1 DEF AskedOnceMore, IdleIsKnown, loop, pool
  <2>5. ForcedPollHappens'
    BY <1>1, <2>1 DEF RequestPoll, AskedOnceMore, ForcedPollHappens, Pending, loop
  <2> QED BY <2>2, <2>3, <2>4, <2>5
<1>2. ASSUME NEW S \in SUBSET Source, Reload(S) PROVE SchedulerInv'
  <2>1. SchedulerTypeOK'
    BY <1>2 DEF Reload, SchedulerTypeOK, shared, loop, pool
  <2>2. SinglePoll' /\ InFlightIsThePool'
    BY <1>2 DEF Reload, SinglePoll, InFlightIsThePool, Queued, loop, pool
  <2>3. IdleIsKnown' /\ ForcedPollHappens'
    BY <1>2 DEF Reload, IdleIsKnown, ForcedPollHappens, Pending, shared, loop, pool
  <2> QED BY <2>1, <2>2, <2>3
<1>3. CASE Tick
  <2>1. /\ next_in' \in [Source -> Nat]
        /\ \A s \in Source : next_in[s] = 0 => next_in'[s] = 0
    BY <1>3 DEF Tick, SchedulerTypeOK
  <2>2. /\ age' \in [Source -> Age] /\ polling' \in [Source -> Age]
        /\ cycle_age' \in 0..MaxCycleAge
    BY <1>3 DEF Tick, SchedulerTypeOK, Older, Age, NotPolling
  <2>3. SchedulerTypeOK'
    BY <1>3, <2>1, <2>2 DEF Tick, SchedulerTypeOK, pool
  <2>4. SinglePoll' /\ InFlightIsThePool'
    BY <1>3 DEF Tick, SinglePoll, InFlightIsThePool, Queued, pool
  <2>5. IdleIsKnown' /\ ForcedPollHappens'
    BY <1>3, <2>1 DEF Tick, IdleIsKnown, ForcedPollHappens, Pending, pool
  <2> QED BY <2>3, <2>4, <2>5
<1>4. CASE Restart
  <2>1. SchedulerTypeOK'
    <3>1. NotPolling \in Age /\ MaxCycleAge \in 0..MaxCycleAge
      BY DEF NotPolling, Age
    <3>2. /\ polling' \in [Source -> Age] /\ age' \in [Source -> Age]
          /\ next_in' \in [Source -> Nat]
      BY <1>4, <3>1 DEF Restart
    <3>3. queue' \in Seq(Source)
      BY <1>4 DEF Restart
    <3> QED BY <1>4, <3>1, <3>2, <3>3 DEF Restart, SchedulerTypeOK
  <2>2. Queued' = {}
    BY <1>4 DEF Restart, Queued
  <2>3. SinglePoll' /\ InFlightIsThePool'
    BY <1>4, <2>2 DEF Restart, SinglePoll, InFlightIsThePool
  <2>4. IdleIsKnown' /\ ForcedPollHappens'
    BY <1>4 DEF Restart, IdleIsKnown, ForcedPollHappens
  <2> QED BY <2>1, <2>3, <2>4
<1> QED BY <1>1, <1>2, <1>3, <1>4

\* The invariant holds in every reachable state.
THEOREM SchedulerInvariant == Spec => []SchedulerInv
<1>1. SchedulerInv /\ [Next]_vars => SchedulerInv'
  <2> SUFFICES ASSUME SchedulerInv, [Next]_vars PROVE SchedulerInv'
    OBVIOUS
  <2>1. CASE Next
    BY <2>1, ReapIsSafe, LaunchIsSafe, StartIsSafe, LoopIsSafe, OutsideIsSafe
       DEF Next, Loop
  <2>2. CASE UNCHANGED vars
    BY <2>2 DEF vars, shared, loop, pool, SchedulerInv, SchedulerTypeOK, SinglePoll,
       InFlightIsThePool, Queued, IdleIsKnown, ForcedPollHappens, Pending
  <2> QED BY <2>1, <2>2
<1> QED BY <1>1, InitIsScheduled, PTL DEF Spec

\* Type correctness of Scheduler.
THEOREM SchedulerTypeCorrect == Spec => []SchedulerTypeOK
<1>1. SchedulerInv => SchedulerTypeOK
  BY DEF SchedulerInv
<1> QED BY <1>1, SchedulerInvariant, PTL

\* No source is ever polled twice at a time, whatever is edited or forced.
THEOREM OnePollAtATime == Spec => []SinglePoll
<1>1. SchedulerInv => SinglePoll
  BY DEF SchedulerInv
<1> QED BY <1>1, SchedulerInvariant, PTL

\* A request to poll an idle source is kept until the poll starts.
THEOREM RequestsAreKept == Spec => []ForcedPollHappens
<1>1. SchedulerInv => ForcedPollHappens
  BY DEF SchedulerInv
<1> QED BY <1>1, SchedulerInvariant, PTL
=============================================================================
