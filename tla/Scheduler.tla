------------------------------ MODULE Scheduler ------------------------------
(***************************************************************************)
(* The service's main loop (__main__.main), the thread pool it submits     *)
(* polls to, and the web threads that ask for polls, replace the           *)
(* configuration and answer /healthz (web.Shared, web.AppState).           *)
(*                                                                         *)
(* A poll is the submitted call of sync_source; what it does is in         *)
(* FolderSync.  Time is counted in ticks: next_in, age and cycle_age are   *)
(* the distances from now of the time stamps the code stores.              *)
(***************************************************************************)
EXTENDS Integers, Sequences, FiniteSets

CONSTANTS
    User, Source,
    OwnerOf,       \* OwnerOf[s]: the user of a source
    Interval,      \* Interval[s]: its poll_interval_seconds
    PoolSize,      \* max_workers of the pool
    Fixed,         \* sources that are never removed from the configuration
    Slow,          \* sources with polls that may never end
    MayAsk,        \* users a POST /poll names (NoUser: everybody)
    NoUser,
    MaxPollAge,    \* MAX_POLL_SECONDS
    MaxCycleAge    \* max(3 * poll_interval, 600)

ASSUME SchedulerAssumption ==
    /\ OwnerOf \in [Source -> User]
    /\ Interval \in [Source -> Nat \ {0}]
    /\ PoolSize \in Nat \ {0}
    /\ Fixed \subseteq Source /\ Slow \subseteq Source
    /\ NoUser \notin User /\ MayAsk \subseteq User \cup {NoUser}
    /\ MaxPollAge \in Nat \ {0} /\ MaxCycleAge \in Nat \ {0}

VARIABLES
    \* AppState and Shared
    config,        \* the sources of the loaded configuration
    force_set, force_user,
    polling,       \* polling[s]: age of the published poll
    cycle_age,     \* time since the last published pass, MaxCycleAge if none
    \* the main loop
    pc,
    sources,       \* the snapshot this pass works on
    todo,          \* sources this pass has found due
    next_in,       \* next_in[s]: time until next_run, 0 when due or unknown
    in_flight,     \* sources with a submitted poll
    age,           \* age[s]: time since poll_started
    \* the thread pool
    queue, running, finished,
    \* which requested polls have not started since: "busy" when a poll of the
    \* source was under way at the request, or the loop did not know the source
    asked

loop == <<pc, sources, todo, next_in, in_flight, age>>
shared == <<force_set, force_user, polling, cycle_age>>
pool == <<queue, running, finished>>
vars == <<config, shared, loop, pool, asked>>

NotPolling == -1
Age == -1..MaxPollAge
Older(a) == IF a = NotPolling \/ a = MaxPollAge THEN a ELSE a + 1

Init ==
    /\ config \in SUBSET Source /\ Fixed \subseteq config
    /\ force_set = FALSE /\ force_user = NoUser
    /\ polling = [s \in Source |-> NotPolling]
    /\ cycle_age = MaxCycleAge
    /\ pc = "reap" /\ sources = {} /\ todo = {}
    /\ next_in = [s \in Source |-> 0]
    /\ in_flight = {}
    /\ age = [s \in Source |-> NotPolling]
    /\ queue = <<>> /\ running = {} /\ finished = {}
    /\ asked = [s \in Source |-> "no"]
-----------------------------------------------------------------------------
(***************************************************************************)
(* One pass of the main loop.                                              *)
(***************************************************************************)
\* Mutant: sources that left the configuration stay in the loop's table.
MergedSnapshot == sources \cup config

\* app.snapshot() and the table of sources built from it.
Snapshot == config

\* Polls whose future is done.
Done == in_flight \cap finished
NextIn == [s \in Source |->
    IF s \in Done \cap Snapshot THEN Interval[s] ELSE next_in[s]]

\* Mutant: a due source is launched whether or not its poll is running.
DueAnyway == {s \in Snapshot : NextIn[s] = 0}

\* Sources to launch; the ones the loop knows nothing of are due.
Due == {s \in Snapshot \ (in_flight \ Done) : NextIn[s] = 0}

Reap ==
    /\ pc = "reap" /\ pc' = "launch"
    /\ sources' = Snapshot
    /\ in_flight' = in_flight \ Done /\ finished' = finished \ Done
    /\ next_in' = NextIn
    /\ age' = [s \in Source |-> IF s \in Done THEN NotPolling ELSE age[s]]
    /\ todo' = Due
    /\ UNCHANGED <<config, shared, queue, running, asked>>

\* pool.submit(sync_source, ...) of a due source.
Launch(s) ==
    /\ pc = "launch" /\ s \in todo
    /\ todo' = todo \ {s}
    /\ in_flight' = in_flight \cup {s}
    /\ age' = [age EXCEPT ![s] = 0]
    /\ queue' = Append(queue, s)
    /\ UNCHANGED <<config, shared, pc, sources, next_in, running, finished, asked>>

\* Mutant: the published polls are stamped with the time of the pass.
PublishRestamped ==
    /\ pc = "launch" /\ todo = {} /\ pc' = "sleep"
    /\ polling' = [s \in Source |-> IF s \in in_flight THEN 0 ELSE NotPolling]
    /\ cycle_age' = 0
    /\ UNCHANGED <<config, force_set, force_user, sources, todo, next_in, in_flight,
                   age, pool, asked>>

\* Fresh copies for the web threads.
Publish ==
    /\ pc = "launch" /\ todo = {} /\ pc' = "sleep"
    /\ polling' = age
    /\ cycle_age' = 0
    /\ UNCHANGED <<config, force_set, force_user, sources, todo, next_in, in_flight,
                   age, pool, asked>>

\* Mutant: the loop waits for the polls of a pass, as --once does.
TimeOutWhenIdle ==
    /\ pc = "sleep" /\ pc' = "reap"
    /\ ~force_set /\ in_flight \subseteq finished
    /\ UNCHANGED <<config, shared, sources, todo, next_in, in_flight, age, pool, asked>>

\* force_event.wait times out ...
TimeOut ==
    /\ pc = "sleep" /\ pc' = "reap"
    /\ ~force_set
    /\ UNCHANGED <<config, shared, sources, todo, next_in, in_flight, age, pool, asked>>

\* ... or returns, and take_poll_request makes the sources of the user due.
TakeRequest ==
    /\ pc = "sleep" /\ pc' = "reap"
    /\ force_set
    /\ next_in' = [s \in Source |->
          IF s \in sources /\ force_user \in {NoUser, OwnerOf[s]} THEN 0 ELSE next_in[s]]
    /\ force_set' = FALSE /\ force_user' = NoUser
    /\ UNCHANGED <<config, polling, cycle_age, sources, todo, in_flight, age, pool, asked>>

Loop == Reap \/ (\E s \in Source : Launch(s)) \/ Publish \/ TimeOut \/ TakeRequest
-----------------------------------------------------------------------------
(***************************************************************************)
(* The pool: polls are started in the order they were submitted.           *)
(***************************************************************************)
StartPoll ==
    /\ queue # <<>> /\ Cardinality(running) < PoolSize
    /\ running' = running \cup {Head(queue)}
    /\ queue' = Tail(queue)
    /\ asked' = [asked EXCEPT ![Head(queue)] = "no"]
    /\ UNCHANGED <<config, shared, loop, finished>>

EndPoll(s) ==
    /\ s \in running
    /\ running' = running \ {s}
    /\ finished' = finished \cup {s}
    /\ UNCHANGED <<config, shared, loop, queue, asked>>
-----------------------------------------------------------------------------
(***************************************************************************)
(* The web threads, the clock, and a restart of the process.               *)
(***************************************************************************)
\* Who is waiting for a poll once a request for user's sources came in.
AskedOnceMore(user) == [s \in Source |->
    IF s \notin config \/ user \notin {NoUser, OwnerOf[s]} THEN asked[s]
    ELSE IF s \in sources \ (running \cup finished) THEN "idle" ELSE "busy"]

\* Mutant: the last of two requests wins.
RequestLast(user) ==
    /\ force_set' = TRUE /\ force_user' = user
    /\ asked' = AskedOnceMore(user)
    /\ UNCHANGED <<config, polling, cycle_age, loop, pool>>

\* Shared.request_poll: a second request degrades to a poll of everybody.
RequestPoll(user) ==
    /\ force_set' = TRUE
    /\ force_user' = IF force_set THEN NoUser ELSE user
    /\ asked' = AskedOnceMore(user)
    /\ UNCHANGED <<config, polling, cycle_age, loop, pool>>

\* AppState.reload after an edit of the configuration.
Reload(S) ==
    /\ Fixed \subseteq S /\ S # config
    /\ config' = S
    /\ asked' = [s \in Source |-> IF s \in S THEN asked[s] ELSE "no"]
    /\ UNCHANGED <<shared, loop, pool>>

Tick ==
    /\ next_in' = [s \in Source |-> IF next_in[s] = 0 THEN 0 ELSE next_in[s] - 1]
    /\ age' = [s \in Source |-> Older(age[s])]
    /\ polling' = [s \in Source |-> Older(polling[s])]
    /\ cycle_age' = IF cycle_age = MaxCycleAge THEN cycle_age ELSE cycle_age + 1
    /\ UNCHANGED <<config, force_set, force_user, pc, sources, todo, in_flight, pool, asked>>

\* The process dies and is started again: the polls die with it, nothing of
\* the schedule survives.
Restart ==
    /\ force_set' = FALSE /\ force_user' = NoUser
    /\ polling' = [s \in Source |-> NotPolling]
    /\ cycle_age' = MaxCycleAge
    /\ pc' = "reap" /\ sources' = {} /\ todo' = {}
    /\ next_in' = [s \in Source |-> 0]
    /\ in_flight' = {}
    /\ age' = [s \in Source |-> NotPolling]
    /\ queue' = <<>> /\ running' = {} /\ finished' = {}
    /\ UNCHANGED <<config, asked>>

Next == \/ Loop \/ StartPoll \/ Tick \/ Restart
        \/ \E s \in Source : EndPoll(s)
        \/ \E user \in MayAsk : RequestPoll(user)
        \/ \E S \in SUBSET Source : Reload(S)

Spec == Init /\ [][Next]_vars
-----------------------------------------------------------------------------
\* Shared.healthy, what /healthz and the Docker health check go by.
Healthy == /\ \A s \in Source : polling[s] < MaxPollAge
           /\ cycle_age < MaxCycleAge

\* A request that the loop has not taken yet.
Pending(s) == force_set /\ force_user \in {NoUser, OwnerOf[s]}
Queued == {queue[i] : i \in DOMAIN queue}

\* Every variable stays within its type.
SchedulerTypeOK ==
    /\ config \subseteq Source /\ sources \subseteq Source
    /\ todo \subseteq Source /\ in_flight \subseteq Source
    /\ force_set \in BOOLEAN /\ force_user \in User \cup {NoUser}
    /\ polling \in [Source -> Age] /\ age \in [Source -> Age]
    /\ cycle_age \in 0..MaxCycleAge
    /\ pc \in {"reap", "launch", "sleep"}
    /\ next_in \in [Source -> Nat]
    /\ queue \in Seq(Source) /\ running \subseteq Source /\ finished \subseteq Source
    /\ asked \in [Source -> {"no", "idle", "busy"}]

\* A source never has two polls, running or waiting for a thread, however it is
\* forced, removed from the configuration and added again: its polls work on
\* the same cursor (FolderSync, CursorNeverRetreats).
SinglePoll ==
    /\ Queued \cap running = {}
    /\ \A i, j \in DOMAIN queue : queue[i] = queue[j] => i = j

\* README "Poll now": a request for an idle source is not lost to another
\* request, a running pass or a restart; until a poll starts it stays due.
ForcedPollHappens ==
    \A s \in Source : asked[s] = "idle" => Pending(s) \/ next_in[s] = 0

\* CHANGELOG 0.6.0: forced polls still run immediately regardless of schedules;
\* also when the source is being polled at the time of the request.
ForcedPollsRun ==
    \A s \in Source : asked[s] # "no" => Pending(s) \/ next_in[s] = 0
-----------------------------------------------------------------------------
(***************************************************************************)
(* Why they hold: the inductive invariant.                                 *)
(***************************************************************************)
\* in_flight accounts for every poll the pool has, and each is in one place.
InFlightIsThePool ==
    /\ in_flight = Queued \cup running \cup finished
    /\ Queued \cap finished = {} /\ running \cap finished = {}
    /\ todo \cap in_flight = {}

\* A source that counts as idle has no poll that started, and the pass that
\* takes the request knows it.
IdleIsKnown ==
    \A s \in Source : asked[s] = "idle" =>
        /\ s \in config /\ s \notin running \cup finished
        /\ pc # "reap" => s \in sources

SchedulerInv == /\ SchedulerTypeOK /\ SinglePoll /\ ForcedPollHappens
                /\ InFlightIsThePool /\ IdleIsKnown
-----------------------------------------------------------------------------
(***************************************************************************)
(* Liveness.  The loop, the pool's threads and the clock keep going; polls *)
(* end, the slow ones excepted, because every socket has a timeout; and    *)
(* the process is not restarted for ever.                                  *)
(***************************************************************************)
Fairness == /\ WF_vars(Loop) /\ WF_vars(StartPoll) /\ WF_vars(Tick)
            /\ \A s \in Source \ Slow : WF_vars(EndPoll(s))

FairSpec == Spec /\ Fairness /\ <>[][~Restart]_vars

\* One slow source delays the others, but never stops them: with a thread to
\* spare, a source that stays configured is polled for ever.
PolledForEver ==
    \A s \in Source \ Slow : <>[](s \in config) => []<>(s \in running)

\* A source that was removed for good is no longer polled.
RemovedIsLeftAlone ==
    \A s \in Source \ Slow : <>[](s \notin config) => <>[](s \notin running)

\* CHANGELOG 0.7.0: a poll that is stuck makes the service unhealthy, and
\* nothing else the loop does hides it.
StuckPollReported ==
    \A s \in Slow : <>[](s \in running) => <>[]~Healthy
=============================================================================
