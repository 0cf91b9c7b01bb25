\* Alice has two sources and bob one, with polls that may hang, on two threads;
\* requests, edits and restarts at any time.
SPECIFICATION FairSpec
CONSTANTS
    alice = alice  bob = bob  a = a  b = b  c = c
    User = {alice, bob}
    Source = {a, b, c}
    OwnerOf <- Owners
    Interval <- EveryTick
    PoolSize = 2
    Fixed = {b, c}
    Slow = {b}
    MayAsk = {alice, bob}
    NoUser = NoUser
    MaxPollAge = 1
    MaxCycleAge = 1
INVARIANTS
    SinglePoll
    ForcedPollHappens
PROPERTIES
    PolledForEver
    RemovedIsLeftAlone
    StuckPollReported
