\* A poll is asked for while the source is being polled.
SPECIFICATION Spec
CONSTANTS
    alice = alice  bob = bob  a = a  b = b  c = c
    User = {alice, bob}
    Source = {a, b}
    OwnerOf <- Owners
    Interval <- EveryTick
    PoolSize = 2
    Fixed = {a, b}
    Slow = {}
    MayAsk = {alice, bob}
    NoUser = NoUser
    MaxPollAge = 1
    MaxCycleAge = 1
INVARIANT
    ForcedPollsRun
