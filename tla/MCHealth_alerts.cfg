\* Two sources of a user who is not the admin, and a second tenant.
SPECIFICATION FairSpec
CONSTANTS
    alice = alice  bob = bob  root = root  s1 = s1  s2 = s2
    User = {alice, bob, root}
    Source = {s1, s2}
    OwnerOf <- AllAlices
    Admin = root
    CopyAlerts = TRUE
    Reliable = {bob, root}
    Flaky = {s1}
    Removable = {s1}
    NoUser = NoUser
    Nobody = Nobody
INVARIANT
    AlertsStayInTheHouse
PROPERTIES
    NoNagging
    OwnerIsTold
    AdminIsToldOfBlockedUser
    AlertsStop
