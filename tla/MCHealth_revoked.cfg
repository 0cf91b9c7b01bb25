\* Two sources of a user whose token is revoked; only one of them has mail.
SPECIFICATION FairSpec
CONSTANTS
    alice = alice  bob = bob  root = root  s1 = s1  s2 = s2
    User = {alice, root}
    Source = {s1, s2}
    OwnerOf <- AllAlices
    Admin = root
    CopyAlerts = FALSE
    Reliable = {root}
    Flaky = {s1}
    Removable = {}
    NoUser = NoUser
    Nobody = Nobody
PROPERTY
    AdminIsToldOfRevokedToken
