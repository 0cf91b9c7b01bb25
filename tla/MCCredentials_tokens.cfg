\* Two threads that deliver, authorizations one at a time, edits, revocations and crashes.
SPECIFICATION FairSpec
CONSTANTS
    t1 = t1  t2 = t2  auth = auth
    d1 = d1  d2 = d2  g1 = g1  g2 = g2
    Thread = {t1, t2}
    Authorizer = {auth}
    Dest = {d1, d2}
    Grant = {g1, g2}
    Missing = Missing  Torn = Torn
    NoGrant = NoGrant  NoDest = NoDest  Nobody = Nobody
INVARIANTS
    CredentialsTypeOK
    TokenIsWhole
    AuthorizationSticks
PROPERTIES
    AuthorizationHeals
    RevocationIsNoticed
