\* Two browsers that edit or authorize, reloads, crashes, failed edits.
SPECIFICATION Spec
CONSTANTS
    alice = alice  s1 = s1  p1 = p1  p2 = p2
    t1 = t1  t2 = t2  o1 = o1  o2 = o2  o3 = o3
    User = {alice}
    Source = {s1}
    OwnerOf <- Owners
    Password = {p1, p2}
    Thread = {t1, t2}
    Store = {o1, o2, o3}
    NoUser = NoUser
    Nobody = Nobody
    Missing = Missing  Torn = Torn  Down = Down  Refused = Refused  None = None
SYMMETRY Same
INVARIANTS
    ConfigTypeOK
    FileIsWhole
    ServiceRunsTheFile
    DownOnlyByPassword
PROPERTIES
    BackupKept
    EditKeepsOthers
