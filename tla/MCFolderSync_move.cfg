\* Two pollers of one move folder without UIDPLUS, the service and a --once run
\* beside it; crashes, lost answers and rejections.
SPECIFICATION Spec
CONSTANTS
    alice = alice  inbox = inbox  other = other  w1 = w1  w2 = w2
    m1 = m1  m2 = m2  m3 = m3  k1 = k1  k2 = k2
    User = {alice}
    Folder = {inbox}
    Worker = {w1, w2}
    Mail = {m1, m2}
    Key = {k1, k2}
    OwnerOf <- AllInOne
    FolderOf <- OneFolder
    HomeOf <- HomeInbox
    KeyOf <- KeyPerMail
    Initial = {m1}
    Early = {}
    Oversize = {}
    MoveFolders = {inbox}
    BackfillFolders = {}
    LegacyFolders = {}
    UidPlusFolders = {}
    ForgetfulFolders = {inbox}
    Faults = {"abort", "locked", "lost_ack", "reject", "user_delete"}
    Manual = {}
    InitialUid <- FirstUids
    NoMail = NoMail
    Cap <- Unlimited
    ImportAttempts = 1
    MaxRetryAttempts = 1
    MaxUid = 2
    MaxRebuilds = 0
    MaxCopies = 1
SYMMETRY SameWorkers
INVARIANTS
    MovedOnlyIfDelivered
    NothingSkipped
    OldMailUntouched
PROPERTIES
    QueuedUntilDelivered
    KeepsPromise
