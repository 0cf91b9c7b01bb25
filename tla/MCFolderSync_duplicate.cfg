\* Two sources of one user that receive the same message.
SPECIFICATION Spec
CONSTANTS
    alice = alice  inbox = inbox  other = other  w1 = w1  w2 = w2
    m1 = m1  m2 = m2  m3 = m3  k1 = k1  k2 = k2
    User = {alice}
    Folder = {inbox, other}
    Worker = {w1, w2}
    Mail = {m1, m2, m3}
    Key = {k1, k2}
    OwnerOf <- AllInOne
    FolderOf <- FolderPerWorker
    HomeOf <- HomeApart
    KeyOf <- KeyPerMail
    Initial = {m1}
    Early = {}
    Oversize = {}
    MoveFolders = {}
    BackfillFolders = {}
    LegacyFolders = {}
    UidPlusFolders = {}
    ForgetfulFolders = {}
    Faults = {}
    Manual = {}
    InitialUid <- FirstUids
    NoMail = NoMail
    Cap <- Unlimited
    ImportAttempts = 2
    MaxRetryAttempts = 2
    MaxUid = 2
    MaxRebuilds = 0
    MaxCopies = 2
INVARIANTS
    NoDuplicates
