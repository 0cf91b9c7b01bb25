\* A source with two folders, a move folder from before 0.8 and one that keeps its
\* mail, and a cap of one message; lost connections, rejections and an administrator
\* who retries the mail of the first folder over and over.
SPECIFICATION FairSpec
CONSTANTS
    alice = alice  inbox = inbox  other = other  w1 = w1  w2 = w2  s1 = s1
    m1 = m1  m2 = m2  k1 = k1  k2 = k2
    User = {alice}
    Folder = {inbox, other}
    Worker = {w1, w2}
    Mail = {m1, m2}
    Key = {k1, k2}
    OwnerOf <- AllInOne
    FolderOf <- FolderPerWorker
    HomeOf <- HomeApart
    KeyOf <- KeyPerMail
    Initial = {m1}
    Early = {}
    Oversize = {}
    MoveFolders = {inbox}
    BackfillFolders = {}
    LegacyFolders = {inbox}
    UidPlusFolders = {}
    ForgetfulFolders = {inbox}
    Faults = {"abort", "reject", "transient", "requeue"}
    Manual = {}
    InitialUid <- FirstUids
    NoMail = NoMail
    Cap = 1
    ImportAttempts = 1
    MaxRetryAttempts = 2
    MaxUid = 1
    MaxRebuilds = 0
    MaxCopies = 1
    Session = {s1}
    Folders <- InOrder
INVARIANTS
    NothingSkipped
    OldMailUntouched
PROPERTIES
    EventuallyDelivered
    EventuallyMoved
