\* One move source with UIDPLUS and a backfill, perhaps from before 0.8, whose
\* mailbox is rebuilt; one message is too large, the administrator retries by hand.
SPECIFICATION Spec
CONSTANTS
    alice = alice  inbox = inbox  other = other  w1 = w1  w2 = w2
    m1 = m1  m2 = m2  m3 = m3  k1 = k1  k2 = k2
    User = {alice}
    Folder = {inbox}
    Worker = {w1}
    Mail = {m1, m2}
    Key = {k1, k2}
    OwnerOf <- AllInOne
    FolderOf <- OneFolder
    HomeOf <- HomeInbox
    KeyOf <- KeyPerMail
    Initial = {m1}
    Early = {}
    Oversize = {m2}
    MoveFolders = {inbox}
    BackfillFolders = {inbox}
    LegacyFolders = {inbox}
    UidPlusFolders = {inbox}
    ForgetfulFolders = {}
    Faults = {"abort", "locked", "transient", "lost_ack", "reject", "user_flag", "requeue"}
    Manual = {1}
    InitialUid <- FirstUids
    NoMail = NoMail
    Cap <- Unlimited
    ImportAttempts = 2
    MaxRetryAttempts = 2
    MaxUid = 2
    MaxRebuilds = 1
    MaxCopies = 2
INVARIANTS
    TypeOK
    RecordedOnlyIfDelivered
PROPERTIES
    NoReimportOfRecorded
    ParkedStaysParked
    CursorNeverRetreats
    KeepsPromise
