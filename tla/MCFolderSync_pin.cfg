\* A rebuilt mailbox that is empty at the next poll.
SPECIFICATION Spec
CONSTANTS
    alice = alice  inbox = inbox  other = other  w1 = w1  w2 = w2
    m1 = m1  m2 = m2  m3 = m3  k1 = k1  k2 = k2
    User = {alice}
    Folder = {inbox}
    Worker = {w1}
    Mail = {m1, m2}
    Key = {k1, k2}
    OwnerOf <- AllInOne
    FolderOf <- OneFolder
    HomeOf <- HomeInbox
    KeyOf <- KeyPerMail
    Initial = {m1}
    Early = {}
    Oversize = {}
    MoveFolders = {inbox}
    BackfillFolders = {}
    LegacyFolders = {}
    UidPlusFolders = {}
    ForgetfulFolders = {}
    Faults = {"user_delete"}
    Manual = {}
    InitialUid <- FirstUids
    NoMail = NoMail
    Cap <- Unlimited
    ImportAttempts = 2
    MaxRetryAttempts = 2
    MaxUid = 3
    MaxRebuilds = 1
    MaxCopies = 2
INVARIANTS
    CursorWithinFolder
