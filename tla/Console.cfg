SPECIFICATION ConsoleSpec
CONSTANTS
    r1 = r1
    r2 = r2
    s1 = s1
    s2 = s2
    m1 = m1
    m2 = m2
    b1 = b1
    Nobody = Nobody
    Requests = {r1, r2}
    Merchants = {m1}
    Boxes = {b1}
    Names = {n1}
    Codes = {1, 2}
    Senders = {s1, s2}
    Deeds <- SmallDeeds
    Mixes <- SmallMixes
    MaxTries = 2
    Ids = {1, 2, 3}
    MaxRotations = 2
    RecoveryCodes = 2
    Clients = {m1, m2}
    FirstClients = {m1}
    SiteMixes <- KindMixes
    Limits = {1, 2}
    MaxVersion = 3
    MaxKey = 2
    Assets = {a, b}
    Orders = {o1}
    NoAsset = NoAsset
    Lists = {"orders", "receipts", "audits", "notifications", "announcements",
             "merchants", "purchases"}
    RowIds = {1, 2, 3}
    MaxTime = 1
    PageSizes = {1, 2}
    Readers = {m1, m2}
    Announcements = {n}
    MaxRevision = 3
    Nothing = Nothing
INVARIANT GuessesBounded
INVARIANT PayerSeesCode
INVARIANT PagesComplete
INVARIANT ShownUntilRead
INVARIANT OneAdmin
INVARIANT CollectionWithinBounds
INVARIANT CredentialTruth
PROPERTY CodeBuysOneChange
PROPERTY ChallengeUsedOnce
PROPERTY NobodyOverwritesUnseen
CHECK_DEADLOCK FALSE
SYMMETRY Symmetric
