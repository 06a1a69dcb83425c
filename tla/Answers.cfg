SPECIFICATION FairSpec
CONSTANTS
    r1 = r1
    r2 = r2
    b1 = b1
    b2 = b2
    c1 = c1
    c2 = c2
    seed = seed
    photo = photo
    None = None
    Unwritten = Unwritten
    Removed = Removed
    Selections <- AllSelections
    Requests = {r1, r2}
    MaxActive = 2
    Ops <- LockingOps
    FailingOps <- AllOps
    AckLoss = FALSE
    Crashes = FALSE
    Backups = {b1}
    Candidates = {c1}
    Assets <- MCAssets
    SeedAssets = {seed}
    Sections <- MCSections
    Values <- MCValues
    AssetsOf <- MCAssetsOf
    Versions <- MCVersions
    EditorPayloads <- OnePayload
    Documents <- OneDocument
PROPERTIES
    EveryRequestAnswered
