SPECIFICATION Spec
CONSTANTS
    r1 = r1
    r2 = r2
    b1 = b1
    b2 = b2
    c1 = c1
    c2 = c2
    seed = seed
    photo = photo
    None = None
    Unwritten = Unwritten
    Removed = Removed
    Selections <- HeroSelections
    Requests = {r1, r2}
    MaxActive = 2
    Ops <- LockingOps
    FailingOps <- AllButDeleteBackup
    AckLoss = FALSE
    Crashes = FALSE
    Backups = {b1, b2}
    Candidates = {c1, c2}
    Assets <- MCAssets
    SeedAssets = {seed}
    Sections <- OneSection
    Values <- MCValues
    AssetsOf <- MCAssetsOf
    Versions <- MCVersions
    EditorPayloads <- OnePayload
    Documents <- OneHero
SYMMETRY Symmetry
INVARIANTS
    RegisteredBundlePresent
    NoOrphanFile
    StatePointersValid
    NoLockCycle
