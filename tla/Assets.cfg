SPECIFICATION FairSpec
CONSTANTS
    r1 = r1
    r2 = r2
    seed = seed
    avatar = avatar
    photo = photo
    cert = cert
    png = png
    pdf = pdf
    svg = svg
    exe = exe
    Absent = Absent
    Torn = Torn
    Requests = {r1, r2}
    Startup = Startup
    Assets = {seed, avatar, photo, cert}
    Contents = {png, pdf, svg, exe}
    Media <- MCMedia
    SeedOrder <- MCSeedOrder
    Bundles <- MCBundles
    Offers <- MCOffers
    Default = seed
    MaxImports = 1
    MaxCrashes = 2
CONSTRAINT TwoFilesWithoutStops
INVARIANTS
    TypeOK
    DescribedFilesWhole
    SeedsServable
    CommittedFilesStay
    FetchedWhole
    PreviewAnswered
    RolledBackFilesGone
PROPERTIES
    StartupRecovers
