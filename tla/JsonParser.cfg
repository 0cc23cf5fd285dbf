CONSTANTS
    apps = apps
    empty = empty
    adsp = adsp
    wpss = wpss
    adspLink = adspLink
    wpssLink = wpssLink
    Numbers = {0, 1, 2, 3, 4, 7, 8}
    Names <- SomeNames
    Apps <- apps
    Empty <- empty
    NoData = noData
    DeviceSocId = 6
    Files <- SomeFiles
    MaxLoads = 3

SPECIFICATION Spec

INVARIANTS
    TypeOK
    OwnEntries
    EveryHubFound
