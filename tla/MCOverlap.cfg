SPECIFICATION Spec
CONSTANTS
    MaxName = 6
    Catalog <- ColonCatalog
    Manual <- NoManual
    WatcherOn = FALSE
    MaxRemoved = 0
    Runs = {r1, r2}
    DryRuns = {FALSE}
    Limit = 0
    MaxPolls = 1
    Admin = TRUE
    MaxFaults = 0
SYMMETRY RunSymmetry
INVARIANTS IsbnTellsTruth ExitZeroIsHonest NoRedownload DiscoversItsUpload
PROPERTIES MutationsJustified KeepsPromise
