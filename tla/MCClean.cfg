SPECIFICATION Spec
CONSTANTS
    MaxName = 6
    Catalog <- CleanCatalog
    Manual <- CleanManual
    WatcherOn = TRUE
    MaxRemoved = 1
    Runs = {r1}
    DryRuns = {FALSE}
    Limit = 0
    MaxPolls = 1
    Admin = TRUE
    MaxFaults = 1
INVARIANTS SeparationInv IsbnTellsTruth ExitZeroIsHonest NoRedownload
PROPERTY KeepsPromise
