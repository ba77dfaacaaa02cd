SPECIFICATION Spec
CONSTANTS
    MaxName = 6
    Catalog <- WildCatalog
    Manual <- WildManual
    WatcherOn = TRUE
    MaxRemoved = 1
    Runs = {r1}
    DryRuns = {TRUE, FALSE}
    Limit = 2
    MaxPolls = 2
    Admin = FALSE
    MaxFaults = 1
INVARIANTS TypeOK Accounting WithinLimit
PROPERTIES MutationsJustified
