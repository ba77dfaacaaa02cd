SPECIFICATION FairSpec
CONSTANTS
    MaxName = 6
    Catalog <- Volumes
    Manual <- NoManual
    WatcherOn = FALSE
    MaxRemoved = 0
    Runs = {r1}
    DryRuns = {FALSE}
    Limit = 0
    MaxPolls = 2
    Admin = TRUE
    MaxFaults = 0
PROPERTY Quiesces
