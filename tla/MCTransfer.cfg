SPECIFICATION Spec
CONSTANTS
    Procs = {r1, r2}
    Entries <- EntriesDef
    Tracks <- TracksDef
    Setups = {"temp dir", "work dir, one at a time"}
INVARIANTS UploadIsWhole EndMeansAll StagingCleared
PROPERTY UploadReturns
