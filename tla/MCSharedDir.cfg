SPECIFICATION Spec
CONSTANTS
    Procs = {r1, r2}
    Entries <- EntriesDef
    Tracks <- TracksDef
    Setups = {"work dir, overlapping"}
INVARIANT UploadIsWhole
