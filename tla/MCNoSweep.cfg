SPECIFICATION Spec
CONSTANTS
    Procs = {r1}
    Entries <- EntriesDef
    Tracks <- TracksDef
    Setups = {"temp dir"}
INVARIANT SweptAtStartup
