SPECIFICATION Spec
CONSTANTS
    Procs = {p1}
    MaxTokens = 2
    MaxKills = 0
INVARIANT ReauthAfter401
