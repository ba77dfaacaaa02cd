SPECIFICATION Spec
CONSTANTS
    Docs <- DocsDef
    Refusals = {202, 403, 404}
    Interceptable <- CallNames
    Budgets <- BudgetsDef
    DefaultDiscoverTimeout = 300
    MaxDelay = 30
    IndexTimes <- IndexTimesDef
INVARIANT HonestExit
PROPERTIES ChangesAreDue FoundInTime Terminates
CHECK_DEADLOCK FALSE
