SPECIFICATION MCSpec
CONSTANTS
    Sites = {s1, s2}
    MaxChanges = 2
    Logins = {l1, l2}
    PasswordWrongNumberOfTrial = 2
    MaxAdmin = 1
    Limit = 1
    Ceil = 2
    ExportPageSize = 2
    Documents = 3
    MaxWrites = 1
INVARIANTS
    
    ShowsOnlyAllowed
    PagesAgree
PROPERTY RightsAreStored
CHECK_DEADLOCK FALSE
