SPECIFICATION Spec
CONSTANTS
    r1 = r1
    r2 = r2
    Run = {r1, r2}
    Request <- MCRequest
    Tables <- MCTables
    Arriving <- MCArriving
    Files <- MCFiles
    Stripped <- MCStripped
    Unaddressable = {"fallback-b"}
    Imported <- MCImported
    Nothing = Nothing
    Invalid = Invalid
    MaxPages = 1
    MaxAlerts = 1
    MaxCountries = 2
    MaxArriving = 1
CHECK_DEADLOCK FALSE
INVARIANTS
    ServedNeverLost
    ExtractedIsCounted
    ViewsAgree
