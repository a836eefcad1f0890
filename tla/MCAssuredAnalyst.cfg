SPECIFICATION Spec
CONSTANTS
    c1 = c1
    c2 = c2
    Code = {c1, c2}
    NoCode = NoCode
    Day <- MCDay
    Time <- MCTime
    Feed <- MCFeed
    AlertRate = {0, 40, 45, 95}
    NoRate = NoRate
    MinDays = 2
    MinTotal = 2
    MaxRetries = 2
    NoReport = NoReport
    NoAnswer = NoAnswer
CHECK_DEADLOCK FALSE
INVARIANTS
    TransactionsCountedOnce
    EvidenceCarriesOver
    AnswersAreSound
    WorseAlertStaysConfirmed
PROPERTIES
    LateVersionsChangeNothing
