SPECIFICATION Spec
CONSTANTS
    id1 = id1
    NoId = NoId
    Idle = Idle
    t1 = t1
    t2 = t2
    NoVerdict = NoVerdict
    Verdict = {"confirmed", "no_data"}
    Event <- MCEvent
    Thread = {t1, t2}
    MaxRecords = 1
    MaxSends = 2
    MaxFaults = 1
SYMMETRY Symmetry
CHECK_DEADLOCK FALSE
INVARIANTS
    MarkedWasAnswered
    SecondAnswersExplained
    NoneForgotten
