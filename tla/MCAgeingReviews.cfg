SPECIFICATION AgeingSpec
CONSTANTS
    w1 = w1
    w2 = w2
    e1 = e1
    m1 = m1
    m2 = m2
    m3 = m3
    pA = pA
    pB = pB
    strict = strict
    lax = lax
    Event = {e1}
    NoPayload = NoPayload
    NoOutcome = NoOutcome
    Message = {m1, m2, m3}
    EventOf <- MCEventOf
    Policy = {strict, lax}
    Accepts <- MCAccepts
    Managed = {}
    Worker = {w1, w2}
    Payload = {pA}
    PayloadOf <- MCSamePayload
    Malformed = {}
    Oversize = {}
    MaxReceives = 1
SYMMETRY MCAlike
CHECK_DEADLOCK FALSE
INVARIANTS
    AckedWasCompleted
    PublishedWasDecided
