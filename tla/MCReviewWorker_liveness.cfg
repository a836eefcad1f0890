SPECIFICATION FairSpec
CONSTANTS
    w1 = w1
    w2 = w2
    e1 = e1
    m1 = m1
    m2 = m2
    pA = pA
    pB = pB
    strict = strict
    lax = lax
    Event = {e1}
    NoPayload = NoPayload
    NoOutcome = NoOutcome
    Message = {m1, m2}
    EventOf <- MCEventOf
    Policy = {strict, lax}
    Accepts <- MCAccepts
    Managed = {w2}
    Worker = {w1, w2}
    Payload = {pA}
    PayloadOf <- MCSamePayload
    Malformed = {m2}
    Oversize = {}
    MaxReceives = 2
CHECK_DEADLOCK FALSE
PROPERTIES
    Settles
