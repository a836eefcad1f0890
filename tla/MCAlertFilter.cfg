SPECIFICATION Spec
CONSTANTS
    Policy <- DefaultPolicy
    Absent = Absent
    Bad = Bad
    Seeds <- MCSeeds
    Domain <- MCDomain
    MaxEdits = 1
CHECK_DEADLOCK FALSE
INVARIANTS
    ValidatorsAgree
    OnlySevereAccepted
PROPERTIES
    DerivedFieldsAreProved
    WorseningStaysAccepted
