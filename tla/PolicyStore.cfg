CONSTANTS
    Admins = {a1,a2}
    Names = {n1}
    MaxRev = 3
SPECIFICATION Spec
INVARIANTS TypeOK
PROPERTY ImplementsPublishedPolicies
CHECK_DEADLOCK FALSE
