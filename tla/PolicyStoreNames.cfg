\* Two handlers create policies with the same name.
CONSTANTS
    Admins = {a1, a2}
    Names = {n1}
    MaxRev = 3
SPECIFICATION Spec
INVARIANT UniqueNames
CHECK_DEADLOCK FALSE
