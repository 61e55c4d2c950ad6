\* Grants and revokes one after the other, also for a group that the database does
\* not know, and a session of the form that overlaps them.
CONSTANTS
    Users = {u1, u2}
    Groups = {g1, g2}
    Accesses = {r}
    KnownNames = {u1, u2, g1}
    KnownTypes = {r}
    Policies = {p1, p2}
    Handlers = {h1}
    None = None
    Undefined = Undefined
    Null = Null
    MaxNames = 1
    MaxItems = 1
    MaxRows = 2
    MaxEdits = 2
    MaxSessions = 1
    MaxRequests = 2
SPECIFICATION Spec
INVARIANT TypeOK
PROPERTIES StoresValidItems GrantGivesWhatWasAsked RevokeTakesWhatWasAsked SavesWhatIsShown PassedFormIsAccepted
\* When the bounds are used up and the policies deleted, nothing is left to do.
CHECK_DEADLOCK FALSE
SYMMETRY Symmetry
