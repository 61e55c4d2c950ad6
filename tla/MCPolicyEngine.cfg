CONSTANTS
    Threads = {t1, t2}
    u1 = u1
    u2 = u2
    g1 = g1
    read = read
    admin = admin
    c1 = c1
    c2 = c2
    c3 = c3
    range = range
    period = period
    table = table
    udf = udf
    namesake = namesake
    database = database
    k1 = k1
    k2 = k2
    k3 = k3
    Users = {u1, u2}
    Groups = {g1}
    Public = Public
    AccessTypes = {read, admin}
    AnyAccess = AnyAccess
    AdminAccess = AdminAccess
    Conditions = {c1, c2, c3}
    NameOf <- MCNameOf
    Checked = {range}
    Resources = {table, udf, namesake, database}
    None = None
    Implied <- MCImplied
    Key <- MCKey
    PolicyLists <- MCPolicyLists
    Requests <- MCRequests
SYMMETRY Symmetry
SPECIFICATION Spec
INVARIANTS TypeOK DecidesAsDefined NoAuditLost AuditsOnlyCovered
