--------------------------- MODULE MCPolicyEngine ---------------------------
(***************************************************************************)
(* PolicyEngine for TLC: five engines with two policies each, whose items  *)
(* share users, groups and access types in different ways, and in one      *)
(* policy a condition with different values; a table, a function, a table  *)
(* of the same key as the function, and a database that is the head of     *)
(* them; seven requests of two threads.                                    *)
(***************************************************************************)
EXTENDS PolicyEngine, TLC

CONSTANTS u1, u2, g1, read, admin, c1, c2, c3, range, period, table, udf, namesake, database, k1, k2, k3

MCImplied == (read :> {}) @@ (admin :> {read})
MCNameOf  == (c1 :> range) @@ (c2 :> range) @@ (c3 :> period)
MCKey     == (database :> k1) @@ (table :> k2) @@ (udf :> k3) @@ (namesake :> k3)

Reads(us, cs)  == [users |-> us, groups |-> {}, accesses |-> {read}, admin |-> FALSE, conditions |-> cs]
Admins(gs)     == [users |-> {}, groups |-> gs, accesses |-> {admin}, admin |-> FALSE, conditions |-> {}]
Delegates(us)  == [users |-> us, groups |-> {}, accesses |-> {}, admin |-> TRUE, conditions |-> {}]

OnTable(items, audit)    == [resources |-> {table}, heads |-> {table, database}, audit |-> audit, items |-> items]
OnDatabase(items, audit) == [resources |-> {database}, heads |-> {database}, audit |-> audit, items |-> items]

Conditional == OnTable(<<Reads({u1}, {c1, c3}), Delegates({u2})>>, TRUE)
Granting    == OnTable(<<Reads({u1}, {}), Admins({g1})>>, FALSE)
AuditOnly   == OnTable(<<>>, TRUE)
ForAll      == OnDatabase(<<Admins({Public})>>, FALSE)
ForOne      == OnDatabase(<<Reads({u1}, {}), Delegates({u1})>>, TRUE)
OfFunction  == [resources |-> {udf}, heads |-> {udf, database}, audit |-> FALSE, items |-> <<Admins({g1})>>]
Mixed       == OnTable(<<Reads({u1}, {c1}), Reads({u2}, {c2})>>, FALSE)

MCPolicyLists == {<<Conditional, Granting>>, <<Granting, AuditOnly>>, <<ForAll, ForOne>>,
                  <<OfFunction, Conditional>>, <<Mixed, ForAll>>}

Asks(u, gs, a, r, cs) == [user |-> u, groups |-> gs, access |-> a, resource |-> r, holds |-> cs]

MCRequests == {Asks(u1, {}, read, table, {}),
               Asks(u2, {}, read, table, {c1}),
               Asks(u2, {g1}, read, database, {}),
               Asks(u1, {}, AnyAccess, database, {c1}),
               Asks(u2, {}, AdminAccess, table, {}),
               Asks(u2, {g1}, admin, udf, {}),
               Asks(u2, {g1}, admin, namesake, {})}

Symmetry == Permutations(Threads)
=============================================================================
