----------------------------- MODULE PolicyEdit -----------------------------
(***************************************************************************)
(* The items of the policies of one resource, changed from two sides: by   *)
(* grantAccess and revokeAccess, which the plugins of HBase and Hive call, *)
(* and by the policy form of the admin web interface.  Each of them reads  *)
(* a policy, changes its own copy of the items, and writes the whole list  *)
(* back, with nothing that tells it that somebody else wrote meanwhile.    *)
(***************************************************************************)
EXTENDS Integers, SequencesExt

CONSTANTS
    Users,
    Groups,
    Accesses,     \* access types
    KnownNames,   \* the users and groups that the database has
    KnownTypes,   \* the access types that the service has
    Policies,     \* ids of the policies whose resource is exactly this one
    Handlers,     \* requests to grant or revoke that the server handles at a time
    None,         \* no policy, and no session
    Undefined,    \* a row of the form without the attribute
    Null,         \* a row of the form with the attribute null
    MaxNames,     \* bound: names in a request
    MaxItems,     \* bound: items of a policy at the start
    MaxRows,      \* bound: rows of the form
    MaxEdits,     \* bound: changes made in a session of the form
    MaxSessions,  \* bound: sessions of the form
    MaxRequests   \* bound: grants, revokes and deletions

\* A user and a group are different names, even if they are spelled alike.
ASSUME NamesAssumption  == Users \cap Groups = {} /\ IsFiniteSet(Users) /\ IsFiniteSet(Groups)
ASSUME KnownAssumption  == KnownNames \subseteq Users \cup Groups /\ KnownTypes \subseteq Accesses
ASSUME BoundsAssumption == {MaxItems, MaxEdits, MaxSessions, MaxRequests} \subseteq Nat

Kinds     == {"users", "groups"}
Item      == [users : SUBSET Users, groups : SUBSET Groups,
              accesses : SUBSET Accesses, admin : BOOLEAN]
NamesOf(k) == IF k = "users" THEN Users ELSE Groups
NameValues(k) == ((SUBSET NamesOf(k)) \ {{}}) \cup {Undefined, Null}
Row       == [users : NameValues("users"), groups : NameValues("groups"),
              accesses : SUBSET Accesses, admin : BOOLEAN]
Request   == [op : {"grant", "revoke"}, users : SUBSET Users, groups : SUBSET Groups,
              accesses : (SUBSET Accesses) \ {{}}, admin : BOOLEAN, replace : BOOLEAN]

ASSUME NoneAssumption == None \notin Policies /\ None \notin Seq(Item)

VARIABLES
    policies,   \* the items of each policy in the store
    handling,   \* the requests under way: what was asked, the policy, the copy of its items
    form,       \* the policy form: the policy, the rows, whether a save is under way
    requests,   \* grants, revokes and deletions so far
    sessions    \* sessions of the form so far

vars == <<policies, handling, form, requests, sessions>>

-----------------------------------------------------------------------------
(* What a policy's items give: pairs of a name and an access type, with    *)
(* Admin for delegateAdmin.                                                *)
Admin       == "delegateAdmin"
ASSUME AdminAssumption == Admin \notin Accesses

Asked(i)    == i.accesses \cup (IF i.admin THEN {Admin} ELSE {})
Names(i)    == i.users \cup i.groups
GivenBy(i)  == Names(i) \X Asked(i)
Held(items) == UNION {GivenBy(i) : i \in ToSet(items)}

(* RangerPolicyValidator.isValidPolicyItem                                 *)
ValidItem(i) == Names(i) # {} /\ (i.accesses # {} \/ i.admin)

(* ServiceDBStore.createNewPolicyItemsForPolicy skips the access types and *)
(* the names that it does not find, one by one, and keeps the item, even   *)
(* if that leaves it without any.                                          *)

Stored(i) ==
    [i EXCEPT !.users    = @ \cap KnownNames,
              !.groups   = @ \cap KnownNames,
              !.accesses = @ \cap KnownTypes]

StoredItems(items) == [k \in DOMAIN items |-> Stored(items[k])]

KnownItem == {i \in Item : Names(i) \subseteq KnownNames /\ i.accesses \subseteq KnownTypes}

-----------------------------------------------------------------------------
(* The elements of a list at some of its places, in their order.           *)
Only(list, places) ==
    [n \in 1..Cardinality(places) |->
        list[CHOOSE k \in places : Cardinality({j \in places : j <= k}) = n]]

(* ServiceREST.  A request's names of one kind are taken one by one, but   *)
(* none sees what another did: the item that is found for a name has no    *)
(* other name of the kind, nor has a new one.  The order in which they are *)
(* taken only decides the order of new items, which nothing reads.         *)

\* mutant: an item that has other names of the kind as well will do
MutItemFor(items, k, n) == SelectInSeq(items, LAMBDA i : n \in i[k])

(* getPolicyItemForUser and getPolicyItemForGroup: the first item with     *)
(* this one name of its kind, whatever it has of the other kind.           *)
ItemFor(items, k, n) == SelectInSeq(items, LAMBDA i : i[k] = {n})

Found(items, k, names)   == {ItemFor(items, k, n) : n \in names} \ {0}
Missing(items, k, names) == {n \in names : ItemFor(items, k, n) = 0}

NewItem(k, n, req) ==
    [users    |-> IF k = "users" THEN {n} ELSE {},
     groups   |-> IF k = "groups" THEN {n} ELSE {},
     accesses |-> req.accesses,
     admin    |-> req.admin]

Widened(i, req)  == [i EXCEPT !.accesses = @ \cup req.accesses, !.admin = @ \/ req.admin]
Narrowed(i, req) == [i EXCEPT !.accesses = @ \ req.accesses, !.admin = @ /\ ~req.admin]

GrantTo(items, k, names, req) ==
    LET found == Found(items, k, names)
        new   == SetToSeq(Missing(items, k, names))
    IN  [at \in DOMAIN items |-> IF at \in found THEN Widened(items[at], req) ELSE items[at]]
        \o [at \in DOMAIN new |-> NewItem(k, new[at], req)]

RevokeFrom(items, k, names, req) ==
    LET found == Found(items, k, names)
    IN  [at \in DOMAIN items |-> IF at \in found THEN Narrowed(items[at], req) ELSE items[at]]

GrantAll(items, req) ==
    GrantTo(GrantTo(items, "users", req.users, req), "groups", req.groups, req)

RevokeAll(items, req) ==
    RevokeFrom(RevokeFrom(items, "users", req.users, req), "groups", req.groups, req)

\* mutant: items are dropped for their names only
MutCompact(items) == Only(items, {k \in DOMAIN items : Names(items[k]) # {}})

Compact(items) == Only(items, {k \in DOMAIN items : ValidItem(items[k])})

Without(i, req) == [i EXCEPT !.users = @ \ req.users, !.groups = @ \ req.groups]

\* mutant: only the first item of a name is looked at
MutRemoveNames(items, req) ==
    LET at   == SelectInSeq(items, LAMBDA i : Names(i) \cap Names(req) # {})
        rest == [k \in DOMAIN items |-> IF k = at THEN Without(items[k], req) ELSE items[k]]
    IN  Only(rest, {k \in DOMAIN rest : Names(rest[k]) # {}})

(* removeUsersAndGroupsFromPolicy                                          *)
RemoveNames(items, req) ==
    LET rest == [k \in DOMAIN items |-> Without(items[k], req)]
    IN  Only(rest, {k \in DOMAIN rest : Names(rest[k]) # {}})

Kept(items, req) == IF req.replace THEN RemoveNames(items, req) ELSE items

Granted(items, req) == GrantAll(Kept(items, req), req)

Revoked(items, req) ==
    IF req.replace THEN RemoveNames(items, req)
    ELSE Compact(RevokeAll(items, req))

(* policyUpdated: some step on the way has changed something.              *)
Updates(items, req) ==
    IF req.op = "grant"
    THEN Kept(items, req) # items \/ Granted(items, req) # Kept(items, req)
    ELSE Revoked(items, req) # items

-----------------------------------------------------------------------------
(* The form: XAUtil.makeCollForGroupPermission and PermissionList.         *)
NewRow == [users |-> Undefined, groups |-> Undefined, accesses |-> {}, admin |-> FALSE]

RowOf(i) ==
    [users    |-> IF i.users = {} THEN Null ELSE i.users,
     groups   |-> IF i.groups = {} THEN Null ELSE i.groups,
     accesses |-> i.accesses,
     admin    |-> i.admin]

Rows(items) == IF items = <<>> THEN <<NewRow>> ELSE [k \in DOMAIN items |-> RowOf(items[k])]

Shown(row, k) == IF row[k] \in {Undefined, Null} THEN {} ELSE row[k]

(* formValidation and onSave: every row that has a name or a permission    *)
(* has both, and without such a row auditing is on.                        *)
Relevant(row) == Shown(row, "users") \cup Shown(row, "groups") # {} \/ row.accesses # {}
Complete(row) == Shown(row, "users") \cup Shown(row, "groups") # {} /\ row.accesses # {}

\* mutant: the flags of the last row decide
MutPasses(rows, audit) ==
    LET relevant == {k \in DOMAIN rows : Relevant(rows[k])}
    IN  IF relevant = {} THEN audit ELSE Complete(rows[Max(relevant)])

Passes(rows, audit) ==
    /\ \A row \in ToSet(rows) : Relevant(row) => Complete(row)
    /\ audit \/ \E row \in ToSet(rows) : Relevant(row)

ItemOf(row) ==
    [users    |-> Shown(row, "users"),
     groups   |-> Shown(row, "groups"),
     accesses |-> row.accesses,
     admin    |-> row.admin]

Items(rows) == [k \in DOMAIN rows |-> ItemOf(rows[k])]

\* mutant: an item needs a group
MutSent(rows) == Only(Items(rows), {k \in DOMAIN rows : rows[k].groups # Undefined})

(* setPermissionsToColl: null, what a loaded row has for no names, counts  *)
(* as a name here.                                                         *)
Sent(rows) ==
    Only(Items(rows), {k \in DOMAIN rows : \/ rows[k].users # Undefined
                                          \/ rows[k].groups # Undefined})

-----------------------------------------------------------------------------
Existing == {p \in Policies : policies[p] # None}

Init ==
    /\ \E items \in BoundedSeq({i \in KnownItem : ValidItem(i)}, MaxItems), p \in Policies :
           policies = [q \in Policies |-> IF q = p THEN items ELSE None]
    /\ handling = [h \in Handlers |-> None]
    /\ form = None
    /\ requests = 0
    /\ sessions = 0

(* ServiceREST.grantAccess, revokeAccess: getExactMatchPolicyForResource   *)
(* picks the first matching policy of the engine and reads it again.       *)
Begin(h) ==
    /\ handling[h] = None
    /\ requests < MaxRequests
    /\ requests' = requests + 1
    /\ \E req \in Request :
        /\ Cardinality(Names(req)) \in 1..MaxNames
        /\ \/ \E p \in Existing :
                handling' = [handling EXCEPT ![h] = [req |-> req, policy |-> p, items |-> policies[p]]]
           \/ /\ Existing = {}
              /\ handling' = [handling EXCEPT ![h] = [req |-> req, policy |-> None, items |-> <<>>]]
    /\ UNCHANGED <<policies, form, sessions>>

(* A policy "grant-..." for the resource, with an item for each name.      *)
GrantNew(h) ==
    /\ handling[h] # None
    /\ handling[h].policy = None
    /\ handling[h].req.op = "grant"
    /\ \E p \in Policies \ Existing :
        policies' = [policies EXCEPT ![p] = StoredItems(GrantAll(<<>>, handling[h].req))]
    /\ handling' = [handling EXCEPT ![h] = None]
    /\ UNCHANGED <<form, requests, sessions>>

(* Nothing to revoke.                                                      *)
RevokeNothing(h) ==
    /\ handling[h] # None
    /\ handling[h].policy = None
    /\ handling[h].req.op = "revoke"
    /\ handling' = [handling EXCEPT ![h] = None]
    /\ UNCHANGED <<policies, form, requests, sessions>>

Outcome(copy) == IF copy.req.op = "grant" THEN Granted(copy.items, copy.req)
                 ELSE Revoked(copy.items, copy.req)

(* svcStore.updatePolicy, which replaces all items, if anything changed in *)
(* the copy; a policy that is gone is an error.                            *)
Commit(h) ==
    LET copy == handling[h]
    IN  /\ copy # None
        /\ copy.policy # None
        /\ handling' = [handling EXCEPT ![h] = None]
        /\ IF Updates(copy.items, copy.req) /\ policies[copy.policy] # None
           THEN policies' = [policies EXCEPT ![copy.policy] = StoredItems(Outcome(copy))]
           ELSE UNCHANGED policies
        /\ UNCHANGED <<form, requests, sessions>>

-----------------------------------------------------------------------------
(* RangerPolicyCreate with RangerPolicyForm, on a policy or a new one.     *)
OpenForm(p, rows) ==
    /\ form = None
    /\ sessions < MaxSessions
    /\ sessions' = sessions + 1
    /\ form' = [policy |-> p, rows |-> rows, edits |-> 0, audit |-> TRUE, sending |-> FALSE]
    /\ UNCHANGED <<policies, handling, requests>>

OpenNew      == OpenForm(None, <<NewRow>>)
OpenExisting == \E p \in Existing : OpenForm(p, Rows(policies[p]))

Editable == form # None /\ ~form.sending

(* blockUI keeps the user from editing while a save is under way.          *)
EditRows(rows) ==
    /\ Editable
    /\ form.edits < MaxEdits
    /\ form' = [form EXCEPT !.rows = rows, !.edits = @ + 1]
    /\ UNCHANGED <<policies, handling, requests, sessions>>

(* The drop-downs offer names of the database and access types of the      *)
(* service, and no name that some row has already.                         *)
AddName ==
    /\ Editable
    /\ \E r \in DOMAIN form.rows, k \in Kinds :
        \E n \in (NamesOf(k) \cap KnownNames) \ (UNION {Shown(row, k) : row \in ToSet(form.rows)}) :
            EditRows([form.rows EXCEPT ![r][k] = Shown(form.rows[r], k) \cup {n}])

\* mutant: the last name leaves an empty list
MutDropName ==
    /\ Editable
    /\ \E r \in DOMAIN form.rows, k \in Kinds : \E n \in Shown(form.rows[r], k) :
        EditRows([form.rows EXCEPT ![r][k] = Shown(form.rows[r], k) \ {n}])

DropName ==
    /\ Editable
    /\ \E r \in DOMAIN form.rows, k \in Kinds : \E n \in Shown(form.rows[r], k) :
        LET rest == Shown(form.rows[r], k) \ {n}
        IN  EditRows([form.rows EXCEPT ![r][k] = IF rest = {} THEN Undefined ELSE rest])

SetAccesses ==
    /\ Editable
    /\ \E r \in DOMAIN form.rows, a \in SUBSET (Accesses \cap KnownTypes) :
        EditRows([form.rows EXCEPT ![r].accesses = a])

SetAdmin ==
    /\ Editable
    /\ \E r \in DOMAIN form.rows : EditRows([form.rows EXCEPT ![r].admin = ~@])

AddRow    == Editable /\ Len(form.rows) < MaxRows /\ EditRows(Append(form.rows, NewRow))
DeleteRow == Editable /\ \E r \in DOMAIN form.rows : EditRows(RemoveAt(form.rows, r))

(* With auditing, a field of the form that no other one depends on, as the *)
(* user has left it.                                                       *)
Save ==
    /\ Editable
    /\ \E audit \in BOOLEAN :
        /\ Passes(form.rows, audit)
        /\ form' = [form EXCEPT !.sending = TRUE, !.audit = audit]
    /\ UNCHANGED <<policies, handling, requests, sessions>>

CloseForm ==
    /\ Editable
    /\ form' = None
    /\ UNCHANGED <<policies, handling, requests, sessions>>

(* RangerPolicyValidator.isValid, as far as it is about the items.         *)
Accepts(items) ==
    /\ items # <<>> \/ form.audit
    /\ \A i \in ToSet(items) : ValidItem(i)

(* ServiceREST.createPolicy and updatePolicy.                              *)
ServeAccepted ==
    /\ form # None /\ form.sending
    /\ Accepts(Sent(form.rows))
    /\ \/ form.policy \in Existing
       \/ form.policy = None
    /\ \E p \in IF form.policy = None THEN Policies \ Existing ELSE {form.policy} :
        policies' = [policies EXCEPT ![p] = StoredItems(Sent(form.rows))]
    /\ form' = None
    /\ UNCHANGED <<handling, requests, sessions>>

(* The form stays, with "Error creating Policy!".                          *)
ServeRefused ==
    /\ form # None /\ form.sending
    /\ \/ ~Accepts(Sent(form.rows))
       \/ form.policy \in Policies \ Existing
    /\ form' = [form EXCEPT !.sending = FALSE, !.audit = TRUE]
    /\ UNCHANGED <<policies, handling, requests, sessions>>

(* deletePolicy, from any browser.                                         *)
DeletePolicy(p) ==
    /\ p \in Existing
    /\ requests < MaxRequests
    /\ requests' = requests + 1
    /\ policies' = [policies EXCEPT ![p] = None]
    /\ UNCHANGED <<handling, form, sessions>>

Next ==
    \/ \E h \in Handlers : Begin(h) \/ GrantNew(h) \/ RevokeNothing(h) \/ Commit(h)
    \/ OpenNew \/ OpenExisting \/ CloseForm
    \/ AddName \/ DropName \/ SetAccesses \/ SetAdmin \/ AddRow \/ DeleteRow
    \/ Save \/ ServeAccepted \/ ServeRefused
    \/ \E p \in Policies : DeletePolicy(p)

Spec == Init /\ [][Next]_vars

-----------------------------------------------------------------------------
(* Every variable has its type, what a policy holds the database knows,    *)
(* and what a form holds for names is never an empty list:                 *)
(* setPermissionsToColl would send a name "".                              *)
TypeOK ==
    /\ \A p \in Policies : policies[p] = None \/ \A k \in DOMAIN policies[p] : policies[p][k] \in KnownItem
    /\ \A h \in Handlers :
        handling[h] # None =>
            /\ handling[h].req \in Request
            /\ handling[h].policy \in Policies \cup {None}
            /\ \A k \in DOMAIN handling[h].items : handling[h].items[k] \in KnownItem
    /\ form # None =>
        /\ form.policy \in Policies \cup {None}
        /\ \A k \in DOMAIN form.rows : form.rows[k] \in Row
        /\ form.edits \in 0..MaxEdits
    /\ requests \in 0..MaxRequests
    /\ sessions \in 0..MaxSessions

Heldby(n, items) == {a \in Accesses \cup {Admin} : <<n, a>> \in Held(items)}

(* An item that getPolicyItemForUser or -Group may return for a name of    *)
(* the request: its other names share what happens to it.                  *)
SoleItem(i, req) == \E k \in Kinds : \E n \in req[k] : i[k] = {n}
Sharing(items, req) == UNION {Names(i) : i \in {j \in ToSet(items) : SoleItem(j, req)}}

Finishes(h, op) == handling[h] # None /\ handling'[h] = None /\ handling[h].req.op = op

(* What is stored of an item that was in the copy already and that the     *)
(* validator would refuse.                                                 *)
LeftOf(i, items) ==
    \E j \in ToSet(items) :
        ~ValidItem(j) /\ Names(i) \subseteq Names(j) /\ Asked(i) = Asked(j)

(* grantAccess and revokeAccess write without the validator.  An item that *)
(* it would refuse, and that keeps the policy form from saving the policy, *)
(* comes into the store in one way only: from a grant that names somebody  *)
(* or something unknown.  It stays through grants, and through a revoke    *)
(* with replace, which only drops items without names; any other revoke    *)
(* takes it away (compactPolicy), and the form never stores one.           *)
Unknown(req) == ~(Names(req) \subseteq KnownNames) \/ ~(req.accesses \subseteq KnownTypes)

StoresValidItems ==
    [][\A p \in Policies : policies'[p] \notin {policies[p], None} =>
        \A i \in ToSet(policies'[p]) :
            \/ ValidItem(i)
            \/ \E h \in Handlers :
                LET copy == handling[h]
                IN  \/ Finishes(h, "grant") /\ (Unknown(copy.req) \/ LeftOf(i, copy.items))
                    \/ Finishes(h, "revoke") /\ copy.req.replace /\ LeftOf(i, copy.items)]_vars

(* What one grant does to a policy, against the copy that it read: the     *)
(* known names of the request hold the known part of what was asked for,   *)
(* and with replace nothing else; nobody else loses anything, and nobody   *)
(* else gains anything unless he shares an item with a name of the request *)
(* - and then no more than was asked for.                                  *)
GrantAsAsked(copy, items) ==
    LET names == Names(copy.req) \cap KnownNames
        asked == Asked(copy.req) \cap (KnownTypes \cup {Admin})
    IN  \A n \in Users \cup Groups :
            LET before == Heldby(n, copy.items)
                after  == Heldby(n, items)
            IN  IF n \in names
                THEN IF copy.req.replace THEN after = asked ELSE after = before \cup asked
                ELSE /\ before \subseteq after
                     /\ after \subseteq before \cup
                            IF n \in Sharing(copy.items, copy.req) THEN asked ELSE {}

(* grantAccess gives what was asked for and nothing else, whether it found *)
(* items to add to, made new ones, or made a new policy; if it does not    *)
(* write, the copy had it all.  A name or an access type that the database *)
(* does not know is passed over, and the answer is a success all the same. *)
GrantGivesWhatWasAsked ==
    [][\A h \in Handlers :
        Finishes(h, "grant") /\ handling[h].policy \in Existing \cup {None} =>
            \/ \E p \in Policies :
                /\ IF handling[h].policy = None THEN p \notin Existing ELSE p = handling[h].policy
                /\ policies'[p] # None
                /\ GrantAsAsked(handling[h], policies'[p])
            \/ policies' = policies /\ GrantAsAsked(handling[h], handling[h].items)]_vars

(* A name whose permissions a revoke can find: one item, for it alone.     *)
Findable(n, items) ==
    LET of == {k \in DOMAIN items : n \in Names(items[k])}
    IN  Cardinality(of) = 1 /\ \A k \in of : items[k].users = {n} \/ items[k].groups = {n}

(* What one revoke does to a policy: nobody gains anything; with replace   *)
(* the names of the request are left with nothing, and without it they     *)
(* lose what was asked for if they have one item, for them alone; nobody   *)
(* else loses anything unless he shares an item with such a name.          *)
RevokeAsAsked(copy, items) ==
    \A n \in Users \cup Groups :
        LET before == Heldby(n, copy.items)
            after  == Heldby(n, items)
        IN  /\ after \subseteq before
            /\ n \in Names(copy.req) /\ copy.req.replace => after = {}
            /\ n \in Names(copy.req) /\ ~copy.req.replace /\ Findable(n, copy.items) =>
                    after = before \ Asked(copy.req)
            /\ n \notin Names(copy.req) =>
                    before \ after \subseteq
                        IF ~copy.req.replace /\ n \in Sharing(copy.items, copy.req)
                        THEN Asked(copy.req) ELSE {}

(* revokeAccess takes what was asked for, and nothing from anybody else.   *)
RevokeTakesWhatWasAsked ==
    [][\A h \in Handlers :
        Finishes(h, "revoke") /\ handling[h].policy \in Existing =>
            \/ RevokeAsAsked(handling[h], policies'[handling[h].policy])
            \/ policies' = policies /\ RevokeAsAsked(handling[h], handling[h].items)]_vars

(* A save that the server accepts stores an item for each row of the form  *)
(* that shows a name or a permission, with what the row shows: no row is   *)
(* dropped without a word.                                                 *)
SavesWhatIsShown ==
    [][ServeAccepted =>
        \E p \in Policies :
            /\ policies'[p] # None
            /\ form.policy \in {p, None}
            /\ LET rows == Only(form.rows, {k \in DOMAIN form.rows : Relevant(form.rows[k])})
               IN  /\ Len(policies'[p]) = Len(rows)
                   /\ \A k \in DOMAIN rows :
                        /\ \A kind \in Kinds : policies'[p][k][kind] = Shown(rows[k], kind)
                        /\ policies'[p][k].accesses = rows[k].accesses
                        /\ policies'[p][k].admin = rows[k].admin]_vars

(* What formValidation lets pass the server accepts, so that the user is   *)
(* told what is missing and not just "Error creating Policy!" - unless the *)
(* policy is gone, or a row that was loaded has neither names nor access   *)
(* types (any more), where null still counts as a name.                    *)
EmptiedRow(row) == Null \in {row.users, row.groups} /\ ~Relevant(row)

PassedFormIsAccepted ==
    [][ServeRefused =>
        \/ form.policy \in Policies \ Existing
        \/ \E row \in ToSet(form.rows) : EmptiedRow(row)]_vars
=============================================================================
