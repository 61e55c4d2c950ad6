---------------------------- MODULE PolicyEngine ----------------------------
(***************************************************************************)
(* RangerPolicyEngineImpl: the access decision of a plugin.  The threads   *)
(* of the host ask about requests at the same time; each goes through the  *)
(* evaluators of the policies one by one, with what the policies' caches   *)
(* of matched resources and the repository's cache of audit results have   *)
(* to say, and stops as soon as nothing is left to find out.               *)
(*                                                                         *)
(* The evaluators are those of the default type, RangerCachedPolicy-       *)
(* Evaluator, which extends the optimized and the default one.  How a      *)
(* policy's resource is matched with that of a request is taken as given.  *)
(***************************************************************************)
EXTENDS Integers, Sequences, SequencesExt

CONSTANTS
    Threads,
    PolicyLists,    \* the policies of an engine, in the order of their evaluators
    Users, Groups,
    Public,         \* the group everybody is in
    AccessTypes,    \* of the service-def
    Implied,        \* its impliedGrants: a set of access types for each
    AnyAccess,      \* RangerPolicyEngine.ANY_ACCESS
    AdminAccess,    \* RangerPolicyEngine.ADMIN_ACCESS
    Conditions,     \* custom conditions: a name and values, as items have them
    NameOf,         \* the name of each
    Checked,        \* the names that have an evaluator
    Resources,
    Key,            \* getAsString: the key of a resource in the caches
    Requests,       \* those that the threads make
    None

(* Multi-level impliedGrants are not handled by preprocessPolicy: what it  *)
(* adds for one access type must be complete.                              *)
ASSUME ImpliedAssumption ==
    /\ Implied \in [AccessTypes -> SUBSET AccessTypes]
    /\ \A a \in AccessTypes : \A b \in Implied[a] : Implied[b] \subseteq Implied[a]

(* An item has at most one condition of a name.                            *)
OnePerName(conditions) == \A c, d \in conditions : NameOf[c] = NameOf[d] => c = d

Item == {i \in [users : SUBSET Users, groups : SUBSET (Groups \cup {Public}),
                accesses : SUBSET AccessTypes, admin : BOOLEAN, conditions : SUBSET Conditions] :
            OnePerName(i.conditions)}

(* resources: those that the policy matches; heads: those whose head, like *)
(* the database of a table, it matches.                                    *)
Policy == [resources : SUBSET Resources, heads : SUBSET Resources, audit : BOOLEAN, items : Seq(Item)]

(* holds: the conditions whose evaluators say yes to the request.          *)
Request == [user : Users, groups : SUBSET Groups, access : AccessTypes \cup {AnyAccess, AdminAccess},
            resource : Resources, holds : SUBSET Conditions]

ASSUME PolicyAssumption  == PolicyLists \subseteq Seq(Policy)
ASSUME RequestAssumption == Requests \subseteq Request
ASSUME AccessAssumption  == AnyAccess \notin AccessTypes /\ AdminAccess \notin AccessTypes /\ AnyAccess # AdminAccess
ASSUME NoneAssumption    == None \notin {"matched", "notmatched", "notfound"}

Keys == {Key[r] : r \in Resources}

VARIABLES
    policies,    \* the evaluators, in the order they are asked
    matched,     \* matchedResourceCache of each evaluator
    notMatched,  \* notMatchedResourceCache of each evaluator
    audits,      \* keys in accessAuditCache; it only ever holds TRUE
    thread       \* the request a thread works on, or None

vars == <<policies, matched, notMatched, audits, thread>>

-----------------------------------------------------------------------------
(* preprocessPolicy: an access type brings the ones that it implies.       *)
Expanded(accesses) == accesses \cup UNION {Implied[a] : a \in accesses}

(* matchUserGroup                                                          *)
MatchUserGroup(i, req) == req.user \in i.users \/ Public \in i.groups \/ i.groups \cap req.groups # {}

(* initializeConditionEvaluators: a policy has one evaluator for a name,   *)
(* with the values of the first item that has a condition of the name.     *)
ConditionEvaluators(p) ==
    {c \in Conditions :
        /\ NameOf[c] \in Checked
        /\ \E k \in DOMAIN p.items :
            /\ c \in p.items[k].conditions
            /\ \A j \in 1 .. k - 1 : \A d \in p.items[j].conditions : NameOf[d] # NameOf[c]}

(* matchCustomConditions: the evaluators of the names that the item has.   *)
MatchCustomConditions(p, i, req) ==
    \A c \in i.conditions : \A e \in ConditionEvaluators(p) : NameOf[e] = NameOf[c] => e \in req.holds

(* RangerDefaultPolicyEvaluator.evaluatePolicyItemsForAccess: one item.    *)
ItemAllows(p, i, req) ==
    /\ MatchUserGroup(i, req)
    /\ \/ req.access = AdminAccess /\ i.admin
       \/ /\ req.access # AdminAccess
          /\ i.accesses # {}
          /\ req.access = AnyAccess \/ req.access \in Expanded(i.accesses)
          /\ MatchCustomConditions(p, i, req)

\* mutant: collected before preprocessPolicy has added the implied access types
MutAccessPerms(p) == UNION {i.accesses : i \in ToSet(p.items)}

(* What RangerOptimizedPolicyEvaluator collects from all items of a policy.*)
AccessPerms(p)   == UNION {Expanded(i.accesses) : i \in ToSet(p.items)}
DelegateAdmin(p) == \E i \in ToSet(p.items) : i.admin
AllUsers(p)      == UNION {i.users : i \in ToSet(p.items)}
AllGroups(p)     == UNION {i.groups : i \in ToSet(p.items)}

(* RangerOptimizedPolicyEvaluator.evaluatePolicyItemsForAccess: no item is *)
(* looked at that cannot allow anything.                                   *)
Allows(p, req) ==
    /\ Public \in AllGroups(p) \/ req.user \in AllUsers(p) \/ AllGroups(p) \cap req.groups # {}
    /\ \/ req.access = AnyAccess
       \/ req.access = AdminAccess /\ DelegateAdmin(p)
       \/ AccessTypes \subseteq AccessPerms(p)
       \/ req.access \in AccessPerms(p)
    /\ \E i \in ToSet(p.items) : ItemAllows(p, i, req)

-----------------------------------------------------------------------------
Evaluators == DOMAIN policies

Init ==
    /\ policies \in PolicyLists
    /\ matched    = [n \in Evaluators |-> {}]
    /\ notMatched = [n \in Evaluators |-> {}]
    /\ audits = {}
    /\ thread = [t \in Threads |-> None]

KeyOf(t) == Key[thread[t].request.resource]

(* createAccessResult and setAuditEnabledFromCache.                        *)
Ask(t, req) ==
    /\ thread[t] = None
    /\ thread' = [thread EXCEPT ![t] =
            [request |-> req,
             cached  |-> Key[req.resource] \in audits,
             at      |-> 1,                              \* the next evaluator
             looked  |-> None,                           \* what its cache says
             by      |-> 0,                              \* the evaluator that allows
             audited |-> Key[req.resource] \in audits]]  \* isAuditedDetermined, isAudited
    /\ UNCHANGED <<policies, matched, notMatched, audits>>

\* mutant: the loop ends when access is allowed
MutOver(t) == thread[t].by # 0 \/ thread[t].at > Len(policies)

(* The loop ends when both answers are there, or no evaluator is left.     *)
Over(t) == (thread[t].by # 0 /\ thread[t].audited) \/ thread[t].at > Len(policies)

(* RangerCachedPolicyEvaluator.isMatch: the caches are looked up first.    *)
Lookup(t) ==
    /\ thread[t] # None
    /\ ~Over(t)
    /\ thread[t].looked = None
    /\ thread' = [thread EXCEPT ![t].looked =
            IF KeyOf(t) \in matched[thread[t].at] THEN "matched"
            ELSE IF KeyOf(t) \in notMatched[thread[t].at] THEN "notmatched"
            ELSE "notfound"]
    /\ UNCHANGED <<policies, matched, notMatched, audits>>

\* mutant: a matching policy has its resource audited
MutAudits(p) == TRUE

Audits(p) == p.audit

\* mutant: an evaluator that allows is asked again for the audit
MutAfter(th, allows) == IF allows THEN th.at ELSE th.at + 1

After(th, allows) == th.at + 1

(* The rest of isMatch, with its result in the caches, and of evaluate:    *)
(* the head is tried for any access only; each answer is set once.         *)
Evaluate(t) ==
    LET th    == thread[t]
        p     == policies[th.at]
        match == th.looked = "matched" \/ (th.looked = "notfound" /\ th.request.resource \in p.resources)
        hit   == match \/ (th.request.access = AnyAccess /\ th.request.resource \in p.heads)
        allows == th.by = 0 /\ hit /\ Allows(p, th.request)
    IN  /\ th # None
        /\ ~Over(t)
        /\ th.looked # None
        /\ IF th.looked = "notfound"
           THEN IF match
                THEN matched' = [matched EXCEPT ![th.at] = @ \cup {KeyOf(t)}] /\ UNCHANGED notMatched
                ELSE notMatched' = [notMatched EXCEPT ![th.at] = @ \cup {KeyOf(t)}] /\ UNCHANGED matched
           ELSE UNCHANGED <<matched, notMatched>>
        /\ thread' = [thread EXCEPT
                ![t] = [th EXCEPT !.looked  = None,
                                  !.at      = After(th, allows),
                                  !.by      = IF allows THEN th.at ELSE @,
                                  !.audited = @ \/ (hit /\ Audits(p))]]
        /\ UNCHANGED <<policies, audits>>

(* storeAuditEnabledInCache, if the answer is not from there.              *)
Answer(t) ==
    /\ thread[t] # None
    /\ Over(t)
    /\ audits' = IF ~thread[t].cached /\ thread[t].audited THEN audits \cup {KeyOf(t)} ELSE audits
    /\ thread' = [thread EXCEPT ![t] = None]
    /\ UNCHANGED <<policies, matched, notMatched>>

(* CacheMap.removeEldestEntry, for each of the caches.                     *)
Evict ==
    /\ \E k \in Keys :
        \/ k \in audits /\ audits' = audits \ {k} /\ UNCHANGED <<matched, notMatched>>
        \/ \E n \in Evaluators :
            \/ /\ k \in matched[n]
               /\ matched' = [matched EXCEPT ![n] = @ \ {k}]
               /\ UNCHANGED <<notMatched, audits>>
            \/ /\ k \in notMatched[n]
               /\ notMatched' = [notMatched EXCEPT ![n] = @ \ {k}]
               /\ UNCHANGED <<matched, audits>>
    /\ UNCHANGED <<policies, thread>>

Next ==
    \/ \E t \in Threads :
        \/ \E req \in Requests : Ask(t, req)
        \/ Lookup(t) \/ Evaluate(t) \/ Answer(t)
    \/ Evict

Spec == Init /\ [][Next]_vars

-----------------------------------------------------------------------------
(* What the policies mean, whatever their order, without any cache and     *)
(* without what an evaluator collects beforehand.                          *)
Covers(p, req) ==
    req.resource \in p.resources \/ (req.access = AnyAccess /\ req.resource \in p.heads)

(* A condition counts as its item has it if the items of the policy agree  *)
(* on it; if they do not, all of them stand under the first of them.       *)
Counted(p, c) ==
    LET same == {d \in Conditions : NameOf[d] = NameOf[c] /\ \E i \in ToSet(p.items) : d \in i.conditions}
    IN  IF same = {c} THEN {c} ELSE same \cap ConditionEvaluators(p)

Met(p, i, req) == \A c \in i.conditions : NameOf[c] \in Checked => Counted(p, c) \subseteq req.holds

Gives(p, i, req) ==
    /\ req.user \in i.users \/ \E g \in i.groups : g = Public \/ g \in req.groups
    /\ CASE req.access = AdminAccess -> i.admin
         [] req.access = AnyAccess -> i.accesses # {} /\ Met(p, i, req)
         [] OTHER -> /\ \E a \in i.accesses : req.access = a \/ req.access \in Implied[a]
                     /\ Met(p, i, req)

Allowed(req) ==
    \E n \in Evaluators :
        Covers(policies[n], req) /\ \E i \in ToSet(policies[n].items) : Gives(policies[n], i, req)

Audited(req) == \E n \in Evaluators : Covers(policies[n], req) /\ policies[n].audit

(* The caches know a resource by its key.  A table and a function of the   *)
(* same name in a database have the same; what is said of one is then said *)
(* of the other, so the properties speak of the others.                    *)
Alone(r) == \A q \in Resources : Key[q] = Key[r] => q = r

Answered(t) == thread[t] # None /\ Over(t)

(* Every variable has its type.  An evaluator that allows has been asked   *)
(* and left behind: the loop never asks it twice.                          *)
LookedUp == {None, "matched", "notmatched", "notfound"}

Asking == [request : Requests, cached : BOOLEAN, at : Nat \ {0}, looked : LookedUp, by : Nat, audited : BOOLEAN]

TypeOK ==
    /\ policies \in PolicyLists
    /\ matched \in [Evaluators -> SUBSET Keys]
    /\ notMatched \in [Evaluators -> SUBSET Keys]
    /\ audits \subseteq Keys
    /\ \A t \in Threads :
        thread[t] # None =>
            /\ thread[t] \in Asking
            /\ thread[t].at <= Len(policies) + 1
            /\ thread[t].by < thread[t].at

(* The answer that a thread gets is the one the policies define: requests  *)
(* of other threads, the order of the evaluators, what the caches hold and *)
(* have lost, and stopping early change nothing.  A condition is judged    *)
(* with the values that its item gives it as long as no other item of the  *)
(* policy gives the name other values; if one does, all of them are judged *)
(* with those of the first, though the comment in matchCustomConditions    *)
(* speaks of the conditions of each item.                                  *)
DecidesAsDefined ==
    \A t \in Threads :
        Answered(t) /\ Alone(thread[t].request.resource) =>
            (thread[t].by # 0 <=> Allowed(thread[t].request))

(* An access that some policy wants audited is audited, also if the loop   *)
(* stops early because it is allowed, or if the audit cache has an answer. *)
NoAuditLost ==
    \A t \in Threads :
        Answered(t) /\ Alone(thread[t].request.resource) =>
            (Audited(thread[t].request) => thread[t].audited)

(* No access to a resource is audited that no policy with auditing covers, *)
(* at least by its head.  (The head counts for any access only; but a      *)
(* cached answer of such a request is given to the others too.)            *)
AuditsOnlyCovered ==
    \A t \in Threads :
        LET r == thread[t].request.resource
        IN  Answered(t) /\ Alone(r) /\ thread[t].audited =>
                \E n \in Evaluators : policies[n].audit /\ r \in policies[n].resources \cup policies[n].heads
=============================================================================
