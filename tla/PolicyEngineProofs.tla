------------------------- MODULE PolicyEngineProofs -------------------------
(***************************************************************************)
(* Proofs about PolicyEngine, for any service definition, any policies in  *)
(* any order, and any number of threads and resources.                     *)
(*                                                                         *)
(* The invariants that TLC checks speak of answered requests only.  What   *)
(* makes them inductive is what a thread knows on its way: what it has     *)
(* found of the evaluators that it has asked (Sound), and that every key   *)
(* in a cache, and what a thread has taken from one (Traced), is there     *)
(* because of a resource that has the key (CachesRight, AuditsRight).      *)
(***************************************************************************)
EXTENDS PolicyEngine, WellFoundedInduction, TLAPS

-----------------------------------------------------------------------------
(* The inductive invariant.                                                *)
Working(ps, th) ==
    /\ th \in Asking
    /\ th.at <= Len(ps) + 1
    /\ th.by < th.at
    /\ th.looked # None => th.at <= Len(ps)

Watched(ps, r) == \E n \in DOMAIN ps : ps[n].audit /\ r \in ps[n].resources \cup ps[n].heads

Traced(ps, th) ==
    LET r == th.request.resource
    IN  /\ th.looked = "matched" => \E q \in Resources : Key[q] = Key[r] /\ q \in ps[th.at].resources
        /\ th.audited => \E q \in Resources : Key[q] = Key[r] /\ Watched(ps, q)

Sound(ps, th) ==
    LET req == th.request
    IN  /\ th.looked = "matched" => req.resource \in ps[th.at].resources
        /\ th.looked = "notmatched" => req.resource \notin ps[th.at].resources
        /\ th.by # 0 => Covers(ps[th.by], req) /\ Allows(ps[th.by], req)
        /\ th.by = 0 => \A n \in DOMAIN ps : n < th.at => ~(Covers(ps[n], req) /\ Allows(ps[n], req))
        /\ ~th.audited => \A n \in DOMAIN ps : n < th.at => ~(Covers(ps[n], req) /\ ps[n].audit)
        /\ th.audited => Watched(ps, req.resource)

CachesTyped ==
    /\ policies \in PolicyLists
    /\ matched \in [Evaluators -> SUBSET Keys]
    /\ notMatched \in [Evaluators -> SUBSET Keys]
    /\ audits \subseteq Keys

CachesRight ==
    \A n \in Evaluators :
        /\ \A k \in matched[n] : \E r \in Resources : Key[r] = k /\ r \in policies[n].resources
        /\ \A k \in notMatched[n] : \E r \in Resources : Key[r] = k /\ r \notin policies[n].resources

AuditsRight == \A k \in audits : \E r \in Resources : Key[r] = k /\ Watched(policies, r)

ThreadsRight ==
    /\ DOMAIN thread = Threads
    /\ \A t \in Threads :
        thread[t] # None =>
            /\ Working(policies, thread[t])
            /\ Traced(policies, thread[t])
            /\ Alone(thread[t].request.resource) => Sound(policies, thread[t])

Inv == CachesTyped /\ CachesRight /\ AuditsRight /\ ThreadsRight

-----------------------------------------------------------------------------
(* The evaluators are numbered from one.                                   *)
LEMMA PoliciesTyped ==
    ASSUME NEW ps \in PolicyLists
    PROVE  /\ Len(ps) \in Nat
           /\ DOMAIN ps = 1 .. Len(ps)
           /\ \A n \in DOMAIN ps : ps[n] \in Policy
<1>1. ps \in Seq(Policy)
  BY PolicyAssumption
<1> QED
  BY <1>1

(* The items of a policy, by their places.                                 *)
LEMMA ItemsTyped ==
    ASSUME NEW p \in Policy
    PROVE  /\ Len(p.items) \in Nat
           /\ DOMAIN p.items = 1 .. Len(p.items)
           /\ \A k \in DOMAIN p.items : p.items[k] \in Item
           /\ ToSet(p.items) = {p.items[k] : k \in DOMAIN p.items}
           /\ \A i \in ToSet(p.items) : i \in Item
<1>1. p.items \in Seq(Item)
  BY DEF Policy
<1>2. \A k \in DOMAIN p.items : p.items[k] \in Item
  BY <1>1
<1>3. ToSet(p.items) = {p.items[k] : k \in DOMAIN p.items}
  BY DEF ToSet
<1> QED
  BY <1>1, <1>2, <1>3

(* A name that a condition of an item has, and that is checked, has an     *)
(* evaluator: one of the items is the first to have a condition of it.     *)
LEMMA NameHasEvaluator ==
    ASSUME NEW p \in Policy, NEW i \in ToSet(p.items), NEW c \in i.conditions, NameOf[c] \in Checked
    PROVE  \E e \in ConditionEvaluators(p) : NameOf[e] = NameOf[c]
<1> DEFINE R    == {q \in Nat \X Nat : q[1] < q[2]}
           with == {k \in DOMAIN p.items : \E d \in p.items[k].conditions : NameOf[d] = NameOf[c]}
<1>1. /\ Len(p.items) \in Nat /\ DOMAIN p.items = 1 .. Len(p.items)
      /\ \A k \in DOMAIN p.items : p.items[k] \in Item
      /\ ToSet(p.items) = {p.items[k] : k \in DOMAIN p.items}
  BY ItemsTyped
<1>2. with \subseteq Nat /\ with # {}
  BY <1>1
<1>3. IsWellFoundedOn(R, Nat)
  BY NatLessThanWellFounded DEF OpToRel
<1>4. PICK k \in with : \A j \in with : <<j, k>> \notin R
  BY <1>2, <1>3, WFMin
<1>5. PICK e \in p.items[k].conditions : NameOf[e] = NameOf[c]
  OBVIOUS
<1>6. k \in DOMAIN p.items /\ k \in Nat
  BY <1>2
<1>7. e \in Conditions
  BY <1>1, <1>5, <1>6 DEF Item
<1>8. ASSUME NEW j \in 1 .. k - 1, NEW d \in p.items[j].conditions
      PROVE  NameOf[d] # NameOf[e]
  <2>1. j \in DOMAIN p.items /\ j \in Nat /\ j < k
    BY <1>1, <1>6
  <2>2. j \notin with
    BY <1>4, <1>6, <2>1
  <2> QED
    BY <1>5, <2>1, <2>2
<1> QED
  BY <1>5, <1>6, <1>7, <1>8 DEF ConditionEvaluators

(* What is asked of an item's conditions is what counts of them.           *)
LEMMA ConditionsAsCounted ==
    ASSUME NEW p \in Policy, NEW i \in ToSet(p.items), NEW req \in Request
    PROVE  MatchCustomConditions(p, i, req) <=> Met(p, i, req)
<1> SUFFICES ASSUME NEW c \in i.conditions
             PROVE  (\A e \in ConditionEvaluators(p) : NameOf[e] = NameOf[c] => e \in req.holds)
                        <=> (NameOf[c] \in Checked => Counted(p, c) \subseteq req.holds)
  BY DEF MatchCustomConditions, Met
<1> DEFINE same  == {d \in Conditions : NameOf[d] = NameOf[c] /\ \E h \in ToSet(p.items) : d \in h.conditions}
           asked == {e \in ConditionEvaluators(p) : NameOf[e] = NameOf[c]}
<1>1. /\ \A k \in DOMAIN p.items : p.items[k] \in ToSet(p.items)
      /\ i \in Item
  BY ItemsTyped
<1>2. asked \subseteq same
  BY <1>1 DEF ConditionEvaluators
<1>3. asked = same \cap ConditionEvaluators(p)
  BY <1>2
<1>4. CASE NameOf[c] \notin Checked
  BY <1>4 DEF ConditionEvaluators
<1>5. CASE NameOf[c] \in Checked
  <2>1. Counted(p, c) = asked
    <3>1. CASE same = {c}
      <4>1. asked # {}
        BY <1>5, NameHasEvaluator
      <4>2. asked = {c}
        BY <1>2, <3>1, <4>1
      <4> QED
        BY <3>1, <4>2 DEF Counted
    <3>2. CASE same # {c}
      BY <1>3, <3>2 DEF Counted
    <3> QED
      BY <3>1, <3>2
  <2> QED
    BY <1>5, <2>1
<1> QED
  BY <1>4, <1>5

(* evaluatePolicyItemsForAccess of one item does what its definition says. *)
LEMMA ItemAllowsWhatItGives ==
    ASSUME NEW p \in Policy, NEW i \in ToSet(p.items), NEW req \in Request
    PROVE  ItemAllows(p, i, req) <=> Gives(p, i, req)
<1> DEFINE names == req.user \in i.users \/ \E g \in i.groups : g = Public \/ g \in req.groups
<1>1. MatchUserGroup(i, req) <=> names
  BY DEF MatchUserGroup
<1>2. i.accesses \subseteq AccessTypes /\ req.access \in AccessTypes \cup {AnyAccess, AdminAccess}
  BY ItemsTyped DEF Item, Request
<1> DEFINE met == Met(p, i, req)
<1>m. MatchCustomConditions(p, i, req) <=> met
  BY ConditionsAsCounted
<1>3. CASE req.access = AdminAccess
  <2>1. req.access # AnyAccess
    BY <1>3, AccessAssumption
  <2>2. ItemAllows(p, i, req) <=> names /\ i.admin
    BY <1>1, <1>3 DEF ItemAllows
  <2>3. Gives(p, i, req) <=> names /\ i.admin
    BY <1>3, <2>1 DEF Gives
  <2> QED
    BY <2>2, <2>3
<1>4. CASE req.access = AnyAccess
  <2>1. req.access # AdminAccess
    BY <1>4, AccessAssumption
  <2>2. ItemAllows(p, i, req) <=> names /\ i.accesses # {} /\ met
    BY <1>1, <1>m, <1>4, <2>1 DEF ItemAllows
  <2>3. Gives(p, i, req) <=> names /\ i.accesses # {} /\ met
    BY <1>4, <2>1 DEF Gives
  <2> QED
    BY <2>2, <2>3
<1>5. CASE req.access # AdminAccess /\ req.access # AnyAccess
  <2> DEFINE given == \E a \in i.accesses : req.access = a \/ req.access \in Implied[a]
  <2>1. req.access \in Expanded(i.accesses) <=> given
    BY DEF Expanded
  <2>2. ItemAllows(p, i, req) <=> names /\ given /\ met
    BY <1>1, <1>m, <1>5, <2>1 DEF ItemAllows
  <2>3. Gives(p, i, req) <=> names /\ given /\ met
    BY <1>5 DEF Gives
  <2> QED
    BY <2>2, <2>3
<1> QED
  BY <1>3, <1>4, <1>5

(* What the optimized evaluator collects from the items excludes no policy *)
(* of which an item allows the access.                                     *)
LEMMA CollectedExcludesNothing ==
    ASSUME NEW p \in Policy, NEW req \in Request, NEW i \in ToSet(p.items), ItemAllows(p, i, req)
    PROVE  Allows(p, req)
<1>1. Public \in AllGroups(p) \/ req.user \in AllUsers(p) \/ AllGroups(p) \cap req.groups # {}
  BY DEF ItemAllows, MatchUserGroup, AllGroups, AllUsers
<1>2. \/ req.access = AnyAccess
      \/ req.access = AdminAccess /\ DelegateAdmin(p)
      \/ req.access \in AccessPerms(p)
  BY DEF ItemAllows, DelegateAdmin, AccessPerms
<1> QED
  BY <1>1, <1>2 DEF Allows

(* A policy allows what one of its items gives.                            *)
LEMMA AllowsWhatItemsGive ==
    ASSUME NEW p \in Policy, NEW req \in Request
    PROVE  Allows(p, req) <=> \E i \in ToSet(p.items) : Gives(p, i, req)
<1>1. ASSUME Allows(p, req)
      PROVE  \E i \in ToSet(p.items) : Gives(p, i, req)
  BY <1>1, ItemAllowsWhatItGives DEF Allows
<1>2. ASSUME NEW i \in ToSet(p.items), Gives(p, i, req)
      PROVE  Allows(p, req)
  BY <1>2, ItemAllowsWhatItGives, CollectedExcludesNothing
<1> QED
  BY <1>1, <1>2

(* Keys of resources that stand alone tell which resource was meant.       *)
LEMMA KeyTells ==
    ASSUME NEW r \in Resources, Alone(r), NEW q \in Resources, Key[q] = Key[r]
    PROVE  q = r
BY DEF Alone

-----------------------------------------------------------------------------
THEOREM InitInv == Init => Inv
<1> SUFFICES ASSUME Init PROVE Inv
  OBVIOUS
<1>1. CachesTyped
  BY DEF Init, CachesTyped, Keys
<1>2. CachesRight
  BY DEF Init, CachesRight
<1>3. AuditsRight
  BY DEF Init, AuditsRight
<1>4. ThreadsRight
  BY DEF Init, ThreadsRight
<1> QED
  BY <1>1, <1>2, <1>3, <1>4 DEF Inv

(* A step that changes one thread only has to show that thread right.      *)
LEMMA OtherThreadsRight ==
    ASSUME Inv, policies' = policies, NEW t \in Threads, NEW th,
           thread' = [thread EXCEPT ![t] = th],
           th # None => Working(policies, th) /\ Traced(policies, th) /\ (Alone(th.request.resource) => Sound(policies, th))
    PROVE  ThreadsRight'
<1>1. DOMAIN thread = Threads
  BY DEF Inv, ThreadsRight
<1>2. DOMAIN thread' = Threads
  BY <1>1
<1>3. ASSUME NEW s \in Threads, thread'[s] # None
      PROVE  /\ Working(policies, thread'[s])
             /\ Traced(policies, thread'[s])
             /\ Alone(thread'[s].request.resource) => Sound(policies, thread'[s])
  <2>1. CASE s = t
    BY <1>1, <1>3, <2>1
  <2>2. CASE s # t
    BY <1>1, <1>3, <2>2 DEF Inv, ThreadsRight
  <2> QED
    BY <2>1, <2>2
<1> QED
  BY <1>2, <1>3 DEF ThreadsRight

LEMMA AskInv == ASSUME Inv, NEW t \in Threads, NEW req \in Requests, Ask(t, req) PROVE Inv'
<1> DEFINE k  == Key[req.resource] \in audits
           th == [request |-> req, cached |-> k, at |-> 1, looked |-> None, by |-> 0, audited |-> k]
<1>1. thread' = [thread EXCEPT ![t] = th]
  BY DEF Ask
<1>2. UNCHANGED <<policies, matched, notMatched, audits>>
  BY DEF Ask
<1>3. policies \in PolicyLists
  BY DEF Inv, CachesTyped
<1>4. Len(policies) \in Nat /\ DOMAIN policies = 1 .. Len(policies)
  BY <1>3, PoliciesTyped
<1>5. Working(policies, th)
  <2>1. k \in BOOLEAN
    OBVIOUS
  <2>2. th \in Asking
    BY <2>1 DEF Asking, LookedUp
  <2> QED
    BY <2>2, <1>4 DEF Working
<1>6. ASSUME Alone(req.resource)
      PROVE  Sound(policies, th)
  <2>1. th.looked # "matched" /\ th.looked # "notmatched" /\ th.by = 0
    BY NoneAssumption
  <2>2. \A n \in DOMAIN policies : ~(n < th.at)
    BY <1>4
  <2>3. ASSUME k
        PROVE  Watched(policies, req.resource)
    <3>1. PICK r \in Resources : Key[r] = Key[req.resource] /\ Watched(policies, r)
      BY <2>3 DEF Inv, AuditsRight
    <3>2. req.resource \in Resources
      BY RequestAssumption DEF Request
    <3> QED
      BY <3>1, <3>2, <1>6, KeyTells
  <2>4. th.audited => Watched(policies, th.request.resource)
    BY <2>3
  <2> HIDE DEF th
  <2> QED
    BY <2>1, <2>2, <2>4 DEF Sound
<1>7. Traced(policies, th)
  <2>1. th.looked # "matched" /\ th.request = req /\ th.audited = k
    BY NoneAssumption
  <2>2. k => \E q \in Resources : Key[q] = Key[req.resource] /\ Watched(policies, q)
    BY DEF Inv, AuditsRight
  <2> HIDE DEF th
  <2> QED
    BY <2>1, <2>2 DEF Traced
<1>8. ThreadsRight'
  <2>1. th.request = req
    OBVIOUS
  <2> HIDE DEF th
  <2> QED
    BY <1>1, <1>2, <1>5, <1>6, <1>7, <2>1, OtherThreadsRight
<1> QED
  BY <1>2, <1>8 DEF Inv, CachesTyped, CachesRight, AuditsRight, Evaluators

LEMMA LookupInv == ASSUME Inv, NEW t \in Threads, Lookup(t) PROVE Inv'
<1> DEFINE old == thread[t]
           r   == old.request.resource
           say == IF KeyOf(t) \in matched[old.at] THEN "matched"
                  ELSE IF KeyOf(t) \in notMatched[old.at] THEN "notmatched" ELSE "notfound"
           th  == [old EXCEPT !.looked = say]
<1>1. thread' = [thread EXCEPT ![t] = th] /\ old # None /\ ~Over(t)
  BY DEF Lookup, Inv, ThreadsRight
<1>2. UNCHANGED <<policies, matched, notMatched, audits>>
  BY DEF Lookup
<1>3. policies \in PolicyLists
  BY DEF Inv, CachesTyped
<1>4. Len(policies) \in Nat /\ DOMAIN policies = 1 .. Len(policies)
  BY <1>3, PoliciesTyped
<1>5. Working(policies, old) /\ (Alone(r) => Sound(policies, old))
  BY <1>1 DEF Inv, ThreadsRight
<1>6. old \in Asking
  BY <1>5 DEF Working
<1>7. old.at \in Nat \ {0} /\ old.at <= Len(policies)
  BY <1>1, <1>4, <1>6 DEF Over, Asking
<1>8. /\ th.request = old.request /\ th.at = old.at /\ th.by = old.by
      /\ th.audited = old.audited /\ th.looked = say
  BY <1>6 DEF Asking
<1>9. Working(policies, th)
  <2>1. th \in Asking
    BY <1>6 DEF Asking, LookedUp
  <2> HIDE DEF th
  <2> QED
    BY <2>1, <1>5, <1>7, <1>8 DEF Working
<1>10. ASSUME Alone(r)
       PROVE  Sound(policies, th)
  <2>1. old.at \in Evaluators
    BY <1>4, <1>7 DEF Evaluators
  <2>2. r \in Resources
    BY <1>6, RequestAssumption DEF Asking, Request
  <2>3. ASSUME KeyOf(t) \in matched[old.at]
        PROVE  r \in policies[old.at].resources
    <3>1. PICK q \in Resources : Key[q] = KeyOf(t) /\ q \in policies[old.at].resources
      BY <2>1, <2>3 DEF Inv, CachesRight
    <3> QED
      BY <3>1, <2>2, <1>10, KeyTells DEF KeyOf
  <2>4. ASSUME KeyOf(t) \in notMatched[old.at]
        PROVE  r \notin policies[old.at].resources
    <3>1. PICK q \in Resources : Key[q] = KeyOf(t) /\ q \notin policies[old.at].resources
      BY <2>1, <2>4 DEF Inv, CachesRight
    <3> QED
      BY <3>1, <2>2, <1>10, KeyTells DEF KeyOf
  <2>5. say = "matched" => r \in policies[old.at].resources
    BY <2>3
  <2>6. say = "notmatched" => r \notin policies[old.at].resources
    BY <2>4
  <2>7. Sound(policies, old)
    BY <1>5, <1>10
  <2> HIDE DEF th, say, old
  <2> QED
    BY <1>8, <2>5, <2>6, <2>7 DEF Sound, r
<1>11. Traced(policies, th)
  <2>1. old.at \in Evaluators
    BY <1>4, <1>7 DEF Evaluators
  <2>2. say = "matched" => \E q \in Resources : Key[q] = Key[r] /\ q \in policies[old.at].resources
    BY <2>1 DEF Inv, CachesRight, KeyOf
  <2>3. Traced(policies, old)
    BY <1>1 DEF Inv, ThreadsRight
  <2> HIDE DEF th, say, old
  <2> QED
    BY <1>8, <2>2, <2>3 DEF Traced, r
<1>12. ThreadsRight'
  <2>1. Alone(th.request.resource) => Sound(policies, th)
    BY <1>8, <1>10
  <2> HIDE DEF th
  <2> QED
    BY <1>1, <1>2, <1>9, <1>11, <2>1, OtherThreadsRight
<1> QED
  BY <1>2, <1>12 DEF Inv, CachesTyped, CachesRight, AuditsRight, Evaluators

LEMMA EvaluateInv == ASSUME Inv, NEW t \in Threads, Evaluate(t) PROVE Inv'
<1> DEFINE old    == thread[t]
           req    == old.request
           r      == req.resource
           p      == policies[old.at]
           match  == old.looked = "matched" \/ (old.looked = "notfound" /\ r \in p.resources)
           hit    == match \/ (req.access = AnyAccess /\ r \in p.heads)
           allows == old.by = 0 /\ hit /\ Allows(p, req)
           th     == [old EXCEPT !.looked  = None,
                                 !.at      = old.at + 1,
                                 !.by      = IF allows THEN old.at ELSE old.by,
                                 !.audited = old.audited \/ (hit /\ p.audit)]
<1>1. old # None /\ ~Over(t) /\ old.looked # None
  BY DEF Evaluate
<1>2. UNCHANGED <<policies, audits>>
  BY DEF Evaluate
<1>3. policies \in PolicyLists
  BY DEF Inv, CachesTyped
<1>4. Len(policies) \in Nat /\ DOMAIN policies = 1 .. Len(policies)
  BY <1>3, PoliciesTyped
<1>5. Working(policies, old) /\ (Alone(r) => Sound(policies, old))
  BY <1>1 DEF Inv, ThreadsRight
<1>6. old \in Asking
  BY <1>5 DEF Working
<1>7. old.at \in Nat \ {0} /\ old.at <= Len(policies) /\ old.by \in Nat /\ old.by < old.at
  BY <1>1, <1>5, <1>6 DEF Working, Asking
<1>8. old.at \in Evaluators /\ old.at \in DOMAIN policies
  BY <1>4, <1>7 DEF Evaluators
<1>9. r \in Resources /\ req \in Request
  BY <1>6, RequestAssumption DEF Asking, Request
<1>10. p \in Policy
  BY <1>3, <1>8, PoliciesTyped
<1>11. p.audit \in BOOLEAN
  BY <1>10 DEF Policy
<1>12. thread' = [thread EXCEPT ![t] = th]
  BY DEF Evaluate, Inv, ThreadsRight, After, Audits
<1>13. /\ th.request = req /\ th.at = old.at + 1 /\ th.looked = None
       /\ th.by = (IF allows THEN old.at ELSE old.by)
       /\ th.audited = (old.audited \/ (hit /\ p.audit))
  BY <1>6 DEF Asking
<1>14. Working(policies, th)
  <2>1. (IF allows THEN old.at ELSE old.by) \in Nat
    BY <1>7
  <2>2. old.at + 1 \in Nat \ {0}
    BY <1>7
  <2>3. (old.audited \/ (hit /\ p.audit)) \in BOOLEAN
    OBVIOUS
  <2>4. th \in Asking
    <3> HIDE DEF allows, hit, p
    <3> QED
      BY <2>1, <2>2, <2>3, <1>6 DEF Asking, LookedUp
  <2> HIDE DEF th, allows
  <2> QED
    BY <2>4, <1>4, <1>7, <1>13 DEF Working
<1>15. ASSUME Alone(r)
       PROVE  Sound(policies, th)
  <2>1. Sound(policies, old)
    BY <1>5, <1>15
  <2>2. match <=> r \in p.resources
    <3>1. old.looked \in {"matched", "notmatched", "notfound"}
      BY <1>1, <1>6 DEF Asking, LookedUp
    <3> QED
      BY <2>1, <3>1 DEF Sound
  <2>3. hit <=> Covers(p, req)
    BY <2>2 DEF Covers
  <2> DEFINE by == IF allows THEN old.at ELSE old.by
             audited == old.audited \/ (hit /\ p.audit)
  <2>4. by # 0 => Covers(policies[by], req) /\ Allows(policies[by], req)
    BY <2>1, <2>3 DEF Sound
  <2>5. by = 0 => \A n \in DOMAIN policies : n < old.at + 1 => ~(Covers(policies[n], req) /\ Allows(policies[n], req))
    <3> SUFFICES ASSUME by = 0, NEW n \in DOMAIN policies, n < old.at + 1
                 PROVE  ~(Covers(policies[n], req) /\ Allows(policies[n], req))
      OBVIOUS
    <3>1. ~allows /\ old.by = 0
      BY <1>7
    <3>2. CASE n = old.at
      BY <3>1, <3>2, <2>3
    <3>3. CASE n # old.at
      <4>1. n < old.at
        BY <3>3, <1>4, <1>7
      <4> QED
        BY <4>1, <3>1, <2>1 DEF Sound
    <3> QED
      BY <3>2, <3>3
  <2>6. ~audited => \A n \in DOMAIN policies : n < old.at + 1 => ~(Covers(policies[n], req) /\ policies[n].audit)
    <3> SUFFICES ASSUME ~audited, NEW n \in DOMAIN policies, n < old.at + 1
                 PROVE  ~(Covers(policies[n], req) /\ policies[n].audit)
      OBVIOUS
    <3>1. ~old.audited /\ ~(hit /\ p.audit)
      OBVIOUS
    <3>2. CASE n = old.at
      BY <3>1, <3>2, <2>3
    <3>3. CASE n # old.at
      <4>1. n < old.at
        BY <3>3, <1>4, <1>7
      <4> QED
        BY <4>1, <3>1, <2>1 DEF Sound
    <3> QED
      BY <3>2, <3>3
  <2>7. audited => Watched(policies, r)
    <3>1. old.audited => Watched(policies, r)
      BY <2>1 DEF Sound
    <3>2. hit => r \in p.resources \cup p.heads
      BY <2>2
    <3> QED
      BY <3>1, <3>2, <1>8 DEF Watched
  <2>8. th.looked # "matched" /\ th.looked # "notmatched"
    BY <1>13, NoneAssumption
  <2>9. th.by = by /\ th.audited = audited
    BY <1>13
  <2> HIDE DEF th, by, audited
  <2> QED
    BY <2>4, <2>5, <2>6, <2>7, <2>8, <2>9, <1>13 DEF Sound
<1>16. Traced(policies, th)
  <2>1. Traced(policies, old)
    BY <1>1 DEF Inv, ThreadsRight
  <2>2. hit => \E q \in Resources : Key[q] = Key[r] /\ q \in p.resources \cup p.heads
    BY <2>1, <1>9 DEF Traced
  <2>3. old.audited \/ (hit /\ p.audit) => \E q \in Resources : Key[q] = Key[r] /\ Watched(policies, q)
    <3> HIDE DEF hit
    <3> QED
      BY <2>1, <2>2, <1>8 DEF Traced, Watched
  <2>4. th.looked # "matched"
    BY <1>13, NoneAssumption
  <2> HIDE DEF th, hit
  <2> QED
    BY <2>3, <2>4, <1>13 DEF Traced
<1>17. ThreadsRight'
  <2>1. Alone(th.request.resource) => Sound(policies, th)
    BY <1>13, <1>15
  <2> HIDE DEF th
  <2> QED
    BY <1>2, <1>12, <1>14, <1>16, <2>1, OtherThreadsRight
<1>18. KeyOf(t) \in Keys /\ KeyOf(t) = Key[r]
  BY <1>9 DEF KeyOf, Keys
<1>19. (CachesTyped /\ CachesRight)'
  <2>1. CASE old.looked # "notfound"
    <3>1. UNCHANGED <<matched, notMatched>>
      BY <2>1 DEF Evaluate
    <3> QED
      BY <3>1, <1>2 DEF Inv, CachesTyped, CachesRight, Evaluators
  <2>2. CASE old.looked = "notfound" /\ match
    <3>1. r \in p.resources
      BY <2>2
    <3>2. matched' = [matched EXCEPT ![old.at] = @ \cup {KeyOf(t)}] /\ notMatched' = notMatched
      BY <2>2 DEF Evaluate
    <3>3. \A n \in Evaluators : matched'[n] = IF n = old.at THEN matched[n] \cup {KeyOf(t)} ELSE matched[n]
      BY <3>2 DEF Inv, CachesTyped
    <3>4. CachesTyped'
      BY <3>2, <1>2, <1>18 DEF Inv, CachesTyped, Evaluators
    <3>5. CachesRight'
      <4>1. ASSUME NEW n \in Evaluators, NEW k \in matched'[n]
            PROVE  \E q \in Resources : Key[q] = k /\ q \in policies[n].resources
        <5>1. k \in matched[n] \/ (n = old.at /\ k = Key[r])
          BY <3>3, <4>1, <1>18
        <5>2. CASE k \in matched[n]
          BY <5>2 DEF Inv, CachesRight
        <5>3. CASE n = old.at /\ k = Key[r]
          BY <5>3, <3>1, <1>9
        <5> QED
          BY <5>1, <5>2, <5>3
      <4> QED
        BY <4>1, <3>2, <1>2 DEF Inv, CachesRight, Evaluators
    <3> QED
      BY <3>4, <3>5
  <2>3. CASE old.looked = "notfound" /\ ~match
    <3>1. r \notin p.resources
      BY <2>3
    <3>2. notMatched' = [notMatched EXCEPT ![old.at] = @ \cup {KeyOf(t)}] /\ matched' = matched
      BY <2>3 DEF Evaluate
    <3>3. \A n \in Evaluators : notMatched'[n] = IF n = old.at THEN notMatched[n] \cup {KeyOf(t)} ELSE notMatched[n]
      BY <3>2 DEF Inv, CachesTyped
    <3>4. CachesTyped'
      BY <3>2, <1>2, <1>18 DEF Inv, CachesTyped, Evaluators
    <3>5. CachesRight'
      <4>1. ASSUME NEW n \in Evaluators, NEW k \in notMatched'[n]
            PROVE  \E q \in Resources : Key[q] = k /\ q \notin policies[n].resources
        <5>1. k \in notMatched[n] \/ (n = old.at /\ k = Key[r])
          BY <3>3, <4>1, <1>18
        <5>2. CASE k \in notMatched[n]
          BY <5>2 DEF Inv, CachesRight
        <5>3. CASE n = old.at /\ k = Key[r]
          BY <5>3, <3>1, <1>9
        <5> QED
          BY <5>1, <5>2, <5>3
      <4> QED
        BY <4>1, <3>2, <1>2 DEF Inv, CachesRight, Evaluators
    <3> QED
      BY <3>4, <3>5
  <2> QED
    BY <2>1, <2>2, <2>3
<1> QED
  BY <1>2, <1>17, <1>19 DEF Inv, AuditsRight

LEMMA AnswerInv == ASSUME Inv, NEW t \in Threads, Answer(t) PROVE Inv'
<1> DEFINE old == thread[t]
           r   == old.request.resource
<1>1. UNCHANGED <<policies, matched, notMatched>> /\ old # None
  BY DEF Answer
<1>2. ThreadsRight'
  BY <1>1, OtherThreadsRight DEF Answer
<1>3. (CachesTyped /\ AuditsRight)'
  <2>1. CASE audits' = audits
    BY <2>1, <1>1 DEF Inv, CachesTyped, AuditsRight, Evaluators
  <2>2. CASE audits' = audits \cup {KeyOf(t)} /\ old.audited
    <3>1. Working(policies, old) /\ Traced(policies, old)
      BY <1>1 DEF Inv, ThreadsRight
    <3>2. r \in Resources /\ KeyOf(t) = Key[r]
      BY <3>1, RequestAssumption DEF Working, Asking, Request, KeyOf
    <3>3. \E q \in Resources : Key[q] = Key[r] /\ Watched(policies, q)
      BY <3>1, <3>2, <2>2 DEF Traced
    <3> QED
      BY <3>2, <3>3, <2>2, <1>1 DEF Inv, CachesTyped, AuditsRight, Evaluators, Keys
  <2> QED
    BY <2>1, <2>2 DEF Answer
<1> QED
  BY <1>1, <1>2, <1>3 DEF Inv, CachesRight, Evaluators

LEMMA EvictInv == ASSUME Inv, Evict PROVE Inv'
<1>1. UNCHANGED <<policies, thread>>
  BY DEF Evict
<1>2. ThreadsRight'
  BY <1>1 DEF Inv, ThreadsRight
<1>3. audits' \subseteq audits
  BY DEF Evict
<1>4. ASSUME NEW c, NEW d, c \in [Evaluators -> SUBSET Keys], NEW n \in Evaluators, NEW k,
             d = [c EXCEPT ![n] = @ \ {k}]
      PROVE  d \in [Evaluators -> SUBSET Keys] /\ \A e \in Evaluators : d[e] \subseteq c[e]
  BY <1>4
<1>5. /\ matched' \in [Evaluators -> SUBSET Keys] /\ \A e \in Evaluators : matched'[e] \subseteq matched[e]
      /\ notMatched' \in [Evaluators -> SUBSET Keys] /\ \A e \in Evaluators : notMatched'[e] \subseteq notMatched[e]
  BY <1>4 DEF Evict, Inv, CachesTyped
<1> QED
  BY <1>1, <1>2, <1>3, <1>5 DEF Inv, CachesTyped, CachesRight, AuditsRight, Evaluators

THEOREM StepInv == Inv /\ [Next]_vars => Inv'
<1> SUFFICES ASSUME Inv, [Next]_vars PROVE Inv'
  OBVIOUS
<1>1. ASSUME NEW t \in Threads, NEW req \in Requests, Ask(t, req) PROVE Inv'
  BY <1>1, AskInv
<1>2. ASSUME NEW t \in Threads, Lookup(t) PROVE Inv'
  BY <1>2, LookupInv
<1>3. ASSUME NEW t \in Threads, Evaluate(t) PROVE Inv'
  BY <1>3, EvaluateInv
<1>4. ASSUME NEW t \in Threads, Answer(t) PROVE Inv'
  BY <1>4, AnswerInv
<1>5. CASE Evict
  BY <1>5, EvictInv
<1>6. CASE UNCHANGED vars
  BY <1>6 DEF vars, Inv, CachesTyped, CachesRight, AuditsRight, ThreadsRight, Evaluators
<1> QED
  BY <1>1, <1>2, <1>3, <1>4, <1>5, <1>6 DEF Next

THEOREM SpecInv == Spec => []Inv
BY InitInv, StepInv, PTL DEF Spec

-----------------------------------------------------------------------------
(* What an answered thread knows of all policies, unless another resource  *)
(* has the key of the one it asked about.                                  *)
LEMMA AnsweredIsSound ==
    ASSUME Inv, NEW t \in Threads, Answered(t), Alone(thread[t].request.resource)
    PROVE  /\ Sound(policies, thread[t])
           /\ thread[t].request \in Request
           /\ thread[t].at \in Nat /\ thread[t].by \in Nat /\ thread[t].by < thread[t].at
           /\ thread[t].at <= Len(policies) + 1
           /\ thread[t].at > Len(policies) \/ (thread[t].by # 0 /\ thread[t].audited)
BY RequestAssumption DEF Inv, ThreadsRight, Answered, Over, Working, Asking

LEMMA InvDecides == Inv => DecidesAsDefined
<1> SUFFICES ASSUME Inv, NEW t \in Threads, Answered(t), Alone(thread[t].request.resource)
             PROVE  thread[t].by # 0 <=> Allowed(thread[t].request)
  BY DEF DecidesAsDefined
<1> DEFINE th  == thread[t]
           req == th.request
<1>1. /\ Sound(policies, th) /\ req \in Request
      /\ th.at \in Nat /\ th.by \in Nat /\ th.by < th.at /\ th.at <= Len(policies) + 1
      /\ th.at > Len(policies) \/ (th.by # 0 /\ th.audited)
  BY AnsweredIsSound
<1>2. policies \in PolicyLists
  BY DEF Inv, CachesTyped
<1>3. /\ Len(policies) \in Nat /\ DOMAIN policies = 1 .. Len(policies)
      /\ \A n \in Evaluators : policies[n] \in Policy
  BY <1>2, PoliciesTyped DEF Evaluators
<1>4. \A n \in Evaluators : Allows(policies[n], req) <=> \E i \in ToSet(policies[n].items) : Gives(policies[n], i, req)
  BY <1>1, <1>3, AllowsWhatItemsGive
<1>5. ASSUME th.by # 0
      PROVE  Allowed(req)
  <2>1. th.by \in Evaluators
    BY <1>1, <1>3, <1>5 DEF Evaluators
  <2>2. Covers(policies[th.by], req) /\ Allows(policies[th.by], req)
    BY <1>1, <1>5 DEF Sound
  <2> QED
    BY <2>1, <2>2, <1>4 DEF Allowed
<1>6. ASSUME th.by = 0
      PROVE  ~Allowed(req)
  <2>1. \A n \in Evaluators : n < th.at
    BY <1>1, <1>3, <1>6 DEF Evaluators
  <2>2. \A n \in Evaluators : ~(Covers(policies[n], req) /\ Allows(policies[n], req))
    BY <2>1, <1>1, <1>6 DEF Sound, Evaluators
  <2> QED
    BY <2>2, <1>4 DEF Allowed
<1> QED
  BY <1>5, <1>6

LEMMA InvNoAuditLost == Inv => NoAuditLost
<1> SUFFICES ASSUME Inv, NEW t \in Threads, Answered(t), Alone(thread[t].request.resource),
                    ~thread[t].audited
             PROVE  ~Audited(thread[t].request)
  BY DEF NoAuditLost
<1> DEFINE th == thread[t]
<1>1. /\ Sound(policies, th) /\ th.at \in Nat
      /\ th.at > Len(policies) \/ (th.by # 0 /\ th.audited)
  BY AnsweredIsSound
<1>2. policies \in PolicyLists
  BY DEF Inv, CachesTyped
<1>3. Len(policies) \in Nat /\ Evaluators = 1 .. Len(policies)
  BY <1>2, PoliciesTyped DEF Evaluators
<1>4. \A n \in Evaluators : n < th.at
  BY <1>1, <1>3
<1> QED
  BY <1>1, <1>4 DEF Sound, Evaluators, Audited

LEMMA InvAuditsOnlyCovered == Inv => AuditsOnlyCovered
<1> SUFFICES ASSUME Inv, NEW t \in Threads, Answered(t), Alone(thread[t].request.resource),
                    thread[t].audited
             PROVE  Watched(policies, thread[t].request.resource)
  BY DEF AuditsOnlyCovered, Watched, Evaluators
<1>1. Sound(policies, thread[t])
  BY AnsweredIsSound
<1> QED
  BY <1>1 DEF Sound

-----------------------------------------------------------------------------
(* Every variable keeps its type, for any engine and any requests.         *)
THEOREM TypeCorrect == Spec => []TypeOK
<1>1. Inv => TypeOK
  BY DEF Inv, TypeOK, CachesTyped, ThreadsRight, Working
<1> QED
  BY <1>1, SpecInv, PTL

(* Each answer is the one the policies define, with any number of threads, *)
(* policies in any order, and caches of any size.                          *)
THEOREM DecisionIsDefined == Spec => []DecidesAsDefined
BY InvDecides, SpecInv, PTL

(* An audit that a policy wants is never lost to the cache of audit        *)
(* results or to the end of the loop.                                      *)
THEOREM AuditsAreKept == Spec => []NoAuditLost
BY InvNoAuditLost, SpecInv, PTL

(* No resource is audited that no policy with auditing covers.             *)
THEOREM AuditsAreWanted == Spec => []AuditsOnlyCovered
BY InvAuditsOnlyCovered, SpecInv, PTL

=============================================================================
