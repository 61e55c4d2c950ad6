-------------------------- MODULE PolicyStoreProofs --------------------------
(***************************************************************************)
(* The store's handlers implement PublishedPolicies, for every number of   *)
(* handler threads, names and policy writes.                               *)
(***************************************************************************)
EXTENDS PolicyStore, TLAPS

(* Every version is the version before it plus one, so none is greater     *)
(* than the number of policy writes; ids and stamps are not given twice.   *)
VersionsSoFar == (0..rev) \cup {NullVersion}

StoreInv ==
    /\ service.id = NoService => policies = {} /\ service.version = NullVersion
    /\ service.id # NoService => service.version \in published
    /\ published \subseteq VersionsSoFar
    /\ \A p \in policies : p.id <= rev /\ p.rev <= rev
    /\ \A p, q \in policies : p.id = q.id => p = q

(* A transaction has read a version that was published, only the creation  *)
(* of a service runs without a service row, and a policy gets a name.      *)
TxnInv ==
    \A a \in Admins :
       /\ txn[a].read \in published \cup {NullVersion}
       /\ txn[a].view \in published \cup {NullVersion}
       /\ txn[a].op \notin {Idle, "createService"} => txn[a].sid # NoService
       /\ txn[a].op = "createService" => txn[a].sid = NoService
       /\ txn[a].op \in {"createPolicy", "updatePolicy"} => txn[a].name \in AnyName

IInv == TypeOK /\ StoreInv /\ TxnInv

-----------------------------------------------------------------------------
(* What a handler reads is well-formed.                                    *)
LEMMA NoTxnType == NoTxn \in Txn
BY DEF NoTxn, Txn, Ops, Idle, Versions, NoService, NullVersion

LEMMA NextVersionType == \A v \in Versions : NextVersion(v) \in Nat \ {0}
BY DEF NextVersion, Versions, NullVersion

(* The fields of a transaction that a handler fills in.                    *)
LEMMA TxnFields ==
    ASSUME NEW t \in Txn
    PROVE  /\ \A n \in AnyName : [t EXCEPT !.name = n] \in Txn
           /\ \A m \in AnyName, n \in AnyName, i \in Nat :
                 [t EXCEPT !.pid = i, !.was = m, !.name = n] \in Txn
           /\ \A i \in Nat : [t EXCEPT !.pid = i] \in Txn
           /\ \A v \in Versions : [t EXCEPT !.view = v] \in Txn
           /\ \A s \in SUBSET Nat : [t EXCEPT !.seen = s] \in Txn
BY DEF Txn

(* Beginning or giving up a transaction writes nothing.                    *)
LEMMA BeginStep ==
    ASSUME IInv, NEW a \in Admins, BeginHandler(a) \/ Rollback(a)
    PROVE  /\ txn' \in [Admins -> Txn] /\ TxnInv'
           /\ UNCHANGED <<service, policies, rev, published, reused>>
<1> USE DEF IInv, TypeOK
<1>1. UNCHANGED <<service, policies, rev, published, reused>>
      BY DEF BeginHandler, CreatePolicyBegin, UpdatePolicyBegin, DeletePolicyBegin,
             CreateServiceBegin, UpdateServiceBegin, DeleteServiceBegin, Begin, Rollback
<1> DEFINE Good(t) == /\ t \in Txn
                      /\ t.read \in published \cup {NullVersion}
                      /\ t.view \in published \cup {NullVersion}
                      /\ t.op \notin {Idle, "createService"} => t.sid # NoService
                      /\ t.op = "createService" => t.sid = NoService
<1>2. \A op \in Ops \ {Idle, "createService"} :
         service.id # NoService =>
            /\ Good(PolicyTxn(op))
            /\ PolicyTxn(op).op = op /\ PolicyTxn(op).sid = service.id
      BY NoTxnType DEF PolicyTxn, NoTxn, Txn, StoreInv, Versions, NullVersion
<1> DEFINE NamedIf(t) == t.op \in {"createPolicy", "updatePolicy"} => t.name \in AnyName
<1>3. \E t : Good(t) /\ NamedIf(t) /\ txn' = [txn EXCEPT ![a] = t]
  <2>1. CASE \E n \in Names : CreatePolicyBegin(a, n)
    <3>1. PICK n \in Names : CreatePolicyBegin(a, n)
          BY <2>1
    <3>2. LET t == [PolicyTxn("createPolicy") EXCEPT !.name = n] IN Good(t) /\ NamedIf(t)
      <4>1. Good(PolicyTxn("createPolicy")) /\ n \in AnyName
            BY <1>2, <3>1 DEF CreatePolicyBegin, Ops, Idle, AnyName
      <4> QED BY <4>1, TxnFields DEF Txn
    <3> QED BY <3>1, <3>2 DEF CreatePolicyBegin, Begin
  <2>2. CASE \E p \in policies, n \in AnyName : UpdatePolicyBegin(a, p, n)
    <3>1. PICK p \in policies, n \in AnyName : UpdatePolicyBegin(a, p, n)
          BY <2>2
    <3>2. LET t == [PolicyTxn("updatePolicy") EXCEPT !.pid = p.id, !.was = p.name, !.name = n]
          IN  Good(t) /\ NamedIf(t)
      <4>1. Good(PolicyTxn("updatePolicy")) /\ p.id \in Nat /\ p.name \in AnyName
            BY <1>2, <3>1 DEF UpdatePolicyBegin, Ops, Idle, Policy
      <4> QED BY <3>1, <4>1, TxnFields DEF Txn
    <3> QED BY <3>1, <3>2 DEF UpdatePolicyBegin, Begin
  <2>3. CASE \E p \in policies : DeletePolicyBegin(a, p)
    <3>1. PICK p \in policies : DeletePolicyBegin(a, p)
          BY <2>3
    <3>2. LET t == [PolicyTxn("deletePolicy") EXCEPT !.pid = p.id] IN Good(t) /\ NamedIf(t)
      <4>1. Good(PolicyTxn("deletePolicy")) /\ PolicyTxn("deletePolicy").op = "deletePolicy"
            /\ p.id \in Nat
            BY <1>2, <3>1 DEF DeletePolicyBegin, Ops, Idle, Policy
      <4> QED BY <4>1, TxnFields DEF Txn
    <3> QED BY <3>1, <3>2 DEF DeletePolicyBegin, Begin
  <2>4. CASE \E v \in published \cup {NullVersion} : CreateServiceBegin(a, v)
    <3>1. PICK v \in published \cup {NullVersion} : CreateServiceBegin(a, v)
          BY <2>4
    <3>2. v \in Versions
          BY DEF Versions
    <3>3. LET t == [NoTxn EXCEPT !.op = "createService", !.view = v] IN Good(t) /\ NamedIf(t)
          BY <3>2, NoTxnType DEF NoTxn, Txn, Ops
    <3> QED BY <3>1, <3>3 DEF CreateServiceBegin, Begin
  <2>5. CASE \E v \in published \cup {NullVersion} : UpdateServiceBegin(a, v)
    <3>1. PICK v \in published \cup {NullVersion} : UpdateServiceBegin(a, v)
          BY <2>5
    <3>2. LET t == [PolicyTxn("updateService") EXCEPT !.view = v] IN Good(t) /\ NamedIf(t)
      <4>1. Good(PolicyTxn("updateService")) /\ v \in Versions
            BY <1>2, <3>1 DEF UpdateServiceBegin, Ops, Idle, Versions
      <4>2. PolicyTxn("updateService").op = "updateService"
            BY <1>2, <3>1 DEF UpdateServiceBegin, Ops, Idle
      <4> QED BY <3>1, <4>1, <4>2, TxnFields DEF Txn, Idle
    <3> QED BY <3>1, <3>2 DEF UpdateServiceBegin, Begin
  <2>6. CASE DeleteServiceBegin(a)
    <3>1. {p.id : p \in policies} \in SUBSET Nat
          BY DEF Policy
    <3>2. LET t == [PolicyTxn("deleteService") EXCEPT !.seen = {p.id : p \in policies}]
          IN  Good(t) /\ NamedIf(t)
      <4>1. Good(PolicyTxn("deleteService")) /\ PolicyTxn("deleteService").op = "deleteService"
            BY <1>2, <2>6 DEF DeleteServiceBegin, Ops, Idle
      <4> QED BY <3>1, <4>1, TxnFields DEF Txn
    <3> QED BY <2>6, <3>2 DEF DeleteServiceBegin, Begin
  <2>7. CASE Rollback(a)
    <3>1. Good(NoTxn) /\ NamedIf(NoTxn)
          BY NoTxnType DEF NoTxn, Idle
    <3> QED BY <2>7, <3>1 DEF Rollback
  <2> QED BY <2>1, <2>2, <2>3, <2>4, <2>5, <2>6, <2>7 DEF BeginHandler
<1>4. PICK t : Good(t) /\ NamedIf(t) /\ txn' = [txn EXCEPT ![a] = t]
      BY <1>3
<1>5. txn' \in [Admins -> Txn]
      BY <1>4
<1>6. TxnInv'
      BY <1>1, <1>4 DEF TxnInv
<1> QED BY <1>1, <1>5, <1>6

-----------------------------------------------------------------------------
(* The mapped variables of PublishedPolicies.                              *)
Shown(S) == {[id |-> p.id, rev |-> p.rev] : p \in S}

LEMMA ShownWith ==
    ASSUME NEW S, NEW x
    PROVE  Shown(S \cup {x}) = Shown(S) \cup {[id |-> x.id, rev |-> x.rev]}
BY Zenon DEF Shown

(* Ids are unique, so a policy that is taken out is seen no more.          *)
LEMMA ShownWithout ==
    ASSUME IInv, NEW p \in policies
    PROVE  Shown(policies \ {p}) = Shown(policies) \ {[id |-> p.id, rev |-> p.rev]}
<1>1. \A q \in policies : [id |-> q.id, rev |-> q.rev] = [id |-> p.id, rev |-> p.rev] <=> q = p
  <2> SUFFICES ASSUME NEW q \in policies, [id |-> q.id, rev |-> q.rev] = [id |-> p.id, rev |-> p.rev]
               PROVE  q = p
      OBVIOUS
  <2>1. [id |-> q.id, rev |-> q.rev].id = [id |-> p.id, rev |-> p.rev].id
        BY Zenon
  <2>2. q.id = p.id
        BY <2>1
  <2> QED BY <2>2 DEF IInv, StoreInv
<1> QED BY <1>1, Zenon DEF Shown

(* The abstract edits, in these terms.                                     *)
LEMMA EditsShown ==
    /\ Shown(policies) \in Published!Edits
    /\ Shown(policies) \cup {[id |-> rev + 1, rev |-> rev + 1]} \in Published!Edits
    /\ \A q \in Shown(policies) :
         /\ Shown(policies) \ {q} \in Published!Edits
         /\ (Shown(policies) \ {q}) \cup {[id |-> q.id, rev |-> rev + 1]} \in Published!Edits
<1> DEFINE M == Shown(policies)
<1>1. Published!Edits = {M, M \cup {[id |-> rev + 1, rev |-> rev + 1]}}
           \cup {M \ {q} : q \in M}
           \cup {(M \ {q}) \cup {[id |-> q.id, rev |-> rev + 1]} : q \in M}
      BY Zenon DEF Published!Edits, Shown
<1> HIDE DEF M
<1>2. /\ M \in Published!Edits
      /\ M \cup {[id |-> rev + 1, rev |-> rev + 1]} \in Published!Edits
      /\ \A q \in M : /\ M \ {q} \in Published!Edits
                      /\ (M \ {q}) \cup {[id |-> q.id, rev |-> rev + 1]} \in Published!Edits
      BY <1>1, Zenon
<1> QED BY <1>2 DEF M

(* Stores that show the same policies hold the same ids and stamps, so a   *)
(* change of what is stored is a change of what is shown.                  *)
LEMMA ShownOfNew ==
    ASSUME IInv, NEW S \in SUBSET Policy, NEW x \in S, x.rev = rev + 1
    PROVE  policies # S /\ Shown(policies) # Shown(S)
<1>1. [id |-> x.id, rev |-> x.rev] \in Shown(S)
      BY DEF Shown
<1>2. \A y \in Shown(policies) : y.rev <= rev /\ rev \in Nat
      BY MaxRevAssumption DEF IInv, StoreInv, TypeOK, Shown
<1> QED BY <1>1, <1>2 DEF IInv, TypeOK

(* Any version that a policy write gives the row is in the range of the    *)
(* abstract store.                                                         *)
LEMMA VersionRange ==
    ASSUME IInv, rev < MaxRev, NEW v \in published \cup {NullVersion}
    PROVE  NextVersion(v) \in 1..MaxRev /\ NextVersion(v) \in 0..(rev + 1)
BY MaxRevAssumption DEF IInv, TypeOK, StoreInv, VersionsSoFar, NextVersion, NullVersion

(* A write with a new stamp is an abstract change of policies.             *)
LEMMA WriteStep ==
    ASSUME IInv, NEW a \in Admins, txn[a].sid # NoService, txn[a].sid = service.id,
           NEW S \in SUBSET Policy, Shown(S) \in Published!Edits,
           Shown(S) = Shown(policies) <=> S = policies,
           WritePolicies(a, S)
    PROVE  Published!StoreNext
<1> DEFINE v == NextVersion(txn[a].read)
<1>1. v \in 1..MaxRev
      BY VersionRange DEF IInv, TxnInv, WritePolicies
<1>2. policies' = S /\ rev' = rev + 1 /\ rev < MaxRev /\ service' = [service EXCEPT !.version = v]
      BY DEF WritePolicies, Publish
<1>3. Published!Publish(v, Shown(S))
      BY <1>2 DEF WritePolicies, Publish, Published!Publish, Shown, NullVersion,
                  Published!NullVersion
<1>4. Published!ChangePolicies(v)
      BY <1>2, <1>3 DEF Published!ChangePolicies, Published!Stamp, NoService, Published!NoService
<1> QED BY <1>1, <1>4 DEF Published!StoreNext

LEMMA AbstractSteps ==
    /\ \A v \in 1..MaxRev :
          Published!ChangePolicies(v) \/ Published!AddService(v) => Published!StoreNext
    /\ \A v \in published \cup {NullVersion} : Published!RelabelService(v) => Published!StoreNext
BY DEF Published!StoreNext, NullVersion, Published!NullVersion

(* Each commit of a handler is a step of the abstract store, as seen       *)
(* through the refinement mapping.                                         *)
LEMMA CommitRefines ==
    ASSUME IInv, NEW a \in Admins, CommitHandler(a)
    PROVE  Published!StoreNext
<1> USE DEF IInv, TypeOK
<1>1. rev \in Nat /\ MaxRev \in Nat
      BY MaxRevAssumption
<1>2. CASE CreatePolicyCommit(a)
  <2> DEFINE new == [id |-> rev + 1, name |-> txn[a].name, rev |-> rev + 1]
             S   == policies \cup {new}
  <2>1. new \in Policy /\ txn[a].sid = service.id /\ txn[a].sid # NoService
        BY <1>1, <1>2 DEF CreatePolicyCommit, Live, TxnInv, Idle, Policy
  <2>2. Shown(S) = Shown(policies) \cup {[id |-> rev + 1, rev |-> rev + 1]}
        BY ShownWith
  <2>3. Shown(S) \in Published!Edits
        BY <2>2, EditsShown
  <2>4. S # policies /\ Shown(S) # Shown(policies)
        BY <2>1, ShownOfNew
  <2> QED BY <1>2, <2>1, <2>3, <2>4, WriteStep DEF CreatePolicyCommit
<1>3. CASE UpdatePolicyCommit(a)
  <2>1. PICK p \in policies, n \in AnyName :
            WritePolicies(a, (policies \ {p}) \cup {[id |-> p.id, name |-> n, rev |-> rev + 1]})
        BY <1>3 DEF UpdatePolicyCommit, Policy, TxnInv, Live
  <2> DEFINE new == [id |-> p.id, name |-> n, rev |-> rev + 1]
             S   == (policies \ {p}) \cup {new}
  <2>2. new \in Policy /\ txn[a].sid = service.id /\ txn[a].sid # NoService
        BY <1>1, <1>3 DEF UpdatePolicyCommit, Live, TxnInv, Idle, Policy
  <2>3. Shown(S) = (Shown(policies) \ {[id |-> p.id, rev |-> p.rev]})
                     \cup {[id |-> p.id, rev |-> rev + 1]}
    <3>1. Shown(S) = Shown(policies \ {p}) \cup {[id |-> new.id, rev |-> new.rev]}
          BY ShownWith
    <3> QED BY <3>1, ShownWithout
  <2>4. Shown(S) \in Published!Edits
    <3>1. [id |-> p.id, rev |-> p.rev] \in Shown(policies)
          BY DEF Shown
    <3> QED BY <2>3, <3>1, EditsShown
  <2>5. S # policies /\ Shown(S) # Shown(policies)
        BY <2>2, ShownOfNew
  <2> QED BY <2>1, <2>2, <2>4, <2>5, WriteStep
<1>4. CASE DeletePolicyCommit(a)
  <2> DEFINE S == {p \in policies : p.id # txn[a].pid}
  <2>1. txn[a].sid = service.id /\ txn[a].sid # NoService /\ WritePolicies(a, S)
        BY <1>4 DEF DeletePolicyCommit, Live, TxnInv, Idle
  <2>2. CASE S = policies
        BY <2>1, <2>2, WriteStep, EditsShown
  <2>3. CASE S # policies
    <3>1. PICK p \in policies : p.id = txn[a].pid
          BY <2>3
    <3>2. S = policies \ {p}
          BY <3>1 DEF StoreInv
    <3>3. Shown(S) = Shown(policies) \ {[id |-> p.id, rev |-> p.rev]}
          BY <3>2, ShownWithout
    <3>4. [id |-> p.id, rev |-> p.rev] \in Shown(policies)
          BY DEF Shown
    <3>5. Shown(S) \in Published!Edits /\ Shown(S) # Shown(policies)
          BY <3>3, <3>4, EditsShown
    <3> QED BY <2>1, <2>3, <3>5, WriteStep
  <2> QED BY <2>2, <2>3
<1>5. CASE CreateServiceCommit(a)
  <2>1. PICK v \in 1..MaxRev : v = NextVersion(txn[a].view)
        BY <1>5, VersionRange DEF CreateServiceCommit, TxnInv
  <2>2. service.id = NoService
        BY <1>5 DEF CreateServiceCommit, Live, TxnInv
  <2>3. policies = {}
        BY <2>2 DEF StoreInv
  <2> DEFINE T == {[id |-> rev + 1, name |-> DefaultName, rev |-> rev + 1]}
  <2>4. /\ Shown(policies) = {} /\ Shown(T) = {[id |-> rev + 1, rev |-> rev + 1]}
        /\ policies # T
    <3>1. Shown({} \cup T) = Shown({}) \cup {[id |-> rev + 1, rev |-> rev + 1]}
          BY ShownWith
    <3> QED BY <2>3, <3>1 DEF Shown
  <2>5. Published!Publish(v, {[id |-> rev + 1, rev |-> rev + 1]})
        BY <1>5, <2>1, <2>4 DEF CreateServiceCommit, Publish, Published!Publish, Shown, NullVersion,
           Published!NullVersion
  <2>6. rev < MaxRev /\ rev' = rev + 1 /\ service' = [id |-> rev + 1, version |-> v]
        BY <1>5, <2>1 DEF CreateServiceCommit
  <2>7. Published!AddService(v)
        BY <2>2, <2>5, <2>6 DEF Published!AddService, Published!Stamp, NoService,
           Published!NoService
  <2> QED BY <2>1, <2>7, AbstractSteps
<1>6. CASE UpdateServiceCommit(a)
  <2>1. service.id # NoService
        BY <1>6 DEF UpdateServiceCommit, Live, TxnInv, Idle
  <2>2. PICK v \in published \cup {NullVersion} :
            v = IF txn[a].view = txn[a].read THEN service.version ELSE txn[a].view
        BY <2>1 DEF StoreInv, TxnInv
  <2>3. Published!RelabelService(v)
        BY <1>6, <2>1, <2>2 DEF UpdateServiceCommit, Published!RelabelService, Publish,
           Published!Publish, NoService, Published!NoService, NullVersion, Published!NullVersion
  <2> QED BY <2>2, <2>3, AbstractSteps
<1>7. CASE DeleteServiceCommit(a)
  <2>1. service.id # NoService
        BY <1>7 DEF DeleteServiceCommit, Live, TxnInv, Idle
  <2> QED BY <1>7, <2>1 DEF DeleteServiceCommit, Published!StoreNext, Published!RemoveService,
           NoService, Published!NoService, NullVersion, Published!NullVersion
<1> QED BY <1>2, <1>3, <1>4, <1>5, <1>6, <1>7 DEF CommitHandler

-----------------------------------------------------------------------------
(* The invariant is inductive.                                             *)

LEMMA InitInv == Init => IInv
<1> SUFFICES ASSUME Init
             PROVE  IInv
    OBVIOUS
<1>1. service \in [id : Nat, version : Versions]
      BY DEF Init, Versions, NoService
<1>2. rev \in 0..MaxRev
      BY MaxRevAssumption DEF Init
<1>3. txn \in [Admins -> Txn]
      BY NoTxnType DEF Init
<1>4. TypeOK
      BY <1>1, <1>2, <1>3 DEF Init, TypeOK
<1>5. StoreInv
      BY DEF Init, StoreInv
<1>6. TxnInv
      BY DEF Init, TxnInv, NoTxn, Idle
<1> QED BY <1>4, <1>5, <1>6 DEF IInv

(* The transaction that commits is over; the others have still read what   *)
(* was published.                                                          *)
LEMMA CommitTxn ==
    ASSUME IInv, NEW a \in Admins, txn' = [txn EXCEPT ![a] = NoTxn], published \subseteq published'
    PROVE  txn' \in [Admins -> Txn] /\ TxnInv'
<1>1. txn' \in [Admins -> Txn]
      BY NoTxnType DEF IInv, TypeOK
<1>2. TxnInv'
      BY DEF IInv, TypeOK, TxnInv, NoTxn, Idle
<1> QED BY <1>1, <1>2

(* A policy write keeps the rows and the history well-formed.              *)
LEMMA WriteInv ==
    ASSUME IInv, NEW a \in Admins, txn[a].sid # NoService, txn[a].sid = service.id,
           NEW S \in SUBSET Policy, WritePolicies(a, S),
           \A p \in S : p.id <= rev + 1 /\ p.rev <= rev + 1,
           \A p, q \in S : p.id = q.id => p = q
    PROVE  IInv'
<1> DEFINE v == NextVersion(txn[a].read)
<1>1. /\ policies' = S /\ rev' = rev + 1 /\ rev < MaxRev /\ service' = [service EXCEPT !.version = v]
      /\ published' = published \cup {v} /\ txn' = [txn EXCEPT ![a] = NoTxn]
      /\ reused' \in BOOLEAN
      BY DEF WritePolicies, Publish, IInv, TypeOK
<1>2. v \in 0..(rev + 1)
      BY <1>1, VersionRange DEF IInv, TxnInv
<1>3. v \in Nat /\ rev \in Nat /\ MaxRev \in Nat
      BY <1>2, MaxRevAssumption DEF IInv, TypeOK
<1> HIDE DEF v
<1>4. service' \in [id : Nat, version : Versions] /\ service'.version = v /\ service'.id = service.id
      BY <1>1, <1>3 DEF IInv, TypeOK, Versions
<1>5. TypeOK'
  <2>1. rev' \in 0..MaxRev
        BY <1>1, <1>3
  <2>2. published' \in SUBSET Versions
        BY <1>1, <1>3 DEF IInv, TypeOK, Versions
  <2> QED BY <1>1, <1>4, <2>1, <2>2, CommitTxn DEF TypeOK
<1>6. published' \subseteq VersionsSoFar'
      BY <1>1, <1>2, <1>3 DEF IInv, StoreInv, VersionsSoFar
<1>7. service'.id # NoService /\ service'.version \in published'
      BY <1>1, <1>4
<1>8. StoreInv'
      BY <1>1, <1>6, <1>7 DEF StoreInv
<1> QED BY <1>1, <1>5, <1>8, CommitTxn DEF IInv

LEMMA CommitInv ==
    ASSUME IInv, NEW a \in Admins, CommitHandler(a)
    PROVE  IInv'
<1>1. rev \in Nat /\ \A p \in policies : p.id \in Nat /\ p.rev \in Nat
      BY MaxRevAssumption DEF IInv, TypeOK, Policy
<1>2. CASE CreatePolicyCommit(a)
  <2> DEFINE new == [id |-> rev + 1, name |-> txn[a].name, rev |-> rev + 1]
  <2>1. new \in Policy /\ txn[a].sid = service.id /\ txn[a].sid # NoService
        BY <1>1, <1>2 DEF CreatePolicyCommit, Live, IInv, TxnInv, Idle, Policy
  <2>2. \A p \in policies \cup {new} : p.id <= rev + 1 /\ p.rev <= rev + 1
        BY <1>1 DEF IInv, StoreInv
  <2>3. \A p, q \in policies \cup {new} : p.id = q.id => p = q
        BY <1>1 DEF IInv, StoreInv
  <2>4. WritePolicies(a, policies \cup {new})
        BY <1>2 DEF CreatePolicyCommit
  <2> HIDE DEF new
  <2>5. policies \cup {new} \in SUBSET Policy
        BY <2>1 DEF IInv, TypeOK
  <2> QED BY <2>1, <2>2, <2>3, <2>4, <2>5, WriteInv
<1>3. CASE UpdatePolicyCommit(a)
  <2>1. PICK p \in policies, n \in AnyName :
            WritePolicies(a, (policies \ {p}) \cup {[id |-> p.id, name |-> n, rev |-> rev + 1]})
        BY <1>3 DEF UpdatePolicyCommit, IInv, TypeOK, Policy, TxnInv, Live
  <2> DEFINE new == [id |-> p.id, name |-> n, rev |-> rev + 1]
  <2>2. new \in Policy /\ txn[a].sid = service.id /\ txn[a].sid # NoService
        BY <1>1, <1>3 DEF UpdatePolicyCommit, Live, IInv, TxnInv, Idle, Policy
  <2>3. \A x \in (policies \ {p}) \cup {new} : x.id <= rev + 1 /\ x.rev <= rev + 1
        BY <1>1 DEF IInv, StoreInv
  <2>4. \A x, y \in (policies \ {p}) \cup {new} : x.id = y.id => x = y
        BY <1>1 DEF IInv, StoreInv
  <2> HIDE DEF new
  <2>5. (policies \ {p}) \cup {new} \in SUBSET Policy
        BY <2>2 DEF IInv, TypeOK
  <2> QED BY <2>1, <2>2, <2>3, <2>4, <2>5, WriteInv DEF new
<1>4. CASE DeletePolicyCommit(a)
  <2> DEFINE S == {p \in policies : p.id # txn[a].pid}
  <2>1. txn[a].sid = service.id /\ txn[a].sid # NoService /\ WritePolicies(a, S)
        BY <1>4 DEF DeletePolicyCommit, Live, IInv, TxnInv, Idle
  <2>2. S \in SUBSET Policy
        BY DEF IInv, TypeOK
  <2>3. \A p \in S : p.id <= rev + 1 /\ p.rev <= rev + 1
        BY <1>1 DEF IInv, StoreInv
  <2>4. \A p, q \in S : p.id = q.id => p = q
        BY DEF IInv, StoreInv
  <2> QED BY <2>1, <2>2, <2>3, <2>4, WriteInv
<1>5. CASE CreateServiceCommit(a)
  <2>1. PICK v \in 0..(rev + 1) : v = NextVersion(txn[a].view)
        BY <1>5, VersionRange DEF CreateServiceCommit, IInv, TxnInv
  <2>2. /\ rev < MaxRev /\ rev' = rev + 1 /\ service' = [id |-> rev + 1, version |-> v]
        /\ policies' = {[id |-> rev + 1, name |-> DefaultName, rev |-> rev + 1]}
        /\ published' = published \cup {v} /\ reused' \in BOOLEAN
        /\ txn' = [txn EXCEPT ![a] = NoTxn]
        BY <1>5, <2>1 DEF CreateServiceCommit, Publish, IInv, TypeOK
  <2>3. TypeOK'
    <3>1. rev' \in 0..MaxRev
          BY <1>1, <2>2, MaxRevAssumption
    <3>2. service' \in [id : Nat, version : Versions] /\ policies' \in SUBSET Policy
          BY <1>1, <2>1, <2>2 DEF Versions, Policy, AnyName
    <3>3. published' \in SUBSET Versions
      <4>1. v \in Versions
            BY <1>1, <2>1 DEF Versions
      <4> QED BY <2>2, <4>1 DEF IInv, TypeOK
    <3> QED BY <2>2, <3>1, <3>2, <3>3, CommitTxn DEF TypeOK
  <2>4. StoreInv'
    <3>1. \A w \in published \cup {v} : w \in (0..(rev + 1)) \cup {NullVersion}
          BY <1>1, <2>1 DEF IInv, StoreInv, VersionsSoFar
    <3>2. published' \subseteq VersionsSoFar'
          BY <2>2, <3>1 DEF VersionsSoFar
    <3> QED BY <1>1, <2>1, <2>2, <3>2 DEF StoreInv, NoService
  <2> QED BY <2>2, <2>3, <2>4, CommitTxn DEF IInv
<1>6. CASE UpdateServiceCommit(a)
  <2>1. service.id # NoService
        BY <1>6 DEF UpdateServiceCommit, Live, IInv, TxnInv, Idle
  <2>2. PICK v \in published \cup {NullVersion} : v = service'.version
        BY <1>6, <2>1 DEF UpdateServiceCommit, IInv, TypeOK, StoreInv, TxnInv
  <2>3. /\ service' \in [id : Nat, version : Versions] /\ service'.id # NoService
        /\ policies' = policies /\ rev' = rev /\ reused' \in BOOLEAN
        /\ published' = published \cup {v} /\ txn' = [txn EXCEPT ![a] = NoTxn]
        BY <1>6, <2>1, <2>2 DEF UpdateServiceCommit, Publish, IInv, TypeOK, Versions
  <2>4. TypeOK'
        BY <2>3, CommitTxn DEF IInv, TypeOK, Versions
  <2>5. StoreInv'
        BY <2>2, <2>3 DEF IInv, StoreInv, VersionsSoFar
  <2> QED BY <2>3, <2>4, <2>5, CommitTxn DEF IInv
<1>7. CASE DeleteServiceCommit(a)
  <2>1. /\ service' = [id |-> NoService, version |-> NullVersion] /\ policies' = {}
        /\ txn' = [txn EXCEPT ![a] = NoTxn] /\ UNCHANGED <<rev, published, reused>>
        BY <1>7 DEF DeleteServiceCommit
  <2>2. TypeOK'
        BY <2>1, CommitTxn DEF IInv, TypeOK, Versions, NoService
  <2>3. StoreInv'
        BY <2>1 DEF IInv, StoreInv, VersionsSoFar
  <2> QED BY <2>1, <2>2, <2>3, CommitTxn DEF IInv
<1> QED BY <1>2, <1>3, <1>4, <1>5, <1>6, <1>7 DEF CommitHandler

LEMMA IInvStep == IInv /\ [Next]_vars => IInv'
<1> SUFFICES ASSUME IInv, [Next]_vars
             PROVE  IInv'
    OBVIOUS
<1>1. CASE UNCHANGED vars
      BY <1>1 DEF vars, IInv, TypeOK, StoreInv, VersionsSoFar, TxnInv
<1>2. ASSUME NEW a \in Admins, BeginHandler(a) \/ Rollback(a)
      PROVE  IInv'
  <2>1. txn' \in [Admins -> Txn] /\ TxnInv'
        BY <1>2, BeginStep
  <2>2. UNCHANGED <<service, policies, rev, published, reused>>
        BY <1>2, BeginStep
  <2> QED BY <2>1, <2>2 DEF IInv, TypeOK, StoreInv, VersionsSoFar
<1>3. ASSUME NEW a \in Admins, CommitHandler(a)
      PROVE  IInv'
      BY <1>3, CommitInv
<1> QED BY <1>1, <1>2, <1>3 DEF Next

(* Rows, transactions and history are well-formed in every state.          *)
THEOREM TypeCorrect == Spec => []TypeOK
<1>1. IInv => TypeOK
      BY DEF IInv
<1> QED BY <1>1, InitInv, IInvStep, PTL DEF Spec

(* Whatever the interleaving of its transactions, the store shows plugins  *)
(* what PublishedPolicies promises: policies change only together with a   *)
(* version, and the history says when a version was reused.                *)
THEOREM Refines == Spec => ImplementsPublishedPolicies
<1>1. Init => Published!StoreInit
      BY DEF Init, Published!StoreInit, NoService, Published!NoService, NullVersion,
             Published!NullVersion
<1>2. IInv /\ [Next]_vars => [Published!StoreNext]_(Published!storeVars)
  <2> SUFFICES ASSUME IInv, [Next]_vars
               PROVE  Published!StoreNext \/ UNCHANGED Published!storeVars
      BY DEF Published!storeVars
  <2>1. CASE UNCHANGED vars
        BY <2>1 DEF vars, Published!storeVars
  <2>2. ASSUME NEW a \in Admins, BeginHandler(a) \/ Rollback(a)
        PROVE  UNCHANGED Published!storeVars
        BY <2>2, BeginStep DEF Published!storeVars
  <2>3. ASSUME NEW a \in Admins, CommitHandler(a)
        PROVE  Published!StoreNext
        BY <2>3, CommitRefines
  <2> QED BY <2>1, <2>2, <2>3 DEF Next
<1> QED BY <1>1, <1>2, InitInv, IInvStep, PTL
        DEF Spec, ImplementsPublishedPolicies, Published!StoreSpec
=============================================================================
