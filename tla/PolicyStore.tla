----------------------------- MODULE PolicyStore -----------------------------
(***************************************************************************)
(* The policy store of the Ranger admin: ServiceDBStore behind the REST    *)
(* handlers of ServiceREST.  The policies of ONE service are kept in the   *)
(* database together with the service row, whose policyVersion tells the   *)
(* plugins whether they have to download again.                            *)
(*                                                                         *)
(* Every REST handler is one database transaction.  What a transaction     *)
(* reads, it reads once (the persistence context keeps the entity), and    *)
(* its writes become visible when it commits, so a handler is two steps:   *)
(* Begin (the checks and the reads) and Commit (the writes), with any step *)
(* of another handler between them.  No row is locked by a read and no     *)
(* entity has a version column the database checks.                        *)
(***************************************************************************)
EXTENDS Integers, FiniteSets

CONSTANTS Admins,  \* threads of the admin server that run REST handlers
          Names,   \* names a policy can have
          MaxRev   \* bound: number of committed policy writes

ASSUME MaxRevAssumption == MaxRev \in Nat \ {0}

NullVersion == -1    \* x_service.policy_version IS NULL
NoService   == 0     \* the id of a service that has no row

Idle == "idle"
Ops  == {Idle, "createPolicy", "updatePolicy", "deletePolicy",
         "createService", "updateService", "deleteService"}

VARIABLES
    service,    \* row of x_service: its id (NoService: no row) and policyVersion
    policies,   \* rows of x_policy of that service, each with a stamp of its content
    txn,        \* the transaction each thread is in, with what it has read
    rev,        \* stamp of the last committed policy write
    published,  \* history: every policyVersion a committed service row had
    reused      \* history: a policyVersion came to name other policies than before

vars == <<service, policies, txn, rev, published, reused>>

(* createDefaultPolicy makes up a name of the service and the time.        *)
DefaultName == "default"
AnyName     == Names \cup {DefaultName}

Policy   == [id : Nat, name : AnyName, rev : Nat]
Versions == Nat \cup {NullVersion}
NoTxn    == [op |-> Idle, sid |-> NoService, read |-> NullVersion,
             pid |-> 0, was |-> "", name |-> "", view |-> NullVersion, seen |-> {}]

Init ==
    /\ service = [id |-> NoService, version |-> NullVersion]
    /\ policies = {}
    /\ txn = [a \in Admins |-> NoTxn]
    /\ rev = 0
    /\ published = {}
    /\ reused = FALSE

-----------------------------------------------------------------------------
(* Reads and checks.                                                       *)

Named(n) == {p \in policies : p.name = n}

Begin(a, t) ==
    /\ txn[a].op = Idle
    /\ txn' = [txn EXCEPT ![a] = t]
    /\ UNCHANGED <<service, policies, rev, published, reused>>

(* A handler that changes policies of the service keeps the policyVersion  *)
(* it has read with the service.                                           *)
PolicyTxn(op) == [NoTxn EXCEPT !.op = op, !.sid = service.id, !.read = service.version]

MutCreateUnnamed(a, n) ==              \* mutant: the name is not copied to the row
    /\ service.id # NoService
    /\ Named(n) = {}
    /\ Begin(a, PolicyTxn("createPolicy"))

CreatePolicyBegin(a, n) ==
    /\ service.id # NoService
    /\ Named(n) = {}
    /\ Begin(a, [PolicyTxn("createPolicy") EXCEPT !.name = n])

(* The name may change; validator and store refuse a name that another     *)
(* policy has, and a name that several policies have.                      *)
UpdatePolicyBegin(a, p, n) ==
    /\ service.id # NoService
    /\ Named(n) \subseteq {p}
    /\ Begin(a, [PolicyTxn("updatePolicy") EXCEPT !.pid = p.id, !.was = p.name, !.name = n])

DeletePolicyBegin(a, p) ==
    /\ service.id # NoService
    /\ Begin(a, [PolicyTxn("deletePolicy") EXCEPT !.pid = p.id])

(* The client sends a whole RangerService, to create and to update one.    *)
(* Its policyVersion is what some earlier GET returned, or null: the v1    *)
(* API conversion never sets it.                                           *)
CreateServiceBegin(a, view) ==
    /\ service.id = NoService
    /\ view \in published \cup {NullVersion}
    /\ Begin(a, [NoTxn EXCEPT !.op = "createService", !.view = view])

UpdateServiceBegin(a, view) ==
    /\ service.id # NoService
    /\ view \in published \cup {NullVersion}
    /\ Begin(a, [PolicyTxn("updateService") EXCEPT !.view = view])

DeleteServiceBegin(a) ==
    /\ service.id # NoService
    /\ Begin(a, [PolicyTxn("deleteService") EXCEPT !.seen = {p.id : p \in policies}])

-----------------------------------------------------------------------------
(* Writes.                                                                 *)

NextVersion(v) == IF v = NullVersion THEN 1 ELSE v + 1

(* A version names other policies than before when a committed write       *)
(* gives the row a version it has had already, unless nothing changed.     *)
Publish(v, newPolicies) ==
    /\ policies' = newPolicies
    /\ published' = published \cup {v}
    /\ reused' = \/ reused
                 \/ /\ v \in published \ {NullVersion}
                    /\ v # service.version \/ policies # newPolicies

(* updatePolicyVersion: the row gets the version this transaction read,    *)
(* plus one, whatever the row holds by now.                                *)
WritePolicies(a, newPolicies) ==
    LET v == NextVersion(txn[a].read)
    IN  /\ rev < MaxRev
        /\ rev' = rev + 1
        /\ service' = [service EXCEPT !.version = v]
        /\ Publish(v, newPolicies)
        /\ txn' = [txn EXCEPT ![a] = NoTxn]

MutLiveAnyService(a, op) == txn[a].op = op   \* mutant: no foreign keys

(* Foreign keys let no write through for a service row that is gone.       *)
Live(a, op) ==
    /\ txn[a].op = op
    /\ txn[a].sid = service.id

CreatePolicyCommit(a) ==
    /\ Live(a, "createPolicy")
    /\ WritePolicies(a, policies \cup {[id |-> rev + 1, name |-> txn[a].name, rev |-> rev + 1]})

(* Resources and items of the old policy are deleted and the new ones      *)
(* inserted; the inserts fail when the policy row has been deleted.  An    *)
(* unchanged name is left out of the UPDATE.                               *)
UpdatePolicyCommit(a) ==
    /\ Live(a, "updatePolicy")
    /\ \E p \in policies :
         LET n == IF txn[a].name = txn[a].was THEN p.name ELSE txn[a].name
         IN  /\ p.id = txn[a].pid
             /\ WritePolicies(a, (policies \ {p}) \cup {[id |-> p.id, name |-> n, rev |-> rev + 1]})

DeletePolicyCommit(a) ==
    /\ Live(a, "deletePolicy")
    /\ WritePolicies(a, {p \in policies : p.id # txn[a].pid})

(* mapViewToEntityBean copies the client's policyVersion into the new row; *)
(* the creation of the default policy counts it up.                        *)
CreateServiceCommit(a) ==
    /\ Live(a, "createService")
    /\ rev < MaxRev
    /\ rev' = rev + 1
    /\ service' = [id |-> rev + 1, version |-> NextVersion(txn[a].view)]
    /\ Publish(NextVersion(txn[a].view),
               {[id |-> rev + 1, name |-> DefaultName, rev |-> rev + 1]})
    /\ txn' = [txn EXCEPT ![a] = NoTxn]

(* Again the client's policyVersion goes into the row; the column is left  *)
(* out of the UPDATE when it is the one that was read.                     *)
UpdateServiceCommit(a) ==
    LET v == IF txn[a].view = txn[a].read THEN service.version ELSE txn[a].view
    IN  /\ Live(a, "updateService")
        /\ service' = [service EXCEPT !.version = v]
        /\ Publish(v, policies)
        /\ txn' = [txn EXCEPT ![a] = NoTxn]
        /\ UNCHANGED rev

(* Each policy that was read is deleted, then the row; a policy created    *)
(* meanwhile refers to the row and makes the delete fail.                  *)
DeleteServiceCommit(a) ==
    /\ Live(a, "deleteService")
    /\ {p.id : p \in policies} \subseteq txn[a].seen
    /\ service' = [id |-> NoService, version |-> NullVersion]
    /\ policies' = {}
    /\ txn' = [txn EXCEPT ![a] = NoTxn]
    /\ UNCHANGED <<rev, published, reused>>

(* The handler throws, a constraint fails or the database does: nothing    *)
(* of the transaction stays.                                               *)
Rollback(a) ==
    /\ txn[a].op # Idle
    /\ txn' = [txn EXCEPT ![a] = NoTxn]
    /\ UNCHANGED <<service, policies, rev, published, reused>>

BeginHandler(a) ==
    \/ \E n \in Names : CreatePolicyBegin(a, n)
    \/ \E p \in policies, n \in AnyName : UpdatePolicyBegin(a, p, n)
    \/ \E p \in policies : DeletePolicyBegin(a, p)
    \/ \E v \in published \cup {NullVersion} : CreateServiceBegin(a, v)
    \/ \E v \in published \cup {NullVersion} : UpdateServiceBegin(a, v)
    \/ DeleteServiceBegin(a)

CommitHandler(a) ==
    \/ CreatePolicyCommit(a)
    \/ UpdatePolicyCommit(a)
    \/ DeletePolicyCommit(a)
    \/ CreateServiceCommit(a)
    \/ UpdateServiceCommit(a)
    \/ DeleteServiceCommit(a)

Next == \E a \in Admins : BeginHandler(a) \/ CommitHandler(a) \/ Rollback(a)

Spec == Init /\ [][Next]_vars

-----------------------------------------------------------------------------
Txn == [op : Ops, sid : Nat, read : Versions, pid : Nat, was : AnyName \cup {""},
        name : AnyName \cup {""}, view : Versions, seen : SUBSET Nat]

TypeOK ==
    /\ service \in [id : Nat, version : Versions]
    /\ policies \in SUBSET Policy
    /\ txn \in [Admins -> Txn]
    /\ rev \in 0..MaxRev
    /\ published \in SUBSET Versions
    /\ reused \in BOOLEAN

(* TestRangerPolicyValidator: "more than one policies with same name is    *)
(* also an internal error"; createPolicy and updatePolicy check for it.    *)
UniqueNames == \A p, q \in policies : p.name = q.name => p = q

(* The store shows the plugins what PublishedPolicies promises: names and  *)
(* running transactions are hidden.                                        *)
Published == INSTANCE PublishedPolicies
                 WITH policies <- {[id |-> p.id, rev |-> p.rev] : p \in policies}

ImplementsPublishedPolicies == Published!StoreSpec
=============================================================================
