-------------------------- MODULE PublishedPolicies --------------------------
(***************************************************************************)
(* What the Ranger admin shows of one service to its plugins, whatever the *)
(* handlers behind it do: a service row with a policyVersion and the set   *)
(* of the service's policies.  PolicyStore, the model of the handlers, is  *)
(* shown to implement this; PolicyRefresher, the model of the plugins, is  *)
(* built on it and so holds for every store that implements it.            *)
(*                                                                         *)
(* The abstract store promises little: policies change together with a     *)
(* policyVersion, and `reused' says whether a version has come to name     *)
(* other policies than it did before.                                      *)
(***************************************************************************)
EXTENDS Integers, FiniteSets

CONSTANTS MaxRev     \* bound: number of committed policy writes

ASSUME MaxRevAssumption == MaxRev \in Nat \ {0}

NullVersion == -1    \* x_service.policy_version IS NULL
NoService   == 0     \* the id of a service that has no row
Versions    == Nat \cup {NullVersion}

VARIABLES
    service,    \* row of x_service: its id (NoService: no row) and policyVersion
    policies,   \* the policies of the service: an id and a stamp of the content
    rev,        \* stamp of the last committed policy write
    published,  \* history: every policyVersion a committed service row had
    reused      \* history: a policyVersion came to name other policies than before

storeVars == <<service, policies, rev, published, reused>>

Policy == [id : Nat, rev : Nat]

StoreInit ==
    /\ service = [id |-> NoService, version |-> NullVersion]
    /\ policies = {}
    /\ rev = 0
    /\ published = {}
    /\ reused = FALSE

(* A version names other policies than before when the row gets a version  *)
(* it has had already, unless nothing changes.                             *)
Publish(v, newPolicies) ==
    /\ policies' = newPolicies
    /\ published' = published \cup {v}
    /\ reused' = \/ reused
                 \/ /\ v \in published \ {NullVersion}
                    /\ v # service.version \/ policies # newPolicies

Stamp ==
    /\ rev < MaxRev
    /\ rev' = rev + 1

(* One policy is created, replaced or deleted (perhaps by another handler  *)
(* before), and the row gets some version.                                 *)
Edits ==
    LET new == rev + 1
    IN  {policies, policies \cup {[id |-> new, rev |-> new]}}
          \cup {policies \ {p} : p \in policies}
          \cup {(policies \ {p}) \cup {[id |-> p.id, rev |-> new]} : p \in policies}

ChangePolicies(v) ==
    /\ service.id # NoService
    /\ Stamp
    /\ service' = [service EXCEPT !.version = v]
    /\ \E new \in Edits : Publish(v, new)

(* A new service has one policy, and a version.                            *)
AddService(v) ==
    /\ service.id = NoService
    /\ Stamp
    /\ service' = [id |-> rev + 1, version |-> v]
    /\ Publish(v, {[id |-> rev + 1, rev |-> rev + 1]})

(* An update of the service itself may write the version too.              *)
RelabelService(v) ==
    /\ service.id # NoService
    /\ service' = [service EXCEPT !.version = v]
    /\ Publish(v, policies)
    /\ UNCHANGED rev

RemoveService ==
    /\ service.id # NoService
    /\ service' = [id |-> NoService, version |-> NullVersion]
    /\ policies' = {}
    /\ UNCHANGED <<rev, published, reused>>

StoreNext ==
    \/ \E v \in 1..MaxRev : ChangePolicies(v) \/ AddService(v)
    \/ \E v \in published \cup {NullVersion} : RelabelService(v)
    \/ RemoveService

StoreSpec == StoreInit /\ [][StoreNext]_storeVars

StoreTypeOK ==
    /\ service \in [id : Nat, version : Versions]
    /\ policies \in SUBSET Policy
    /\ rev \in 0..MaxRev
    /\ published \in SUBSET Versions
    /\ reused \in BOOLEAN
=============================================================================
