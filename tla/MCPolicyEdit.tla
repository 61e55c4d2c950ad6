---------------------------- MODULE MCPolicyEdit ----------------------------
(***************************************************************************)
(* PolicyEdit for TLC: no property tells the known users, the policies or  *)
(* the handlers apart, and none is a liveness property.                    *)
(***************************************************************************)
EXTENDS PolicyEdit

Symmetry == Permutations(Users \cap KnownNames) \cup Permutations(Policies) \cup Permutations(Handlers)

(* The loops of grantAccess and revokeAccess over the names of one kind,   *)
(* one name at a time.                                                     *)
GrantInTurn(items, k, names, req) ==
    FoldSet(LAMBDA n, its :
              LET at == ItemFor(its, k, n)
              IN  IF at = 0 THEN Append(its, NewItem(k, n, req))
                  ELSE [its EXCEPT ![at] = Widened(@, req)],
            items, names)

RevokeInTurn(items, k, names, req) ==
    FoldSet(LAMBDA n, its :
              LET at == ItemFor(its, k, n)
              IN  IF at = 0 THEN its ELSE [its EXCEPT ![at] = Narrowed(@, req)],
            items, names)

(* The loops do what GrantTo and RevokeFrom say at once, up to the order   *)
(* of new items.                                                           *)
ASSUME LoopsAtOnce ==
    \A req \in {q \in Request : q.users = Users /\ q.groups = Groups} :
        \A items \in BoundedSeq(Item, 2), k \in Kinds :
            /\ RevokeFrom(items, k, req[k], req) = RevokeInTurn(items, k, req[k], req)
            /\ LET once  == GrantTo(items, k, req[k], req)
                   turns == GrantInTurn(items, k, req[k], req)
               IN  /\ Len(once) = Len(turns)
                   /\ SubSeq(once, 1, Len(items)) = SubSeq(turns, 1, Len(items))
                   /\ ToSet(once) = ToSet(turns)
=============================================================================
