-------------------------- MODULE PolicyEditProofs --------------------------
(***************************************************************************)
(* Proofs about PolicyEdit: the types, where items come from that are not  *)
(* valid, what a grant gives and a revoke takes, and what the policy form  *)
(* saves.                                                                  *)
(***************************************************************************)
EXTENDS PolicyEdit, FiniteSetTheorems, TLAPS

-----------------------------------------------------------------------------
(* Only: the places I, counted off in their order.                         *)

CountedOff(s, I) ==
    \E h \in [1..Cardinality(I) -> I] :
        /\ \A m, n \in 1..Cardinality(I) : m < n => h[m] < h[n]
        /\ \A i \in I : \E n \in 1..Cardinality(I) : h[n] = i
        /\ \A n \in 1..Cardinality(I) : Only(s, I)[n] = s[h[n]]

LEMMA OnlyIs ==
    ASSUME NEW S, NEW s \in Seq(S), NEW I \in SUBSET DOMAIN s
    PROVE  /\ Only(s, I) \in Seq(S) /\ Len(Only(s, I)) = Cardinality(I)
           /\ CountedOff(s, I)
           /\ \A n \in 1..Cardinality(I) : \E i \in I : \A list : Only(list, I)[n] = list[i]
<1> DEFINE UpTo(i) == {j \in I : j <= i}
           N == Cardinality(I)
           rank == [i \in I |-> Cardinality(UpTo(i))]
           h == [n \in 1..N |-> CHOOSE i \in I : Cardinality(UpTo(i)) = n]
<1>1. I \subseteq 1..Len(s) /\ Len(s) \in Nat
      OBVIOUS
<1>2. IsFiniteSet(I) /\ N \in Nat
  <2>1. IsFiniteSet(1..Len(s))
        BY <1>1, FS_Interval
  <2>2. IsFiniteSet(I)
        BY <1>1, <2>1, FS_Subset, Zenon
  <2> QED BY <2>2, FS_CardinalityType
<1>3. \A i \in I : IsFiniteSet(UpTo(i)) /\ Cardinality(UpTo(i)) \in 1..N
  <2> TAKE i \in I
  <2>1. UpTo(i) \in SUBSET I /\ i \in UpTo(i)
        BY <1>1
  <2> HIDE DEF UpTo
  <2>2. IsFiniteSet(UpTo(i)) /\ Cardinality(UpTo(i)) <= N
        BY <2>1, <1>2, FS_Subset
  <2>3. Cardinality(UpTo(i)) \in Nat /\ Cardinality(UpTo(i)) # 0
        BY <2>1, <2>2, FS_CardinalityType, FS_EmptySet
  <2> HIDE DEF N
  <2> QED BY <2>2, <2>3, <1>2
<1>4. \A i, j \in I : i < j => Cardinality(UpTo(i)) < Cardinality(UpTo(j))
  <2> TAKE i, j \in I
  <2> HAVE i < j
  <2>1. UpTo(i) \in SUBSET UpTo(j) /\ j \in UpTo(j) /\ j \notin UpTo(i)
        BY <1>1
  <2>2. IsFiniteSet(UpTo(j)) /\ Cardinality(UpTo(i)) \in Nat /\ Cardinality(UpTo(j)) \in Nat
    <3> HIDE DEF UpTo, N
    <3> QED BY <1>2, <1>3
  <2> HIDE DEF UpTo
  <2>3. Cardinality(UpTo(i)) <= Cardinality(UpTo(j)) /\ Cardinality(UpTo(j)) # Cardinality(UpTo(i))
        BY <2>1, <2>2, FS_Subset
  <2> QED BY <2>2, <2>3
<1>a. \A i \in I : rank[i] = Cardinality(UpTo(i))
      OBVIOUS
<1> HIDE DEF UpTo
<1>b. rank \in [I -> 1..N]
      BY <1>3
<1>c. \A i, j \in I : i < j => rank[i] < rank[j]
      BY <1>4, <1>a
<1> HIDE DEF rank, N
<1>5. \A i, j \in I : rank[i] = rank[j] => i = j
  <2> TAKE i, j \in I
  <2>1. i \in Nat /\ j \in Nat /\ rank[i] \in Nat /\ rank[j] \in Nat
        BY <1>1, <1>b, <1>2
  <2> QED BY <2>1, <1>c
<1>6. rank \in Surjection(I, 1..N)
  <2>1. IsFiniteSet(1..N) /\ Cardinality(1..N) = N
        BY <1>2, FS_Interval
  <2>2. rank \in Injection(I, 1..N)
        BY <1>b, <1>5 DEF Injection, IsInjective
  <2>3. Cardinality(I) = Cardinality(1..N)
        BY <2>1 DEF N
  <2> QED BY <2>1, <2>2, <2>3, FS_Injection
<1>7. \A n \in 1..N : h[n] \in I /\ rank[h[n]] = n
  <2>1. \A n \in 1..N : \E i \in I : Cardinality(UpTo(i)) = n
        BY <1>6, <1>a DEF Surjection
  <2>2. \A n \in 1..N : h[n] \in I /\ Cardinality(UpTo(h[n])) = n
        BY <2>1
  <2> QED BY <2>2, <1>a
<1>8. h \in [1..N -> I]
      BY <1>7
<1>9. \A m, n \in 1..N : m < n => h[m] < h[n]
  <2> TAKE m, n \in 1..N
  <2> HAVE m < n
  <2>1. h[m] \in I /\ h[n] \in I /\ rank[h[m]] = m /\ rank[h[n]] = n
        BY <1>7
  <2> HIDE DEF h
  <2>2. h[m] \in Nat /\ h[n] \in Nat /\ m \in Nat /\ n \in Nat
        BY <1>1, <1>2, <2>1
  <2>3. ~(h[n] < h[m]) /\ h[n] # h[m]
        BY <1>c, <2>1, <2>2
  <2> QED BY <2>2, <2>3
<1>10. \A i \in I : \E n \in 1..N : h[n] = i
  <2> TAKE i \in I
  <2>1. rank[i] \in 1..N
        BY <1>b
  <2>2. h[rank[i]] \in I /\ rank[h[rank[i]]] = rank[i]
        BY <1>7, <2>1
  <2>3. h[rank[i]] = i
        BY <1>5, <2>2
  <2> QED BY <2>1, <2>3
<1>11. \A n \in 1..N : Only(s, I)[n] = s[h[n]]
      BY DEF Only, UpTo, N
<1>d. \A n \in 1..N : \E i \in I : \A list : Only(list, I)[n] = list[i]
  <2> SUFFICES ASSUME NEW n \in 1..N PROVE \A list : Only(list, I)[n] = list[h[n]]
        BY <1>8
  <2> QED BY DEF Only, UpTo, N
<1>12. Only(s, I) \in [1..N -> S]
  <2>1. \A n \in 1..N : s[h[n]] \in S
        BY <1>1, <1>7
  <2>2. Only(s, I) = [n \in 1..N |-> Only(s, I)[n]]
        BY DEF Only, N
  <2> QED BY <2>1, <2>2, <1>11
<1>13. Only(s, I) \in Seq(S) /\ Len(Only(s, I)) = N
      BY <1>2, <1>12
<1>14. CountedOff(s, I)
      BY <1>8, <1>9, <1>10, <1>11 DEF N, CountedOff
<1> QED BY <1>13, <1>14, <1>d DEF N


(* It has the elements at these places, and no other.                      *)
LEMMA OnlyRange ==
    ASSUME NEW S, NEW s \in Seq(S), NEW I \in SUBSET DOMAIN s
    PROVE  Only(s, I) \in Seq(S) /\ ToSet(Only(s, I)) = {s[i] : i \in I}
<1> DEFINE N == Cardinality(I)
           o == Only(s, I)
<1>1. o \in Seq(S) /\ Len(o) = N
    BY OnlyIs
<1>c. CountedOff(s, I)
    BY OnlyIs
<1>2. PICK h \in [1..N -> I] : /\ \A i \in I : \E n \in 1..N : h[n] = i
                               /\ \A n \in 1..N : o[n] = s[h[n]]
    BY <1>c DEF CountedOff
<1> HIDE DEF o, N
<1>3. DOMAIN o = 1..N /\ \A n \in 1..N : h[n] \in I
    BY <1>1
<1>4. \A x : x \in ToSet(o) <=> \E n \in 1..N : x = s[h[n]]
    BY <1>2, <1>3 DEF ToSet
<1>5. ToSet(o) = {s[i] : i \in I}
    BY <1>2, <1>3, <1>4
<1> QED BY <1>1, <1>5 DEF o

(* The smallest of a set of places.                                        *)
LEMMA MinIs ==
    ASSUME NEW n \in Nat, NEW I \in SUBSET (1..n), I # {}
    PROVE  Min(I) \in I
<1> DEFINE N == Cardinality(I)
<1>1. PICK s : s = [k \in 1..n |-> k]
    OBVIOUS
<1>2. s \in Seq(1..n) /\ I \in SUBSET DOMAIN s
    BY <1>1
<1>c. CountedOff(s, I)
    BY <1>2, OnlyIs
<1>3. PICK h \in [1..N -> I] :
         /\ \A m, k \in 1..N : m < k => h[m] < h[k]
         /\ \A i \in I : \E k \in 1..N : h[k] = i
         /\ \A k \in 1..N : Only(s, I)[k] = s[h[k]]
    BY <1>c, Zenon DEF CountedOff
<1>4. N \in Nat /\ N # 0
    <2>1. IsFiniteSet(1..n)
        BY FS_Interval
    <2>2. IsFiniteSet(I)
        BY <2>1, FS_Subset, Zenon
    <2> QED BY <2>2, FS_CardinalityType, FS_EmptySet
<1> HIDE DEF N
<1>5. 1 \in 1..N /\ \A k \in 1..N : k = 1 \/ 1 < k
    BY <1>4
<1>6. h[1] \in I /\ \A k \in 1..N : h[k] = h[1] \/ h[1] < h[k]
    BY <1>3, <1>5, Zenon
<1>7. \A i \in I : i = h[1] \/ h[1] < i
    BY <1>3, <1>6, Zenon
<1>8. \A i \in I : i \in Nat
    <2>1. \A i \in 1..n : i \in Nat
        OBVIOUS
    <2> QED BY <2>1, Zenon
<1>9. \A i \in I : h[1] <= i
    <2> PICK first : first = h[1]
        OBVIOUS
    <2>1. first \in I /\ \A i \in I : i = first \/ first < i
        BY <1>6, <1>7, Zenon
    <2>2. \A i \in I : first <= i
        BY <2>1, <1>8
    <2> QED BY <2>2, Zenon
<1> QED BY <1>6, <1>9 DEF Min

(* A set in a list.                                                        *)
LEMMA SetToSeqIs ==
    ASSUME NEW S, IsFiniteSet(S)
    PROVE  SetToSeq(S) \in Seq(S) /\ ToSet(SetToSeq(S)) = S
<1> DEFINE N == Cardinality(S)
           f == SetToSeq(S)
<1>1. N \in Nat /\ ExistsBijection(1..N, S)
    BY FS_CardinalityType
<1>2. \E g \in [1..N -> S] : \A a, b \in DOMAIN g : g[a] = g[b] => a = b
    BY <1>1 DEF ExistsBijection, Bijection, Injection, IsInjective
<1>3. f \in [1..N -> S] /\ \A a, b \in 1..N : f[a] = f[b] => a = b
    BY <1>2 DEF SetToSeq, IsInjective
<1> HIDE DEF f
<1>4. f \in Injection(1..N, S)
    BY <1>3 DEF Injection, IsInjective
<1>5. IsFiniteSet(1..N) /\ Cardinality(1..N) = N
    BY <1>1, FS_Interval
<1>6. f \in Surjection(1..N, S)
    BY <1>4, <1>5, FS_Injection
<1>7. \A x \in S : \E n \in 1..N : f[n] = x
    BY <1>6 DEF Surjection
<1>8. ToSet(f) = S
    BY <1>3, <1>7 DEF ToSet
<1> QED BY <1>1, <1>3, <1>8 DEF f

(* A list made place by place from another, and one list after another.    *)
LEMMA SameLength ==
    ASSUME NEW S, NEW T, NEW s \in Seq(S), NEW t \in [DOMAIN s -> T]
    PROVE  t \in Seq(T) /\ Len(t) = Len(s) /\ DOMAIN t = DOMAIN s
OBVIOUS

LEMMA ConcatRange ==
    ASSUME NEW S, NEW s \in Seq(S), NEW t \in Seq(S)
    PROVE  s \o t \in Seq(S) /\ ToSet(s \o t) = ToSet(s) \cup ToSet(t)
<1> PICK st : st = s \o t
    OBVIOUS
<1>1. /\ Len(s) \in Nat /\ Len(t) \in Nat /\ Len(st) = Len(s) + Len(t) /\ st \in Seq(S)
      /\ DOMAIN s = 1..Len(s) /\ DOMAIN t = 1..Len(t) /\ DOMAIN st = 1..Len(st)
    OBVIOUS
<1>2. \A at \in DOMAIN s : at \in DOMAIN st /\ st[at] = s[at]
    BY <1>1
<1>3. \A at \in DOMAIN t : Len(s) + at \in DOMAIN st /\ st[Len(s) + at] = t[at]
    BY <1>1
<1>4. \A at \in DOMAIN st :
         at \in DOMAIN s \/ (at - Len(s) \in DOMAIN t /\ st[at] = t[at - Len(s)])
    BY <1>1
<1>5. ASSUME NEW x \in ToSet(st) PROVE x \in ToSet(s) \/ x \in ToSet(t)
    <2> PICK at \in DOMAIN st : x = st[at]
        BY DEF ToSet
    <2>1. CASE at \in DOMAIN s
        BY <1>2, <2>1, Zenon DEF ToSet
    <2>2. CASE at - Len(s) \in DOMAIN t /\ st[at] = t[at - Len(s)]
        BY <2>2, Zenon DEF ToSet
    <2> QED BY <1>4, <2>1, <2>2, Zenon
<1>6. \A x \in ToSet(s) : x \in ToSet(st)
    BY <1>2, Zenon DEF ToSet
<1>7. \A x \in ToSet(t) : x \in ToSet(st)
    BY <1>3, Zenon DEF ToSet
<1> QED BY <1>1, <1>5, <1>6, <1>7

-----------------------------------------------------------------------------
(* What the helpers on items give.                                         *)

(* ItemFor: a place of the item with this name alone, or none if there is  *)
(* no such place.                                                          *)
LEMMA ItemForIs ==
    ASSUME NEW items \in Seq(Item), NEW k, NEW n
    PROVE  /\ ItemFor(items, k, n) = 0 => \A at \in DOMAIN items : items[at][k] # {n}
           /\ ItemFor(items, k, n) # 0 =>
                /\ ItemFor(items, k, n) \in DOMAIN items
                /\ items[ItemFor(items, k, n)][k] = {n}
<1> DEFINE I == {at \in 1..Len(items) : items[at][k] = {n}}
<1>1. ItemFor(items, k, n) = IF I # {} THEN Min(I) ELSE 0
    BY DEF ItemFor, SelectInSeq
<1>2. Len(items) \in Nat /\ DOMAIN items = 1..Len(items) /\ I \in SUBSET (1..Len(items))
    OBVIOUS
<1>3. CASE I = {}
    BY <1>1, <1>2, <1>3
<1>4. CASE I # {}
    <2>1. Min(I) \in I
        <3> HIDE DEF I
        <3> QED BY <1>2, <1>4, MinIs
    <2>2. ItemFor(items, k, n) \in I
        BY <1>1, <1>4, <2>1, Zenon
    <2>3. ItemFor(items, k, n) # 0
        BY <1>2, <2>2
    <2> QED BY <1>2, <2>2, <2>3
<1> QED BY <1>3, <1>4

(* A place is found for its name, and for no other.                        *)
LEMMA FoundIs ==
    ASSUME NEW items \in Seq(Item), NEW k, NEW names
    PROVE  \A at \in Found(items, k, names) :
              at \in DOMAIN items /\ \E n \in names : items[at][k] = {n}
BY ItemForIs DEF Found

(* The parts of an item, for the names, and for what they are given.       *)
LEMMA ItemIs ==
    ASSUME NEW i \in Item
    PROVE  /\ i.users \subseteq Users /\ i.groups \subseteq Groups
           /\ i.accesses \subseteq Accesses /\ i.admin \in BOOLEAN
           /\ Names(i) \subseteq Users \cup Groups
           /\ Asked(i) \subseteq Accesses \cup {Admin}
           /\ ValidItem(i) <=> Names(i) # {} /\ Asked(i) # {}
BY DEF Item, Names, Asked, ValidItem

LEMMA RequestIs ==
    ASSUME NEW req \in Request
    PROVE  /\ req.users \subseteq Users /\ req.groups \subseteq Groups
           /\ req.accesses \subseteq Accesses /\ req.accesses # {} /\ req.admin \in BOOLEAN
           /\ req.replace \in BOOLEAN /\ req.op \in {"grant", "revoke"}
           /\ Names(req) = req.users \cup req.groups
           /\ Asked(req) \subseteq Accesses \cup {Admin} /\ Asked(req) # {}
BY DEF Request, Names, Asked

LEMMA WidenedIs ==
    ASSUME NEW i \in Item, NEW req \in Request
    PROVE  /\ Widened(i, req) \in Item
           /\ Widened(i, req).users = i.users /\ Widened(i, req).groups = i.groups
           /\ Names(Widened(i, req)) = Names(i)
           /\ Asked(Widened(i, req)) = Asked(i) \cup Asked(req)
<1> PICK w : w = Widened(i, req)
    OBVIOUS
<1>1. /\ w \in Item /\ w.users = i.users /\ w.groups = i.groups
      /\ w.accesses = i.accesses \cup req.accesses /\ w.admin = (i.admin \/ req.admin)
    BY DEF Widened, Item, Request
<1>2. i.admin \in BOOLEAN /\ req.admin \in BOOLEAN
    BY DEF Item, Request
<1>3. Names(w) = Names(i)
    BY <1>1 DEF Names
<1>4. Asked(w) = Asked(i) \cup Asked(req)
    BY <1>1, <1>2 DEF Asked
<1> QED BY <1>1, <1>3, <1>4

LEMMA NarrowedIs ==
    ASSUME NEW i \in Item, NEW req \in Request
    PROVE  /\ Narrowed(i, req) \in Item
           /\ Narrowed(i, req).users = i.users /\ Narrowed(i, req).groups = i.groups
           /\ Names(Narrowed(i, req)) = Names(i)
           /\ Asked(Narrowed(i, req)) = Asked(i) \ Asked(req)
<1> PICK w : w = Narrowed(i, req)
    OBVIOUS
<1>1. /\ w \in Item /\ w.users = i.users /\ w.groups = i.groups
      /\ w.accesses = i.accesses \ req.accesses /\ w.admin = (i.admin /\ ~req.admin)
    BY DEF Narrowed, Item, Request
<1>2. i.admin \in BOOLEAN /\ req.admin \in BOOLEAN
    BY DEF Item, Request
<1>3. i.accesses \subseteq Accesses /\ req.accesses \subseteq Accesses
    BY DEF Item, Request
<1>4. Names(w) = Names(i)
    BY <1>1 DEF Names
<1>5. Asked(w) = Asked(i) \ Asked(req)
    BY <1>1, <1>2, <1>3, AdminAssumption DEF Asked
<1> QED BY <1>1, <1>4, <1>5

LEMMA WithoutIs ==
    ASSUME NEW i \in Item, NEW req \in Request
    PROVE  /\ Without(i, req) \in Item
           /\ Names(Without(i, req)) = Names(i) \ Names(req)
           /\ Asked(Without(i, req)) = Asked(i)
<1> PICK w : w = Without(i, req)
    OBVIOUS
<1>1. /\ w \in Item /\ w.accesses = i.accesses /\ w.admin = i.admin
      /\ w.users = i.users \ req.users /\ w.groups = i.groups \ req.groups
    BY DEF Without, Item, Request
<1>2. Asked(w) = Asked(i)
    BY <1>1 DEF Asked
<1>3. Names(w) = Names(i) \ Names(req)
    BY <1>1, ItemIs, RequestIs, NamesAssumption DEF Names
<1> QED BY <1>1, <1>2, <1>3

LEMMA NewItemIs ==
    ASSUME NEW req \in Request, NEW k \in Kinds, NEW n \in req[k]
    PROVE  /\ NewItem(k, n, req) \in Item
           /\ Names(NewItem(k, n, req)) = {n}
           /\ \A j \in Kinds : j # k => NewItem(k, n, req)[j] = {}
           /\ Asked(NewItem(k, n, req)) = Asked(req)
BY DEF NewItem, Item, Request, Kinds, Names, Asked

(* What a name holds is what some item with this name gives.               *)
LEMMA HeldIs ==
    ASSUME NEW items \in Seq(Item), NEW n, NEW a
    PROVE  a \in Heldby(n, items) <=>
              \E i \in ToSet(items) : n \in Names(i) /\ a \in Asked(i)
<1>1. ToSet(items) \subseteq Item
    BY DEF ToSet
<1>2. \A i \in ToSet(items) : a \in Asked(i) => a \in Accesses \cup {Admin}
    BY <1>1, ItemIs
<1>3. <<n, a>> \in Held(items) <=> \E i \in ToSet(items) : <<n, a>> \in GivenBy(i)
    BY DEF Held
<1>4. \A i : <<n, a>> \in GivenBy(i) <=> n \in Names(i) /\ a \in Asked(i)
    BY DEF GivenBy
<1>5. a \in Heldby(n, items) <=> a \in Accesses \cup {Admin} /\ <<n, a>> \in Held(items)
    BY DEF Heldby
<1> QED BY <1>2, <1>3, <1>4, <1>5, Zenon

-----------------------------------------------------------------------------
(* What the store makes of a list of items.                                *)
KnownAsked == KnownTypes \cup {Admin}

LEMMA WiderSeq ==
    ASSUME NEW S, NEW T, S \subseteq T, NEW s \in Seq(S)
    PROVE  s \in Seq(T)
OBVIOUS

LEMMA StoredIs ==
    ASSUME NEW i \in Item
    PROVE  /\ Stored(i) \in KnownItem
           /\ Names(Stored(i)) = Names(i) \cap KnownNames
           /\ Asked(Stored(i)) = Asked(i) \cap KnownAsked
           /\ i \in KnownItem => Stored(i) = i
<1> PICK w : w = Stored(i)
    OBVIOUS
<1>1. /\ w \in Item /\ w.admin = i.admin /\ w.accesses = i.accesses \cap KnownTypes
      /\ w.users = i.users \cap KnownNames /\ w.groups = i.groups \cap KnownNames
    BY DEF Stored, Item
<1>2. Names(w) = Names(i) \cap KnownNames
    BY <1>1 DEF Names
<1>3. Asked(w) = Asked(i) \cap KnownAsked
    <2>1. i.accesses \subseteq Accesses
        BY DEF Item
    <2> QED BY <1>1, <2>1, AdminAssumption, KnownAssumption DEF Asked, KnownAsked
<1>4. w \in KnownItem
    BY <1>1, <1>2 DEF KnownItem
<1>5. i \in KnownItem => w = i
    <2> HAVE i \in KnownItem
    <2>1. w.users = i.users /\ w.groups = i.groups /\ w.accesses = i.accesses
        BY <1>1 DEF KnownItem, Names
    <2> QED BY <1>1, <2>1 DEF Item
<1> QED BY <1>2, <1>3, <1>4, <1>5

LEMMA KnownItemIs ==
    ASSUME NEW i \in KnownItem
    PROVE  i \in Item /\ Names(i) \subseteq KnownNames /\ Asked(i) \subseteq KnownAsked
BY DEF KnownItem, Asked, KnownAsked

LEMMA StoredItemsAre ==
    ASSUME NEW items \in Seq(Item)
    PROVE  /\ StoredItems(items) \in Seq(KnownItem)
           /\ StoredItems(items) \in Seq(Item)
           /\ Len(StoredItems(items)) = Len(items)
           /\ \A x \in ToSet(StoredItems(items)) : \E i \in ToSet(items) : x = Stored(i)
           /\ \A i \in ToSet(items) : Stored(i) \in ToSet(StoredItems(items))
<1> PICK list : list = StoredItems(items)
    OBVIOUS
<1>1. \A k \in DOMAIN items : items[k] \in Item /\ items[k] \in ToSet(items)
    BY DEF ToSet
<1>2. list \in [DOMAIN items -> KnownItem] /\ \A k \in DOMAIN items : list[k] = Stored(items[k])
    BY <1>1, StoredIs DEF StoredItems
<1>3. list \in Seq(KnownItem) /\ Len(list) = Len(items) /\ DOMAIN list = DOMAIN items
    <2>1. list \in Seq(KnownItem) /\ DOMAIN list = DOMAIN items
        BY <1>2, SameLength, Zenon
    <2> QED BY <2>1
<1>4. list \in Seq(Item)
    <2>1. KnownItem \subseteq Item
        BY DEF KnownItem
    <2> QED BY <1>3, <2>1, WiderSeq, Zenon
<1>5. \A x \in ToSet(list) : \E i \in ToSet(items) : x = Stored(i)
    BY <1>1, <1>2, <1>3 DEF ToSet
<1>6. \A i \in ToSet(items) : Stored(i) \in ToSet(list)
    BY <1>2, <1>3 DEF ToSet
<1> QED BY <1>3, <1>4, <1>5, <1>6

(* Items that are known are stored as they are.                            *)
LEMMA KnownIsStored ==
    ASSUME NEW items \in Seq(KnownItem)
    PROVE  items \in Seq(Item) /\ StoredItems(items) = items
<1>1. items \in Seq(Item)
    BY WiderSeq DEF KnownItem
<1>2. \A k \in DOMAIN items : items[k] \in Item /\ items[k] \in KnownItem
    BY <1>1
<1>3. \A k \in DOMAIN items : Stored(items[k]) = items[k]
    BY <1>2, StoredIs
<1>4. StoredItems(items) = [k \in DOMAIN items |-> items[k]]
    BY <1>3 DEF StoredItems
<1> QED BY <1>1, <1>4

(* What is stored gives the known names the known part of what it gave.    *)
LEMMA StoredGives ==
    ASSUME NEW items \in Seq(Item), NEW n
    PROVE  Heldby(n, StoredItems(items)) = IF n \in KnownNames THEN Heldby(n, items) \cap KnownAsked ELSE {}
<1> PICK list : list = StoredItems(items)
    OBVIOUS
<1>1. /\ list \in Seq(Item)
      /\ \A x \in ToSet(list) : \E i \in ToSet(items) : x = Stored(i)
      /\ \A i \in ToSet(items) : Stored(i) \in ToSet(list)
    BY StoredItemsAre
<1>2. \A i \in ToSet(items) : /\ Names(Stored(i)) = Names(i) \cap KnownNames
                             /\ Asked(Stored(i)) = Asked(i) \cap KnownAsked
    <2>1. ToSet(items) \subseteq Item
        BY DEF ToSet
    <2> QED BY <2>1, StoredIs
<1>3. \A a : a \in Heldby(n, list) <=> \E x \in ToSet(list) : n \in Names(x) /\ a \in Asked(x)
    BY <1>1, HeldIs
<1>4. \A a : a \in Heldby(n, items) <=> \E i \in ToSet(items) : n \in Names(i) /\ a \in Asked(i)
    BY HeldIs
<1>5. \A a : a \in Heldby(n, list) <=> n \in KnownNames /\ a \in KnownAsked /\ a \in Heldby(n, items)
    <2> TAKE a
    <2>1. a \in Heldby(n, list) <=>
             \E i \in ToSet(items) : n \in Names(Stored(i)) /\ a \in Asked(Stored(i))
        BY <1>1, <1>3
    <2> QED BY <1>2, <1>4, <2>1
<1> QED BY <1>5

(* What known items give.                                                  *)
LEMMA KnownGives ==
    ASSUME NEW items \in Seq(KnownItem), NEW n
    PROVE  Heldby(n, items) = IF n \in KnownNames THEN Heldby(n, items) \cap KnownAsked ELSE {}
BY KnownIsStored, StoredGives

-----------------------------------------------------------------------------
(* What a grant makes of a list of items.                                  *)

(* The items after one pass: as they were, or widened if they are for one  *)
(* name of the request alone, or new ones.                                 *)
LEMMA GrantToIs ==
    ASSUME NEW items \in Seq(Item), NEW req \in Request, NEW k \in Kinds
    PROVE  LET after == GrantTo(items, k, req[k], req)
           IN  /\ after \in Seq(Item)
               /\ \A x \in ToSet(after) :
                    \/ x \in ToSet(items)
                    \/ \E i \in ToSet(items), n \in req[k] : i[k] = {n} /\ x = Widened(i, req)
                    \/ \E n \in req[k] : x = NewItem(k, n, req)
               /\ \A i \in ToSet(items) : i \in ToSet(after) \/ Widened(i, req) \in ToSet(after)
               /\ \A n \in req[k] :
                    \/ NewItem(k, n, req) \in ToSet(after)
                    \/ \E i \in ToSet(items) : i[k] = {n} /\ Widened(i, req) \in ToSet(after)
<1>f. PICK found : found = Found(items, k, req[k])
    OBVIOUS
<1>n. PICK new : new = SetToSeq(Missing(items, k, req[k]))
    OBVIOUS
<1>o. PICK old : old = [at \in DOMAIN items |-> IF at \in found THEN Widened(items[at], req)
                                              ELSE items[at]]
    OBVIOUS
<1>m. PICK more : more = [at \in DOMAIN new |-> NewItem(k, new[at], req)]
    OBVIOUS
<1>r. PICK after : after = old \o more
    OBVIOUS
<1>1. GrantTo(items, k, req[k], req) = after
    BY <1>f, <1>n, <1>o, <1>m, <1>r DEF GrantTo
<1>2. IsFiniteSet(req[k])
    <2>1. req[k] \subseteq Users \/ req[k] \subseteq Groups
        BY RequestIs DEF Kinds
    <2> QED BY <2>1, FS_Subset, NamesAssumption, Zenon
<1>3. /\ new \in Seq(req[k])
      /\ ToSet(new) = {n \in req[k] : ItemFor(items, k, n) = 0}
    <2>1. Missing(items, k, req[k]) \in SUBSET req[k]
        BY DEF Missing
    <2>2. IsFiniteSet(Missing(items, k, req[k]))
        BY <1>2, <2>1, FS_Subset, Zenon
    <2>3. new \in Seq(Missing(items, k, req[k])) /\ ToSet(new) = Missing(items, k, req[k])
        BY <1>n, <2>2, SetToSeqIs
    <2> QED BY <2>1, <2>3 DEF Missing
<1>4. \A at \in DOMAIN items : items[at] \in Item
    OBVIOUS
<1>5. old \in Seq(Item) /\ DOMAIN old = DOMAIN items
    <2>1. \A at \in DOMAIN items : Widened(items[at], req) \in Item
        BY <1>4, WidenedIs
    <2>2. old \in [DOMAIN items -> Item]
        BY <1>o, <1>4, <2>1
    <2> QED BY <2>2, SameLength, Zenon
<1>6. \A at \in DOMAIN new : new[at] \in req[k]
    BY <1>3
<1>7. more \in Seq(Item) /\ DOMAIN more = DOMAIN new
    <2>1. \A at \in DOMAIN new : NewItem(k, new[at], req) \in Item
        BY <1>6, NewItemIs
    <2>2. more \in [DOMAIN new -> Item]
        BY <1>m, <2>1
    <2>3. new \in Seq(req[k])
        BY <1>3
    <2> QED BY <2>2, <2>3, SameLength, Zenon
<1>8. after \in Seq(Item)
    BY <1>r, <1>5, <1>7
<1>9. \A x : x \in ToSet(after) <=> x \in ToSet(old) \/ x \in ToSet(more)
    <2>1. ToSet(old \o more) = ToSet(old) \cup ToSet(more)
        BY <1>5, <1>7, ConcatRange
    <2> QED BY <1>r, <2>1
<1>10. \A at \in found : at \in DOMAIN items /\ \E n \in req[k] : items[at][k] = {n}
    BY <1>f, FoundIs
<1>11. \A x \in ToSet(old) :
          \/ x \in ToSet(items)
          \/ \E i \in ToSet(items), n \in req[k] : i[k] = {n} /\ x = Widened(i, req)
    <2> SUFFICES ASSUME NEW at \in DOMAIN items
                 PROVE  \/ old[at] \in ToSet(items)
                        \/ \E i \in ToSet(items), n \in req[k] :
                              i[k] = {n} /\ old[at] = Widened(i, req)
        BY <1>5, Zenon DEF ToSet
    <2>1. items[at] \in ToSet(items)
        BY DEF ToSet
    <2> QED BY <1>o, <1>10, <2>1
<1>12. \A x \in ToSet(more) : \E n \in req[k] : x = NewItem(k, n, req)
    BY <1>m, <1>6, <1>7 DEF ToSet
<1>13. \A i \in ToSet(items) : i \in ToSet(old) \/ Widened(i, req) \in ToSet(old)
    BY <1>o, <1>5 DEF ToSet
<1>14. ASSUME NEW n \in req[k]
       PROVE  \/ NewItem(k, n, req) \in ToSet(after)
              \/ \E i \in ToSet(items) : i[k] = {n} /\ Widened(i, req) \in ToSet(after)
    <2>1. CASE ItemFor(items, k, n) = 0
        <3>1. \E at \in DOMAIN new : new[at] = n
            BY <1>3, <2>1 DEF ToSet
        <3> QED BY <1>m, <1>7, <1>9, <3>1 DEF ToSet
    <2>2. CASE ItemFor(items, k, n) # 0
        <3>a. PICK at : at = ItemFor(items, k, n)
            OBVIOUS
        <3>1. at \in DOMAIN items /\ items[at][k] = {n}
            BY <3>a, <2>2, ItemForIs
        <3>2. at \in found
            BY <1>f, <3>a, <2>2 DEF Found
        <3>3. old[at] = Widened(items[at], req)
            BY <1>o, <3>1, <3>2
        <3>4. items[at] \in ToSet(items) /\ Widened(items[at], req) \in ToSet(old)
            BY <1>5, <3>1, <3>3 DEF ToSet
        <3> QED BY <1>9, <3>1, <3>4, Zenon
    <2> QED BY <2>1, <2>2
<1>15. \A x \in ToSet(after) :
          \/ x \in ToSet(items)
          \/ \E i \in ToSet(items), n \in req[k] : i[k] = {n} /\ x = Widened(i, req)
          \/ \E n \in req[k] : x = NewItem(k, n, req)
    BY <1>9, <1>11, <1>12, Zenon
<1>16. \A i \in ToSet(items) : i \in ToSet(after) \/ Widened(i, req) \in ToSet(after)
    BY <1>9, <1>13, Zenon
<1> QED BY <1>1, <1>8, <1>14, <1>15, <1>16, Zenon

(* The items after both passes: each has the names of an item from before, *)
(* and what that gave, with what was asked for if it was for one name of   *)
(* the request alone, or is new.  Nothing is lost, and every name of the   *)
(* request has an item with what was asked for.                            *)
LEMMA GrantAllIs ==
    ASSUME NEW items \in Seq(Item), NEW req \in Request
    PROVE  LET after == GrantAll(items, req)
           IN  /\ after \in Seq(Item)
               /\ \A x \in ToSet(after) :
                    \/ \E i \in ToSet(items) :
                         /\ Names(x) = Names(i)
                         /\ \/ Asked(x) = Asked(i)
                            \/ SoleItem(i, req) /\ Asked(x) = Asked(i) \cup Asked(req)
                    \/ \E n \in Names(req) : Names(x) = {n} /\ Asked(x) = Asked(req)
               /\ \A i \in ToSet(items) :
                    \E x \in ToSet(after) : Names(x) = Names(i) /\ Asked(i) \subseteq Asked(x)
               /\ \A n \in Names(req) :
                    \E x \in ToSet(after) : n \in Names(x) /\ Asked(req) \subseteq Asked(x)
<1>m. PICK mid : mid = GrantTo(items, "users", req["users"], req)
    OBVIOUS
<1>a. PICK after : after = GrantTo(mid, "groups", req["groups"], req)
    OBVIOUS
<1>1. GrantAll(items, req) = after
    BY <1>m, <1>a DEF GrantAll
<1>2. "users" \in Kinds /\ "groups" \in Kinds /\ "users" # "groups"
    BY DEF Kinds
<1>3. /\ mid \in Seq(Item)
      /\ \A x \in ToSet(mid) :
           \/ x \in ToSet(items)
           \/ \E i \in ToSet(items), n \in req["users"] : i["users"] = {n} /\ x = Widened(i, req)
           \/ \E n \in req["users"] : x = NewItem("users", n, req)
      /\ \A i \in ToSet(items) : i \in ToSet(mid) \/ Widened(i, req) \in ToSet(mid)
      /\ \A n \in req["users"] :
           \/ NewItem("users", n, req) \in ToSet(mid)
           \/ \E i \in ToSet(items) : i["users"] = {n} /\ Widened(i, req) \in ToSet(mid)
    BY <1>2, <1>m, GrantToIs
<1>4. /\ after \in Seq(Item)
      /\ \A x \in ToSet(after) :
           \/ x \in ToSet(mid)
           \/ \E i \in ToSet(mid), n \in req["groups"] : i["groups"] = {n} /\ x = Widened(i, req)
           \/ \E n \in req["groups"] : x = NewItem("groups", n, req)
      /\ \A i \in ToSet(mid) : i \in ToSet(after) \/ Widened(i, req) \in ToSet(after)
      /\ \A n \in req["groups"] :
           \/ NewItem("groups", n, req) \in ToSet(after)
           \/ \E i \in ToSet(mid) : i["groups"] = {n} /\ Widened(i, req) \in ToSet(after)
    BY <1>2, <1>3, <1>a, GrantToIs
<1>5. ToSet(items) \subseteq Item /\ ToSet(mid) \subseteq Item /\ ToSet(after) \subseteq Item
    BY <1>3, <1>4 DEF ToSet
<1>6. Names(req) = req["users"] \cup req["groups"]
    BY RequestIs
<1>7. \A i \in Item : /\ Names(Widened(i, req)) = Names(i)
                      /\ Widened(i, req)["groups"] = i["groups"]
                      /\ Asked(Widened(i, req)) = Asked(i) \cup Asked(req)
    BY WidenedIs
<1>8. \A k \in Kinds : \A n \in req[k] :
         /\ Names(NewItem(k, n, req)) = {n}
         /\ Asked(NewItem(k, n, req)) = Asked(req)
         /\ k = "users" => NewItem(k, n, req)["groups"] = {}
    BY <1>2, NewItemIs
<1>9. \A i : \A k \in Kinds : \A n \in req[k] : i[k] = {n} => SoleItem(i, req)
    BY DEF SoleItem
<1> DEFINE From(x, i) == /\ Names(x) = Names(i)
                         /\ \/ Asked(x) = Asked(i)
                            \/ SoleItem(i, req) /\ Asked(x) = Asked(i) \cup Asked(req)
           New(x) == \E n \in Names(req) : Names(x) = {n} /\ Asked(x) = Asked(req)
<1>10. \A i : From(i, i)
    OBVIOUS
<1>11. ASSUME NEW x \in ToSet(mid)
       PROVE  (\E i \in ToSet(items) : From(x, i)) \/ New(x)
    <2>1. CASE x \in ToSet(items)
        BY <1>10, <2>1, Zenon
    <2>2. ASSUME NEW i \in ToSet(items), NEW n \in req["users"],
                 i["users"] = {n}, x = Widened(i, req)
          PROVE  From(x, i)
        BY <1>2, <1>5, <1>7, <1>9, <2>2
    <2>3. ASSUME NEW n \in req["users"], x = NewItem("users", n, req)
          PROVE  New(x)
        BY <1>2, <1>6, <1>8, <2>3
    <2> HIDE DEF From, New
    <2> QED BY <1>3, <2>1, <2>2, <2>3
<1>12. ASSUME NEW x \in ToSet(after)
       PROVE  (\E i \in ToSet(items) : From(x, i)) \/ New(x)
    <2>1. CASE x \in ToSet(mid)
        <3> HIDE DEF From, New
        <3> QED BY <1>11, <2>1, Zenon
    <2>2. ASSUME NEW y \in ToSet(mid), NEW n \in req["groups"],
                 y["groups"] = {n}, x = Widened(y, req)
          PROVE  \E i \in ToSet(items) : From(x, i)
        <3>1. y \in Item /\ Names(x) = Names(y) /\ Asked(x) = Asked(y) \cup Asked(req)
            BY <1>5, <1>7, <2>2
        <3>2. CASE y \in ToSet(items)
            <4>1. From(x, y)
                BY <1>2, <1>9, <2>2, <3>1
            <4> HIDE DEF From
            <4> QED BY <3>2, <4>1
        <3>3. ASSUME NEW i \in ToSet(items), y = Widened(i, req)
              PROVE  From(x, i)
            <4>1. /\ i["groups"] = {n} /\ Names(x) = Names(i)
                  /\ Asked(x) = (Asked(i) \cup Asked(req)) \cup Asked(req)
                BY <1>5, <1>7, <2>2, <3>1, <3>3
            <4>2. SoleItem(i, req)
                BY <1>2, <1>9, <4>1
            <4> QED BY <4>1, <4>2
        <3>4. ASSUME NEW m \in req["users"], y = NewItem("users", m, req)
              PROVE  FALSE
            BY <1>2, <1>8, <2>2, <3>4
        <3> HIDE DEF From
        <3> QED BY <1>3, <3>2, <3>3, <3>4
    <2>3. ASSUME NEW n \in req["groups"], x = NewItem("groups", n, req)
          PROVE  New(x)
        BY <1>2, <1>6, <1>8, <2>3
    <2> HIDE DEF From, New
    <2> QED BY <1>4, <2>1, <2>2, <2>3
<1>13. ASSUME NEW y \in ToSet(mid)
       PROVE  \E x \in ToSet(after) : Names(x) = Names(y) /\ Asked(y) \subseteq Asked(x)
    BY <1>4, <1>5, <1>7
<1>14. ASSUME NEW i \in ToSet(items)
       PROVE  \E x \in ToSet(after) : Names(x) = Names(i) /\ Asked(i) \subseteq Asked(x)
    <2>1. \E y \in ToSet(mid) : Names(y) = Names(i) /\ Asked(i) \subseteq Asked(y)
        BY <1>3, <1>5, <1>7
    <2> QED BY <1>13, <2>1
<1>15. ASSUME NEW n \in req["users"]
       PROVE  \E x \in ToSet(after) : n \in Names(x) /\ Asked(req) \subseteq Asked(x)
    <2>1. \E y \in ToSet(mid) : n \in Names(y) /\ Asked(req) \subseteq Asked(y)
        <3>1. CASE NewItem("users", n, req) \in ToSet(mid)
            BY <1>2, <1>8, <3>1
        <3>2. ASSUME NEW i \in ToSet(items), i["users"] = {n}, Widened(i, req) \in ToSet(mid)
              PROVE  \E y \in ToSet(mid) : n \in Names(y) /\ Asked(req) \subseteq Asked(y)
            <4>1. n \in Names(i)
                BY <3>2 DEF Names
            <4> QED BY <1>5, <1>7, <3>2, <4>1
        <3> QED BY <1>3, <3>1, <3>2
    <2> QED BY <1>13, <2>1
<1>16. ASSUME NEW n \in req["groups"]
       PROVE  \E x \in ToSet(after) : n \in Names(x) /\ Asked(req) \subseteq Asked(x)
    <2>1. CASE NewItem("groups", n, req) \in ToSet(after)
        BY <1>2, <1>8, <2>1
    <2>2. ASSUME NEW i \in ToSet(mid), i["groups"] = {n}, Widened(i, req) \in ToSet(after)
          PROVE  \E x \in ToSet(after) : n \in Names(x) /\ Asked(req) \subseteq Asked(x)
        <3>1. n \in Names(i)
            BY <2>2 DEF Names
        <3> QED BY <1>5, <1>7, <2>2, <3>1
    <2> QED BY <1>4, <2>1, <2>2
<1> QED BY <1>1, <1>4, <1>6, <1>12, <1>14, <1>15, <1>16

(* Then a name of the request holds what was asked for as well, and no     *)
(* other name gains more, nor anything unless it shares an item.           *)
LEMMA GrantAllGives ==
    ASSUME NEW items \in Seq(Item), NEW req \in Request, NEW n
    PROVE  LET before == Heldby(n, items)
               after  == Heldby(n, GrantAll(items, req))
           IN  /\ n \in Names(req) => after = before \cup Asked(req)
               /\ before \subseteq after
               /\ n \notin Names(req) =>
                    after \subseteq before \cup
                        IF n \in Sharing(items, req) THEN Asked(req) ELSE {}
<1>a. PICK list : list = GrantAll(items, req)
    OBVIOUS
<1>1. /\ list \in Seq(Item)
      /\ \A x \in ToSet(list) :
           \/ \E i \in ToSet(items) :
                /\ Names(x) = Names(i)
                /\ \/ Asked(x) = Asked(i)
                   \/ SoleItem(i, req) /\ Asked(x) = Asked(i) \cup Asked(req)
           \/ \E m \in Names(req) : Names(x) = {m} /\ Asked(x) = Asked(req)
      /\ \A i \in ToSet(items) :
           \E x \in ToSet(list) : Names(x) = Names(i) /\ Asked(i) \subseteq Asked(x)
      /\ \A m \in Names(req) :
           \E x \in ToSet(list) : m \in Names(x) /\ Asked(req) \subseteq Asked(x)
    BY <1>a, GrantAllIs
<1>2. \A a : a \in Heldby(n, items) <=>
                \E i \in ToSet(items) : n \in Names(i) /\ a \in Asked(i)
    BY HeldIs
<1>3. \A a : a \in Heldby(n, list) <=>
                \E i \in ToSet(list) : n \in Names(i) /\ a \in Asked(i)
    BY <1>1, HeldIs
<1>4. Heldby(n, items) \subseteq Heldby(n, list)
    BY <1>1, <1>2, <1>3
<1>5. n \in Names(req) => Asked(req) \subseteq Heldby(n, list)
    BY <1>1, <1>3
<1>6. ASSUME NEW a \in Heldby(n, list), a \notin Heldby(n, items)
      PROVE  a \in Asked(req) /\ (n \in Names(req) \/ n \in Sharing(items, req))
    <2>1. PICK x \in ToSet(list) : n \in Names(x) /\ a \in Asked(x)
        BY <1>3
    <2>2. CASE \E i \in ToSet(items) :
                  /\ Names(x) = Names(i)
                  /\ \/ Asked(x) = Asked(i)
                     \/ SoleItem(i, req) /\ Asked(x) = Asked(i) \cup Asked(req)
        <3>1. PICK i \in ToSet(items) :
                 /\ Names(x) = Names(i)
                 /\ \/ Asked(x) = Asked(i)
                    \/ SoleItem(i, req) /\ Asked(x) = Asked(i) \cup Asked(req)
            BY <2>2
        <3>2. a \notin Asked(i)
            BY <1>2, <1>6, <2>1, <3>1
        <3>3. SoleItem(i, req) /\ a \in Asked(req)
            BY <2>1, <3>1, <3>2
        <3>4. n \in Sharing(items, req)
            BY <2>1, <3>1, <3>3 DEF Sharing
        <3> QED BY <3>3, <3>4
    <2>3. CASE \E m \in Names(req) : Names(x) = {m} /\ Asked(x) = Asked(req)
        BY <2>1, <2>3
    <2> QED BY <1>1, <2>2, <2>3, Zenon
<1>7. n \in Names(req) => Heldby(n, list) = Heldby(n, items) \cup Asked(req)
    BY <1>4, <1>5, <1>6
<1>8. n \notin Names(req) =>
          Heldby(n, list) \subseteq
              Heldby(n, items) \cup IF n \in Sharing(items, req) THEN Asked(req) ELSE {}
    BY <1>6
<1> QED BY <1>a, <1>4, <1>7, <1>8

(* Without the names of a request, every other name holds what it held.    *)
LEMMA RemoveNamesIs ==
    ASSUME NEW items \in Seq(Item), NEW req \in Request
    PROVE  LET after == RemoveNames(items, req)
           IN  /\ after \in Seq(Item)
               /\ \A x \in ToSet(after) :
                    /\ Names(x) # {}
                    /\ \E i \in ToSet(items) :
                         Names(x) = Names(i) \ Names(req) /\ Asked(x) = Asked(i)
               /\ \A i \in ToSet(items) :
                    Names(i) \ Names(req) # {} =>
                        \E x \in ToSet(after) :
                            Names(x) = Names(i) \ Names(req) /\ Asked(x) = Asked(i)
<1>r. PICK rest : rest = [k \in DOMAIN items |-> Without(items[k], req)]
    OBVIOUS
<1>p. PICK places : places = {k \in DOMAIN rest : Names(rest[k]) # {}}
    OBVIOUS
<1>a. PICK after : after = Only(rest, places)
    OBVIOUS
<1>1. RemoveNames(items, req) = after
    BY <1>r, <1>p, <1>a DEF RemoveNames
<1>2. \A k \in DOMAIN items :
         /\ items[k] \in Item /\ items[k] \in ToSet(items)
         /\ Without(items[k], req) \in Item
         /\ Names(Without(items[k], req)) = Names(items[k]) \ Names(req)
         /\ Asked(Without(items[k], req)) = Asked(items[k])
    <2>1. \A k \in DOMAIN items : items[k] \in Item /\ items[k] \in ToSet(items)
        BY DEF ToSet
    <2> QED BY <2>1, WithoutIs
<1>3. rest \in Seq(Item) /\ DOMAIN rest = DOMAIN items
    <2>1. rest \in [DOMAIN items -> Item]
        BY <1>r, <1>2
    <2> QED BY <2>1, SameLength, Zenon
<1>4. places \in SUBSET DOMAIN rest
    BY <1>p
<1>5. after \in Seq(Item) /\ ToSet(after) = {rest[k] : k \in places}
    BY <1>a, <1>3, <1>4, OnlyRange
<1>6. \A k \in DOMAIN items : rest[k] = Without(items[k], req)
    BY <1>r
<1>7. \A x \in ToSet(after) :
         /\ Names(x) # {}
         /\ \E i \in ToSet(items) : Names(x) = Names(i) \ Names(req) /\ Asked(x) = Asked(i)
    <2> SUFFICES ASSUME NEW k \in places
                 PROVE  /\ Names(rest[k]) # {}
                        /\ \E i \in ToSet(items) :
                             Names(rest[k]) = Names(i) \ Names(req) /\ Asked(rest[k]) = Asked(i)
        BY <1>5
    <2> QED BY <1>p, <1>2, <1>3, <1>6
<1>8. ASSUME NEW i \in ToSet(items), Names(i) \ Names(req) # {}
      PROVE  \E x \in ToSet(after) : Names(x) = Names(i) \ Names(req) /\ Asked(x) = Asked(i)
    <2>1. PICK k \in DOMAIN items : i = items[k]
        BY DEF ToSet
    <2>2. Names(rest[k]) = Names(i) \ Names(req) /\ Asked(rest[k]) = Asked(i)
        BY <1>2, <1>6, <2>1
    <2>3. k \in places
        BY <1>p, <1>3, <1>8, <2>2
    <2> QED BY <1>5, <2>2, <2>3
<1> QED BY <1>1, <1>5, <1>7, <1>8

LEMMA RemoveNamesTakes ==
    ASSUME NEW items \in Seq(Item), NEW req \in Request, NEW n
    PROVE  Heldby(n, RemoveNames(items, req)) =
               IF n \in Names(req) THEN {} ELSE Heldby(n, items)
<1>a. PICK list : list = RemoveNames(items, req)
    OBVIOUS
<1>1. /\ list \in Seq(Item)
      /\ \A x \in ToSet(list) :
           \E i \in ToSet(items) : Names(x) = Names(i) \ Names(req) /\ Asked(x) = Asked(i)
      /\ \A i \in ToSet(items) :
           Names(i) \ Names(req) # {} =>
               \E x \in ToSet(list) : Names(x) = Names(i) \ Names(req) /\ Asked(x) = Asked(i)
    BY <1>a, RemoveNamesIs
<1>2. \A a : a \in Heldby(n, items) <=>
                \E i \in ToSet(items) : n \in Names(i) /\ a \in Asked(i)
    BY HeldIs
<1>3. \A a : a \in Heldby(n, list) <=>
                \E i \in ToSet(list) : n \in Names(i) /\ a \in Asked(i)
    BY <1>1, HeldIs
<1>4. CASE n \in Names(req)
    <2>1. \A x \in ToSet(list) : n \notin Names(x)
        BY <1>1, <1>4
    <2>2. Heldby(n, list) = {}
        BY <1>3, <2>1
    <2> QED BY <1>a, <1>4, <2>2
<1>5. CASE n \notin Names(req)
    <2>1. ASSUME NEW a PROVE a \in Heldby(n, list) => a \in Heldby(n, items)
        BY <1>1, <1>2, <1>3
    <2>2. ASSUME NEW a PROVE a \in Heldby(n, items) => a \in Heldby(n, list)
        <3> HAVE a \in Heldby(n, items)
        <3>1. PICK i \in ToSet(items) : n \in Names(i) /\ a \in Asked(i)
            BY <1>2
        <3>2. n \in Names(i) \ Names(req)
            BY <1>5, <3>1
        <3> QED BY <1>1, <1>3, <3>1, <3>2
    <2> QED BY <1>a, <1>5, <2>1, <2>2
<1> QED BY <1>4, <1>5

(* A grant, with or without replaceExistingPermissions, gives as asked,    *)
(* before the store passes over what it does not know.                     *)
AllAsAsked(copy, items) ==
    \A n \in Users \cup Groups :
        LET before == Heldby(n, copy.items)
            after  == Heldby(n, items)
        IN  IF n \in Names(copy.req)
            THEN IF copy.req.replace THEN after = Asked(copy.req)
                 ELSE after = before \cup Asked(copy.req)
            ELSE /\ before \subseteq after
                 /\ after \subseteq before \cup
                        IF n \in Sharing(copy.items, copy.req) THEN Asked(copy.req) ELSE {}

LEMMA GrantedAsAsked ==
    ASSUME NEW copy, copy.items \in Seq(Item), copy.req \in Request
    PROVE  /\ Granted(copy.items, copy.req) \in Seq(Item)
           /\ AllAsAsked(copy, Granted(copy.items, copy.req))
<1>i. PICK items \in Seq(Item) : items = copy.items
    OBVIOUS
<1>q. PICK req \in Request : req = copy.req
    OBVIOUS
<1>k. PICK kept : kept = Kept(items, req)
    OBVIOUS
<1>1. req.replace \in BOOLEAN /\ Names(req) = req.users \cup req.groups
    BY RequestIs
<1>2. kept \in Seq(Item)
    BY <1>k, <1>1, RemoveNamesIs DEF Kept
<1>3. GrantAll(kept, req) \in Seq(Item)
    BY <1>2, GrantAllIs
<1>4. ASSUME NEW n \in Users \cup Groups
      PROVE  LET before == Heldby(n, items)
                 after  == Heldby(n, GrantAll(kept, req))
             IN  IF n \in Names(req)
                 THEN IF req.replace THEN after = Asked(req) ELSE after = before \cup Asked(req)
                 ELSE /\ before \subseteq after
                      /\ after \subseteq before \cup
                             IF n \in Sharing(items, req) THEN Asked(req) ELSE {}
    <2>1. CASE ~req.replace
        <3>1. kept = items
            BY <1>k, <2>1 DEF Kept
        <3> QED BY <2>1, <3>1, GrantAllGives
    <2>2. CASE req.replace
        <3>1. kept = RemoveNames(items, req)
            BY <1>k, <2>2 DEF Kept
        <3>2. Heldby(n, kept) = IF n \in Names(req) THEN {} ELSE Heldby(n, items)
            BY <3>1, RemoveNamesTakes
        <3>3. Sharing(kept, req) = {}
            <4>1. \A x \in ToSet(kept) : \E i : Names(x) = Names(i) \ Names(req)
                BY <3>1, RemoveNamesIs
            <4>2. ASSUME NEW x \in ToSet(kept), SoleItem(x, req) PROVE FALSE
                <5>1. PICK k \in Kinds : \E m \in req[k] : x[k] = {m}
                    BY <4>2 DEF SoleItem
                <5>2. PICK m \in req[k] : x[k] = {m}
                    BY <5>1
                <5>3. m \in Names(x) /\ m \in Names(req)
                    BY <5>2 DEF Kinds, Names
                <5> QED BY <4>1, <5>3
            <4> QED BY <4>2 DEF Sharing
        <3>4. /\ n \in Names(req) =>
                    Heldby(n, GrantAll(kept, req)) = Heldby(n, kept) \cup Asked(req)
              /\ Heldby(n, kept) \subseteq Heldby(n, GrantAll(kept, req))
              /\ n \notin Names(req) =>
                    Heldby(n, GrantAll(kept, req)) \subseteq Heldby(n, kept)
            BY <1>2, <3>3, GrantAllGives
        <3> QED BY <2>2, <3>2, <3>4
    <2> QED BY <1>1, <2>1, <2>2
<1>5. Granted(items, req) = GrantAll(kept, req)
    BY <1>k DEF Granted
<1> QED BY <1>i, <1>q, <1>3, <1>4, <1>5 DEF AllAsAsked

LEMMA GrantStoredAsAsked ==
    ASSUME NEW copy, copy.items \in Seq(KnownItem), copy.req \in Request,
           NEW items \in Seq(Item), AllAsAsked(copy, items)
    PROVE  GrantAsAsked(copy, StoredItems(items))
<1> DEFINE names == Names(copy.req) \cap KnownNames
           asked == Asked(copy.req) \cap KnownAsked
<1> SUFFICES ASSUME NEW n \in Users \cup Groups,
                    NEW before, before = Heldby(n, copy.items),
                    NEW after, after = Heldby(n, StoredItems(items))
             PROVE  IF n \in names
                    THEN IF copy.req.replace THEN after = asked ELSE after = before \cup asked
                    ELSE /\ before \subseteq after
                         /\ after \subseteq before \cup
                                IF n \in Sharing(copy.items, copy.req) THEN asked ELSE {}
    BY DEF GrantAsAsked, KnownAsked
<1> PICK all : all = Heldby(n, items)
    OBVIOUS
<1>1. before = IF n \in KnownNames THEN before \cap KnownAsked ELSE {}
    BY KnownGives
<1>2. after = IF n \in KnownNames THEN all \cap KnownAsked ELSE {}
    BY StoredGives
<1>3. IF n \in Names(copy.req)
      THEN IF copy.req.replace THEN all = Asked(copy.req) ELSE all = before \cup Asked(copy.req)
      ELSE /\ before \subseteq all
           /\ all \subseteq before \cup
                  IF n \in Sharing(copy.items, copy.req) THEN Asked(copy.req) ELSE {}
    BY DEF AllAsAsked
<1> QED BY <1>1, <1>2, <1>3

(* Items that the validator would refuse: a grant of known names and       *)
(* access types leaves one only where there was one.                       *)
AllValid(items) == \A i \in ToSet(items) : ValidItem(i)

LEMMA GrantAllStores ==
    ASSUME NEW items \in Seq(KnownItem), NEW req \in Request, ~Unknown(req),
           NEW x \in ToSet(StoredItems(GrantAll(items, req)))
    PROVE  \/ ValidItem(x)
           \/ \E i \in ToSet(items) : Names(x) = Names(i) /\ Asked(x) = Asked(i)
<1>a. PICK list : list = GrantAll(items, req)
    OBVIOUS
<1>0. items \in Seq(Item)
    BY KnownIsStored
<1>1. /\ list \in Seq(Item)
      /\ \A y \in ToSet(list) :
           \/ \E i \in ToSet(items) :
                /\ Names(y) = Names(i)
                /\ \/ Asked(y) = Asked(i)
                   \/ SoleItem(i, req) /\ Asked(y) = Asked(i) \cup Asked(req)
           \/ \E m \in Names(req) : Names(y) = {m} /\ Asked(y) = Asked(req)
    BY <1>0, <1>a, GrantAllIs
<1>2. PICK y \in ToSet(list) : x = Stored(y)
    BY <1>1, <1>a, StoredItemsAre
<1>3. y \in Item
    BY <1>1 DEF ToSet
<1>4. x \in Item /\ Names(x) = Names(y) \cap KnownNames /\ Asked(x) = Asked(y) \cap KnownAsked
    BY <1>2, <1>3, StoredIs DEF KnownItem
<1>5. Names(req) \subseteq KnownNames /\ Asked(req) \subseteq KnownAsked /\ Asked(req) # {}
    BY RequestIs DEF Unknown, Asked, KnownAsked
<1>6. CASE \E m \in Names(req) : Names(y) = {m} /\ Asked(y) = Asked(req)
    <2>1. Names(x) # {} /\ Asked(x) # {}
        BY <1>4, <1>5, <1>6
    <2> QED BY <1>4, <2>1, ItemIs
<1>7. CASE \E i \in ToSet(items) :
              /\ Names(y) = Names(i)
              /\ \/ Asked(y) = Asked(i)
                 \/ SoleItem(i, req) /\ Asked(y) = Asked(i) \cup Asked(req)
    <2>1. PICK i \in ToSet(items) :
              /\ Names(y) = Names(i)
              /\ \/ Asked(y) = Asked(i)
                 \/ SoleItem(i, req) /\ Asked(y) = Asked(i) \cup Asked(req)
        BY <1>7
    <2>2. i \in KnownItem
        BY DEF ToSet
    <2>3. Names(i) \subseteq KnownNames /\ Asked(i) \subseteq KnownAsked
        BY <2>2, KnownItemIs
    <2>4. CASE Asked(y) = Asked(i)
        BY <1>4, <2>1, <2>3, <2>4
    <2>5. CASE SoleItem(i, req) /\ Asked(y) = Asked(i) \cup Asked(req)
        <3>1. Names(i) # {}
            BY <2>5 DEF SoleItem, Kinds, Names
        <3>2. Names(x) # {} /\ Asked(x) # {}
            BY <1>4, <1>5, <2>1, <2>3, <2>5, <3>1
        <3> QED BY <1>4, <3>2, ItemIs
    <2> QED BY <2>1, <2>4, <2>5
<1> QED BY <1>1, <1>6, <1>7, Zenon

(* Without the names of a request, an item is as valid as it was, or gone. *)
LEMMA RemoveNamesStores ==
    ASSUME NEW items \in Seq(KnownItem), NEW req \in Request, NEW x \in ToSet(RemoveNames(items, req))
    PROVE  x \in KnownItem /\ (ValidItem(x) \/ LeftOf(x, items))
<1>0. items \in Seq(Item)
    BY KnownIsStored
<1>a. PICK list : list = RemoveNames(items, req)
    OBVIOUS
<1>1. list \in Seq(Item) /\ x \in ToSet(list)
    BY <1>0, <1>a, RemoveNamesIs
<1>2. /\ Names(x) # {}
      /\ \E i \in ToSet(items) : Names(x) = Names(i) \ Names(req) /\ Asked(x) = Asked(i)
    BY <1>0, RemoveNamesIs
<1>3. PICK i \in ToSet(items) : Names(x) = Names(i) \ Names(req) /\ Asked(x) = Asked(i)
    BY <1>2
<1>4. i \in KnownItem /\ x \in Item
    BY <1>1 DEF ToSet
<1>5. i \in Item /\ Names(i) \subseteq KnownNames /\ Asked(i) \subseteq KnownAsked
    BY <1>4, KnownItemIs
<1>6. x \in KnownItem
    <2>1. x.accesses \subseteq KnownTypes
        <3>1. x.accesses \subseteq Accesses /\ x.accesses \subseteq Asked(x)
            BY <1>4, ItemIs DEF Asked
        <3> QED BY <1>3, <1>5, <3>1, AdminAssumption DEF KnownAsked
    <2> QED BY <1>3, <1>4, <1>5, <2>1 DEF KnownItem
<1>7. CASE ValidItem(i)
    <2>1. Asked(i) # {}
        BY <1>5, <1>7, ItemIs
    <2>2. Names(x) # {} /\ Asked(x) # {}
        BY <1>2, <1>3, <2>1
    <2> QED BY <1>4, <1>6, <2>2, ItemIs
<1>8. CASE ~ValidItem(i)
    <2>1. Names(x) \subseteq Names(i) /\ Asked(x) = Asked(i) /\ i \in ToSet(items)
        BY <1>3
    <2> QED BY <1>6, <1>8, <2>1, Zenon DEF LeftOf
<1> QED BY <1>6, <1>7, <1>8

LEMMA GrantStores ==
    ASSUME NEW items \in Seq(KnownItem), NEW req \in Request, ~Unknown(req),
           NEW x \in ToSet(StoredItems(Granted(items, req)))
    PROVE  ValidItem(x) \/ LeftOf(x, items)
<1>k. PICK kept : kept = Kept(items, req)
    OBVIOUS
<1>1. items \in Seq(Item)
    BY KnownIsStored
<1>2. kept \in Seq(KnownItem) /\ \A i \in ToSet(kept) : ValidItem(i) \/ LeftOf(i, items)
    <2>1. CASE ~req.replace
        <3>1. kept = items
            BY <1>k, <2>1 DEF Kept
        <3>2. \A i \in ToSet(items) : ValidItem(i) \/ LeftOf(i, items)
            BY DEF LeftOf
        <3> QED BY <3>1, <3>2
    <2>2. CASE req.replace
        <3>1. kept = RemoveNames(items, req)
            BY <1>k, <2>2 DEF Kept
        <3>2. kept \in Seq(Item) /\ \A i \in ToSet(kept) : i \in KnownItem /\ (ValidItem(i) \/ LeftOf(i, items))
            BY <1>1, <3>1, RemoveNamesIs, RemoveNamesStores
        <3>3. \A k \in DOMAIN kept : kept[k] \in KnownItem
            BY <3>2 DEF ToSet
        <3>4. kept \in Seq(KnownItem)
            BY <3>2, <3>3
        <3> QED BY <3>2, <3>4
    <2> QED BY <2>1, <2>2
<1>3. Granted(items, req) = GrantAll(kept, req)
    BY <1>k DEF Granted
<1>4. CASE \E i \in ToSet(kept) : Names(x) = Names(i) /\ Asked(x) = Asked(i)
    <2>1. PICK i \in ToSet(kept) : Names(x) = Names(i) /\ Asked(x) = Asked(i)
        BY <1>4
    <2>2. i \in Item
        BY <1>2, KnownItemIs DEF ToSet
    <2>3. x \in Item
        <3>1. GrantAll(kept, req) \in Seq(Item)
            BY <1>2, KnownIsStored, GrantAllIs
        <3>2. StoredItems(GrantAll(kept, req)) \in Seq(Item)
            BY <3>1, StoredItemsAre
        <3> QED BY <1>3, <3>2 DEF ToSet
    <2>4. CASE ValidItem(i)
        BY <2>1, <2>2, <2>3, <2>4, ItemIs
    <2>5. CASE LeftOf(i, items)
        BY <2>1, <2>5 DEF LeftOf
    <2> QED BY <1>2, <2>4, <2>5
<1> QED BY <1>2, <1>3, <1>4, GrantAllStores

-----------------------------------------------------------------------------
(* What a revoke makes of a list of items.                                 *)

(* One pass: the items that were found lose what was asked for.            *)
LessFor(items, k, req, after, found) ==
    /\ after \in Seq(Item)
    /\ DOMAIN after = DOMAIN items
    /\ \A at \in DOMAIN items :
         /\ after[at].users = items[at].users /\ after[at].groups = items[at].groups
         /\ Names(after[at]) = Names(items[at])
         /\ Asked(after[at]) = Asked(items[at]) \ IF at \in found THEN Asked(req) ELSE {}
    /\ \A at \in found : at \in DOMAIN items /\ \E n \in req[k] : items[at][k] = {n}

LEMMA RevokeFromIs ==
    ASSUME NEW items \in Seq(Item), NEW req \in Request, NEW k \in Kinds
    PROVE  LessFor(items, k, req, RevokeFrom(items, k, req[k], req), Found(items, k, req[k]))
<1>f. PICK found : found = Found(items, k, req[k])
    OBVIOUS
<1>a. PICK after : after = RevokeFrom(items, k, req[k], req)
    OBVIOUS
<1>1. after = [at \in DOMAIN items |-> IF at \in found THEN Narrowed(items[at], req)
                                        ELSE items[at]]
    BY <1>f, <1>a DEF RevokeFrom
<1>2. \A at \in DOMAIN items : items[at] \in Item
    OBVIOUS
<1>3. \A at \in DOMAIN items :
         /\ Narrowed(items[at], req) \in Item
         /\ Narrowed(items[at], req).users = items[at].users
         /\ Narrowed(items[at], req).groups = items[at].groups
         /\ Names(Narrowed(items[at], req)) = Names(items[at])
         /\ Asked(Narrowed(items[at], req)) = Asked(items[at]) \ Asked(req)
    BY <1>2, NarrowedIs
<1>4. after \in Seq(Item) /\ DOMAIN after = DOMAIN items
    <2>1. after \in [DOMAIN items -> Item]
        BY <1>1, <1>2, <1>3
    <2> QED BY <2>1, SameLength, Zenon
<1>5. ASSUME NEW at \in DOMAIN items
      PROVE  /\ after[at].users = items[at].users /\ after[at].groups = items[at].groups
             /\ Names(after[at]) = Names(items[at])
             /\ Asked(after[at]) = Asked(items[at]) \ IF at \in found THEN Asked(req) ELSE {}
    <2>1. CASE at \in found
        <3>1. after[at] = Narrowed(items[at], req)
            BY <1>1, <2>1
        <3> QED BY <1>3, <2>1, <3>1
    <2>2. CASE at \notin found
        <3>1. after[at] = items[at]
            BY <1>1, <2>2
        <3> QED BY <2>2, <3>1
    <2> QED BY <2>1, <2>2
<1>6. \A at \in found : at \in DOMAIN items /\ \E n \in req[k] : items[at][k] = {n}
    BY <1>f, FoundIs
<1> QED BY <1>f, <1>a, <1>4, <1>5, <1>6 DEF LessFor

(* After both passes every item has its names still, and has lost nothing, *)
(* or what was asked for, and that only if it is for one name of the       *)
(* request alone; the items that were found have lost it.                  *)
Less(items, req, after) ==
    /\ after \in Seq(Item)
    /\ DOMAIN after = DOMAIN items
    /\ \A at \in DOMAIN items :
         /\ Names(after[at]) = Names(items[at])
         /\ \/ Asked(after[at]) = Asked(items[at])
            \/ /\ SoleItem(items[at], req)
               /\ Asked(after[at]) = Asked(items[at]) \ Asked(req)
    /\ \A k \in Kinds : \A n \in req[k] :
         \/ \A at \in DOMAIN items : items[at][k] # {n}
         \/ \E at \in DOMAIN items :
              /\ items[at][k] = {n}
              /\ Asked(after[at]) = Asked(items[at]) \ Asked(req)

LEMMA RevokeAllIs ==
    ASSUME NEW items \in Seq(Item), NEW req \in Request
    PROVE  Less(items, req, RevokeAll(items, req))
<1>m. PICK mid : mid = RevokeFrom(items, "users", req["users"], req)
    OBVIOUS
<1>a. PICK after : after = RevokeFrom(mid, "groups", req["groups"], req)
    OBVIOUS
<1>u. PICK ofUser : ofUser = Found(items, "users", req["users"])
    OBVIOUS
<1>g. PICK ofGroup : ofGroup = Found(mid, "groups", req["groups"])
    OBVIOUS
<1>1. RevokeAll(items, req) = after
    BY <1>m, <1>a DEF RevokeAll
<1>2. "users" \in Kinds /\ "groups" \in Kinds
    BY DEF Kinds
<1>b. LessFor(items, "users", req, mid, ofUser)
    BY <1>2, <1>m, <1>u, RevokeFromIs
<1>3. /\ mid \in Seq(Item)
      /\ DOMAIN mid = DOMAIN items
      /\ \A at \in DOMAIN items :
           /\ mid[at].users = items[at].users /\ mid[at].groups = items[at].groups
           /\ Names(mid[at]) = Names(items[at])
           /\ Asked(mid[at]) = Asked(items[at]) \ IF at \in ofUser THEN Asked(req) ELSE {}
      /\ \A at \in ofUser : at \in DOMAIN items /\ \E n \in req["users"] : items[at]["users"] = {n}
    BY <1>b, Zenon DEF LessFor
<1>c. LessFor(mid, "groups", req, after, ofGroup)
    BY <1>2, <1>3, <1>a, <1>g, RevokeFromIs
<1>4. /\ after \in Seq(Item)
      /\ DOMAIN after = DOMAIN mid
      /\ \A at \in DOMAIN mid :
           /\ after[at].users = mid[at].users /\ after[at].groups = mid[at].groups
           /\ Names(after[at]) = Names(mid[at])
           /\ Asked(after[at]) = Asked(mid[at]) \ IF at \in ofGroup THEN Asked(req) ELSE {}
      /\ \A at \in ofGroup : at \in DOMAIN mid /\ \E n \in req["groups"] : mid[at]["groups"] = {n}
    BY <1>c, Zenon DEF LessFor
<1>5. \A at \in DOMAIN items : at \in ofUser \cup ofGroup => SoleItem(items[at], req)
    BY <1>2, <1>3, <1>4 DEF SoleItem
<1>6. ASSUME NEW at \in DOMAIN items
      PROVE  /\ Names(after[at]) = Names(items[at])
             /\ at \notin ofUser \cup ofGroup => Asked(after[at]) = Asked(items[at])
             /\ at \in ofUser \cup ofGroup => Asked(after[at]) = Asked(items[at]) \ Asked(req)
    BY <1>3, <1>4
<1>7. ASSUME NEW n \in req["users"]
      PROVE  \/ \A at \in DOMAIN items : items[at]["users"] # {n}
             \/ \E at \in DOMAIN items :
                  /\ items[at]["users"] = {n}
                  /\ Asked(after[at]) = Asked(items[at]) \ Asked(req)
    <2>a. PICK at : at = ItemFor(items, "users", n)
        OBVIOUS
    <2>1. CASE at = 0
        BY <2>a, <2>1, ItemForIs
    <2>2. CASE at # 0
        <3>1. at \in DOMAIN items /\ items[at]["users"] = {n}
            BY <2>a, <2>2, ItemForIs
        <3>2. at \in ofUser
            BY <1>u, <2>a, <2>2 DEF Found
        <3> QED BY <1>6, <3>1, <3>2
    <2> QED BY <2>1, <2>2
<1>8. ASSUME NEW n \in req["groups"]
      PROVE  \/ \A at \in DOMAIN items : items[at]["groups"] # {n}
             \/ \E at \in DOMAIN items :
                  /\ items[at]["groups"] = {n}
                  /\ Asked(after[at]) = Asked(items[at]) \ Asked(req)
    <2>a. PICK at : at = ItemFor(mid, "groups", n)
        OBVIOUS
    <2>1. CASE at = 0
        <3>1. \A i \in DOMAIN mid : mid[i]["groups"] # {n}
            BY <1>3, <2>a, <2>1, ItemForIs
        <3> QED BY <1>3, <3>1
    <2>2. CASE at # 0
        <3>1. at \in DOMAIN mid /\ mid[at]["groups"] = {n}
            BY <1>3, <2>a, <2>2, ItemForIs
        <3>2. at \in ofGroup
            BY <1>g, <2>a, <2>2 DEF Found
        <3> QED BY <1>3, <1>6, <3>1, <3>2
    <2> QED BY <2>1, <2>2
<1>9. \A k \in Kinds : \A n \in req[k] :
         \/ \A at \in DOMAIN items : items[at][k] # {n}
         \/ \E at \in DOMAIN items :
              /\ items[at][k] = {n}
              /\ Asked(after[at]) = Asked(items[at]) \ Asked(req)
    <2>1. \A k \in Kinds : k = "users" \/ k = "groups"
        BY DEF Kinds
    <2> QED BY <1>7, <1>8, <2>1, Zenon
<1>10. \A at \in DOMAIN items :
          /\ Names(after[at]) = Names(items[at])
          /\ \/ Asked(after[at]) = Asked(items[at])
             \/ /\ SoleItem(items[at], req)
                /\ Asked(after[at]) = Asked(items[at]) \ Asked(req)
    BY <1>5, <1>6
<1>11. Less(items, req, after)
    BY <1>3, <1>4, <1>9, <1>10, Zenon DEF Less
<1> QED BY <1>1, <1>11

(* compactPolicy takes only items that give nothing to anybody.            *)
LEMMA CompactTakes ==
    ASSUME NEW items \in Seq(Item), NEW n
    PROVE  /\ Compact(items) \in Seq(Item)
           /\ AllValid(Compact(items))
           /\ ToSet(Compact(items)) \subseteq ToSet(items)
           /\ Heldby(n, Compact(items)) = Heldby(n, items)
<1>p. PICK places : places = {k \in DOMAIN items : ValidItem(items[k])}
    OBVIOUS
<1>a. PICK list : list = Only(items, places)
    OBVIOUS
<1>1. Compact(items) = list
    BY <1>p, <1>a DEF Compact
<1>2. list \in Seq(Item) /\ ToSet(list) = {items[k] : k \in places}
    <2>1. places \in SUBSET DOMAIN items
        BY <1>p
    <2> QED BY <1>a, <2>1, OnlyRange
<1>3. AllValid(list)
    BY <1>p, <1>2 DEF AllValid
<1>4. \A a : a \in Heldby(n, list) <=> \E i \in ToSet(list) : n \in Names(i) /\ a \in Asked(i)
    BY <1>2, HeldIs
<1>5. \A a : a \in Heldby(n, items) <=> \E i \in ToSet(items) : n \in Names(i) /\ a \in Asked(i)
    BY HeldIs
<1>6. ToSet(list) \subseteq ToSet(items)
    BY <1>p, <1>2 DEF ToSet
<1>7. ASSUME NEW i \in ToSet(items), Names(i) # {}, Asked(i) # {}
      PROVE  i \in ToSet(list)
    <2>1. PICK k \in DOMAIN items : i = items[k]
        BY DEF ToSet
    <2>2. ValidItem(i)
        BY <1>7, <2>1, ItemIs
    <2> QED BY <1>p, <1>2, <2>1, <2>2
<1>8. Heldby(n, list) = Heldby(n, items)
    BY <1>4, <1>5, <1>6, <1>7
<1> QED BY <1>1, <1>2, <1>3, <1>6, <1>8

(* What the two passes take from the holder of a name.                     *)
LEMMA RevokeAllTakes ==
    ASSUME NEW items \in Seq(Item), NEW req \in Request, NEW n
    PROVE  LET before == Heldby(n, items)
               after  == Heldby(n, RevokeAll(items, req))
           IN  /\ after \subseteq before
               /\ n \in Names(req) /\ Findable(n, items) => after = before \ Asked(req)
               /\ before \ after \subseteq IF n \in Sharing(items, req) THEN Asked(req) ELSE {}
<1>a. PICK list : list = RevokeAll(items, req)
    OBVIOUS
<1>b. PICK before : before = Heldby(n, items)
    OBVIOUS
<1>c. PICK after : after = Heldby(n, list)
    OBVIOUS
<1>0. Less(items, req, list)
    BY <1>a, RevokeAllIs
<1>1. /\ list \in Seq(Item) /\ DOMAIN list = DOMAIN items
      /\ \A at \in DOMAIN items :
           /\ Names(list[at]) = Names(items[at])
           /\ \/ Asked(list[at]) = Asked(items[at])
              \/ /\ SoleItem(items[at], req)
                 /\ Asked(list[at]) = Asked(items[at]) \ Asked(req)
    BY <1>0, Zenon DEF Less
<1>2. \A k \in Kinds : \A m \in req[k] :
         \/ \A at \in DOMAIN items : items[at][k] # {m}
         \/ \E at \in DOMAIN items :
              /\ items[at][k] = {m}
              /\ Asked(list[at]) = Asked(items[at]) \ Asked(req)
    BY <1>0, Zenon DEF Less
<1>3. \A a : a \in before <=>
                \E at \in DOMAIN items : n \in Names(items[at]) /\ a \in Asked(items[at])
    BY <1>b, HeldIs DEF ToSet
<1>4. \A a : a \in after <=>
                \E at \in DOMAIN items : n \in Names(items[at]) /\ a \in Asked(list[at])
    BY <1>1, <1>c, HeldIs DEF ToSet
<1>5. \A at \in DOMAIN items : Asked(list[at]) \subseteq Asked(items[at])
    BY <1>1
<1>6. after \subseteq before
    BY <1>3, <1>4, <1>5
<1>7. ASSUME NEW a \in before, a \notin after
      PROVE  a \in Asked(req) /\ n \in Sharing(items, req)
    <2>1. PICK at \in DOMAIN items : n \in Names(items[at]) /\ a \in Asked(items[at])
        BY <1>3
    <2>2. a \notin Asked(list[at])
        BY <1>4, <1>7, <2>1
    <2>3. SoleItem(items[at], req) /\ a \in Asked(req)
        BY <1>1, <2>1, <2>2
    <2>4. items[at] \in ToSet(items)
        BY DEF ToSet
    <2>5. n \in Sharing(items, req)
        BY <2>1, <2>3, <2>4 DEF Sharing
    <2> QED BY <2>3, <2>5
<1>8. ASSUME n \in Names(req), Findable(n, items)
      PROVE  after = before \ Asked(req)
    <2> DEFINE of == {k \in DOMAIN items : n \in Names(items[k])}
    <2>1. PICK at : of = {at}
        <3>1. Cardinality(of) = 1
            BY <1>8 DEF Findable
        <3>2. IsFiniteSet(of)
            <4>1. Len(items) \in Nat /\ of \in SUBSET (1..Len(items))
                OBVIOUS
            <4>2. IsFiniteSet(1..Len(items))
                BY <4>1, FS_Interval
            <4> HIDE DEF of
            <4> QED BY <4>1, <4>2, FS_Subset, Zenon
        <3> QED BY <3>1, <3>2, FS_Singleton
    <2>2. /\ at \in DOMAIN items /\ n \in Names(items[at])
          /\ \A k \in DOMAIN items : n \in Names(items[k]) => k = at
        BY <2>1
    <2>3. items[at].users = {n} \/ items[at].groups = {n}
        BY <1>8, <2>1 DEF Findable
    <2>4. /\ items[at] \in Item
          /\ req.users \subseteq Users /\ req.groups \subseteq Groups
          /\ n \in req.users \/ n \in req.groups
        BY <1>8, <2>2, RequestIs
    <2>5. PICK k \in Kinds : n \in req[k] /\ items[at][k] = {n}
        <3>1. items[at].users \subseteq Users /\ items[at].groups \subseteq Groups
            BY <2>4, ItemIs
        <3>2. \/ n \in req["users"] /\ items[at]["users"] = {n}
              \/ n \in req["groups"] /\ items[at]["groups"] = {n}
            BY <2>3, <2>4, <3>1, NamesAssumption
        <3> QED BY <3>2 DEF Kinds
    <2>6. \A j \in DOMAIN items : items[j][k] = {n} => j = at
        <3>1. \A j \in DOMAIN items : items[j][k] = {n} => n \in Names(items[j])
            BY DEF Names, Kinds
        <3> QED BY <2>2, <3>1
    <2>7. Asked(list[at]) = Asked(items[at]) \ Asked(req)
        <3>1. \/ \A i \in DOMAIN items : items[i][k] # {n}
              \/ \E i \in DOMAIN items : /\ items[i][k] = {n}
                                         /\ Asked(list[i]) = Asked(items[i]) \ Asked(req)
            BY <1>2, <2>5, Zenon
        <3>2. PICK i \in DOMAIN items : /\ items[i][k] = {n}
                                       /\ Asked(list[i]) = Asked(items[i]) \ Asked(req)
            BY <2>2, <2>5, <3>1, Zenon
        <3>3. i = at
            BY <2>6, <3>2, Zenon
        <3> QED BY <3>2, <3>3
    <2>8. \A a : a \in before <=> a \in Asked(items[at])
        BY <1>3, <2>2
    <2>9. \A a : a \in after <=> a \in Asked(list[at])
        BY <1>4, <2>2
    <2> QED BY <2>7, <2>8, <2>9
<1>9. before \ after \subseteq IF n \in Sharing(items, req) THEN Asked(req) ELSE {}
    BY <1>7
<1> QED BY <1>a, <1>b, <1>c, <1>6, <1>8, <1>9

(* A revoke, with or without replaceExistingPermissions, takes as asked.   *)
LEMMA RevokedAsAsked ==
    ASSUME NEW copy, copy.items \in Seq(Item), copy.req \in Request
    PROVE  /\ Revoked(copy.items, copy.req) \in Seq(Item)
           /\ RevokeAsAsked(copy, Revoked(copy.items, copy.req))
<1>i. PICK items \in Seq(Item) : items = copy.items
    OBVIOUS
<1>q. PICK req \in Request : req = copy.req
    OBVIOUS
<1>r. PICK list : list = Revoked(items, req)
    OBVIOUS
<1>1. CASE req.replace
    <2>1. list = RemoveNames(items, req)
        BY <1>r, <1>1 DEF Revoked
    <2>2. list \in Seq(Item)
        BY <2>1, RemoveNamesIs
    <2>3. \A n : Heldby(n, list) = IF n \in Names(req) THEN {} ELSE Heldby(n, items)
        BY <2>1, RemoveNamesTakes
    <2>4. RevokeAsAsked(copy, list)
        BY <1>i, <1>q, <1>1, <2>3 DEF RevokeAsAsked
    <2> QED BY <1>i, <1>q, <1>r, <2>2, <2>4
<1>2. CASE ~req.replace
    <2>1. list = Compact(RevokeAll(items, req))
        BY <1>r, <1>2 DEF Revoked
    <2>2. RevokeAll(items, req) \in Seq(Item)
        BY RevokeAllIs DEF Less
    <2>3. list \in Seq(Item)
        BY <2>1, <2>2, CompactTakes
    <2>4. \A n : Heldby(n, list) = Heldby(n, RevokeAll(items, req))
        BY <2>1, <2>2, CompactTakes
    <2>5. \A n : /\ Heldby(n, list) \subseteq Heldby(n, items)
                 /\ n \in Names(req) /\ Findable(n, items) =>
                        Heldby(n, list) = Heldby(n, items) \ Asked(req)
                 /\ Heldby(n, items) \ Heldby(n, list) \subseteq
                        IF n \in Sharing(items, req) THEN Asked(req) ELSE {}
        BY <2>4, RevokeAllTakes
    <2>6. RevokeAsAsked(copy, list)
        BY <1>i, <1>q, <1>2, <2>5 DEF RevokeAsAsked
    <2> QED BY <1>i, <1>q, <1>r, <2>3, <2>6
<1> QED BY <1>1, <1>2

(* The store knows all that is left of items that it knew.                 *)
LEMMA RevokeStoredAsAsked ==
    ASSUME NEW copy, copy.items \in Seq(KnownItem), copy.req \in Request,
           NEW items \in Seq(Item), RevokeAsAsked(copy, items)
    PROVE  RevokeAsAsked(copy, StoredItems(items))
<1>1. ASSUME NEW n \in Users \cup Groups
      PROVE  Heldby(n, StoredItems(items)) = Heldby(n, items)
    <2>1. Heldby(n, items) \subseteq Heldby(n, copy.items)
        BY DEF RevokeAsAsked
    <2>2. Heldby(n, copy.items) = IF n \in KnownNames THEN Heldby(n, copy.items) \cap KnownAsked ELSE {}
        BY KnownGives
    <2>3. Heldby(n, StoredItems(items)) = IF n \in KnownNames THEN Heldby(n, items) \cap KnownAsked ELSE {}
        BY StoredGives
    <2> QED BY <2>1, <2>2, <2>3
<1> QED BY <1>1 DEF RevokeAsAsked

LEMMA RevokeStores ==
    ASSUME NEW items \in Seq(KnownItem), NEW req \in Request,
           NEW x \in ToSet(StoredItems(Revoked(items, req)))
    PROVE  ValidItem(x) \/ (req.replace /\ LeftOf(x, items))
<1>0. items \in Seq(Item)
    BY KnownIsStored
<1>1. CASE req.replace
    <2>1. Revoked(items, req) = RemoveNames(items, req)
        BY <1>1 DEF Revoked
    <2>2. RemoveNames(items, req) \in Seq(Item)
        BY <1>0, RemoveNamesIs
    <2>3. PICK y \in ToSet(RemoveNames(items, req)) : x = Stored(y)
        BY <2>1, <2>2, StoredItemsAre
    <2>4. y \in KnownItem /\ (ValidItem(y) \/ LeftOf(y, items))
        BY RemoveNamesStores
    <2>5. x = y
        BY <2>3, <2>4, KnownItemIs, StoredIs
    <2> QED BY <1>1, <2>4, <2>5
<1>2. CASE ~req.replace
    <2>l. PICK list : list = RevokeAll(items, req)
        OBVIOUS
    <2>1. Less(items, req, list)
        BY <1>0, <2>l, RevokeAllIs
    <2>2. list \in Seq(Item)
        BY <2>1 DEF Less
    <2>3. Compact(list) \in Seq(Item) /\ AllValid(Compact(list)) /\ ToSet(Compact(list)) \subseteq ToSet(list)
        BY <2>2, CompactTakes
    <2>4. PICK y \in ToSet(Compact(list)) : x = Stored(y)
        BY <1>2, <2>l, <2>3, StoredItemsAre DEF Revoked
    <2>5. ValidItem(y) /\ y \in ToSet(list)
        BY <2>3 DEF AllValid
    <2>6. PICK at \in DOMAIN list : y = list[at]
        BY <2>5 DEF ToSet
    <2>7. /\ at \in DOMAIN items /\ Names(y) = Names(items[at])
          /\ Asked(y) \subseteq Asked(items[at])
        BY <2>1, <2>6 DEF Less
    <2>8. Names(y) \subseteq KnownNames /\ Asked(y) \subseteq KnownAsked
        BY <2>7, KnownItemIs
    <2>9. y \in Item
        BY <2>2, <2>6
    <2>10. x \in Item /\ Names(x) = Names(y) /\ Asked(x) = Asked(y)
        <3>1. x \in KnownItem /\ Names(x) = Names(y) \cap KnownNames /\ Asked(x) = Asked(y) \cap KnownAsked
            BY <2>4, <2>9, StoredIs
        <3> QED BY <2>8, <3>1, KnownItemIs
    <2>11. ValidItem(x)
        BY <2>5, <2>9, <2>10, ItemIs
    <2> QED BY <2>11
<1> QED BY <1>1, <1>2

-----------------------------------------------------------------------------
(* The rows of the form.                                                   *)

LEMMA ShownIs ==
    ASSUME NEW row \in Row, NEW k \in Kinds
    PROVE  /\ Shown(row, k) \subseteq NamesOf(k)
           /\ row[k] \in NameValues(k)
           /\ row[k] \notin {Undefined, Null} => Shown(row, k) # {}
<1>1. row[k] \in NameValues(k)
    BY DEF Row, Kinds
<1> QED BY <1>1 DEF Shown, NameValues

(* What the rows of the form show, the database knows.                     *)
KnownRow ==
    {row \in Row : /\ \A k \in Kinds : Shown(row, k) \subseteq KnownNames
                   /\ row.accesses \subseteq KnownTypes}

LEMMA KnownRowsAre ==
    ASSUME NEW rows \in Seq(KnownRow)
    PROVE  rows \in Seq(Row)
BY WiderSeq DEF KnownRow

LEMMA RowWith ==
    ASSUME NEW rows \in Seq(KnownRow), NEW r \in DOMAIN rows, NEW k \in Kinds,
           NEW v \in NameValues(k), v \in {Undefined, Null} \/ v \subseteq KnownNames
    PROVE  [rows EXCEPT ![r][k] = v] \in Seq(KnownRow)
<1>0. rows[r] \in KnownRow /\ rows[r] \in Row
    BY DEF KnownRow
<1> PICK row : row = [rows[r] EXCEPT ![k] = v]
    OBVIOUS
<1>1. row \in Row
    BY <1>0 DEF Row, Kinds
<1>2. row[k] = v /\ row.accesses = rows[r].accesses
    BY <1>0 DEF Row, Kinds
<1>3. \A j \in Kinds : j # k => row[j] = rows[r][j]
    BY <1>0 DEF Row, Kinds
<1>4. Shown(row, k) \subseteq KnownNames
    BY <1>2 DEF Shown
<1>5. \A j \in Kinds : j # k => Shown(row, j) = Shown(rows[r], j)
    BY <1>3 DEF Shown
<1>6. row \in KnownRow
    BY <1>0, <1>1, <1>2, <1>4, <1>5 DEF KnownRow
<1> QED BY <1>6

LEMMA ItemOfIs ==
    ASSUME NEW row \in Row
    PROVE  /\ ItemOf(row) \in Item
           /\ Names(ItemOf(row)) = Shown(row, "users") \cup Shown(row, "groups")
           /\ ItemOf(row).accesses = row.accesses
           /\ row \in KnownRow => ItemOf(row) \in KnownItem
<1>1. "users" \in Kinds /\ "groups" \in Kinds
    BY DEF Kinds
<1>2. Shown(row, "users") \subseteq Users /\ Shown(row, "groups") \subseteq Groups
    BY <1>1, ShownIs DEF NamesOf
<1>3. row.accesses \subseteq Accesses /\ row.admin \in BOOLEAN
    BY DEF Row
<1>4. /\ ItemOf(row) \in Item
      /\ Names(ItemOf(row)) = Shown(row, "users") \cup Shown(row, "groups")
      /\ ItemOf(row).accesses = row.accesses
    BY <1>2, <1>3 DEF ItemOf, Item, Names
<1>5. row \in KnownRow => ItemOf(row) \in KnownItem
    BY <1>1, <1>4 DEF KnownRow, KnownItem
<1> QED BY <1>4, <1>5

(* The rows that setPermissionsToColl makes an item of.                    *)
Given(rows) == {k \in DOMAIN rows : rows[k].users # Undefined \/ rows[k].groups # Undefined}

LEMMA SentIs ==
    ASSUME NEW rows \in Seq(Row)
    PROVE  /\ Items(rows) \in Seq(Item)
           /\ DOMAIN Items(rows) = DOMAIN rows
           /\ \A k \in DOMAIN rows : Items(rows)[k] = ItemOf(rows[k])
           /\ Sent(rows) = Only(Items(rows), Given(rows))
           /\ Sent(rows) \in Seq(Item)
           /\ Len(Sent(rows)) = Cardinality(Given(rows))
           /\ ToSet(Sent(rows)) = {ItemOf(rows[k]) : k \in Given(rows)}
<1>a. PICK items : items = Items(rows)
    OBVIOUS
<1>b. PICK given : given = Given(rows)
    OBVIOUS
<1>1. \A k \in DOMAIN rows : ItemOf(rows[k]) \in Item
    BY ItemOfIs
<1>2. /\ items \in Seq(Item) /\ DOMAIN items = DOMAIN rows
      /\ \A k \in DOMAIN rows : items[k] = ItemOf(rows[k])
    <2>1. items \in [DOMAIN rows -> Item]
        BY <1>a, <1>1 DEF Items
    <2>2. items \in Seq(Item) /\ DOMAIN items = DOMAIN rows
        BY <2>1, SameLength, Zenon
    <2> QED BY <1>a, <2>2 DEF Items
<1>3. given \in SUBSET DOMAIN items
    BY <1>b, <1>2 DEF Given
<1>4. Sent(rows) = Only(items, given)
    BY <1>a, <1>b DEF Sent, Given
<1>5. /\ Only(items, given) \in Seq(Item)
      /\ Len(Only(items, given)) = Cardinality(given)
    BY <1>2, <1>3, OnlyIs, Zenon
<1>6. ToSet(Only(items, given)) = {items[k] : k \in given}
    BY <1>2, <1>3, OnlyRange
<1>7. ToSet(Only(items, given)) = {ItemOf(rows[k]) : k \in given}
    BY <1>2, <1>3, <1>6
<1> QED BY <1>a, <1>b, <1>2, <1>4, <1>5, <1>7

LEMMA SentKnown ==
    ASSUME NEW rows \in Seq(KnownRow)
    PROVE  Sent(rows) \in Seq(KnownItem)
<1>1. rows \in Seq(Row)
    BY KnownRowsAre
<1>2. Sent(rows) \in Seq(Item) /\ ToSet(Sent(rows)) = {ItemOf(rows[k]) : k \in Given(rows)}
    BY <1>1, SentIs
<1>3. \A k \in Given(rows) : ItemOf(rows[k]) \in KnownItem
    <2> TAKE k \in Given(rows)
    <2>1. rows[k] \in KnownRow /\ rows[k] \in Row
        BY <1>1 DEF Given
    <2> QED BY <2>1, ItemOfIs
<1>4. \A k \in DOMAIN Sent(rows) : Sent(rows)[k] \in KnownItem
    BY <1>2, <1>3 DEF ToSet
<1> QED BY <1>2, <1>4

(* A row that says something has a name, and is an item of its own.        *)
LEMMA RelevantIsGiven ==
    ASSUME NEW rows \in Seq(Row), NEW audit, Passes(rows, audit),
           NEW k \in DOMAIN rows, Relevant(rows[k])
    PROVE  k \in Given(rows) /\ ValidItem(ItemOf(rows[k]))
<1>1. rows[k] \in Row /\ rows[k] \in ToSet(rows)
    BY DEF ToSet
<1>2. Complete(rows[k])
    BY <1>1 DEF Passes
<1>3. Shown(rows[k], "users") # {} \/ Shown(rows[k], "groups") # {}
    BY <1>2 DEF Complete
<1>4. k \in Given(rows)
    BY <1>3 DEF Shown, Given
<1>5. ValidItem(ItemOf(rows[k]))
    BY <1>1, <1>2, ItemOfIs DEF Complete, ValidItem
<1> QED BY <1>4, <1>5

(* What is sent and accepted is what the form shows, row by row.           *)
LEMMA SentAsShown ==
    ASSUME NEW rows \in Seq(Row), NEW audit, Passes(rows, audit), AllValid(Sent(rows)),
           NEW shown, shown = Only(rows, {k \in DOMAIN rows : Relevant(rows[k])})
    PROVE  /\ Len(Sent(rows)) = Len(shown)
           /\ \A k \in DOMAIN shown : Sent(rows)[k] = ItemOf(shown[k])
<1>g. PICK given : given = Given(rows)
    OBVIOUS
<1>i. PICK items : items = Items(rows)
    OBVIOUS
<1>1. given = {k \in DOMAIN rows : Relevant(rows[k])}
    <2>1. ASSUME NEW k \in DOMAIN rows, Relevant(rows[k]) PROVE k \in given
        BY <1>g, <2>1, RelevantIsGiven
    <2>2. ASSUME NEW k \in given PROVE Relevant(rows[k])
        <3>1. k \in DOMAIN rows /\ rows[k] \in Row
            BY <1>g DEF Given
        <3>2. ItemOf(rows[k]) \in ToSet(Sent(rows))
            BY <1>g, SentIs
        <3>3. ValidItem(ItemOf(rows[k]))
            BY <3>2 DEF AllValid
        <3> QED BY <3>1, <3>3, ItemOfIs DEF ValidItem, Relevant
    <2>3. given \subseteq DOMAIN rows
        BY <1>g DEF Given
    <2> QED BY <2>1, <2>2, <2>3
<1>2. shown = Only(rows, given)
    BY <1>1
<1>3. Sent(rows) = Only(items, given) /\ \A k \in DOMAIN rows : items[k] = ItemOf(rows[k])
    BY <1>g, <1>i, SentIs
<1>4. given \in SUBSET DOMAIN rows
    BY <1>1
<1>5. \A n \in 1..Cardinality(given) :
         \E i \in given : \A list : Only(list, given)[n] = list[i]
    BY <1>4, OnlyIs
<1>6. Len(shown) = Cardinality(given) /\ Len(Sent(rows)) = Cardinality(given) /\ shown \in Seq(Row)
    BY <1>2, <1>4, <1>g, OnlyIs, SentIs
<1>7. ASSUME NEW n \in 1..Cardinality(given)
      PROVE  Only(items, given)[n] = ItemOf(Only(rows, given)[n])
    <2>1. PICK i \in given : \A list : Only(list, given)[n] = list[i]
        BY <1>5, Zenon
    <2>2. Only(items, given)[n] = items[i] /\ Only(rows, given)[n] = rows[i]
        BY <2>1, Zenon
    <2>3. items[i] = ItemOf(rows[i])
        BY <1>3, <1>4
    <2> QED BY <2>2, <2>3
<1>8. \A n \in DOMAIN shown : n \in 1..Cardinality(given)
    BY <1>6
<1> QED BY <1>2, <1>3, <1>6, <1>7, <1>8

-----------------------------------------------------------------------------
(* The inductive invariant.  What is stored the database knows, and so it  *)
(* does what every copy that a request works on holds and the form shows;  *)
(* and the rows of a save that is under way have passed the form's own     *)
(* validation.                                                             *)

StoreOK == policies \in [Policies -> Seq(KnownItem) \cup {None}]

Copied(copy) ==
    /\ copy.req \in Request
    /\ copy.policy \in Policies \cup {None}
    /\ copy.items \in Seq(KnownItem)
    /\ copy.policy = None => copy.items = <<>>

HandlingOK ==
    /\ handling = [h \in Handlers |-> handling[h]]
    /\ \A h \in Handlers : handling[h] # None => Copied(handling[h])

Session == [policy : Policies \cup {None}, rows : Seq(KnownRow), edits : 0..MaxEdits,
            audit : BOOLEAN, sending : BOOLEAN]

FormOK ==
    form # None => /\ form \in Session
                   /\ form.sending => Passes(form.rows, form.audit)

CountsOK == requests \in 0..MaxRequests /\ sessions \in 0..MaxSessions

IInv == StoreOK /\ HandlingOK /\ FormOK /\ CountsOK

(* What the property of the store says of one item, and of one step.       *)
ByRequest(h, i) ==
    LET copy == handling[h]
    IN  \/ Finishes(h, "grant") /\ (Unknown(copy.req) \/ LeftOf(i, copy.items))
        \/ Finishes(h, "revoke") /\ copy.req.replace /\ LeftOf(i, copy.items)

StoresValid ==
    \A p \in Policies : policies'[p] \notin {policies[p], None} =>
        \A i \in ToSet(policies'[p]) : ValidItem(i) \/ \E h \in Handlers : ByRequest(h, i)

LEMMA NoItems ==
    /\ <<>> \in Seq(Item) /\ <<>> \in Seq(KnownItem) /\ ToSet(<<>>) = {}
    /\ \A n : Heldby(n, <<>>) = {}
<1>1. <<>> \in Seq(Item) /\ <<>> \in Seq(KnownItem) /\ ToSet(<<>>) = {}
    BY DEF ToSet
<1>2. \A n, a : a \notin Heldby(n, <<>>)
    BY <1>1, HeldIs
<1> QED BY <1>1, <1>2

LEMMA PolicyIs ==
    ASSUME StoreOK, NEW p \in Policies, policies[p] # None
    PROVE  policies[p] \in Seq(KnownItem) /\ policies[p] \in Seq(Item)
<1>1. policies[p] \in Seq(KnownItem)
    BY DEF StoreOK
<1> QED BY <1>1, KnownIsStored

(* One policy gets a list of items.                                        *)
LEMMA Stores ==
    ASSUME StoreOK, NEW p \in Policies, NEW items \in Seq(KnownItem),
           policies' = [policies EXCEPT ![p] = items]
    PROVE  /\ StoreOK' /\ policies'[p] = items /\ policies'[p] # None
           /\ \A q \in Policies : q # p => policies'[q] = policies[q]
<1>1. policies' \in [Policies -> Seq(KnownItem) \cup {None}]
    BY DEF StoreOK
<1>2. policies'[p] = items /\ \A q \in Policies : q # p => policies'[q] = policies[q]
    BY DEF StoreOK
<1>3. items # None
    BY KnownIsStored, NoneAssumption
<1>4. StoreOK'
    BY <1>1 DEF StoreOK
<1> QED BY <1>2, <1>3, <1>4

LEMMA InitHolds == Init => IInv
<1> SUFFICES ASSUME Init PROVE IInv
    OBVIOUS
<1>1. StoreOK
    <2>1. PICK items \in BoundedSeq({i \in KnownItem : ValidItem(i)}, MaxItems), p \in Policies :
             policies = [q \in Policies |-> IF q = p THEN items ELSE None]
        BY DEF Init
    <2>2. PICK m \in 0..MaxItems : items \in [1..m -> {i \in KnownItem : ValidItem(i)}]
        BY DEF BoundedSeq, SeqOf
    <2>3. m \in Nat
        BY BoundsAssumption
    <2>4. items \in Seq(KnownItem)
        BY <2>2, <2>3
    <2> QED BY <2>1, <2>4 DEF StoreOK
<1>2. HandlingOK
    BY DEF Init, HandlingOK
<1>3. FormOK /\ CountsOK
    BY BoundsAssumption DEF Init, FormOK, CountsOK
<1> QED BY <1>1, <1>2, <1>3 DEF IInv

(* What each part of the invariant looks at.                               *)
LEMMA Unchanged ==
    /\ StoreOK /\ UNCHANGED policies => StoreOK'
    /\ HandlingOK /\ UNCHANGED handling => HandlingOK'
    /\ FormOK /\ UNCHANGED form => FormOK'
    /\ CountsOK /\ UNCHANGED <<requests, sessions>> => CountsOK'
BY DEF StoreOK, HandlingOK, FormOK, CountsOK

(* A request ends.                                                         *)
LEMMA Ends ==
    ASSUME HandlingOK, NEW h \in Handlers, handling' = [handling EXCEPT ![h] = None]
    PROVE  /\ HandlingOK' /\ handling'[h] = None
           /\ \A g \in Handlers : g # h => handling'[g] = handling[g]
<1>1. \A g \in Handlers : handling'[g] = IF g = h THEN None ELSE handling[g]
    BY DEF HandlingOK
<1>2. handling' = [g \in Handlers |-> handling'[g]]
    BY DEF HandlingOK
<1>3. \A g \in Handlers : handling'[g] # None => Copied(handling'[g])
    BY <1>1 DEF HandlingOK
<1>4. HandlingOK'
    BY <1>2, <1>3 DEF HandlingOK, Copied
<1> QED BY <1>1, <1>4

LEMMA BeginKeeps ==
    ASSUME IInv, NEW h \in Handlers, Begin(h)
    PROVE  IInv'
<1>1. StoreOK /\ HandlingOK /\ FormOK /\ CountsOK
    BY DEF IInv
<1>2. UNCHANGED <<policies, form, sessions>> /\ requests' = requests + 1 /\ requests < MaxRequests
    BY DEF Begin
<1>3. PICK copy : Copied(copy) /\ handling' = [handling EXCEPT ![h] = copy]
    <2>1. PICK req \in Request :
            \/ \E p \in Existing :
                 handling' = [handling EXCEPT ![h] =
                                 [req |-> req, policy |-> p, items |-> policies[p]]]
            \/ handling' = [handling EXCEPT ![h] = [req |-> req, policy |-> None, items |-> <<>>]]
        BY DEF Begin
    <2>2. ASSUME NEW p \in Existing
          PROVE  Copied([req |-> req, policy |-> p, items |-> policies[p]])
        <3>1. p \in Policies /\ policies[p] # None
            BY DEF Existing
        <3>2. policies[p] \in Seq(KnownItem)
            BY <1>1, <3>1, PolicyIs
        <3> QED BY <3>1, <3>2, NoneAssumption DEF Copied
    <2>3. Copied([req |-> req, policy |-> None, items |-> <<>>])
        BY NoItems DEF Copied
    <2> QED BY <2>1, <2>2, <2>3
<1>4. HandlingOK'
    <2>1. \A g \in Handlers : handling'[g] = IF g = h THEN copy ELSE handling[g]
        BY <1>1, <1>3 DEF HandlingOK
    <2>2. handling' = [g \in Handlers |-> handling'[g]]
        BY <1>1, <1>3 DEF HandlingOK
    <2>3. \A g \in Handlers : handling'[g] # None => Copied(handling'[g])
        BY <1>1, <1>3, <2>1 DEF HandlingOK
    <2> QED BY <2>2, <2>3 DEF HandlingOK, Copied
<1>5. CountsOK'
    BY <1>1, <1>2, BoundsAssumption DEF CountsOK
<1> QED BY <1>1, <1>2, <1>4, <1>5, Unchanged DEF IInv

(* What the property of grants says of one of them.                        *)
GivesAsAsked(h) ==
    \/ \E p \in Policies :
        /\ IF handling[h].policy = None THEN p \notin Existing ELSE p = handling[h].policy
        /\ policies'[p] # None
        /\ GrantAsAsked(handling[h], policies'[p])
    \/ policies' = policies /\ GrantAsAsked(handling[h], handling[h].items)

TakesAsAsked(h) ==
    \/ RevokeAsAsked(handling[h], policies'[handling[h].policy])
    \/ policies' = policies /\ RevokeAsAsked(handling[h], handling[h].items)

LEMMA GrantNewKeeps ==
    ASSUME IInv, NEW h \in Handlers, GrantNew(h)
    PROVE  IInv' /\ GivesAsAsked(h) /\ StoresValid
<1>1. StoreOK /\ HandlingOK /\ FormOK /\ CountsOK
    BY DEF IInv
<1>c. PICK copy : copy = handling[h]
    OBVIOUS
<1>2. /\ UNCHANGED <<form, requests, sessions>> /\ handling' = [handling EXCEPT ![h] = None]
      /\ copy # None /\ copy.policy = None /\ copy.req.op = "grant"
    BY <1>c DEF GrantNew
<1>3. copy.req \in Request /\ copy.items = <<>>
    BY <1>1, <1>2, <1>c DEF HandlingOK, Copied
<1>q. PICK req \in Request : req = copy.req
    BY <1>3
<1>a. PICK all : all = GrantAll(<<>>, req)
    OBVIOUS
<1>i. PICK items : items = StoredItems(all)
    OBVIOUS
<1>4. PICK p \in Policies \ Existing : policies' = [policies EXCEPT ![p] = items]
    BY <1>a, <1>c, <1>i, <1>q DEF GrantNew
<1>5. all \in Seq(Item) /\ items \in Seq(KnownItem)
    BY <1>a, <1>i, NoItems, GrantAllIs, StoredItemsAre
<1>6. /\ StoreOK' /\ policies'[p] = items /\ policies'[p] # None
      /\ \A q \in Policies : q # p => policies'[q] = policies[q]
    BY <1>1, <1>4, <1>5, Stores
<1>7. HandlingOK' /\ handling'[h] = None
    BY <1>1, <1>2, Ends
<1>8. GrantAsAsked(copy, items)
    <2>1. \A n : /\ n \in Names(req) => Heldby(n, all) = Asked(req)
                 /\ n \notin Names(req) => Heldby(n, all) \subseteq {}
        <3> TAKE n
        <3>1. Heldby(n, <<>>) = {} /\ Sharing(<<>>, req) = {}
            BY NoItems DEF Sharing
        <3>2. /\ n \in Names(req) => Heldby(n, all) = Heldby(n, <<>>) \cup Asked(req)
              /\ n \notin Names(req) =>
                    Heldby(n, all) \subseteq
                        Heldby(n, <<>>) \cup IF n \in Sharing(<<>>, req) THEN Asked(req) ELSE {}
            BY <1>a, NoItems, GrantAllGives
        <3> QED BY <3>1, <3>2
    <2>2. \A n : Heldby(n, copy.items) = {}
        BY <1>3, NoItems
    <2>3. AllAsAsked(copy, all)
        BY <1>q, <2>1, <2>2 DEF AllAsAsked
    <2>4. copy.items \in Seq(KnownItem)
        BY <1>3, NoItems
    <2> QED BY <1>3, <1>5, <1>i, <2>3, <2>4, GrantStoredAsAsked
<1>9. GivesAsAsked(h)
    BY <1>2, <1>4, <1>6, <1>8, <1>c, Zenon DEF GivesAsAsked
<1>10. ASSUME NEW x \in ToSet(items) PROVE ValidItem(x) \/ ByRequest(h, x)
    <2>1. CASE Unknown(req)
        BY <1>2, <1>7, <1>c, <1>q, <2>1 DEF ByRequest, Finishes
    <2>2. CASE ~Unknown(req)
        BY <1>10, <1>a, <1>i, <2>2, NoItems, GrantAllStores
    <2> QED BY <2>1, <2>2
<1>11. StoresValid
    BY <1>6, <1>10 DEF StoresValid
<1> QED BY <1>1, <1>2, <1>6, <1>7, <1>9, <1>11, Unchanged DEF IInv

LEMMA RevokeNothingKeeps ==
    ASSUME IInv, NEW h \in Handlers, RevokeNothing(h)
    PROVE  IInv'
<1>1. StoreOK /\ HandlingOK /\ FormOK /\ CountsOK
    BY DEF IInv
<1>2. /\ UNCHANGED <<policies, form, requests, sessions>>
      /\ handling' = [handling EXCEPT ![h] = None]
    BY DEF RevokeNothing
<1>3. HandlingOK'
    BY <1>1, <1>2, Ends
<1> QED BY <1>1, <1>2, <1>3, Unchanged DEF IInv

LEMMA CommitKeeps ==
    ASSUME IInv, NEW h \in Handlers, Commit(h)
    PROVE  /\ IInv' /\ StoresValid
           /\ handling[h].policy \in Existing /\ handling[h].req.op = "grant" => GivesAsAsked(h)
           /\ handling[h].policy \in Existing /\ handling[h].req.op = "revoke" => TakesAsAsked(h)
<1>1. StoreOK /\ HandlingOK /\ FormOK /\ CountsOK
    BY DEF IInv
<1>c. PICK copy : copy = handling[h]
    OBVIOUS
<1>2. /\ UNCHANGED <<form, requests, sessions>> /\ handling' = [handling EXCEPT ![h] = None]
      /\ copy # None /\ copy.policy # None
    BY <1>c DEF Commit
<1>3. copy.req \in Request /\ copy.items \in Seq(KnownItem) /\ copy.policy \in Policies
    BY <1>1, <1>2, <1>c DEF HandlingOK, Copied
<1>q. PICK req \in Request : req = copy.req
    BY <1>3
<1>d. PICK had \in Seq(KnownItem) : had = copy.items
    BY <1>3
<1>o. PICK all : all = Outcome(copy)
    OBVIOUS
<1>i. PICK items : items = StoredItems(all)
    OBVIOUS
<1>r. req.op = "grant" \/ req.op = "revoke"
    BY RequestIs
<1>4. had \in Seq(Item) /\ StoredItems(had) = had
    BY KnownIsStored
<1>g. req.op = "grant" => /\ all = Granted(had, req)
                          /\ all \in Seq(Item) /\ AllAsAsked(copy, all)
    BY <1>3, <1>4, <1>d, <1>o, <1>q, GrantedAsAsked DEF Outcome
<1>v. req.op = "revoke" => /\ all = Revoked(had, req)
                           /\ all \in Seq(Item) /\ RevokeAsAsked(copy, all)
    BY <1>3, <1>4, <1>d, <1>o, <1>q, RevokedAsAsked DEF Outcome
<1>5. all \in Seq(Item) /\ items \in Seq(KnownItem)
    BY <1>g, <1>i, <1>r, <1>v, StoredItemsAre
<1>6. /\ req.op = "grant" => GrantAsAsked(copy, items)
      /\ req.op = "revoke" => RevokeAsAsked(copy, items)
    BY <1>3, <1>g, <1>i, <1>v, GrantStoredAsAsked, RevokeStoredAsAsked
<1>7. ~Updates(had, req) => items = had
    <2>1. ~Updates(had, req) => all = had
        BY <1>d, <1>o, <1>q DEF Updates, Outcome, Granted
    <2> QED BY <1>4, <1>i, <2>1
<1>8. HandlingOK' /\ handling'[h] = None
    BY <1>1, <1>2, Ends
<1>9. ASSUME NEW x \in ToSet(items) PROVE ValidItem(x) \/ ByRequest(h, x)
    <2>1. CASE req.op = "grant"
        <3>1. Finishes(h, "grant")
            BY <1>2, <1>8, <1>c, <1>q, <2>1 DEF Finishes
        <3>2. Unknown(req) \/ ValidItem(x) \/ LeftOf(x, had)
            BY <1>9, <1>g, <1>i, <2>1, GrantStores
        <3> QED BY <1>c, <1>d, <1>q, <3>1, <3>2 DEF ByRequest
    <2>2. CASE req.op = "revoke"
        <3>1. Finishes(h, "revoke")
            BY <1>2, <1>8, <1>c, <1>q, <2>2 DEF Finishes
        <3>2. ValidItem(x) \/ (req.replace /\ LeftOf(x, had))
            BY <1>9, <1>i, <1>v, <2>2, RevokeStores
        <3> QED BY <1>c, <1>d, <1>q, <3>1, <3>2 DEF ByRequest
    <2> QED BY <1>r, <2>1, <2>2
<1>10. CASE Updates(had, req) /\ policies[copy.policy] # None
    <2> PICK p \in Policies : p = copy.policy
        BY <1>3
    <2>1. policies' = [policies EXCEPT ![p] = items]
        BY <1>10, <1>c, <1>d, <1>i, <1>o, <1>q DEF Commit
    <2>2. /\ StoreOK' /\ policies'[p] = items /\ policies'[p] # None
          /\ \A q \in Policies : q # p => policies'[q] = policies[q]
        BY <1>1, <1>5, <2>1, Stores
    <2>3. req.op = "grant" => GivesAsAsked(h)
        BY <1>2, <1>6, <1>c, <2>2, Zenon DEF GivesAsAsked
    <2>4. req.op = "revoke" => TakesAsAsked(h)
        BY <1>6, <1>c, <2>2, Zenon DEF TakesAsAsked
    <2>5. IInv'
        BY <1>1, <1>2, <1>8, <2>2, Unchanged DEF IInv
    <2>6. StoresValid
        BY <1>9, <2>2 DEF StoresValid
    <2> QED BY <1>c, <1>q, <2>3, <2>4, <2>5, <2>6
<1>11. CASE ~(Updates(had, req) /\ policies[copy.policy] # None)
    <2>1. UNCHANGED policies
        BY <1>11, <1>c, <1>d, <1>q DEF Commit
    <2>2. IInv' /\ StoresValid
        BY <1>1, <1>2, <1>8, <2>1, Unchanged DEF IInv, StoresValid
    <2>3. copy.policy \in Existing => items = copy.items
        BY <1>7, <1>11, <1>d DEF Existing
    <2>4. copy.policy \in Existing /\ req.op = "grant" => GivesAsAsked(h)
        BY <1>6, <1>c, <2>1, <2>3 DEF GivesAsAsked
    <2>5. copy.policy \in Existing /\ req.op = "revoke" => TakesAsAsked(h)
        BY <1>6, <1>c, <2>1, <2>3 DEF TakesAsAsked
    <2> QED BY <1>c, <1>q, <2>2, <2>4, <2>5
<1> QED BY <1>10, <1>11

LEMMA NewRowIs == NewRow \in KnownRow
<1>1. NewRow \in Row
    BY DEF NewRow, Row, NameValues
<1>2. \A k \in Kinds : Shown(NewRow, k) = {}
    BY DEF NewRow, Shown, Kinds
<1> QED BY <1>1, <1>2 DEF KnownRow, NewRow

LEMMA RowsIs ==
    ASSUME NEW items \in Seq(KnownItem)
    PROVE  Rows(items) \in Seq(KnownRow)
<1>1. ASSUME NEW i \in KnownItem PROVE RowOf(i) \in KnownRow
    <2> PICK row : row = RowOf(i)
        OBVIOUS
    <2>1. i \in Item /\ Names(i) \subseteq KnownNames /\ i.accesses \subseteq KnownTypes
        BY DEF KnownItem
    <2>2. i.users \subseteq Users /\ i.groups \subseteq Groups
        BY <2>1, ItemIs
    <2>3. row \in Row /\ row.accesses = i.accesses
        BY <2>1, <2>2, ItemIs DEF RowOf, Row, NameValues, NamesOf
    <2>4. row["users"] \in {Null, i.users} /\ row["groups"] \in {Null, i.groups}
        BY DEF RowOf
    <2>5. \A k \in Kinds : Shown(row, k) \subseteq Names(i)
        BY <2>4 DEF Shown, Kinds, Names
    <2> QED BY <2>1, <2>3, <2>5 DEF KnownRow
<1>2. CASE items = <<>>
    BY <1>2, NewRowIs DEF Rows
<1>3. CASE items # <<>>
    <2>1. \A k \in DOMAIN items : RowOf(items[k]) \in KnownRow
        BY <1>1
    <2> PICK rows : rows = [k \in DOMAIN items |-> RowOf(items[k])]
        OBVIOUS
    <2>2. rows \in [DOMAIN items -> KnownRow]
        BY <2>1
    <2>3. rows \in Seq(KnownRow)
        BY <2>2, SameLength
    <2> QED BY <1>3, <2>3 DEF Rows
<1> QED BY <1>2, <1>3

LEMMA OpenKeeps ==
    ASSUME IInv, NEW p \in Policies \cup {None}, NEW rows \in Seq(KnownRow), OpenForm(p, rows)
    PROVE  IInv'
<1>1. StoreOK /\ HandlingOK /\ FormOK /\ CountsOK
    BY DEF IInv
<1>2. /\ UNCHANGED <<policies, handling, requests>>
      /\ sessions < MaxSessions /\ sessions' = sessions + 1
      /\ form' = [policy |-> p, rows |-> rows, edits |-> 0, audit |-> TRUE, sending |-> FALSE]
    BY DEF OpenForm
<1>3. form' \in Session /\ ~form'.sending
    BY <1>2, BoundsAssumption DEF Session
<1>4. FormOK'
    BY <1>3 DEF FormOK, Session, KnownRow, Shown
<1>5. CountsOK'
    BY <1>1, <1>2, BoundsAssumption DEF CountsOK
<1> QED BY <1>1, <1>2, <1>4, <1>5, Unchanged DEF IInv

LEMMA OpenNewKeeps == IInv /\ OpenNew => IInv'
<1>1. <<NewRow>> \in Seq(KnownRow)
    BY NewRowIs
<1> QED BY <1>1, OpenKeeps DEF OpenNew

LEMMA OpenExistingKeeps == IInv /\ OpenExisting => IInv'
<1> SUFFICES ASSUME IInv, NEW p \in Existing, OpenForm(p, Rows(policies[p])) PROVE IInv'
    BY DEF OpenExisting
<1>1. p \in Policies /\ policies[p] \in Seq(KnownItem)
    BY PolicyIs DEF IInv, Existing
<1>2. Rows(policies[p]) \in Seq(KnownRow)
    BY <1>1, RowsIs
<1> QED BY <1>1, <1>2, OpenKeeps

LEMMA EditableIs ==
    ASSUME IInv, Editable
    PROVE  /\ form \in Session /\ ~form.sending
           /\ form.rows \in Seq(KnownRow) /\ form.rows \in Seq(Row)
           /\ \A r \in DOMAIN form.rows : form.rows[r] \in KnownRow /\ form.rows[r] \in Row
<1>1. form \in Session /\ ~form.sending /\ form.rows \in Seq(KnownRow)
    BY DEF IInv, FormOK, Editable, Session
<1>2. form.rows \in Seq(Row)
    BY <1>1, KnownRowsAre
<1>3. \A r \in DOMAIN form.rows : form.rows[r] \in KnownRow /\ form.rows[r] \in Row
    BY <1>1, <1>2
<1> QED BY <1>1, <1>2, <1>3

LEMMA EditKeeps ==
    ASSUME IInv, NEW rows \in Seq(KnownRow), EditRows(rows)
    PROVE  IInv'
<1>1. StoreOK /\ HandlingOK /\ FormOK /\ CountsOK
    BY DEF IInv
<1>2. form \in Session /\ ~form.sending
    BY EditableIs DEF EditRows
<1>3. /\ UNCHANGED <<policies, handling, requests, sessions>>
      /\ form.edits < MaxEdits /\ form' = [form EXCEPT !.rows = rows, !.edits = @ + 1]
    BY DEF EditRows
<1>4. form.edits + 1 \in 0..MaxEdits
    BY <1>2, <1>3, BoundsAssumption DEF Session
<1>5. form' \in Session /\ ~form'.sending
    BY <1>2, <1>3, <1>4 DEF Session
<1>6. FormOK'
    BY <1>5 DEF FormOK, Session, KnownRow, Shown
<1> QED BY <1>1, <1>3, <1>6, Unchanged DEF IInv

LEMMA AddNameKeeps == IInv /\ AddName => IInv'
<1> SUFFICES ASSUME IInv, Editable, NEW r \in DOMAIN form.rows, NEW k \in Kinds,
                    NEW n \in NamesOf(k) \cap KnownNames,
                    EditRows([form.rows EXCEPT ![r][k] = Shown(form.rows[r], k) \cup {n}])
             PROVE  IInv'
    BY DEF AddName
<1>1. form.rows \in Seq(KnownRow) /\ form.rows[r] \in KnownRow /\ form.rows[r] \in Row
    BY EditableIs
<1>2. Shown(form.rows[r], k) \cup {n} \in NameValues(k)
    BY <1>1, ShownIs DEF NameValues
<1>3. Shown(form.rows[r], k) \cup {n} \subseteq KnownNames
    BY <1>1 DEF KnownRow
<1> QED BY <1>1, <1>2, <1>3, RowWith, EditKeeps

LEMMA DropNameKeeps == IInv /\ DropName => IInv'
<1> SUFFICES ASSUME IInv, Editable, NEW r \in DOMAIN form.rows, NEW k \in Kinds,
                    NEW n \in Shown(form.rows[r], k),
                    NEW rest, rest = Shown(form.rows[r], k) \ {n},
                    EditRows([form.rows EXCEPT ![r][k] = IF rest = {} THEN Undefined ELSE rest])
             PROVE  IInv'
    BY DEF DropName
<1>1. form.rows \in Seq(KnownRow) /\ form.rows[r] \in KnownRow /\ form.rows[r] \in Row
    BY EditableIs
<1> PICK v : v = IF rest = {} THEN Undefined ELSE rest
    OBVIOUS
<1>2. v \in NameValues(k)
    BY <1>1, ShownIs DEF NameValues
<1>3. v \in {Undefined, Null} \/ v \subseteq KnownNames
    BY <1>1 DEF KnownRow
<1> QED BY <1>1, <1>2, <1>3, RowWith, EditKeeps

LEMMA SetAccessesKeeps == IInv /\ SetAccesses => IInv'
<1> SUFFICES ASSUME IInv, Editable, NEW r \in DOMAIN form.rows,
                    NEW a \in SUBSET (Accesses \cap KnownTypes),
                    EditRows([form.rows EXCEPT ![r].accesses = a])
             PROVE  IInv'
    BY DEF SetAccesses
<1>1. form.rows \in Seq(KnownRow) /\ form.rows[r] \in KnownRow /\ form.rows[r] \in Row
    BY EditableIs
<1> PICK row : row = [form.rows[r] EXCEPT !.accesses = a]
    OBVIOUS
<1>2. row \in Row /\ row.accesses = a /\ \A k \in Kinds : row[k] = form.rows[r][k]
    BY <1>1 DEF Row, Kinds
<1>3. \A k \in Kinds : Shown(row, k) = Shown(form.rows[r], k)
    BY <1>2 DEF Shown
<1>4. row \in KnownRow
    BY <1>1, <1>2, <1>3 DEF KnownRow
<1>5. [form.rows EXCEPT ![r].accesses = a] \in Seq(KnownRow)
    BY <1>1, <1>4
<1> QED BY <1>5, EditKeeps

LEMMA SetAdminKeeps == IInv /\ SetAdmin => IInv'
<1> SUFFICES ASSUME IInv, Editable, NEW r \in DOMAIN form.rows,
                    EditRows([form.rows EXCEPT ![r].admin = ~@])
             PROVE  IInv'
    BY DEF SetAdmin
<1>1. form.rows \in Seq(KnownRow) /\ form.rows[r] \in KnownRow /\ form.rows[r] \in Row
    BY EditableIs
<1> PICK row : row = [form.rows[r] EXCEPT !.admin = ~@]
    OBVIOUS
<1>2. /\ row \in Row /\ row.accesses = form.rows[r].accesses
      /\ \A k \in Kinds : row[k] = form.rows[r][k]
    BY <1>1 DEF Row, Kinds
<1>3. \A k \in Kinds : Shown(row, k) = Shown(form.rows[r], k)
    BY <1>2 DEF Shown
<1>4. row \in KnownRow
    BY <1>1, <1>2, <1>3 DEF KnownRow
<1>5. [form.rows EXCEPT ![r].admin = ~@] \in Seq(KnownRow)
    BY <1>1, <1>4
<1> QED BY <1>5, EditKeeps

LEMMA AddRowKeeps == IInv /\ AddRow => IInv'
<1> SUFFICES ASSUME IInv, Editable, EditRows(Append(form.rows, NewRow)) PROVE IInv'
    BY DEF AddRow
<1>1. form.rows \in Seq(KnownRow) /\ NewRow \in KnownRow
    BY EditableIs, NewRowIs
<1>2. Append(form.rows, NewRow) \in Seq(KnownRow)
    BY <1>1
<1> QED BY <1>2, EditKeeps

LEMMA DeleteRowKeeps == IInv /\ DeleteRow => IInv'
<1> SUFFICES ASSUME IInv, Editable, NEW r \in DOMAIN form.rows, EditRows(RemoveAt(form.rows, r))
             PROVE  IInv'
    BY DEF DeleteRow
<1> PICK rows : rows = form.rows
    OBVIOUS
<1>1. rows \in Seq(KnownRow) /\ r \in 1..Len(rows) /\ Len(rows) \in Nat
    BY EditableIs
<1>2. SubSeq(rows, 1, r - 1) \in Seq(KnownRow)
    BY <1>1
<1>3. SubSeq(rows, r + 1, Len(rows)) \in Seq(KnownRow)
    BY <1>1
<1>4. RemoveAt(rows, r) \in Seq(KnownRow)
    BY <1>2, <1>3 DEF RemoveAt
<1> QED BY <1>4, EditKeeps

LEMMA SaveKeeps == IInv /\ Save => IInv'
<1> SUFFICES ASSUME IInv, Save PROVE IInv'
    OBVIOUS
<1>1. StoreOK /\ HandlingOK /\ FormOK /\ CountsOK
    BY DEF IInv
<1>2. PICK audit \in BOOLEAN :
        Passes(form.rows, audit) /\ form' = [form EXCEPT !.sending = TRUE, !.audit = audit]
    BY DEF Save
<1>3. form \in Session
    BY EditableIs DEF Save
<1>4. form' \in Session /\ form'.rows = form.rows /\ form'.audit = audit
    BY <1>2, <1>3 DEF Session
<1>5. Passes(form'.rows, form'.audit)
    BY <1>2, <1>4
<1>6. FormOK'
    BY <1>4, <1>5 DEF FormOK, Session, KnownRow, Passes, Relevant, Complete, Shown
<1>7. UNCHANGED <<policies, handling, requests, sessions>>
    BY DEF Save
<1> QED BY <1>1, <1>6, <1>7, Unchanged DEF IInv

LEMMA CloseFormKeeps == IInv /\ CloseForm => IInv'
<1> SUFFICES ASSUME IInv, CloseForm PROVE IInv'
    OBVIOUS
<1>1. UNCHANGED <<policies, handling, requests, sessions>> /\ form' = None
    BY DEF CloseForm
<1>2. FormOK'
    BY <1>1 DEF FormOK
<1> QED BY <1>1, <1>2, Unchanged DEF IInv

(* What the property of a save says of one that the server accepts.        *)
SavesAsShown ==
    \E p \in Policies :
        /\ policies'[p] # None
        /\ form.policy \in {p, None}
        /\ LET rows == Only(form.rows, {k \in DOMAIN form.rows : Relevant(form.rows[k])})
           IN  /\ Len(policies'[p]) = Len(rows)
               /\ \A k \in DOMAIN rows :
                    /\ \A kind \in Kinds : policies'[p][k][kind] = Shown(rows[k], kind)
                    /\ policies'[p][k].accesses = rows[k].accesses
                    /\ policies'[p][k].admin = rows[k].admin

LEMMA ServeAcceptedKeeps ==
    ASSUME IInv, ServeAccepted
    PROVE  IInv' /\ SavesAsShown /\ StoresValid
<1>1. StoreOK /\ HandlingOK /\ FormOK /\ CountsOK
    BY DEF IInv
<1>2. /\ UNCHANGED <<handling, requests, sessions>> /\ form' = None
      /\ form # None /\ form.sending /\ Accepts(Sent(form.rows))
    BY DEF ServeAccepted
<1>3. form.rows \in Seq(KnownRow) /\ form.rows \in Seq(Row) /\ Passes(form.rows, form.audit)
    BY <1>1, <1>2, KnownRowsAre DEF FormOK, Session
<1>i. PICK items : items = Sent(form.rows)
    OBVIOUS
<1>4. items \in Seq(KnownItem) /\ StoredItems(items) = items /\ AllValid(items)
    BY <1>2, <1>3, <1>i, SentKnown, KnownIsStored DEF Accepts, AllValid
<1>5. PICK p \in Policies : form.policy \in {p, None} /\ policies' = [policies EXCEPT ![p] = items]
    <2>1. PICK p \in IF form.policy = None THEN Policies \ Existing ELSE {form.policy} :
             policies' = [policies EXCEPT ![p] = items]
        BY <1>4, <1>i DEF ServeAccepted
    <2>2. form.policy \in Existing \/ form.policy = None
        BY DEF ServeAccepted
    <2>3. p \in Policies /\ form.policy \in {p, None}
        BY <2>1, <2>2 DEF Existing
    <2> QED BY <2>1, <2>3
<1>6. /\ StoreOK' /\ policies'[p] = items /\ policies'[p] # None
      /\ \A q \in Policies : q # p => policies'[q] = policies[q]
    BY <1>1, <1>4, <1>5, Stores
<1>s. PICK shown : shown = Only(form.rows, {k \in DOMAIN form.rows : Relevant(form.rows[k])})
    OBVIOUS
<1>7. Len(items) = Len(shown) /\ \A k \in DOMAIN shown : items[k] = ItemOf(shown[k])
    BY <1>3, <1>4, <1>i, <1>s, SentAsShown
<1>8. \A row : /\ \A kind \in Kinds : ItemOf(row)[kind] = Shown(row, kind)
               /\ ItemOf(row).accesses = row.accesses /\ ItemOf(row).admin = row.admin
    BY DEF ItemOf, Kinds
<1>9. SavesAsShown
    <2>1. \A k \in DOMAIN shown :
             /\ \A kind \in Kinds : items[k][kind] = Shown(shown[k], kind)
             /\ items[k].accesses = shown[k].accesses
             /\ items[k].admin = shown[k].admin
        BY <1>7, <1>8
    <2>2. /\ policies'[p] # None /\ form.policy \in {p, None}
          /\ Len(policies'[p]) = Len(shown)
          /\ \A k \in DOMAIN shown :
               /\ \A kind \in Kinds : policies'[p][k][kind] = Shown(shown[k], kind)
               /\ policies'[p][k].accesses = shown[k].accesses
               /\ policies'[p][k].admin = shown[k].admin
        BY <1>5, <1>6, <1>7, <2>1
    <2> QED BY <1>s, <2>2, Zenon DEF SavesAsShown
<1>10. FormOK'
    BY <1>2 DEF FormOK
<1>11. StoresValid
    BY <1>4, <1>6 DEF StoresValid, AllValid
<1> QED BY <1>1, <1>2, <1>6, <1>9, <1>10, <1>11, Unchanged DEF IInv

LEMMA ServeRefusedKeeps ==
    ASSUME IInv, ServeRefused
    PROVE  /\ IInv'
           /\ \/ form.policy \in Policies \ Existing
              \/ \E row \in ToSet(form.rows) : EmptiedRow(row)
<1>1. StoreOK /\ HandlingOK /\ FormOK /\ CountsOK
    BY DEF IInv
<1>2. /\ UNCHANGED <<policies, handling, requests, sessions>>
      /\ form' = [form EXCEPT !.sending = FALSE, !.audit = TRUE]
      /\ form # None /\ form.sending
      /\ ~Accepts(Sent(form.rows)) \/ form.policy \in Policies \ Existing
    BY DEF ServeRefused
<1>3. form \in Session /\ Passes(form.rows, form.audit)
    BY <1>1, <1>2 DEF FormOK
<1>4. form' \in Session /\ ~form'.sending
    BY <1>2, <1>3 DEF Session
<1>5. FormOK'
    BY <1>4 DEF FormOK, Session, KnownRow, Shown
<1>6. IInv'
    BY <1>1, <1>2, <1>5, Unchanged DEF IInv
<1>7. ASSUME ~Accepts(Sent(form.rows))
      PROVE  \E row \in ToSet(form.rows) : EmptiedRow(row)
    <2> PICK rows : rows = form.rows
        OBVIOUS
    <2>1. rows \in Seq(Row) /\ Passes(rows, form.audit)
        BY <1>3, KnownRowsAre DEF Session
    <2>2. \A k \in DOMAIN rows : rows[k] \in Row /\ rows[k] \in ToSet(rows)
        BY <2>1 DEF ToSet
    <2>3. ToSet(Sent(rows)) = {ItemOf(rows[k]) : k \in Given(rows)}
        BY <2>1, SentIs
    <2>4. CASE Sent(rows) = <<>> /\ ~form.audit
        <3>1. \E row \in ToSet(rows) : Relevant(row)
            BY <2>1, <2>4 DEF Passes
        <3>2. PICK k \in DOMAIN rows : Relevant(rows[k])
            BY <3>1 DEF ToSet
        <3>3. k \in Given(rows)
            BY <2>1, <3>2, RelevantIsGiven
        <3>4. ToSet(Sent(rows)) # {}
            BY <2>3, <3>3
        <3>5. ToSet(<<>>) = {}
            BY DEF ToSet
        <3> QED BY <2>4, <3>4, <3>5
    <2>5. CASE \E i \in ToSet(Sent(rows)) : ~ValidItem(i)
        <3>1. PICK k \in Given(rows) : ~ValidItem(ItemOf(rows[k]))
            BY <2>3, <2>5
        <3>2. k \in DOMAIN rows /\ (rows[k].users # Undefined \/ rows[k].groups # Undefined)
            BY DEF Given
        <3>3. ~Relevant(rows[k])
            BY <2>1, <3>1, <3>2, RelevantIsGiven
        <3>4. Shown(rows[k], "users") = {} /\ Shown(rows[k], "groups") = {}
            BY <3>3 DEF Relevant
        <3>5. /\ rows[k]["users"] \in {Undefined, Null}
              /\ rows[k]["groups"] \in {Undefined, Null}
            BY <2>2, <3>2, <3>4, ShownIs DEF Kinds
        <3>6. EmptiedRow(rows[k])
            BY <3>2, <3>3, <3>5 DEF EmptiedRow
        <3> QED BY <2>2, <3>2, <3>6
    <2> QED BY <1>7, <2>4, <2>5 DEF Accepts
<1> QED BY <1>2, <1>6, <1>7

LEMMA DeletePolicyKeeps ==
    ASSUME IInv, NEW p \in Policies, DeletePolicy(p)
    PROVE  IInv' /\ StoresValid
<1>1. StoreOK /\ HandlingOK /\ FormOK /\ CountsOK
    BY DEF IInv
<1>2. /\ UNCHANGED <<handling, form, sessions>> /\ policies' = [policies EXCEPT ![p] = None]
      /\ requests < MaxRequests /\ requests' = requests + 1
    BY DEF DeletePolicy
<1>3. /\ policies' \in [Policies -> Seq(KnownItem) \cup {None}]
      /\ \A q \in Policies : policies'[q] \in {policies[q], None}
    BY <1>1, <1>2 DEF StoreOK
<1>4. StoreOK' /\ StoresValid
    BY <1>3 DEF StoreOK, StoresValid
<1>5. CountsOK'
    BY <1>1, <1>2, BoundsAssumption DEF CountsOK
<1> QED BY <1>1, <1>2, <1>4, <1>5, Unchanged DEF IInv

LEMMA StutterKeeps == IInv /\ UNCHANGED vars => IInv'
BY Unchanged DEF IInv, vars

LEMMA StepHolds == IInv /\ [Next]_vars => IInv'
<1> SUFFICES ASSUME IInv, [Next]_vars PROVE IInv'
    OBVIOUS
<1>1. ASSUME NEW h \in Handlers, Begin(h) PROVE IInv'
    BY <1>1, BeginKeeps
<1>2. ASSUME NEW h \in Handlers, GrantNew(h) PROVE IInv'
    BY <1>2, GrantNewKeeps
<1>3. ASSUME NEW h \in Handlers, RevokeNothing(h) PROVE IInv'
    BY <1>3, RevokeNothingKeeps
<1>4. ASSUME NEW h \in Handlers, Commit(h) PROVE IInv'
    BY <1>4, CommitKeeps
<1>5. CASE OpenNew
    BY <1>5, OpenNewKeeps
<1>6. CASE OpenExisting
    BY <1>6, OpenExistingKeeps
<1>7. CASE CloseForm
    BY <1>7, CloseFormKeeps
<1>8. CASE AddName
    BY <1>8, AddNameKeeps
<1>9. CASE DropName
    BY <1>9, DropNameKeeps
<1>10. CASE SetAccesses
    BY <1>10, SetAccessesKeeps
<1>11. CASE SetAdmin
    BY <1>11, SetAdminKeeps
<1>12. CASE AddRow
    BY <1>12, AddRowKeeps
<1>13. CASE DeleteRow
    BY <1>13, DeleteRowKeeps
<1>14. CASE Save
    BY <1>14, SaveKeeps
<1>15. CASE ServeAccepted
    BY <1>15, ServeAcceptedKeeps
<1>16. CASE ServeRefused
    BY <1>16, ServeRefusedKeeps
<1>17. ASSUME NEW p \in Policies, DeletePolicy(p) PROVE IInv'
    BY <1>17, DeletePolicyKeeps
<1>18. CASE UNCHANGED vars
    BY <1>18, StutterKeeps
<1> QED BY <1>1, <1>2, <1>3, <1>4, <1>5, <1>6, <1>7, <1>8, <1>9, <1>10, <1>11, <1>12, <1>13,
           <1>14, <1>15, <1>16, <1>17, <1>18 DEF Next

LEMMA InvariantHolds == Spec => []IInv
<1> QED BY InitHolds, StepHolds, PTL DEF Spec

-----------------------------------------------------------------------------
(* Every variable has its type, and the store holds and every request      *)
(* works on what the database knows, in every reachable state.             *)
THEOREM TypeCorrect == Spec => []TypeOK
<1>1. IInv => TypeOK
    <2> SUFFICES ASSUME IInv PROVE TypeOK
        OBVIOUS
    <2>1. \A p \in Policies :
            policies[p] = None \/ \A k \in DOMAIN policies[p] : policies[p][k] \in KnownItem
        <3> SUFFICES ASSUME NEW p \in Policies, policies[p] # None
                     PROVE  \A k \in DOMAIN policies[p] : policies[p][k] \in KnownItem
            OBVIOUS
        <3>1. policies[p] \in Seq(KnownItem)
            BY PolicyIs DEF IInv
        <3> QED BY <3>1
    <2>2. \A h \in Handlers :
            handling[h] # None =>
                /\ handling[h].req \in Request
                /\ handling[h].policy \in Policies \cup {None}
                /\ \A k \in DOMAIN handling[h].items : handling[h].items[k] \in KnownItem
        BY DEF IInv, HandlingOK, Copied
    <2>3. form # None =>
            /\ form.policy \in Policies \cup {None}
            /\ \A k \in DOMAIN form.rows : form.rows[k] \in Row
            /\ form.edits \in 0..MaxEdits
        BY DEF IInv, FormOK, Session, KnownRow
    <2>4. requests \in 0..MaxRequests /\ sessions \in 0..MaxSessions
        BY DEF IInv, CountsOK
    <2> QED BY <2>1, <2>2, <2>3, <2>4 DEF TypeOK
<1> QED BY <1>1, InvariantHolds, PTL

(* Only the steps of a request end it.                                     *)
LEMMA OnlyItsStepsEnd ==
    ASSUME IInv, [Next]_vars, NEW h \in Handlers, NEW op, Finishes(h, op)
    PROVE  GrantNew(h) \/ RevokeNothing(h) \/ Commit(h)
<1>1. handling[h] # None /\ handling'[h] = None
    BY DEF Finishes
<1>2. HandlingOK
    BY DEF IInv
<1>3. ASSUME NEW g \in Handlers, g # h, NEW x, handling' = [handling EXCEPT ![g] = x] PROVE FALSE
    <2>1. handling'[h] = handling[h]
        BY <1>2, <1>3 DEF HandlingOK
    <2> QED BY <1>1, <2>1
<1>4. ASSUME NEW g \in Handlers, g # h, Begin(g) \/ GrantNew(g) \/ RevokeNothing(g) \/ Commit(g)
      PROVE  FALSE
    <2>1. \E x : handling' = [handling EXCEPT ![g] = x]
        BY <1>4 DEF Begin, GrantNew, RevokeNothing, Commit
    <2> QED BY <1>3, <1>4, <2>1
<1>5. ~Begin(h)
    BY <1>1 DEF Begin
<1>6. handling' # handling
    BY <1>1
<1>7. \A rows : ~EditRows(rows)
    BY <1>6 DEF EditRows
<1>8. ~(AddName \/ DropName \/ SetAccesses \/ SetAdmin \/ AddRow \/ DeleteRow)
    BY <1>7, Zenon DEF AddName, DropName, SetAccesses, SetAdmin, AddRow, DeleteRow
<1>9. ~(OpenNew \/ OpenExisting)
    BY <1>6 DEF OpenNew, OpenExisting, OpenForm
<1>10. ~(CloseForm \/ Save \/ ServeAccepted \/ ServeRefused \/ \E p \in Policies : DeletePolicy(p))
    BY <1>6 DEF CloseForm, Save, ServeAccepted, ServeRefused, DeletePolicy
<1>11. ~UNCHANGED vars
    BY <1>6 DEF vars
<1> QED BY <1>4, <1>5, <1>8, <1>9, <1>10, <1>11, Zenon DEF Next

LEMMA GrantStep ==
    IInv /\ [Next]_vars =>
        [\A h \in Handlers :
            Finishes(h, "grant") /\ handling[h].policy \in Existing \cup {None} =>
                GivesAsAsked(h)]_vars
<1> SUFFICES ASSUME IInv, [Next]_vars, NEW h \in Handlers,
                    Finishes(h, "grant"), handling[h].policy \in Existing \cup {None}
             PROVE  GivesAsAsked(h)
    OBVIOUS
<1>1. GrantNew(h) \/ RevokeNothing(h) \/ Commit(h)
    BY OnlyItsStepsEnd
<1>2. handling[h].req.op = "grant"
    BY DEF Finishes
<1>3. CASE GrantNew(h)
    BY <1>3, GrantNewKeeps
<1>4. CASE RevokeNothing(h)
    BY <1>2, <1>4 DEF RevokeNothing
<1>5. CASE Commit(h)
    <2>1. handling[h].policy \in Existing
        BY <1>5 DEF Commit
    <2> QED BY <1>2, <1>5, <2>1, CommitKeeps
<1> QED BY <1>1, <1>3, <1>4, <1>5

LEMMA RevokeStep ==
    IInv /\ [Next]_vars =>
        [\A h \in Handlers :
            Finishes(h, "revoke") /\ handling[h].policy \in Existing => TakesAsAsked(h)]_vars
<1> SUFFICES ASSUME IInv, [Next]_vars, NEW h \in Handlers,
                    Finishes(h, "revoke"), handling[h].policy \in Existing
             PROVE  TakesAsAsked(h)
    OBVIOUS
<1>1. GrantNew(h) \/ RevokeNothing(h) \/ Commit(h)
    BY OnlyItsStepsEnd
<1>2. handling[h].req.op = "revoke" /\ handling[h].policy # None
    BY NoneAssumption DEF Finishes, Existing
<1>3. Commit(h)
    BY <1>1, <1>2 DEF GrantNew, RevokeNothing
<1> QED BY <1>2, <1>3, CommitKeeps

LEMMA StoreStep == IInv /\ [Next]_vars => [StoresValid]_vars
<1> SUFFICES ASSUME IInv, Next PROVE StoresValid
    BY DEF StoresValid, vars
<1>1. ASSUME NEW h \in Handlers, GrantNew(h) PROVE StoresValid
    BY <1>1, GrantNewKeeps
<1>2. ASSUME NEW h \in Handlers, Commit(h) PROVE StoresValid
    BY <1>2, CommitKeeps
<1>3. CASE ServeAccepted
    BY <1>3, ServeAcceptedKeeps
<1>4. ASSUME NEW p \in Policies, DeletePolicy(p) PROVE StoresValid
    BY <1>4, DeletePolicyKeeps
<1>5. UNCHANGED policies => StoresValid
    BY DEF StoresValid
<1>6. ASSUME NEW h \in Handlers, Begin(h) \/ RevokeNothing(h) PROVE UNCHANGED policies
    BY <1>6 DEF Begin, RevokeNothing
<1>7. \A rows : EditRows(rows) => UNCHANGED policies
    BY DEF EditRows
<1>8. AddName \/ DropName \/ SetAccesses \/ SetAdmin \/ AddRow \/ DeleteRow => UNCHANGED policies
    BY <1>7, Zenon DEF AddName, DropName, SetAccesses, SetAdmin, AddRow, DeleteRow
<1>9. OpenNew \/ OpenExisting \/ CloseForm \/ Save \/ ServeRefused => UNCHANGED policies
    BY DEF OpenNew, OpenExisting, OpenForm, CloseForm, Save, ServeRefused
<1> QED BY <1>1, <1>2, <1>3, <1>4, <1>5, <1>6, <1>8, <1>9, Zenon DEF Next

(* An item that the server's validator would refuse comes into the store   *)
(* only from a grant that names somebody or something that the database    *)
(* does not know, and outlives only grants and revokes with replace: the   *)
(* form never stores one, and any other revoke leaves none.                *)
THEOREM ItemsValid == Spec => StoresValidItems
<1>1. IInv /\ [Next]_vars =>
        [\A p \in Policies : policies'[p] \notin {policies[p], None} =>
            \A i \in ToSet(policies'[p]) :
                \/ ValidItem(i)
                \/ \E h \in Handlers :
                    LET copy == handling[h]
                    IN  \/ Finishes(h, "grant") /\ (Unknown(copy.req) \/ LeftOf(i, copy.items))
                        \/ Finishes(h, "revoke") /\ copy.req.replace /\ LeftOf(i, copy.items)]_vars
    BY StoreStep DEF StoresValid, ByRequest
<1> QED BY <1>1, InvariantHolds, PTL DEF Spec, StoresValidItems

(* grantAccess gives the names of the request what it asks for, as far as  *)
(* the database knows the names and the access types, and with             *)
(* replaceExistingPermissions nothing else; nobody else loses anything, or *)
(* gains more than was asked for, or anything without sharing an item:     *)
(* however many names of either kind the request has, and whatever the     *)
(* items of the policy are.                                                *)
THEOREM GrantsAsAsked == Spec => GrantGivesWhatWasAsked
<1>1. IInv /\ [Next]_vars =>
        [\A h \in Handlers :
            Finishes(h, "grant") /\ handling[h].policy \in Existing \cup {None} =>
                \/ \E p \in Policies :
                    /\ IF handling[h].policy = None THEN p \notin Existing
                       ELSE p = handling[h].policy
                    /\ policies'[p] # None
                    /\ GrantAsAsked(handling[h], policies'[p])
                \/ policies' = policies /\ GrantAsAsked(handling[h], handling[h].items)]_vars
    BY GrantStep DEF GivesAsAsked
<1> QED BY <1>1, InvariantHolds, PTL DEF Spec, GrantGivesWhatWasAsked

(* revokeAccess gives nothing to anybody, takes everything with            *)
(* replaceExistingPermissions, and without it what was asked for from a    *)
(* name with one item of its own; nobody else loses anything without       *)
(* sharing an item with a name of the request.                             *)
THEOREM RevokesAsAsked == Spec => RevokeTakesWhatWasAsked
<1>1. IInv /\ [Next]_vars =>
        [\A h \in Handlers :
            Finishes(h, "revoke") /\ handling[h].policy \in Existing =>
                \/ RevokeAsAsked(handling[h], policies'[handling[h].policy])
                \/ policies' = policies /\ RevokeAsAsked(handling[h], handling[h].items)]_vars
    BY RevokeStep DEF TakesAsAsked
<1> QED BY <1>1, InvariantHolds, PTL DEF Spec, RevokeTakesWhatWasAsked

(* A save that the server accepts stores one item for each row of the form *)
(* that shows something, with what the row shows, and no other item.       *)
THEOREM SavedAsShown == Spec => SavesWhatIsShown
<1>1. IInv /\ [Next]_vars =>
        [ServeAccepted =>
            \E p \in Policies :
                /\ policies'[p] # None
                /\ form.policy \in {p, None}
                /\ LET rows == Only(form.rows, {k \in DOMAIN form.rows : Relevant(form.rows[k])})
                   IN  /\ Len(policies'[p]) = Len(rows)
                       /\ \A k \in DOMAIN rows :
                            /\ \A kind \in Kinds : policies'[p][k][kind] = Shown(rows[k], kind)
                            /\ policies'[p][k].accesses = rows[k].accesses
                            /\ policies'[p][k].admin = rows[k].admin]_vars
    BY ServeAcceptedKeeps DEF SavesAsShown
<1> QED BY <1>1, InvariantHolds, PTL DEF Spec, SavesWhatIsShown

(* The server refuses a form that formValidation has let pass only if the  *)
(* policy is gone, or for a row that was loaded and has been emptied.      *)
THEOREM PassedAccepted == Spec => PassedFormIsAccepted
<1>1. IInv /\ [Next]_vars =>
        [ServeRefused =>
            \/ form.policy \in Policies \ Existing
            \/ \E row \in ToSet(form.rows) : EmptiedRow(row)]_vars
    BY ServeRefusedKeeps
<1> QED BY <1>1, InvariantHolds, PTL DEF Spec, PassedFormIsAccepted
=============================================================================
