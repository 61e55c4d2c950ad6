------------------------- MODULE AdminConsoleProofs -------------------------
(***************************************************************************)
(* Proofs about AdminConsole: the types, the guard for unsaved edits and   *)
(* that the pages of users show the changes this tab has made of them.     *)
(***************************************************************************)
EXTENDS AdminConsole, TLAPS

-----------------------------------------------------------------------------
(* The inductive invariant, in parts.                                      *)

RoutesOK ==
    /\ fragment \in Routes /\ previous \in Routes
    /\ dialogs \in Seq(Dialog)

(* A page other than the list has its data; only a form is dirty; a form   *)
(* has the guard on until it is left by other means than the dialog.       *)
PageOK ==
    /\ view \in View
    /\ guard \in BOOLEAN /\ stale \in BOOLEAN
    /\ stale => guard
    /\ view.page = "loading" => ~guard
    /\ view.page # "users" => view.base \in Content
    /\ view.dirty => view.page \in Forms
    /\ view.page \in Forms /\ ~view.kept => guard

(* Only the list is filled by an answer, while it is up.                   *)
FetchesIn(fs) ==
    /\ fs \subseteq Fetch
    /\ \A f \in fs : f.mode = "fill" => f.page = "users" /\ view.page = "users"
    /\ \A f \in fs : f.cached => f.page \in Keys

FetchesOK == FetchesIn(fetches)

DataOK ==
    /\ cache \in [Keys -> Content \cup {NoEntry}]
    /\ server \in past /\ past \subseteq Content
    /\ changes \in 0..MaxChanges /\ faults \in 0..MaxFaults

SavingOK ==
    \/ saving = Idle
    \/ /\ saving \in [page : Forms, content : Content, change : 0..MaxChanges,
                      state : {"sent", "done", Gone, Failed}]
       /\ saving.change # 0 => saving.page = "user" /\ saving.change \in saving.content

BulkOK ==
    \/ bulk = Idle
    \/ /\ bulk \in [page : {"users"}, content : {{}}, change : Change, state : {"sent", "done"}]
       /\ bulk.change <= changes
       /\ bulk.state = "sent" => bulk.change \notin own.bulk

OwnOK ==
    /\ own \in [form : SUBSET server, bulk : SUBSET server]
    /\ \A c \in own.bulk : c <= changes
    /\ raced \in BOOLEAN

(* The answer to f will be shown as a page's data, or cached.              *)
Matters(f) == f.cached \/ f.mode = "fill" \/ (f.mode = "show" /\ f.page = "user")

(* Every copy of the user under key k has the changes of T.                *)
Contains(T, k) ==
    /\ cache[k] # NoEntry => T \subseteq cache[k]
    /\ \A f \in fetches :
         f.page = k /\ Matters(f) /\ f.got \notin {NotRead, Gone, Failed} => T \subseteq f.got
    /\ view.page = k /\ view.base # NotRead => T \subseteq view.base

(* While a save of the user is sent there is no copy but the one in the    *)
(* form, and none on its way.                                              *)
Saves == saving.page = "user" /\ saving.state = "sent"

DuringSave ==
    ~raced /\ Saves =>
        /\ \A k \in Keys : cache[k] = NoEntry
        /\ \A f \in fetches : f.page \in Keys => ~Matters(f)
        /\ view.page # "users"
        /\ view.page = "user" => saving.content \subseteq view.base

(* While a bulk change is under way no list is on its way, and one that is *)
(* up shows the change.                                                    *)
DuringBulk ==
    ~raced /\ bulk # Idle =>
        /\ \A f \in fetches : f.page = "users" => ~Matters(f)
        /\ view.page = "users" => view.base # NotRead /\ bulk.change \in view.base

FormsShown == ~raced => \A k \in Keys : Contains(own.form, k)

(* A bulk change is in the copies of the list once the cache is cleared.   *)
Settled   == own.bulk \ (IF bulk = Idle THEN {} ELSE {bulk.change})
BulkShown == ~raced => Contains(Settled, "users")

IInv ==
    /\ RoutesOK /\ PageOK /\ FetchesOK /\ DataOK
    /\ SavingOK /\ BulkOK /\ OwnOK
    /\ DuringSave /\ DuringBulk /\ FormsShown /\ BulkShown

LEMMA InvariantImplies == IInv => TypeOK /\ GuardsEdits /\ ShowsOwnChanges
<1> SUFFICES ASSUME IInv PROVE TypeOK /\ GuardsEdits /\ ShowsOwnChanges
    OBVIOUS
<1>1. TypeOK
    BY DEF IInv, RoutesOK, PageOK, FetchesOK, FetchesIn, DataOK, TypeOK
<1>2. GuardsEdits
    BY DEF IInv, PageOK, GuardsEdits
<1>3. ShowsOwnChanges
    BY DEF IInv, FormsShown, BulkShown, DuringBulk, Contains, Settled, Keys, ShowsOwnChanges
<1> QED BY <1>1, <1>2, <1>3

LEMMA InitHolds == Init => IInv
<1> SUFFICES ASSUME Init PROVE IInv
    OBVIOUS
<1>1. RoutesOK
    BY DEF Init, RoutesOK, Routes
<1>2. PageOK
    BY DEF Init, PageOK, Fresh, View, Pages, Routes, Forms, Content
<1>3. FetchesOK
    BY DEF Init, FetchesOK, FetchesIn
<1>4. DataOK
    BY BoundsAssumption DEF Init, DataOK, Content
<1>5. SavingOK /\ BulkOK /\ OwnOK
    BY DEF Init, SavingOK, BulkOK, OwnOK
<1>6. saving.page = "none" /\ bulk = Idle
    BY DEF Init, Idle
<1>7. DuringSave /\ DuringBulk
    BY <1>6 DEF DuringSave, DuringBulk, Saves
<1>8. FormsShown /\ BulkShown
    BY <1>6 DEF Init, Fresh, FormsShown, BulkShown, Contains, Settled, Keys
<1> QED BY <1>1, <1>2, <1>3, <1>4, <1>5, <1>7, <1>8 DEF IInv

-----------------------------------------------------------------------------
(* The parts of navigation.                                                *)

LEMMA RequestIs ==
    ASSUME DataOK, NEW page \in Routes, NEW mode \in {"show", "fill"}
    PROVE  /\ Request(page, mode) \in Fetch
           /\ Request(page, mode).page = page
           /\ Request(page, mode).mode = mode
           /\ Request(page, mode).cached => page \in Keys
           /\ page \in Keys => \/ Request(page, mode).got = NotRead
                               \/ /\ cache[page] # NoEntry
                                  /\ Request(page, mode).got = cache[page]
BY DEF DataOK, Request, Fetch, Keys, Routes

(* f is a request of fs, which closing a list may have orphaned.           *)
From(f, fs) ==
    \E g \in fs : /\ f.page = g.page /\ f.got = g.got /\ f.cached = g.cached
                  /\ Matters(f) => Matters(g)

LEMMA OrphanedIs ==
    ASSUME NEW fs, fs \subseteq Fetch
    PROVE  /\ Orphaned(fs) \subseteq Fetch
           /\ \A f \in Orphaned(fs) : f.mode # "fill" /\ From(f, fs)
<1> SUFFICES ASSUME NEW f \in Orphaned(fs)
             PROVE  f \in Fetch /\ f.mode # "fill" /\ From(f, fs)
    OBVIOUS
<1>1. PICK g \in fs : f = IF g.mode = "fill" THEN [g EXCEPT !.mode = "orphan"] ELSE g
    BY DEF Orphaned
<1>2. g \in Fetch
    OBVIOUS
<1>3. f \in Fetch /\ f.mode # "fill"
    BY <1>1, <1>2 DEF Fetch
<1>4. /\ f.page = g.page /\ f.got = g.got /\ f.cached = g.cached
      /\ Matters(f) => Matters(g)
    BY <1>1, <1>2 DEF Fetch, Matters
<1> QED BY <1>3, <1>4 DEF From

LEMMA FromSelf ==
    ASSUME NEW fs, NEW f \in fs
    PROVE  From(f, fs)
BY DEF From

LEMMA ShowKeeps ==
    ASSUME PageOK, NEW page \in Routes \cup {"error"}, NEW base \in Content \cup {NotRead},
           page # "users" => base \in Content, NEW on \in BOOLEAN,
           Show(page, base, on)
    PROVE  PageOK' /\ view'.page = page /\ view'.base = base
<1>1. view' = Fresh(page, base)
    BY DEF Show
<1>2. Fresh(page, base) \in View
    BY DEF Fresh, View, Pages
<1>3. view' \in View /\ view'.page = page /\ view'.base = base /\ ~view'.dirty /\ ~view'.kept
    BY <1>1, <1>2 DEF Fresh
<1>4. /\ guard' = GuardAfter(view.page, page, on)
      /\ stale' = (on /\ view.page \notin ClosingAllows /\ (stale \/ view.dirty))
    BY DEF Show
<1>5. PageOK'
    BY <1>3, <1>4 DEF PageOK, View, Routes, Forms, GuardAfter, ClosingAllows
<1> QED BY <1>3, <1>5

LEMMA SpinnerKeeps ==
    ASSUME PageOK, NEW on \in BOOLEAN, Spinner(on)
    PROVE  /\ PageOK'
           /\ view' = view \/ view'.page = "loading"
           /\ ~on => view'.page = "loading"
<1>1. CASE on
    BY <1>1 DEF PageOK, Spinner, pageVars
<1>2. CASE ~on
    <2>1. view' = Fresh("loading", {}) /\ guard' = FALSE /\ stale' = FALSE
        BY <1>2 DEF Spinner
    <2> QED BY <2>1 DEF Fresh, PageOK, View, Pages, Routes, Forms, Content
<1> QED BY <1>1, <1>2

(* f was asked for just now, for the page r.                               *)
Asked(f, r) ==
    /\ f.page = r
    /\ r \in Keys => /\ Overlaps(r) => raced'
                     /\ f.got = NotRead \/ (cache[r] # NoEntry /\ f.got = cache[r])

(* f has been served just now, or refused.                                 *)
Served(f) ==
    /\ \E g \in fetches : f.page = g.page /\ (Matters(f) => Matters(g))
    /\ f.page \in Keys => f.got \in {server, Gone, Failed}

(* The user is answered, for a page or an entry of k.                      *)
Answered(k, user) ==
    \E g \in fetches : /\ g.page = k /\ Matters(g)
                       /\ g.got \notin {NotRead, Gone, Failed} /\ user = g.got

(* What the data invariants need to know of a step that goes to r, if it   *)
(* goes anywhere, and has the requests fs before that.                     *)
Moved(r, fs) ==
    /\ raced => raced'
    /\ \A f \in fetches' : From(f, fs) \/ Asked(f, r) \/ Served(f)
    /\ \/ view'.page = view.page /\ view'.base = view.base
       \/ view'.page \notin Keys
       \/ /\ r = "users" /\ view'.page = r /\ view'.base = NotRead
          /\ Overlaps(r) => raced'
       \/ Answered(view'.page, view'.base)

Recached == \A k \in Keys : cache'[k] \in {cache[k], NoEntry} \/ Answered(k, cache'[k])

LEMMA ProceedKeeps ==
    ASSUME PageOK, DataOK, NEW r \in Routes, NEW on \in BOOLEAN, NEW fs, FetchesIn(fs),
           fragment' \in Routes, Proceed(r, on, fs)
    PROVE  /\ previous' \in Routes /\ PageOK' /\ FetchesOK' /\ Moved(r, fs)
           /\ raced' = (raced \/ (r \in Keys /\ Overlaps(r)))
<1> DEFINE raises == raced' = (raced \/ (r \in Keys /\ Overlaps(r)))
<1>1. previous' \in Routes /\ raises
    BY DEF Proceed
<1>2. fs \subseteq Fetch
    BY DEF FetchesIn
<1>3. CASE r = "users" /\ CallbackAtOnce(r, on, fs)
    <2> DEFINE q == Request("users", "fill")
    <2>1. /\ Show("users", NotRead, on)
          /\ fetches' = Orphaned(fs) \cup {q}
        BY <1>3 DEF CallbackAtOnce, Asks
    <2>2. PageOK' /\ view'.page = "users" /\ view'.base = NotRead
        BY <2>1, ShowKeeps DEF Routes
    <2>3. /\ q \in Fetch /\ q.page = "users"
          /\ q.got = NotRead \/ (cache["users"] # NoEntry /\ q.got = cache["users"])
        BY <1>3, RequestIs DEF Keys
    <2>4. \A f \in Orphaned(fs) : f \in Fetch /\ f.mode # "fill" /\ From(f, fs)
        BY <1>2, OrphanedIs
    <2>5. \A f \in Orphaned(fs) : f.cached => f.page \in Keys
        BY <2>4 DEF From, FetchesIn
    <2>6. FetchesOK'
        BY <2>1, <2>2, <2>3, <2>4, <2>5 DEF FetchesOK, FetchesIn, Keys
    <2>7. r \in Keys /\ (Overlaps(r) => raced')
        BY <1>1, <1>3 DEF Keys
    <2>8. Asked(q, r)
        BY <1>3, <2>3, <2>7 DEF Asked
    <2>9. Moved(r, fs)
        BY <1>1, <1>3, <2>1, <2>2, <2>4, <2>7, <2>8 DEF Moved
    <2> QED BY <1>1, <2>2, <2>6, <2>9
<1>4. CASE r # "users" /\ CallbackAtOnce(r, on, fs)
    <2>1. Show(r, {}, on) /\ fetches' = Orphaned(fs) /\ r \in {"group", "policies"}
        BY <1>4 DEF CallbackAtOnce
    <2>2. PageOK' /\ view'.page = r
        BY <2>1, <1>4, ShowKeeps DEF Content
    <2>3. \A f \in Orphaned(fs) : f \in Fetch /\ f.mode # "fill" /\ From(f, fs)
        BY <1>2, OrphanedIs
    <2>4. \A f \in Orphaned(fs) : f.cached => f.page \in Keys
        BY <2>3 DEF From, FetchesIn
    <2>5. FetchesOK'
        BY <2>1, <2>3, <2>4 DEF FetchesOK, FetchesIn
    <2>6. Moved(r, fs)
        BY <1>1, <2>1, <2>2, <2>3 DEF Moved, Keys
    <2> QED BY <1>1, <2>2, <2>5, <2>6
<1>5. CASE CallbackOnAnswer(r, on, fs)
    <2> DEFINE q  == Request(r, "show")
               gs == IF on THEN fs ELSE Orphaned(fs)
    <2>1. Spinner(on) /\ fetches' = gs \cup {q} /\ r \in {"user", "policy"}
        BY <1>5 DEF CallbackOnAnswer, Asks
    <2>2. /\ PageOK'
          /\ view' = view \/ view'.page = "loading"
        BY <2>1, SpinnerKeeps
    <2>3. on => view' = view
        BY <2>1 DEF Spinner, pageVars
    <2>4. /\ q \in Fetch /\ q.page = r /\ q.mode = "show"
          /\ q.cached => r \in Keys
          /\ r \in Keys => q.got = NotRead \/ (cache[r] # NoEntry /\ q.got = cache[r])
        BY RequestIs
    <2>5. \A f \in Orphaned(fs) : f \in Fetch /\ f.mode # "fill" /\ From(f, fs)
        BY <1>2, OrphanedIs
    <2>6. \A f \in gs : From(f, fs)
        BY <2>5, FromSelf
    <2>7. \A f \in gs : f.mode = "fill" => f.page = "users" /\ view'.page = "users"
        BY <2>3, <2>5 DEF FetchesIn
    <2>8. \A f \in gs : f.cached => f.page \in Keys
        BY <2>6 DEF From, FetchesIn
    <2>9. gs \subseteq Fetch
        BY <1>2, <2>5
    <2> HIDE DEF gs, q
    <2>10. FetchesOK'
        BY <2>1, <2>4, <2>7, <2>8, <2>9 DEF FetchesOK, FetchesIn, Keys
    <2>11. Asked(q, r)
        BY <1>1, <2>4 DEF Asked
    <2>12. Moved(r, fs)
        BY <1>1, <2>1, <2>2, <2>6, <2>11 DEF Moved, Keys
    <2> QED BY <1>1, <2>2, <2>10, <2>12
<1> QED BY <1>3, <1>4, <1>5 DEF Proceed

LEMMA RouteKeeps ==
    ASSUME RoutesOK, PageOK, DataOK, NEW r \in Routes, NEW on \in BOOLEAN,
           NEW fs, FetchesIn(fs), NEW open \in Seq(Dialog), raced \in BOOLEAN,
           RouteTo(r, on, open, fs)
    PROVE  RoutesOK' /\ PageOK' /\ FetchesOK' /\ Moved(r, fs) /\ raced' \in BOOLEAN
<1>1. CASE Asking(on)
    <2>1. /\ fragment' = r /\ previous' = previous
          /\ dialogs' = <<[kind |-> "route", target |-> r]>> \o open
          /\ fetches' = fs /\ view' = view /\ guard' = guard /\ stale' = stale
          /\ raced' = raced
        BY <1>1 DEF RouteTo, pageVars
    <2>2. [kind |-> "route", target |-> r] \in Dialog
        BY DEF Dialog
    <2>3. <<[kind |-> "route", target |-> r]>> \o open \in Seq(Dialog)
        BY <2>2
    <2>4. RoutesOK'
        BY <2>1, <2>3 DEF RoutesOK
    <2>5. PageOK' /\ FetchesOK'
        BY <2>1 DEF PageOK, FetchesOK, FetchesIn
    <2>6. Moved(r, fs)
        BY <2>1, FromSelf DEF Moved
    <2> QED BY <2>1, <2>4, <2>5, <2>6
<1>2. CASE ~Asking(on)
    <2>1. fragment' = r /\ Proceed(r, on, fs) /\ dialogs' = open
        BY <1>2 DEF RouteTo
    <2>2. /\ previous' \in Routes /\ PageOK' /\ FetchesOK' /\ Moved(r, fs)
          /\ raced' \in BOOLEAN
        BY <2>1, ProceedKeeps
    <2> QED BY <2>1, <2>2 DEF RoutesOK
<1> QED BY <1>1, <1>2

LEMMA NavigateKeeps ==
    ASSUME RoutesOK, PageOK, DataOK, NEW r \in Routes, NEW on \in BOOLEAN, on => guard,
           NEW fs, FetchesIn(fs), NEW open \in Seq(Dialog), raced \in BOOLEAN,
           Navigate(r, on, open, fs)
    PROVE  RoutesOK' /\ PageOK' /\ FetchesOK' /\ Moved(r, fs) /\ raced' \in BOOLEAN
<1>1. CASE r = fragment
    <2>1. /\ guard' = on /\ stale' = (stale /\ on)
          /\ view' = [view EXCEPT !.kept = view.kept \/ ~on]
          /\ dialogs' = open /\ fetches' = fs
          /\ fragment' = fragment /\ previous' = previous /\ raced' = raced
        BY <1>1 DEF Navigate
    <2>2. RoutesOK'
        BY <2>1 DEF RoutesOK
    <2>3. /\ view'.page = view.page /\ view'.base = view.base /\ view'.dirty = view.dirty
          /\ view'.kept = (view.kept \/ ~on) /\ view' \in View
        BY <2>1 DEF PageOK, View
    <2>4. PageOK'
        BY <2>1, <2>3 DEF PageOK
    <2>5. FetchesOK'
        BY <2>1, <2>3 DEF FetchesOK, FetchesIn
    <2>6. Moved(r, fs)
        BY <2>1, <2>3, FromSelf DEF Moved
    <2> QED BY <2>1, <2>2, <2>4, <2>5, <2>6
<1>2. CASE r # fragment
    BY <1>2, RouteKeeps DEF Navigate
<1> QED BY <1>1, <1>2

LEMMA MovedContains ==
    ASSUME NEW T, NEW k \in Keys, Contains(T, k), NEW r, NEW fs, Moved(r, fs),
           T \subseteq server, \A f \in fs : Matters(f) => f \in fetches, Recached
    PROVE  Contains(T, k)'
<1>1. ASSUME NEW f \in fetches', f.page = k, Matters(f), f.got \notin {NotRead, Gone, Failed}
      PROVE  T \subseteq f.got
    <2>1. CASE From(f, fs)
        BY <1>1, <2>1 DEF From, Contains
    <2>2. CASE Asked(f, r)
        BY <1>1, <2>2 DEF Asked, Contains
    <2>3. CASE Served(f)
        BY <1>1, <2>3 DEF Served
    <2> QED BY <2>1, <2>2, <2>3 DEF Moved
<1>2. view'.page = k /\ view'.base # NotRead => T \subseteq view'.base
    BY DEF Moved, Contains, Answered
<1>3. cache'[k] # NoEntry => T \subseteq cache'[k]
    BY DEF Recached, Contains, Answered
<1> QED BY <1>1, <1>2, <1>3 DEF Contains, Matters

LEMMA ContainsLess ==
    ASSUME NEW T, NEW U, U \subseteq T, NEW k, Contains(T, k)
    PROVE  Contains(U, k)
BY DEF Contains

(* Such a step keeps the data invariants, also at the end of a save and    *)
(* when another form is saved.                                             *)
LEMMA MovedKeeps ==
    ASSUME IInv, NEW r \in Routes, NEW fs, Moved(r, fs), raced' \in BOOLEAN,
           \A f \in fs : Matters(f) => f \in fetches,
           Recached, server' = server, bulk' = bulk, own' = own,
           saving' = saving \/ saving'.page # "user"
    PROVE  DuringSave' /\ DuringBulk' /\ FormsShown' /\ BulkShown'
<1>1. ~raced' => ~raced
    BY DEF Moved
<1>2. ASSUME ~raced', NEW f \in fetches', Matters(f), f.page \in Keys
      PROVE  \/ \E g \in fetches : Matters(g) /\ g.page = f.page
             \/ f.page = r /\ ~Overlaps(r)
    <2>1. CASE From(f, fs)
        BY <1>2, <2>1 DEF From
    <2>2. CASE Asked(f, r)
        BY <1>2, <2>2 DEF Asked
    <2>3. CASE Served(f)
        BY <1>2, <2>3 DEF Served
    <2> QED BY <2>1, <2>2, <2>3 DEF Moved
<1>3. DuringSave'
    <2> SUFFICES ASSUME ~raced', Saves'
                 PROVE  /\ \A k \in Keys : cache'[k] = NoEntry
                        /\ \A f \in fetches' : f.page \in Keys => ~Matters(f)
                        /\ view'.page # "users"
                        /\ view'.page = "user" => saving'.content \subseteq view'.base
        BY DEF DuringSave, Matters
    <2>1. saving' = saving
        BY DEF Saves
    <2>2. Saves
        BY <2>1 DEF Saves
    <2>3. Overlaps(r)
        BY <2>2 DEF Overlaps, Saves
    <2>4. /\ \A k \in Keys : cache[k] = NoEntry
          /\ \A f \in fetches : f.page \in Keys => ~Matters(f)
          /\ view.page # "users"
          /\ view.page = "user" => saving.content \subseteq view.base
        BY <1>1, <2>2 DEF IInv, DuringSave
    <2>5. \A f \in fetches' : f.page \in Keys => ~Matters(f)
        BY <1>2, <2>3, <2>4
    <2>6. /\ view'.page # "users"
          /\ view'.page = "user" => saving.content \subseteq view'.base
        BY <2>3, <2>4 DEF Moved, Keys, Answered
    <2>7. \A k \in Keys : cache'[k] = NoEntry
        BY <2>4 DEF Recached, Answered
    <2> QED BY <2>1, <2>4, <2>5, <2>6, <2>7
<1>4. DuringBulk'
    <2> SUFFICES ASSUME ~raced', bulk # Idle, bulk' = bulk
                 PROVE  /\ \A f \in fetches' : f.page = "users" => ~Matters(f)
                        /\ view'.page = "users" =>
                              view'.base # NotRead /\ bulk.change \in view'.base
        BY DEF DuringBulk, Matters
    <2>1. Overlaps("users")
        BY DEF Overlaps
    <2>2. /\ \A f \in fetches : f.page = "users" => ~Matters(f)
          /\ view.page = "users" => view.base # NotRead /\ bulk.change \in view.base
        BY <1>1 DEF IInv, DuringBulk
    <2>3. \A f \in fetches' : f.page = "users" => ~Matters(f)
        BY <1>2, <2>1, <2>2 DEF Keys
    <2>4. view'.page = "users" => view'.base # NotRead /\ bulk.change \in view'.base
        BY <2>1, <2>2 DEF Moved, Keys, Answered
    <2> QED BY <2>3, <2>4
<1>5. FormsShown'
    <2> SUFFICES ASSUME ~raced'
                 PROVE  \A k \in Keys : Contains(own.form, k)'
        BY DEF FormsShown, Contains
    <2>1. PICK T : T = own.form
        OBVIOUS
    <2>2. T \subseteq server /\ \A k \in Keys : Contains(T, k)
        BY <1>1, <2>1 DEF IInv, FormsShown, OwnOK
    <2>3. \A k \in Keys : Contains(T, k)'
        BY <2>2, MovedContains
    <2> QED BY <2>1, <2>2, <2>3 DEF Contains
<1>6. BulkShown'
    <2> SUFFICES ASSUME ~raced' PROVE Contains(Settled, "users")'
        BY DEF BulkShown
    <2>1. PICK T : T = Settled
        OBVIOUS
    <2>2. Contains(T, "users") /\ T \subseteq server
        BY <1>1, <2>1 DEF IInv, BulkShown, OwnOK, Settled
    <2>3. Contains(T, "users")'
        BY <2>2, MovedContains DEF Keys
    <2>4. T = Settled'
        BY <2>1 DEF Settled
    <2> QED BY <2>3, <2>4 DEF Contains
<1> QED BY <1>3, <1>4, <1>5, <1>6

(* What a step leaves alone when the invariant needs no more of it.        *)
LEMMA RestKeeps ==
    ASSUME IInv, UNCHANGED <<cache, dataVars, saving, bulk, own>>, raced' \in BOOLEAN
    PROVE  DataOK' /\ SavingOK' /\ BulkOK' /\ OwnOK'
BY DEF IInv, dataVars, DataOK, SavingOK, BulkOK, OwnOK

LEMMA ClickLinkKeeps ==
    ASSUME IInv, NEW r \in Routes, ClickLink(r)
    PROVE  IInv'
<1>1. UNCHANGED <<cache, dataVars, saving, bulk, own>>
    BY DEF ClickLink
<1>2. RoutesOK /\ PageOK /\ DataOK /\ FetchesIn(fetches) /\ raced \in BOOLEAN /\ guard \in BOOLEAN
    BY DEF IInv, FetchesOK, PageOK, OwnOK
<1>3. RoutesOK' /\ PageOK' /\ FetchesOK' /\ Moved(r, fetches) /\ raced' \in BOOLEAN
    <2>1. CASE RouteTo(r, guard, dialogs, fetches)
        BY <1>2, <2>1, RouteKeeps DEF RoutesOK
    <2>2. CASE /\ dialogs' = <<[kind |-> "link", target |-> r]>>
               /\ UNCHANGED <<fragment, previous, pageVars, fetches, raced>>
        <3>1. [kind |-> "link", target |-> r] \in Dialog
            BY DEF Dialog
        <3>2. RoutesOK'
            BY <1>2, <2>2, <3>1 DEF RoutesOK
        <3>3. PageOK' /\ FetchesOK'
            BY <1>2, <2>2 DEF PageOK, FetchesOK, FetchesIn, pageVars
        <3>4. Moved(r, fetches)
            BY <2>2, FromSelf DEF Moved, pageVars
        <3> QED BY <1>2, <2>2, <3>2, <3>3, <3>4
    <2> QED BY <2>1, <2>2 DEF ClickLink
<1>4. DuringSave' /\ DuringBulk' /\ FormsShown' /\ BulkShown'
    BY <1>1, <1>3, MovedKeeps DEF dataVars, Recached
<1> QED BY <1>1, <1>3, <1>4, RestKeeps DEF IInv

LEMMA GoBackKeeps ==
    ASSUME IInv, NEW r \in Routes, GoBack(r)
    PROVE  IInv'
<1>1. UNCHANGED <<cache, dataVars, saving, bulk, own>> /\ RouteTo(r, guard, dialogs, fetches)
    BY DEF GoBack
<1>2. RoutesOK /\ PageOK /\ DataOK /\ FetchesIn(fetches) /\ raced \in BOOLEAN /\ guard \in BOOLEAN
    BY DEF IInv, FetchesOK, PageOK, OwnOK
<1>3. RoutesOK' /\ PageOK' /\ FetchesOK' /\ Moved(r, fetches) /\ raced' \in BOOLEAN
    BY <1>1, <1>2, RouteKeeps DEF RoutesOK
<1>4. DuringSave' /\ DuringBulk' /\ FormsShown' /\ BulkShown'
    BY <1>1, <1>3, MovedKeeps DEF dataVars, Recached
<1> QED BY <1>1, <1>3, <1>4, RestKeeps DEF IInv

LEMMA CancelKeeps ==
    ASSUME IInv, Cancel
    PROVE  IInv'
<1> DEFINE r == ListOf[view.page]
<1>1. UNCHANGED <<cache, dataVars, saving, bulk, own>> /\ Navigate(r, FALSE, dialogs, fetches)
    BY DEF Cancel
<1>2. RoutesOK /\ PageOK /\ DataOK /\ FetchesIn(fetches) /\ raced \in BOOLEAN
    BY DEF IInv, FetchesOK, OwnOK
<1>3. r \in Routes
    BY DEF Cancel, Forms, ListOf, Routes
<1> HIDE DEF r
<1>4. RoutesOK' /\ PageOK' /\ FetchesOK' /\ Moved(r, fetches) /\ raced' \in BOOLEAN
    BY <1>1, <1>2, <1>3, NavigateKeeps DEF RoutesOK
<1>5. DuringSave' /\ DuringBulk' /\ FormsShown' /\ BulkShown'
    BY <1>1, <1>3, <1>4, MovedKeeps DEF dataVars, Recached
<1> QED BY <1>1, <1>4, <1>5, RestKeeps DEF IInv

LEMMA LeaveKeeps ==
    ASSUME IInv, Leave
    PROVE  IInv'
<1>1. UNCHANGED <<cache, dataVars, saving, bulk, own>> /\ dialogs # <<>>
    BY DEF Leave
<1>2. RoutesOK /\ PageOK /\ DataOK /\ FetchesIn(fetches) /\ raced \in BOOLEAN
    BY DEF IInv, FetchesOK, OwnOK
<1>3. Head(dialogs) \in Dialog /\ Tail(dialogs) \in Seq(Dialog)
    BY <1>1, <1>2 DEF RoutesOK
<1>4. PICK r : r = Head(dialogs).target
    OBVIOUS
<1>5. r \in Routes
    BY <1>3, <1>4 DEF Dialog
<1>6. RoutesOK' /\ PageOK' /\ FetchesOK' /\ Moved(r, fetches) /\ raced' \in BOOLEAN
    <2>1. CASE Head(dialogs).kind = "route"
        <3>1. /\ fragment' = fragment /\ dialogs' = Tail(dialogs)
              /\ Proceed(r, FALSE, fetches)
            BY <1>4, <2>1 DEF Leave
        <3>2. fragment' \in Routes
            BY <1>2, <3>1 DEF RoutesOK
        <3>3. /\ previous' \in Routes /\ PageOK' /\ FetchesOK' /\ Moved(r, fetches)
              /\ raced' \in BOOLEAN
            BY <1>2, <1>5, <3>1, <3>2, ProceedKeeps
        <3> QED BY <1>3, <3>1, <3>2, <3>3 DEF RoutesOK
    <2>2. CASE Head(dialogs).kind # "route"
        <3>1. Navigate(r, FALSE, Tail(dialogs), fetches)
            BY <1>4, <2>2 DEF Leave
        <3> QED BY <1>2, <1>3, <1>5, <3>1, NavigateKeeps
    <2> QED BY <2>1, <2>2
<1>7. DuringSave' /\ DuringBulk' /\ FormsShown' /\ BulkShown'
    BY <1>1, <1>5, <1>6, MovedKeeps DEF dataVars, Recached
<1> QED BY <1>1, <1>6, <1>7, RestKeeps DEF IInv

LEMMA StayKeeps ==
    ASSUME IInv, Stay
    PROVE  IInv'
<1>1. /\ UNCHANGED <<cache, dataVars, saving, bulk, own>> /\ dialogs # <<>>
      /\ UNCHANGED <<previous, view, guard, stale, fetches, raced>>
      /\ dialogs' = Tail(dialogs) /\ fragment' \in {previous, fragment}
    BY DEF Stay, pageVars, histVars
<1>2. RoutesOK' /\ PageOK' /\ FetchesOK'
    BY <1>1 DEF IInv, RoutesOK, PageOK, FetchesOK, FetchesIn
<1>3. raced' \in BOOLEAN
    BY <1>1 DEF IInv, OwnOK
<1>4. Moved("users", fetches)
    BY <1>1, FromSelf DEF Moved
<1>5. DuringSave' /\ DuringBulk' /\ FormsShown' /\ BulkShown'
    BY <1>1, <1>3, <1>4, MovedKeeps DEF dataVars, Recached, Routes
<1> QED BY <1>1, <1>2, <1>3, <1>5, RestKeeps DEF IInv

(* An edit, or a tab of the user's form, leaves the page and its data.     *)
LEMMA EditingKeeps ==
    ASSUME IInv, Editing, view' \in View, view'.page = view.page, view'.base = view.base,
           view'.kept = view.kept
    PROVE  IInv'
<1>1. /\ UNCHANGED <<cache, dataVars, saving, bulk, own>>
      /\ UNCHANGED <<fragment, previous, dialogs, guard, stale, fetches, raced>>
      /\ view.page \in Forms
    BY DEF Editing, navVars, histVars
<1>2. RoutesOK' /\ PageOK' /\ FetchesOK'
    BY <1>1 DEF IInv, RoutesOK, PageOK, FetchesOK, FetchesIn
<1>3. raced' \in BOOLEAN
    BY <1>1 DEF IInv, OwnOK
<1>4. Moved("users", fetches)
    BY <1>1, FromSelf DEF Moved
<1>5. DuringSave' /\ DuringBulk' /\ FormsShown' /\ BulkShown'
    BY <1>1, <1>3, <1>4, MovedKeeps DEF dataVars, Recached, Routes
<1> QED BY <1>1, <1>2, <1>3, <1>5, RestKeeps DEF IInv

LEMMA EditKeeps ==
    ASSUME IInv, Edit \/ RemoveRow \/ \E tab \in {"basic", "password"} : ChangeTab(tab)
    PROVE  IInv'
<1>1. view \in View
    BY DEF IInv, PageOK
<1>2. CASE Edit
    BY <1>1, <1>2, EditingKeeps DEF Edit, View
<1>3. CASE RemoveRow
    <2>1. PICK left \in BOOLEAN : view' = [view EXCEPT !.dirty = left, !.unmarked = TRUE]
        BY <1>1, <1>3 DEF RemoveRow, View
    <2> QED BY <1>1, <1>3, <2>1, EditingKeeps DEF RemoveRow, View
<1>4. CASE \E tab \in {"basic", "password"} : ChangeTab(tab)
    BY <1>1, <1>4, EditingKeeps DEF ChangeTab, View
<1> QED BY <1>2, <1>3, <1>4

LEMMA ExpireKeeps ==
    ASSUME IInv, NEW k \in Keys, Expire(k)
    PROVE  IInv'
<1>1. /\ UNCHANGED <<dataVars, saving, bulk, own>>
      /\ UNCHANGED <<fragment, previous, dialogs, view, guard, stale, fetches, raced>>
      /\ cache' = [cache EXCEPT ![k] = NoEntry]
    BY DEF Expire, navVars, pageVars, histVars
<1>2. RoutesOK' /\ PageOK' /\ FetchesOK' /\ SavingOK' /\ BulkOK' /\ OwnOK'
    BY <1>1 DEF IInv, RoutesOK, PageOK, FetchesOK, FetchesIn, SavingOK, BulkOK, OwnOK, dataVars
<1>3. DataOK'
    BY <1>1 DEF IInv, DataOK, dataVars
<1>4. Recached
    BY <1>1 DEF IInv, DataOK, Recached
<1>5. Moved("users", fetches) /\ raced' \in BOOLEAN
    BY <1>1, FromSelf DEF IInv, OwnOK, Moved
<1>6. DuringSave' /\ DuringBulk' /\ FormsShown' /\ BulkShown'
    BY <1>1, <1>4, <1>5, MovedKeeps DEF dataVars, Routes
<1> QED BY <1>2, <1>3, <1>6 DEF IInv

LEMMA ServeReadKeeps ==
    ASSUME IInv, NEW f \in fetches, ServeRead(f)
    PROVE  IInv'
<1>1. PICK got \in {IF f.page \in Keys THEN server ELSE {}, Gone, Failed} :
         /\ fetches' = (fetches \ {f}) \cup {[f EXCEPT !.got = got]}
         /\ Refused(got \in {Gone, Failed})
    BY DEF ServeRead
<1>2. /\ UNCHANGED <<cache, server, past, changes, saving, bulk, own>>
      /\ UNCHANGED <<fragment, previous, dialogs, view, guard, stale, raced>>
    BY DEF ServeRead, navVars, pageVars, histVars
<1>3. got \in Content \cup {Gone, Failed} /\ (f.page \in Keys => got \in {server, Gone, Failed})
    BY DEF IInv, DataOK, Content
<1>4. PICK g : g = [f EXCEPT !.got = got]
    OBVIOUS
<1>5. f \in Fetch
    BY DEF IInv, FetchesOK, FetchesIn
<1>6. /\ g \in Fetch /\ g.page = f.page /\ g.mode = f.mode /\ g.cached = f.cached
      /\ g.got = got
    BY <1>3, <1>4, <1>5 DEF Fetch
<1>7. FetchesOK'
    BY <1>1, <1>2, <1>4, <1>6 DEF IInv, FetchesOK, FetchesIn
<1>8. RoutesOK' /\ PageOK' /\ SavingOK' /\ BulkOK' /\ OwnOK'
    BY <1>2 DEF IInv, RoutesOK, PageOK, SavingOK, BulkOK, OwnOK
<1>9. DataOK'
    BY <1>1, <1>2, BoundsAssumption DEF IInv, DataOK, Refused
<1>10. Served(g)
    BY <1>3, <1>6 DEF Served, Matters
<1>11. \A h \in fetches' : From(h, fetches) \/ Served(h)
    BY <1>1, <1>4, <1>10, FromSelf
<1>12. Moved("users", fetches) /\ raced' \in BOOLEAN
    BY <1>2, <1>11 DEF IInv, OwnOK, Moved
<1>13. DuringSave' /\ DuringBulk' /\ FormsShown' /\ BulkShown'
    BY <1>2, <1>12, MovedKeeps DEF Recached, Routes
<1> QED BY <1>7, <1>8, <1>9, <1>13 DEF IInv

(* Putting up a page leaves no list to fill.                               *)
LEMMA OrphanedKeeps ==
    ASSUME NEW fs, FetchesIn(fs)
    PROVE  /\ Orphaned(fs) \subseteq Fetch
           /\ \A f \in Orphaned(fs) : /\ f.mode # "fill" /\ From(f, fs)
                                      /\ f.cached => f.page \in Keys
<1>1. \A f \in Orphaned(fs) : f \in Fetch /\ f.mode # "fill" /\ From(f, fs)
    BY OrphanedIs DEF FetchesIn
<1>2. \A f \in Orphaned(fs) : f.cached => f.page \in Keys
    BY <1>1 DEF From, FetchesIn
<1> QED BY <1>1, <1>2

LEMMA FromWithin ==
    ASSUME NEW gs, NEW fs, gs \subseteq fs, NEW f, From(f, gs)
    PROVE  From(f, fs)
BY DEF From

LEMMA AnswerFailsKeeps ==
    ASSUME IInv, NEW f \in fetches, AnswerFails(f)
    PROVE  IInv'
<1> DEFINE rest == fetches \ {f}
<1>1. /\ UNCHANGED <<cache, dataVars, saving, bulk, own>>
      /\ UNCHANGED <<fragment, previous, dialogs, raced>>
    BY DEF AnswerFails, navVars
<1>2. FetchesIn(rest) /\ raced' \in BOOLEAN
    BY <1>1 DEF IInv, FetchesOK, FetchesIn, OwnOK
<1>3. PageOK' /\ FetchesOK' /\ Moved("users", fetches)
    <2>1. CASE f.got = Gone
        <3>1. Show("error", {}, guard) /\ fetches' = Orphaned(rest)
            BY <2>1 DEF AnswerFails
        <3>2. PageOK' /\ view'.page = "error"
            BY <3>1, ShowKeeps DEF IInv, PageOK, Content
        <3>3. FetchesOK'
            BY <1>2, <3>1, OrphanedKeeps DEF FetchesOK, FetchesIn
        <3>4. \A g \in fetches' : From(g, fetches)
            BY <1>2, <3>1, OrphanedKeeps, FromWithin
        <3> QED BY <1>1, <3>2, <3>3, <3>4 DEF Moved, Keys
    <2>2. CASE f.got # Gone
        <3>1. UNCHANGED <<view, guard, stale>> /\ fetches' = rest
            BY <2>2 DEF AnswerFails, pageVars
        <3>2. PageOK' /\ FetchesOK'
            BY <1>2, <3>1 DEF IInv, PageOK, FetchesOK, FetchesIn
        <3> QED BY <1>1, <3>1, <3>2, FromSelf DEF Moved
    <2> QED BY <2>1, <2>2
<1>4. RoutesOK'
    BY <1>1 DEF IInv, RoutesOK
<1>5. DuringSave' /\ DuringBulk' /\ FormsShown' /\ BulkShown'
    BY <1>1, <1>2, <1>3, MovedKeeps DEF dataVars, Recached, Routes
<1> QED BY <1>1, <1>2, <1>3, <1>4, <1>5, RestKeeps DEF IInv

LEMMA SaveFailsKeeps ==
    ASSUME IInv, SaveFails
    PROVE  IInv'
<1>1. /\ UNCHANGED <<cache, dataVars, bulk, own>> /\ saving' = Idle
      /\ UNCHANGED <<fragment, previous, dialogs, raced>>
    BY DEF SaveFails, navVars, histVars
<1>2. FetchesIn(fetches) /\ raced' \in BOOLEAN
    BY <1>1 DEF IInv, FetchesOK, OwnOK
<1>3. PageOK' /\ FetchesOK' /\ Moved("users", fetches)
    <2>1. CASE saving.state = Gone
        <3>1. Show("error", {}, guard) /\ fetches' = Orphaned(fetches)
            BY <2>1 DEF SaveFails
        <3>2. PageOK' /\ view'.page = "error"
            BY <3>1, ShowKeeps DEF IInv, PageOK, Content
        <3>3. FetchesOK' /\ \A g \in fetches' : From(g, fetches)
            BY <1>2, <3>1, OrphanedKeeps DEF FetchesOK, FetchesIn
        <3> QED BY <1>1, <3>2, <3>3 DEF Moved, Keys
    <2>2. CASE saving.state # Gone
        <3>1. UNCHANGED <<view, guard, stale, fetches>>
            BY <2>2 DEF SaveFails, pageVars
        <3>2. PageOK' /\ FetchesOK'
            BY <1>2, <3>1 DEF IInv, PageOK, FetchesOK, FetchesIn
        <3> QED BY <1>1, <3>1, <3>2, FromSelf DEF Moved
    <2> QED BY <2>1, <2>2
<1>4. RoutesOK' /\ DataOK' /\ SavingOK' /\ BulkOK' /\ OwnOK'
    BY <1>1 DEF IInv, RoutesOK, DataOK, SavingOK, BulkOK, OwnOK, dataVars
<1>5. saving'.page # "user"
    BY <1>1 DEF Idle
<1>6. DuringSave' /\ DuringBulk' /\ FormsShown' /\ BulkShown'
    BY <1>1, <1>2, <1>3, <1>5, MovedKeeps DEF dataVars, Recached, Routes
<1> QED BY <1>3, <1>4, <1>6 DEF IInv

LEMMA AnswerKeeps ==
    ASSUME IInv, NEW f \in fetches, Answer(f)
    PROVE  IInv'
<1> DEFINE rest == fetches \ {f}
<1>1. /\ UNCHANGED <<dataVars, saving, bulk, own>>
      /\ UNCHANGED <<fragment, previous, dialogs>>
      /\ f.got \notin {NotRead, Gone, Failed}
      /\ cache' = IF f.cached THEN [cache EXCEPT ![f.page] = f.got] ELSE cache
      /\ raced' = (raced \/ (f.page = "users" /\ f.mode = "show" /\ Overlaps("users")))
    BY DEF Answer, navVars
<1>2. FetchesIn(rest) /\ raced' \in BOOLEAN /\ f \in Fetch /\ (f.cached => f.page \in Keys)
    BY <1>1 DEF IInv, FetchesOK, FetchesIn, OwnOK
<1>3. f.got \in Content
    BY <1>1, <1>2 DEF Fetch
<1>4. DataOK' /\ Recached
    BY <1>1, <1>2, <1>3 DEF IInv, DataOK, dataVars, Recached, Answered, Matters
<1>5. PageOK' /\ FetchesOK' /\ Moved("users", fetches)
    <2>1. CASE f.mode = "show" /\ f.page = "users"
        <3> DEFINE q == Request("users", "fill")
        <3>1. Show("users", NotRead, guard) /\ fetches' = Orphaned(rest) \cup {q}
            BY <2>1 DEF Answer, Fill
        <3>2. PageOK' /\ view'.page = "users" /\ view'.base = NotRead
            BY <3>1, ShowKeeps DEF IInv, PageOK, Routes
        <3>3. /\ q \in Fetch /\ q.page = "users"
              /\ q.got = NotRead \/ (cache["users"] # NoEntry /\ q.got = cache["users"])
            BY RequestIs DEF IInv, Keys, Routes
        <3>4. Asked(q, "users")
            BY <1>1, <2>1, <3>3 DEF Asked
        <3> HIDE DEF q
        <3>5. FetchesOK'
            BY <1>2, <3>1, <3>2, <3>3, OrphanedKeeps DEF FetchesOK, FetchesIn, Keys
        <3>6. \A g \in Orphaned(rest) : From(g, fetches)
            BY <1>2, OrphanedKeeps, FromWithin
        <3> QED BY <1>1, <2>1, <3>1, <3>2, <3>4, <3>5, <3>6 DEF Moved
    <2>2. CASE f.mode = "show" /\ f.page # "users"
        <3>1. Show(f.page, f.got, guard) /\ fetches' = Orphaned(rest)
            BY <2>2 DEF Answer, Fill
        <3>2. f.page \in Routes
            BY <1>2 DEF Fetch
        <3>3. PageOK' /\ view'.page = f.page /\ view'.base = f.got
            BY <1>3, <3>1, <3>2, ShowKeeps DEF IInv, PageOK
        <3>4. FetchesOK'
            BY <1>2, <3>1, OrphanedKeeps DEF FetchesOK, FetchesIn
        <3>5. \A g \in fetches' : From(g, fetches)
            BY <1>2, <3>1, OrphanedKeeps, FromWithin
        <3>6. f.page \in Keys => Answered(f.page, f.got)
            BY <1>1, <2>2 DEF Answered, Matters, Keys
        <3> QED BY <1>1, <3>3, <3>4, <3>5, <3>6 DEF Moved
    <2>3. CASE f.mode = "fill"
        <3>1. view' = [view EXCEPT !.base = f.got] /\ fetches' = rest /\ UNCHANGED <<guard, stale>>
            BY <2>3 DEF Answer, Fill
        <3>2. f.page = "users" /\ view.page = "users"
            BY <2>3 DEF IInv, FetchesOK, FetchesIn
        <3>3. /\ view' \in View /\ view'.page = view.page /\ view'.base = f.got
              /\ view'.dirty = view.dirty /\ view'.kept = view.kept
            BY <1>3, <3>1 DEF IInv, PageOK, View
        <3>4. PageOK' /\ FetchesOK'
            BY <1>2, <1>3, <3>1, <3>3 DEF IInv, PageOK, FetchesOK, FetchesIn
        <3>5. Answered(view'.page, view'.base)
            BY <1>1, <2>3, <3>2, <3>3 DEF Answered, Matters
        <3> QED BY <1>1, <3>1, <3>4, <3>5, FromSelf DEF Moved
    <2>4. CASE f.mode = "orphan"
        <3>1. UNCHANGED <<view, guard, stale>> /\ fetches' = rest
            BY <2>4 DEF Answer, Fill, pageVars
        <3>2. PageOK' /\ FetchesOK'
            BY <1>2, <3>1 DEF IInv, PageOK, FetchesOK, FetchesIn
        <3> QED BY <1>1, <3>1, <3>2, FromSelf DEF Moved
    <2> QED BY <1>2, <2>1, <2>2, <2>3, <2>4 DEF Fetch
<1>6. RoutesOK' /\ SavingOK' /\ BulkOK' /\ OwnOK'
    BY <1>1, <1>2 DEF IInv, RoutesOK, SavingOK, BulkOK, OwnOK, dataVars
<1>7. DuringSave' /\ DuringBulk' /\ FormsShown' /\ BulkShown'
    BY <1>1, <1>2, <1>4, <1>5, MovedKeeps DEF dataVars, Routes
<1> QED BY <1>4, <1>5, <1>6, <1>7 DEF IInv

(* At the start of a save of the user no copy is left but the form's, or   *)
(* the save is raced; the page then holds content.                         *)
LEMMA SentKeeps ==
    ASSUME IInv, NEW content \in Content, NEW change \in 0..MaxChanges,
           saving = Idle, view.page = "user", view.base \subseteq content,
           saving' = [page |-> "user", content |-> content, change |-> change, state |-> "sent"],
           cache' = [k \in Keys |-> NoEntry],
           raced' = (raced \/ \E f \in fetches : f.page \in Keys),
           fetches' = fetches, view'.page = view.page, view'.base = content,
           UNCHANGED <<server, bulk, own>>
    PROVE  DuringSave' /\ DuringBulk' /\ FormsShown' /\ BulkShown'
<1>1. ~raced' => ~raced /\ \A f \in fetches : f.page \notin Keys
    OBVIOUS
<1>2. view.base # NotRead
    BY AnswersAssumption DEF IInv, PageOK
<1>3. ~raced' => own.form \subseteq view.base
    BY <1>1, <1>2 DEF IInv, FormsShown, Contains, Keys
<1>4. DuringSave'
    BY <1>1 DEF DuringSave, Saves, Keys
<1>5. DuringBulk'
    BY <1>1 DEF DuringBulk, Keys
<1>6. ASSUME ~raced', NEW k \in Keys, NEW T, k = "users" \/ T \subseteq content
      PROVE  Contains(T, k)'
    BY <1>1, <1>6 DEF Contains, Keys
<1>7. PICK T : T = own.form
    OBVIOUS
<1>8. PICK U : U = Settled
    OBVIOUS
<1>9. FormsShown'
    <2>1. ~raced' => T \subseteq content
        BY <1>3, <1>7
    <2>2. ~raced' => \A k \in Keys : Contains(T, k)'
        BY <1>6, <2>1
    <2> QED BY <1>7, <2>2 DEF FormsShown, Contains
<1>10. BulkShown'
    <2>1. ~raced' => Contains(U, "users")'
        BY <1>6 DEF Keys
    <2>2. U = Settled'
        BY <1>8 DEF Settled
    <2> QED BY <2>1, <2>2 DEF BulkShown, Contains
<1> QED BY <1>4, <1>5, <1>9, <1>10

LEMMA SaveUserDetailKeeps ==
    ASSUME IInv, SaveUserDetail
    PROVE  IInv'
<1> DEFINE c == changes'
           content == view.base \cup {c}
<1>1. /\ saving = Idle /\ view.page = "user" /\ changes < MaxChanges /\ c = changes + 1
      /\ saving' = [page |-> "user", content |-> content, change |-> c, state |-> "sent"]
      /\ cache' = [k \in Keys |-> NoEntry]
      /\ raced' = (raced \/ \E f \in fetches : f.page \in Keys)
      /\ UNCHANGED <<fragment, previous, guard, stale, dialogs, fetches, server, past, faults,
                     bulk, own>>
      /\ view' = [view EXCEPT !.base = view.base \cup {c}]
    BY DEF SaveUserDetail, NewChange, Send, Unblocked, Cleared
<1>2. /\ c \in Change /\ c # 0 /\ c \in 0..MaxChanges /\ c > changes
      /\ changes \in Int
    BY <1>1, BoundsAssumption DEF IInv, DataOK, Change
<1>3. view.base \in Content /\ content \in Content
    BY <1>1, <1>2 DEF IInv, PageOK, Content
<1>4. /\ view' \in View /\ view'.page = view.page /\ view'.base = content
      /\ view'.dirty = view.dirty /\ view'.kept = view.kept
    BY <1>1, <1>3 DEF IInv, PageOK, View
<1>5. PageOK' /\ RoutesOK' /\ FetchesOK'
    BY <1>1, <1>3, <1>4 DEF IInv, PageOK, RoutesOK, FetchesOK, FetchesIn
<1>6. DataOK'
    BY <1>1, <1>2 DEF IInv, DataOK
<1>7. SavingOK'
    BY <1>1, <1>2, <1>3 DEF SavingOK, Forms
<1>8. BulkOK' /\ OwnOK'
    <2>1. \A b \in Change : b <= changes => b <= c
        BY <1>2 DEF Change
    <2>2. \A b \in own.bulk : b <= changes /\ b \in Change
        BY DEF IInv, OwnOK, DataOK, Content
    <2>3. BulkOK'
        BY <1>1, <2>1 DEF IInv, BulkOK
    <2>4. own \in [form : SUBSET server, bulk : SUBSET server] /\ raced' \in BOOLEAN
        BY <1>1 DEF IInv, OwnOK
    <2> QED BY <1>1, <2>1, <2>2, <2>3, <2>4 DEF OwnOK
<1>9. view.base \subseteq content
    OBVIOUS
<1> HIDE DEF c, content
<1>10. DuringSave' /\ DuringBulk' /\ FormsShown' /\ BulkShown'
    BY <1>1, <1>2, <1>3, <1>4, <1>9, SentKeeps
<1> QED BY <1>5, <1>6, <1>7, <1>8, <1>10 DEF IInv

LEMMA SavePasswordKeeps ==
    ASSUME IInv, SavePassword
    PROVE  IInv'
<1>1. /\ saving = Idle /\ view.page = "user"
      /\ saving' = [page |-> "user", content |-> view.base, change |-> 0, state |-> "sent"]
      /\ cache' = [k \in Keys |-> NoEntry]
      /\ raced' = (raced \/ \E f \in fetches : f.page \in Keys)
      /\ UNCHANGED <<fragment, previous, guard, stale, dialogs, fetches, server, past, changes,
                     faults, bulk, own, view>>
    BY DEF SavePassword, Send, Unblocked, Cleared
<1>2. view.base \in Content /\ 0 \in 0..MaxChanges
    BY <1>1, BoundsAssumption DEF IInv, PageOK
<1>3. PageOK' /\ RoutesOK' /\ FetchesOK' /\ BulkOK' /\ OwnOK'
    BY <1>1 DEF IInv, PageOK, RoutesOK, FetchesOK, FetchesIn, BulkOK, OwnOK
<1>4. DataOK'
    BY <1>1 DEF IInv, DataOK
<1>5. SavingOK'
    BY <1>1, <1>2 DEF SavingOK, Forms
<1>6. DuringSave' /\ DuringBulk' /\ FormsShown' /\ BulkShown'
    BY <1>1, <1>2, SentKeeps
<1> QED BY <1>3, <1>4, <1>5, <1>6 DEF IInv

LEMMA SaveOtherKeeps ==
    ASSUME IInv, SaveOther
    PROVE  IInv'
<1>1. /\ view.page \in {"group", "policy"}
      /\ saving' = [page |-> view.page, content |-> {}, change |-> 0, state |-> "sent"]
      /\ UNCHANGED <<fragment, previous, guard, stale, dialogs, fetches, server, past, changes,
                     faults, bulk, own, view, cache>>
      /\ raced' = (raced \/ (view.page = "user" /\ \E f \in fetches : f.page \in Keys))
    BY DEF SaveOther, Send, Cleared
<1>2. raced' = raced /\ raced' \in BOOLEAN
    BY <1>1 DEF IInv, OwnOK
<1>3. PageOK' /\ RoutesOK' /\ FetchesOK' /\ DataOK' /\ BulkOK' /\ OwnOK'
    BY <1>1, <1>2 DEF IInv, PageOK, RoutesOK, FetchesOK, FetchesIn, DataOK, BulkOK, OwnOK
<1>4. SavingOK'
    BY <1>1, BoundsAssumption DEF SavingOK, Forms, Content
<1>5. saving'.page # "user"
    BY <1>1
<1>6. Moved("users", fetches) /\ Recached
    BY <1>1, <1>2, FromSelf DEF Moved, Recached
<1>7. DuringSave' /\ DuringBulk' /\ FormsShown' /\ BulkShown'
    BY <1>1, <1>2, <1>5, <1>6, MovedKeeps DEF Routes
<1> QED BY <1>3, <1>4, <1>7 DEF IInv

(* What the server stores has of this tab's changes those in the content.  *)
LEMMA StoreIs ==
    ASSUME IInv, NEW content \in Content, NEW form \in SUBSET Change, NEW inBulk \in SUBSET Change,
           Store(content, form, inBulk), raced' = raced,
           changes' \in 0..MaxChanges, faults' \in 0..MaxFaults, changes' >= changes,
           \A c \in inBulk : c <= changes, cache' = cache
    PROVE  /\ DataOK' /\ OwnOK' /\ server' = content
           /\ own'.form = (own.form \cup form) \cap content
           /\ own'.bulk = (own.bulk \cup inBulk) \cap content
<1>1. /\ server' = content /\ past' = past \cup {content}
      /\ own' = [form |-> (own.form \cup form) \cap content,
                 bulk |-> (own.bulk \cup inBulk) \cap content]
    BY DEF Store
<1>2. DataOK'
    BY <1>1 DEF IInv, DataOK
<1>3. changes \in Int /\ changes' \in Int
    BY DEF IInv, DataOK
<1>4. content \in SUBSET Change /\ \A c \in Change : c \in Int
    BY DEF Content, Change
<1>5. \A c \in own'.bulk : c <= changes'
    BY <1>1, <1>3, <1>4 DEF IInv, OwnOK
<1>6. OwnOK'
    BY <1>1, <1>5 DEF IInv, OwnOK
<1> QED BY <1>1, <1>2, <1>6

LEMMA ServeSaveKeeps ==
    ASSUME IInv, ServeSave
    PROVE  IInv'
<1>1. /\ UNCHANGED <<fragment, previous, dialogs, view, guard, stale, fetches, cache,
                     changes, bulk, raced>>
      /\ saving.state = "sent" /\ saving # Idle
    BY DEF ServeSave, navVars, pageVars, Idle
<1>2. PageOK' /\ RoutesOK' /\ FetchesOK'
    BY <1>1 DEF IInv, PageOK, RoutesOK, FetchesOK, FetchesIn
<1>3. /\ saving \in [page : Forms, content : Content, change : 0..MaxChanges,
                     state : {"sent", "done", Gone, Failed}]
      /\ saving.change # 0 => saving.page = "user" /\ saving.change \in saving.content
    BY <1>1 DEF IInv, SavingOK
<1>4. PICK status \in {"done", Gone, Failed} : saving' = [saving EXCEPT !.state = status]
    BY DEF ServeSave
<1>5. /\ saving' \in [page : Forms, content : Content, change : 0..MaxChanges,
                      state : {"sent", "done", Gone, Failed}]
      /\ saving'.page = saving.page /\ saving'.content = saving.content
      /\ saving'.change = saving.change /\ saving'.state = status
    BY <1>3, <1>4
<1>6. status # "sent" /\ status # "none"
    BY <1>4, AnswersAssumption
<1>7. SavingOK' /\ ~Saves'
    BY <1>3, <1>5, <1>6 DEF SavingOK, Saves
<1>8. DuringSave' /\ DuringBulk'
    BY <1>1, <1>7 DEF IInv, DuringSave, DuringBulk, Matters
<1>9. faults' \in 0..MaxFaults
    BY BoundsAssumption DEF ServeSave, Refused, IInv, DataOK
<1>10. CASE saving.page = "user" /\ Store(saving.content, {saving.change} \ {0}, {})
    <2>1. {saving.change} \ {0} \in SUBSET Change
        BY <1>3, BoundsAssumption DEF Change
    <2>2. PICK content \in Content : content = saving.content
        BY <1>3
    <2>3. PICK form \in SUBSET Change : form = {saving.change} \ {0}
        BY <2>1
    <2>4. PICK none \in SUBSET Change : none = {}
        OBVIOUS
    <2>5. /\ Store(content, form, none) /\ \A c \in none : c <= changes
          /\ changes' \in 0..MaxChanges /\ changes' >= changes
        BY <1>1, <1>10, <2>2, <2>3, <2>4 DEF IInv, DataOK
    <2>6. /\ DataOK' /\ OwnOK' /\ server' = content
          /\ own'.form = (own.form \cup form) \cap content
          /\ own'.bulk = (own.bulk \cup none) \cap content
        <3>1. raced' = raced /\ cache' = cache
            BY <1>1
        <3> QED BY <3>1, <1>9, <2>2, <2>3, <2>4, <2>5, StoreIs
    <2>7. BulkOK'
        BY <1>1, <2>4, <2>6 DEF IInv, BulkOK
    <2>8. ASSUME ~raced
          PROVE  (\A k \in Keys : Contains(own.form, k)') /\ Contains(Settled, "users")'
        <3>1. /\ \A k \in Keys : cache[k] = NoEntry
              /\ \A f \in fetches : f.page \in Keys => ~Matters(f)
              /\ view.page # "users"
              /\ view.page = "user" => content \subseteq view.base
            BY <1>1, <1>10, <2>2, <2>8 DEF IInv, DuringSave, Saves
        <3> QED BY <1>1, <2>4, <2>6, <3>1 DEF Contains, Keys, Matters
    <2>9. FormsShown' /\ BulkShown'
        BY <1>1, <2>8 DEF FormsShown, BulkShown, Contains
    <2> QED BY <1>2, <1>7, <1>8, <2>6, <2>7, <2>9 DEF IInv
<1>11. CASE UNCHANGED <<server, past, own>>
    <2>1. DataOK' /\ OwnOK' /\ BulkOK'
        BY <1>1, <1>9, <1>11 DEF IInv, DataOK, OwnOK, BulkOK
    <2>2. FormsShown' /\ BulkShown'
        BY <1>1, <1>11 DEF IInv, FormsShown, BulkShown, Settled, Contains, Matters
    <2> QED BY <1>2, <1>7, <1>8, <2>1, <2>2 DEF IInv
<1> QED BY <1>10, <1>11 DEF ServeSave

LEMMA SaveDoneKeeps ==
    ASSUME IInv, SaveDone
    PROVE  IInv'
<1> DEFINE again == [page |-> "users", mode |-> "show", cached |-> FALSE, got |-> NotRead]
           fs    == IF saving.page = "group" THEN fetches \cup {again} ELSE fetches
           on    == guard /\ saving.page = "user" /\ saving.change = 0
           r     == ListOf[saving.page]
<1>1. /\ UNCHANGED <<cache, dataVars, bulk, own>> /\ saving' = Idle
      /\ saving.state = "done" /\ saving # Idle
      /\ Navigate(r, on, dialogs, fs)
    BY DEF SaveDone, Idle
<1>2. /\ saving.page \in Forms
      /\ saving.change \in 0..MaxChanges
      /\ saving.change # 0 => saving.page = "user" /\ saving.change \in saving.content
    BY <1>1 DEF IInv, SavingOK
<1>3. r \in Routes
    BY <1>2 DEF Forms, ListOf, Routes
<1>4. on \in BOOLEAN /\ (on => guard)
    OBVIOUS
<1>5. FetchesIn(fs) /\ \A f \in fs : Matters(f) => f \in fetches
    <2>1. again \in Fetch /\ again.mode = "show" /\ again.cached = FALSE /\ ~Matters(again)
        BY DEF Fetch, Routes, Matters
    <2> HIDE DEF again
    <2> QED BY <2>1 DEF IInv, FetchesOK, FetchesIn
<1>6. RoutesOK /\ PageOK /\ DataOK /\ dialogs \in Seq(Dialog) /\ raced \in BOOLEAN
    BY DEF IInv, RoutesOK, OwnOK
<1> HIDE DEF fs, on, r
<1>7. RoutesOK' /\ PageOK' /\ FetchesOK' /\ Moved(r, fs) /\ raced' \in BOOLEAN
    BY <1>1, <1>3, <1>4, <1>5, <1>6, NavigateKeeps
<1>8. OwnOK' /\ DataOK' /\ SavingOK' /\ BulkOK' /\ saving'.page # "user"
    BY <1>1, <1>7 DEF IInv, OwnOK, DataOK, SavingOK, BulkOK, dataVars, Idle
<1>9. DuringSave' /\ DuringBulk' /\ FormsShown' /\ BulkShown'
    BY <1>1, <1>3, <1>5, <1>7, <1>8, MovedKeeps DEF dataVars, Recached
<1> QED BY <1>7, <1>8, <1>9 DEF IInv

LEMMA BulkChangeKeeps ==
    ASSUME IInv, BulkChange
    PROVE  IInv'
<1> DEFINE c == changes'
<1>1. /\ view.page = "users" /\ view.base # NotRead /\ saving = Idle
      /\ changes < MaxChanges /\ c = changes + 1
      /\ view' = [view EXCEPT !.base = view.base \cup {c}]
      /\ bulk = Idle
      /\ bulk' = [page |-> "users", content |-> {}, change |-> c, state |-> "sent"]
      /\ raced' = (raced \/ \E f \in fetches : f.page = "users")
      /\ UNCHANGED <<fragment, previous, guard, stale, dialogs, fetches, cache, server, past,
                     faults, saving, own>>
    BY DEF BulkChange, NewChange, Unblocked, navVars
<1>2. c \in Change /\ c \in 0..MaxChanges /\ c > changes /\ changes \in Int
    BY <1>1, BoundsAssumption DEF IInv, DataOK, Change
<1>3. view.base \in Content /\ view.base \cup {c} \in Content
    BY <1>1, <1>2 DEF IInv, PageOK, View, Content
<1>4. /\ view' \in View /\ view'.page = view.page /\ view'.base = view.base \cup {c}
      /\ view'.dirty = view.dirty /\ view'.kept = view.kept
    BY <1>1, <1>3 DEF IInv, PageOK, View
<1>5. PageOK' /\ RoutesOK' /\ FetchesOK' /\ SavingOK'
    BY <1>1, <1>3, <1>4 DEF IInv, PageOK, RoutesOK, FetchesOK, FetchesIn, SavingOK
<1>6. DataOK'
    BY <1>1, <1>2 DEF IInv, DataOK
<1>7. BulkOK' /\ OwnOK'
    <2>1. \A b \in own.bulk : b <= changes /\ b \in Change
        BY DEF IInv, OwnOK, DataOK, Content
    <2>2. \A b \in own.bulk : b <= c /\ b # c
        BY <1>2, <2>1 DEF Change
    <2>3. BulkOK'
        BY <1>1, <1>2, <2>2 DEF BulkOK, Change
    <2> QED BY <1>1, <2>2, <2>3 DEF IInv, OwnOK
<1>8. DuringSave'
    BY <1>1 DEF DuringSave, Saves, Idle
<1>9. ~raced' => ~raced /\ \A f \in fetches : f.page # "users"
    BY <1>1
<1>10. DuringBulk'
    <2>1. view'.base # NotRead
        BY <1>3, <1>4, AnswersAssumption
    <2> QED BY <1>1, <1>4, <1>9, <2>1 DEF DuringBulk
<1>11. ASSUME NEW T, NEW k \in Keys, Contains(T, k)
       PROVE  Contains(T, k)'
    BY <1>1, <1>4, <1>11 DEF Contains, Matters
<1>12. FormsShown'
    <2>1. PICK T : T = own.form
        OBVIOUS
    <2>2. ~raced' => \A k \in Keys : Contains(T, k)'
        BY <1>9, <1>11, <2>1 DEF IInv, FormsShown
    <2> QED BY <1>1, <2>1, <2>2 DEF FormsShown, Contains
<1>13. BulkShown'
    <2>1. PICK T : T = own.bulk
        OBVIOUS
    <2>2. T = Settled
        BY <1>1, <2>1 DEF Settled
    <2>3. ~raced' => Contains(T, "users")'
        BY <1>9, <1>11, <2>2 DEF IInv, BulkShown, Keys
    <2>4. Settled' \subseteq T
        BY <1>1, <2>1 DEF Settled
    <2> QED BY <2>3, <2>4 DEF BulkShown, Contains
<1> QED BY <1>5, <1>6, <1>7, <1>8, <1>10, <1>12, <1>13 DEF IInv

(* The copies of the user stay, and what they must show does not grow.     *)
LEMMA CopiesKeep ==
    ASSUME IInv, UNCHANGED <<fetches, view, cache, raced>>,
           own'.form \subseteq own.form, Settled' \subseteq Settled
    PROVE  FormsShown' /\ BulkShown'
BY DEF IInv, FormsShown, BulkShown, Contains, Matters

LEMMA ServeBulkKeeps ==
    ASSUME IInv, ServeBulk
    PROVE  IInv'
<1>1. /\ UNCHANGED <<fragment, previous, dialogs, view, guard, stale, fetches, cache,
                     changes, saving, raced>>
      /\ bulk.state = "sent" /\ bulk # Idle
    BY DEF ServeBulk, navVars, pageVars, Idle
<1>2. PageOK' /\ RoutesOK' /\ FetchesOK' /\ SavingOK'
    BY <1>1 DEF IInv, PageOK, RoutesOK, FetchesOK, FetchesIn, SavingOK
<1>3. /\ bulk \in [page : {"users"}, content : {{}}, change : Change, state : {"sent", "done"}]
      /\ bulk.change <= changes /\ bulk.change \notin own.bulk
    BY <1>1 DEF IInv, BulkOK
<1>4. DuringSave'
    BY <1>1 DEF IInv, DuringSave, Saves, Matters
<1>5. faults' \in 0..MaxFaults
    BY BoundsAssumption DEF ServeBulk, Refused, IInv, DataOK
<1>6. CASE /\ bulk' = [bulk EXCEPT !.state = "done"]
           /\ Store(server \cup {bulk.change}, {}, {bulk.change})
    <2>1. /\ bulk' \in [page : {"users"}, content : {{}}, change : Change,
                        state : {"sent", "done"}]
          /\ bulk'.change = bulk.change /\ bulk'.state = "done" /\ bulk' # Idle
        BY <1>3, <1>6 DEF Idle
    <2>2. PICK content \in Content : content = server \cup {bulk.change}
        BY <1>3 DEF IInv, DataOK, Content
    <2>3. PICK inBulk \in SUBSET Change : inBulk = {bulk.change}
        BY <1>3
    <2>4. PICK none \in SUBSET Change : none = {}
        OBVIOUS
    <2>5. /\ Store(content, none, inBulk) /\ \A c \in inBulk : c <= changes
          /\ changes' \in 0..MaxChanges /\ changes' >= changes
        BY <1>1, <1>3, <1>6, <2>2, <2>3, <2>4 DEF IInv, DataOK
    <2>6. /\ DataOK' /\ OwnOK'
          /\ own'.form = (own.form \cup none) \cap content
          /\ own'.bulk = (own.bulk \cup inBulk) \cap content
        <3>1. raced' = raced /\ cache' = cache
            BY <1>1
        <3> QED BY <3>1, <1>5, <2>2, <2>3, <2>4, <2>5, StoreIs
    <2>7. BulkOK'
        BY <1>1, <1>3, <2>1 DEF BulkOK
    <2>8. DuringBulk'
        BY <1>1, <2>1 DEF IInv, DuringBulk, Matters
    <2>9. Settled' \subseteq Settled
        BY <1>1, <2>1, <2>3, <2>6 DEF Settled
    <2>10. FormsShown' /\ BulkShown'
        BY <1>1, <2>4, <2>6, <2>9, CopiesKeep
    <2> QED BY <1>2, <1>4, <2>6, <2>7, <2>8, <2>10 DEF IInv
<1>7. CASE bulk' = Idle /\ UNCHANGED <<server, past, own>>
    <2>1. BulkOK' /\ DuringBulk' /\ OwnOK' /\ DataOK'
        BY <1>1, <1>5, <1>7 DEF IInv, BulkOK, DuringBulk, OwnOK, DataOK
    <2>2. Settled' \subseteq Settled
        BY <1>3, <1>7 DEF Settled
    <2>3. FormsShown' /\ BulkShown'
        BY <1>1, <1>7, <2>2, CopiesKeep
    <2> QED BY <1>2, <1>4, <2>1, <2>3 DEF IInv
<1> QED BY <1>6, <1>7 DEF ServeBulk

LEMMA BulkDoneKeeps ==
    ASSUME IInv, BulkDone
    PROVE  IInv'
<1>1. /\ UNCHANGED <<fragment, previous, dialogs, view, guard, stale, server, past, changes,
                     faults, saving, own, raced>>
      /\ bulk.state = "done" /\ bulk # Idle /\ bulk' = Idle
      /\ cache' = [cache EXCEPT !["users"] = NoEntry]
    BY DEF BulkDone, navVars, pageVars, dataVars, histVars, Idle
<1>2. PICK mode \in IF view.page = "users" THEN {"fill", "orphan"} ELSE {"orphan"} :
         fetches' = fetches \cup
            {[page |-> "users", mode |-> mode, cached |-> FALSE, got |-> NotRead]}
    BY DEF BulkDone
<1>3. PICK q : q = [page |-> "users", mode |-> mode, cached |-> FALSE, got |-> NotRead]
    OBVIOUS
<1>4. /\ q \in Fetch /\ q.page = "users" /\ q.mode = mode /\ ~q.cached /\ q.got = NotRead
      /\ mode = "fill" => view.page = "users"
      /\ mode \in {"fill", "orphan"}
    BY <1>3 DEF Fetch, Routes
<1>5. fetches' = fetches \cup {q}
    BY <1>2, <1>3
<1>6. PageOK' /\ RoutesOK' /\ SavingOK' /\ OwnOK'
    BY <1>1 DEF IInv, PageOK, RoutesOK, SavingOK, OwnOK
<1>7. FetchesOK'
    BY <1>1, <1>4, <1>5 DEF IInv, FetchesOK, FetchesIn
<1>8. DataOK'
    BY <1>1 DEF IInv, DataOK, Keys
<1>9. BulkOK' /\ DuringBulk'
    BY <1>1 DEF BulkOK, DuringBulk
<1>10. \A k \in Keys : cache'[k] = cache[k] \/ cache'[k] = NoEntry
    BY <1>1 DEF IInv, DataOK
<1>11. DuringSave'
    <2> SUFFICES ASSUME ~raced, Saves
                 PROVE  /\ \A k \in Keys : cache'[k] = NoEntry
                        /\ \A f \in fetches' : f.page \in Keys => ~Matters(f)
                        /\ view.page # "users"
                        /\ view.page = "user" => saving.content \subseteq view.base
        BY <1>1 DEF DuringSave, Saves, Matters
    <2>1. /\ \A k \in Keys : cache[k] = NoEntry
          /\ \A f \in fetches : f.page \in Keys => ~Matters(f)
          /\ view.page # "users"
          /\ view.page = "user" => saving.content \subseteq view.base
        BY DEF IInv, DuringSave
    <2>2. ~Matters(q)
        BY <1>4, <2>1 DEF Matters
    <2> QED BY <1>5, <1>10, <2>1, <2>2
<1>12. FormsShown'
    BY <1>1, <1>4, <1>5, <1>10 DEF IInv, FormsShown, Contains, Matters
<1>13. BulkShown'
    <2> SUFFICES ASSUME ~raced PROVE Contains(Settled, "users")'
        BY <1>1 DEF BulkShown
    <2>1. cache'["users"] = NoEntry
        BY <1>1 DEF IInv, DataOK, Keys
    <2>2. /\ \A f \in fetches : f.page = "users" => ~Matters(f)
          /\ view.page = "users" => view.base # NotRead /\ bulk.change \in view.base
        BY <1>1 DEF IInv, DuringBulk
    <2>3. view.page = "users" => own.bulk \subseteq view.base
        BY <1>1, <2>2 DEF IInv, BulkShown, Contains, Settled
    <2>4. \A f \in fetches' : f.page = "users" /\ Matters(f) => f.got = NotRead
        BY <1>4, <1>5, <2>2
    <2>5. Settled' = own.bulk
        BY <1>1 DEF Settled
    <2> QED BY <1>1, <2>1, <2>3, <2>4, <2>5 DEF Contains, Matters
<1> QED BY <1>6, <1>7, <1>8, <1>9, <1>11, <1>12, <1>13 DEF IInv

LEMMA OtherAdminKeeps ==
    ASSUME IInv, OtherAdmin
    PROVE  IInv'
<1>1. /\ UNCHANGED <<fragment, previous, dialogs, view, guard, stale, fetches, cache,
                     faults, saving, bulk, raced>>
      /\ changes < MaxChanges /\ changes' = changes + 1
    BY DEF OtherAdmin, NewChange, navVars, pageVars
<1>2. /\ changes' \in Change /\ changes' \in 0..MaxChanges /\ changes' >= changes
      /\ changes \in Int
    BY <1>1, BoundsAssumption DEF IInv, DataOK, Change
<1>3. PICK loaded \in past : Store(loaded \cup {changes'}, {}, {})
    BY DEF OtherAdmin
<1>4. PICK content \in Content : content = loaded \cup {changes'}
    BY <1>2 DEF IInv, DataOK, Content
<1>5. PICK none \in SUBSET Change : none = {}
    OBVIOUS
<1>6. /\ Store(content, none, none) /\ faults' \in 0..MaxFaults
      /\ \A c \in none : c <= changes
    BY <1>1, <1>3, <1>4, <1>5 DEF IInv, DataOK
<1>7. /\ DataOK' /\ OwnOK'
      /\ own'.form = (own.form \cup none) \cap content
      /\ own'.bulk = (own.bulk \cup none) \cap content
    <2>1. raced' = raced /\ cache' = cache
        BY <1>1
    <2> QED BY <2>1, <1>2, <1>4, <1>5, <1>6, StoreIs
<1>8. PageOK' /\ RoutesOK' /\ FetchesOK' /\ SavingOK'
    BY <1>1 DEF IInv, PageOK, RoutesOK, FetchesOK, FetchesIn, SavingOK
<1>9. \A b \in Change : b <= changes => b <= changes'
    BY <1>1, <1>2 DEF Change
<1>10. BulkOK'
    BY <1>1, <1>5, <1>7, <1>9 DEF IInv, BulkOK
<1>11. DuringSave' /\ DuringBulk'
    BY <1>1 DEF IInv, DuringSave, DuringBulk, Saves, Matters
<1>12. Settled' \subseteq Settled
    BY <1>1, <1>5, <1>7 DEF Settled
<1>13. FormsShown' /\ BulkShown'
    BY <1>1, <1>5, <1>7, <1>12, CopiesKeep
<1> QED BY <1>7, <1>8, <1>10, <1>11, <1>13 DEF IInv

LEMMA StepHolds == IInv /\ [Next]_vars => IInv'
<1> SUFFICES ASSUME IInv, [Next]_vars PROVE IInv'
    OBVIOUS
<1>1. CASE \E r \in Routes : ClickLink(r) \/ GoBack(r)
    BY <1>1, ClickLinkKeeps, GoBackKeeps
<1>2. CASE \/ Leave \/ Stay \/ Edit \/ RemoveRow \/ Cancel
           \/ \E tab \in {"basic", "password"} : ChangeTab(tab)
    BY <1>2, LeaveKeeps, StayKeeps, EditKeeps, CancelKeeps
<1>3. CASE \E f \in fetches : ServeRead(f) \/ Answer(f) \/ AnswerFails(f)
    BY <1>3, ServeReadKeeps, AnswerKeeps, AnswerFailsKeeps
<1>4. CASE \E k \in Keys : Expire(k)
    BY <1>4, ExpireKeeps
<1>5. CASE SaveUserDetail \/ SavePassword \/ SaveOther
    BY <1>5, SaveUserDetailKeeps, SavePasswordKeeps, SaveOtherKeeps
<1>6. CASE ServeSave \/ SaveDone \/ SaveFails
    BY <1>6, ServeSaveKeeps, SaveDoneKeeps, SaveFailsKeeps
<1>7. CASE BulkChange \/ ServeBulk \/ BulkDone
    BY <1>7, BulkChangeKeeps, ServeBulkKeeps, BulkDoneKeeps
<1>8. CASE OtherAdmin
    BY <1>8, OtherAdminKeeps
<1>9. CASE UNCHANGED vars
    <2>1. UNCHANGED <<fragment, previous, view, guard, stale, dialogs, fetches, cache, server,
                      past, changes, faults, saving, bulk, own, raced>>
        BY <1>9 DEF vars, navVars, pageVars, dataVars, histVars
    <2>2. RoutesOK' /\ PageOK' /\ FetchesOK' /\ DataOK' /\ SavingOK' /\ BulkOK' /\ OwnOK'
        BY <2>1 DEF IInv, RoutesOK, PageOK, FetchesOK, FetchesIn, DataOK, SavingOK, BulkOK, OwnOK
    <2>3. DuringSave' /\ DuringBulk' /\ FormsShown' /\ BulkShown'
        BY <2>1 DEF IInv, DuringSave, DuringBulk, FormsShown, BulkShown, Settled, Saves,
                    Contains, Matters
    <2> QED BY <2>2, <2>3 DEF IInv
<1> QED BY <1>1, <1>2, <1>3, <1>4, <1>5, <1>6, <1>7, <1>8, <1>9 DEF Next

LEMMA InvariantHolds == Spec => []IInv
<1>1. Init => IInv
    BY InitHolds
<1>2. IInv /\ [Next]_vars => IInv'
    BY StepHolds
<1> QED BY <1>1, <1>2, PTL DEF Spec

-----------------------------------------------------------------------------
(* Every variable of the tab keeps its type whatever the router, the cache *)
(* and the answers of the server do to it; a loading picture never has the *)
(* guard on, and no click handler of a closed form is bound while it is    *)
(* off.                                                                    *)
THEOREM TypeCorrect == Spec => []TypeOK
<1>1. IInv => TypeOK
    BY InvariantImplies
<1> QED BY <1>1, InvariantHolds, PTL

(* The edits of a form that carry the mark .dirtyField are guarded by      *)
(* window._preventNavigation until the user has left the form, through     *)
(* every order in which pages, tabs of the user's form, saves and late     *)
(* answers turn that flag on and off.  Edits that leave no mark, in a      *)
(* user's form after a change of its tab and in removed rows of a policy,  *)
(* are not guarded, and the theorem says nothing of them.                  *)
THEOREM EditsGuarded == Spec => []GuardsEdits
<1>1. IInv => GuardsEdits
    BY InvariantImplies
<1> QED BY <1>1, InvariantHolds, PTL

(* A page of users that has its data shows what this tab has changed and   *)
(* no save has undone since - another admin's console saves the whole      *)
(* record as it was loaded -, although the page may come from              *)
(* Backbone.fetchCache, unless a request for it overlapped the change.     *)
THEOREM OwnChangesShown == Spec => []ShowsOwnChanges
<1>1. IInv => ShowsOwnChanges
    BY InvariantImplies
<1> QED BY <1>1, InvariantHolds, PTL
=============================================================================
