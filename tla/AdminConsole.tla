---------------------------- MODULE AdminConsole ----------------------------
(***************************************************************************)
(* One browser tab of the admin web interface: the router with its guard   *)
(* for unsaved edits, pages that are put up when the answer to a request   *)
(* arrives, the cache of fetched objects, saves, and the bulk changes of   *)
(* the user list - against a server that another admin changes too.        *)
(*                                                                         *)
(* The pages stand for the ways a page of the interface comes and goes:    *)
(*   users     the list: put up at once, filled when the answer arrives,   *)
(*             cached; closing it turns the guard off                      *)
(*   user      a form put up when the answer arrives, cached; closing it   *)
(*             leaves the guard alone                                      *)
(*   group     a form put up at once (create)                              *)
(*   policy    a form put up when the answer arrives, never cached;        *)
(*             closing it turns the guard off                              *)
(*   policies  a list put up at once                                       *)
(* The data followed is one user record, as the set of the changes in it.  *)
(***************************************************************************)
EXTENDS Integers, Sequences, FiniteSets

CONSTANTS
    MaxChanges,   \* bound: changes of the user record, by this tab and another admin
    MaxFetches,   \* bound: requests outstanding at a time
    MaxMoves,     \* bound: links clicked, browser history steps, cancels and saves
    MaxFaults,    \* bound: requests refused
    MaxDialogs,   \* bound: dialogs opened over one another by history steps
    NoEntry,      \* the key is not in the cache
    NotRead,      \* not served by the server yet
    Gone,         \* answered with 404 or 401
    Failed        \* answered with any other error

ASSUME BoundsAssumption  == MaxChanges \in Nat /\ MaxFaults \in Nat

Routes == {"users", "user", "group", "policy", "policies"}
Pages  == Routes \cup {"loading", "error"}
Forms  == {"user", "group", "policy"}

(* Pages whose onClose calls XAUtil.allowNavigation().                     *)
ClosingAllows == {"users", "policy"}

(* The page a save or a cancel of a form goes to.                          *)
ListOf == [user |-> "users", group |-> "users", policy |-> "policies"]

Keys     == {"users", "user"}        \* what is fetched with cache : true
Change   == 1..MaxChanges
Content  == SUBSET Change

ASSUME AnswersAssumption ==
    /\ \A content \in Content : NotRead # content
    /\ {Gone, Failed} \cap {"none", "sent", "done"} = {}

VARIABLES
    fragment,  \* what the URL names
    previous,  \* MAppState previousFragment
    view,      \* what App.rContent shows: a page, what it was loaded with, its edits
    guard,     \* window._preventNavigation
    stale,     \* a click handler of a dirty form that was closed is still bound
    dialogs,   \* open dialogs that ask whether to leave for a page, the topmost first
    fetches,   \* requests whose answer has not arrived
    cache,     \* Backbone.fetchCache._cache: an entry of each key
    server,    \* the user record
    past,      \* history: all that the user record has been
    changes,   \* changes made so far
    saving,    \* the save that is under way, behind the overlay of blockUI
    bulk,      \* setUsersVisibility or setStatus under way
    moves,     \* navigations and saves so far
    faults,    \* requests refused so far
    own,       \* history: changes this tab has made, by form and in bulk, not undone since
    raced,     \* history: a request for the user overlapped a change this tab makes of it
    failed     \* history: a request was answered with an error that shows nothing

navVars  == <<fragment, previous, moves>>
pageVars == <<view, guard, stale>>
dataVars == <<server, past, changes, faults>>
histVars == <<own, raced, failed>>
vars     == <<navVars, pageVars, dialogs, fetches, cache, dataVars, saving, bulk, histVars>>

(* dirty: some field carries .dirtyField, the mark of an edit; unmarked:   *)
(* there is an edit that left none.  A user's form is rendered anew by each*)
(* change of its tab.  kept: the guard was turned off to leave the page,   *)
(* which then stayed up.                                                   *)
View    == [page : Pages, base : Content \cup {NotRead}, tab : {"first", "basic", "password"},
            dirty : BOOLEAN, unmarked : BOOLEAN, kept : BOOLEAN]
Fresh(page, base) == [page |-> page, base |-> base, tab |-> "first",
                      dirty |-> FALSE, unmarked |-> FALSE, kept |-> FALSE]
Dialog  == [kind : {"link", "route"}, target : Routes]
Idle    == [page |-> "none", content |-> {}, change |-> 0, state |-> "none"]

(* A fetch either shows its page when it is answered (show), fills the     *)
(* list that is up (fill), or fills a list that has been closed (orphan).  *)
Fetch == [page : Routes, mode : {"show", "fill", "orphan"}, cached : BOOLEAN,
          got : Content \cup {NotRead, Gone, Failed}]

Init ==
    /\ fragment = "policies" /\ previous = "policies"
    /\ view = Fresh("policies", {})
    /\ guard = FALSE /\ stale = FALSE
    /\ dialogs = <<>>
    /\ fetches = {}
    /\ cache = [k \in Keys |-> NoEntry]
    /\ server = {} /\ past = {{}} /\ changes = 0 /\ faults = 0
    /\ saving = Idle /\ bulk = Idle
    /\ moves = 0
    /\ own = [form |-> {}, bulk |-> {}] /\ raced = FALSE /\ failed = FALSE

----------------------------------------------------------------------------
\* mutant: a form is rendered before the page in its place is closed
MutGuardAfter(old, new, on) == (on \/ new \in Forms) /\ old \notin ClosingAllows

(* App.rContent.show: the page that is up is closed, then the new one is   *)
(* rendered.  A form turns the guard on in its onRender; closing a page    *)
(* may turn it off, which also unbinds every click handler.                *)
GuardAfter(old, new, on) == new \in Forms \/ (on /\ old \notin ClosingAllows)

(* on: the guard when the page is closed.                                  *)
Show(page, base, on) ==
    /\ view' = Fresh(page, base)
    /\ guard' = GuardAfter(view.page, page, on)
    /\ stale' = (on /\ view.page \notin ClosingAllows /\ (stale \/ view.dirty))

(* The fills of a list that is closed have nothing to fill any more.       *)
Orphaned(fs) == {IF f.mode = "fill" THEN [f EXCEPT !.mode = "orphan"] ELSE f : f \in fs}

(* Backbone.Model.fetch and Collection.fetch: with an entry that has not   *)
(* expired no request is sent, and the entry is set in the next tick.      *)
Request(page, mode) ==
    LET cached == page \in Keys
        hit    == cached /\ cache[page] # NoEntry
    IN  [page |-> page, mode |-> mode, cached |-> cached /\ ~hit,
         got |-> IF hit THEN cache[page] ELSE NotRead]

Asks(fs, f) == /\ Cardinality(fs \cup {f}) <= MaxFetches
               /\ fetches' = fs \cup {f}

(* A request for page overlaps a change that this tab makes of its data: a *)
(* save, till the server has answered it, or a bulk change, till the cache *)
(* of the list is cleared.                                                 *)
Overlaps(page) ==
    \/ saving.page = "user" /\ saving.state = "sent"
    \/ bulk # Idle /\ page = "users"

(* What the action of a route does; on is the guard it starts with, fs the *)
(* requests.  When the guard is off the page's place first gets the        *)
(* loading picture; a page that comes with an answer leaves that, or the   *)
(* old page, up till then.                                                 *)
CallbackAtOnce(r, on, fs) ==
    /\ r \in {"users", "group", "policies"}
    /\ Show(r, IF r = "users" THEN NotRead ELSE {}, on)
    /\ IF r = "users" THEN Asks(Orphaned(fs), Request("users", "fill"))
                      ELSE fetches' = Orphaned(fs)

\* mutant: the picture replaces a form too, whose guard is left on
MutSpinner(on) ==
    /\ view' = Fresh("loading", {})
    /\ guard' = on /\ stale' = (stale /\ on)

Spinner(on) ==
    IF on THEN UNCHANGED pageVars
          ELSE /\ view' = Fresh("loading", {})
               /\ guard' = FALSE /\ stale' = FALSE

CallbackOnAnswer(r, on, fs) ==
    /\ r \in {"user", "policy"}
    /\ Spinner(on)
    /\ Asks(IF on THEN fs ELSE Orphaned(fs), Request(r, "show"))

(* proceedWithCallback: beforeroute, the action, then previousFragment.    *)
Proceed(r, on, fs) ==
    /\ CallbackAtOnce(r, on, fs) \/ CallbackOnAnswer(r, on, fs)
    /\ raced' = (raced \/ (r \in Keys /\ Overlaps(r)))
    /\ previous' = fragment'

(* The router's override of every route: with unsaved edits it asks first. *)
Asking(on) == on /\ view.dirty

(* open: the dialogs that stay open.                                       *)
RouteTo(r, on, open, fs) ==
    /\ fragment' = r
    /\ IF Asking(on)
       THEN /\ dialogs' = <<[kind |-> "route", target |-> r]>> \o open
            /\ fetches' = fs
            /\ UNCHANGED <<previous, pageVars, raced>>
       ELSE /\ Proceed(r, on, fs)
            /\ dialogs' = open

(* Nothing happens when the URL already says so: to a link the browser     *)
(* fires no event, and Backbone.history.navigate returns.                  *)
Navigate(r, on, open, fs) ==
    IF r = fragment
    THEN /\ guard' = on /\ stale' = (stale /\ on)
         /\ view' = [view EXCEPT !.kept = @ \/ ~on]
         /\ dialogs' = open /\ fetches' = fs
         /\ UNCHANGED <<fragment, previous, raced>>
    ELSE RouteTo(r, on, open, fs)

----------------------------------------------------------------------------
(* The user moves: links are behind the overlay of a save and behind a     *)
(* dialog; the browser's own back and forward are behind neither.          *)
Moves == moves < MaxMoves /\ moves' = moves + 1

Unblocked == saving = Idle /\ dialogs = <<>>

(* preventNavigationHandler, bound to the links there were when a form was *)
(* rendered, asks before the URL changes; links rendered later have none.  *)
ClickLink(r) ==
    /\ Unblocked /\ Moves /\ r # fragment
    /\ \/ RouteTo(r, guard, dialogs, fetches)
       \/ /\ guard /\ (stale \/ view.dirty)
          /\ dialogs' = <<[kind |-> "link", target |-> r]>>
          /\ UNCHANGED <<fragment, previous, pageVars, fetches, raced>>
    /\ UNCHANGED <<cache, dataVars, saving, bulk, own, failed>>

GoBack(r) ==
    /\ Moves /\ r # fragment /\ Len(dialogs) < MaxDialogs
    /\ RouteTo(r, guard, dialogs, fetches)
    /\ UNCHANGED <<cache, dataVars, saving, bulk, own, failed>>

(* `Leave this page': allowNavigation, then the route's action, or the     *)
(* click again.                                                            *)
Leave ==
    /\ dialogs # <<>>
    /\ LET top == Head(dialogs)
       IN  IF top.kind = "route"
           THEN /\ UNCHANGED fragment
                /\ Proceed(top.target, FALSE, fetches)
                /\ dialogs' = Tail(dialogs)
           ELSE Navigate(top.target, FALSE, Tail(dialogs), fetches)
    /\ UNCHANGED <<moves, cache, dataVars, saving, bulk, own, failed>>

(* `Stay on this page!': the URL is put back without its action.           *)
Stay ==
    /\ dialogs # <<>>
    /\ dialogs' = Tail(dialogs)
    /\ fragment' = IF Head(dialogs).kind = "route" THEN previous ELSE fragment
    /\ UNCHANGED <<previous, moves, pageVars, fetches, cache, dataVars, saving, bulk, histVars>>

Editing ==
    /\ Unblocked /\ view.page \in Forms
    /\ UNCHANGED <<navVars, guard, stale, dialogs, fetches, cache, dataVars, saving, bulk,
                   histVars>>

(* dirtyFields marks a field that differs from what was loaded, if the     *)
(* field was there when the form was first rendered; the list of groups    *)
(* marks itself whenever it was rendered.                                  *)
Edit ==
    /\ Editing
    /\ \/ view.tab # "password" /\ view' = [view EXCEPT !.dirty = ~@]
       \/ view.tab # "first"    /\ view' = [view EXCEPT !.unmarked = ~@]

(* A row of a policy's items is taken out, with the marks in it.           *)
RemoveRow ==
    /\ Editing /\ view.page = "policy"
    /\ \E left \in {view.dirty, FALSE} :
          view' = [view EXCEPT !.dirty = left, !.unmarked = TRUE]

(* onTabChange puts a new form in the place of the one that is up, with    *)
(* what the model holds; the tabs are links that were not there yet when   *)
(* the click handlers were bound.                                          *)
ChangeTab(tab) ==
    /\ Editing /\ view.page = "user"
    /\ view' = [view EXCEPT !.tab = tab, !.dirty = FALSE, !.unmarked = FALSE]

(* onCancel: allowNavigation, then the list.                               *)
Cancel ==
    /\ Unblocked /\ view.page \in Forms /\ Moves
    /\ Navigate(ListOf[view.page], FALSE, dialogs, fetches)
    /\ UNCHANGED <<cache, dataVars, saving, bulk, own, failed>>

----------------------------------------------------------------------------
(* Requests for pages.                                                     *)
Refused(no) == IF no THEN faults < MaxFaults /\ faults' = faults + 1 ELSE UNCHANGED faults

ServeRead(f) ==
    /\ f.got = NotRead
    /\ \E got \in {IF f.page \in Keys THEN server ELSE {}, Gone, Failed} :
          /\ fetches' = (fetches \ {f}) \cup {[f EXCEPT !.got = got]}
          /\ Refused(got \in {Gone, Failed})
    /\ UNCHANGED <<navVars, pageVars, dialogs, cache, server, past, changes, saving, bulk,
                   histVars>>

(* The answer is shown wherever the user has gone since, and then cached.  *)
(* A list that is put up by an answer asks for its rows itself.            *)
Fill(f) ==
    LET rest == fetches \ {f}
    IN  CASE f.mode = "show" /\ f.page = "users" ->
                 /\ Show("users", NotRead, guard)
                 /\ fetches' = Orphaned(rest) \cup {Request("users", "fill")}
          [] f.mode = "show" /\ f.page # "users" ->
                 /\ Show(f.page, f.got, guard)
                 /\ fetches' = Orphaned(rest)
          [] f.mode = "fill" ->
                 /\ view' = [view EXCEPT !.base = f.got]
                 /\ fetches' = rest
                 /\ UNCHANGED <<guard, stale>>
          [] OTHER ->
                 /\ fetches' = rest
                 /\ UNCHANGED pageVars

Answer(f) ==
    /\ f.got \notin {NotRead, Gone, Failed}
    /\ Fill(f)
    /\ cache' = IF f.cached THEN [cache EXCEPT ![f.page] = f.got] ELSE cache
    /\ raced' = (raced \/ (f.page = "users" /\ f.mode = "show" /\ Overlaps("users")))
    /\ UNCHANGED <<navVars, dialogs, dataVars, saving, bulk, own, failed>>

\* mutant: nothing is shown for any error
MutAnswerFails(f) ==
    /\ f.got \in {Gone, Failed}
    /\ fetches' = fetches \ {f}
    /\ failed' = (failed \/ f.got = Failed)
    /\ UNCHANGED <<navVars, pageVars, dialogs, cache, dataVars, saving, bulk, own, raced>>

(* defaultErrorHandler: 404 and 401 put up the error page; otherwise the   *)
(* page stays as it is, a loading picture too.                             *)
AnswerFails(f) ==
    /\ f.got \in {Gone, Failed}
    /\ IF f.got = Gone THEN Show("error", {}, guard) ELSE UNCHANGED pageVars
    /\ fetches' = IF f.got = Gone THEN Orphaned(fetches \ {f}) ELSE fetches \ {f}
    /\ failed' = (failed \/ f.got = Failed)
    /\ UNCHANGED <<navVars, dialogs, cache, dataVars, saving, bulk, own, raced>>

(* An entry is good for five minutes.                                      *)
Expire(k) ==
    /\ cache[k] # NoEntry
    /\ cache' = [cache EXCEPT ![k] = NoEntry]
    /\ UNCHANGED <<navVars, pageVars, dialogs, fetches, dataVars, saving, bulk, histVars>>

----------------------------------------------------------------------------
(* Saves.  The whole record goes to the server, with what the form was     *)
(* loaded with; a change of the password changes nothing else.             *)
NewChange == changes < MaxChanges /\ changes' = changes + 1

\* mutant: only the model's own key is cleared
MutCleared(page) == IF page = "user" THEN [cache EXCEPT !["user"] = NoEntry] ELSE cache

(* Model.sync clears the keys of the model and of its collection when the  *)
(* request is sent; the URLs of a group or a policy are no keys here.      *)
Cleared(page) == IF page = "user" THEN [k \in Keys |-> NoEntry] ELSE cache

Send(page, content, change) ==
    /\ Unblocked /\ view.page = page /\ Moves
    /\ saving' = [page |-> page, content |-> content, change |-> change, state |-> "sent"]
    /\ cache' = Cleared(page)
    /\ raced' = (raced \/ (page = "user" /\ \E f \in fetches : f.page \in Keys))
    /\ UNCHANGED <<fragment, previous, guard, stale, dialogs, fetches, server, past, faults,
                   bulk, own, failed>>

SaveUserDetail ==
    /\ view.tab # "password" /\ NewChange
    /\ Send("user", view.base \cup {changes'}, changes')
    /\ view' = [view EXCEPT !.base = @ \cup {changes'}]

(* The fields of a password are only there after a change of the tab, and  *)
(* are required.                                                           *)
SavePassword ==
    /\ view.tab = "password" /\ view.unmarked
    /\ Send("user", view.base, 0)
    /\ UNCHANGED <<view, changes>>

SaveOther ==
    /\ view.page \in {"group", "policy"}
    /\ Send(view.page, {}, 0)
    /\ UNCHANGED <<view, changes>>

(* The record becomes content; form and inBulk are what this tab changes.  *)
Store(content, form, inBulk) ==
    /\ server' = content /\ past' = past \cup {content}
    /\ own' = [form |-> (own.form \cup form) \cap content,
               bulk |-> (own.bulk \cup inBulk) \cap content]

ServeSave ==
    /\ saving.state = "sent"
    /\ \/ /\ saving' = [saving EXCEPT !.state = "done"]
          /\ IF saving.page = "user" THEN Store(saving.content, {saving.change} \ {0}, {})
                                     ELSE UNCHANGED <<server, past, own>>
          /\ Refused(FALSE)
       \/ /\ \E status \in {Gone, Failed} : saving' = [saving EXCEPT !.state = status]
          /\ UNCHANGED <<server, past, own>>
          /\ Refused(TRUE)
    /\ UNCHANGED <<navVars, pageVars, dialogs, fetches, cache, changes, bulk, raced, failed>>

(* The success callback turns the guard off and goes to the list, except   *)
(* that after a change of the password the guard is left on.  After a      *)
(* create the list is fetched once more, and put up when the answer comes. *)
SaveDone ==
    /\ saving.state = "done"
    /\ saving' = Idle
    /\ LET password == saving.page = "user" /\ saving.change = 0
           again    == [page |-> "users", mode |-> "show", cached |-> FALSE, got |-> NotRead]
       IN  Navigate(ListOf[saving.page], guard /\ password, dialogs,
                    IF saving.page = "group" THEN fetches \cup {again} ELSE fetches)
    /\ UNCHANGED <<moves, cache, dataVars, bulk, own, failed>>

(* The error callback leaves the form up; 404 and 401 put up the error page.*)
SaveFails ==
    /\ saving.state \in {Gone, Failed}
    /\ saving' = Idle
    /\ IF saving.state = Gone THEN Show("error", {}, guard) ELSE UNCHANGED pageVars
    /\ fetches' = IF saving.state = Gone THEN Orphaned(fetches) ELSE fetches
    /\ UNCHANGED <<navVars, dialogs, cache, dataVars, bulk, histVars>>

----------------------------------------------------------------------------
(* onVisibilityChange and onStatusChange: the rows of the list are set,    *)
(* then the server is told, with no overlay.                               *)
BulkChange ==
    /\ Unblocked /\ bulk = Idle
    /\ view.page = "users" /\ view.base # NotRead /\ NewChange
    /\ view' = [view EXCEPT !.base = @ \cup {changes'}]
    /\ bulk' = [page |-> "users", content |-> {}, change |-> changes', state |-> "sent"]
    /\ raced' = (raced \/ \E f \in fetches : f.page = "users")
    /\ UNCHANGED <<navVars, guard, stale, dialogs, fetches, cache, server, past, faults,
                   saving, own, failed>>

ServeBulk ==
    /\ bulk.state = "sent"
    /\ \/ /\ bulk' = [bulk EXCEPT !.state = "done"]
          /\ Store(server \cup {bulk.change}, {}, {bulk.change})
          /\ Refused(FALSE)
       \/ /\ bulk' = Idle       \* nothing is told, nothing is undone
          /\ UNCHANGED <<server, past, own>>
          /\ Refused(TRUE)
    /\ UNCHANGED <<navVars, pageVars, dialogs, fetches, cache, changes, saving, raced, failed>>

(* clearCache: the keys that contain the URL of the list, which that of a  *)
(* user does not; then the list is fetched, not to be cached.  It may be   *)
(* another list that is up by now, which this answer does not fill.        *)
BulkDone ==
    /\ bulk.state = "done"
    /\ bulk' = Idle
    /\ cache' = [cache EXCEPT !["users"] = NoEntry]
    /\ \E mode \in IF view.page = "users" THEN {"fill", "orphan"} ELSE {"orphan"} :
          fetches' = fetches \cup
             {[page |-> "users", mode |-> mode, cached |-> FALSE, got |-> NotRead]}
    /\ UNCHANGED <<navVars, pageVars, dialogs, dataVars, saving, histVars>>

(* Another admin changes the user: with a form like the one here, which    *)
(* sends the whole record as it was when the form was loaded, or in bulk.  *)
OtherAdmin ==
    /\ NewChange
    /\ \E loaded \in past : Store(loaded \cup {changes'}, {}, {})
    /\ UNCHANGED <<navVars, pageVars, dialogs, fetches, cache, faults, saving, bulk, raced, failed>>

Next ==
    \/ \E r \in Routes : ClickLink(r) \/ GoBack(r)
    \/ Leave \/ Stay \/ Edit \/ RemoveRow \/ Cancel
    \/ \E tab \in {"basic", "password"} : ChangeTab(tab)
    \/ \E f \in fetches : ServeRead(f) \/ Answer(f) \/ AnswerFails(f)
    \/ \E k \in Keys : Expire(k)
    \/ SaveUserDetail \/ SavePassword \/ SaveOther
    \/ ServeSave \/ SaveDone \/ SaveFails
    \/ BulkChange \/ ServeBulk \/ BulkDone
    \/ OtherAdmin

(* Requests are served and answered; the user need not do anything.        *)
Fairness == WF_vars(\E f \in fetches : ServeRead(f) \/ Answer(f) \/ AnswerFails(f))

Spec     == Init /\ [][Next]_vars
LiveSpec == Spec /\ Fairness

----------------------------------------------------------------------------
(* The types; the guard is off behind a loading picture, no handler of a   *)
(* closed form is bound while it is off, and a save blocks the page it is  *)
(* of.                                                                     *)
TypeOK ==
    /\ fragment \in Routes /\ previous \in Routes
    /\ view \in View
    /\ guard \in BOOLEAN /\ stale \in BOOLEAN
    /\ dialogs \in Seq(Dialog)
    /\ fetches \subseteq Fetch
    /\ cache \in [Keys -> Content \cup {NoEntry}]
    /\ server \in past /\ past \subseteq Content
    /\ changes \in 0..MaxChanges /\ faults \in 0..MaxFaults
    /\ stale => guard
    /\ view.page = "loading" => ~guard

(* A form with an edit that is marked has the guard on, so that leaving it *)
(* asks, unless the user has left it already by a cancel, a save or a link *)
(* that found its URL in place.  The guard is one flag for all pages,      *)
(* turned on and off by whichever page opens or closes, by every save that *)
(* ends and by every answer that puts up a page.  Of edits without a mark  *)
(* - after a change of the tab, or of a row taken away - it says nothing.  *)
GuardsEdits == view.dirty /\ ~view.kept => guard

(* A page of users that has its data shows every change this tab has made  *)
(* which nobody has undone since, with a form or in bulk: the form those   *)
(* made with the form, the list the bulk changes too.  A save writes the   *)
(* whole record as it was loaded, so each admin may undo the other's.      *)
(* Excepted is a run in which a request for the page overlapped such a     *)
(* change: the answer may then be older than the change and refill the     *)
(* cache after it was cleared.                                             *)
ShowsOwnChanges ==
    ~raced => /\ view.page \in Keys /\ view.base # NotRead => own.form \subseteq view.base
              /\ view.page = "users" /\ view.base # NotRead => own.bulk \subseteq view.base

(* Every loading picture gives way to a page, unless some answer was an    *)
(* error for which nothing is shown.                                       *)
LoadingEnds == (view.page = "loading") ~> (view.page # "loading" \/ failed)

(* "Please save/cancel changes before navigating away!": unsaved edits     *)
(* disappear only when the user leaves the form in the dialog, cancels, or *)
(* has saved them.                                                         *)
DiscardsOnlyWhenAsked ==
    [][view.dirty /\ view'.page # view.page => Leave \/ Cancel \/ SaveDone]_vars
=============================================================================
