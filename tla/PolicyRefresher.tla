--------------------------- MODULE PolicyRefresher ---------------------------
(***************************************************************************)
(* The plugin side of policy distribution, composed with the store:        *)
(* RangerBasePlugin, its PolicyRefresher thread, the download handler of   *)
(* the admin that answers it, and the cache file that survives a restart.  *)
(*                                                                         *)
(* A refresh is a poll of the admin (the version first, then the list of   *)
(* policies, then the content of each), the reply, the rewrite of the      *)
(* cache file and the swap of the policy engine, with any step of the      *)
(* admin's other threads and of the application between them.              *)
(***************************************************************************)
EXTENDS PublishedPolicies

CONSTANTS Plugins,   \* plugin processes for the service
          MaxFaults  \* bound: faults, crashes and cleanups of all plugins

ASSUME MaxFaultsAssumption == MaxFaults \in Nat

VARIABLES
    pc,         \* what the refresher thread of each plugin is doing
    lastKnown,  \* PolicyRefresher.lastKnownVersion
    engine,     \* RangerBasePlugin.policyEngine: the policies it was built from
    cache,      \* the cache file
    got,        \* the ServicePolicies being built by the admin or in the plugin's hands
    stopping,   \* cleanup() has interrupted the thread and waits for it
    failure,    \* history: what went wrong in the last refresh that changed lastKnown
    faults      \* number of faults so far, for the bound only

pluginVars == <<pc, lastKnown, engine, cache, got, stopping, failure, faults>>
vars == <<storeVars, pluginVars>>

(* "off": no process, or a process whose plugin is cleaned up.             *)
Phases   == {"off", "poll", "list", "read", "save", "write", "install", "sleep"}
Failures == {"none", "policiesUnread", "engineNotBuilt"}
NoReply  == [version |-> NullVersion, todo |-> {}, policies |-> {}, unread |-> FALSE]

(* The policy engine: isAccessAllowed returns null without one.            *)
NoEngine  == [built |-> FALSE, version |-> NullVersion, policies |-> {}]
Engine(r) == [built |-> TRUE, version |-> r.version, policies |-> r.policies]

(* The cache file: never written, truncated by FileWriter and not (fully)  *)
(* written, or the JSON of a reply.                                        *)
NoFile      == [file |-> "absent", reply |-> NoReply]
Broken      == [file |-> "broken", reply |-> NoReply]
Written(r)  == [file |-> "written", reply |-> r]

(* What an engine built from a reply suffers from.                         *)
Outcome(r) == IF r.unread THEN "policiesUnread" ELSE "none"

Init ==
    /\ StoreInit
    /\ pc = [p \in Plugins |-> "off"]
    /\ lastKnown = [p \in Plugins |-> NullVersion]
    /\ engine = [p \in Plugins |-> NoEngine]
    /\ cache = [p \in Plugins |-> NoFile]
    /\ got = [p \in Plugins |-> NoReply]
    /\ stopping = [p \in Plugins |-> FALSE]
    /\ failure = [p \in Plugins |-> "none"]
    /\ faults = 0

Fault ==
    /\ faults < MaxFaults
    /\ faults' = faults + 1

Goto(p, from, to) ==
    /\ pc[p] = from
    /\ pc' = [pc EXCEPT ![p] = to]

-----------------------------------------------------------------------------
(* RangerBasePlugin.init and cleanup, and the end of the process.          *)

(* init() in a new process or after cleanup(): no engine, a new refresher, *)
(* and whatever the cache file gives.  An unreadable file leaves both as   *)
(* they are; an engine that cannot be built leaves the version it was for. *)
StartPlugin(p) ==
    /\ Goto(p, "off", "poll")
    /\ \/ /\ cache[p].file # "written"
          /\ lastKnown' = [lastKnown EXCEPT ![p] = NullVersion]
          /\ engine' = [engine EXCEPT ![p] = NoEngine]
          /\ failure' = [failure EXCEPT ![p] = "none"]
       \/ /\ cache[p].file = "written"
          /\ lastKnown' = [lastKnown EXCEPT ![p] = cache[p].reply.version]
          /\ \/ /\ engine' = [engine EXCEPT ![p] = Engine(cache[p].reply)]
                /\ failure' = [failure EXCEPT ![p] = Outcome(cache[p].reply)]
             \/ /\ engine' = [engine EXCEPT ![p] = NoEngine]
                /\ failure' = [failure EXCEPT ![p] = "engineNotBuilt"]
    /\ UNCHANGED <<storeVars, cache, got, stopping, faults>>

(* cleanup() drops the engine and interrupts the thread, whatever it does. *)
CleanupPlugin(p) ==
    /\ Fault
    /\ pc[p] # "off"
    /\ ~stopping[p]
    /\ engine' = [engine EXCEPT ![p] = NoEngine]
    /\ stopping' = [stopping EXCEPT ![p] = TRUE]
    /\ UNCHANGED <<storeVars, pc, lastKnown, cache, got, failure>>

(* The process dies: only the cache file stays.                            *)
Crash(p) ==
    /\ Fault
    /\ pc[p] # "off"
    /\ pc' = [pc EXCEPT ![p] = "off"]
    /\ lastKnown' = [lastKnown EXCEPT ![p] = NullVersion]
    /\ engine' = [engine EXCEPT ![p] = NoEngine]
    /\ got' = [got EXCEPT ![p] = NoReply]
    /\ stopping' = [stopping EXCEPT ![p] = FALSE]
    /\ failure' = [failure EXCEPT ![p] = "none"]
    /\ UNCHANGED <<storeVars, cache>>

-----------------------------------------------------------------------------
(* getServicePoliciesIfUpdated, in the admin.                              *)

MutUpdatedIfNewer(p) ==                \* mutant: only a greater version is new
    service.version = NullVersion \/ lastKnown[p] < service.version

Updated(p) == service.version = NullVersion \/ lastKnown[p] # service.version

(* The service row is read first.                                          *)
PollUpdated(p) ==
    /\ Goto(p, "poll", "list")
    /\ service.id # NoService
    /\ Updated(p)
    /\ got' = [got EXCEPT ![p] = [NoReply EXCEPT !.version = service.version]]
    /\ UNCHANGED <<storeVars, lastKnown, engine, cache, stopping, failure, faults>>

(* 304, or an error because the service does not exist or the admin cannot *)
(* be reached: the refresher does nothing.                                 *)
PollNotUpdated(p) ==
    /\ Goto(p, "poll", "sleep")
    /\ service.id # NoService
    /\ ~Updated(p)
    /\ UNCHANGED <<storeVars, lastKnown, engine, cache, got, stopping, failure, faults>>

MutPollFailsReloadsCache(p) ==         \* mutant: a failed poll falls back to the cache
    /\ pc[p] \in {"poll", "list", "read"}
    /\ pc' = [pc EXCEPT ![p] = "sleep"]
    /\ got' = [got EXCEPT ![p] = NoReply]
    /\ engine' = [engine EXCEPT ![p] = IF cache[p].file = "written"
                                         THEN Engine(cache[p].reply) ELSE @]
    /\ UNCHANGED <<storeVars, lastKnown, cache, stopping, failure, faults>>

PollFails(p) ==
    /\ pc[p] \in {"poll", "list", "read"}
    /\ pc' = [pc EXCEPT ![p] = "sleep"]
    /\ got' = [got EXCEPT ![p] = NoReply]
    /\ UNCHANGED <<storeVars, lastKnown, engine, cache, stopping, failure, faults>>

(* One query for the policy rows, then queries for the content of each.    *)
ListPolicies(p) ==
    /\ Goto(p, "list", "read")
    /\ got' = [got EXCEPT ![p].todo = policies]
    /\ UNCHANGED <<storeVars, lastKnown, engine, cache, stopping, failure, faults>>

(* A policy that was deleted after the list was read has no items left.    *)
Content(pol) ==
    LET now == {q \in policies : q.id = pol.id}
    IN  [pol EXCEPT !.rev = IF now = {} THEN 0 ELSE (CHOOSE q \in now : TRUE).rev]

MutReadVersionLast(p) ==               \* mutant: the version is read with the policies
    /\ pc[p] = "read"
    /\ \E pol \in got[p].todo :
         /\ \A other \in got[p].todo : pol.id <= other.id
         /\ got' = [got EXCEPT ![p].todo = @ \ {pol},
                               ![p].policies = @ \cup {Content(pol)},
                               ![p].version = service.version]
    /\ UNCHANGED <<storeVars, pc, lastKnown, engine, cache, stopping, failure, faults>>

(* The list is in the order of the policy ids.                             *)
ReadPolicy(p) ==
    /\ pc[p] = "read"
    /\ \E pol \in got[p].todo :
         /\ \A other \in got[p].todo : pol.id <= other.id
         /\ got' = [got EXCEPT ![p].todo = @ \ {pol},
                               ![p].policies = @ \cup {Content(pol)}]
    /\ UNCHANGED <<storeVars, pc, lastKnown, engine, cache, stopping, failure, faults>>

(* getServicePolicies logs an exception of the search and returns the      *)
(* empty list it started with; the handler replies with it.                *)
PoliciesUnread(p) ==
    /\ Fault
    /\ pc[p] \in {"list", "read"}
    /\ pc' = [pc EXCEPT ![p] = "read"]
    /\ got' = [got EXCEPT ![p].todo = {}, ![p].policies = {}, ![p].unread = TRUE]
    /\ UNCHANGED <<storeVars, lastKnown, engine, cache, stopping, failure>>

-----------------------------------------------------------------------------
(* PolicyRefresher.run, with the complete reply.                           *)

Receive(p) ==
    /\ Goto(p, "read", "save")
    /\ got[p].todo = {}
    /\ UNCHANGED <<storeVars, lastKnown, engine, cache, got, stopping, failure, faults>>

(* saveToCache: opening the file truncates it, then it is written; each    *)
(* may fail, and the refresh goes on.                                      *)
OpenCache(p) ==
    /\ Goto(p, "save", "write")
    /\ cache' = [cache EXCEPT ![p] = Broken]
    /\ UNCHANGED <<storeVars, lastKnown, engine, got, stopping, failure, faults>>

OpenCacheFails(p) ==
    /\ Fault
    /\ Goto(p, "save", "install")
    /\ UNCHANGED <<storeVars, lastKnown, engine, cache, got, stopping, failure>>

WriteCache(p) ==
    /\ Goto(p, "write", "install")
    /\ cache' = [cache EXCEPT ![p] = Written(got[p])]
    /\ UNCHANGED <<storeVars, lastKnown, engine, got, stopping, failure, faults>>

WriteCacheFails(p) ==
    /\ Fault
    /\ Goto(p, "write", "install")
    /\ UNCHANGED <<storeVars, lastKnown, engine, cache, got, stopping, failure>>

MutInstallsPrevious(p) ==              \* mutant: the version before, to be safe
    /\ Goto(p, "install", "sleep")
    /\ lastKnown' = [lastKnown EXCEPT ![p] = got[p].version - 1]
    /\ got' = [got EXCEPT ![p] = NoReply]
    /\ UNCHANGED <<storeVars, cache, stopping>>

(* lastKnownVersion is set, then setPolicies builds an engine and makes it *)
(* the plugin's.                                                           *)
Installs(p) ==
    /\ Goto(p, "install", "sleep")
    /\ lastKnown' = [lastKnown EXCEPT ![p] = got[p].version]
    /\ got' = [got EXCEPT ![p] = NoReply]
    /\ UNCHANGED <<storeVars, cache, stopping>>

SetPolicies(p) ==
    /\ Installs(p)
    /\ engine' = [engine EXCEPT ![p] = Engine(got[p])]
    /\ failure' = [failure EXCEPT ![p] = Outcome(got[p])]
    /\ UNCHANGED faults

(* The engine's constructor throws; run() logs it and goes on.             *)
SetPoliciesFails(p) ==
    /\ Fault
    /\ Installs(p)
    /\ UNCHANGED engine
    /\ failure' = [failure EXCEPT ![p] = "engineNotBuilt"]

(* The next polling interval, or the interrupt: cleanup() joins the thread.*)
Wake(p) ==
    /\ ~stopping[p]
    /\ Goto(p, "sleep", "poll")
    /\ UNCHANGED <<storeVars, lastKnown, engine, cache, got, stopping, failure, faults>>

ExitThread(p) ==
    /\ stopping[p]
    /\ Goto(p, "sleep", "off")
    /\ stopping' = [stopping EXCEPT ![p] = FALSE]
    /\ UNCHANGED <<storeVars, lastKnown, engine, cache, got, failure, faults>>

Refresh(p) ==
    \/ PollUpdated(p) \/ PollNotUpdated(p)
    \/ ListPolicies(p) \/ ReadPolicy(p)
    \/ Receive(p)
    \/ OpenCache(p) \/ WriteCache(p)
    \/ SetPolicies(p)
    \/ Wake(p) \/ ExitThread(p)

Disturb(p) ==
    \/ PollFails(p) \/ PoliciesUnread(p)
    \/ OpenCacheFails(p) \/ WriteCacheFails(p)
    \/ SetPoliciesFails(p)
    \/ Crash(p)

Next ==
    \/ StoreNext /\ UNCHANGED pluginVars
    \/ \E p \in Plugins : StartPlugin(p) \/ CleanupPlugin(p) \/ Refresh(p) \/ Disturb(p)

Spec == Init /\ [][Next]_vars

(* The threads run; nothing makes an administrator act, and faults may or  *)
(* may not happen.  The application starts its plugin.                     *)
Fairness == \A p \in Plugins : WF_vars(Refresh(p)) /\ WF_vars(StartPlugin(p))

FairSpec == Spec /\ Fairness

-----------------------------------------------------------------------------
Reply      == [version : Versions, todo : SUBSET Policy, policies : SUBSET Policy, unread : BOOLEAN]
EngineType == [built : BOOLEAN, version : Versions, policies : SUBSET Policy]
CacheFile  == [file : {"absent", "broken", "written"}, reply : Reply]

TypeOK ==
    /\ StoreTypeOK
    /\ pc \in [Plugins -> Phases]
    /\ lastKnown \in [Plugins -> Versions]
    /\ engine \in [Plugins -> EngineType]
    /\ cache \in [Plugins -> CacheFile]
    /\ got \in [Plugins -> Reply]
    /\ stopping \in [Plugins -> BOOLEAN]
    /\ failure \in [Plugins -> Failures]
    /\ faults \in 0..MaxFaults

Running(p) == pc[p] # "off" /\ ~stopping[p]

(* The plugin enforces exactly what the store holds.                       *)
InSync(p) == engine[p].built /\ engine[p].policies = policies

(* A plugin that would be told "not modified" enforces the policies of the *)
(* store, however its downloads interleave with the administrators' writes *)
(* and whatever crashes it had, except in three cases this names: the      *)
(* store reused a policyVersion, the admin answered with an empty list     *)
(* because reading the policies failed, or the engine could not be built.  *)
VersionImpliesInSync ==
    \A p \in Plugins :
        (/\ Running(p)
         /\ service.id # NoService
         /\ ~Updated(p)
         /\ failure[p] = "none")
        => reused \/ InSync(p)

(* A refresh never replaces a policy in the engine by an older revision of *)
(* it (revision 0: deleted while the download was being assembled).        *)
NoRollback ==
    [][\A p \in Plugins :
         \A old \in engine[p].policies, new \in engine'[p].policies :
            pc[p] # "off" /\ old.id = new.id /\ new.rev # 0 => old.rev <= new.rev]_vars

(* When administrators rest, nothing fails any more and the plugin is not  *)
(* cleaned up, every plugin comes to enforce the policies of the store,    *)
(* but for the same three cases.                                           *)
Settled ==
    \A p \in Plugins :
        service.id # NoService => reused \/ failure[p] # "none" \/ InSync(p)

(* Every fault counts in `faults', but for a poll that fails; one that     *)
(* would have found nothing new loses nothing.                             *)
Undisturbed ==
    /\ UNCHANGED <<storeVars, faults>>
    /\ ~ \E p \in Plugins : PollFails(p) /\ ~PollNotUpdated(p)

EventuallyInSync == <>[][Undisturbed]_vars => <>[]Settled
=============================================================================
