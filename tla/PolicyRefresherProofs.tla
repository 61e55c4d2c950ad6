------------------------ MODULE PolicyRefresherProofs ------------------------
(***************************************************************************)
(* What PolicyRefresher keeps for every number of plugins, policy writes   *)
(* and faults.                                                             *)
(***************************************************************************)
EXTENDS PolicyRefresher, TLAPS

-----------------------------------------------------------------------------
(* The store.                                                              *)

(* The version of a row is a published one; a policy id is given to one    *)
(* policy only, and no id or stamp is given before it is made.             *)
StoreInv ==
    /\ service.id = NoService => policies = {}
    /\ service.id # NoService => service.version \in published
    /\ \A x \in policies : x.id <= rev /\ x.rev <= rev
    /\ \A x, y \in policies : x.id = y.id => x = y

(* Version v is the one of the row, and has never named other policies.    *)
Current(v) == ~reused /\ service.id # NoService /\ v # NullVersion /\ v = service.version

(* Type correctness of the store: every step of an administrator keeps the *)
(* rows and the history well-formed.                                       *)
LEMMA StoreTypeStep == StoreTypeOK /\ StoreNext => StoreTypeOK'
<1> SUFFICES ASSUME StoreTypeOK, StoreNext
             PROVE  StoreTypeOK'
    OBVIOUS
<1> USE MaxRevAssumption DEF StoreTypeOK, Policy, Versions, NullVersion, NoService
<1>1. ASSUME NEW v \in 1..MaxRev, ChangePolicies(v)
      PROVE  StoreTypeOK'
  <2>1. PICK new \in Edits : Publish(v, new)
        BY <1>1 DEF ChangePolicies
  <2>2. new \in SUBSET Policy
        BY DEF Edits
  <2> QED BY <1>1, <2>1, <2>2 DEF ChangePolicies, Publish, Stamp
<1>2. ASSUME NEW v \in 1..MaxRev, AddService(v)
      PROVE  StoreTypeOK'
      BY <1>2 DEF AddService, Publish, Stamp
<1>3. ASSUME NEW v \in published \cup {NullVersion}, RelabelService(v)
      PROVE  StoreTypeOK'
      BY <1>3 DEF RelabelService, Publish
<1>4. ASSUME RemoveService
      PROVE  StoreTypeOK'
      BY <1>4 DEF RemoveService
<1> QED BY <1>1, <1>2, <1>3, <1>4 DEF StoreNext

(* StoreInv is kept by every step of an administrator.                     *)
LEMMA StoreInvStep == StoreTypeOK /\ StoreInv /\ StoreNext => StoreInv'
<1> SUFFICES ASSUME StoreTypeOK, StoreInv, StoreNext
             PROVE  StoreInv'
    OBVIOUS
<1> USE DEF StoreTypeOK, StoreInv, Policy, Versions, NullVersion, NoService
<1>1. ASSUME NEW v \in 1..MaxRev, ChangePolicies(v)
      PROVE  StoreInv'
  <2>1. PICK new \in Edits : Publish(v, new)
        BY <1>1 DEF ChangePolicies
  <2>2. policies' = new /\ rev' = rev + 1 /\ service'.id # NoService
        BY <1>1, <2>1 DEF ChangePolicies, Publish, Stamp
  <2>3. service'.version \in published'
        BY <1>1, <2>1 DEF ChangePolicies, Publish
  <2>4. \A x \in new : x.id <= rev + 1 /\ x.rev <= rev + 1
        BY DEF Edits
  <2>5. \A x, y \in new : x.id = y.id => x = y
        BY DEF Edits
  <2> QED BY <2>2, <2>3, <2>4, <2>5
<1>2. ASSUME NEW v \in 1..MaxRev, AddService(v)
      PROVE  StoreInv'
      BY <1>2 DEF AddService, Publish, Stamp
<1>3. ASSUME NEW v \in published \cup {NullVersion}, RelabelService(v)
      PROVE  StoreInv'
      BY <1>3 DEF RelabelService, Publish
<1>4. ASSUME RemoveService
      PROVE  StoreInv'
      BY <1>4 DEF RemoveService
<1> QED BY <1>1, <1>2, <1>3, <1>4 DEF StoreNext

(* A version that was published before a step and is current after it was  *)
(* current before, and names the same policies.                            *)
LEMMA CurrentStep ==
    ASSUME StoreTypeOK, StoreInv, StoreNext,
           NEW v \in published \cup {NullVersion}, Current(v)'
    PROVE  Current(v) /\ policies' = policies
<1> USE DEF StoreTypeOK, StoreInv, Policy, Versions, NullVersion, NoService, Current, Publish
<1>1. ASSUME NEW w \in 1..MaxRev, ChangePolicies(w)
      PROVE  Current(v) /\ policies' = policies
      BY <1>1 DEF ChangePolicies
<1>2. ASSUME NEW w \in 1..MaxRev, AddService(w)
      PROVE  FALSE
  <2>1. policies = {} /\ policies' # {} /\ v = w
        BY <1>2 DEF AddService
  <2> QED BY <1>2, <2>1 DEF AddService
<1>3. ASSUME NEW w \in published \cup {NullVersion}, RelabelService(w)
      PROVE  Current(v) /\ policies' = policies
      BY <1>3 DEF RelabelService
<1>4. ASSUME RemoveService
      PROVE  FALSE
      BY <1>4 DEF RemoveService
<1> QED BY <1>1, <1>2, <1>3, <1>4 DEF StoreNext

(* Versions stay published.                                                *)
LEMMA PublishedStep == StoreNext => published \subseteq published'
BY DEF StoreNext, ChangePolicies, AddService, RelabelService, RemoveService, Publish

-----------------------------------------------------------------------------
(* The plugins.                                                            *)

Known == published \cup {NullVersion}

(* While the version of the reply in p's hands is current, what has been   *)
(* read and what is still to be read make up the policies of the store.    *)
GotCurrent(p) ==
    (pc[p] \in {"read", "save", "write", "install"} /\ ~got[p].unread /\ Current(got[p].version))
    => got[p].policies \cup got[p].todo = policies

CacheCurrent(p) ==
    (cache[p].file = "written" /\ ~cache[p].reply.unread /\ Current(cache[p].reply.version))
    => cache[p].reply.policies = policies

EngineCurrent(p) ==
    (Running(p) /\ failure[p] = "none" /\ Current(lastKnown[p])) => InSync(p)

PluginInv(p) ==
    /\ lastKnown[p] \in Known /\ got[p].version \in Known /\ cache[p].reply.version \in Known
    /\ pc[p] = "list" => got[p] = [NoReply EXCEPT !.version = got[p].version]
    /\ pc[p] \in {"save", "write", "install"} => got[p].todo = {}
    /\ GotCurrent(p)
    /\ CacheCurrent(p)
    /\ EngineCurrent(p)

IInv ==
    /\ TypeOK
    /\ StoreInv
    /\ \A p \in Plugins : PluginInv(p)

-----------------------------------------------------------------------------
(* Type correctness.                                                       *)

(* What is built of well-formed replies is well-formed.                    *)
LEMMA Constructors ==
    /\ NoReply \in Reply
    /\ NoEngine \in EngineType
    /\ NoFile \in CacheFile /\ Broken \in CacheFile
    /\ \A r \in Reply : /\ r.version \in Versions
                        /\ Engine(r) \in EngineType
                        /\ Written(r) \in CacheFile
                        /\ Outcome(r) \in Failures
    /\ \A c \in CacheFile : c.reply \in Reply
BY DEF NoReply, Reply, NoEngine, EngineType, NoFile, Broken, Written, CacheFile, Engine, Outcome,
       Failures, Versions

(* The refresher's variables keep their types, whatever the admin, the     *)
(* thread, the application and the faults do.                              *)
LEMMA TypeStep == TypeOK /\ [Next]_vars => TypeOK'
<1> SUFFICES ASSUME TypeOK, [Next]_vars
             PROVE  TypeOK'
    OBVIOUS
<1> USE MaxFaultsAssumption, Constructors DEF TypeOK
<1>1. ASSUME UNCHANGED vars
      PROVE  TypeOK'
      BY <1>1 DEF vars, storeVars, pluginVars, StoreTypeOK
<1>2. ASSUME StoreNext, UNCHANGED pluginVars
      PROVE  TypeOK'
      BY <1>2, StoreTypeStep DEF pluginVars
<1>3. ASSUME NEW p \in Plugins, StartPlugin(p) \/ CleanupPlugin(p) \/ Refresh(p) \/ Disturb(p)
      PROVE  TypeOK'
  <2>1. StoreTypeOK' /\ policies \in SUBSET Policy /\ service.version \in Versions
    <3>1. UNCHANGED storeVars
          BY <1>3 DEF StartPlugin, CleanupPlugin, Refresh, Disturb, PollUpdated, PollNotUpdated,
             ListPolicies, ReadPolicy, Receive, OpenCache, WriteCache, SetPolicies, Installs,
             Wake, ExitThread, PollFails, PoliciesUnread, OpenCacheFails, WriteCacheFails,
             SetPoliciesFails, Crash
    <3> QED BY <3>1 DEF storeVars, StoreTypeOK
  <2>2. CASE StartPlugin(p)
        BY <2>1, <2>2 DEF StartPlugin, Goto, Phases, Failures, NullVersion, Versions
  <2>3. CASE CleanupPlugin(p)
        BY <2>1, <2>3 DEF CleanupPlugin, Fault
  <2>4. CASE PollUpdated(p)
    <3>1. [NoReply EXCEPT !.version = service.version] \in Reply
          BY <2>1 DEF NoReply, Reply
    <3> QED BY <2>1, <2>4, <3>1 DEF PollUpdated, Goto, Phases
  <2>5. CASE PollNotUpdated(p) \/ Receive(p) \/ Wake(p) \/ ExitThread(p)
        BY <2>1, <2>5 DEF PollNotUpdated, Receive, Wake, ExitThread, Goto, Phases
  <2>6. CASE ListPolicies(p)
    <3>1. got' = [got EXCEPT ![p] = [got[p] EXCEPT !.todo = policies]]
          BY <2>6 DEF ListPolicies
    <3>2. [got[p] EXCEPT !.todo = policies] \in Reply
          BY <2>1 DEF Reply
    <3> QED BY <2>1, <2>6, <3>1, <3>2 DEF ListPolicies, Goto, Phases
  <2>7. CASE ReadPolicy(p)
    <3>1. PICK pol \in got[p].todo :
              got' = [got EXCEPT ![p] = [got[p] EXCEPT !.todo = @ \ {pol},
                                                       !.policies = @ \cup {Content(pol)}]]
          BY <2>7 DEF ReadPolicy
    <3>2. got[p] \in Reply
          OBVIOUS
    <3>3. pol \in Policy
          BY <3>2 DEF Reply
    <3>4. Content(pol) \in Policy
          BY <2>1, <3>3 DEF Content, Policy
    <3>5. got'[p] \in Reply
          BY <3>1, <3>2, <3>4 DEF Reply
    <3> QED BY <2>1, <2>7, <3>1, <3>5 DEF ReadPolicy
  <2>8. CASE PoliciesUnread(p)
    <3>1. got' = [got EXCEPT ![p] = [got[p] EXCEPT !.todo = {}, !.policies = {}, !.unread = TRUE]]
          BY <2>8 DEF PoliciesUnread
    <3>2. got'[p] \in Reply
          BY <3>1 DEF Reply
    <3> QED BY <2>1, <2>8, <3>1, <3>2 DEF PoliciesUnread, Fault, Phases
  <2>9. CASE OpenCache(p)
        BY <2>1, <2>9 DEF OpenCache, Goto, Phases
  <2>10. CASE WriteCache(p)
        BY <2>1, <2>10 DEF WriteCache, Goto, Phases
  <2>11. CASE OpenCacheFails(p) \/ WriteCacheFails(p)
        BY <2>1, <2>11 DEF OpenCacheFails, WriteCacheFails, Goto, Fault, Phases
  <2>12. CASE SetPolicies(p)
        BY <2>1, <2>12 DEF SetPolicies, Installs, Goto, Phases
  <2>13. CASE SetPoliciesFails(p)
        BY <2>1, <2>13 DEF SetPoliciesFails, Installs, Goto, Fault, Phases, Failures
  <2>14. CASE PollFails(p)
        BY <2>1, <2>14 DEF PollFails, Phases
  <2>15. CASE Crash(p)
    <3>1. NullVersion \in Versions /\ "none" \in Failures /\ "off" \in Phases
          BY DEF NullVersion, Versions, Failures, Phases
    <3> QED BY <2>1, <2>15, <3>1 DEF Crash, Fault
  <2> QED BY <1>3, <2>2, <2>3, <2>4, <2>5, <2>6, <2>7, <2>8, <2>9, <2>10, <2>11,
             <2>12, <2>13, <2>14, <2>15 DEF Refresh, Disturb
<1> QED BY <1>1, <1>2, <1>3 DEF Next

LEMMA InitTypeOK == Init => TypeOK
<1> SUFFICES ASSUME Init
             PROVE  TypeOK
    OBVIOUS
<1>1. StoreTypeOK
  <2>1. service \in [id : Nat, version : Versions]
        BY DEF Init, StoreInit, Versions, NoService
  <2>2. rev \in 0..MaxRev
        BY MaxRevAssumption DEF Init, StoreInit
  <2> QED BY <2>1, <2>2 DEF Init, StoreInit, StoreTypeOK
<1>2. "off" \in Phases /\ "none" \in Failures /\ NullVersion \in Versions
      BY DEF Phases, Failures, Versions
<1> QED BY <1>1, <1>2, Constructors, MaxFaultsAssumption DEF Init, TypeOK

(* Every state of the specification is well-typed.                         *)
THEOREM TypeCorrect == Spec => []TypeOK
BY InitTypeOK, TypeStep, PTL DEF Spec

-----------------------------------------------------------------------------
(* A plugin that would be told "not modified" is in sync.                  *)

(* A step of an administrator.                                             *)
LEMMA StorePluginStep ==
    ASSUME TypeOK, StoreInv, StoreNext, UNCHANGED pluginVars,
           NEW p \in Plugins, PluginInv(p)
    PROVE  PluginInv(p)'
<1> USE DEF PluginInv, Known
<1>1. StoreTypeOK /\ published \subseteq published'
      BY PublishedStep DEF TypeOK
<1>2. \A v \in Known : Current(v)' => Current(v) /\ policies' = policies
      BY <1>1, CurrentStep
<1>3. UNCHANGED <<pc, lastKnown, engine, cache, got, stopping, failure>>
      BY DEF pluginVars
<1>4. GotCurrent(p)'
      BY <1>2, <1>3 DEF GotCurrent
<1>5. CacheCurrent(p)'
      BY <1>2, <1>3 DEF CacheCurrent
<1>6. EngineCurrent(p)'
      BY <1>2, <1>3 DEF EngineCurrent, InSync, Running
<1> QED BY <1>1, <1>3, <1>4, <1>5, <1>6

(* Reading the content of a policy of the store gives that policy.         *)
LEMMA ContentOfPresent ==
    ASSUME StoreInv, NEW pol \in policies, pol \in Policy
    PROVE  Content(pol) = pol
<1>1. {q \in policies : q.id = pol.id} = {pol}
      BY DEF StoreInv
<1> QED BY <1>1 DEF Content, Policy

(* A step of plugin p itself.                                              *)
LEMMA OwnPluginStep ==
    ASSUME TypeOK, StoreInv, NEW p \in Plugins, PluginInv(p),
           StartPlugin(p) \/ CleanupPlugin(p) \/ Refresh(p) \/ Disturb(p)
    PROVE  PluginInv(p)' /\ UNCHANGED storeVars
<1> USE DEF PluginInv, TypeOK, Goto, Phases
<1>1. UNCHANGED storeVars
      BY DEF StartPlugin, CleanupPlugin, Refresh, Disturb, PollUpdated, PollNotUpdated,
         ListPolicies, ReadPolicy, Receive, OpenCache, WriteCache, SetPolicies, Installs,
         Wake, ExitThread, PollFails, PoliciesUnread, OpenCacheFails, WriteCacheFails,
         SetPoliciesFails, Crash
<1>2. /\ Known' = Known /\ policies' = policies
      /\ \A v : Current(v)' = Current(v)
      BY <1>1 DEF storeVars, Known, Current
<1> USE <1>2 DEF GotCurrent, CacheCurrent, EngineCurrent, InSync, Running
<1>3. CASE StartPlugin(p)
  <2>1. lastKnown'[p] \in Known /\ ~Current(NullVersion)
        BY <1>3 DEF StartPlugin, Known, Current
  <2>2. EngineCurrent(p)'
        BY <1>3, <2>1 DEF StartPlugin, Engine, Outcome
  <2> QED BY <1>1, <1>3, <2>1, <2>2 DEF StartPlugin
<1>4. CASE CleanupPlugin(p)
      BY <1>1, <1>4 DEF CleanupPlugin
<1>5. CASE PollUpdated(p)
  <2>1. got'[p] = [NoReply EXCEPT !.version = service.version]
        BY <1>5 DEF PollUpdated
  <2>2. got'[p].version = service.version /\ service.version \in Known
        BY <1>5, <2>1 DEF PollUpdated, NoReply, StoreInv, Known
  <2> QED BY <1>1, <1>5, <2>1, <2>2 DEF PollUpdated
<1>6. CASE PollNotUpdated(p)
      BY <1>1, <1>6 DEF PollNotUpdated
<1>7. CASE ListPolicies(p)
  <2>1. got'[p] = [got[p] EXCEPT !.todo = policies] /\ got[p] = [NoReply EXCEPT !.version = got[p].version]
        BY <1>7 DEF ListPolicies
  <2>2. got'[p].policies = {} /\ got'[p].todo = policies /\ got'[p].version = got[p].version
        BY <2>1 DEF NoReply
  <2> QED BY <1>1, <1>7, <2>2 DEF ListPolicies
<1>8. CASE ReadPolicy(p)
  <2>1. PICK pol \in got[p].todo :
            got' = [got EXCEPT ![p] = [got[p] EXCEPT !.todo = @ \ {pol},
                                                     !.policies = @ \cup {Content(pol)}]]
        BY <1>8 DEF ReadPolicy
  <2>2. got[p] \in Reply
        OBVIOUS
  <2>3. /\ got'[p].todo = got[p].todo \ {pol}
        /\ got'[p].policies = got[p].policies \cup {Content(pol)}
        /\ got'[p].version = got[p].version /\ got'[p].unread = got[p].unread
        BY <2>1, <2>2 DEF Reply
  <2>4. pol \in policies => Content(pol) = pol
        BY <2>2, ContentOfPresent DEF Reply
  <2>5. GotCurrent(p)'
        BY <1>8, <2>3, <2>4 DEF ReadPolicy
  <2> QED BY <1>1, <1>8, <2>3, <2>5 DEF ReadPolicy
<1>9. CASE Receive(p)
      BY <1>1, <1>9 DEF Receive
<1>10. CASE OpenCache(p)
      BY <1>1, <1>10 DEF OpenCache, Broken, NoReply, Known
<1>11. CASE WriteCache(p)
  <2>1. cache'[p] = Written(got[p])
        BY <1>11 DEF WriteCache
  <2>2. cache'[p].reply = got[p]
        BY <2>1 DEF Written
  <2> QED BY <1>1, <1>11, <2>2 DEF WriteCache
<1>12. CASE OpenCacheFails(p) \/ WriteCacheFails(p)
      BY <1>1, <1>12 DEF OpenCacheFails, WriteCacheFails
<1>13. CASE SetPolicies(p)
  <2>1. engine'[p] = Engine(got[p]) /\ lastKnown'[p] = got[p].version /\ failure'[p] = Outcome(got[p])
        BY <1>13 DEF SetPolicies, Installs
  <2>2. EngineCurrent(p)'
        BY <1>13, <2>1 DEF SetPolicies, Installs, Engine, Outcome
  <2> QED BY <1>1, <1>13, <2>1, <2>2 DEF SetPolicies, Installs, NoReply, Known
<1>14. CASE SetPoliciesFails(p)
      BY <1>1, <1>14 DEF SetPoliciesFails, Installs, NoReply, Known
<1>15. CASE Wake(p) \/ ExitThread(p)
      BY <1>1, <1>15 DEF Wake, ExitThread
<1>16. CASE PollFails(p)
      BY <1>1, <1>16 DEF PollFails, NoReply, Known
<1>17. CASE PoliciesUnread(p)
      BY <1>1, <1>17 DEF PoliciesUnread, Reply
<1>18. CASE Crash(p)
      BY <1>1, <1>18 DEF Crash, NoReply, Known
<1> QED BY <1>3, <1>4, <1>5, <1>6, <1>7, <1>8, <1>9, <1>10, <1>11, <1>12, <1>13, <1>14, <1>15,
           <1>16, <1>17, <1>18 DEF Refresh, Disturb

(* A step of one plugin does not touch another.                            *)
LEMMA OtherPluginsUnchanged ==
    ASSUME TypeOK, NEW p \in Plugins, NEW q \in Plugins, q # p,
           StartPlugin(p) \/ CleanupPlugin(p) \/ Refresh(p) \/ Disturb(p)
    PROVE  /\ pc'[q] = pc[q] /\ lastKnown'[q] = lastKnown[q] /\ engine'[q] = engine[q]
           /\ cache'[q] = cache[q] /\ got'[q] = got[q] /\ stopping'[q] = stopping[q]
           /\ failure'[q] = failure[q]
BY DEF TypeOK, StartPlugin, CleanupPlugin, Refresh, Disturb, PollUpdated, PollNotUpdated,
   ListPolicies, ReadPolicy, Receive, OpenCache, WriteCache, SetPolicies, Installs, Wake,
   ExitThread, PollFails, PoliciesUnread, OpenCacheFails, WriteCacheFails, SetPoliciesFails,
   Crash, Goto

LEMMA OtherPluginStep ==
    ASSUME TypeOK, NEW p \in Plugins, NEW q \in Plugins, q # p, PluginInv(q),
           StartPlugin(p) \/ CleanupPlugin(p) \/ Refresh(p) \/ Disturb(p), UNCHANGED storeVars
    PROVE  PluginInv(q)'
BY OtherPluginsUnchanged DEF PluginInv, GotCurrent, CacheCurrent, EngineCurrent, InSync, Running,
   Current, Known, storeVars

LEMMA IInvStep == IInv /\ [Next]_vars => IInv'
<1> SUFFICES ASSUME IInv, [Next]_vars
             PROVE  IInv'
    OBVIOUS
<1>1. TypeOK'
      BY TypeStep DEF IInv
<1>2. CASE UNCHANGED vars
      BY <1>1, <1>2 DEF IInv, vars, storeVars, pluginVars, StoreInv, PluginInv, GotCurrent,
         CacheCurrent, EngineCurrent, InSync, Running, Current, Known
<1>3. CASE StoreNext /\ UNCHANGED pluginVars
      BY <1>1, <1>3, StoreInvStep, StorePluginStep DEF IInv, TypeOK
<1>4. CASE \E p \in Plugins : StartPlugin(p) \/ CleanupPlugin(p) \/ Refresh(p) \/ Disturb(p)
  <2>1. PICK p \in Plugins : StartPlugin(p) \/ CleanupPlugin(p) \/ Refresh(p) \/ Disturb(p)
        BY <1>4
  <2>2. PluginInv(p)' /\ UNCHANGED storeVars
        BY <2>1, OwnPluginStep DEF IInv
  <2>3. \A q \in Plugins : q # p => PluginInv(q)'
        BY <2>1, <2>2, OtherPluginStep DEF IInv
  <2>4. StoreInv'
        BY <2>2 DEF IInv, StoreInv, storeVars
  <2> QED BY <1>1, <2>2, <2>3, <2>4 DEF IInv
<1> QED BY <1>2, <1>3, <1>4 DEF Next

(* A plugin that the admin would tell "not modified" enforces the policies *)
(* of the store, unless a version was reused, the policies could not be    *)
(* read or the engine could not be built.                                  *)
THEOREM InSyncWhenNotUpdated == Spec => []VersionImpliesInSync
<1>1. Init => IInv
  <2> SUFFICES ASSUME Init
               PROVE  IInv
      OBVIOUS
  <2>1. TypeOK
        BY InitTypeOK
  <2>2. StoreInv
        BY DEF Init, StoreInit, StoreInv
  <2>3. \A p \in Plugins : PluginInv(p)
        BY DEF Init, StoreInit, PluginInv, GotCurrent, CacheCurrent, EngineCurrent, Running, Known,
           NoReply, NoFile
  <2> QED BY <2>1, <2>2, <2>3 DEF IInv
<1>2. IInv => VersionImpliesInSync
      BY DEF IInv, PluginInv, EngineCurrent, Current, VersionImpliesInSync, Updated
<1> QED BY <1>1, <1>2, IInvStep, PTL DEF Spec

-----------------------------------------------------------------------------
(* A refresh replaces no policy by an older revision of it.                *)

UniqueIds(S) == \A x, y \in S : x.id = y.id => x = y

(* No policy of S is younger than what the store holds of it now.          *)
Aged(S) == \A x \in S : /\ x.id <= rev /\ x.rev <= rev
                        /\ \A q \in policies : q.id = x.id => x.rev <= q.rev

(* What p has downloaded is as old as what it enforces, or younger.        *)
NotOlder(S, T) == \A old \in S, new \in T : old.id = new.id /\ new.rev # 0 => old.rev <= new.rev

AgeInv(p) ==
    /\ Aged(engine[p].policies) /\ UniqueIds(engine[p].policies)
    /\ Aged(cache[p].reply.policies) /\ UniqueIds(cache[p].reply.policies)
    /\ Aged(got[p].policies) /\ UniqueIds(got[p].policies)
    /\ UniqueIds(got[p].todo)
    /\ \A x \in got[p].todo : x.id <= rev /\ \A y \in got[p].policies : x.id # y.id
    /\ pc[p] \in {"list", "read", "save", "write", "install"}
          => NotOlder(engine[p].policies, got[p].policies)
    /\ pc[p] = "list" => got[p].policies = {} /\ got[p].todo = {}

AgeIInv == TypeOK /\ StoreInv /\ \A p \in Plugins : AgeInv(p)

(* Whatever an administrator does, what was downloaded stays no younger    *)
(* than the store, and a policy that is new gets an id nobody has seen.    *)
LEMMA AgedStep ==
    ASSUME StoreTypeOK, StoreInv, StoreNext,
           NEW S \in SUBSET Policy, Aged(S)
    PROVE  Aged(S)' /\ rev <= rev'
<1> USE DEF StoreTypeOK, StoreInv, Aged, Publish, Stamp, Policy
<1>1. ASSUME NEW w \in 1..MaxRev, ChangePolicies(w)
      PROVE  Aged(S)' /\ rev <= rev'
  <2>1. PICK new \in Edits : Publish(w, new)
        BY <1>1 DEF ChangePolicies
  <2>2. \A q \in new : \/ q \in policies
                       \/ q.rev = rev + 1
        BY DEF Edits
  <2> QED BY <1>1, <2>1, <2>2 DEF ChangePolicies
<1>2. ASSUME NEW w \in 1..MaxRev, AddService(w)
      PROVE  Aged(S)' /\ rev <= rev'
      BY <1>2 DEF AddService
<1>3. ASSUME NEW w \in published \cup {NullVersion}, RelabelService(w)
      PROVE  Aged(S)' /\ rev <= rev'
      BY <1>3 DEF RelabelService
<1>4. ASSUME RemoveService
      PROVE  Aged(S)' /\ rev <= rev'
      BY <1>4 DEF RemoveService
<1> QED BY <1>1, <1>2, <1>3, <1>4 DEF StoreNext

LEMMA StoreAgeStep ==
    ASSUME TypeOK, StoreInv, StoreNext, UNCHANGED pluginVars, NEW p \in Plugins, AgeInv(p)
    PROVE  AgeInv(p)'
<1>1. /\ StoreTypeOK
      /\ engine[p].policies \in SUBSET Policy /\ cache[p].reply.policies \in SUBSET Policy
      /\ got[p].policies \in SUBSET Policy /\ got[p].todo \in SUBSET Policy
      BY DEF TypeOK, EngineType, CacheFile, Reply
<1>2. UNCHANGED <<pc, engine, cache, got>>
      BY DEF pluginVars
<1>3. Aged(engine[p].policies)' /\ Aged(cache[p].reply.policies)' /\ Aged(got[p].policies)'
      BY <1>1, <1>2, AgedStep DEF AgeInv, Aged
<1>4. rev <= rev' /\ rev \in Nat /\ rev' \in Nat
      BY <1>1, AgedStep, StoreTypeStep, MaxRevAssumption DEF StoreTypeOK, AgeInv
<1>5. \A x \in got[p].todo : x.id <= rev'
      BY <1>1, <1>4 DEF AgeInv, Policy
<1> QED BY <1>2, <1>3, <1>5 DEF AgeInv, UniqueIds, NotOlder

(* What is read of a policy is at least as old as what p enforces of it.   *)
LEMMA ReadPolicyAge ==
    ASSUME TypeOK, StoreInv, NEW p \in Plugins, AgeInv(p), ReadPolicy(p)
    PROVE  AgeInv(p)'
<1>1. PICK pol \in got[p].todo :
          got' = [got EXCEPT ![p] = [got[p] EXCEPT !.todo = @ \ {pol},
                                                   !.policies = @ \cup {Content(pol)}]]
      BY DEF ReadPolicy
<1>2. got[p] \in Reply /\ pol \in Policy /\ policies \in SUBSET Policy /\ rev \in Nat
      BY DEF TypeOK, Reply, StoreTypeOK
<1>3. /\ got'[p].todo = got[p].todo \ {pol}
      /\ got'[p].policies = got[p].policies \cup {Content(pol)}
      BY <1>1, <1>2 DEF TypeOK, Reply
<1>4. UNCHANGED <<storeVars, pc, engine, cache>> /\ pc[p] = "read"
      BY DEF ReadPolicy
<1>5. /\ Content(pol).id = pol.id
      /\ Content(pol).rev = 0 \/ \E q \in policies : q.id = pol.id /\ Content(pol).rev = q.rev
      BY <1>2 DEF Content, Policy
<1>6. Content(pol).id <= rev /\ Content(pol).rev <= rev
      BY <1>2, <1>5 DEF AgeInv, StoreInv, Policy
<1>7. \A q \in policies : q.id = pol.id => Content(pol).rev <= q.rev
      BY <1>2, <1>5 DEF StoreInv, Policy
<1>8. Aged(got'[p].policies)
      BY <1>3, <1>5, <1>6, <1>7 DEF AgeInv, Aged
<1>9. UniqueIds(got'[p].policies) /\ UniqueIds(got'[p].todo)
      BY <1>3, <1>5 DEF AgeInv, UniqueIds
<1>10. NotOlder(engine[p].policies, got'[p].policies)
      BY <1>3, <1>4, <1>5 DEF AgeInv, NotOlder, Aged
<1>11. \A x \in got'[p].todo : x.id <= rev /\ \A y \in got'[p].policies : x.id # y.id
      BY <1>3, <1>5 DEF AgeInv, UniqueIds
<1> QED BY <1>4, <1>8, <1>9, <1>10, <1>11 DEF AgeInv, Aged, storeVars

LEMMA OwnAgeStep ==
    ASSUME TypeOK, StoreInv, NEW p \in Plugins, AgeInv(p),
           StartPlugin(p) \/ CleanupPlugin(p) \/ Refresh(p) \/ Disturb(p)
    PROVE  AgeInv(p)' /\ UNCHANGED storeVars
<1> USE DEF AgeInv, TypeOK, Goto, Phases, NotOlder
<1>1. UNCHANGED storeVars
      BY DEF StartPlugin, CleanupPlugin, Refresh, Disturb, PollUpdated, PollNotUpdated,
         ListPolicies, ReadPolicy, Receive, OpenCache, WriteCache, SetPolicies, Installs,
         Wake, ExitThread, PollFails, PoliciesUnread, OpenCacheFails, WriteCacheFails,
         SetPoliciesFails, Crash
<1>2. rev' = rev /\ policies' = policies
      BY <1>1 DEF storeVars
<1> USE <1>2 DEF Aged, UniqueIds
<1>3. CASE StartPlugin(p)
      BY <1>1, <1>3 DEF StartPlugin, Engine, NoEngine
<1>4. CASE CleanupPlugin(p)
      BY <1>1, <1>4 DEF CleanupPlugin, NoEngine
<1>5. CASE PollUpdated(p)
  <2>1. got'[p].policies = {} /\ got'[p].todo = {}
        BY <1>5 DEF PollUpdated, NoReply
  <2> QED BY <1>1, <1>5, <2>1 DEF PollUpdated
<1>6. CASE PollNotUpdated(p) \/ Receive(p) \/ Wake(p) \/ ExitThread(p)
      BY <1>1, <1>6 DEF PollNotUpdated, Receive, Wake, ExitThread
<1>7. CASE ListPolicies(p)
  <2>1. got'[p] = [got[p] EXCEPT !.todo = policies]
        BY <1>7 DEF ListPolicies
  <2>2. got'[p].policies = {} /\ got'[p].todo = policies
        BY <1>7, <2>1 DEF ListPolicies, Reply
  <2> QED BY <1>1, <1>7, <2>2 DEF ListPolicies, StoreInv
<1>8. CASE ReadPolicy(p)
      BY <1>1, <1>8, ReadPolicyAge
<1>9. CASE OpenCache(p)
      BY <1>1, <1>9 DEF OpenCache, Broken, NoReply
<1>10. CASE WriteCache(p)
      BY <1>1, <1>10 DEF WriteCache, Written
<1>11. CASE OpenCacheFails(p) \/ WriteCacheFails(p)
      BY <1>1, <1>11 DEF OpenCacheFails, WriteCacheFails
<1>12. CASE SetPolicies(p)
      BY <1>1, <1>12 DEF SetPolicies, Installs, Engine, NoReply
<1>13. CASE SetPoliciesFails(p)
      BY <1>1, <1>13 DEF SetPoliciesFails, Installs, NoReply
<1>14. CASE PollFails(p)
      BY <1>1, <1>14 DEF PollFails, NoReply
<1>15. CASE PoliciesUnread(p)
  <2>1. got'[p].policies = {} /\ got'[p].todo = {}
        BY <1>15 DEF PoliciesUnread, Reply
  <2> QED BY <1>1, <1>15, <2>1 DEF PoliciesUnread
<1>16. CASE Crash(p)
      BY <1>1, <1>16 DEF Crash, NoEngine, NoReply
<1> QED BY <1>3, <1>4, <1>5, <1>6, <1>7, <1>8, <1>9, <1>10, <1>11, <1>12, <1>13, <1>14, <1>15,
           <1>16 DEF Refresh, Disturb

LEMMA AgeIInvStep == AgeIInv /\ [Next]_vars => AgeIInv'
<1> SUFFICES ASSUME AgeIInv, [Next]_vars
             PROVE  AgeIInv'
    OBVIOUS
<1>1. TypeOK'
      BY TypeStep DEF AgeIInv
<1>2. CASE UNCHANGED vars
      BY <1>1, <1>2 DEF AgeIInv, vars, storeVars, pluginVars, StoreInv, AgeInv, Aged
<1>3. CASE StoreNext /\ UNCHANGED pluginVars
      BY <1>1, <1>3, StoreInvStep, StoreAgeStep DEF AgeIInv, TypeOK
<1>4. CASE \E p \in Plugins : StartPlugin(p) \/ CleanupPlugin(p) \/ Refresh(p) \/ Disturb(p)
  <2>1. PICK p \in Plugins : StartPlugin(p) \/ CleanupPlugin(p) \/ Refresh(p) \/ Disturb(p)
        BY <1>4
  <2>2. AgeInv(p)' /\ UNCHANGED storeVars
        BY <2>1, OwnAgeStep DEF AgeIInv
  <2>3. ASSUME NEW q \in Plugins, q # p
        PROVE  AgeInv(q)'
    <3>1. pc'[q] = pc[q] /\ engine'[q] = engine[q] /\ cache'[q] = cache[q] /\ got'[q] = got[q]
          BY <2>1, <2>3, OtherPluginsUnchanged DEF AgeIInv
    <3> QED BY <2>2, <3>1 DEF AgeIInv, AgeInv, Aged, storeVars
  <2>4. StoreInv'
        BY <2>2 DEF AgeIInv, StoreInv, storeVars
  <2> QED BY <1>1, <2>2, <2>3, <2>4 DEF AgeIInv
<1> QED BY <1>2, <1>3, <1>4 DEF Next

(* A refresh of a running plugin never replaces a policy in the engine by  *)
(* an older revision of it, however downloads, writes and faults mix.      *)
THEOREM NeverRolledBack == Spec => NoRollback
<1> DEFINE Step == \A p \in Plugins :
               \A old \in engine[p].policies, new \in engine'[p].policies :
                  pc[p] # "off" /\ old.id = new.id /\ new.rev # 0 => old.rev <= new.rev
<1>1. Init => AgeIInv
  <2> SUFFICES ASSUME Init
               PROVE  AgeIInv
      OBVIOUS
  <2>1. StoreInv
        BY DEF Init, StoreInit, StoreInv
  <2>2. \A p \in Plugins : AgeInv(p)
        BY DEF Init, AgeInv, Aged, UniqueIds, NoReply, NoFile, NoEngine
  <2> QED BY <2>1, <2>2, InitTypeOK DEF AgeIInv
<1>2. AgeIInv /\ Next => Step
  <2> SUFFICES ASSUME AgeIInv, Next, NEW p \in Plugins, pc[p] # "off",
                      NEW old \in engine[p].policies, NEW new \in engine'[p].policies,
                      old.id = new.id, new.rev # 0
               PROVE  old.rev <= new.rev
      OBVIOUS
  <2>1. engine[p].policies \in SUBSET Policy
        BY DEF AgeIInv, TypeOK, EngineType
  <2>2. CASE engine'[p] = engine[p]
        BY <2>1, <2>2 DEF AgeIInv, AgeInv, UniqueIds, Policy
  <2>3. CASE engine'[p] # engine[p]
    <3>1. PICK q \in Plugins : StartPlugin(q) \/ CleanupPlugin(q) \/ Refresh(q) \/ Disturb(q)
          BY <2>3 DEF Next, pluginVars
    <3>2. q = p
          BY <2>3, <3>1, OtherPluginsUnchanged DEF AgeIInv
    <3>3. SetPolicies(p) \/ CleanupPlugin(p) \/ Crash(p)
          BY <2>3, <3>1, <3>2 DEF Refresh, Disturb, StartPlugin, PollUpdated, PollNotUpdated,
             ListPolicies, ReadPolicy, Receive, OpenCache, WriteCache, Wake, ExitThread,
             PollFails, PoliciesUnread, OpenCacheFails, WriteCacheFails, SetPoliciesFails, Goto
    <3>4. CASE SetPolicies(p)
      <4>1. engine'[p].policies = got[p].policies /\ pc[p] = "install"
            BY <3>4 DEF SetPolicies, Installs, Engine, Goto, AgeIInv, TypeOK
      <4> QED BY <4>1 DEF AgeIInv, AgeInv, NotOlder
    <3>5. CASE CleanupPlugin(p) \/ Crash(p)
          BY <3>5 DEF CleanupPlugin, Crash, NoEngine, AgeIInv, TypeOK
    <3> QED BY <3>3, <3>4, <3>5
  <2> QED BY <2>2, <2>3
<1>3. AgeIInv /\ [Next]_vars => [Step]_vars
      BY <1>2
<1> QED BY <1>1, <1>3, AgeIInvStep, PTL DEF Spec, NoRollback
=============================================================================
