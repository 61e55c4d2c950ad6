# Apache Ranger: verification models

Ranger keeps access policies in one admin server and enforces them in plugins that live inside other
services (HDFS, Hive, HBase, Kafka, ...). This directory models the parts of it in which threads, processes,
copies of data and failures meet:

* **policy distribution**: REST handlers change policies in a database, each plugin polls for a newer
  `policyVersion`, saves what it gets in a cache file and swaps its policy engine;
* **the access decision**: threads of the host ask one policy engine at the same time, whose evaluators and
  repository remember what they found for earlier requests;
* **changes of a policy**: grants and revokes of the plugins and the policy form of the web interface each
  change a copy of the items of a policy and write the whole list back;
* **the web interface**: one page application with asynchronous requests, a cache, and a guard for edits;
* **audit delivery**: each access decision is an audit event, which goes through a pipeline of bounded queues
  with threads of their own and, when the destination is away, through files on the local disk.

TLC checks small instances of every model; TLAPS checks the theorems, for every value of the constants.

To check a run: `tlc -config PolicyStore.cfg PolicyStore.tla`. To check the proofs of a module:
`tlapm PolicyStoreProofs.tla`.

## 1. Inventory

### Parts, state, operations

| Part | Source | State | Operations |
|---|---|---|---|
| Policy store | `security-admin/.../biz/ServiceDBStore.java`, `rest/ServiceREST.java`, `service/RangerServiceServiceBase.java` | tables `x_service` (with `policy_version`), `x_policy` and its items | create, update and delete of a service or a policy, each REST handler one transaction; `getServicePoliciesIfUpdated` |
| Refresher and plugin | `agents-common/.../util/PolicyRefresher.java`, `service/RangerBasePlugin.java`, `admin/client/RangerAdminRESTClient.java` | `lastKnownVersion`, `policyEngine`, cache file, the refresher thread | `init`, `cleanup`, `run`, `loadFromCache`, `saveToCache`, `setPolicies`, `isAccessAllowed` |
| Policy engine | `agents-common/.../policyengine`, `policyevaluator` | evaluators in order with their caches of matched resources, the cache of audit decisions | `isAccessAllowed` |
| Grant and revoke | `ServiceREST.java:587-831, 1181-1330` | the items of a policy, and the handler's copy | `grantAccess`, `revokeAccess` |
| Policy form | `webapp/scripts/views/policies/RangerPolicyForm.js`, `PermissionList.js`, `RangerPolicyCreate.js` | the rows of permissions, null or undefined where there are no names | load, edit a row, `formValidation`, `setPermissionsToColl`, save |
| Web interface | `webapp/scripts/routers/Router.js`, `controllers/Controller.js`, `utils/XAUtils.js`, `libs/.../backbone.fetch-cache.js` | the page that is up, the guard `_preventNavigation`, the cache of fetched objects, requests under way | links, history steps, the dialog, answers, saves, bulk changes |
| Audit batch queue | `agents-audit/.../queue/AuditBatchQueue.java` | blocking queue, batch buffer, `isDrain` | `log`, `run`, `waitToComplete`, `stop` |
| Audit file spool | `agents-audit/.../queue/AuditFileSpool.java` | log files, index file, `indexRecords`, `indexQueue`, `isPending` | `stashLogs`, `closeFileIfNeeded`, `saveIndexFile`, `run`, `removeIndexRecord`, `init` |
| Audit pipeline | `AuditAsyncQueue`, `AuditSummaryQueue`, `MultiDestAuditProvider`, `AuditProviderFactory` | queues, the map of summaries, `isDrain` and interrupts of the threads | `log`, `run`, `stop`, the shutdown hook |

The other parts (user sync, key management, the agents of the single services, validators, resource matchers,
lookup clients, destinations, vendored code) are listed with their reasons in `PROJECT.json`.

### How they interact

```
 web interface (pages, policy form)   plugins: grant, revoke
        |                                   |
        +-------> ServiceREST <-------------+
                      |
                      +--> ServiceDBStore --> database
                                      ^
      getServicePoliciesIfUpdated     |   (polling, HTTP)
                                      |
   host service --> RangerBasePlugin <-- PolicyRefresher --> cache file
                        |   policy engine
                        | audit event
                        v
   AuditAsyncQueue -> AuditSummaryQueue / MultiDest -> AuditBatchQueue -> destination
                                                            |                ^
                                                            v                |
                                                       AuditFileSpool -------+
```

The plugin sees the store only through the row's version and the policies. The batch queue sees the spool only
through `stashLogs` and `isPending`. Each of these two seams has an abstract module, which one model is shown
to implement and the other is built on. The pipeline sees a batch queue only through `log`, `waitToComplete` and
`stop`; the engine sees the refresher only in that it is built from a list of policies and never changed.

### What is hard, and what makes each part correct

| Part | Hard behaviour | Correct when |
|---|---|---|
| Policy store | handlers that interleave between read and commit; nothing locks, nothing checks a version column; the client may send a `policyVersion` | each commit changes the policies of the service as a whole, together with a version; where a version comes to name other policies, that is the only way for a plugin to be misled |
| Refresher and plugin | policies change between the queries of one download; the process dies at any point of the cache file's rewrite; swallowed failures; cleanup during a refresh | a plugin that would be answered "not modified" enforces what the store holds; no refresh puts an older policy in place of a newer one; the plugin catches up |
| Batch queue | two routes to the destination; a flag read several times in one round; sizes read without a lock; exceptions out of the consumer | order is kept over both routes; nothing accepted is lost by the shutdown but the one event in the thread's hand; the shutdown ends |
| Policy engine | requests of several threads over shared caches; the loop stops early; evaluators skip what they have collected beforehand; items of a policy share the evaluator of a condition | each decision is the one that the policies define, whatever was asked before or at the same time; no audit is lost |
| Grant, revoke, form | copies of one list of items, written back whole; the server's validator is passed by, and the store skips what it does not know; two kinds of "no names" in a row | one change gives and takes what was asked of the names and types that the database knows, and nothing else; what the form cannot save again comes into the store only by a grant of something unknown; the form stores what it shows |
| Web interface | answers that come when the user is elsewhere; one guard flag for all pages; edits that leave no mark; entries of the cache that are older than a save; two admins who save whole records | unsaved edits that are marked are guarded; a page shows the changes its user has made and nobody has undone; a loading picture goes away |
| Audit pipeline | threads with queues between them that fill up; summaries sent by a timer, by a full queue or at the end; a fan-out of which one branch fails; a shutdown that starts at the far end | every accepted event is counted once for each destination, or given up once, and reported besides only with a list that a queue refused; summaries of a key are in order; the queues stop in turn |
| File spool | two threads on one index, rewritten in place; death of the process anywhere; retries | nothing written is lost silently; retries repeat one line at most; everything is sent in the end; `isPending` holds while anything is owed |

All hazards, each at its line and with the properties that cover it, are in `PROJECT.json`.

## 2. Modules

| Module | What it is |
|---|---|
| `PublishedPolicies` | abstract: what the admin shows of a service to its plugins |
| `PolicyStore` | the REST handlers as interleaved transactions; implements `PublishedPolicies` |
| `PolicyRefresher` | plugins, refresher threads and cache files over `PublishedPolicies` |
| `AuditSpool` | abstract: what the file spool promises the queue |
| `AuditFileSpool` | the spool with its two threads, its files and deaths of the process; implements `AuditSpool` |
| `AuditBatchQueue` | the queue with its producers, its thread and the shutdown, over `AuditSpool` |
| `AuditPipeline` (`MCAuditPipeline`) | the queues in front of the batch queues, the fan-out and the shutdown hook |
| `PolicyEngine` (`MCPolicyEngine`) | the access decision with its caches, for concurrent requests |
| `PolicyEdit` (`MCPolicyEdit`) | grants, revokes and the policy form, each with its copy of the items |
| `AdminConsole` | a tab of the web interface |
| `PolicyStoreProofs`, `PolicyRefresherProofs`, `AuditFileSpoolProofs`, `AuditBatchQueueProofs`, `AuditPipelineProofs`, `PolicyEngineProofs`, `PolicyEditProofs`, `AdminConsoleProofs` | theorems |

### PolicyStore

One service. `service` is its row (id and `policyVersion`), `policies` the rows of its policies, each with a
stamp of its content; `txn[a]` is what the transaction of handler thread `a` has read. A handler is two steps,
`...Begin` (checks and reads) and `...Commit` (writes), or `Rollback`. Between them any step of another
handler may happen: reads take no lock and no entity has a version column that the database checks, so
isolation is modelled as the weakest the databases offer by default (read committed); a stronger one admits
fewer behaviours. `updatePolicyVersion` writes what the transaction read plus one (`NextVersion`), so two
handlers may write the same version; `createService` and `updateService` write the version that the client
sent, which is null or one that was published before. `reused` records that a version came to name other
policies than before.

### PolicyRefresher

`pc[p]` is where the refresher thread of plugin `p` is: the poll reads the row, then the list of policies, then
each policy in a query of its own, in the order of the ids (a policy deleted meanwhile comes back without items:
revision 0); then the cache file is opened, which empties it, and written; then `lastKnownVersion` is set and
the engine built. Failures: the download, the search for the policies (logged and answered with an empty list),
the opening and the writing of the file, the building of the engine. `Crash` leaves only the cache file;
`CleanupPlugin` clears the engine, and the thread goes on until it sleeps. A partly written file is `Broken`, as
an empty one: neither gives an engine nor a version.

### AuditFileSpool

`disk` holds the log files with their lines, `index` the index file, `records` and `queue` the lists in memory.
The writer (`wpc`) is the batch queue's thread in `stashLogs`, the reader (`rpc`) is `run`. `saveIndexFile`
empties the file and writes it, two steps that a death can separate, everywhere it is called; the content is
taken to reach the disk in one write, which holds for an index below the size of the writer's buffer. What the
`PrintWriter` of a log file has not flushed may be cut at any character when the process dies: a prefix of the
buffered lines stays, and perhaps a torn piece of the next one, to which the next process appends. A line that
does not parse makes `logJSON` throw, and `sendEvent` answers true: the batch is dropped (`dropped`). Events of
files that the emptied index no longer names are `stranded`.

Abstracted: times (the retry interval, and the clock that rolls a file, may be over at any moment when the
reader is idle), names of files, removal of old archives, failing renames and a full disk.

### AuditBatchQueue

`queue` is the blocking queue, `local` the batch buffer, `hand` the event that `poll` has returned. `cpc` follows
one round of `run`: where the spool is pending, wait or take the route to it (`WaitForSpool`, `FollowSpool`);
otherwise the direct one (`GoDirect`); poll, complete the batch (`FillBatch`), stash, send or keep it, look at
`isDrain`. `wpc` is the shutdown hook: `waitToComplete(-1)` with its two unlocked looks at the collections, then
`stop()`. The spool takes steps of `AuditSpool`: it hands over a prefix of what it owes, gives up, or clears
`isPending`. It may start pending, from an earlier process.

### AuditPipeline

The four forms that `AuditProviderFactory` builds: with or without a summary queue, to one destination or through a
`MultiDestAuditProvider` to several (`setup`, which also says which event has which key). `async` and `asyncThread`
are the `AuditAsyncQueue`; `log` is two steps, as nothing locks between the look at the size and the `add`.
`asyncThread.hand` is the list that `drainTo` has taken, and `rest[d]` what of it destination `d` is still to get:
with a summary queue the events go there one by one, without one the whole list goes to one destination after the
other, in any order, event by event into its batch queue until that is full. Then `MultiDestAuditProvider` reports the
whole list as failed for the destination, also what its queue has taken, and goes on with the next one; a single
destination throws to the loop, which drops the rest. `summary`, `summaryMap` and `summaryThread` are the
`AuditSummaryQueue`: the timed or untimed poll, the counts, and the dispatch of one entry after the other (`todo`).
What goes to a batch queue is the set of the events that a record counts; a batch queue has its `batch`, the `buffer`
of its thread, and the thread (`batchThread`), which takes, sends, ends once it is told to drain and has nothing left,
and dies with what is in its buffer if its destination throws, as `consumer.log` (`AuditBatchQueue.java:287`) is
outside of any `try`; the rest of its inside is `AuditBatchQueue`. `hook` is the shutdown hook, which waits for one
batch queue after the other, then stops the first queue, and ends; then the process halts at any time, as the threads
are daemons. The time of the next dispatch has come or not, as one likes; a timed poll that ends without an event
finds that it has.

### PolicyEngine

`policies` are the evaluators in their order; a policy is the set of resources it matches, the set of those whose
head it matches (a database, when the request is for any access), its auditing, and its items. `matched` and
`notMatched` are the caches of each evaluator, `audits` that of the repository, all by the string of a resource
(`Key`). `thread[t]` is a request on its way: the next evaluator, what its cache said, the evaluator that allowed,
whether audit is decided. `Lookup` and `Evaluate` are two steps, as other threads may fill or evict in between. The
optimized evaluator's collections (`AccessPerms`, `AllUsers`, ...) and its checks in front of the items are modelled,
with the implied grants that `preprocessPolicy` adds. A policy has one evaluator for each name of a condition, with the
values of the first item that has it (`ConditionEvaluators`), which is asked for every item with a condition of that
name; a condition without an evaluator is passed over. Whether a condition holds for a request is an input. The
reference (`Allowed`, `Audited`) has no caches, no order and nothing collected: some policy covers the request and one
of its items gives the access, each condition of the item counting as the item has it if the items of the policy agree,
and as the first of them has it if they do not (`Counted`).

### PolicyEdit

`policies` are the policies of one resource, each a sequence of items; `handling[h]` a `grantAccess` or
`revokeAccess` between its read and its write, with the copy of the items; `form` a session of the policy form, its
rows with `Null` (loaded without names), `Undefined` (the last name was taken away, or a new row) or a set of names.
Any number of handlers and the form overlap; deletions come from any browser. `Compact` and `RemoveNames` are helpers
of `ServiceREST`; `Stored` is what `createNewPolicyItemsForPolicy` makes of an item: users, groups and access types that
the database does not have (`KnownNames`, `KnownTypes`, which do not change during a run) are skipped, and what is left
of the item is stored, even if that is nothing. `grantAccess` does not ask whether names exist, the drop-downs of the
form offer no others. `Passes` is `formValidation`, `Sent` is `setPermissionsToColl`, `Accepts` the part of
`RangerPolicyValidator` that is about items.

The loops of `grantAccess` and `revokeAccess` take one name of the request after the other. `GrantTo` and `RevokeFrom`
say what a loop does to the list at once, without recursion: as the item that is found for a name is for that name
alone, no name sees what another did. TLC compares both with the loop, name by name, for all lists of up to two items
(`LoopsAtOnce` in `MCPolicyEdit`); they agree up to the order of new items, which nothing reads.

### AdminConsole

Five pages stand for the ways a page of the interface comes and goes (at once or with an answer, cached or not,
closing turns the guard off or not). `fragment` is the URL, `view` what is up, `guard` `window._preventNavigation`,
`dialogs` the questions whether to leave, `fetches` the requests under way with what the server has answered, `cache`
the entries of `Backbone.fetchCache`, `saving` and `bulk` a save and a bulk change. The data is one user record, as
the set of the changes in it; a save writes the whole record as the form has it, and another admin may save any
content that was ever there (`past`) with a change of his, or a bulk change; `own` is what this tab has done and no
save has undone since. The user's form has tabs: `dirtyFields()` binds the inputs there are when the page is rendered,
and a change of the tab renders new ones, so edits are marked (`view.dirty`) before it and `view.unmarked` after it,
and what was marked is forgotten. New passwords, on a tab of their own, are never marked. A row that is taken away
from a policy's items leaves no mark either (`RemoveRow`).

## 3. Runs

| Run | Instance | States | Shows |
|---|---|---|---|
| `PolicyStore` | 2 handler threads, 1 name, 3 policy writes | 182 thousand | `ImplementsPublishedPolicies` |
| `PolicyRefresher` | 1 plugin, 2 writes, 2 faults, fairness | 343 thousand | `VersionImpliesInSync`, `NoRollback`, `EventuallyInSync` |
| `PolicyEngine` | 5 engines of 2 policies, 3 conditions of 2 names, 4 resources (two with one key), 7 requests, 2 threads | 3.6 million | `DecidesAsDefined`, `NoAuditLost`, `AuditsOnlyCovered` |
| `PolicyEdit` | 2 users and 2 groups, of which the database knows one, 2 policies, 2 requests one after the other, one session of the form with 2 edits | 1.0 million | `StoresValidItems`, `GrantGivesWhatWasAsked`, `RevokeTakesWhatWasAsked`, `SavesWhatIsShown`, `PassedFormIsAccepted` |
| `AdminConsole` | 2 changes, 2 requests at a time, 3 moves, 1 refusal, fairness | 523 thousand | `GuardsEdits`, `ShowsOwnChanges`, `LoadingEnds` |
| `AuditPipeline` | 2 events, of one key or of two, 2 logging threads, queues of 1, the 4 forms, destinations that may throw, fairness | 628 thousand | `AccountedOnce`, `KeysInOrder`, `ShutdownInTurn`, `ReachesAll` |
| `AuditBatchQueue` | 5 events, queue of 3, batches of 2, 2 refusals, 1 exception, fairness | 130 thousand | `InOrder`, `DrainedBeforeExit`, `LosesAtMostOne`, `WaitCompletes` |
| `AuditFileSpool` | 4 events, batches of 2, 2 failures, 2 deaths | 1.2 million | `NoSilentLoss`, `ResendsAtMostOneLine`, `ImplementsAuditSpool` |
| `AuditFileSpoolLive` | 4 events, batches of 2, 1 failure, 1 death, fairness | 101 thousand | `EventuallySent` |
| `PolicyStoreNames` | as `PolicyStore` | violation | two policies of one name |
| `AdminConsoleEdits` | as `AdminConsole`, with 4 moves | violation | a late answer replaces a form that is being edited |
| `AuditPipelineShutdown` | 2 events, queues of 2 | violation | the shutdown hook waits for a batch queue that nobody empties |

Each passing run checks its module's `TypeOK` too, but `AuditFileSpoolLive`. `MCPolicyEdit` and `MCPolicyEngine` use
the symmetry of values that no property tells apart; no run with symmetry checks liveness.

**Why the bounds are enough.** *Store*: a lost update of the version needs two transactions and two writes, the
creation before it a third; one name is enough for a clash, because the default policy brings another. *Refresher*: a
download that mixes states needs a write before it and one in the middle, and the second write may reuse the version
of the first; two faults let a failed save follow a failed download, or a death a failed save; plugins share nothing
but the store, which they only read, so one is enough. *Engine*: a policy that ends the loop early and one behind it
that the answer may need; a thread that fills a cache, or loses an entry, between the lookup and the evaluation of
another; one policy has two items with different values of one condition. *Edits*: a handler and the form with copies
of the same list, and a second policy for a first grant beside a new one of the form; two handlers at a time add
nothing that a property could see, as each speaks of one handler and its copy, and the theorems are for any number.
One session may load, empty and fill a row. One group is unknown; that unknown access types are passed over in the
same way is covered by the theorems only. *Console*: two requests answered in the wrong order, a change by the tab and
one by another admin, who may undo it, a save and two moves around it, with a change of the tab or a row taken away.
*Pipeline*: two events make a list of two over queues of one, which takes the first and refuses the second, two keys
let one be sent while the other is not, one key lets them be counted together or apart, and two destinations let one
fail or die; two threads that log overshoot the bound of the first queue. *Spool*: four events in batches of at most
two make files with one and with several batches, so that a retry starts inside a file, up to four files at once, and
two deaths let a restart itself die, in a save too. *Batch queue*: five events over a queue of three and batches of
two fill the queue, and leave a batch partly full while another is in the spool.

**Deadlock.** `PolicyEngine` checks it: a thread always has an answer or the next evaluator. The other runs say
`CHECK_DEADLOCK FALSE`: the counters of the bounds run out, a user or a host may do nothing more, a process that is
shut down has no step left, and a queue whose thread has died stays as it is.

**Fairness.** *Refresher*: weak fairness of each refresher thread (a loop with a bounded sleep and HTTP timeouts) and
of the start of the plugin; none of an administrator or of a failure. *Spool*: weak fairness of a `stashLogs` that has
begun and of the reader thread, whose waits are all timed. *Queue*: weak fairness of the consumer thread and of the
shutdown once it has begun, none of producers or of the spool; each wait of the consumer is timed too. Where a lock is
needed, its holder does a bounded number of steps and gives it back before it waits for anything. *Pipeline*: weak
fairness of each queue's thread (which may still die), of a `log` that has begun and of the shutdown hook once it has
begun; none of logging, of the shutdown or of the halt of the process. *Console*: requests for pages are served and
answered; nobody has to click, and neither saves nor bulk changes need to end.

### What the properties leave open, on purpose

`VersionImpliesInSync` names its three exceptions, each a way in which the code does mislead a plugin: a reused
version (concurrent writes, a client that sends an old version, a service that is deleted and created again), an
empty list after a failed search, and an engine that could not be built. Without any one of them TLC finds a
counterexample. `NoSilentLoss` names two, both needed again: a batch at which the consumer threw, and a death inside `saveIndexFile`.
`LosesAtMostOne` has its one event, and `WaitCompletes` its dead thread and late event.

`DecidesAsDefined`, `NoAuditLost` and `AuditsOnlyCovered` speak of resources that are alone with their key: the string
of a resource is its values joined, so a table and a function of the same name in a database share the entries of the
caches, and one gets what was found for the other. Where items of one policy disagree about a condition,
`DecidesAsDefined` judges all of them with the values of the first, as the evaluator does: what it shows is that
order, caches and other requests change nothing in that. `AuditsOnlyCovered` allows an audit because of a head, which
counts for requests of any access only, but whose answer the audit cache gives to the others too.

`StoresValidItems` has one exception for new items, a grant that names somebody or something the database does not
know (`Unknown`), and says how long what it stored stays (`LeftOf`). `GrantGivesWhatWasAsked` is about the known part
of a request: the rest is skipped, and the answer is a success.

`GrantGivesWhatWasAsked` and `RevokeTakesWhatWasAsked` compare with the copy that the handler read, as a write in
between is lost whole: two grants, a grant and a revoke, or a form that was open meanwhile leave what the last one
knew, and two first grants for a resource make two policies. They also name the items that are shared: `ServiceREST`
takes an item for a user if that is its only user, though it has groups, which then get or lose the same; and a revoke
finds nothing for a user who is in items with others. `PassedFormIsAccepted` excepts a loaded row that the user has
emptied of names and permissions: its null counts as a name, the item is sent, and the server refuses it with "Error
creating Policy!". An item with `delegateAdmin` only is valid for the server and never passes the form. Grants of
HBase's EXEC alone, which may leave items without accesses, are outside of the model.

`GuardsEdits` is about edits with a mark. Those without one are lost without a question: all that is typed in the
user's form after a change of its tab, every new password among it, and rows taken away from a policy. It also excepts
a form that stays up after the guard was turned off for leaving it (`kept`: the URL had gone there already by a
history step, so `navigate` does nothing). `ShowsOwnChanges` is about changes that nobody has undone since, as each
save, of this tab or of another admin, writes a whole record; it excepts runs in which a request for the page
overlapped a change by the same tab (`raced`: the older answer refills the cache; a save can be overlapped from the
moment it is sent until it is answered, so the requests it makes itself once it is done do not count), and bulk
changes on the form of a user, whose key in the cache does not contain the URL of the list that is cleared.
`LoadingEnds` excepts errors other than 404 and 401, for which nothing is shown (`failed`).

`AccountedOnce` lets an event be both recorded and reported as failed in one case (`ReportedWithLater`): without a
summary queue, where one of several destinations refused a later event of the same list, as the whole list is reported
then. It counts `dropped` as an end of an event: what a full summary queue refuses, as the async queue ignores the
result, and what is left of a list when a single batch queue throws to the loop, which logs it. `ReachesAll` excepts
the shutdown, which leaves what is in the first queues when the process halts; the death of the summary thread, which
calls the consumer outside of any `try`, so that a single full batch queue ends it; and a destination whose thread has
died in the same way (`AuditBatchQueue.java:287`), but not what the other destinations get. The first queue may hold
more than its size, by one event for each further thread that logs (`TypeOK`).

### Disagreements between code and documents

The violation runs are described under "findings" in `PROJECT.json`, with the lines they quote: the name check that
races with another transaction; the answer to a request for a page that the user has left, which replaces the form
that is up; and the shutdown hook, which calls `waitToComplete` at the far end while the queue in front still logs:
a batch queue whose thread has drained it and ended gets another event, and the abort that its message announces
is never reached, because the counter of that loop is never updated and its branch leaves no loop.

Seen while modelling, without a run of their own:

* the refresher's log message names a version that is not in use (`PolicyRefresher.java:171`);
* `isPending` of the spool stays true after a restart with a record that is `done` in the index, until the next file;
* `percentUsed` of the batch queue is the free share, so that the threshold for the spool works the wrong way round
  (`AuditBatchQueue.java:213`);
* a condition is evaluated with the values of the first item of the policy that has one of its name
  (`RangerDefaultPolicyEvaluator.java:132-148`, `576-583`), where the comment over it speaks of the item's own
  conditions (`:567-568`);
* after a change of the tab of the user's form, no edit carries the mark by which leaving the page asks
  (`UserCreate.js:104`, `110-131`), against the text of the dialog (`en.js:331`);
* a grant to users or groups without a row, or of an unknown access type, is skipped and answered with success
  (`ServiceDBStore.java:1703-1799`), and may leave an item without names or accesses, with which the form cannot
  save the policy.

## 4. Proofs

| Theorem | States |
|---|---|
| `PolicyStoreProofs!TypeCorrect` | `Spec => []TypeOK` |
| `PolicyStoreProofs!Refines` | `Spec => ImplementsPublishedPolicies` |
| `PolicyRefresherProofs!TypeCorrect` | `Spec => []TypeOK` |
| `PolicyRefresherProofs!InSyncWhenNotUpdated` | `Spec => []VersionImpliesInSync` |
| `PolicyRefresherProofs!NeverRolledBack` | `Spec => NoRollback` |
| `AuditFileSpoolProofs!TypeCorrect` | `Spec => []TypeOK` |
| `AuditFileSpoolProofs!NothingLostSilently` | `Spec => []NoSilentLoss` |
| `AuditFileSpoolProofs!ResendsOneLine` | `Spec => ResendsAtMostOneLine` |
| `AuditFileSpoolProofs!ImplementsSpool` | `Spec => ImplementsAuditSpool` |
| `AuditBatchQueueProofs!TypeCorrect` | `Spec => []TypeOK` |
| `AuditBatchQueueProofs!DeliveredInOrder` | `Spec => InOrder` |
| `AuditBatchQueueProofs!DrainedOnExit` | `Spec => []DrainedBeforeExit` |
| `AuditBatchQueueProofs!LosesOneAtMost` | `Spec => []LosesAtMostOne` |
| `AuditPipelineProofs!TypeCorrect` | `Spec => []TypeOK` |
| `AuditPipelineProofs!EventsAccountedOnce` | `Spec => []AccountedOnce` |
| `AuditPipelineProofs!RecordsInOrder` | `Spec => []KeysInOrder` |
| `AuditPipelineProofs!ThreadsEndInTurn` | `Spec => []ShutdownInTurn` |
| `PolicyEngineProofs!TypeCorrect` | `Spec => []TypeOK` |
| `PolicyEngineProofs!DecisionIsDefined` | `Spec => []DecidesAsDefined` |
| `PolicyEngineProofs!AuditsAreKept` | `Spec => []NoAuditLost` |
| `PolicyEngineProofs!AuditsAreWanted` | `Spec => []AuditsOnlyCovered` |
| `PolicyEditProofs!TypeCorrect` | `Spec => []TypeOK` |
| `PolicyEditProofs!ItemsValid` | `Spec => StoresValidItems` |
| `PolicyEditProofs!GrantsAsAsked` | `Spec => GrantGivesWhatWasAsked` |
| `PolicyEditProofs!RevokesAsAsked` | `Spec => RevokeTakesWhatWasAsked` |
| `PolicyEditProofs!SavedAsShown` | `Spec => SavesWhatIsShown` |
| `PolicyEditProofs!PassedAccepted` | `Spec => PassedFormIsAccepted` |
| `AdminConsoleProofs!TypeCorrect` | `Spec => []TypeOK` |
| `AdminConsoleProofs!EditsGuarded` | `Spec => []GuardsEdits` |
| `AdminConsoleProofs!OwnChangesShown` | `Spec => []ShowsOwnChanges` |

They assume only the named ASSUMEs of the modules: bounds are natural numbers, sizes positive, the threshold a
percentage, threads that log finite in number, a setup has a destination and gives each event a key, and destinations
may throw or may not; requests and policies are of their types, and implied grants are complete (what is implied by an
implied access type is implied), as in all service definitions of the repository, because `preprocessPolicy` looks one
level deep. For `PolicyEdit`: users and groups are finite in number and different names, though they may be spelled
alike; `delegateAdmin` is no access type; the value that stands for "no policy" is neither a policy nor a list of
items; what the database knows is some of the names and types. For `AdminConsole`: the marks for an answer that has
not come or is an error are neither a user record nor a state of a save.

*The store.* A commit maps to a step of `PublishedPolicies`, every other step to a stutter. That needs to know what
a transaction can have read (`TxnInv`): a version that was published, a service that exists. `StoreInv` says that ids
and stamps are given once and that no version exceeds the number of writes; so the next version is one that the
abstract store may choose.

*The refresher.* `PolicyRefresherProofs` works over `PublishedPolicies` alone; with `Refines` it holds for the handlers.
The invariant follows a version through its life: as long as a version `v` was never reused and is still the one of
the row (`Current(v)`), what a download has collected under `v`, what the cache file holds under `v` and what the
engine was built from under `v` are the policies of the store, or the part of them that was read so far. Any write
makes `v` no longer current or the version reused, so the claim becomes empty exactly when it would become false. For
`NoRollback` the invariant bounds the revision of each policy in the engine by the revision in whatever download
will replace it.

*The spool.* None of the properties is inductive: each rests on what the files, the records, the index file and the
two threads say of one another, so one invariant with twelve parts carries them all. `LinesInv` and `FlowInv` order the
events: within a file, between files, and what is buffered or still to print after everything that is written.
`WritingInv`, `QueueInv` and `ConsumingInv` place the threads: the current file is the last one, the queued files come
after the one that is read, and of a waiting file nothing is sent. `RecordsInv` says that a record that is not done
belongs to a file some thread holds, and that a done one leaves nothing unsettled. `IndexInv` is what a restart needs:
outside `saveIndexFile` the index file names every such record at a position not ahead of memory; inside it the file
may be empty, and a death there is what `stranded` stands for. The order of `Unread` after a restart needs that files
that were being read come before pending ones, which `Listed` keeps. From `ConsumingInv` follows that a line sent again
stands at the record's position. A step of the spool then accepts, hands over, gives up, raises or clears `pending`, or
stutters; a batch is handed over in order because what else is owed is further on in its file or in a later one
(`BatchIsFirst`). `FilesInv`, that no more files are opened than events have arrived, is why a name is always free
in the bounded set of names. Files are taken out of a list with `Kept`, a function on positions, because the prover
cannot expand the recursion in `SelectSeq`.

*The queue.* The stages are a line: sent, owed by the spool, the buffer, the hand, the queue, the next event.
`OrderInv` says that every event of a stage is before every event of a later one. It is kept because a batch goes
directly only while the spool owes nothing, and the spool cannot come to owe anything between the look at
`isPending` and the sending: only this very thread stashes. That is `RouteInv`, which also says that a batch meant
for the spool is stashed whole in the same round, so that the next round starts anew. `AccountInv` says that every
accepted event is in some stage; the shutdown's two looks then leave the hand as the only place to miss. `SizeInv`
is what keeps the argument of `drainTo` from being negative.

*The pipeline.* On its way an event is in `async`, in the hand of the async thread, in `summary`, in the map, and then
in the records of a destination. As the destinations get a list one after the other, an invariant of its own holds for
each of them (`InvFor(d)`), and every step is one of nine kinds to it (`Effects`): most leave its places as they are
(`Still`), the others move an event or a set of them one place on, or give them up. `Ordered` says that the places
hold disjoint stretches of the accepted events, the older ones further on, and that a record holds only what is older
than all of its key that is still on its way: hence the order of the records, and that `Head` takes an event out of
the hand for good. `ListGoesOn` follows the list in the hand: what the destination has had of it is older than what it
is still to get and is counted, unless the list was given up, and that ends the list for this destination. So when it
is reported whole, the counted events in it have a later one that is not counted, which is what `ReportedWithLater`
says; that one stays without a record, as it is nowhere on its way (`ReportStays`). With this `OnceStep` shows of each
of the nine kinds that an event leaves one place for one other. `Known`, that nothing is anywhere before it was
accepted, makes the next event new. `InTurn` is the chain of the shutdown: only the end of the async thread sets the
summary queue's `isDrain`, and only with that, an empty queue and an empty map does its thread stop.

*The engine.* The invariant adds to what an answered request knows what one on its way knows (`Sound`): no evaluator
behind it covers and allows the request, if none was found; what the cache said is right. `CachesRight` and
`AuditsRight` give a reason for every entry: some resource of that key was matched, was not matched, or is watched.
For a resource alone with its key that is the resource itself. A lemma shows that the optimized evaluator's checks on
its collected users, groups and access types exclude no policy of which an item gives the access; here the
completeness of implied grants is used. The order of the evaluators appears nowhere in the reference.

*Grant, revoke and the form.* The invariant is short: of names and types, the store has those only that the database
knows (`StoreOK`), and so have the copies a request works on, which without a policy are empty (`HandlingOK`), and the
rows of the form, which have passed `formValidation` while a save is under way (`FormOK`). Hence `Stored` changes
nothing but what came with the request (`KnownIsStored`). That what is stored is valid is no invariant, but follows
for each step from what a grant or a revoke makes of the copy (`GrantStores`, `RevokeStores`): an item is new and
stored in full, or was in the copy, or is left of such an item. The rest of the work is in what the helpers do to any
list of items, which the provers see through pairs of a name and a permission (`HeldIs`). `GrantAllIs` traces every
item after the two loops to an item from before with the same names, which has gained what was asked for only if it
was for one name of the request alone, or to a new item; that the groups' loop finds no item that the users' loop has
made is part of it. `RevokeAllIs` goes place by place: the items keep their names, and those found lose what was asked
for; that a user is no group makes a name's only item the one that is found. With replace the names are taken out
first, and then no item is shared with them. `Only`, which takes the elements at some places out of a list, counts the
places off in their order (`OnlyIs`); so the rows that are sent and the rows that show something, the same places by
`RelevantIsGiven`, give lists that agree element by element.

*The console.* `GuardsEdits` rests on `PageOK`: a form that has not been left has the guard on, and the loading
picture is up only with the guard off. A late answer that puts up another page turns the guard to what that page
starts with, which is why this needs the page and its guard to change together. `ShowsOwnChanges` speaks of the page
only, but the page is filled from answers and the cache, so `FormsShown` and `BulkShown` say it of every copy: the
entries of the cache, the answers on their way that will be shown or cached (`Matters`), the page. They are kept by a
save because while one is sent no other copy exists or is on its way (`DuringSave`): the form is up, the save has
cleared the cache, and a request would set `raced`. A bulk change clears the list's key only; until then the list that
is up shows the change and none is on its way (`DuringBulk`), so of the list more is known than of its cached copies
(`Settled`). `own` holds what this tab has done and no later save has undone: `Store` takes out of it what the new
content does not have, and so whatever is answered from the server later has all of `own` (`OwnOK`: it is part of the
server's record), whoever wrote it.

**Only model-checked**: the liveness properties (`EventuallyInSync`, `WaitCompletes`, `EventuallySent`, `ReachesAll`,
`LoadingEnds`), which are beyond the prover, and that the loops over the names of a request do what `GrantTo` and
`RevokeFrom` say, which needs an induction over sets.

## 5. Not modelled

* How a resource is matched and a condition evaluated: `PolicyEngine` takes any relation of policies and resources, and
  whether a condition with given values holds for a request is an input; which evaluator is kept and asked is modelled.
  `getResourceAccessInfo`, context enrichers and evaluators of other types.
* Users, groups and access types that come to be known, or are deleted, while requests run (`KnownNames`, `KnownTypes`).
* In grant and revoke: conditions of items, access types that are listed but not allowed, and the check that the
  grantor is an administrator of the resource.
* Of the web interface: the other pages, which come and go in the same five ways, and the rendering.
* Of the pipeline: `logJSON`, `flush`, a destination without a batch queue, the choice of providers by configuration.
* Service definitions, and the mapping of a policy's resources and items to rows: one policy is read and written
  as a whole. Renaming a service shows as a service that does not exist.
* Visibility of unsynchronised fields between threads (`policyEngine`, the buffer that `waitToComplete` looks at
  with `size()`): steps are taken to be seen at once.
* Errors of the disk, failing renames, an `Error` that ends a thread.
* What a destination has taken of a batch that it then refuses.

## 6. Plan

Done, in this order, as the behaviour in which concurrency and failures meet came first: `PublishedPolicies`,
`PolicyStore`, `PolicyRefresher` with their proofs, `AuditSpool`, `AuditFileSpool`, `AuditBatchQueue` with its proofs;
then `AdminConsole`, `PolicyEdit`, `PolicyEngine` and `AuditPipeline`, and the proofs of all of these and of
`AuditFileSpool`: every safety property of a passing run is a theorem.

Left:

1. `AuditPipeline` over the batch queue as an abstract module of its own, which `AuditBatchQueue` implements.
2. The key store of the KMS (`RangerKeyStore`), whose in-memory map is reloaded from the database.
3. `PolicyEdit` over the transactions of `PolicyStore`, with the version that a lost change leaves behind.
