--------------------------- MODULE AuditPipeline ----------------------------
(***************************************************************************)
(* The audit handlers of a plugin, as AuditProviderFactory puts them       *)
(* together: an AuditAsyncQueue, an AuditSummaryQueue if summaries are on, *)
(* a MultiDestAuditProvider if there are several destinations, and an      *)
(* AuditBatchQueue for each of them; with the threads of the host that log *)
(* events, the consumer threads of the queues, and the JVM's shutdown hook.*)
(*                                                                         *)
(* Events are numbered in the order the async queue has accepted them.     *)
(* What goes to a destination is the set of the events that it counts: a   *)
(* summary, or one event.  How a batch queue sends what it holds is in     *)
(* AuditBatchQueue; here its thread takes, sends, and ends, or dies of an  *)
(* exception of its destination.                                           *)
(***************************************************************************)
EXTENDS Integers, SequencesExt

CONSTANTS
    Loggers,        \* threads of the host
    Names,          \* keys that getEventKey may give
    Setups,         \* with or without a summary queue, the destinations, and
                    \* the key of each event that will be logged
    AsyncSize, SummarySize, BatchSize,      \* maxQueueSize of the queues
    Throws,         \* consumer.log of a destination may throw
    MaxEvents       \* bound of a run: events accepted

Events == 1 .. MaxEvents

ASSUME SetupAssumption  ==
    \A s \in Setups : s.summary \in BOOLEAN /\ s.dests # {} /\ s.key \in [Events -> Names]
ASSUME LoggerAssumption == IsFiniteSet(Loggers)
ASSUME SizeAssumption   == MaxEvents \in Nat /\ {AsyncSize, SummarySize, BatchSize} \subseteq Nat \ {0}
ASSUME ThrowsAssumption == Throws \in BOOLEAN

VARIABLES
    setup,          \* one of Setups
    logged,         \* how many events the async queue has accepted
    adding,         \* loggers between size() and add() of its log
    async,          \* its queue
    asyncThread,    \* where it is, with isDrain, the interrupt, the eventList
                    \* in its hand, and what of it each destination is to get
    summary,        \* the queue of the summary queue
    summaryMap,     \* the events that are counted for each key
    summaryThread,  \* where it is; expired: nextDispatchDuration <= 0
    batch,          \* the queue of each batch queue
    buffer,         \* its localBatchBuffer
    batchThread,    \* its isDrain, and whether its thread runs
    sent,           \* what it has sent, in order
    failed,         \* events reported to logFailedEvent for a destination
    dropped,        \* events that nobody has reported
    hook            \* JVMShutdownHook: destinations left, and the one it waits for

vars == <<setup, logged, adding, async, asyncThread, summary, summaryMap, summaryThread,
          batch, buffer, batchThread, sent, failed, dropped, hook>>

dests    == setup.dests
EventKey == setup.key

(* MultiDestAuditProvider catches what a destination throws.               *)
Multi == \E c, d \in dests : c # d

Running == hook.at # "halted"

Init ==
    /\ setup \in Setups
    /\ logged = 0 /\ adding = {} /\ async = <<>> /\ summary = <<>>
    /\ asyncThread   = [at |-> "loop", isDrain |-> FALSE, interrupted |-> FALSE, hand |-> <<>>,
                        rest |-> [d \in dests |-> <<>>]]
    /\ summaryThread = [at |-> IF setup.summary THEN "loop" ELSE "none", isDrain |-> FALSE,
                        interrupted |-> FALSE, expired |-> FALSE, todo |-> {}]
    /\ summaryMap  = [k \in Names |-> {}]
    /\ batch       = [d \in dests |-> <<>>]
    /\ buffer      = [d \in dests |-> <<>>]
    /\ batchThread = [d \in dests |-> [isDrain |-> FALSE, runs |-> TRUE]]
    /\ sent        = [d \in dests |-> <<>>]
    /\ failed      = [d \in dests |-> {}]
    /\ dropped     = {}
    /\ hook = [at |-> "none", left |-> {}, on |-> {}]

-----------------------------------------------------------------------------
HasRoom == Len(async) < AsyncSize

(* AuditAsyncQueue.log, with the size looked at before the event is added. *)
(* A full queue refuses the event, and nothing changes.                    *)
LogFindsRoom(t) ==
    /\ Running
    /\ t \notin adding
    /\ logged + Cardinality(adding) < MaxEvents
    /\ HasRoom
    /\ adding' = adding \cup {t}
    /\ UNCHANGED <<setup, logged, async, asyncThread, summary, summaryMap, summaryThread,
                   batch, buffer, batchThread, sent, failed, dropped, hook>>

LogAdds(t) ==
    /\ Running
    /\ t \in adding
    /\ adding' = adding \ {t}
    /\ logged' = logged + 1
    /\ async' = Append(async, logged + 1)
    /\ UNCHANGED <<setup, asyncThread, summary, summaryMap, summaryThread,
                   batch, buffer, batchThread, sent, failed, dropped, hook>>

-----------------------------------------------------------------------------
(* AuditAsyncQueue.run                                                     *)
AsyncAt(at) == Running /\ asyncThread.at = at

AsyncLoop ==
    /\ AsyncAt("loop")
    /\ asyncThread' = [asyncThread EXCEPT !.at = IF asyncThread.isDrain THEN "poll" ELSE "take"]
    /\ UNCHANGED <<setup, logged, adding, async, summary, summaryMap, summaryThread,
                   batch, buffer, batchThread, sent, failed, dropped, hook>>

\* mutant: what drainTo finds comes before the event of take()
MutTaken == Append(Tail(async), Head(async))

Taken == async

(* take(), which an interrupt ends, or poll(), with drainTo.               *)
AsyncTakes ==
    /\ AsyncAt("take") \/ AsyncAt("poll")
    /\ \/ /\ asyncThread.at = "take" /\ asyncThread.interrupted
          /\ asyncThread' = [asyncThread EXCEPT !.at = "test", !.interrupted = FALSE]
          /\ UNCHANGED async
       \/ /\ asyncThread.at = "poll" /\ async = <<>>
          /\ asyncThread' = [asyncThread EXCEPT !.at = "test"]
          /\ UNCHANGED async
       \/ /\ asyncThread.at = "take" => ~asyncThread.interrupted
          /\ async # <<>>
          /\ asyncThread' = [asyncThread EXCEPT !.at = "send", !.hand = Taken,
                                !.rest = [d \in dests |-> IF setup.summary THEN <<>> ELSE Taken]]
          /\ async' = <<>>
    /\ UNCHANGED <<setup, logged, adding, summary, summaryMap, summaryThread,
                   batch, buffer, batchThread, sent, failed, dropped, hook>>

\* mutant: one more than the queue may hold
MutRoom(d) == Len(batch[d]) <= BatchSize

Room(d) == Len(batch[d]) < BatchSize

(* AuditBatchQueue.log of one record at each of the destinations ds; its   *)
(* add() throws when the queue is full.                                    *)
Put(record, ds) ==
    batch' = [d \in dests |-> IF d \in ds /\ Room(d) THEN Append(batch[d], record) ELSE batch[d]]

Full(ds) == {d \in ds : ~Room(d)}

(* logFailedEvent                                                          *)
Report(events, ds) == failed' = [d \in dests |-> IF d \in ds THEN failed[d] \cup events ELSE failed[d]]

AfterSend(hand) ==
    [asyncThread EXCEPT !.hand = hand, !.at = IF hand = <<>> THEN "test" ELSE "send"]

(* consumer.log(eventList), event by event.  A summary queue that is full  *)
(* refuses an event and gets none of the rest; what log returns is ignored.*)
AsyncToSummary ==
    /\ AsyncAt("send") /\ setup.summary
    /\ \/ /\ Len(summary) < SummarySize
          /\ summary' = Append(summary, Head(asyncThread.hand))
          /\ asyncThread' = AfterSend(Tail(asyncThread.hand))
          /\ UNCHANGED dropped
       \/ /\ Len(summary) >= SummarySize
          /\ dropped' = dropped \cup ToSet(asyncThread.hand)
          /\ asyncThread' = AfterSend(<<>>)
          /\ UNCHANGED summary
    /\ UNCHANGED <<setup, logged, adding, async, summaryMap, summaryThread,
                   batch, buffer, batchThread, sent, failed, hook>>

Given(d, rest) == [asyncThread.rest EXCEPT ![d] = rest]

AfterGiving(rest) ==
    [AfterSend(IF \A d \in dests : rest[d] = <<>> THEN <<>> ELSE asyncThread.hand) EXCEPT !.rest = rest]

(* Without a summary queue each destination gets the whole list, one after *)
(* the other in whatever order: its batch queue adds event by event, until *)
(* its queue is full.  Then MultiDestAuditProvider reports the whole list, *)
(* also what was added; a single batch queue throws to the loop, which     *)
(* logs the exception.                                                     *)
AsyncToBatch(d) ==
    /\ AsyncAt("send") /\ asyncThread.rest[d] # <<>>
    /\ \A c \in dests \ {d} : asyncThread.rest[c] \in {<<>>, asyncThread.hand}
    /\ LET rest == asyncThread.rest[d]
       IN  \/ /\ Room(d)
              /\ Put({Head(rest)}, {d})
              /\ asyncThread' = AfterGiving(Given(d, Tail(rest)))
              /\ UNCHANGED <<failed, dropped>>
           \/ /\ ~Room(d)
              /\ IF Multi THEN Report(ToSet(asyncThread.hand), {d}) /\ UNCHANGED dropped
                          ELSE dropped' = dropped \cup ToSet(rest) /\ UNCHANGED failed
              /\ asyncThread' = AfterGiving(Given(d, <<>>))
              /\ UNCHANGED batch
    /\ UNCHANGED <<setup, logged, adding, async, summary, summaryMap, summaryThread, buffer, batchThread, sent, hook>>

AsyncIsDone == asyncThread.isDrain /\ async = <<>>

AsyncTests ==
    /\ AsyncAt("test")
    /\ asyncThread' = [asyncThread EXCEPT !.at = IF AsyncIsDone THEN "stop" ELSE "loop"]
    /\ UNCHANGED <<setup, logged, adding, async, summary, summaryMap, summaryThread,
                   batch, buffer, batchThread, sent, failed, dropped, hook>>

StopBatches == batchThread' = [d \in dests |-> [batchThread[d] EXCEPT !.isDrain = TRUE]]

(* consumer.stop(): isDrain, and an interrupt.                             *)
AsyncStops ==
    /\ AsyncAt("stop")
    /\ asyncThread' = [asyncThread EXCEPT !.at = "ended"]
    /\ IF setup.summary
       THEN /\ summaryThread' = [summaryThread EXCEPT !.isDrain = TRUE, !.interrupted = TRUE]
            /\ UNCHANGED batchThread
       ELSE StopBatches /\ UNCHANGED summaryThread
    /\ UNCHANGED <<setup, logged, adding, async, summary, summaryMap, batch, buffer, sent, failed, dropped, hook>>

-----------------------------------------------------------------------------
(* AuditSummaryQueue.run.  The time of the next dispatch has come or not.  *)
SummaryAt(at) == Running /\ summaryThread.at = at

SummaryLoop ==
    /\ SummaryAt("loop")
    /\ \E expired \in BOOLEAN :
        summaryThread' = [summaryThread EXCEPT !.expired = expired,
                            !.at = IF expired \/ summaryThread.isDrain THEN "poll" ELSE "wait"]
    /\ UNCHANGED <<setup, logged, adding, async, asyncThread, summary, summaryMap,
                   batch, buffer, batchThread, sent, failed, dropped, hook>>

(* poll with a timeout, which an interrupt ends, or without, and drainTo;  *)
(* then the events are counted in the map.  Only a timeout looks at the    *)
(* clock again.                                                            *)
SummaryPolls ==
    /\ SummaryAt("wait") \/ SummaryAt("poll")
    /\ \/ /\ summaryThread.at = "wait" /\ summaryThread.interrupted
          /\ summaryThread' = [summaryThread EXCEPT !.at = "check", !.interrupted = FALSE]
          /\ UNCHANGED <<summary, summaryMap>>
       \/ /\ summary = <<>> /\ (summaryThread.at = "wait" => ~summaryThread.interrupted)
          /\ summaryThread' = [summaryThread EXCEPT !.at = "check",
                                                    !.expired = @ \/ summaryThread.at = "wait"]
          /\ UNCHANGED <<summary, summaryMap>>
       \/ /\ summary # <<>> /\ (summaryThread.at = "wait" => ~summaryThread.interrupted)
          /\ summaryThread' = [summaryThread EXCEPT !.at = "check"]
          /\ summaryMap' = [k \in Names |-> summaryMap[k] \cup {e \in ToSet(summary) : EventKey[e] = k}]
          /\ summary' = <<>>
    /\ UNCHANGED <<setup, logged, adding, async, asyncThread, batch, buffer, batchThread, sent, failed, dropped, hook>>

\* mutant: what is counted is kept until the queue is stopped
MutDispatches == summaryThread.isDrain

Dispatches == summaryThread.isDrain \/ summaryThread.expired

SummaryChecks ==
    /\ SummaryAt("check")
    /\ summaryThread' = [summaryThread EXCEPT
            !.at   = IF Dispatches THEN "send" ELSE "test",
            !.todo = IF Dispatches THEN {k \in Names : summaryMap[k] # {}} ELSE {}]
    /\ UNCHANGED <<setup, logged, adding, async, asyncThread, summary, summaryMap,
                   batch, buffer, batchThread, sent, failed, dropped, hook>>

(* One entry of the map.  What a single batch queue throws ends the thread.*)
SummarySends(k) ==
    /\ SummaryAt("send")
    /\ k \in summaryThread.todo
    /\ Put(summaryMap[k], dests)
    /\ IF Multi \/ Full(dests) = {}
       THEN /\ Report(summaryMap[k], Full(dests))
            /\ summaryThread' = [summaryThread EXCEPT !.todo = @ \ {k}]
       ELSE /\ summaryThread' = [summaryThread EXCEPT !.at = "dead"]
            /\ UNCHANGED failed
    /\ UNCHANGED <<setup, logged, adding, async, asyncThread, summary, summaryMap,
                   buffer, batchThread, sent, dropped, hook>>

\* mutant: the map is not cleared
MutKept == summaryMap

Kept == [k \in Names |-> {}]

SummaryClears ==
    /\ SummaryAt("send")
    /\ summaryThread.todo = {}
    /\ summaryMap' = Kept
    /\ summaryThread' = [summaryThread EXCEPT !.at = "test"]
    /\ UNCHANGED <<setup, logged, adding, async, asyncThread, summary,
                   batch, buffer, batchThread, sent, failed, dropped, hook>>

\* mutant: the events that are counted but not sent are forgotten
MutSummaryIsDone == summaryThread.isDrain /\ summary = <<>>

SummaryIsDone == summaryThread.isDrain /\ summary = <<>> /\ \A k \in Names : summaryMap[k] = {}

SummaryTests ==
    /\ SummaryAt("test")
    /\ summaryThread' = [summaryThread EXCEPT !.at = IF SummaryIsDone THEN "stop" ELSE "loop"]
    /\ UNCHANGED <<setup, logged, adding, async, asyncThread, summary, summaryMap,
                   batch, buffer, batchThread, sent, failed, dropped, hook>>

SummaryStops ==
    /\ SummaryAt("stop")
    /\ summaryThread' = [summaryThread EXCEPT !.at = "ended"]
    /\ StopBatches
    /\ UNCHANGED <<setup, logged, adding, async, asyncThread, summary, summaryMap,
                   batch, buffer, sent, failed, dropped, hook>>

-----------------------------------------------------------------------------
(* The thread of a batch queue: poll, and consumer.log or the spool with   *)
(* all that it has polled.  What consumer.log throws ends the thread, with *)
(* its events in the buffer.                                               *)
BatchTakes(d) ==
    /\ Running
    /\ batchThread[d].runs
    /\ batch[d] # <<>>
    /\ buffer' = [buffer EXCEPT ![d] = Append(@, Head(batch[d]))]
    /\ batch' = [batch EXCEPT ![d] = Tail(@)]
    /\ UNCHANGED <<setup, logged, adding, async, asyncThread, summary, summaryMap, summaryThread,
                   batchThread, sent, failed, dropped, hook>>

BatchSends(d) ==
    /\ Running
    /\ batchThread[d].runs
    /\ buffer[d] # <<>>
    /\ \/ /\ sent' = [sent EXCEPT ![d] = @ \o buffer[d]]
          /\ buffer' = [buffer EXCEPT ![d] = <<>>]
          /\ UNCHANGED batchThread
       \/ /\ Throws
          /\ batchThread' = [batchThread EXCEPT ![d].runs = FALSE]
          /\ UNCHANGED <<sent, buffer>>
    /\ UNCHANGED <<setup, logged, adding, async, asyncThread, summary, summaryMap, summaryThread,
                   batch, failed, dropped, hook>>

BatchEnds(d) ==
    /\ Running
    /\ batchThread[d].runs
    /\ batchThread[d].isDrain
    /\ batch[d] = <<>> /\ buffer[d] = <<>>
    /\ batchThread' = [batchThread EXCEPT ![d].runs = FALSE]
    /\ UNCHANGED <<setup, logged, adding, async, asyncThread, summary, summaryMap, summaryThread,
                   batch, buffer, sent, failed, dropped, hook>>

-----------------------------------------------------------------------------
(* JVMShutdownHook.run.  waitToComplete passes through the queues and waits*)
(* for one batch queue after the other.                                    *)
HookStarts ==
    /\ hook.at = "none"
    /\ hook' = [at |-> "wait", left |-> dests, on |-> {}]
    /\ UNCHANGED <<setup, logged, adding, async, asyncThread, summary, summaryMap, summaryThread,
                   batch, buffer, batchThread, sent, failed, dropped>>

HookDrains(d) ==
    /\ hook.at = "wait"
    /\ hook.on = {} /\ d \in hook.left
    /\ hook' = [hook EXCEPT !.on = {d}, !.left = @ \ {d}]
    /\ batchThread' = [batchThread EXCEPT ![d].isDrain = TRUE]
    /\ UNCHANGED <<setup, logged, adding, async, asyncThread, summary, summaryMap, summaryThread,
                   batch, buffer, sent, failed, dropped>>

(* AuditBatchQueue.waitToComplete(-1) looks once a second, without end.    *)
HookSeesEmpty(d) ==
    /\ d \in hook.on
    /\ batch[d] = <<>> /\ buffer[d] = <<>>
    /\ hook' = [hook EXCEPT !.on = {}]
    /\ UNCHANGED <<setup, logged, adding, async, asyncThread, summary, summaryMap, summaryThread,
                   batch, buffer, batchThread, sent, failed, dropped>>

(* mProvider.stop(), and the end of the hook.                              *)
HookStops ==
    /\ hook.at = "wait" /\ hook.left = {} /\ hook.on = {}
    /\ hook' = [hook EXCEPT !.at = "done"]
    /\ asyncThread' = [asyncThread EXCEPT !.isDrain = TRUE, !.interrupted = TRUE]
    /\ UNCHANGED <<setup, logged, adding, async, summary, summaryMap, summaryThread,
                   batch, buffer, batchThread, sent, failed, dropped>>

(* The JVM halts when its last hook has ended, whatever daemon threads do. *)
Halt ==
    /\ hook.at = "done"
    /\ hook' = [hook EXCEPT !.at = "halted"]
    /\ UNCHANGED <<setup, logged, adding, async, asyncThread, summary, summaryMap, summaryThread,
                   batch, buffer, batchThread, sent, failed, dropped>>

Log       == \E t \in Loggers : LogFindsRoom(t) \/ LogAdds(t)
AsyncRun  == AsyncLoop \/ AsyncTakes \/ AsyncToSummary \/ (\E d \in dests : AsyncToBatch(d))
             \/ AsyncTests \/ AsyncStops
SummaryRun == SummaryLoop \/ SummaryPolls \/ SummaryChecks \/ (\E k \in Names : SummarySends(k))
              \/ SummaryClears \/ SummaryTests \/ SummaryStops
Hook      == \E d \in dests : HookDrains(d) \/ HookSeesEmpty(d)

BatchRun(d) == BatchTakes(d) \/ BatchSends(d) \/ BatchEnds(d)

Next == Log \/ AsyncRun \/ SummaryRun \/ (\E d \in dests : BatchRun(d)) \/ HookStarts
        \/ Hook \/ HookStops \/ Halt

Spec == Init /\ [][Next]_vars

AllDests == UNION {s.dests : s \in Setups}

(* Threads run, and a batch queue finds a destination or a spool for its   *)
(* events (AuditBatchQueue, WaitCompletes) or dies.  Nobody has to log, and*)
(* nobody has to stop the JVM or to halt it.                               *)
FairSpec ==
    /\ Spec
    /\ WF_vars(\E t \in Loggers : LogAdds(t))
    /\ WF_vars(AsyncRun) /\ WF_vars(SummaryRun)
    /\ \A d \in AllDests : WF_vars(d \in dests /\ BatchRun(d))
    /\ WF_vars(Hook \/ HookStops)

-----------------------------------------------------------------------------
(* Every variable has its type, and no queue holds more than it may: the   *)
(* async queue may have one event more for each further thread that logs.  *)
Records == SUBSET Events

TypeOK ==
    /\ setup \in Setups /\ logged \in 0 .. MaxEvents /\ adding \subseteq Loggers
    /\ async \in Seq(Events) /\ Len(async) + Cardinality(adding) < AsyncSize + Cardinality(Loggers)
    /\ asyncThread \in [at : {"loop", "take", "poll", "send", "test", "stop", "ended"}, isDrain : BOOLEAN,
                        interrupted : BOOLEAN, hand : Seq(Events), rest : [dests -> Seq(Events)]]
    /\ asyncThread.at = "send" <=> asyncThread.hand # <<>>
    /\ summary \in Seq(Events) /\ Len(summary) <= SummarySize
    /\ summaryMap \in [Names -> Records]
    /\ summaryThread \in [at : {"none", "loop", "wait", "poll", "check", "send", "test", "stop", "ended", "dead"},
                          isDrain : BOOLEAN, interrupted : BOOLEAN, expired : BOOLEAN, todo : SUBSET Names]
    /\ {batch, buffer, sent} \subseteq [dests -> Seq(Records)] /\ \A d \in dests : Len(batch[d]) <= BatchSize
    /\ batchThread \in [dests -> [isDrain : BOOLEAN, runs : BOOLEAN]]
    /\ failed \in [dests -> Records] /\ dropped \in Records
    /\ hook \in [at : {"none", "wait", "done", "halted"}, left : SUBSET dests, on : SUBSET dests]

(* What of its list the async thread has still to pass on.                 *)
Rest(d) == IF setup.summary THEN asyncThread.hand ELSE asyncThread.rest[d]

(* Counted in the map, and not sent since.                                 *)
InMap(e) ==
    /\ e \in summaryMap[EventKey[e]]
    /\ summaryThread.at \in {"send", "dead"} => EventKey[e] \in summaryThread.todo

RecordsFor(d) == (sent[d] \o buffer[d]) \o batch[d]

CountedIn(e, d) == {i \in DOMAIN RecordsFor(d) : e \in RecordsFor(d)[i]}

IsIn(place, e, d) ==
    \/ place = "async"   /\ e \in ToSet(async)
    \/ place = "hand"    /\ e \in ToSet(Rest(d))
    \/ place = "summary" /\ e \in ToSet(summary)
    \/ place = "map"     /\ InMap(e)
    \/ place = "failed"  /\ e \in failed[d]
    \/ place = "dropped" /\ e \in dropped

Where(e, d) ==
    ({"record"} \X CountedIn(e, d)) \cup
    ({p \in {"async", "hand", "summary", "map", "failed", "dropped"} : IsIn(p, e, d)} \X {0})

(* The list of an event that is counted was reported: a later event of it  *)
(* found the queue of a destination full that is one of several.           *)
ReportedWithLater(e, d) ==
    /\ Multi /\ ~setup.summary
    /\ \E f \in failed[d] : e < f /\ CountedIn(f, d) = {}

(* For every destination an accepted event is counted in one record, or is *)
(* on its way to one, or was given up once: no event is counted twice by   *)
(* queue, map, fan-out or a failure of another destination, and none       *)
(* disappears but those that a full queue behind the async queue refuses.  *)
(* What is reported as failed is counted nevertheless only if it was in    *)
(* one list with a later event that the queue did refuse.                  *)
AccountedOnce ==
    \A e \in 1 .. logged : \A d \in dests :
        \/ \E w \in Where(e, d) : Where(e, d) = {w}
        \/ /\ \E i \in CountedIn(e, d) : Where(e, d) = {<<"record", i>>, <<"failed", 0>>}
           /\ ReportedWithLater(e, d)

(* A destination gets the records of one key in the order of their events, *)
(* which do not overlap: a summary never counts an event that is older     *)
(* than one of an earlier record.                                          *)
KeysInOrder ==
    \A d \in dests : \A i, j \in DOMAIN RecordsFor(d) :
        i < j => \A e \in RecordsFor(d)[i], f \in RecordsFor(d)[j] : EventKey[e] = EventKey[f] => e < f

(* The summary queue, once its thread has ended by itself, has passed on   *)
(* everything: nothing is left in it, and nothing can come any more.       *)
ShutdownInTurn ==
    summaryThread.at = "ended" =>
        /\ asyncThread.at = "ended" /\ asyncThread.hand = <<>>
        /\ summary = <<>> /\ \A k \in Names : summaryMap[k] = {}

Settled(e, d) == e \in failed[d] \cup dropped \cup UNION ToSet(sent[d])

(* Until the JVM shuts down or the summary thread dies, the pipeline comes *)
(* again and again to where every accepted event has got to every          *)
(* destination whose thread lives, or was given up: the timer of the       *)
(* summaries, interrupts, a full queue and the death of the thread of      *)
(* another destination never keep one for good.                            *)
ReachesAll ==
    []<>(\/ hook.at # "none" \/ summaryThread.at = "dead"
         \/ \A e \in 1 .. logged : \A d \in dests : Settled(e, d) \/ ~batchThread[d].runs)

(* AuditBatchQueue.waitToComplete says that it aborts and discards events  *)
(* when its queue does not shrink, so the shutdown hook must come to its   *)
(* end whatever the queues in front do.                                    *)
HookEnds == hook.at = "wait" ~> hook.at = "done"
=============================================================================
