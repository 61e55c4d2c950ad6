--------------------------- MODULE AuditBatchQueue ---------------------------
(***************************************************************************)
(* AuditBatchQueue in front of a destination: the threads that log audit   *)
(* events into a bounded queue, the thread that takes them out, batches    *)
(* them and either sends a batch to the destination or stashes it in the   *)
(* file spool (as AuditSpool promises it to work), and the thread that     *)
(* shuts the queue down: waitToComplete(), then stop().                    *)
(*                                                                         *)
(* Time is abstracted: the dispatch interval may be over at any moment.    *)
(* Events are numbered in the order in which log() is called for them.     *)
(***************************************************************************)
EXTENDS Integers, Sequences

CONSTANTS
    MaxEvents,      \* bound: calls of log()
    MaxQueue,       \* maxQueueSize
    MaxBatch,       \* maxBatchSize
    Threshold,      \* fileSpoolDrainThresholdPercent
    SpoolEnabled,   \* fileSpoolerEnabled
    MaxFaults,      \* bound: batches that the destination refuses
    MaxThrows       \* bound: batches at which the destination throws

ASSUME QueueAssumption ==
    /\ MaxEvents \in Nat /\ MaxQueue \in Nat \ {0} /\ MaxBatch \in Nat \ {0}
    /\ Threshold \in 0 .. 100 /\ SpoolEnabled \in BOOLEAN
    /\ MaxFaults \in Nat /\ MaxThrows \in Nat

VARIABLES
    queue,      \* the ArrayBlockingQueue
    local,      \* localBatchBuffer
    hand,       \* the event that poll() returned and add() has not added yet
    toSpool,    \* isToSpool
    drain,      \* isDrain
    cpc,        \* the consumer thread: where it is
    wpc,        \* the thread that shuts down: where it is
    owed, pending,   \* the file spool, see AuditSpool
    next,       \* the next event to log
    faults,     \* counter, for the bound
    throws,     \* counter, for the bound
    sent,       \* history: events the destination took
    lost,       \* history: dropped by logFailedEvent or given up by the spool
    rejected,   \* history: events for which log() threw "Queue full"
    early       \* history: events accepted before the shutdown began

spoolVars == <<owed, pending>>
history   == <<sent, lost, rejected, early>>
vars == <<queue, local, hand, toSpool, drain, cpc, wpc, spoolVars, next, faults, throws,
          history>>

Events == 1 .. MaxEvents
None   == 0     \* null

Spool == INSTANCE AuditSpool

Elements(s) == {s[i] : i \in DOMAIN s}

(* A new process: the spool may hold the events of an earlier one.         *)
Init ==
    /\ queue = <<>> /\ local = <<>> /\ hand = None
    /\ toSpool = FALSE /\ drain = FALSE
    /\ cpc = "top" /\ wpc = "off"
    /\ owed = {} /\ pending \in {FALSE, SpoolEnabled}
    /\ next = 1 /\ faults = 0 /\ throws = 0
    /\ sent = {} /\ lost = {} /\ rejected = {} /\ early = {}

-----------------------------------------------------------------------------
(* log(event): queue.add, which throws when the queue is full.             *)

Log ==
    /\ next \in Events
    /\ next' = next + 1
    /\ IF Len(queue) < MaxQueue
       THEN queue' = Append(queue, next) /\ UNCHANGED rejected
       ELSE rejected' = rejected \cup {next} /\ UNCHANGED queue
    /\ UNCHANGED <<local, hand, toSpool, drain, cpc, wpc, spoolVars, faults, throws, sent,
                   lost, early>>

-----------------------------------------------------------------------------
(* run(): the consumer thread.                                             *)

At(from, to) == cpc = from /\ cpc' = to

(* What the code calls percentUsed.                                        *)
PercentUsed == ((MaxQueue - Len(queue)) * 100) \div MaxQueue

Waits(spoolDrain) == ~drain /\ ~spoolDrain /\ PercentUsed < Threshold

\* mutant: in drain mode the spool does not matter.
MutSpoolFirstUnlessDrain == SpoolEnabled /\ pending /\ ~drain

SpoolFirst == SpoolEnabled /\ pending

(* The spool is pending: wait for it, unless the last failed attempt is    *)
(* long ago (fileSpoolDrain), or let the next events go after it.          *)
WaitForSpool ==
    /\ At("top", "wait")
    /\ SpoolFirst
    /\ Waits(FALSE)
    /\ toSpool' = FALSE
    /\ UNCHANGED <<queue, local, hand, drain, wpc, spoolVars, next, faults, throws, history>>

FollowSpool ==
    /\ At("top", "pollNow")
    /\ SpoolFirst
    /\ \E spoolDrain \in BOOLEAN : ~Waits(spoolDrain)
    /\ toSpool' = TRUE
    /\ UNCHANGED <<queue, local, hand, drain, wpc, spoolVars, next, faults, throws, history>>

GoDirect ==
    /\ \/ At("top", "pollWait") /\ ~drain
       \/ At("top", "pollNow")
    /\ ~SpoolFirst
    /\ toSpool' = FALSE
    /\ UNCHANGED <<queue, local, hand, drain, wpc, spoolVars, next, faults, throws, history>>

WakeUp ==
    /\ At("wait", "top")
    /\ UNCHANGED <<queue, local, hand, toSpool, drain, wpc, spoolVars, next, faults, throws,
                   history>>

Polling == {"pollWait", "pollNow"}

PollEvent ==
    /\ cpc \in Polling /\ cpc' = "took"
    /\ queue # <<>>
    /\ hand' = Head(queue)
    /\ queue' = Tail(queue)
    /\ UNCHANGED <<local, toSpool, drain, wpc, spoolVars, next, faults, throws, history>>

PollNothing ==
    /\ cpc \in Polling /\ cpc' = "dispatch"
    /\ queue = <<>>
    /\ UNCHANGED <<queue, local, hand, toSpool, drain, wpc, spoolVars, next, faults, throws,
                   history>>

(* waitToComplete() and stop() interrupt a timed poll() or a sleep().      *)
Interrupted ==
    /\ cpc \in {"pollWait", "wait"} /\ cpc' = "dispatch"
    /\ wpc # "off"
    /\ drain' = TRUE
    /\ UNCHANGED <<queue, local, hand, toSpool, wpc, spoolVars, next, faults, throws, history>>

\* mutant: the event in the hand is not counted.
MutRoom == MaxBatch - Len(local)

Room == MaxBatch - Len(local) - 1

(* add() and drainTo().                                                    *)
FillBatch ==
    /\ At("took", "dispatch")
    /\ LET count == IF Room < Len(queue) THEN Room ELSE Len(queue)
       IN  /\ local' = Append(local, hand) \o SubSeq(queue, 1, count)
           /\ queue' = SubSeq(queue, count + 1, Len(queue))
    /\ hand' = None
    /\ UNCHANGED <<toSpool, drain, wpc, spoolVars, next, faults, throws, history>>

(* stashLogs: what AuditSpool accepts, if the events come in order.        *)
Stash(batch) ==
    /\ owed' = owed \cup Elements(batch)
    /\ pending' = TRUE

StashBatch ==
    /\ At("dispatch", "check")
    /\ local # <<>> /\ toSpool
    /\ Stash(local)
    /\ local' = <<>>
    /\ UNCHANGED <<queue, hand, toSpool, drain, wpc, next, faults, throws, history>>

\* mutant: a last, small batch waits for more events.
MutBatchIsDue == Len(local) >= MaxBatch

BatchIsDue == drain \/ Len(local) >= MaxBatch

DispatchBatch ==
    /\ At("dispatch", "send")
    /\ local # <<>> /\ ~toSpool   \* and BatchIsDue, or the interval is over
    /\ UNCHANGED <<queue, local, hand, toSpool, drain, wpc, spoolVars, next, faults, throws,
                   history>>

KeepBatch ==
    /\ At("dispatch", "check")
    /\ \/ local = <<>>
       \/ ~toSpool /\ ~BatchIsDue
    /\ UNCHANGED <<queue, local, hand, toSpool, drain, wpc, spoolVars, next, faults, throws,
                   history>>

SendAccepted ==
    /\ At("send", "check")
    /\ sent' = sent \cup Elements(local)
    /\ local' = <<>>
    /\ UNCHANGED <<queue, hand, toSpool, drain, wpc, spoolVars, next, faults, throws, lost,
                   rejected, early>>

SendRefused ==
    /\ At("send", "check")
    /\ faults < MaxFaults /\ faults' = faults + 1
    /\ IF SpoolEnabled
       THEN Stash(local) /\ UNCHANGED lost
       ELSE lost' = lost \cup Elements(local) /\ UNCHANGED spoolVars
    /\ local' = <<>>
    /\ UNCHANGED <<queue, hand, toSpool, drain, wpc, next, throws, sent, rejected, early>>

(* consumer.log() is called outside of any try: the thread is gone.        *)
SendThrows ==
    /\ At("send", "dead")
    /\ throws < MaxThrows /\ throws' = throws + 1
    /\ UNCHANGED <<queue, local, hand, toSpool, drain, wpc, spoolVars, next, faults, history>>

\* mutant: the batch in the buffer is forgotten.
MutMayExit == drain /\ queue = <<>>

MayExit == drain /\ queue = <<>> /\ local = <<>>

CheckDrain ==
    /\ At("check", IF MayExit THEN "exited" ELSE "top")
    /\ UNCHANGED <<queue, local, hand, toSpool, drain, wpc, spoolVars, next, faults, throws,
                   history>>

-----------------------------------------------------------------------------
(* The thread of the file spool.                                           *)

SpoolHandsOver ==
    /\ \E S \in SUBSET owed :
          /\ S # {}
          /\ Spool!HandOver(S)
          /\ sent' = sent \cup S
    /\ UNCHANGED <<queue, local, hand, toSpool, drain, cpc, wpc, next, faults, throws, lost,
                   rejected, early>>

SpoolGivesUp ==
    /\ faults < MaxFaults /\ faults' = faults + 1
    /\ owed # {}
    /\ Spool!GiveUp(owed)
    /\ lost' = lost \cup owed
    /\ UNCHANGED <<queue, local, hand, toSpool, drain, cpc, wpc, next, throws, sent, rejected,
                   early>>

SpoolClears ==
    /\ pending
    /\ Spool!Clear
    /\ UNCHANGED <<queue, local, hand, toSpool, drain, cpc, wpc, next, faults, throws, history>>

-----------------------------------------------------------------------------
(* The shutdown hook: waitToComplete(-1), then stop().                     *)

Shut(from, to) == wpc = from /\ wpc' = to

WaitBegin ==
    /\ Shut("off", "wait")
    /\ drain' = TRUE
    /\ early' = (1 .. next - 1) \ rejected
    /\ UNCHANGED <<queue, local, hand, toSpool, cpc, spoolVars, next, faults, throws, sent,
                   lost, rejected>>

(* queue.size() > 0 || localBatchBuffer.size() > 0, one after the other.   *)
SeesEmptyQueue ==
    /\ Shut("wait", "seen")
    /\ queue = <<>>
    /\ UNCHANGED <<queue, local, hand, toSpool, drain, cpc, spoolVars, next, faults, throws,
                   history>>

\* mutant: only the queue is looked at.
MutSeesEmptyBuffer ==
    /\ Shut("seen", "waited")
    /\ UNCHANGED <<queue, local, hand, toSpool, drain, cpc, spoolVars, next, faults, throws,
                   history>>

SeesEmptyBuffer ==
    /\ Shut("seen", IF local = <<>> THEN "waited" ELSE "wait")
    /\ UNCHANGED <<queue, local, hand, toSpool, drain, cpc, spoolVars, next, faults, throws,
                   history>>

Stop ==
    /\ Shut("waited", "stopped")
    /\ drain' = TRUE
    /\ UNCHANGED <<queue, local, hand, toSpool, cpc, spoolVars, next, faults, throws, history>>

-----------------------------------------------------------------------------
ConsumerNext ==
    \/ WaitForSpool \/ FollowSpool \/ GoDirect \/ WakeUp
    \/ PollEvent \/ PollNothing \/ Interrupted \/ FillBatch
    \/ StashBatch \/ DispatchBatch \/ KeepBatch
    \/ SendAccepted \/ SendRefused \/ SendThrows \/ CheckDrain

SpoolNext == SpoolHandsOver \/ SpoolGivesUp \/ SpoolClears

ShutdownNext == SeesEmptyQueue \/ SeesEmptyBuffer \/ Stop

Next == Log \/ ConsumerNext \/ SpoolNext \/ WaitBegin \/ ShutdownNext

Spec == Init /\ [][Next]_vars

(* The threads run; nobody need log, shut down or drain the spool.         *)
LiveSpec == Spec /\ WF_vars(ConsumerNext) /\ WF_vars(ShutdownNext)

-----------------------------------------------------------------------------
TypeOK ==
    /\ queue \in Seq(Events) /\ Len(queue) <= MaxQueue
    /\ local \in Seq(Events) /\ Len(local) <= MaxBatch
    /\ hand \in Events \cup {None}
    /\ toSpool \in BOOLEAN /\ drain \in BOOLEAN /\ pending \in BOOLEAN
    /\ cpc \in {"top", "wait", "took", "dispatch", "send", "check", "exited", "dead"}
               \cup Polling
    /\ wpc \in {"off", "wait", "seen", "waited", "stopped"}
    /\ next \in 1 .. MaxEvents + 1
    /\ faults \in 0 .. MaxFaults /\ throws \in 0 .. MaxThrows
    /\ owed \subseteq Events /\ sent \subseteq Events /\ lost \subseteq Events
    /\ rejected \subseteq Events /\ early \subseteq Events

Settled == sent \cup owed \cup lost

(* Events reach the destination in the order in which they were logged,    *)
(* whichever thread sends them: a batch that is sent directly never        *)
(* overtakes what is still in the spool, nor the other way round; and the  *)
(* spool is given them in that order too.                                  *)
InOrder ==
    [][/\ Spool!Before(sent, sent' \ sent)
       /\ Spool!Before(owed, owed' \ owed)]_vars

(* The consumer thread does not end before everything that was accepted    *)
(* before the shutdown is with the destination or in the spool.            *)
DrainedBeforeExit == cpc = "exited" => early \subseteq Settled

(* waitToComplete() may return while the consumer thread has one event in  *)
(* its hand, which is in neither of the two collections, but no more.      *)
LosesAtMostOne ==
    wpc \in {"waited", "stopped"} =>
        \E e \in Events \cup {None} : early \ Settled \subseteq {e}

(* waitToComplete() returns, unless the consumer thread has died of an     *)
(* exception or has ended before the last event was logged.                *)
WaitCompletes ==
    wpc = "wait" ~> (wpc = "waited" \/ cpc = "dead" \/ (cpc = "exited" /\ queue # <<>>))
===============================================================================
