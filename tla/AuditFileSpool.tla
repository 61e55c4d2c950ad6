---------------------------- MODULE AuditFileSpool ----------------------------
(***************************************************************************)
(* AuditFileSpool: the spool in which an AuditBatchQueue keeps the events  *)
(* that its destination does not take.  The queue's thread appends events  *)
(* to the current log file (stashLogs); the spool's own thread reads the   *)
(* closed files and sends them to the destination, batch by batch (run).   *)
(* An index file says which log files there are and how far each is read;  *)
(* it is rewritten in place, and is all that a restart starts from.        *)
(*                                                                         *)
(* A crash is the death of the process at any point: what was written      *)
(* stays, what a PrintWriter still buffers may be lost from any character  *)
(* on.  The monitor of the spool is held by the queue's thread through a   *)
(* whole stashLogs (wpc # "idle") and by the spool's thread in Locked.     *)
(***************************************************************************)
EXTENDS Naturals, SequencesExt, FiniteSetsExt

CONSTANTS
    MaxEvents,       \* bound: events the queue stashes
    MaxBatch,        \* AuditQueue.maxBatchSize, for writing and reading
    MaxFaults,       \* bound: calls of the destination that fail
    MaxCrashes,      \* bound: deaths of the process
    ConsumerParses   \* the destination parses the JSON (logJSON of
                     \* BaseAuditHandler) or takes the line as it is

ASSUME SpoolAssumption ==
    /\ MaxEvents \in Nat /\ MaxBatch \in Nat \ {0}
    /\ MaxFaults \in Nat /\ MaxCrashes \in Nat
    /\ ConsumerParses \in BOOLEAN

VARIABLES
    disk,       \* the log files
    index,      \* the index file
    records,    \* indexRecords
    queue,      \* indexQueue: closed files, to be read
    writing,    \* currentWriterIndexRecord
    buffer,     \* what logWriter has not written yet
    pending,    \* isPending
    drain,      \* isDrain
    alive,      \* the process runs
    wpc, todo,  \* stashLogs: where it is, events of the batch still to print
    rpc,        \* run: where it is
    consuming,  \* currentConsumerIndexRecord
    line,       \* currLine
    next,       \* the next event of the queue
    faults, crashes,   \* counters, for the bounds
    stashed,    \* history: events written to a log file
    delivered,  \* history: events the destination took
    fresh,      \* history: those of them that this process sent
    dropped,    \* history: events of a batch the consumer threw at
    stranded    \* history: events cut off by a crash inside saveIndexFile

diskVars    == <<disk, index>>
memoryVars  == <<records, queue, writing, buffer, pending, drain, alive>>
writerVars  == <<wpc, todo, next>>
readerVars  == <<rpc, consuming, line>>
bounds      == <<faults, crashes>>
history     == <<stashed, delivered, fresh, dropped, stranded>>
vars == <<diskVars, memoryVars, writerVars, readerVars, bounds, history>>

Events == 1 .. MaxEvents
Files  == 1 .. MaxEvents
NoFile == 0                  \* null
Lines  == [event : 0 .. MaxEvents, good : BOOLEAN]
Garbage == [event |-> 0, good |-> FALSE]

(* A log file; torn: its last line was cut by a crash and has no newline.  *)
LogFiles == [place : {"none", "spool", "archive"}, lines : Seq(Lines), torn : BOOLEAN]
Absent   == [place |-> "none", lines |-> <<>>, torn |-> FALSE]
Records  == [file : Files, status : {"write", "pending", "read", "done"}, position : Nat]

(* println on a file that ends in a torn line completes that line.         *)
Printed(f, events) ==
    [f EXCEPT !.lines = @ \o [i \in DOMAIN events |->
                                 [event |-> events[i], good |-> ~(i = 1 /\ f.torn)]],
              !.torn = @ /\ events = <<>>]

Locked == {"ackSave", "failSave", "archived", "removeSave", "rollSave"}

Init ==
    /\ disk = [f \in Files |-> Absent] /\ index = <<>>
    /\ records = <<>> /\ queue = <<>> /\ writing = NoFile /\ buffer = <<>>
    /\ pending = FALSE /\ drain = FALSE /\ alive = TRUE
    /\ wpc = "idle" /\ todo = <<>> /\ next = 1
    /\ rpc = "poll" /\ consuming = NoFile /\ line = 0
    /\ faults = 0 /\ crashes = 0
    /\ stashed = {} /\ delivered = {} /\ fresh = {} /\ dropped = {} /\ stranded = {}

Record(f) == CHOOSE r \in Range(records) : r.file = f
Updated(f, r) == [i \in DOMAIN records |-> IF records[i].file = f THEN r ELSE records[i]]

(* The elements of s at the places I, in their order.                      *)
Kept(s, I) ==
    [n \in 1 .. Cardinality(I) |->
        s[CHOOSE i \in I : Cardinality({j \in I : j <= i}) = n]]

-----------------------------------------------------------------------------
(* saveIndexFile, and closeFileIfNeeded, which both threads call.          *)

(* new PrintWriter(indexFile) empties the file; close() fills it again.    *)
TruncateIndex == index' = <<>>
WriteIndex    == index' = records

(* A roll is due when the current file is the only one, or by the clock.   *)
MustRoll == writing # NoFile /\ Len(records) = 1

RollBegin ==
    /\ writing # NoFile
    /\ disk' = [disk EXCEPT ![writing] = Printed(@, buffer)]
    /\ buffer' = <<>>
    /\ stashed' = stashed \cup Range(buffer)
    /\ records' = Updated(writing, [Record(writing) EXCEPT !.status = "pending"])
    /\ TruncateIndex

\* mutant: the closed file is not handed to the reader.
MutRollEndUnqueued ==
    /\ WriteIndex
    /\ UNCHANGED queue
    /\ writing' = NoFile

RollEnd ==
    /\ WriteIndex
    /\ queue' = Append(queue, writing)
    /\ writing' = NoFile

-----------------------------------------------------------------------------
(* stashLogs, in the thread of the queue.                                  *)

Stash(from, to) == alive /\ wpc = from /\ wpc' = to

StashBegin ==
    /\ Stash("idle", "event")
    /\ ~drain
    /\ rpc \notin Locked
    /\ \E size \in 1 .. MaxBatch :
          /\ next + size <= MaxEvents + 1
          /\ todo' = [i \in 1 .. size |-> next + i - 1]
          /\ next' = next + size
    /\ UNCHANGED <<diskVars, memoryVars, readerVars, bounds, history>>

KeepFile ==
    /\ Stash("event", "print")
    /\ writing # NoFile /\ ~MustRoll
    /\ UNCHANGED <<diskVars, memoryVars, todo, next, readerVars, bounds, history>>

RollFile ==
    /\ Stash("event", "rolled")
    /\ RollBegin
    /\ UNCHANGED <<queue, writing, pending, drain, alive, todo, next, readerVars, bounds,
                   delivered, fresh, dropped, stranded>>

RolledFile ==
    /\ Stash("rolled", "event")
    /\ RollEnd
    /\ UNCHANGED <<disk, records, buffer, pending, drain, alive, todo, next, readerVars,
                   bounds, history>>

(* A name that is neither in the spool folder nor in the archive.          *)
CreateFile ==
    /\ Stash("event", "created")
    /\ writing = NoFile
    /\ writing' = Min({f \in Files : disk[f].place = "none"})
    /\ disk' = [disk EXCEPT ![writing'].place = "spool"]
    /\ records' = Append(records, [file |-> writing', status |-> "write", position |-> 0])
    /\ TruncateIndex
    /\ UNCHANGED <<queue, buffer, pending, drain, alive, todo, next, readerVars, bounds,
                   history>>

CreatedFile ==
    /\ Stash("created", "print")
    /\ WriteIndex
    /\ UNCHANGED <<disk, memoryVars, todo, next, readerVars, bounds, history>>

PrintEvent ==
    /\ Stash("print", IF Len(todo) = 1 THEN "flush" ELSE "event")
    /\ buffer' = Append(buffer, Head(todo))
    /\ todo' = Tail(todo)
    /\ pending' = TRUE
    /\ UNCHANGED <<diskVars, records, queue, writing, drain, alive, next, readerVars,
                   bounds, history>>

FlushBatch ==
    /\ Stash("flush", "idle")
    /\ disk' = [disk EXCEPT ![writing] = Printed(@, buffer)]
    /\ buffer' = <<>>
    /\ stashed' = stashed \cup Range(buffer)
    /\ UNCHANGED <<index, records, queue, writing, pending, drain, alive, todo, next,
                   readerVars, bounds, delivered, fresh, dropped, stranded>>

(* stop(), in the same thread: what it flushes is flushed already.         *)
Stop ==
    /\ alive /\ ~drain
    /\ wpc = "idle"
    /\ rpc \notin Locked
    /\ drain' = TRUE
    /\ UNCHANGED <<diskVars, records, queue, writing, buffer, pending, alive, writerVars,
                   readerVars, bounds, history>>

-----------------------------------------------------------------------------
(* run(), in the thread of the spool.                                      *)

Read(from, to) == alive /\ rpc = from /\ rpc' = to

\* mutant: every retry starts with the first line.
MutOpenAtStart(f) == consuming' = f /\ line' = 0

\* mutant: off by one in a file of which nothing is sent yet.
MutOpenBeforeStart(f) == consuming' = f /\ line' = Record(f).position - 1

(* Reading goes on with the last line that was sent before.                *)
Open(f) ==
    /\ consuming' = f
    /\ line' = IF Record(f).position = 0 THEN 0 ELSE Record(f).position - 1

AfterOpen(f) ==
    IF drain THEN "exited" ELSE IF disk[f].place = "spool" THEN "send" ELSE "remove"

Poll ==
    /\ queue # <<>>
    /\ Read("poll", AfterOpen(Head(queue)))
    /\ Open(Head(queue))
    /\ queue' = Tail(queue)
    /\ UNCHANGED <<diskVars, records, writing, buffer, pending, drain, alive, writerVars,
                   bounds, history>>

Retry ==
    /\ Read("retry", AfterOpen(consuming))
    /\ Open(consuming)
    /\ UNCHANGED <<diskVars, memoryVars, writerVars, bounds, history>>

Exit ==
    /\ Read("poll", "exited")
    /\ drain /\ queue = <<>>
    /\ UNCHANGED <<diskVars, memoryVars, consuming, line, writerVars, bounds, history>>

(* The next lines of the file, up to a batch; <<>> at its end.             *)
Batch ==
    LET file == disk[consuming].lines \o (IF disk[consuming].torn THEN <<Garbage>> ELSE <<>>)
    IN  SubSeq(file, line + 1, Min({line + MaxBatch, Len(file)}))

Sent(good) == {l.event : l \in {b \in Range(Batch) : b.good = good}} \ {0}

Parsed == \A l \in Range(Batch) : l.good

Fault == faults < MaxFaults /\ faults' = faults + 1

(* A line that does not parse reaches a destination that takes any line.   *)
SendAccepted ==
    /\ Read("send", "ack")
    /\ Batch # <<>>
    /\ ConsumerParses => Parsed
    /\ line' = line + Len(Batch)
    /\ records' = Updated(consuming,
                          [Record(consuming) EXCEPT !.status = "read", !.position = line'])
    /\ delivered' = delivered \cup Sent(TRUE)
    /\ fresh' = fresh \cup Sent(TRUE)
    /\ dropped' = dropped \cup Sent(FALSE)
    /\ UNCHANGED <<diskVars, queue, writing, buffer, pending, drain, alive, consuming,
                   writerVars, bounds, stashed, stranded>>

SendRefused ==
    /\ Read("send", "fail")
    /\ Batch # <<>>
    /\ ConsumerParses => Parsed
    /\ Fault
    /\ UNCHANGED <<diskVars, memoryVars, consuming, line, writerVars, crashes, history>>

(* sendEvent catches what the consumer throws and returns true.            *)
SendThrows ==
    /\ Read("send", "send")
    /\ Batch # <<>>
    /\ \/ ConsumerParses /\ ~Parsed /\ UNCHANGED faults
       \/ Fault
    /\ line' = line + Len(Batch)
    /\ dropped' = dropped \cup Sent(TRUE) \cup Sent(FALSE)
    /\ UNCHANGED <<diskVars, memoryVars, consuming, writerVars, crashes, stashed,
                   delivered, fresh, stranded>>

SaveBegin ==
    /\ \/ Read("ack", "ackSave")
       \/ Read("fail", "failSave")
    /\ wpc = "idle"
    /\ TruncateIndex
    /\ UNCHANGED <<disk, memoryVars, consuming, line, writerVars, bounds, history>>

SaveEnd ==
    /\ \/ Read("ackSave", "send")
       \/ Read("failSave", "retry")
    /\ WriteIndex
    /\ UNCHANGED <<disk, memoryVars, consuming, line, writerVars, bounds, history>>

EndOfFile ==
    /\ Read("send", "remove")
    /\ Batch = <<>>
    /\ records' = Updated(consuming, [Record(consuming) EXCEPT !.status = "done"])
    /\ UNCHANGED <<diskVars, queue, writing, buffer, pending, drain, alive, consuming,
                   line, writerVars, bounds, history>>

(* removeIndexRecord, with the move of the file to the archive.            *)
ArchiveFile ==
    /\ Read("remove", "archived")
    /\ wpc = "idle"
    /\ records' = Kept(records, {i \in DOMAIN records : records[i].file # consuming})
    /\ disk' = [disk EXCEPT ![consuming].place = "archive"]
    /\ UNCHANGED <<index, queue, writing, buffer, pending, drain, alive, consuming, line,
                   writerVars, bounds, history>>

RemoveBegin ==
    /\ Read("archived", "removeSave")
    /\ TruncateIndex
    /\ UNCHANGED <<disk, memoryVars, consuming, line, writerVars, bounds, history>>

\* mutant: no closed file is left, but one that is being written.
MutStillPendingQueue == pending /\ queue # <<>>

(* No file in the index: the destination is taken to be available.         *)
StillPending == pending /\ records # <<>>

RemoveEnd ==
    /\ Read("removeSave", "close")
    /\ WriteIndex
    /\ pending' = StillPending
    /\ consuming' = NoFile
    /\ UNCHANGED <<disk, records, queue, writing, buffer, drain, alive, line, writerVars,
                   bounds, history>>

(* closeFileIfNeeded, after a removal or when poll() has timed out.        *)
CloseFile ==
    /\ \/ Read("close", "rollSave")
       \/ Read("poll", "rollSave") /\ queue = <<>> /\ ~drain
    /\ wpc = "idle"
    /\ RollBegin
    /\ UNCHANGED <<queue, writing, pending, drain, alive, consuming, line, writerVars,
                   bounds, delivered, fresh, dropped, stranded>>

ClosedFile ==
    /\ Read("rollSave", "poll")
    /\ RollEnd
    /\ UNCHANGED <<disk, records, buffer, pending, drain, alive, consuming, line,
                   writerVars, bounds, history>>

LeaveFileOpen ==
    /\ Read("close", "poll")
    /\ wpc = "idle"
    /\ ~MustRoll
    /\ UNCHANGED <<diskVars, memoryVars, consuming, line, writerVars, bounds, history>>

-----------------------------------------------------------------------------
(* Death and restart of the process.                                       *)

InSave == wpc \in {"rolled", "created"} \/ rpc \in Locked \ {"archived"}

(* Of the buffered lines a prefix is in the file, maybe with a part of the *)
(* next line.                                                              *)
Crash ==
    /\ alive /\ alive' = FALSE
    /\ crashes < MaxCrashes /\ crashes' = crashes + 1
    /\ \E n \in 0 .. Len(buffer), cut \in BOOLEAN :
          LET written == SubSeq(buffer, 1, n)
          IN  /\ cut => n < Len(buffer)
              /\ disk' = IF buffer = <<>> THEN disk
                         ELSE [disk EXCEPT ![writing] =
                                  [Printed(disk[writing], written) EXCEPT !.torn = @ \/ cut]]
              /\ stashed' = stashed \cup Range(written)
              /\ stranded' = IF InSave THEN stashed' \ (delivered \cup dropped) ELSE stranded
    /\ records' = <<>> /\ queue' = <<>> /\ writing' = NoFile /\ buffer' = <<>>
    /\ drain' = FALSE
    /\ wpc' = "idle" /\ todo' = <<>>
    /\ rpc' = "poll" /\ consuming' = NoFile /\ line' = 0
    /\ fresh' = {}
    /\ UNCHANGED <<index, pending, next, faults, delivered, dropped>>

WithStatus(s) == {i \in DOMAIN index : index[i].status = s}
InSpool(I)    == {i \in I : disk[index[i].file].place = "spool"}
FilesOf(recs) == [i \in DOMAIN recs |-> recs[i].file]

\* mutant: a file that was being read when the process died is forgotten.
MutUnreadPendingOnly == FilesOf(Kept(index, InSpool(WithStatus("pending"))))

(* A pending file that is gone is not queued and stays in the index.       *)
Unread ==
    FilesOf(Kept(index, WithStatus("read")))
    \o FilesOf(Kept(index, InSpool(WithStatus("pending"))))

(* init() and start().                                                     *)
Restart ==
    /\ ~alive /\ alive' = TRUE
    /\ records' = index
    /\ pending' = (\E r \in Range(index) : r.status # "done")
    /\ writing' = IF WithStatus("write") = {} THEN NoFile
                  ELSE index[Max(WithStatus("write"))].file
    /\ queue' = Unread
    /\ UNCHANGED <<diskVars, buffer, drain, writerVars, readerVars, bounds, history>>

-----------------------------------------------------------------------------
WriterNext ==
    \/ KeepFile \/ RollFile \/ RolledFile \/ CreateFile \/ CreatedFile
    \/ PrintEvent \/ FlushBatch

ReaderNext ==
    \/ Poll \/ Retry \/ Exit
    \/ SendAccepted \/ SendRefused \/ SendThrows \/ SaveBegin \/ SaveEnd
    \/ EndOfFile \/ ArchiveFile \/ RemoveBegin \/ RemoveEnd
    \/ CloseFile \/ ClosedFile \/ LeaveFileOpen

Next == StashBegin \/ Stop \/ Crash \/ Restart \/ WriterNext \/ ReaderNext

(* A batch that is begun is written, and the thread of the spool keeps     *)
(* running: poll() times out, sleep() ends, and the clock rolls the file.  *)
Fairness == WF_vars(WriterNext) /\ WF_vars(ReaderNext)

Spec == Init /\ [][Next]_vars
LiveSpec == Spec /\ Fairness

-----------------------------------------------------------------------------
Optional(S) == S \cup {NoFile}

TypeOK ==
    /\ disk \in [Files -> LogFiles]
    /\ index \in Seq(Records) /\ records \in Seq(Records)
    /\ queue \in Seq(Files) /\ writing \in Optional(Files)
    /\ buffer \in Seq(Events) /\ todo \in Seq(Events)
    /\ pending \in BOOLEAN /\ drain \in BOOLEAN /\ alive \in BOOLEAN
    /\ wpc \in {"idle", "event", "rolled", "created", "print", "flush"}
    /\ rpc \in {"poll", "retry", "send", "ack", "fail", "remove", "close", "exited"}
               \cup Locked
    /\ consuming \in Optional(Files)
    /\ line \in Nat /\ next \in Nat /\ faults \in Nat /\ crashes \in Nat
    /\ stashed \subseteq Events /\ delivered \subseteq stashed /\ dropped \subseteq stashed
    /\ fresh \subseteq delivered /\ stranded \subseteq stashed

Settled == delivered \cup dropped \cup stranded

(* What a record says is still to be sent of its file.                     *)
Unsent(r) ==
    IF disk[r.file].place = "spool"
    THEN {disk[r.file].lines[i].event : i \in r.position + 1 .. Len(disk[r.file].lines)}
    ELSE {}

(* Files that a thread will still get to.                                  *)
Tracked == Range(queue) \cup ({writing, consuming} \ {NoFile})

(* No event that is in a log file is lost silently: it has reached the     *)
(* destination, or it was in a batch the consumer threw at, or it was cut  *)
(* off by a crash inside saveIndexFile, or it is still to be sent, from    *)
(* memory while the process runs and by the index file when it has died.   *)
NoSilentLoss ==
    LET todoNow == IF alive THEN {r \in Range(records) : r.file \in Tracked}
                   ELSE {r \in Range(index) : r.status # "done"}
    IN  stashed \subseteq Settled \cup UNION {Unsent(r) : r \in todoNow}

(* Within the life of a process a retry sends again at most the line at    *)
(* which it goes on: linePosition.                                         *)
ResendsAtMostOneLine ==
    [][SendAccepted =>
        \A l \in Range(Batch) : l.event \in fresh =>
            l = disk[consuming].lines[Record(consuming).position]]_vars

Promise == INSTANCE AuditSpool WITH owed <- stashed \ Settled

(* The spool keeps the order of the events and its word about pending ones. *)
ImplementsAuditSpool == Promise!Spec

(* Once the process stays up and is not stopped, whatever is in a log file *)
(* reaches the destination, or is lost for one of the named reasons.       *)
EventuallySent ==
    <>[](alive /\ ~drain) => \A e \in Events : e \in stashed ~> e \in Settled
===============================================================================
